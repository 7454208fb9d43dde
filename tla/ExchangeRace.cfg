\* Two requests at the same time, of shared accounts, and a restored order of one of them.
CONSTANTS
  Requests = {r1, r2}
  bid = bid
  alice = alice
  bob = bob
  carol = carol
  btc = btc
  eth = eth
  usd = usd
  BTC = BTC
  ETH = ETH
  Accounts = {alice, bob}
  Assets = {btc, usd}
  Symbols = {BTC}
  Pair <- MarketOf
  Inputs <- SharedInputs
  InitialAccounts <- OpeningForSharing
  OpenOrders <- BobsBid
  MaxInFlight = 2
  Wired = {"store", "cache", "bus"}
  Faults = {}
  None = None
SPECIFICATION Spec
SYMMETRY Symmetry
INVARIANTS
  OneWriterAtATime
  PublishedIsStored
