\* One deposit and a reader: does a read undo a cache write?
CONSTANTS
  Requests = {r1}
  bid = bid
  alice = alice
  bob = bob
  carol = carol
  btc = btc
  eth = eth
  usd = usd
  BTC = BTC
  ETH = ETH
  Accounts = {alice, bob}
  Assets = {btc, usd}
  Symbols = {BTC}
  Pair <- MarketOf
  Inputs <- OneDeposit
  InitialAccounts <- Opening
  OpenOrders <- NoOrders
  MaxInFlight = 1
  Wired = {"store", "cache", "bus"}
  Faults = {}
  None = None
  Readers = {d1}
  Watched <- AlicesAccount
SPECIFICATION ReadersSpec
INVARIANTS
  ReadsKeepWrites
