\* Two requests at the same time: does the cache show a book before its orders are stored?
CONSTANTS
  Requests = {r1, r2}
  bid = bid
  alice = alice
  bob = bob
  carol = carol
  btc = btc
  eth = eth
  usd = usd
  BTC = BTC
  ETH = ETH
  Accounts = {alice, bob}
  Assets = {btc, usd}
  Symbols = {BTC}
  Pair <- MarketOf
  Inputs <- RaceInputs
  InitialAccounts <- OpeningForRace
  OpenOrders <- OpenBid
  MaxInFlight = 2
  Wired = {"store", "cache", "bus"}
  Faults = {}
  None = None
SPECIFICATION Spec
SYMMETRY Symmetry
INVARIANTS
  CachedBooksAreStored
