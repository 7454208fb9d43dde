\* A crash between an account row and its cache entry: is the cache fresh after the start?
CONSTANTS
  Requests = {r1}
  bid = bid
  alice = alice
  bob = bob
  carol = carol
  btc = btc
  eth = eth
  usd = usd
  BTC = BTC
  ETH = ETH
  Accounts = {alice, bob}
  Assets = {btc, usd}
  Symbols = {BTC}
  Pair <- MarketOf
  Inputs <- CrashInputs
  InitialAccounts <- OpeningWithWholeBid
  OpenOrders <- WholeBid
  MaxInFlight = 1
  Wired = {"store", "cache", "bus"}
  Faults = {}
  None = None
  MaxStops = 1
  CleanStops = FALSE
  LoadLimit = 10
SPECIFICATION RecoverySpec
INVARIANTS
  CacheFreshAfterStart
