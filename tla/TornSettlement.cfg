\* A crash between the two account rows of a settlement: are the units conserved?
CONSTANTS
  Requests = {r1}
  bid = bid
  alice = alice
  bob = bob
  carol = carol
  btc = btc
  eth = eth
  usd = usd
  BTC = BTC
  ETH = ETH
  Accounts = {alice, bob}
  Assets = {btc, usd}
  Symbols = {BTC}
  Pair <- MarketOf
  Inputs <- SellInputs
  InitialAccounts <- OpeningWithWholeBid
  OpenOrders <- WholeBid
  MaxInFlight = 1
  Wired = {"store", "cache", "bus"}
  Faults = {}
  None = None
  MaxStops = 1
  CleanStops = FALSE
  LoadLimit = 10
SPECIFICATION RecoverySpec
INVARIANTS
  UnitsSurviveRestart
