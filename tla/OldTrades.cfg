\* More trades than LoadTrades' limit and a clean restart: are the recent ones loaded?
CONSTANTS
  Requests = {r1, r2}
  bid = bid
  alice = alice
  bob = bob
  carol = carol
  btc = btc
  eth = eth
  usd = usd
  BTC = BTC
  ETH = ETH
  Accounts = {alice, bob}
  Assets = {btc, usd}
  Symbols = {BTC}
  Pair <- MarketOf
  Inputs <- SellInputs
  InitialAccounts <- OpeningWithWholeBid
  OpenOrders <- WholeBid
  MaxInFlight = 1
  Wired = {"store", "cache", "bus"}
  Faults = {}
  None = None
  MaxStops = 1
  CleanStops = TRUE
  LoadLimit = 1
SPECIFICATION RecoverySpec
SYMMETRY Symmetry
INVARIANTS
  RecentTradesLoaded
