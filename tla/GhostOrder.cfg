\* Two requests at the same time and a clean restart: does a filled order come back?
CONSTANTS
  Requests = {r1, r2}
  bid = bid
  alice = alice
  bob = bob
  carol = carol
  btc = btc
  eth = eth
  usd = usd
  BTC = BTC
  ETH = ETH
  Accounts = {alice, bob}
  Assets = {btc, usd}
  Symbols = {BTC}
  Pair <- MarketOf
  Inputs <- LiveInputs
  InitialAccounts <- Opening
  OpenOrders <- NoOrders
  MaxInFlight = 2
  Wired = {"store", "cache", "bus"}
  Faults = {}
  None = None
  MaxStops = 1
  CleanStops = TRUE
  LoadLimit = 10
SPECIFICATION RecoverySpec
SYMMETRY Symmetry
INVARIANTS
  NoFilledOrderRestored
