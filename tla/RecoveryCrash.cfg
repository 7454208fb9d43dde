\* A restored order, two requests, the process stops twice, at any step.
CONSTANTS
  Requests = {r1, r2}
  bid = bid
  alice = alice
  bob = bob
  carol = carol
  btc = btc
  eth = eth
  usd = usd
  BTC = BTC
  ETH = ETH
  Accounts = {alice, bob}
  Assets = {btc, usd}
  Symbols = {BTC}
  Pair <- MarketOf
  Inputs <- CrashInputs
  InitialAccounts <- OpeningWithWholeBid
  OpenOrders <- WholeBid
  MaxInFlight = 1
  Wired = {"store", "cache", "bus"}
  Faults = {"cache"}
  None = None
  MaxStops = 2
  CleanStops = FALSE
  LoadLimit = 10
SPECIFICATION RecoverySpec
SYMMETRY Symmetry
INVARIANTS
  BalancesNeverNegative
  RestartIsTransparent
  StartsFromStore
  StartsMeetNoConflict
  LocksAreRebuilt
  StoredTradesWithinRows
  AnsweredIsDurable
  OpenOrdersReturn
PROPERTIES
  RecoveryMovesNoFunds
  TimePriorityKept
