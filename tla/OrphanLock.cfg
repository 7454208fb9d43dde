\* A crash before the order row is written: are the restored locks those of the book?
CONSTANTS
  Requests = {r1}
  bid = bid
  alice = alice
  bob = bob
  carol = carol
  btc = btc
  eth = eth
  usd = usd
  BTC = BTC
  ETH = ETH
  Accounts = {alice, bob}
  Assets = {btc, usd}
  Symbols = {BTC}
  Pair <- MarketOf
  Inputs <- RestartInputs
  InitialAccounts <- Opening
  OpenOrders <- NoOrders
  MaxInFlight = 1
  Wired = {"store", "cache", "bus"}
  Faults = {}
  None = None
  MaxStops = 1
  CleanStops = FALSE
  LoadLimit = 10
SPECIFICATION RecoverySpec
INVARIANTS
  LocksMatchRestoredBook
