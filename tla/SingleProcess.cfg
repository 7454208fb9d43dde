\* The no-op adapters: five requests one after the other, nothing stored before.
CONSTANTS
  Requests = {r1, r2, r3, r4, r5}
  bid = bid
  alice = alice
  bob = bob
  carol = carol
  btc = btc
  eth = eth
  usd = usd
  BTC = BTC
  ETH = ETH
  Accounts = {alice, bob}
  Assets = {btc, usd}
  Symbols = {BTC}
  Pair <- MarketOf
  Inputs <- NoopInputs
  InitialAccounts <- Nobody
  OpenOrders <- NoOrders
  MaxInFlight = 1
  Wired = {}
  Faults = {}
  None = None
SPECIFICATION Spec
SYMMETRY Symmetry
INVARIANTS
  LocksMatchBook
  BalancesExplained
