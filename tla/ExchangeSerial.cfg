\* Four requests one after the other, two markets, nothing fails.
CONSTANTS
  Requests = {r1, r2, r3, r4}
  bid = bid
  alice = alice
  bob = bob
  carol = carol
  btc = btc
  eth = eth
  usd = usd
  BTC = BTC
  ETH = ETH
  Accounts = {alice, bob, carol}
  Assets = {btc, eth, usd}
  Symbols = {BTC, ETH}
  Pair <- MarketOf
  Inputs <- SerialInputs
  InitialAccounts <- Opening
  OpenOrders <- NoOrders
  MaxInFlight = 1
  Wired = {"store", "cache", "bus"}
  Faults = {}
  None = None
SPECIFICATION Spec
SYMMETRY Symmetry
INVARIANTS
  TypeOK
  LocksMatchBook
  BalancesExplained
  StoreAgrees
  ReadersAgree
