\* The no-op store: two deposits of one account at the same time.
CONSTANTS
  Requests = {r1, r2}
  bid = bid
  alice = alice
  bob = bob
  carol = carol
  btc = btc
  eth = eth
  usd = usd
  BTC = BTC
  ETH = ETH
  Accounts = {alice, bob}
  Assets = {btc, usd}
  Symbols = {BTC}
  Pair <- MarketOf
  Inputs <- OneDeposit
  InitialAccounts <- Nobody
  OpenOrders <- NoOrders
  MaxInFlight = 2
  Wired = {}
  Faults = {}
  None = None
SPECIFICATION Spec
SYMMETRY Symmetry
INVARIANTS
  BalancesExplained
