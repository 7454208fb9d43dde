\* Three requests one after the other, any call may fail or lose its reply.
CONSTANTS
  Requests = {r1, r2, r3}
  bid = bid
  alice = alice
  bob = bob
  carol = carol
  btc = btc
  eth = eth
  usd = usd
  BTC = BTC
  ETH = ETH
  Accounts = {alice, bob}
  Assets = {btc, usd}
  Symbols = {BTC}
  Pair <- MarketOf
  Inputs <- FaultInputs
  InitialAccounts <- Opening
  OpenOrders <- NoOrders
  MaxInFlight = 1
  Wired = {"store", "cache", "bus"}
  Faults = {"store", "ack", "cache", "bus"}
  None = None
SPECIFICATION Spec
SYMMETRY Symmetry
INVARIANTS
  BalancesNeverNegative
  LocksCoverBook
  BalancesExplained
PROPERTIES
  LostReplyFreezesAccount
