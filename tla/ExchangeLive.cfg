\* Two requests at the same time, no cache and no bus, under the fairness of the scheduler.
CONSTANTS
  Requests = {r1, r2}
  bid = bid
  alice = alice
  bob = bob
  carol = carol
  btc = btc
  eth = eth
  usd = usd
  BTC = BTC
  ETH = ETH
  Accounts = {alice, bob}
  Assets = {btc, usd}
  Symbols = {BTC}
  Pair <- MarketOf
  Inputs <- LiveInputs
  InitialAccounts <- Opening
  OpenOrders <- NoOrders
  MaxInFlight = 2
  Wired = {"store"}
  Faults = {}
  None = None
SPECIFICATION FairSpec
PROPERTIES
  EveryRequestAnswered
  BooksArePriceTimePriority
