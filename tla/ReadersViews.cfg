\* Two requests, one after the other, and a reader of what they write; entries expire.
CONSTANTS
  Requests = {r1, r2}
  bid = bid
  alice = alice
  bob = bob
  carol = carol
  btc = btc
  eth = eth
  usd = usd
  BTC = BTC
  ETH = ETH
  Accounts = {alice, bob, carol}
  Assets = {btc, usd}
  Symbols = {BTC}
  Pair <- MarketOf
  Inputs <- ReadInputs
  InitialAccounts <- OpeningWithSmallBid
  OpenOrders <- SmallBid
  MaxInFlight = 1
  Wired = {"store", "cache", "bus"}
  Faults = {"read"}
  None = None
  Readers = {d1}
  Watched <- Views
SPECIFICATION FairReadersSpec
INVARIANTS
  BooksShownAreWhole
  TradesShownAreAPrefix
PROPERTIES
  StaleEntriesExpire
