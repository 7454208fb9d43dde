# A TLA+ model of the AtlasX exchange core

The repository is a small spot exchange in Go: an HTTP API over a matching
engine, a wallet, a risk check and market data, with PostgreSQL as the store,
Redis as a cache and Redpanda as the event bus. This directory holds TLA+ modules
of its core, TLC configurations that check them on small instances, and theorems
about the matching engine, the exchange, its funds, its readers, its restarts and its start-up that
hold for every instance.

## Inventory

| Part | Source | State | Operations |
| --- | --- | --- | --- |
| Matching engine | `internal/engine/book.go` | per symbol: bids, asks (sorted slices of shared `*Order`), `seq`, a mutex | Restore, Submit (match, rest), Snapshot |
| Exchange | `internal/platform/exchange.go` | the wiring, the audit list | NewExchange, Deposit, PlaceOrder, reads, Close |
| Wallet | `internal/wallet/service.go` | accounts: version, available and locked per asset, an RWMutex | Reserve, Settle, ReleaseRemaining, AdjustRemainingReservation, GetAccount, ReplaceAccount, RebuildReservations |
| Risk | `internal/risk/service.go` | none | ValidateOrder |
| Market data | `internal/marketdata/service.go` | trades per symbol | Load, Record, Trades |
| Store | `internal/storage/postgres.go`, `schema.sql` | accounts with a version column, balances, orders, trades, audit, outbox | Bootstrap, Persist* |
| Cache | `internal/cache/redis.go` | accounts, order books, trades, each with a TTL | Get*/Set* |
| Bus | `internal/events/redpanda.go` | topics orders, trades, audit | Publish |
| API, start-up | `internal/api/server.go`, `cmd/exchanged/main.go`, `internal/config` | none | one goroutine per request; connect with retries |
| No-op adapters | `*/noop.go` | none | stand-ins for store, cache, bus |

How they interact: every HTTP request is a goroutine that runs `Deposit` or
`PlaceOrder` to the end. There is no lock around a request. The wallet and each book
have a mutex for one call at a time; between calls a request works with *copies*
of accounts (`GetAccount` clones, `ReplaceAccount` puts a clone back) and with
*pointers* to orders, which the book and all requests that match them share. Several
fields of an order (`Remaining`, `ReservedAmount`, `Status`) are read and written
with no lock at all. Accounts are guarded in the store by an optimistic version
check; orders, trades and audit events are not guarded. Every call to the store, the
cache or the bus can fail, and a commit can take effect and still return an error.
Nothing is undone on failure.

What is hard, therefore: (1) interleavings of requests that share an account or an
order; (2) a failure in the middle of a request; (3) the order in which store, memory,
cache and topics learn of a change; (4) restarts, which rebuild memory from whatever
was stored. What makes each part correct:

* engine: price-time priority, nothing crossed left behind, exactly the waiting orders in the
  book, fills that add up;
* wallet: locked funds are those of the open orders, nothing is created or lost,
  nothing goes negative, a matched order finds its funds;
* store, cache, bus: the same as memory between requests, nothing published that is not
  stored, one writer per account version;
* exchange: every request is answered.

The hazards are listed with their lines in `PROJECT.json`.

## Modules

| Module | What it is |
| --- | --- |
| `BookOps` | Operators of the engine: price and arrival order, crossing, fill, insertion by stable sort |
| `OrderBook` | The engine of one symbol: restore, submit, one step per iteration of the matching loop |
| `PriceTimePriority` | What a price-time-priority book promises, as sets; no queue, no sorting |
| `ModelLemmas` | Lemmas about sums, finite sets, sequences and insertion that the proofs share |
| `OrderBookProofs` | Theorems about `OrderBook` |
| `WalletOps` | Wallet arithmetic on one account record, and the risk check |
| `Exchange` | Deposit and PlaceOrder of many concurrent requests over wallet, books, market data, store, cache and bus |
| `ExchangeProperties` | What the exchange promises while it runs |
| `ExchangeBooks` | Each book inside the exchange as an instance of `PriceTimePriority` |
| `ExchangeTypes` | Theorems: types, balances never negative when requests come one at a time, one writer per account version, lost replies |
| `ExchangeFunds` | Theorems: where the funds are when requests come one at a time, and that locks are exactly what the open orders need |
| `ExchangeLedger` | Theorems: every unit is accounted for; store, cache and topics agree with memory between requests |
| `Recovery` | `Exchange` in a process that can die at any step, and `NewExchange` over what the store then holds |
| `RecoveryProperties` | What a restart must restore |
| `RecoveryProofs` | Theorems: what every start gives back, whatever the crash before it |
| `Readers` | `Exchange` beside the GET endpoints that fill the cache, and entries that expire |
| `ReadersProofs` | Theorems: what is published is stored; which books and trades a GET shows |
| `Startup` | `main`: connections with retries, a signal, serving or giving up |
| `StartupProofs` | Theorems about `Startup` |
| `Rounding` | One order's reservation and settlements in floating point, beside another order of its account |
| `MCOrderBook`, `MCExchange`, `MCRecovery`, `MCReaders` | Instances for TLC |

How they compose: `Recovery` and `Readers` extend `Exchange` with its properties and
use its `Next` as one of their disjuncts; `Exchange` uses the operators of `BookOps` and
`WalletOps`, which `OrderBook` shares, and every book inside it is checked to implement
`PriceTimePriority`. `Startup` ends where `Bootstrap` of `Recovery` begins.

### OrderBook

`orders` is the heap of order records, `queue["buy"]`/`queue["sell"]` are `b.bids` and
`b.asks`, `taker` is the order whose `Submit` holds the mutex. `Submit` numbers the
order, `Match` is one iteration of `matchBuy`/`matchSell` (the two are mirror images and
one definition, parameterised by the side), `Finish` is the rest of `Submit`:
append and sort if something is left, unlock. A stable sort after an append to a
sorted slice is an insertion: `IsSlot` says where. `Restore` and `StartServing`
model the start: rows come in sequence order (`ORDER BY symbol, sequence`), then
requests are served. `loadOpenOrders` selects rows on their status only, so `Rows` has rows with
nothing left as well: such an order waits in the book until it is the maker of an empty fill. `restored` and
`opened` (what was open of an order when the book got it) are history variables the properties use. Prices and
quantities are naturals.

`PriceTimePriority` has a set of resting orders and lets the taker trade with any
crossing order nobody has priority over. `OrderBook` implements it with
`resting <- Range(queue["buy"]) \cup Range(queue["sell"])`.

### Exchange

One process per request, `job[r].pc` names its place in `PlaceOrder` or `Deposit`:

    idle -> (order) reserve -> clone -> persist -> replace -> cacheAccount
         -> submit -> match* -> loadStatus -> storeStatus -> collect
         -> per fill: settle x2, adjust x2, status x2, releaseMaker, collect x2
            adjust:  loadReserved, storeReserved, checkReserved, (clampReserved)
            release: (clip), subtract, add, clear, with the wallet's mutex
         -> releaseTaker -> per changed account: persist, replace, cacheAccount
         -> per changed order: saveOrder, marshalOrder, publishOrder
         -> saveTrades -> record -> per event: audit, saveAudit, publishAudit, publishTrade
         -> snapshot -> cacheBook -> copyTrades -> cacheTrades -> ok
    idle -> (deposit) persist -> replace -> cacheAccount -> audit, ... -> ok

A step is one access to something shared: a critical section, a call to a service, or
an unprotected load or store. `AdjustRemainingReservation` is therefore two loads and up to two stores of
`ReservedAmount`; `ReleaseRemaining`, which holds the wallet's mutex but reaches the same unprotected field, is a
comparison, a store if it clips, two loads and a last store, while other wallet operations wait (`WalletFree`). `LoadStatus` and `StoreStatus`
are separate steps too, as are the clone of an account and
`ReplaceAccount`, and the moment `PersistOrder` reads the order and the moment its
transaction commits. The maps `changedAccounts` and `changedOrders` are walked in any
order. `wallet`, `orders`, `market`, `auditLog` are memory; `db`, `cache`, `bus` the
services; `tape` is a history of each book's fills. The initial state is what
`NewExchange` leaves behind: accounts, and restored orders that are in the store, the
books and the cache.

`Faults` names what may go wrong: `"store"`, `"cache"`, `"bus"` are calls that fail
without effect, `"ack"` is a call that takes effect and returns an error, `"read"` a
cache call of a GET. `Wired` names which of store, cache and bus are real; a call to one
that is not (the no-op adapter) succeeds at once and changes nothing, and without a
store an account's version stays 0.

Abstractions: strings, time stamps, identifiers and payloads are model values; audit
and trade topics are sets of events and the orders topic keeps each key's last message;
the answer of a request is `ok` or `failed`. `updateOrderStatus` loads `Remaining` once (the code
up to twice), and the marshalling of an order for its row or its message reads all fields at one instant.
Balances are integers: nothing in the code keeps them from becoming negative.

### Recovery

`boot` is the process: `serving` (then `Exchange`'s `Next` applies), `down`, or somewhere
in `NewExchange`. `Stop` can happen in any state, also during a start: requests that were
being served are never answered, memory is gone, services keep what they have.
`Bootstrap` is what happens in memory only, in one step: the four queries (`OpenRows`
selects by status, `IsLoadOrder` is `ORDER BY symbol, sequence`, `OldestTrades` and
`OldestEvents` the `LIMIT`), `Restore` of every row, and `RebuildReservations`, which first frees
and then takes the locks again, row by row (`Freed`, `Granted`, `Relocked`).
`SyncAccount`, `BootCache`, `WarmBook` and `WarmTrades` are the service calls of
`rebuildRecoveredState`, one step each; `Listen` begins to serve. A version conflict ends the
start, like `log.Fatal`. `before` is a history variable.

Abstractions: rows that were restored into a symbol nobody trades any more do not occur;
which of two trades of different symbols is older is left open, as is the order of the
audit events of different requests.

### Readers

`reads[d]` is a goroutine that serves one GET after another: `Lookup` asks the cache,
`Load` copies the wallet, the book (under its mutex) or the trades, `Store` puts the copy
into the cache and answers. `Expire` drops any entry at any time. `past` is a history of the
books each symbol has had while nobody was matching.

### Startup

The configured services are connected in order, each with `withRetry`: `Connect`, `Refused`,
and the `select` of `Timer` and `Abort`; `Skip` passes over a service that is not
configured, `Trying` is an attempt under way. Then `NewExchange` and the listener, which serve or end the
process. `Signal` cancels the context; PostgreSQL sees it, the clients of Redis and Redpanda
are made without it. While it serves the process ignores the signal and `Close` never runs:
every stop is a `Stop` of `Recovery`.

### Rounding

The other modules compute with integers. Here a number has `Precision` significant binary
digits and every operation rounds to nearest, ties to even, as float64 does with 53.
One order is reserved, filled by makers of any size, settled and released, while another order of the account
(`other`) keeps its reservation in the same `Locked` balance. `rounded` counts the results that were rounded into the
balance or the reservation; it is the history `DriftIsBounded` refers to.

## Runs

| Run | Instance | Question |
| --- | --- | --- |
| `book` | 3 orders, prices 1..3, quantities 1..2, any of them restored, with something left or nothing | is the engine a price-time-priority book? |
| `serial` | 4 requests in turn, 2 symbols, 3 accounts, 13 inputs | do all parts agree after each request? |
| `faults` | 3 requests in turn, every fault | what survives a failure at any call? |
| `race` | 2 requests at once on shared accounts, a restored order | what do version check and call order guarantee? |
| `live` | a buyer and a seller at once, no cache and no bus, fair | is every request answered? is the book one of price-time priority? |
| `crash` | 2 requests in turn, a restored order, 2 stops at any step, cache faults | what does a restart restore? |
| `readers` | 2 requests in turn, a reader, expiry, read faults, fair | what can a client see? |
| `startup` | 3 services, 4 attempts each, a signal at any moment, fair | does a start end, and how? |
| `rounding` | 4 digits, prices and quantities up to 12, 0, 5 or 22 locked by another order | what does rounding leave intact, and how far can it drift? |
| `locks_race` | 2 requests at once, no fault | does an accepted order stay reserved? (no) |
| `ghost_order` | 2 requests at once, a clean restart | does a filled order stay away? (no) |
| `old_trades` | 2 trades, a limit of 1, a clean restart | are the recent trades loaded? (no) |

Why these bounds: three orders are enough for a queue of two on one side and an
incoming order that sweeps, skips or splits it, with ties and three price levels; the serial run
needs four requests for two makers, a taker that takes both and rests, and another that
meets the rest. Its inputs include price improvement, a self trade, a second book with the same
quote asset, a new account and every refusal. Each interaction of two requests the
code has is between an account, an order or a cache key that *two* of them share, so
two in flight show them; the inputs of `race` make them share all three (a buy, a
sell that fills it, a deposit to either account, enough funds for one buy but not two), and a
restored order of two units, of the seller's own account, has both sells as takers. (The side configurations
below have the buyer's instead.) `crash` has two requests, so that
one can be accepted after a restart that followed another, and two stops, so that a start can
itself be interrupted; alice's bid takes most of her dollars, so that a restored lock can fall
short. `readers` has a taker that rests after it has matched, a second one that takes it, and an account nobody
has read or written before. `startup` behaves the same for any number of attempts: the bound only
has to leave room between the first and the last. In `rounding` products need up to eight
digits where the format has four, so that sums and differences round in every direction.

The largest runs (`race`, `faults`, `crash`, `rounding`) have about one to three million distinct states; each takes at most
a few minutes.

Requests are interchangeable, so the safety runs use symmetry; `live` and `readers` do not.

Deadlock is checked for the exchange (`AllAnswered` lets an instance whose requests are all
answered stand still). `book` does not check it, because identifiers run out;
`SubmitReturns` shows that `Submit` does not get stuck.

Fairness: `WF` of the steps inside `Submit`, and of every request once it was accepted:
the Go scheduler runs what can run, and calls to services return. In `readers` also of a GET
once its lookup has missed, and of `Expire`: Redis drops every entry when its time to live
(2 or 5 minutes) is over. In `startup` of the process's own steps: an attempt returns and a
timer fires. Nobody is obliged to send a request, to read, or to signal.

### What holds

* The book stays sorted, complete and uncrossed, fills are within both limits and add
  up, nobody is overtaken, and it implements `PriceTimePriority` (`book`); so does each
  book inside the exchange, whatever goroutines do to its orders outside the mutex
  (`live`). An order that was restored with nothing left makes one empty fill and leaves.
* One request at a time: locks are exactly the open orders' needs, every unit is accounted for
  by the audit log and the tape, store, cache and topics equal memory (`serial`).
* With failures, one at a time: no balance is ever negative, locks still cover the book, every unit is still
  accounted for, and an account whose commit reply was lost stays as it is until a
  restart (`faults`).
* With interleavings: the version column admits
  one writer at a time so that memory's version never moves back; cached accounts are no newer than their rows, and
  trades, audit events and orders are stored before they are cached or put on a topic (`race`; cached order books
  are not covered, see `BookAhead`, nor the audit log in memory, which `GET /v1/audit` copies); every request is answered (`live`).
* After a stop between successful requests everything is as it was, even if the start
  is interrupted. After a crash at any step, requests in turn: no balance is negative, memory, store and the cached books and trade
  lists agree; locks of assets with open orders are the sum of what the orders say they reserve, which is less than
  an order's row asks for only where the account has nothing left; a start moves no funds and is never refused by the version check;
  stored trades never claim more of an order than its row gave up; what was answered is there;
  open orders return in their time priority (`crash`).
* A reader never sees a book half matched, nor a trade list with a gap or an unstored trade; a stale
  entry goes away (`readers`).
* A start ends, never serves with a no-op adapter in place of a configured service, and makes at
  most one more attempt after a signal (`startup`).
* In floating point, an order's fills still exhaust it exactly; where the products fit the format, everything is as
  with integers; and elsewhere the locked balance drifts from what the orders reserve by at most half a spacing of the largest
  balance per rounded result (`rounding`). Dust does stay locked: see `RoundingDust`.

### What does not hold

1. `locks_race`: a deposit between an order's `Reserve` and its clone puts the
   pre-reservation copy back; both succeed, and the order rests with nothing locked.
2. `ghost_order`: of two requests in flight the last one to write an order's row can have
   read it earlier than the other, or its status later than its quantity; a filled order then keeps
   an open status and is restored, with nothing left, at the next start.
3. `old_trades`: `ORDER BY executed_at LIMIT 1000` loads the oldest trades, where the
   documentation says recent ones.

Further counterexamples of the same mechanisms are kept as configurations beside the runs, to be
checked by hand (`tlc -config <cfg> <module>`); the property stands, with what it is about, next to its definition:

| Configuration | Module | What TLC finds |
| --- | --- | --- |
| `ReleaseRace` | `MCExchange` | two requests fill the same maker: one stores `ReservedAmount` (`AdjustRemainingReservation`, no lock) between the comparison and the subtraction of the other's `ReleaseRemaining`, and a locked balance becomes negative |
| `BookAhead` | `MCExchange` | a request caches a book that shows another request's order, which is not stored yet |
| `SettlementRace` | `MCExchange` | an order filled by another request before its own has reached line 191 releases the funds that fill needs; the other request fails with "locked underflow" after the match |
| `LocksLeak` | `MCExchange` | a failed write after `Reserve` leaves funds locked for no order |
| `CacheRace` | `MCExchange` | the older of two account copies is the last one written to Redis |
| `OrderRowRace` | `MCExchange` | row and topic of an order end up with different remaining quantities |
| `LostDeposit` | `MCExchange` | without a store, one of two deposits that copied the same account is lost |
| `OrphanLock` | `MCRecovery` | a crash between the account write of a reservation and the order's row: a lock with no order, which no restart frees |
| `UnderfundedOrder` | `MCRecovery` | a crash between the accounts and the order rows of a match: the restored order is worth more than it has locked |
| `TornSettlement` | `MCRecovery` | a crash between the two account rows of a match: units appear or vanish |
| `StaleCacheStart` | `MCRecovery` | a crash between an account's row and its cache entry: the start leaves the old entry |
| `StaleFill` | `MCReaders` | a read that missed writes the account it read before a deposit over the deposit's |
| `RoundingDust` | `Rounding` | with a second order on the account something stays locked, or is missing, when an order is done; in float64, of 0.1 and 0.2 locked and settled 2.8e-17 stays |
| `RoundingUnderflow` | `Rounding` | rounded costs of the fills exceed the rounded reservation; in float64 price 0.1, quantity 0.3, fills 0.1 and 0.2 |

`SingleProcess` (`MCExchange`) passes: with all three adapters no-ops and requests in turn, locks
and balances are as in `serial`.

## Proofs

TLAPS (SMT and Zenon backends, PTL for the temporal steps) proves the following for
every value of the constants that satisfies the named assumptions: `BookAssumption`,
`ExchangeAssumption`, `NoneAssumption`, `RecoveryAssumption`, `ReadersAssumption`, `StartupAssumption`. They say what the program's
start guarantees (accounts and orders are of their types, a pair has two assets, an empty store has no
balances, no account is the value that stands for an absent one, ...) and nothing about inputs. Each theorem rests on one inductive
invariant, a conjunction of named parts, with one lemma per action.

| Module | Theorem | Hypothesis | Says |
| --- | --- | --- | --- |
| `OrderBookProofs` | `BookIsSafe`, and from it `QueuesStaySorted`, `MatchingUncrosses`, `OpenOrdersStay`, `FillsRespectLimits` | | `BookInvariant` and its parts |
| | `NobodyIsOvertaken`, `FillsAccount` | | `NoOvertaking`, `FillsAccountForQuantity` |
| | `BookImplementsPriceTimePriority` | | `Spec => PTP!Spec` |
| `StartupProofs` | `ConfiguredServicesAreConnected`, `RetriesStayBounded` | | `NoSilentFallback`, `RetriesAreBounded` |
| `ExchangeTypes` | `TypesArePreserved`, `ExchangeTypeOK` | | `TypeOK` |
| | `BalancesStayNonNegative` | `Serial` | `BalancesNeverNegative` |
| | `OneWriter`, `LostReplyFreezes` | a store | `OneWriterAtATime`, `LostReplyFreezesAccount` |
| `ReadersProofs` | `WhatIsPublishedIsStored` | a store | `PublishedIsStored` |
| | `WholeBooksAreShown`, `PrefixesAreShown` | a store | `BooksShownAreWhole`, `TradesShownAreAPrefix` |
| `ExchangeFunds` | `FundsAreKept`, `LocksCover`, `FillsAreFunded` | `Serial`, `Funded` | `LocksCoverBook`, `MatchedFundsAreReserved` |
| | `LocksMatch` | `Serial`, `Funded`, `Snug`, `Writable` | `LocksMatchBook` |
| `ExchangeLedger` | `UnitsAreAccounted` | `Serial`, `Funded` | `BalancesExplained` |
| | `StoreHoldsMemory` | `Serial`, `Funded`, `Dependable`, `Numbered` | `StoreAgrees` |
| | `ReadersSeeMemory` | the same, `Mirrored` | `ReadersAgree` |
| `RecoveryProofs` | `RestartsStaySolvent` | `Serial` | `BalancesNeverNegative` of `RecoverySpec` |
| | `NoStartMeetsAConflict` | finitely many requests | `StartsMeetNoConflict` |
| | `RestartsRebuildLocks`, `StartsMoveNoFunds` | finitely many requests | `LocksAreRebuilt`, `RecoveryMovesNoFunds` |
| | `StartsServeTheStore` | the same, a cache | `StartsFromStore` |
| | `AnswersAreDurable` | the same, a bus | `AnsweredIsDurable` |

The hypotheses: *a store* is `"store" \in Wired`; without PostgreSQL an account's version
stays 0, two writers do interfere (`LostDeposit`), and nothing is stored. `Serial` is
finitely many requests, one in flight, and no negative balance or reservation to begin with: with two requests, `ReleaseRace`, `SettlementRace` and `locks_race` refute the
conclusions. `Funded` is about the start only: a restored order has reserved no more than what is left
of it needs, and no account has less locked than its orders reserved, which is what
`RebuildReservations` leaves behind when no account is short. `Snug` is that the start has locked exactly what the restored orders need and say.
For `LocksMatch` no account write fails or loses its reply (`Writable`): with one that does the funds stay locked
(`LocksLeak`). `Dependable` is a store, no failing call to the store or the bus and no lost reply: a failed call ends
the request before the others have been told the rest, and nothing repeats it (`LocksLeak` is one such case). `Mirrored` is a cache and a bus, and a
cache that does not fail: its errors are ignored by the code. `Numbered` is about the start: restored orders have been
numbered by the engine and their status is that of what is left. All other theorems hold for every `Faults`.

**The book.** That matching leaves no cross (`NoNewCross`) needs that the head of a queue is
the best of it (`PriceTimeSorted`, lemma `HeadFirst`); that inserting keeps a queue
sorted needs that there are no ties (`ArrivalsDistinct`, with `seq` above all numbers
in use); that a popped head is the only order to leave needs that the queues hold exactly
the waiting orders (`BookHoldsOpenOrders`), of their own side, where an order waits while something of it is left or, restored with nothing
left, until it has made a fill (`Waiting`); that a fill's price stays its
maker's needs that the parties of a trade are known and never numbered again
(`LifeOfOrders`). Lemmas about insertion (`PlacedProperties`, `PlacedRange`, `PlacedSorted`) and
about one fill (`MatchOrders`, `MatchQueue`) carry the rest. `FillsAccount` needs sums over sets:
`ModelLemmas` proves that a sum over a finite set is the sum over a part and the rest, that it changes
with one member and is bounded termwise. The library's induction theorems take an operator, so each
induction there is over the *set* of the numbers for which the claim holds.

**Types of the exchange.** `TypeOK` alone is not inductive: a goroutine's local
variables have different types at different labels. `TypeInvariant` adds them: `Phased` (who has a
request, whose order exists), `Positioned` (which fill `at` and `role` stand for), `Priced` (what its
copies of accounts are) and `Loaded` (rows, views, status). Balances and reservations are integers of either sign in it. When
requests take turns they are not negative: `Solvent` accounts have natural balances then, and `Turns` says why no release spoils that:
one goroutine at a time, a reservation below zero only between a store and its clamp, and a release that subtracts no more than is
locked and gives back what it has subtracted. `Turns` is what two requests in parallel break.

**Versions.** `OneWriter` and `LostReplyFreezes` add to the types that memory and every copy are at
most as new as the row (`CacheBehind`, `Copies`), that a copy's version names its account's row
(`Named`), and `OneWriterAtATime` itself. A copy that is persisted has the row's version, and the row
then leaves all other copies behind.

**What is published.** `PublishedIsStored` needs `Stored` (an order that was matched or accepted at some label is
stored at the later ones) and `Ready` (`Backed`, `Gathered`, `Covered`: the fills of a goroutine name orders
that are stored or still in its `pending`). The order of the calls in `PlaceOrder` is all the proof uses, so it
holds for any interleaving and failure. `ReadInvariant` adds for the readers that `past` has
every book there was when nobody matched (`BooksOnRecord`), and that cache entries and the copies of goroutines on their way
to the cache are truthful (`CacheIsTruthful`, `Viewed`, `Reading`).

**Funds.** `FundsInvariant` says where the locked money is at every label of the one request in flight:
an order that was not submitted has a claim to what it reserved, one that was to what its
remaining quantity needs and to its fills that are not settled yet (`Due`, `Unpaid`). `Locked` says that
the wallet's locked balances are these claims and the surplus; `Backed` that `ReservedAmount` covers what
can still be asked for, where `Unreduced` fills are those `AdjustRemainingReservation` has
not subtracted. `Keeps` (`BeforeSubmit`, `Matched`, `Copied`) says what the local variables are, among them that a copy of an account in the
second half of `PlaceOrder` still has the wallet's balances, so that writing it back changes nothing. A step moves
a claim from one of the three places to another. `FillsAreFunded` is the conclusion
that the same code in parallel does not satisfy.

**The ledger.** `LedgerInvariant` adds, at every label, that a balance is what the audit log and the tapes
explain, and a deposit that is in the wallet and not yet in the log (`Credit`), and without the
halves of fills that are on the tape and not yet settled (`Outstanding`). It needs that the last entries of the tape are
the goroutine's own fills (`Taped`) and that only its own events are new (`Noted`).

**The agreement.** `StoreAgrees` and `ReadersAgree` speak of the moments between requests. `AgreeInvariant` says for
every label of the request in turn what each of the others has yet to learn, and that it knows everything else (`Agreeing`):
the store lacks the accounts that were reserved or settled and not yet persisted (`AccountsDue`), the orders whose fills are being
applied and those left in `changedOrders` (`OrdersDue`), the market data and cached trades the fills not yet recorded
(`TapesDue`, `TradesUncached`), the topics the trade or event whose turn it is, the cached book what `Submit` did to
the queue. With nobody in turn nothing is due (`Agreed`). A step removes one item from what is due, and the label after the
last one has none: that needs that no loop leaves before its set is empty, and that a copy written to the store is what memory then
has. The first half comes from `Gathered` (each fill applied so far has its taker and maker among the orders to be stored) and
`StatusesAgree` (whose status is still that of an earlier fill); the second from the versions (`OneWriterAtATime`) and from `Copied`
of the funds proof.

**Exact locks.** `LocksMatch` needs that `LocksInvariant` has no order outside the books with a claim: what was
submitted and has something left is in its queue (`Rests`), and a request that gives up before `Submit`
has reserved nothing (`NothingKept`). The second holds because the write between `Reserve` and `Submit`
cannot be refused: the copy has the version of memory (`Timely`), and memory has the version of the row,
which is where `Writable` is used.

**Restarts.** `RecoveryInvariant` holds for any number of stops, requests in parallel and every `Faults`. What
the store keeps while nobody serves must be enough to rebuild typed memory: `RowsSent` (a row of a
client's order has the number its book gave it) needs `Sending`, that only orders a book has taken are ever matched,
collected, read for a row or persisted. `RebuildReservations` is a fold over the rows in the order of the query.
`Relocking` says of the rows taken so far what it has done: accounts keep their totals and versions, the locked balance
of a lock is the sum of what the orders taken so far were granted (`Parts`), and an order was granted what its row
wants unless nothing is available. It is proved for one row (`RelockingStep`) and for all of them by
induction over the set of the positions taken. `Restored` keeps it while a start is under way, together with what the steps done so
far have written: a synced account equals its row, one that is not yet has its version, a warmed book is the
one in memory. A start that is interrupted begins again from rows that some accounts have left and others
have not, and the next `Bootstrap` establishes `Restored` anew: that is why no theorem needs to know how often a start is
interrupted. `AnswersAreDurable` adds `Durable`: until it is answered a goroutine knows all the fills made for it, and what it
has stored and published follows from its label (`Published`). A crash turns a goroutine that is not answered into one that
has promised nothing, which is the only reason the invariant survives `Stop`.

**Start-up.** `StartupInvariant`: what is connected is what is configured without what is left to do, and the attempt and
the attempts after the signal are within their bounds at each label.

Only model-checked, and why:

* liveness and `ENABLED`: out of the prover's reach;
* `BooksArePriceTimePriority`, each book of the exchange as a `PriceTimePriority`: the instance is
  parameterised by the symbol, which this prover does not support;
* `RestartIsTransparent`, `StoredTradesWithinRows`, `OpenOrdersReturn` and `TimePriorityKept`, checked in `crash`: the first three
  need that rows equal memory between the steps of a request in turn, which is `Agreeing` carried through
  crashes and starts; the last needs the order of the rows of a symbol to determine its queue, also while rows are written late;
* `Rounding`: its operators are powers of two found by `CHOOSE`; the run covers all inputs up to its bounds.

## Not modelled

* The outbox rows each transaction adds: the program never reads or publishes them.
  `PostgresStore.PersistOutbox` and `wallet.Service.Deposit` have no caller.
* `Audit()`, which copies the audit log, and `Close`, which releases connections and is not reached
  when the process is stopped.
* The HTTP layer (decoding, encoding, status codes, health check), topic creation, the schema: no state a
  property is about. There is no idempotency: a deposit that is answered with an error may have been
  credited, and a client's retry is another deposit.
* Time: `executed_at` and `created_at` are the order of the steps; two trades with the same time stamp
  are ordered by identifier in the code and by their making here.
* An abstract ledger that the serial exchange implements: `BalancesExplained` states it as
  an invariant over the tape, and a refinement at the granularity of requests would repeat it.

## Plan

Done, in this order: `BookOps`, `OrderBook`, `PriceTimePriority`, `OrderBookProofs`, `WalletOps`,
`Exchange`, `ExchangeProperties`, `Recovery`, `RecoveryProperties`, `Readers`, `Startup`, `Rounding`,
`StartupProofs`, `ExchangeTypes`, `ReadersProofs`, `ExchangeFunds`, `ExchangeLedger`, `RecoveryProofs`. Next:

1. `StoredTradesWithinRows` and `OpenOrdersReturn`: `Agreeing` holds up to a crash when no call fails; what is left to prove
   is that a start establishes it again.
2. `Rounding`: `ExactWithinPrecision`.
