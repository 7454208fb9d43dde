------------------------------ MODULE Exchange ------------------------------
(***************************************************************************)
(* platform.Exchange (internal/platform/exchange.go): Deposit and          *)
(* PlaceOrder, each request a goroutine of its own, over the wallet, the   *)
(* order books, the market data, the store, the cache and the event bus.   *)
(*                                                                         *)
(* A step is a stretch of code that touches shared state once: one         *)
(* critical section of a mutex, one call to a service, or one unprotected  *)
(* load or store of a field of an order other goroutines can reach.  The   *)
(* request's local variables are the record job[r].                        *)
(*                                                                         *)
(* The initial state is the one NewExchange leaves behind over a store     *)
(* that holds accounts and open orders (none of them matched yet, so that  *)
(* the trade histories start out empty).                                   *)
(***************************************************************************)
EXTENDS BookOps, WalletOps, FiniteSets

CONSTANTS
  Requests,        \* goroutines; an order is named by the request that made it
  Accounts, Assets,
  Symbols, Pair,   \* Pair[s] = [base |-> asset, quote |-> asset]
  Inputs,          \* what clients may ask for
  InitialAccounts, \* [Accounts -> account record], as NewExchange rebuilt them
  OpenOrders,      \* the restored orders: a function from identifiers to records
  MaxInFlight,     \* bound: requests being served at the same time
  Wired,           \* which of "store", "cache", "bus" are not the no-op adapters
  Faults,          \* which calls may fail: "store", "ack", "cache", "bus"; "read":
                   \* a cache call of a GET (module Readers)
  None

(* The records: domain.Account, domain.Order and, without its identifiers, *)
(* domain.Trade.                                                           *)
Amount == [available : Int, locked : Int]

Account == [id : Accounts, version : Nat, balances : [Assets -> Amount]]

Order == [account : Accounts, symbol : Symbols, side : Sides, price : Nat,
          quantity : Nat, remaining : Nat, reserved : Int, sequence : Nat,
          status : {"open", "partially_filled", "filled"}]

(* Order identifiers. *)
Orders == Requests \cup DOMAIN OpenOrders

Trade == [maker : Orders, taker : Requests, price : Nat, quantity : Nat]

(* What the decoder accepts: numbers of any sign, any symbol and side. *)
WellFormed(in) ==
  \/ in.kind = "deposit" /\ in.account \in Accounts /\ in.asset \in Assets /\ in.amount \in Int
  \/ in.kind = "order" /\ in.account \in Accounts /\ in.price \in Int /\ in.quantity \in Int

ASSUME ExchangeAssumption ==
  /\ \A s \in Symbols : Pair[s].base \in Assets /\ Pair[s].quote \in Assets
  /\ \A s \in Symbols : Pair[s].base # Pair[s].quote
  /\ MaxInFlight \in Nat
  /\ Wired \subseteq {"store", "cache", "bus"}
  /\ Faults \subseteq {"store", "ack", "cache", "bus", "read"}
  /\ \A in \in Inputs : WellFormed(in)
  /\ InitialAccounts \in [Accounts -> Account]
  /\ \A a \in Accounts : InitialAccounts[a].id = a
  /\ IsFiniteSet(DOMAIN OpenOrders)
  /\ OpenOrders \in [DOMAIN OpenOrders -> Order]
  /\ DOMAIN OpenOrders \cap Requests = {}
  /\ "store" \notin Wired => \* NoopStore.Bootstrap
       /\ DOMAIN OpenOrders = {}
       /\ \A a \in Accounts, asset \in Assets :
            /\ InitialAccounts[a].version = 0
            /\ InitialAccounts[a].balances[asset] = [available |-> 0, locked |-> 0]
  /\ None \notin Requests \cup DOMAIN OpenOrders
  /\ None \notin Order

(* An absent account is told from an account. *)
ASSUME NoneAssumption == None \notin Account

VARIABLES
  wallet,   \* wallet.Service.accounts
  orders,   \* every *domain.Order, by identifier
  queue,    \* queue[symbol][side]: bids and asks
  seq,      \* OrderBook.seq, per symbol
  holder,   \* the request inside Submit, per symbol (OrderBook.mu)
  tape,     \* history: the fills of each book, in the order they were made
  market,   \* marketdata.Service.trades
  auditLog, \* Exchange.audit: the events appended so far
  db,       \* PostgreSQL
  cache,    \* Redis
  bus,      \* the Redpanda topics; of the orders topic, each key's last message
  job       \* the goroutines

book == <<queue, seq, holder, tape>>
memory == <<wallet, orders, market, auditLog>>
services == <<db, cache, bus>>
vars == <<memory, book, services, job>>

-----------------------------------------------------------------------------
(* State *)

Status(order) ==
  IF order.remaining = 0 THEN "filled"
  ELSE IF order.remaining < order.quantity THEN "partially_filled" ELSE "open"

NewOrder(in) ==
  [account |-> in.account, symbol |-> in.symbol, side |-> in.side,
   price |-> in.price, quantity |-> in.quantity,
   remaining |-> 0, reserved |-> 0, sequence |-> 0, status |-> "open"]

(* What OrderBook.Restore of every open order `rows' has of a symbol leaves *)
(* behind: these orders, sorted.                                           *)
RestoredBook(rows, s) == [side \in Sides |->
  CHOOSE q \in SetToSeqs({o \in DOMAIN rows : rows[o].symbol = s /\ rows[o].side = side}) :
    \A i, j \in DOMAIN q : i < j => ~Before(rows, q[j], q[i])]

(* Mutant of RestoredSeq: b.seq is not advanced. *)
SeqFromZero(rows, s) == 0

RestoredSeq(rows, s) ==
  LET numbers == {rows[o].sequence : o \in {p \in DOMAIN rows : rows[p].symbol = s}}
  IN  IF numbers = {} THEN 0 ELSE Max(numbers)

(* OrderBook.Snapshot: copies of the orders, in the order of the queues.   *)
Snapshot(ord, sides) == [side \in Sides |->
  [i \in DOMAIN sides[side] |-> ord[sides[side][i]]]]

(* A goroutine: where it is, its request, its fills and the one it is      *)
(* applying, whose turn it is in that fill, the account it is syncing, the *)
(* changedAccounts and changedOrders maps, and what it last read.          *)
Idle == [pc |-> "idle", input |-> None, fills |-> << >>, at |-> 0, role |-> "taker",
         clone |-> None, accounts |-> [a \in Accounts |-> None], pending |-> {},
         seen |-> 0, status |-> None, row |-> None, view |-> None]

ColdCache == [accounts |-> [a \in Accounts |-> None],
              books |-> [s \in Symbols |-> None], trades |-> [s \in Symbols |-> None]]

NewExchange ==
  /\ wallet = InitialAccounts
  /\ orders = [o \in Orders |-> IF o \in Requests THEN None ELSE OpenOrders[o]]
  /\ market = [s \in Symbols |-> << >>]
  /\ auditLog = {}
  /\ queue = [s \in Symbols |-> RestoredBook(OpenOrders, s)]
  /\ seq = [s \in Symbols |-> RestoredSeq(OpenOrders, s)]
  /\ holder = [s \in Symbols |-> None]
  /\ tape = [s \in Symbols |-> << >>]
  /\ db = [accounts |-> InitialAccounts, orders |-> orders,
           trades |-> {}, audit |-> {}]
  /\ cache = IF "cache" \notin Wired THEN ColdCache ELSE
       [accounts |-> [a \in Accounts |-> IF InitialAccounts[a].version = 0
                                          THEN None ELSE InitialAccounts[a]],
        books |-> [s \in Symbols |-> Snapshot(orders, queue[s])],
        trades |-> [s \in Symbols |-> << >>]]
  /\ bus = [orders |-> [o \in Orders |-> None], trades |-> {}, audit |-> {}]

Init == NewExchange /\ job = [r \in Requests |-> Idle]

At(r, label) == job[r].pc = label

Goto(r, label) == job' = [job EXCEPT ![r].pc = label]

(* The goroutine returns, and forgets its local variables. *)
Return(r, answer) ==
  job' = [job EXCEPT ![r] = [Idle EXCEPT !.pc = answer, !.input = job[r].input]]

Fail(r) == Return(r, "failed")

Busy(r) == job[r].pc \notin {"idle", "ok", "failed"}

(* The order a step of applyTrade is about: the maker's turn or the taker's. *)
Fill(r) == job[r].fills[job[r].at]
Subject(r) == IF job[r].role = "maker" THEN Fill(r).maker ELSE r

MyPair(r) == Pair[orders[r].symbol]

(* Where ReleaseRemaining holds the wallet's mutex: the other operations of *)
(* the wallet wait.                                                        *)
Releasing == {"clip", "subtract", "add", "clear"}

WalletFree == \A q \in Requests : job[q].pc \notin Releasing

(* Calls to the services; the no-op adapters return at once. *)
Save(rows) == db' = IF "store" \in Wired THEN rows ELSE db
Keep(entries) == cache' = IF "cache" \in Wired THEN entries ELSE cache
Send(topics) == bus' = IF "bus" \in Wired THEN topics ELSE bus

(* The answer of a call that took effect: success, or an error when the    *)
(* acknowledgement is lost (a commit whose reply the cancelled request     *)
(* context never sees).                                                    *)
Answered(r, label) == Goto(r, label) \/ ("ack" \in Faults /\ Fail(r))

-----------------------------------------------------------------------------
(* Requests enter *)

Deposit(r, in) ==
  /\ in.kind = "deposit"
  /\ IF in.amount <= 0
       THEN job' = [job EXCEPT ![r].pc = "failed", ![r].input = in]
       ELSE job' = [job EXCEPT ![r].pc = "persist", ![r].input = in,
              ![r].clone = Crediting(wallet[in.account], in.asset, in.amount)]
  /\ UNCHANGED <<memory, book, services>>

ValidateOrder(in) ==
  /\ in.symbol \in Symbols
  /\ in.side \in Sides
  /\ in.price > 0
  /\ in.quantity > 0
  /\ CanReserve(wallet[in.account], Pair[in.symbol], in)

PlaceOrder(r, in) ==
  /\ in.kind = "order"
  /\ IF ValidateOrder(in)
       THEN /\ job' = [job EXCEPT ![r].pc = "reserve", ![r].input = in]
            /\ orders' = [orders EXCEPT ![r] = NewOrder(in)]
       ELSE /\ job' = [job EXCEPT ![r].pc = "failed", ![r].input = in]
            /\ UNCHANGED orders
  /\ UNCHANGED <<wallet, market, auditLog, book, services>>

Accept(r) ==
  /\ At(r, "idle")
  /\ Cardinality({q \in Requests : Busy(q)}) < MaxInFlight
  /\ WalletFree
  /\ \E in \in Inputs : Deposit(r, in) \/ PlaceOrder(r, in)

-----------------------------------------------------------------------------
(* The wallet's turn before matching *)

Reserve(r) ==
  /\ At(r, "reserve")
  /\ WalletFree
  /\ LET o == orders[r]  a == o.account IN
     IF CanReserve(wallet[a], MyPair(r), o)
       THEN /\ wallet' = [wallet EXCEPT ![a] = Reserved(@, MyPair(r), o)]
            /\ orders' = [orders EXCEPT ![r].reserved = Needs(o, o.quantity)]
            /\ Goto(r, "clone")
       ELSE Fail(r) /\ UNCHANGED <<wallet, orders>>
  /\ UNCHANGED <<market, auditLog, book, services>>

GetReserved(r) ==
  /\ At(r, "clone")
  /\ WalletFree
  /\ job' = [job EXCEPT ![r].pc = "persist", ![r].clone = wallet[orders[r].account]]
  /\ UNCHANGED <<memory, book, services>>

(* Mutant of PersistAccount: the versions are not compared. *)
PersistUnchecked(r) ==
  /\ At(r, "persist")
  /\ LET c == job[r].clone  next == [c EXCEPT !.version = db.accounts[c.id].version + 1] IN
     /\ db' = [db EXCEPT !.accounts[c.id] = next]
     /\ \/ job' = [job EXCEPT ![r].pc = "replace", ![r].clone = next]
        \/ "ack" \in Faults /\ Fail(r)
  /\ UNCHANGED <<memory, book, cache, bus>>

(* PersistAccount: compare the row's version with the clone's, write the   *)
(* whole row, bump both.  The no-op store does none of it.                 *)
PersistAccount(r) ==
  /\ At(r, "persist")
  /\ LET c == job[r].clone  next == [c EXCEPT !.version = @ + 1] IN
     IF "store" \notin Wired THEN Goto(r, "replace") /\ UNCHANGED db
     ELSE IF db.accounts[c.id].version = c.version
       THEN /\ Save([db EXCEPT !.accounts[c.id] = next])
            /\ \/ job' = [job EXCEPT ![r].pc = "replace", ![r].clone = next]
               \/ "ack" \in Faults /\ Fail(r)
       ELSE Fail(r) /\ UNCHANGED db
  /\ UNCHANGED <<memory, book, cache, bus>>

ReplaceAccount(r) ==
  /\ At(r, "replace")
  /\ WalletFree
  /\ wallet' = [wallet EXCEPT ![job[r].clone.id] = job[r].clone]
  /\ Goto(r, "cacheAccount")
  /\ UNCHANGED <<orders, market, auditLog, book, services>>

(* syncAccountCache: an error is logged and forgotten.  What comes next    *)
(* depends on the caller of syncAccount.                                   *)
CacheAccount(r) ==
  /\ At(r, "cacheAccount")
  /\ \/ Keep([cache EXCEPT !.accounts[job[r].clone.id] = job[r].clone])
     \/ "cache" \in Faults /\ UNCHANGED cache
  /\ Goto(r, IF job[r].input.kind = "deposit" THEN "audit"
             ELSE IF orders[r].sequence = 0 THEN "submit" ELSE "accounts")
  /\ UNCHANGED <<memory, book, db, bus>>

-----------------------------------------------------------------------------
(* OrderBook.Submit, under the book's mutex *)

(* Mutant of Submit: the mutex is not taken. *)
SubmitUnlocked(r) ==
  LET s == orders[r].symbol IN
  /\ At(r, "submit")
  /\ holder' = [holder EXCEPT ![s] = r]
  /\ seq' = [seq EXCEPT ![s] = @ + 1]
  /\ orders' = [orders EXCEPT ![r].sequence = seq[s] + 1,
                              ![r].remaining = orders[r].quantity]
  /\ Goto(r, "match")
  /\ UNCHANGED <<wallet, market, auditLog, queue, tape, services>>

Submit(r) ==
  LET s == orders[r].symbol IN
  /\ At(r, "submit")
  /\ holder[s] = None
  /\ holder' = [holder EXCEPT ![s] = r]
  /\ seq' = [seq EXCEPT ![s] = @ + 1]
  /\ orders' = [orders EXCEPT ![r].sequence = seq[s] + 1,
                              ![r].remaining = orders[r].quantity]
  /\ Goto(r, "match")
  /\ UNCHANGED <<wallet, market, auditLog, queue, tape, services>>

Match(r) ==
  LET s == orders[r].symbol
      maker == Head(queue[s][Opposite(orders[r].side)])
  IN
  /\ At(r, "match")
  /\ CanMatch(orders, queue[s], r)
  /\ orders' = Filled(orders, r, maker)
  /\ queue' = [queue EXCEPT ![s] = AfterFill(orders, @, r, maker)]
  /\ tape' = [tape EXCEPT ![s] = Append(@, FillOf(orders, r, maker))]
  /\ job' = [job EXCEPT ![r].fills = Append(@, FillOf(orders, r, maker))]
  /\ UNCHANGED <<wallet, market, auditLog, seq, holder, services>>

(* Mutant of Finish: an early return that leaves the mutex locked. *)
FinishKeepsLock(r) ==
  /\ At(r, "match")
  /\ ~CanMatch(orders, queue[orders[r].symbol], r)
  /\ Goto(r, "loadStatus")
  /\ UNCHANGED <<memory, book, services>>

(* The rest of Submit; PlaceOrder then goes to updateOrderStatus. *)
Finish(r) ==
  LET s == orders[r].symbol  side == orders[r].side IN
  /\ At(r, "match")
  /\ ~CanMatch(orders, queue[s], r)
  /\ IF orders[r].remaining > 0
       THEN \E k \in 1..(Len(queue[s][side]) + 1) :
              /\ IsSlot(orders, queue[s][side], r, k)
              /\ queue' = [queue EXCEPT ![s] = Joined(@, side, r, k)]
       ELSE UNCHANGED queue
  /\ holder' = [holder EXCEPT ![s] = None]
  /\ Goto(r, "loadStatus")
  /\ UNCHANGED <<memory, seq, tape, services>>

-----------------------------------------------------------------------------
(* Settlement, after the book's mutex has been released: other goroutines  *)
(* can match, settle and persist the same orders meanwhile.                *)

(* updateOrderStatus is a load of Remaining and a store of Status, neither *)
(* protected.  It runs once for the accepted order, and in every           *)
(* applyTrade for the maker and then the taker.                            *)
LoadStatus(r) ==
  /\ At(r, "loadStatus")
  /\ job' = [job EXCEPT ![r].pc = "storeStatus", ![r].status = Status(orders[Subject(r)])]
  /\ UNCHANGED <<memory, book, services>>

StoreStatus(r) ==
  /\ At(r, "storeStatus")
  /\ orders' = [orders EXCEPT ![Subject(r)].status = job[r].status]
  /\ job' = [job EXCEPT ![r].status = None,
       ![r].role = IF job[r].at = 0 \/ @ = "maker" THEN "taker" ELSE "maker",
       ![r].pc = IF job[r].at = 0 THEN "collect"
                 ELSE IF job[r].role = "maker" THEN "loadStatus" ELSE "releaseMaker"]
  /\ UNCHANGED <<wallet, market, auditLog, book, services>>

(* changedAccounts[...] = e.wallet.GetAccount(...) and, for a maker,       *)
(* changedOrders[...]: after the initial status, after every fill (first   *)
(* the maker's account, then the taker's), and after the final release.    *)
Collect(r) ==
  LET o == Subject(r)
      a == orders[o].account
      last == job[r].at >= Len(job[r].fills)
  IN
  /\ At(r, "collect")
  /\ WalletFree
  /\ job' = [job EXCEPT
       ![r].accounts[a] = wallet[a],
       ![r].pending = @ \cup {o},
       ![r].role = IF @ = "taker" /\ ~last THEN "maker" ELSE "taker",
       ![r].at = IF job[r].role = "taker" THEN @ + 1 ELSE @,
       ![r].pc = IF job[r].role = "maker" THEN "collect"
                 ELSE IF ~last THEN "settle"
                 ELSE IF job[r].at = Len(job[r].fills) THEN "releaseTaker" ELSE "accounts"]
  /\ UNCHANGED <<memory, book, services>>

(* One wallet.Settle.  An underflow abandons the request where it is.      *)
Settle(r) ==
  LET o == orders[Subject(r)]  a == o.account  f == Fill(r) IN
  /\ At(r, "settle")
  /\ WalletFree
  /\ IF CanSettle(wallet[a], MyPair(r), o, f.quantity)
       THEN /\ wallet' = [wallet EXCEPT ![a] = Settled(@, MyPair(r), o, f.price, f.quantity)]
            /\ IF job[r].role = "maker"
                 THEN job' = [job EXCEPT ![r].role = "taker"]
                 ELSE job' = [job EXCEPT ![r].role = "maker", ![r].pc = "loadReserved"]
       ELSE Fail(r) /\ UNCHANGED wallet
  /\ UNCHANGED <<orders, market, auditLog, book, services>>

(* AdjustRemainingReservation, for the maker and then for the taker, takes *)
(* no lock: a load, a store of the difference, a second load to compare it *)
(* with zero, and the store of zero if it is negative.                     *)
LoadReserved(r) ==
  /\ At(r, "loadReserved")
  /\ job' = [job EXCEPT ![r].pc = "storeReserved", ![r].seen = orders[Subject(r)].reserved]
  /\ UNCHANGED <<memory, book, services>>

StoreReserved(r) ==
  LET o == Subject(r) IN
  /\ At(r, "storeReserved")
  /\ orders' = [orders EXCEPT ![o].reserved =
                  Adjusted(job[r].seen, Needs(orders[o], Fill(r).quantity))]
  /\ job' = [job EXCEPT ![r].pc = "checkReserved", ![r].seen = 0]
  /\ UNCHANGED <<wallet, market, auditLog, book, services>>

AfterAdjust(r) ==
  job' = [job EXCEPT ![r].role = IF @ = "maker" THEN "taker" ELSE "maker",
                     ![r].pc = IF job[r].role = "maker" THEN "loadReserved" ELSE "loadStatus"]

CheckReserved(r) ==
  /\ At(r, "checkReserved")
  /\ IF orders[Subject(r)].reserved < 0 THEN Goto(r, "clampReserved") ELSE AfterAdjust(r)
  /\ UNCHANGED <<memory, book, services>>

ClampReserved(r) ==
  /\ At(r, "clampReserved")
  /\ orders' = [orders EXCEPT ![Subject(r)].reserved = 0]
  /\ AfterAdjust(r)
  /\ UNCHANGED <<wallet, market, auditLog, book, services>>

(* ReleaseRemaining of the maker, and after the last fill of the taker:    *)
(* nothing while part of the order is open, and otherwise whatever is      *)
(* still reserved but no more than is locked.  The wallet's mutex is held  *)
(* from the first comparison to the last store, but ReservedAmount is not  *)
(* under it, so each access to it is a step of its own.                    *)
StartRelease(r, skip) ==
  LET o == orders[Subject(r)] IN
  /\ IF o.remaining > 0 THEN Goto(r, skip)
     ELSE /\ WalletFree
          /\ Goto(r, IF LockedBalance(wallet[o.account], MyPair(r), o) < o.reserved
                       THEN "clip" ELSE "subtract")
  /\ UNCHANGED <<memory, book, services>>

ReleaseMaker(r) == At(r, "releaseMaker") /\ StartRelease(r, "collect")

ReleaseTaker(r) == At(r, "releaseTaker") /\ StartRelease(r, "accounts")

ClipReserved(r) ==
  LET o == Subject(r)  a == orders[o].account IN
  /\ At(r, "clip")
  /\ orders' = [orders EXCEPT ![o].reserved = LockedBalance(wallet[a], MyPair(r), orders[o])]
  /\ Goto(r, "subtract")
  /\ UNCHANGED <<wallet, market, auditLog, book, services>>

(* Locked -= ReservedAmount; the balance itself is stored in the next step. *)
SubtractReserved(r) ==
  /\ At(r, "subtract")
  /\ job' = [job EXCEPT ![r].pc = "add", ![r].seen = orders[Subject(r)].reserved]
  /\ UNCHANGED <<memory, book, services>>

(* Available += ReservedAmount, loaded once more. *)
AddReserved(r) ==
  LET o == orders[Subject(r)] IN
  /\ At(r, "add")
  /\ wallet' = [wallet EXCEPT ![o.account] =
                  Released(@, LockedAsset(MyPair(r), o), job[r].seen, o.reserved)]
  /\ job' = [job EXCEPT ![r].pc = "clear", ![r].seen = 0]
  /\ UNCHANGED <<orders, market, auditLog, book, services>>

ClearReserved(r) ==
  /\ At(r, "clear")
  /\ orders' = [orders EXCEPT ![Subject(r)].reserved = 0]
  /\ Goto(r, "collect")
  /\ UNCHANGED <<wallet, market, auditLog, book, services>>

-----------------------------------------------------------------------------
(* Persistence and publication *)

(* persistChangedAccounts: syncAccount of each clone, in map order. *)
NextAccount(r) ==
  LET left == {a \in Accounts : job[r].accounts[a] # None} IN
  /\ At(r, "accounts")
  /\ IF left = {} THEN Goto(r, "orders")
     ELSE \E a \in left :
            job' = [job EXCEPT ![r].pc = "persist", ![r].clone = job[r].accounts[a],
                               ![r].accounts[a] = None]
  /\ UNCHANGED <<memory, book, services>>

(* Mutant of NextOrder: only the accepted order is persisted. *)
NextOwnOrder(r) ==
  /\ At(r, "orders")
  /\ IF r \notin job[r].pending THEN Goto(r, "saveTrades")
     ELSE job' = [job EXCEPT ![r].pc = "saveOrder", ![r].pending = {},
                             ![r].row = [id |-> r, order |-> orders[r]]]
  /\ UNCHANGED <<memory, book, services>>

(* persistChangedOrders: PersistOrder reads the order's fields through the *)
(* shared pointer before it executes the upsert, and Publish marshals them *)
(* again before it sends.                                                  *)
NextOrder(r) ==
  /\ At(r, "orders")
  /\ IF job[r].pending = {} THEN Goto(r, "saveTrades")
     ELSE \E o \in job[r].pending :
            job' = [job EXCEPT ![r].pc = "saveOrder", ![r].pending = @ \ {o},
                               ![r].row = [id |-> o, order |-> orders[o]]]
  /\ UNCHANGED <<memory, book, services>>

(* Mutant of PersistOrder: ON CONFLICT DO NOTHING. *)
PersistOrderOnce(r) ==
  /\ At(r, "saveOrder")
  /\ db' = [db EXCEPT !.orders[job[r].row.id] = IF @ = None THEN job[r].row.order ELSE @]
  /\ Answered(r, "marshalOrder")
  /\ UNCHANGED <<memory, book, cache, bus>>

PersistOrder(r) ==
  /\ At(r, "saveOrder")
  /\ Save([db EXCEPT !.orders[job[r].row.id] = job[r].row.order])
  /\ Answered(r, "marshalOrder")
  /\ UNCHANGED <<memory, book, cache, bus>>

MarshalOrder(r) ==
  /\ At(r, "marshalOrder")
  /\ job' = [job EXCEPT ![r].pc = "publishOrder", ![r].row.order = orders[job[r].row.id]]
  /\ UNCHANGED <<memory, book, services>>

PublishOrder(r) ==
  /\ At(r, "publishOrder")
  /\ Send([bus EXCEPT !.orders[job[r].row.id] = job[r].row.order])
  /\ \/ job' = [job EXCEPT ![r].pc = "orders", ![r].row = None]
     \/ "ack" \in Faults /\ Fail(r)
  /\ UNCHANGED <<memory, book, db, cache>>

PersistTrades(r) ==
  /\ At(r, "saveTrades")
  /\ Save([db EXCEPT !.trades = @ \cup Range(job[r].fills)])
  /\ Answered(r, "record")
  /\ UNCHANGED <<memory, book, cache, bus>>

Record(r) ==
  /\ At(r, "record")
  /\ market' = [market EXCEPT ![orders[r].symbol] = @ \o job[r].fills]
  /\ job' = [job EXCEPT ![r].pc = "audit", ![r].at = 0]
  /\ UNCHANGED <<wallet, orders, auditLog, book, services>>

(* recordAudit: append, persist, publish.  Event 0 of a request is its     *)
(* deposit.completed or order.accepted, event i its i-th trade.executed.   *)
Event(r) == <<r, job[r].at>>

(* Mutant of RecordAudit: PersistAudit is not called. *)
RecordUnsaved(r) ==
  /\ At(r, "audit")
  /\ auditLog' = auditLog \cup {Event(r)}
  /\ Goto(r, "publishAudit")
  /\ UNCHANGED <<wallet, orders, market, book, services>>

RecordAudit(r) ==
  /\ At(r, "audit")
  /\ auditLog' = auditLog \cup {Event(r)}
  /\ Goto(r, "saveAudit")
  /\ UNCHANGED <<wallet, orders, market, book, services>>

PersistAudit(r) ==
  /\ At(r, "saveAudit")
  /\ Save([db EXCEPT !.audit = @ \cup {Event(r)}])
  /\ Answered(r, "publishAudit")
  /\ UNCHANGED <<memory, book, cache, bus>>

(* The next event, or what PlaceOrder or Deposit does after the last.      *)
AfterEvent(r) ==
  IF job[r].at < Len(job[r].fills)
    THEN job' = [job EXCEPT ![r].pc = "audit", ![r].at = @ + 1]
    ELSE IF job[r].input.kind = "deposit" THEN Return(r, "ok") ELSE Goto(r, "snapshot")

PublishAudit(r) ==
  /\ At(r, "publishAudit")
  /\ Send([bus EXCEPT !.audit = @ \cup {Event(r)}])
  /\ \/ IF job[r].at > 0 THEN Goto(r, "publishTrade") ELSE AfterEvent(r)
     \/ "ack" \in Faults /\ Fail(r)
  /\ UNCHANGED <<memory, book, db, cache>>

PublishTrade(r) ==
  /\ At(r, "publishTrade")
  /\ Send([bus EXCEPT !.trades = @ \cup {Fill(r)}])
  /\ AfterEvent(r) \/ ("ack" \in Faults /\ Fail(r))
  /\ UNCHANGED <<memory, book, db, cache>>

TakeSnapshot(r) ==
  LET s == orders[r].symbol IN
  /\ At(r, "snapshot")
  /\ holder[s] = None
  /\ job' = [job EXCEPT ![r].pc = "cacheBook", ![r].view = Snapshot(orders, queue[s])]
  /\ UNCHANGED <<memory, book, services>>

CacheOrderBook(r) ==
  /\ At(r, "cacheBook")
  /\ Keep([cache EXCEPT !.books[orders[r].symbol] = job[r].view])
  /\ Answered(r, "copyTrades")
  /\ UNCHANGED <<memory, book, db, bus>>

(* Mutant of CopyTrades: this request's trades only. *)
CopyFills(r) ==
  /\ At(r, "copyTrades")
  /\ job' = [job EXCEPT ![r].pc = "cacheTrades", ![r].view = job[r].fills]
  /\ UNCHANGED <<memory, book, services>>

CopyTrades(r) ==
  /\ At(r, "copyTrades")
  /\ job' = [job EXCEPT ![r].pc = "cacheTrades", ![r].view = market[orders[r].symbol]]
  /\ UNCHANGED <<memory, book, services>>

CacheTrades(r) ==
  /\ At(r, "cacheTrades")
  /\ Keep([cache EXCEPT !.trades[orders[r].symbol] = job[r].view])
  /\ Return(r, "ok") \/ ("ack" \in Faults /\ Fail(r))
  /\ UNCHANGED <<memory, book, db, bus>>

(* A call that returns an error without any effect ends the request.       *)
CallFails(r) ==
  /\ \/ "store" \in Faults /\ job[r].pc \in {"persist", "saveOrder", "saveTrades", "saveAudit"}
     \/ "bus" \in Faults /\ job[r].pc \in {"publishOrder", "publishAudit", "publishTrade"}
     \/ "cache" \in Faults /\ job[r].pc \in {"cacheBook", "cacheTrades"}
  /\ Fail(r)
  /\ UNCHANGED <<memory, book, services>>

-----------------------------------------------------------------------------
(* What the goroutine of request r does, once it has been accepted. *)
Serve(r) ==
  \/ Reserve(r) \/ GetReserved(r)
  \/ PersistAccount(r) \/ ReplaceAccount(r) \/ CacheAccount(r)
  \/ Submit(r) \/ Match(r) \/ Finish(r)
  \/ LoadStatus(r) \/ StoreStatus(r) \/ Collect(r)
  \/ Settle(r)
  \/ LoadReserved(r) \/ StoreReserved(r) \/ CheckReserved(r) \/ ClampReserved(r)
  \/ ReleaseMaker(r) \/ ReleaseTaker(r)
  \/ ClipReserved(r) \/ SubtractReserved(r) \/ AddReserved(r) \/ ClearReserved(r)
  \/ NextAccount(r)
  \/ NextOrder(r) \/ PersistOrder(r) \/ MarshalOrder(r) \/ PublishOrder(r)
  \/ PersistTrades(r) \/ Record(r)
  \/ RecordAudit(r) \/ PersistAudit(r) \/ PublishAudit(r) \/ PublishTrade(r)
  \/ TakeSnapshot(r) \/ CacheOrderBook(r) \/ CopyTrades(r) \/ CacheTrades(r)
  \/ CallFails(r)

(* Every request of the instance has been answered. *)
AllAnswered ==
  /\ \A r \in Requests : job[r].pc \in {"ok", "failed"}
  /\ UNCHANGED vars

Next == (\E r \in Requests : Accept(r) \/ Serve(r)) \/ AllAnswered

(* The Go scheduler runs every goroutine that can run, and every call to   *)
(* a service returns.  Nobody is obliged to send a request.                *)
Fairness == \A r \in Requests : WF_vars(Serve(r))

Spec == Init /\ [][Next]_vars
FairSpec == Spec /\ Fairness
=============================================================================
