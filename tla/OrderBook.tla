----------------------------- MODULE OrderBook -----------------------------
(***************************************************************************)
(* One symbol's order book (internal/engine/book.go).  The book's mutex is *)
(* held for the whole of Submit; `taker' is the order its holder is        *)
(* matching, and the matching loop takes one step per iteration, so that   *)
(* the intermediate states other goroutines observe through their order    *)
(* pointers exist here too.                                                *)
(*                                                                         *)
(* A process starts by restoring the open orders the store returns, oldest *)
(* sequence first (ORDER BY symbol, sequence), before it serves requests.  *)
(***************************************************************************)
EXTENDS BookOps

CONSTANTS
  Orders,             \* order identifiers
  Prices, Quantities, \* what requests may ask for (already validated > 0)
  MaxRestored,        \* bound: largest sequence number found in the store
  None

ASSUME BookAssumption ==
  /\ Prices \subseteq Nat \ {0}
  /\ Quantities \subseteq Nat \ {0}
  /\ MaxRestored \in Nat
  /\ None \notin Orders

VARIABLES
  orders,    \* the heap of order records; sequence 0 = not created yet
  queue,     \* queue["buy"] is b.bids, queue["sell"] is b.asks
  seq,       \* b.seq
  taker,     \* the order Submit is matching, None when the mutex is free
  trades,    \* every fill the book has made, in order
  serving,   \* NewExchange has returned
  restored,  \* history: the orders that came from the store
  opened     \* history: what was open of each order when the book got it

vars == <<orders, queue, seq, taker, trades, serving, restored, opened>>

history == <<restored, opened>>

Order == [side : Sides, price : Nat, quantity : Nat,
          remaining : Nat, sequence : Nat]

Blank == [side |-> "buy", price |-> 0, quantity |-> 0,
          remaining |-> 0, sequence |-> 0]

Known(o) == orders[o].sequence > 0

NewOrderBook ==
  /\ queue = [s \in Sides |-> << >>]
  /\ seq = 0
  /\ taker = None
  /\ trades = << >>

Init ==
  /\ orders = [o \in Orders |-> Blank]
  /\ NewOrderBook
  /\ serving = FALSE
  /\ restored = {}
  /\ opened = [o \in Orders |-> 0]

(* Append to the order's own side and sort. *)
Enqueue(ord, o) ==
  LET s == ord[o].side IN
  \E k \in 1..(Len(queue[s]) + 1) :
    /\ IsSlot(ord, queue[s], o, k)
    /\ queue' = Joined(queue, s, o, k)

(* Restore one row of the store.  A row was written with the sequence      *)
(* number its book gave it.                                                *)
Restore(o, row) ==
  /\ ~serving
  /\ ~Known(o)
  /\ row.sequence > seq
  /\ seq' = row.sequence
  /\ orders' = [orders EXCEPT ![o] = row]
  /\ Enqueue(orders', o)
  /\ restored' = restored \cup {o}
  /\ opened' = [opened EXCEPT ![o] = row.remaining]
  /\ UNCHANGED <<taker, trades, serving>>

StartServing ==
  /\ ~serving
  /\ serving' = TRUE
  /\ UNCHANGED <<orders, queue, seq, taker, trades, history>>

(* Submit, up to the switch: take the mutex, number the order, open it.    *)
Submit(o, side, price, quantity) ==
  /\ serving
  /\ taker = None
  /\ ~Known(o)
  /\ seq' = seq + 1
  /\ orders' = [orders EXCEPT ![o] =
                  [side |-> side, price |-> price, quantity |-> quantity,
                   remaining |-> quantity, sequence |-> seq + 1]]
  /\ taker' = o
  /\ opened' = [opened EXCEPT ![o] = quantity]
  /\ UNCHANGED <<queue, trades, serving, restored>>

(* Mutant of Best: the far end of the queue. *)
Furthest == Last(queue[Opposite(orders[taker].side)])

(* bestAsk / bestBid: position 0 of the side opposite to the taker. *)
Best == Head(queue[Opposite(orders[taker].side)])

(* One iteration of matchBuy / matchSell. *)
Match ==
  /\ taker # None
  /\ CanMatch(orders, queue, taker)
  /\ orders' = Filled(orders, taker, Best)
  /\ trades' = Append(trades, FillOf(orders, taker, Best))
  /\ queue' = AfterFill(orders, queue, taker, Best)
  /\ UNCHANGED <<seq, taker, serving, history>>

(* Mutant of Finish: an early return that leaves the mutex locked. *)
FinishFilledOnly ==
  /\ taker # None
  /\ orders[taker].remaining = 0
  /\ taker' = None
  /\ UNCHANGED <<orders, queue, seq, trades, serving, history>>

(* The loop ends; what is left of the order rests on its side.  Unlock.    *)
Finish ==
  /\ taker # None
  /\ ~CanMatch(orders, queue, taker)
  /\ IF orders[taker].remaining > 0 THEN Enqueue(orders, taker)
                                    ELSE UNCHANGED queue
  /\ taker' = None
  /\ UNCHANGED <<orders, seq, trades, serving, history>>

(* The rows loadOpenOrders returns.  It selects on the status only, and    *)
(* a row can say "open" of an order with nothing left (ghost_order).       *)
Rows == UNION {[side : Sides, price : Prices, quantity : {n},
                remaining : 0..n, sequence : 1..MaxRestored] : n \in Quantities}

Next ==
  \/ \E o \in Orders, row \in Rows : Restore(o, row)
  \/ StartServing
  \/ \E o \in Orders, side \in Sides, price \in Prices, n \in Quantities :
       Submit(o, side, price, n)
  \/ Match
  \/ Finish

(* The goroutine inside Submit keeps running; nobody is obliged to submit. *)
Fairness == WF_vars(Match) /\ WF_vars(Finish)

Spec == Init /\ [][Next]_vars
FairSpec == Spec /\ Fairness
-----------------------------------------------------------------------------
TypeOK ==
  /\ orders \in [Orders -> Order]
  /\ queue \in [Sides -> Seq(Orders)]
  /\ seq \in Nat
  /\ taker \in Orders \cup {None}
  /\ trades \in Seq([maker : Orders, taker : Orders, price : Nat, quantity : Nat])
  /\ serving \in BOOLEAN
  /\ restored \subseteq Orders
  /\ opened \in [Orders -> Nat]

(* Price-time priority: on each side everybody ahead of an order has a     *)
(* better price, or the same price and an earlier sequence number.  It     *)
(* must survive in-place fills, head removals and resumed queues, because  *)
(* matching only ever looks at position 0 (book.go:104 and 141).           *)
PriceTimeSorted == Sorted(orders, queue)

Queued(o) == o \in Range(queue[orders[o].side])

(* An order waits while something of it is left; one that was restored     *)
(* with nothing left waits to be the maker of an empty fill.               *)
Waiting(o) ==
  \/ orders[o].remaining > 0
  \/ o \in restored /\ opened[o] = 0 /\ \A i \in DOMAIN trades : trades[i].maker # o

(* The book holds exactly the waiting orders: an order is on its own side  *)
(* iff it has been accepted, waits and is not being matched; nothing is    *)
(* ever on the opposite side.  (The bug it excludes is an order that       *)
(* matching filled and left in the slice, or an open one dropped with the  *)
(* popped maker.)                                                          *)
BookHoldsOpenOrders ==
  \A o \in Orders :
    /\ Queued(o) <=> Known(o) /\ Waiting(o) /\ o # taker
    /\ o \notin Range(queue[Opposite(orders[o].side)])

(* Matching leaves no cross behind: a bid and an ask that rest together    *)
(* and cross were both restored from the store, which does not match them. *)
NoNewCross ==
  \A b \in Range(queue["buy"]), a \in Range(queue["sell"]) :
    orders[b].price >= orders[a].price => {a, b} \subseteq restored

(* The fills order o took part in. *)
FillsOf(o) == {i \in DOMAIN trades : o \in {trades[i].maker, trades[i].taker}}

(* What the book counted down is what it reported: for every order, the    *)
(* quantity missing from it is the sum of its fills.  The wallet settles   *)
(* from the fills and releases on Remaining, so they must agree.           *)
FillsAccountForQuantity ==
  \A o \in Orders :
    opened[o] = orders[o].remaining
                + SumFunctionOnSet([i \in DOMAIN trades |-> trades[i].quantity], FillsOf(o))

(* A fill is empty only if its maker was restored with nothing left; it    *)
(* never trades an order with itself, happens at the price its maker       *)
(* advertised and within its taker's limit: the settlement's refund        *)
(* (wallet/service.go:86) is never negative.                               *)
TradesWithinLimits ==
  \A i \in DOMAIN trades :
    LET t == trades[i] IN
    /\ t.quantity = 0 <=> opened[t.maker] = 0
    /\ t.maker # t.taker
    /\ t.price = orders[t.maker].price
    /\ orders[t.taker].side # orders[t.maker].side
    /\ Crosses(orders, t.taker, t.maker)

(* A later order never overtakes: once p rests ahead of o, o trades as a   *)
(* maker only after p has left the book.                                   *)
NoOvertaking ==
  [][\A o, p \in Orders :
       /\ Queued(o) /\ Queued(p) /\ orders[o].side = orders[p].side
       /\ Before(orders, p, o)
       => orders'[o].remaining = orders[o].remaining]_vars

(* The book is a price-time-priority book: forget the order of the queues. *)
PTP == INSTANCE PriceTimePriority
         WITH resting <- Range(queue["buy"]) \cup Range(queue["sell"])
ImplementsPriceTimePriority == PTP!Spec

(* Sequence numbers are unique and b.seq has reached them, so sortBooks    *)
(* never meets a tie and the order in Submit is the youngest of all.       *)
ArrivalsDistinct ==
  /\ \A o, p \in Orders : o # p /\ Known(o) => orders[o].sequence # orders[p].sequence
  /\ \A o \in Orders : orders[o].sequence <= seq
  /\ taker # None => orders[taker].sequence = seq

(* The life of an order: nothing is left of one no book has numbered, and  *)
(* an order never grows; what is known before the exchange serves came     *)
(* from the store; only orders that were submitted, with something to      *)
(* trade, to a serving exchange match.                                     *)
LifeOfOrders ==
  /\ \A o \in Orders : /\ ~Known(o) => opened[o] = 0
                       /\ orders[o].remaining <= opened[o]
                       /\ ~serving /\ Known(o) => o \in restored
  /\ taker # None => serving /\ Known(taker) /\ opened[taker] > 0
  /\ \A i \in DOMAIN trades : Known(trades[i].maker) /\ Known(trades[i].taker)

(* All of the above together is preserved by every step.                   *)
BookInvariant ==
  /\ TypeOK
  /\ PriceTimeSorted
  /\ BookHoldsOpenOrders
  /\ NoNewCross
  /\ TradesWithinLimits
  /\ ArrivalsDistinct
  /\ LifeOfOrders

(* Every Submit ends and hands the mutex back. *)
SubmitReturns == taker # None ~> taker = None

=============================================================================
