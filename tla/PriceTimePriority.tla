------------------------- MODULE PriceTimePriority -------------------------
(***************************************************************************)
(* What a price-time-priority book promises, without queues and without    *)
(* sorting: the resting orders form a set; an incoming order trades with   *)
(* whichever crossing order of the other side nobody there is ahead of, at *)
(* that order's price and for as much as both sides have left; it rests    *)
(* only when no resting order crosses it.  An order with nothing left that *)
(* was restored rests until it is traded with.  OrderBook implements this. *)
(***************************************************************************)
EXTENDS BookOps

CONSTANTS Orders, Prices, Quantities, MaxRestored, None

VARIABLES orders, resting, seq, taker, trades, serving

vars == <<orders, resting, seq, taker, trades, serving>>

Init ==
  /\ \A o \in Orders : orders[o].sequence = 0
  /\ resting = {}
  /\ seq = 0
  /\ taker = None
  /\ trades = << >>
  /\ serving = FALSE

(* The resting orders the taker could trade with. *)
Counterparties ==
  {m \in resting : /\ orders[m].side = Opposite(orders[taker].side)
                   /\ Crosses(orders, taker, m)}

(* m has priority over every other resting order of its side. *)
First(m) ==
  \A n \in resting \ {m} : orders[n].side = orders[m].side => Before(orders, m, n)

(* A new order, whatever its particulars, numbered above all before it.    *)
Enter(o) ==
  /\ orders[o].sequence = 0
  /\ orders'[o].sequence > seq
  /\ seq' = orders'[o].sequence
  /\ orders' = [orders EXCEPT ![o] = orders'[o]]

Restore(o) ==
  /\ ~serving
  /\ Enter(o)
  /\ resting' = resting \cup {o}
  /\ UNCHANGED <<taker, trades, serving>>

StartServing ==
  /\ ~serving
  /\ serving' = TRUE
  /\ UNCHANGED <<orders, resting, seq, taker, trades>>

Submit(o) ==
  /\ serving
  /\ taker = None
  /\ Enter(o)
  /\ orders'[o].remaining = orders'[o].quantity
  /\ taker' = o
  /\ UNCHANGED <<resting, trades, serving>>

Trade(m) ==
  /\ taker # None
  /\ orders[taker].remaining > 0
  /\ m \in Counterparties
  /\ First(m)
  /\ orders' = Filled(orders, taker, m)
  /\ trades' = Append(trades, FillOf(orders, taker, m))
  /\ resting' = IF orders'[m].remaining = 0 THEN resting \ {m} ELSE resting
  /\ UNCHANGED <<seq, taker, serving>>

Done ==
  /\ taker # None
  /\ orders[taker].remaining = 0 \/ Counterparties = {}
  /\ resting' = IF orders[taker].remaining > 0 THEN resting \cup {taker} ELSE resting
  /\ taker' = None
  /\ UNCHANGED <<orders, seq, trades, serving>>

Next ==
  \/ \E o \in Orders : Restore(o) \/ Submit(o)
  \/ StartServing
  \/ \E m \in Orders : Trade(m)
  \/ Done

Spec == Init /\ [][Next]_vars

=============================================================================
