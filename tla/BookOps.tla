------------------------------ MODULE BookOps ------------------------------
(***************************************************************************)
(* The pure part of the matching engine (internal/engine/book.go): what it *)
(* means for one order to be ahead of another, for two orders to cross,    *)
(* and what a fill does to the two orders.                                 *)
(*                                                                         *)
(* The book holds pointers to orders, and so do the callers of Submit.     *)
(* Every operator therefore takes the heap as a function `ord' from order  *)
(* identifiers to order records; a side of the book is a sequence of       *)
(* identifiers.  Prices and quantities are natural numbers of ticks and    *)
(* lots (float64 in the code).                                             *)
(***************************************************************************)
EXTENDS Naturals, SequencesExt

Sides == {"buy", "sell"}

Opposite(side) == IF side = "buy" THEN "sell" ELSE "buy"

Lesser(m, n) == IF m < n THEN m ELSE n

(* Price a is more attractive than price b to somebody trading against     *)
(* `side': the highest bid, the lowest ask.                                *)
BetterPrice(side, a, b) == IF side = "buy" THEN a > b ELSE a < b

(* The comparison functions of sortBooks: price first, then arrival.       *)
Before(ord, o, p) ==
  \/ BetterPrice(ord[o].side, ord[o].price, ord[p].price)
  \/ ord[o].price = ord[p].price /\ ord[o].sequence < ord[p].sequence

(* Both sides of the book in sortBooks' order. *)
Sorted(ord, sides) ==
  \A s \in Sides : \A i, j \in 1..Len(sides[s]) :
    i < j => Before(ord, sides[s][i], sides[s][j])

(* Mutant of Crosses: the break condition with <= and >=. *)
StrictlyCrosses(ord, taker, maker) ==
  IF ord[taker].side = "buy" THEN ord[maker].price < ord[taker].price
                             ELSE ord[maker].price > ord[taker].price

(* The negation of the loops' break condition (book.go:105 and 142).       *)
Crosses(ord, taker, maker) ==
  IF ord[taker].side = "buy" THEN ord[maker].price <= ord[taker].price
                             ELSE ord[maker].price >= ord[taker].price

(* Mutant of CanMatch: no break on the price. *)
MatchAnyPrice(ord, sides, taker) ==
  sides[Opposite(ord[taker].side)] # << >> /\ ord[taker].remaining > 0

(* The matching loop goes round once more: the taker is not exhausted and  *)
(* the head of the opposite side crosses it.  `sides' is [bids, asks] as a *)
(* function on Sides.                                                      *)
CanMatch(ord, sides, taker) ==
  LET q == sides[Opposite(ord[taker].side)]
  IN  q # << >> /\ ord[taker].remaining > 0 /\ Crosses(ord, taker, Head(q))

(* Mutant of FillQuantity: no minimum. *)
WholeTaker(ord, taker, maker) == ord[taker].remaining

FillQuantity(ord, taker, maker) ==
  Lesser(ord[taker].remaining, ord[maker].remaining)

(* Mutant of Filled: the maker is not counted down. *)
TakerFilled(ord, taker, maker) ==
  [ord EXCEPT ![taker].remaining = @ - FillQuantity(ord, taker, maker)]

(* Both Remaining fields after the fill. *)
Filled(ord, taker, maker) ==
  LET n == FillQuantity(ord, taker, maker)
  IN  [ord EXCEPT ![maker].remaining = @ - n, ![taker].remaining = @ - n]

(* Mutant of FillOf: the fill executes at the taker's price. *)
FillAtTakersPrice(ord, taker, maker) ==
  [maker |-> maker, taker |-> taker,
   price |-> ord[taker].price, quantity |-> FillQuantity(ord, taker, maker)]

(* A fill executes at the maker's price. *)
FillOf(ord, taker, maker) ==
  [maker |-> maker, taker |-> taker,
   price |-> ord[maker].price, quantity |-> FillQuantity(ord, taker, maker)]

(* Mutant of AfterFill: the maker is dropped whatever is left of it. *)
DropMaker(ord, sides, taker, maker) ==
  [sides EXCEPT ![Opposite(ord[taker].side)] = Tail(@)]

(* `b.asks = b.asks[1:]' once the maker is exhausted. *)
AfterFill(ord, sides, taker, maker) ==
  IF ord[maker].remaining = FillQuantity(ord, taker, maker)
    THEN [sides EXCEPT ![Opposite(ord[taker].side)] = Tail(@)]
    ELSE sides

(* Mutant of IsSlot: append without sortBooks. *)
LastSlot(ord, q, o, k) == k = Len(q) + 1

(* Where a stable sort moves order o, appended to the sorted sequence q:   *)
(* behind everything o is not strictly ahead of.                           *)
IsSlot(ord, q, o, k) ==
  /\ k \in 1..(Len(q) + 1)
  /\ \A i \in 1..(k - 1) : ~Before(ord, o, q[i])
  /\ \A i \in k..Len(q) : Before(ord, o, q[i])

(* q with o inserted at position k: append followed by sortBooks.          *)
Placed(q, o, k) == InsertAt(q, k, o)

(* The whole book after that. *)
Joined(sides, side, o, k) == [sides EXCEPT ![side] = Placed(@, o, k)]

=============================================================================
