-------------------------- MODULE OrderBookProofs --------------------------
(* Theorems about OrderBook, for every set of orders, prices and amounts.  *)
EXTENDS OrderBook, ModelLemmas

-----------------------------------------------------------------------------
(* The priority order.                                                     *)

(* No order is ahead of itself, and of two orders of one side with         *)
(* different sequence numbers one is ahead of the other.                   *)
LEMMA BeforeOrder ==
  ASSUME NEW ord \in [Orders -> Order], NEW o \in Orders, NEW p \in Orders
  PROVE  /\ ~Before(ord, o, o)
         /\ ord[o].side = ord[p].side /\ ord[o].sequence # ord[p].sequence
              => Before(ord, o, p) \/ Before(ord, p, o)
  BY DEF Before, BetterPrice, Order

(* Before looks only at side, price and sequence. *)
LEMMA BeforeStable ==
  ASSUME NEW ord, NEW new, NEW o, NEW p,
         \A x \in {o, p} : /\ new[x].side = ord[x].side
                           /\ new[x].price = ord[x].price
                           /\ new[x].sequence = ord[x].sequence
  PROVE  Before(new, o, p) <=> Before(ord, o, p)
  BY DEF Before, BetterPrice

(* Appending and sorting keeps a side sorted. *)
LEMMA PlacedSorted ==
  ASSUME NEW ord \in [Orders -> Order], NEW q \in Seq(Orders), NEW o \in Orders,
         NEW k \in 1..(Len(q) + 1), IsSlot(ord, q, o, k),
         \A i, j \in 1..Len(q) : i < j => Before(ord, q[i], q[j]),
         \A i \in 1..Len(q) : /\ ord[q[i]].side = ord[o].side
                              /\ ord[q[i]].sequence # ord[o].sequence
  PROVE  \A i, j \in 1..Len(Placed(q, o, k)) :
           i < j => Before(ord, Placed(q, o, k)[i], Placed(q, o, k)[j])
<1> DEFINE p == Placed(q, o, k)
<1>1. /\ Len(p) = Len(q) + 1
      /\ \A i \in 1..Len(q) : i < k => p[i] = q[i]
      /\ p[k] = o
      /\ \A i \in 1..Len(q) : ~(i < k) => p[i + 1] = q[i]
  BY ONLY q \in Seq(Orders), o \in Orders, k \in 1..(Len(q) + 1), PlacedProperties
<1>2. Len(q) \in Nat  BY LenProperties
<1>3. ASSUME NEW i \in 1..Len(q), i < k PROVE Before(ord, q[i], o)
  <2>1. q[i] \in Orders  BY ElementOfSeq
  <2>2. ~Before(ord, o, q[i])  BY <1>2, <1>3 DEF IsSlot
  <2> QED  BY <2>1, <2>2, BeforeOrder
<1>4. ASSUME NEW i \in 1..Len(q), ~(i < k) PROVE Before(ord, o, q[i])
  BY <1>2, <1>4 DEF IsSlot
<1> HIDE DEF p
<1>5. ASSUME NEW i \in 1..(Len(q) + 1), NEW j \in 1..(Len(q) + 1), i < j
      PROVE  Before(ord, p[i], p[j])
  <2>1. CASE j < k
    <3>1. i \in 1..Len(q) /\ j \in 1..Len(q) /\ i < k  BY <1>2, <1>5, <2>1
    <3>2. p[i] = q[i] /\ p[j] = q[j]  BY <1>1, <2>1, <3>1
    <3>3. Before(ord, q[i], q[j])  BY <1>5, <3>1
    <3> QED  BY <3>2, <3>3
  <2>2. CASE j = k
    <3>1. i \in 1..Len(q) /\ i < k  BY <1>2, <1>5, <2>2
    <3>2. p[i] = q[i] /\ p[j] = o  BY <1>1, <2>2, <3>1
    <3>3. Before(ord, q[i], o)  BY <1>3, <3>1
    <3> QED  BY <3>2, <3>3
  <2>3. CASE k < j
    <3> DEFINE n == j - 1
    <3>1. n \in 1..Len(q) /\ ~(n < k) /\ n + 1 = j  BY <1>2, <1>5, <2>3
    <3> HIDE DEF n
    <3>2. p[j] = q[n]  BY <1>1, <3>1
    <3>3. CASE i < k
      <4>1. i \in 1..Len(q) /\ i < n  BY <1>2, <1>5, <3>1, <3>3
      <4>2. p[i] = q[i]  BY <1>1, <3>3, <4>1
      <4>3. Before(ord, q[i], q[n])  BY <3>1, <4>1
      <4> QED  BY <3>2, <4>2, <4>3
    <3>4. CASE i = k
      <4>1. p[i] = o  BY <1>1, <3>4
      <4>2. Before(ord, o, q[n])  BY <1>4, <3>1
      <4> QED  BY <3>2, <4>1, <4>2
    <3>5. CASE k < i
      <4> DEFINE m == i - 1
      <4>1. m \in 1..Len(q) /\ ~(m < k) /\ m + 1 = i /\ m < n
        BY <1>2, <1>5, <3>1, <3>5
      <4> HIDE DEF m
      <4>2. p[i] = q[m]  BY <1>1, <4>1
      <4>3. Before(ord, q[m], q[n])  BY <3>1, <4>1
      <4> QED  BY <3>2, <4>2, <4>3
    <3> QED  BY <1>2, <1>5, <3>3, <3>4, <3>5
  <2> QED  BY <1>2, <1>5, <2>1, <2>2, <2>3
<1> QED  BY <1>1, <1>5 DEF p

-----------------------------------------------------------------------------
(* What the invariant says of one side, and what one step does to it.      *)

(* The entries of a side are distinct waiting orders of that side, and     *)
(* none of them is the taker.                                              *)
LEMMA SideFacts ==
  ASSUME BookInvariant, NEW s \in Sides
  PROVE  /\ queue[s] \in Seq(Orders) /\ Len(queue[s]) \in Nat
         /\ Range(queue[s]) \subseteq Orders
         /\ \A x : x \in Range(queue[s]) <=> \E i \in 1..Len(queue[s]) : queue[s][i] = x
         /\ \A o \in Range(queue[s]) :
              /\ orders[o].side = s
              /\ Known(o) /\ Waiting(o) /\ o # taker
         /\ \A i, j \in 1..Len(queue[s]) : i < j => queue[s][i] # queue[s][j]
<1>1. queue[s] \in Seq(Orders) /\ Len(queue[s]) \in Nat
  BY LenProperties DEF BookInvariant, TypeOK
<1>2. /\ Range(queue[s]) \subseteq Orders
      /\ \A x : x \in Range(queue[s]) <=> \E i \in 1..Len(queue[s]) : queue[s][i] = x
  BY <1>1, RangeProperties
<1>3. ASSUME NEW o \in Range(queue[s])
      PROVE  orders[o].side = s /\ Known(o) /\ Waiting(o) /\ o # taker
  <2>1. o \in Orders /\ orders[o].side \in Sides
    BY <1>2, <1>3 DEF BookInvariant, TypeOK, Order
  <2>2. orders[o].side = s
    BY <1>3, <2>1 DEF BookInvariant, BookHoldsOpenOrders, Sides, Opposite
  <2> QED  BY <1>3, <2>1, <2>2 DEF BookInvariant, BookHoldsOpenOrders, Queued
<1>4. ASSUME NEW i \in 1..Len(queue[s]), NEW j \in 1..Len(queue[s]), i < j
      PROVE  queue[s][i] # queue[s][j]
  <2>1. Before(orders, queue[s][i], queue[s][j])
    BY <1>4 DEF BookInvariant, PriceTimeSorted, Sorted
  <2>2. queue[s][i] \in Orders /\ orders \in [Orders -> Order]
    BY <1>1, ElementOfSeq DEF BookInvariant, TypeOK
  <2> QED  BY <2>1, <2>2, BeforeOrder
<1> QED  BY <1>1, <1>2, <1>3, <1>4

(* A fill: who takes part, and that both quantities shrink by the same     *)
(* amount, nothing only if the maker has nothing left, while nothing else  *)
(* about any order changes.                                                *)
LEMMA MatchOrders ==
  ASSUME BookInvariant, Match
  PROVE  /\ taker \in Orders /\ Best \in Orders /\ Best # taker
         /\ orders[taker].side \in Sides
         /\ Opposite(orders[taker].side) \in Sides
         /\ orders[Best].side = Opposite(orders[taker].side)
         /\ orders[Best].side # orders[taker].side
         /\ queue[orders[Best].side] # << >>
         /\ Best \in Range(queue[orders[Best].side])
         /\ Known(Best) /\ Known(taker) /\ Waiting(Best)
         /\ Crosses(orders, taker, Best)
         /\ FillQuantity(orders, taker, Best) \in Nat
         /\ FillQuantity(orders, taker, Best) = 0 <=> orders[Best].remaining = 0
         /\ FillQuantity(orders, taker, Best) <= orders[Best].remaining
         /\ FillQuantity(orders, taker, Best) <= orders[taker].remaining
         /\ orders' \in [Orders -> Order]
         /\ \A o \in Orders :
              /\ orders'[o].side = orders[o].side
              /\ orders'[o].price = orders[o].price
              /\ orders'[o].quantity = orders[o].quantity
              /\ orders'[o].sequence = orders[o].sequence
              /\ orders'[o].remaining =
                   IF o \in {taker, Best}
                     THEN orders[o].remaining - FillQuantity(orders, taker, Best)
                     ELSE orders[o].remaining
<1> DEFINE t == taker  s == orders[taker].side  opp == Opposite(s)  m == Best
           n == FillQuantity(orders, t, m)
<1>1. t \in Orders /\ orders \in [Orders -> Order] /\ Known(t)
  BY DEF Match, BookInvariant, TypeOK, LifeOfOrders
<1>2. s \in Sides /\ opp \in Sides /\ opp # s
  BY <1>1 DEF Order, Sides, Opposite
<1>3. queue[opp] # << >> /\ orders[t].remaining > 0 /\ Crosses(orders, t, m)
  BY DEF Match, CanMatch, Best
<1>4. m \in Range(queue[opp])
  BY <1>2, <1>3, SideFacts, TailRange DEF Best
<1>5. /\ m \in Orders /\ orders[m].side = opp /\ m # t
      /\ Known(m) /\ Waiting(m)
  BY <1>2, <1>4, SideFacts
<1>6. /\ n \in Nat /\ n <= orders[m].remaining /\ n <= orders[t].remaining
      /\ n = 0 <=> orders[m].remaining = 0
  BY <1>1, <1>3, <1>5 DEF FillQuantity, Lesser, Order
<1>7. orders' = [orders EXCEPT ![m].remaining = @ - n, ![t].remaining = @ - n]
  BY DEF Match, Filled
<1> HIDE DEF n, m
<1>8. \A o \in Orders : orders'[o] =
        IF o \in {t, m} THEN [orders[o] EXCEPT !.remaining = @ - n] ELSE orders[o]
  BY <1>1, <1>5, <1>7
<1>9. \A o \in {t, m} : orders[o].remaining - n \in Nat
  BY <1>1, <1>5, <1>6 DEF Order
<1>10. orders' \in [Orders -> Order]
  <2>0. \A r \in Order, x \in Nat : [r EXCEPT !.remaining = x] \in Order
    BY DEF Order
  <2>1. ASSUME NEW o \in Orders PROVE orders'[o] \in Order
    <3>1. orders[o] \in Order  BY <1>1
    <3>2. CASE o \in {t, m}
      <4>1. orders[o].remaining - n \in Nat  BY <1>9, <3>2
      <4>2. orders'[o] = [orders[o] EXCEPT !.remaining = orders[o].remaining - n]
        BY <1>8, <3>2
      <4> QED  BY <3>1, <4>1, <4>2, <2>0
    <3>3. CASE o \notin {t, m}
      BY <1>8, <3>1, <3>3
    <3> QED  BY <3>2, <3>3
  <2>2. DOMAIN orders' = Orders /\ orders' = [o \in Orders |-> orders'[o]]
    BY <1>1, <1>7
  <2> QED  BY <2>1, <2>2
<1>11. \A o \in Orders :
        /\ orders'[o].side = orders[o].side
        /\ orders'[o].price = orders[o].price
        /\ orders'[o].quantity = orders[o].quantity
        /\ orders'[o].sequence = orders[o].sequence
        /\ orders'[o].remaining = IF o \in {t, m} THEN orders[o].remaining - n
                                                  ELSE orders[o].remaining
  BY <1>1, <1>8 DEF Order
<1> QED  BY <1>1, <1>2, <1>3, <1>4, <1>5, <1>6, <1>10, <1>11 DEF n, m

(* A fill, seen from the queues: only an exhausted maker leaves, and what  *)
(* stays keeps its order.                                                  *)
LEMMA MatchQueue ==
  ASSUME BookInvariant, Match
  PROVE  /\ queue' \in [Sides -> Seq(Orders)]
         /\ PriceTimeSorted'
         /\ \A s \in Sides :
              Range(queue'[s]) = IF orders'[Best].remaining = 0 THEN Range(queue[s]) \ {Best}
                                                                ELSE Range(queue[s])
<1> DEFINE opp == Opposite(orders[taker].side)
           n == FillQuantity(orders, taker, Best)
<1>1. /\ opp \in Sides /\ queue[opp] # << >> /\ orders[Best].side = opp
      /\ Best = Head(queue[opp]) /\ Best \in Orders
  BY ZenonT(40), MatchOrders DEF Best
<1>2. queue \in [Sides -> Seq(Orders)] /\ orders \in [Orders -> Order]
  BY DEF BookInvariant, TypeOK
<1>3. queue' = IF orders[Best].remaining = n
                 THEN [queue EXCEPT ![opp] = Tail(@)] ELSE queue
  BY DEF Match, AfterFill
<1>4. /\ Tail(queue[opp]) \in Seq(Orders)
      /\ Len(Tail(queue[opp])) = Len(queue[opp]) - 1
      /\ \A i \in 1..Len(Tail(queue[opp])) : Tail(queue[opp])[i] = queue[opp][i + 1]
      /\ Range(Tail(queue[opp])) = Range(queue[opp]) \ {Best}
  BY <1>1, <1>2, SideFacts, HeadTailProperties, TailRange
<1>5. \A o \in Orders : /\ orders'[o].side = orders[o].side
                        /\ orders'[o].price = orders[o].price
                        /\ orders'[o].sequence = orders[o].sequence
  BY MatchOrders
<1>6. \A o, p \in Orders : Before(orders', o, p) <=> Before(orders, o, p)
  BY <1>5 DEF Before, BetterPrice
<1>7. orders'[Best].remaining = 0 <=> orders[Best].remaining = n
  <2>1. n \in Nat /\ n <= orders[Best].remaining /\ orders[Best].remaining \in Nat
    BY <1>1, <1>2, MatchOrders DEF Order
  <2>2. orders'[Best].remaining = orders[Best].remaining - n
    BY <1>1, MatchOrders
  <2> QED  BY <2>1, <2>2
<1>8. queue' \in [Sides -> Seq(Orders)]
  BY <1>1, <1>2, <1>3, <1>4
<1>9. ASSUME NEW s \in Sides
      PROVE  Range(queue'[s]) = IF orders'[Best].remaining = 0 THEN Range(queue[s]) \ {Best}
                                                               ELSE Range(queue[s])
  <2>1. CASE orders[Best].remaining = n /\ s = opp
    <3>1. queue'[s] = Tail(queue[opp])  BY <1>1, <1>2, <1>3, <2>1
    <3> QED  BY <1>4, <1>7, <2>1, <3>1
  <2>2. CASE ~(orders[Best].remaining = n)
    BY <1>3, <1>7, <2>2
  <2>3. CASE orders[Best].remaining = n /\ s # opp
    <3>1. queue'[s] = queue[s]  BY <1>2, <1>3, <2>3
    <3>2. Best \notin Range(queue[s])  BY <1>1, <2>3, SideFacts
    <3> QED  BY <1>7, <2>3, <3>1, <3>2
  <2> QED  BY <2>1, <2>2, <2>3
<1>10. PriceTimeSorted'
  <2> SUFFICES ASSUME NEW s \in Sides, NEW i \in 1..Len(queue'[s]),
                      NEW j \in 1..Len(queue'[s]), i < j
               PROVE  Before(orders', queue'[s][i], queue'[s][j])
    BY DEF PriceTimeSorted, Sorted
  <2>1. CASE queue'[s] = queue[s]
    <3>1. Before(orders, queue[s][i], queue[s][j])
      BY <2>1 DEF BookInvariant, PriceTimeSorted, Sorted
    <3>2. queue[s][i] \in Orders /\ queue[s][j] \in Orders
      BY <1>2, <2>1, ElementOfSeq
    <3> QED  BY <1>6, <2>1, <3>1, <3>2
  <2>2. CASE s = opp /\ queue'[s] = Tail(queue[opp])
    <3>1. Len(queue[opp]) \in Nat  BY <1>1, SideFacts
    <3>2. /\ i + 1 \in 1..Len(queue[s]) /\ j + 1 \in 1..Len(queue[s]) /\ i + 1 < j + 1
          /\ queue'[s][i] = queue[s][i + 1] /\ queue'[s][j] = queue[s][j + 1]
      BY <1>4, <2>2, <3>1
    <3>3. Before(orders, queue[s][i + 1], queue[s][j + 1])
      BY <3>2 DEF BookInvariant, PriceTimeSorted, Sorted
    <3>4. queue[s][i + 1] \in Orders /\ queue[s][j + 1] \in Orders
      BY <1>2, <3>2, ElementOfSeq
    <3> QED  BY <1>6, <3>2, <3>3, <3>4
  <2> QED  BY <1>2, <1>3, <2>1, <2>2
<1> QED  BY <1>8, <1>9, <1>10

(* Both sides hold orders of that side that arrived at another time than o. *)
Distinct(ord, sides, o) ==
  \A s \in Sides : \A i \in 1..Len(sides[s]) :
    ord[sides[s][i]].side = s /\ ord[sides[s][i]].sequence # ord[o].sequence

(* Appending and sorting, seen from the book. *)
LEMMA JoinedSorted ==
  ASSUME NEW ord \in [Orders -> Order], NEW o \in Orders,
         NEW qs \in [Sides -> Seq(Orders)], Sorted(ord, qs), Distinct(ord, qs, o),
         NEW side, side = ord[o].side,
         NEW k \in 1..(Len(qs[side]) + 1), IsSlot(ord, qs[side], o, k)
  PROVE  /\ Joined(qs, side, o, k) \in [Sides -> Seq(Orders)]
         /\ Sorted(ord, Joined(qs, side, o, k))
         /\ \A s \in Sides : \A x : x \in Range(Joined(qs, side, o, k)[s])
              <=> x \in Range(qs[s]) \/ (s = side /\ x = o)
<1> DEFINE p == Placed(qs[side], o, k)
           new == Joined(qs, side, o, k)
<1>1. side \in Sides /\ qs[side] \in Seq(Orders)  BY DEF Order
<1>2. p \in Seq(Orders)
  BY <1>1, PlacedProperties
<1>3. \A i, j \in 1..Len(p) : i < j => Before(ord, p[i], p[j])
  <2> DEFINE q == qs[side]
  <2>1. q \in Seq(Orders) /\ k \in 1..(Len(q) + 1) /\ IsSlot(ord, q, o, k)
    BY <1>1
  <2>2. \A i, j \in 1..Len(q) : i < j => Before(ord, q[i], q[j])
    BY <1>1 DEF Sorted
  <2>3. \A i \in 1..Len(q) : /\ ord[q[i]].side = ord[o].side
                             /\ ord[q[i]].sequence # ord[o].sequence
    BY <1>1 DEF Distinct
  <2> HIDE DEF q
  <2>4. \A i, j \in 1..Len(Placed(q, o, k)) :
           i < j => Before(ord, Placed(q, o, k)[i], Placed(q, o, k)[j])
    BY ONLY <2>1, <2>2, <2>3, ord \in [Orders -> Order], o \in Orders, PlacedSorted
  <2> QED  BY <2>4 DEF q
<1>4. Range(p) = Range(qs[side]) \cup {o}
  BY <1>1, PlacedRange
<1>0. new = [qs EXCEPT ![side] = p]
  BY DEF Joined
<1> HIDE DEF p, new
<1>5. new \in [Sides -> Seq(Orders)]
  BY <1>0, <1>1, <1>2
<1>6. \A s \in Sides : new[s] = IF s = side THEN p ELSE qs[s]
  BY <1>0, <1>1
<1>7. \A s \in Sides : \A x : x \in Range(new[s])
        <=> x \in Range(qs[s]) \/ (s = side /\ x = o)
  BY <1>4, <1>6
<1>8. ASSUME NEW s \in Sides, NEW i \in 1..Len(new[s]), NEW j \in 1..Len(new[s]), i < j
      PROVE  Before(ord, new[s][i], new[s][j])
  <2>1. CASE s = side
    <3>1. new[s] = p  BY <1>6, <2>1
    <3> QED  BY <1>3, <1>8, <3>1
  <2>2. CASE s # side
    <3>1. new[s] = qs[s]  BY <1>6, <2>2
    <3> QED  BY <1>8, <3>1 DEF Sorted
  <2> QED  BY <2>1, <2>2
<1> QED  BY <1>5, <1>7, <1>8 DEF new, Sorted

-----------------------------------------------------------------------------
(* The invariant is inductive: one lemma per action.                       *)

(* The fields of an order record, and of the orders in the heap. *)
LEMMA OrderFields ==
  ASSUME NEW r \in Order
  PROVE  /\ r.side \in Sides
         /\ Opposite(r.side) \in Sides /\ Opposite(r.side) # r.side
         /\ Opposite(Opposite(r.side)) = r.side
         /\ r.price \in Nat /\ r.quantity \in Nat
         /\ r.remaining \in Nat /\ r.sequence \in Nat
  BY DEF Order, Sides, Opposite

(* Heap, queues and sequence counter are well typed. *)
LEMMA HeapFacts ==
  ASSUME BookInvariant
  PROVE  /\ orders \in [Orders -> Order]
         /\ \A o \in Orders : orders[o] \in Order
         /\ \A o \in Orders : Known(o) <=> orders[o].sequence # 0
         /\ queue \in [Sides -> Seq(Orders)]
         /\ seq \in Nat
  <1>1. /\ orders \in [Orders -> Order]
        /\ \A o \in Orders : orders[o] \in Order
        /\ queue \in [Sides -> Seq(Orders)]
        /\ seq \in Nat
    BY DEF BookInvariant, TypeOK
  <1>2. \A o \in Orders : orders[o].sequence \in Nat
    BY <1>1, OrderFields
  <1> QED  BY <1>1, <1>2 DEF Known

(* The parties of every trade are known orders. *)
LEMMA TradeParties ==
  ASSUME BookInvariant
  PROVE  /\ DOMAIN trades = 1..Len(trades) /\ Len(trades) \in Nat
         /\ \A i \in DOMAIN trades :
              /\ trades[i] \in [maker : Orders, taker : Orders, price : Nat, quantity : Nat]
              /\ trades[i].maker \in Orders /\ Known(trades[i].maker)
              /\ trades[i].taker \in Orders /\ Known(trades[i].taker)
<1> DEFINE T == [maker : Orders, taker : Orders, price : Nat, quantity : Nat]
<1>1. trades \in Seq(T)
  BY DEF BookInvariant, TypeOK
<1> HIDE DEF T
<1>2. DOMAIN trades = 1..Len(trades) /\ Len(trades) \in Nat
  BY <1>1, LenProperties
<1>3. \A i \in DOMAIN trades : trades[i] \in T
  BY <1>1, <1>2, ElementOfSeq
<1>4. \A i \in DOMAIN trades : Known(trades[i].maker) /\ Known(trades[i].taker)
  BY DEF BookInvariant, LifeOfOrders
<1> QED  BY <1>2, <1>3, <1>4 DEF T

(* A row of the store is a well-typed, numbered order. *)
LEMMA RowFacts ==
  ASSUME NEW row \in Rows
  PROVE  row \in Order
<1>1. PICK n \in Quantities : row \in [side : Sides, price : Prices, quantity : {n},
                                       remaining : 0..n, sequence : 1..MaxRestored]
  BY DEF Rows
<1>2. n \in Nat /\ Prices \subseteq Nat /\ MaxRestored \in Nat
  BY BookAssumption
<1>3. /\ 0..n \subseteq Nat /\ 1..MaxRestored \subseteq Nat /\ {n} \subseteq Nat
  BY <1>2
<1> QED  BY <1>1, <1>2, <1>3 DEF Order

(* The invariant holds in an empty book (NewOrderBook). *)
LEMMA InitInvariant == Init => BookInvariant
<1> SUFFICES ASSUME Init PROVE BookInvariant
  OBVIOUS
<1> USE DEF Init, NewOrderBook
<1>1. TypeOK
  <2>1. Blank \in Order  BY DEF Order, Blank, Sides
  <2>2. \A S : << >> \in Seq(S)  BY EmptySeq
  <2>3. orders \in [Orders -> Order] /\ queue \in [Sides -> Seq(Orders)]
    BY <2>1, <2>2
  <2> QED  BY <2>2, <2>3 DEF TypeOK
<1>2. \A o \in Orders : /\ ~Known(o) /\ opened[o] = 0
                        /\ orders[o].remaining = 0 /\ orders[o].sequence = 0
  BY DEF Known, Blank
<1>3. \A s \in Sides : Range(queue[s]) = {} /\ Len(queue[s]) = 0
  BY DEF Range
<1>4. \A o \in Orders : orders[o].side \in Sides /\ Opposite(orders[o].side) \in Sides
  BY DEF Blank, Sides, Opposite
<1>5. PriceTimeSorted
  BY <1>3 DEF PriceTimeSorted, Sorted
<1>6. BookHoldsOpenOrders
  BY <1>2, <1>3, <1>4 DEF BookHoldsOpenOrders, Queued
<1>7. NoNewCross
  BY <1>3 DEF NoNewCross, Sides
<1>8. TradesWithinLimits /\ ArrivalsDistinct /\ LifeOfOrders
  BY <1>2 DEF TradesWithinLimits, ArrivalsDistinct, LifeOfOrders
<1> QED  BY <1>1, <1>5, <1>6, <1>7, <1>8 DEF BookInvariant

(* Restoring a stored order preserves the invariant (OrderBook.Restore). *)
LEMMA RestorePreserves ==
  ASSUME BookInvariant, NEW o \in Orders, NEW row \in Rows, Restore(o, row)
  PROVE  /\ BookInvariant'
         /\ \A s \in Sides : \A x : x \in Range(queue'[s])
              <=> x \in Range(queue[s]) \/ (s = row.side /\ x = o)
<1>0. /\ row \in Order
      /\ row.sequence \in Nat /\ row.remaining \in Nat /\ row.side \in Sides
  BY RowFacts, OrderFields
<1>1. /\ ~serving /\ ~Known(o) /\ row.sequence > seq /\ seq' = row.sequence
      /\ orders' = [orders EXCEPT ![o] = row]
      /\ restored' = restored \cup {o} /\ opened' = [opened EXCEPT ![o] = row.remaining]
      /\ taker' = taker /\ trades' = trades /\ serving' = serving
  BY DEF Restore
<1>2. orders' \in [Orders -> Order] /\ orders'[o] = row
      /\ \A p \in Orders \ {o} : orders'[p] = orders[p]
  BY <1>0, <1>1, HeapFacts
<1>3. ASSUME NEW s \in Sides, NEW p \in Range(queue[s])
      PROVE  /\ p \in Orders /\ p # o /\ orders'[p] = orders[p] /\ orders[p].side = s
             /\ orders[p].sequence \in Nat /\ orders[p].sequence < row.sequence
             /\ Known(p)
  <2>1. p \in Orders /\ p # o /\ orders[p].side = s /\ Known(p)
    BY <1>1, SideFacts
  <2>2. orders[p].sequence \in Nat /\ orders[p].sequence <= seq /\ seq \in Nat
    BY <2>1, HeapFacts, OrderFields DEF BookInvariant, ArrivalsDistinct
  <2> QED  BY <1>0, <1>1, <1>2, <2>1, <2>2
<1>4. \A s \in Sides : \A i \in 1..Len(queue[s]) : queue[s][i] \in Range(queue[s])
  BY SideFacts
<1>5. PICK k \in 1..(Len(queue[row.side]) + 1) :
        /\ IsSlot(orders', queue[row.side], o, k)
        /\ queue' = Joined(queue, row.side, o, k)
  BY <1>2 DEF Restore, Enqueue
<1>6. Distinct(orders', queue, o)
  BY <1>0, <1>2, <1>3, <1>4 DEF Distinct
<1>7. Sorted(orders', queue)
  <2> SUFFICES ASSUME NEW s \in Sides, NEW i \in 1..Len(queue[s]),
                      NEW j \in 1..Len(queue[s]), i < j
               PROVE  Before(orders', queue[s][i], queue[s][j])
    BY DEF Sorted
  <2>1. Before(orders, queue[s][i], queue[s][j])
    BY DEF BookInvariant, PriceTimeSorted, Sorted
  <2>2. /\ orders'[queue[s][i]] = orders[queue[s][i]]
        /\ orders'[queue[s][j]] = orders[queue[s][j]]
    BY <1>3, <1>4
  <2> QED  BY <2>1, <2>2 DEF Before, BetterPrice
<1>8. /\ queue' \in [Sides -> Seq(Orders)]
      /\ Sorted(orders', queue')
      /\ \A s \in Sides : \A x : x \in Range(queue'[s])
           <=> x \in Range(queue[s]) \/ (s = row.side /\ x = o)
  <2> DEFINE new == Joined(queue, row.side, o, k)
  <2>1. /\ orders' \in [Orders -> Order] /\ queue \in [Sides -> Seq(Orders)]
        /\ row.side = orders'[o].side
    BY <1>2, HeapFacts
  <2>2. /\ new \in [Sides -> Seq(Orders)]
        /\ Sorted(orders', new)
        /\ \A s \in Sides : \A x : x \in Range(new[s])
             <=> x \in Range(queue[s]) \/ (s = row.side /\ x = o)
    BY ONLY <1>5, <1>6, <1>7, <2>1, o \in Orders,
            k \in 1..(Len(queue[row.side]) + 1), JoinedSorted
  <2> QED  BY <1>5, <2>2
<1>9. taker = None /\ o # None
  BY <1>1, BookAssumption DEF BookInvariant, LifeOfOrders
<1>10. TypeOK'
  <2>1. restored' \subseteq Orders /\ opened' \in [Orders -> Nat] /\ seq' \in Nat
    BY <1>0, <1>1 DEF BookInvariant, TypeOK
  <2> QED  BY <1>1, <1>2, <1>8, <2>1 DEF BookInvariant, TypeOK
<1>11. PriceTimeSorted'
  BY <1>8 DEF PriceTimeSorted
<1>12. BookHoldsOpenOrders'
  <2> SUFFICES ASSUME NEW p \in Orders
               PROVE  /\ p \in Range(queue'[orders'[p].side])
                          <=> Known(p)' /\ Waiting(p)' /\ p # taker'
                      /\ p \notin Range(queue'[Opposite(orders'[p].side)])
    BY DEF BookHoldsOpenOrders, Queued
  <2>1. /\ orders'[p].side \in Sides /\ Opposite(orders'[p].side) \in Sides
        /\ Opposite(orders'[p].side) # orders'[p].side
    BY <1>2, OrderFields
  <2>2. CASE p = o
    <3>1. Known(o)'  BY <1>1, <1>2, HeapFacts, <1>0 DEF Known
    <3>2. o \notin Range(queue[Opposite(orders'[o].side)])  BY <1>3, <2>1, <2>2
    <3>3. Waiting(o)'
      <4>1. \A i \in DOMAIN trades : trades[i].maker # o  BY <1>1, TradeParties
      <4>2. orders'[o].remaining = row.remaining /\ opened'[o] = row.remaining
        BY <1>1, <1>2 DEF BookInvariant, TypeOK
      <4> QED  BY <1>0, <1>1, <4>1, <4>2 DEF Waiting
    <3> QED  BY <1>0, <1>1, <1>2, <1>8, <1>9, <2>1, <2>2, <3>1, <3>2, <3>3
  <2>3. CASE p # o
    <3>1. orders'[p] = orders[p] /\ (Known(p)' <=> Known(p))
      BY <1>2, <2>3 DEF Known
    <3>2. \A s \in Sides : p \in Range(queue'[s]) <=> p \in Range(queue[s])
      BY <1>8, <2>3
    <3>3. /\ p \in Range(queue[orders[p].side])
                 <=> Known(p) /\ Waiting(p) /\ p # taker
          /\ p \notin Range(queue[Opposite(orders[p].side)])
      BY DEF BookInvariant, BookHoldsOpenOrders, Queued
    <3>4. Waiting(p)' <=> Waiting(p)
      <4>1. (p \in restored' <=> p \in restored) /\ opened'[p] = opened[p]
        BY <1>1, <2>3 DEF BookInvariant, TypeOK
      <4> QED  BY <1>1, <3>1, <4>1 DEF Waiting
    <3> QED  BY <1>1, <2>1, <3>1, <3>2, <3>3, <3>4
  <2> QED  BY <2>2, <2>3
<1>13. LifeOfOrders'
  <2>1. ASSUME NEW p \in Orders
        PROVE  /\ ~Known(p)' => opened'[p] = 0
               /\ orders'[p].remaining <= opened'[p]
               /\ Known(p)' => p \in restored'
    <3>1. CASE p = o
      <4>1. Known(o)'  BY <1>0, <1>1, <1>2, HeapFacts DEF Known
      <4>2. opened'[o] = row.remaining /\ o \in restored'
        BY <1>1 DEF BookInvariant, TypeOK
      <4> QED  BY <1>0, <1>2, <3>1, <4>1, <4>2
    <3>2. CASE p # o
      <4>1. orders'[p] = orders[p] /\ opened'[p] = opened[p]
        BY <1>1, <1>2, <3>2 DEF BookInvariant, TypeOK
      <4> QED  BY <1>1, <4>1 DEF BookInvariant, LifeOfOrders, Known
    <3> QED  BY <3>1, <3>2
  <2>2. \A i \in DOMAIN trades : Known(trades[i].maker)' /\ Known(trades[i].taker)'
    BY <1>1, <1>2, TradeParties DEF Known
  <2> QED  BY <1>1, <1>9, <2>1, <2>2 DEF LifeOfOrders
<1>14. NoNewCross'
  <2>1. ASSUME NEW s \in Sides, NEW p \in Range(queue'[s])
        PROVE  p \in Orders /\ Known(p)'
    <3>1. CASE p = o
      BY <1>0, <1>1, <1>2, <3>1, HeapFacts DEF Known
    <3>2. CASE p # o
      <4>1. p \in Range(queue[s])  BY <1>8, <2>1, <3>2
      <4> QED  BY <1>3, <4>1 DEF Known
    <3> QED  BY <3>1, <3>2
  <2>2. \A p \in Orders : Known(p)' => p \in restored'
    BY <1>1, <1>13 DEF LifeOfOrders
  <2>3. "buy" \in Sides /\ "sell" \in Sides  BY DEF Sides
  <2> QED  BY <2>1, <2>2, <2>3 DEF NoNewCross
<1>15. TradesWithinLimits'
  <2>1. ASSUME NEW i \in DOMAIN trades
        PROVE  /\ orders'[trades[i].maker] = orders[trades[i].maker]
               /\ orders'[trades[i].taker] = orders[trades[i].taker]
               /\ opened'[trades[i].maker] = opened[trades[i].maker]
    BY <1>1, <1>2, TradeParties DEF BookInvariant, TypeOK
  <2> QED  BY <1>1, <2>1 DEF BookInvariant, TradesWithinLimits, Crosses
<1>16. ArrivalsDistinct'
  <2>1. ASSUME NEW p \in Orders, p # o
        PROVE  /\ orders'[p] = orders[p] /\ orders[p].sequence \in Nat
               /\ orders[p].sequence < row.sequence
    <3>1. orders[p].sequence <= seq /\ orders[p].sequence \in Nat /\ seq \in Nat
      BY HeapFacts, OrderFields DEF BookInvariant, ArrivalsDistinct
    <3> QED  BY <1>0, <1>1, <1>2, <2>1, <3>1
  <2>2. ASSUME NEW p \in Orders, NEW x \in Orders, p # x, Known(p)'
        PROVE  orders'[p].sequence # orders'[x].sequence
    <3>1. CASE p # o /\ x # o
      BY <1>2, <2>2, <3>1 DEF BookInvariant, ArrivalsDistinct, Known
    <3>2. CASE p = o \/ x = o
      BY <1>0, <1>2, <2>1, <2>2, <3>2
    <3> QED  BY <3>1, <3>2
  <2>3. \A p \in Orders : orders'[p].sequence <= seq'
    BY <1>0, <1>1, <1>2, <2>1
  <2> QED  BY <1>1, <1>9, <2>2, <2>3 DEF ArrivalsDistinct
<1>17. BookInvariant'
  BY <1>10, <1>11, <1>12, <1>13, <1>14, <1>15, <1>16 DEF BookInvariant
<1> QED  BY <1>8, <1>17

(* So does numbering and opening a new order (the start of Submit). *)
LEMMA SubmitPreserves ==
  ASSUME BookInvariant, NEW o \in Orders, NEW side \in Sides, NEW price \in Prices,
         NEW n \in Quantities, Submit(o, side, price, n)
  PROVE  BookInvariant'
<1> DEFINE row == [side |-> side, price |-> price, quantity |-> n,
                   remaining |-> n, sequence |-> seq + 1]
<1>0. /\ seq \in Nat /\ price \in Nat /\ n \in Nat /\ n > 0 /\ row \in Order
      /\ o # None
  <2>1. seq \in Nat /\ seq + 1 \in Nat  BY HeapFacts
  <2> QED  BY <2>1, BookAssumption DEF Order
<1>1. /\ serving /\ taker = None /\ ~Known(o) /\ seq' = seq + 1
      /\ orders' = [orders EXCEPT ![o] = row]
      /\ taker' = o /\ queue' = queue /\ trades' = trades /\ serving' = serving
      /\ restored' = restored /\ opened' = [opened EXCEPT ![o] = n]
  BY DEF Submit
<1>2. orders' \in [Orders -> Order] /\ orders'[o] = row
      /\ \A p \in Orders \ {o} : orders'[p] = orders[p]
  BY <1>0, <1>1, HeapFacts
<1>3. Known(o)' /\ \A p \in Orders \ {o} : Known(p)' <=> Known(p)
  BY <1>0, <1>2 DEF Known
<1>4. ASSUME NEW s \in Sides, NEW p \in Range(queue[s])
      PROVE  p \in Orders /\ p # o /\ orders'[p] = orders[p]
  BY <1>1, <1>2, SideFacts
<1>5. TypeOK'
  BY <1>0, <1>1, <1>2 DEF BookInvariant, TypeOK
<1>6. PriceTimeSorted'
  <2> SUFFICES ASSUME NEW s \in Sides, NEW i \in 1..Len(queue[s]),
                      NEW j \in 1..Len(queue[s]), i < j
               PROVE  Before(orders', queue[s][i], queue[s][j])
    BY <1>1 DEF PriceTimeSorted, Sorted
  <2>1. Before(orders, queue[s][i], queue[s][j])
    BY DEF BookInvariant, PriceTimeSorted, Sorted
  <2>2. /\ orders'[queue[s][i]] = orders[queue[s][i]]
        /\ orders'[queue[s][j]] = orders[queue[s][j]]
    BY <1>4, SideFacts
  <2> QED  BY <2>1, <2>2 DEF Before, BetterPrice
<1>7. BookHoldsOpenOrders'
  <2> SUFFICES ASSUME NEW p \in Orders
               PROVE  /\ p \in Range(queue[orders'[p].side])
                          <=> Known(p)' /\ Waiting(p)' /\ p # o
                      /\ p \notin Range(queue[Opposite(orders'[p].side)])
    BY <1>1 DEF BookHoldsOpenOrders, Queued
  <2>1. CASE p = o
    BY <1>2, <1>4, <2>1, OrderFields
  <2>2. CASE p # o
    <3>1. Waiting(p)' <=> Waiting(p)
      BY <1>1, <1>2, <2>2 DEF BookInvariant, TypeOK, Waiting
    <3> QED  BY <1>1, <1>2, <1>3, <2>2, <3>1, BookAssumption
                DEF BookInvariant, BookHoldsOpenOrders, Queued
  <2> QED  BY <2>1, <2>2
<1>8. NoNewCross'
  BY <1>1, <1>4 DEF BookInvariant, NoNewCross, Sides
<1>9. TradesWithinLimits'
  <2>1. ASSUME NEW i \in DOMAIN trades
        PROVE  /\ orders'[trades[i].maker] = orders[trades[i].maker]
               /\ orders'[trades[i].taker] = orders[trades[i].taker]
               /\ opened'[trades[i].maker] = opened[trades[i].maker]
    BY <1>1, <1>2, TradeParties DEF BookInvariant, TypeOK
  <2> QED  BY <1>1, <2>1 DEF BookInvariant, TradesWithinLimits, Crosses
<1>10. ArrivalsDistinct'
  <2>1. ASSUME NEW p \in Orders, p # o
        PROVE  /\ orders'[p] = orders[p] /\ orders[p].sequence \in Nat
               /\ orders[p].sequence < seq + 1
    <3>1. orders[p].sequence <= seq /\ orders[p].sequence \in Nat /\ seq \in Nat
      BY HeapFacts, OrderFields DEF BookInvariant, ArrivalsDistinct
    <3> QED  BY <1>2, <2>1, <3>1
  <2>2. ASSUME NEW p \in Orders, NEW x \in Orders, p # x, Known(p)'
        PROVE  orders'[p].sequence # orders'[x].sequence
    <3>1. CASE p # o /\ x # o
      BY <1>2, <1>3, <2>2, <3>1 DEF BookInvariant, ArrivalsDistinct
    <3>2. CASE p = o \/ x = o
      BY <1>0, <1>2, <2>1, <2>2, <3>2
    <3> QED  BY <3>1, <3>2
  <2>3. \A p \in Orders : orders'[p].sequence <= seq'
    BY <1>0, <1>1, <1>2, <2>1
  <2> QED  BY <1>1, <1>2, <2>2, <2>3 DEF ArrivalsDistinct
<1>11. LifeOfOrders'
  <2>1. ASSUME NEW p \in Orders
        PROVE  (~Known(p)' => opened'[p] = 0) /\ orders'[p].remaining <= opened'[p]
    <3>1. CASE p = o
      BY <1>0, <1>1, <1>2, <1>3, <3>1 DEF BookInvariant, TypeOK
    <3>2. CASE p # o
      BY <1>1, <1>2, <1>3, <3>2 DEF BookInvariant, TypeOK, LifeOfOrders
    <3> QED  BY <3>1, <3>2
  <2>2. \A i \in DOMAIN trades : Known(trades[i].maker)' /\ Known(trades[i].taker)'
    BY <1>1, <1>3, TradeParties
  <2>3. opened'[o] > 0  BY <1>0, <1>1 DEF BookInvariant, TypeOK
  <2> QED  BY <1>1, <1>3, <2>1, <2>2, <2>3 DEF LifeOfOrders
<1> QED  BY <1>5, <1>6, <1>7, <1>8, <1>9, <1>10, <1>11 DEF BookInvariant

(* So does one iteration of the matching loops (matchBuy, matchSell). *)
LEMMA MatchPreserves ==
  ASSUME BookInvariant, Match
  PROVE  BookInvariant'
<1> DEFINE n == FillQuantity(orders, taker, Best)
           fill == FillOf(orders, taker, Best)
<1>1. /\ trades' = Append(trades, fill) /\ seq' = seq /\ taker' = taker
      /\ serving' = serving /\ restored' = restored /\ opened' = opened /\ taker # None
  BY DEF Match, history
<1>2. /\ taker \in Orders /\ Best \in Orders /\ Best # taker
      /\ orders[Best].side # orders[taker].side
      /\ Known(Best) /\ Known(taker) /\ Waiting(Best) /\ Crosses(orders, taker, Best)
      /\ n \in Nat /\ orders' \in [Orders -> Order]
      /\ n = 0 <=> orders[Best].remaining = 0
  BY MatchOrders
<1>3. \A o \in Orders : /\ orders'[o].side = orders[o].side
                        /\ orders'[o].price = orders[o].price
                        /\ orders'[o].quantity = orders[o].quantity
                        /\ orders'[o].sequence = orders[o].sequence
                        /\ Known(o)' <=> Known(o)
  BY MatchOrders DEF Known
<1>4. \A o \in Orders \ {taker, Best} : orders'[o].remaining = orders[o].remaining
  BY MatchOrders
<1>5. /\ queue' \in [Sides -> Seq(Orders)] /\ PriceTimeSorted'
      /\ \A s \in Sides : \A x : x \in Range(queue'[s])
           <=> x \in Range(queue[s]) /\ ~(x = Best /\ orders'[Best].remaining = 0)
  BY MatchQueue
<1>6. fill \in [maker : Orders, taker : Orders, price : Nat, quantity : Nat]
      /\ fill.maker = Best /\ fill.taker = taker
      /\ fill.price = orders[Best].price /\ fill.quantity = n
  BY <1>2, HeapFacts, OrderFields DEF FillOf
<1>7. TypeOK'
  <2>1. trades' \in Seq([maker : Orders, taker : Orders, price : Nat, quantity : Nat])
    BY <1>1, <1>6, AppendProperties DEF BookInvariant, TypeOK
  <2> QED  BY <1>1, <1>2, <1>5, <2>1 DEF BookInvariant, TypeOK
<1>8. ASSUME NEW o \in Orders PROVE o \in Range(queue[orders[o].side]) => o # taker
  BY OrderFields, HeapFacts, SideFacts
<1>10. NoNewCross'
  <2>1. ASSUME NEW s \in Sides, NEW o \in Range(queue'[s])
        PROVE  o \in Orders /\ o \in Range(queue[s]) /\ orders'[o].price = orders[o].price
    BY <1>3, <1>5, <2>1, SideFacts
  <2>2. "buy" \in Sides /\ "sell" \in Sides  BY DEF Sides
  <2> QED  BY <1>1, <2>1, <2>2 DEF BookInvariant, NoNewCross
<1>11. /\ DOMAIN trades' = 1..(Len(trades) + 1) /\ DOMAIN trades = 1..Len(trades)
       /\ Len(trades) \in Nat
       /\ \A i \in DOMAIN trades' : trades'[i] = IF i = Len(trades) + 1 THEN fill ELSE trades[i]
  <2>1. trades \in Seq([maker : Orders, taker : Orders, price : Nat, quantity : Nat])
    BY DEF BookInvariant, TypeOK
  <2> HIDE DEF fill
  <2>2. /\ Len(trades') = Len(trades) + 1
        /\ \A i \in 1..(Len(trades) + 1) :
             trades'[i] = IF i = Len(trades) + 1 THEN fill ELSE trades[i]
    BY <1>1, <1>6, <2>1, AppendProperties
  <2>3. DOMAIN trades' = 1..Len(trades')
    BY <1>7, LenProperties DEF TypeOK
  <2> QED  BY <2>2, <2>3, TradeParties
<1> HIDE DEF fill, n
<1>12. ASSUME NEW i \in DOMAIN trades'
       PROVE  \/ trades'[i] = fill
              \/ i \in DOMAIN trades /\ trades'[i] = trades[i]
  BY <1>11
<1>9. BookHoldsOpenOrders'
  <2> SUFFICES ASSUME NEW o \in Orders
               PROVE  /\ o \in Range(queue'[orders'[o].side])
                          <=> Known(o)' /\ Waiting(o)' /\ o # taker
                      /\ o \notin Range(queue'[Opposite(orders'[o].side)])
    BY <1>1 DEF BookHoldsOpenOrders, Queued
  <2>1. orders[o].side \in Sides /\ Opposite(orders[o].side) \in Sides
    BY HeapFacts, OrderFields
  <2>2. /\ o \in Range(queue[orders[o].side])
              <=> Known(o) /\ Waiting(o) /\ o # taker
        /\ o \notin Range(queue[Opposite(orders[o].side)])
    BY DEF BookInvariant, BookHoldsOpenOrders, Queued
  <2>3. CASE o = Best
    <3>1. \E i \in DOMAIN trades' : trades'[i].maker = Best
      BY <1>6, <1>11
    <3>2. orders'[Best].remaining \in Nat
      BY <1>2, OrderFields
    <3>3. Waiting(o)' <=> orders'[Best].remaining # 0
      BY <2>3, <3>1, <3>2 DEF Waiting
    <3> QED  BY <1>2, <1>3, <1>5, <2>1, <2>2, <2>3, <3>3
  <2>4. CASE o # Best /\ o # taker
    <3>1. (\A i \in DOMAIN trades' : trades'[i].maker # o)
            <=> (\A i \in DOMAIN trades : trades[i].maker # o)
      BY <1>6, <1>11, <2>4
    <3>2. Waiting(o)' <=> Waiting(o)
      BY <1>1, <1>4, <2>4, <3>1 DEF Waiting
    <3> QED  BY <1>3, <1>5, <2>1, <2>2, <2>4, <3>2
  <2>5. CASE o = taker
    BY <1>3, <1>5, <2>1, <2>2, <2>5
  <2> QED  BY <2>3, <2>4, <2>5
<1>13. TradesWithinLimits'
  <2> SUFFICES ASSUME NEW i \in DOMAIN trades'
               PROVE  LET t == trades'[i] IN
                      /\ t.quantity = 0 <=> opened'[t.maker] = 0
                      /\ t.maker # t.taker
                      /\ t.price = orders'[t.maker].price
                      /\ orders'[t.taker].side # orders'[t.maker].side
                      /\ Crosses(orders', t.taker, t.maker)
    BY DEF TradesWithinLimits
  <2>1. CASE trades'[i] = fill
    <3>1. n = 0 <=> opened[Best] = 0
      BY <1>2, HeapFacts, OrderFields DEF BookInvariant, TypeOK, LifeOfOrders, Waiting
    <3> QED  BY <1>1, <1>2, <1>3, <1>6, <2>1, <3>1 DEF Crosses
  <2>2. CASE i \in DOMAIN trades /\ trades'[i] = trades[i]
    <3>1. trades[i].maker \in Orders /\ trades[i].taker \in Orders
      BY <2>2, TradeParties
    <3> QED  BY <1>1, <1>3, <2>2, <3>1 DEF BookInvariant, TradesWithinLimits, Crosses
  <2> QED  BY <1>12, <2>1, <2>2
<1>14. ArrivalsDistinct'
  BY <1>1, <1>2, <1>3 DEF BookInvariant, ArrivalsDistinct
<1>15. LifeOfOrders'
  <2>1. ASSUME NEW i \in DOMAIN trades'
        PROVE  /\ orders'[trades'[i].maker].sequence > 0
               /\ orders'[trades'[i].taker].sequence > 0
    <3>1. CASE trades'[i] = fill
      BY <1>2, <1>3, <1>6, <3>1 DEF Known
    <3>2. CASE i \in DOMAIN trades /\ trades'[i] = trades[i]
      BY <1>3, <3>2, TradeParties DEF Known
    <3> QED  BY <1>12, <3>1, <3>2
  <2>2. ASSUME NEW o \in Orders
        PROVE  (~Known(o)' => opened'[o] = 0) /\ orders'[o].remaining <= opened'[o]
    <3>1. orders'[o].remaining <= orders[o].remaining
      <4>1. orders'[o].remaining = IF o \in {taker, Best} THEN orders[o].remaining - n
                                                          ELSE orders[o].remaining
        BY MatchOrders DEF n
      <4>2. orders[o].remaining \in Nat
        BY HeapFacts, OrderFields
      <4> QED  BY <1>2, <4>1, <4>2
    <3>2. orders[o].remaining <= opened[o] /\ (~Known(o) => opened[o] = 0)
      BY DEF BookInvariant, LifeOfOrders
    <3>3. /\ orders[o].remaining \in Nat /\ orders'[o].remaining \in Nat
          /\ opened[o] \in Nat
      BY <1>2, HeapFacts, OrderFields DEF BookInvariant, TypeOK
    <3> QED  BY <1>1, <1>3, <3>1, <3>2, <3>3
  <2>3. taker' # None => serving' /\ Known(taker)' /\ opened'[taker'] > 0
    BY <1>1, <1>2, <1>3 DEF BookInvariant, LifeOfOrders, Known
  <2>4. \A o \in Orders : ~serving' /\ Known(o)' => o \in restored'
    BY <1>1, <1>3 DEF BookInvariant, LifeOfOrders
  <2> QED  BY <2>1, <2>2, <2>3, <2>4 DEF LifeOfOrders, Known
<1> QED  BY <1>5, <1>7, <1>9, <1>10, <1>13, <1>14, <1>15 DEF BookInvariant

(* The head of a side is ahead of everybody else there, so when it does    *)
(* not cross the taker nobody does: looking at position 0 is enough.       *)
LEMMA HeadFirst ==
  ASSUME BookInvariant, NEW s \in Sides, NEW o \in Range(queue[s])
  PROVE  /\ queue[s] # << >> /\ Head(queue[s]) \in Range(queue[s])
         /\ o # Head(queue[s]) => Before(orders, Head(queue[s]), o)
<1>1. /\ queue[s] \in Seq(Orders) /\ Len(queue[s]) \in Nat
      /\ \A x : x \in Range(queue[s]) <=> \E i \in 1..Len(queue[s]) : queue[s][i] = x
  BY SideFacts
<1>2. PICK i \in 1..Len(queue[s]) : queue[s][i] = o
  BY <1>1
<1>3. queue[s] # << >>
  BY <1>1, <1>2, EmptySeq
<1>4. Head(queue[s]) = queue[s][1] /\ 1 \in 1..Len(queue[s])
  BY <1>1, <1>2, <1>3, HeadTailProperties
<1>5. CASE i = 1
  BY <1>1, <1>2, <1>3, <1>4, <1>5
<1>6. CASE 1 < i
  <2>1. Before(orders, queue[s][1], queue[s][i])
    BY <1>4, <1>6 DEF BookInvariant, PriceTimeSorted, Sorted
  <2> QED  BY <1>1, <1>2, <1>3, <1>4, <2>1
<1> QED  BY <1>1, <1>2, <1>5, <1>6

(* When the loop stops and the taker is not exhausted, nothing on the other *)
(* side crosses it (the break of matchBuy and matchSell).                  *)
LEMMA NothingCrosses ==
  ASSUME BookInvariant, taker # None, ~CanMatch(orders, queue, taker),
         orders[taker].remaining > 0,
         NEW m \in Range(queue[Opposite(orders[taker].side)])
  PROVE  ~Crosses(orders, taker, m)
<1> DEFINE opp == Opposite(orders[taker].side)  h == Head(queue[opp])
<1>1. taker \in Orders /\ orders[taker] \in Order /\ opp \in Sides
  BY HeapFacts, OrderFields DEF BookInvariant, TypeOK
<1>2. /\ queue[opp] # << >> /\ h \in Range(queue[opp])
      /\ m # h => Before(orders, h, m)
  BY <1>1, HeadFirst
<1>3. h \in Orders /\ m \in Orders /\ orders[h].side = opp /\ orders[m].side = opp
  BY <1>1, <1>2, SideFacts
<1>4. orders[h].price \in Nat /\ orders[m].price \in Nat /\ orders[taker].price \in Nat
  BY <1>1, <1>3, HeapFacts, OrderFields
<1>5. ~Crosses(orders, taker, h)
  BY <1>2 DEF CanMatch
<1>6. CASE m = h
  BY <1>5, <1>6
<1>7. CASE m # h
  <2>1. BetterPrice(opp, orders[h].price, orders[m].price) \/ orders[h].price = orders[m].price
    BY <1>2, <1>3, <1>7 DEF Before
  <2>2. orders[taker].side \in {"buy", "sell"}  BY <1>1, OrderFields DEF Sides
  <2> QED  BY <1>4, <1>5, <2>1, <2>2 DEF Crosses, BetterPrice, Opposite
<1> QED  BY <1>6, <1>7

(* Finish either leaves the book alone or adds the taker to its own side.  *)
LEMMA FinishQueue ==
  ASSUME BookInvariant, Finish
  PROVE  /\ taker \in Orders /\ taker # None /\ Known(taker)
         /\ orders' = orders /\ taker' = None /\ seq' = seq
         /\ trades' = trades /\ serving' = serving
         /\ restored' = restored /\ opened' = opened
         /\ queue' \in [Sides -> Seq(Orders)] /\ PriceTimeSorted'
         /\ \A s \in Sides : \A x : x \in Range(queue'[s])
              <=> \/ x \in Range(queue[s])
                  \/ s = orders[taker].side /\ x = taker /\ orders[taker].remaining > 0
<1> DEFINE t == orders[taker].side
<1>1. /\ taker \in Orders /\ taker # None /\ Known(taker)
      /\ orders' = orders /\ taker' = None /\ seq' = seq
      /\ trades' = trades /\ serving' = serving
      /\ restored' = restored /\ opened' = opened
  BY DEF Finish, history, BookInvariant, TypeOK, LifeOfOrders
<1>2. queue \in [Sides -> Seq(Orders)] /\ orders \in [Orders -> Order]
  BY HeapFacts
<1>3. CASE orders[taker].remaining > 0
  <2>1. PICK k \in 1..(Len(queue[t]) + 1) :
          IsSlot(orders, queue[t], taker, k) /\ queue' = Joined(queue, t, taker, k)
    BY <1>3 DEF Finish, Enqueue
  <2>2. Distinct(orders, queue, taker)
    <3> SUFFICES ASSUME NEW s \in Sides, NEW i \in 1..Len(queue[s])
                 PROVE  /\ orders[queue[s][i]].side = s
                        /\ orders[queue[s][i]].sequence # orders[taker].sequence
      BY DEF Distinct
    <3>1. queue[s][i] \in Range(queue[s])  BY SideFacts
    <3>2. /\ queue[s][i] \in Orders /\ orders[queue[s][i]].side = s
          /\ Known(queue[s][i]) /\ queue[s][i] # taker
      BY <3>1, SideFacts
    <3> QED  BY <1>1, <3>2 DEF BookInvariant, ArrivalsDistinct
  <2>3. Sorted(orders, queue)
    BY DEF BookInvariant, PriceTimeSorted
  <2> DEFINE new == Joined(queue, t, taker, k)
  <2>4. new \in [Sides -> Seq(Orders)] /\ Sorted(orders, new)
    BY <1>1, <1>2, <2>1, <2>2, <2>3, JoinedSorted
  <2>5. \A s \in Sides : \A x : x \in Range(new[s])
          <=> x \in Range(queue[s]) \/ (s = t /\ x = taker)
    BY <1>1, <1>2, <2>1, <2>2, <2>3, JoinedSorted
  <2> QED  BY <1>1, <1>3, <2>1, <2>4, <2>5 DEF PriceTimeSorted
<1>4. CASE ~(orders[taker].remaining > 0)
  <2>1. queue' = queue  BY <1>4 DEF Finish
  <2> QED  BY <1>1, <1>2, <1>4, <2>1 DEF BookInvariant, PriceTimeSorted
<1> QED  BY <1>3, <1>4

(* Resting what is left of the taker preserves the invariant (the end of   *)
(* Submit).                                                                *)
LEMMA FinishPreserves ==
  ASSUME BookInvariant, Finish
  PROVE  BookInvariant'
<1>1. /\ taker \in Orders /\ taker # None /\ Known(taker)
      /\ orders' = orders /\ taker' = None /\ seq' = seq
      /\ trades' = trades /\ serving' = serving
      /\ restored' = restored /\ opened' = opened
      /\ queue' \in [Sides -> Seq(Orders)] /\ PriceTimeSorted'
  BY FinishQueue
<1>2. \A s \in Sides : \A x : x \in Range(queue'[s])
        <=> \/ x \in Range(queue[s])
            \/ s = orders[taker].side /\ x = taker /\ orders[taker].remaining > 0
  BY FinishQueue
<1>3. TypeOK'
  BY <1>1 DEF BookInvariant, TypeOK
<1>4. BookHoldsOpenOrders'
  <2> SUFFICES ASSUME NEW o \in Orders
               PROVE  /\ o \in Range(queue'[orders[o].side])
                          <=> Known(o) /\ Waiting(o) /\ o # None
                      /\ o \notin Range(queue'[Opposite(orders[o].side)])
    BY <1>1 DEF BookHoldsOpenOrders, Queued, Known, Waiting
  <2>1. /\ orders[o].side \in Sides /\ Opposite(orders[o].side) \in Sides
        /\ Opposite(orders[o].side) # orders[o].side /\ o # None
    BY HeapFacts, OrderFields, BookAssumption
  <2>2. /\ o \in Range(queue[orders[o].side])
              <=> Known(o) /\ Waiting(o) /\ o # taker
        /\ o \notin Range(queue[Opposite(orders[o].side)])
    BY DEF BookInvariant, BookHoldsOpenOrders, Queued
  <2>3. Waiting(taker) <=> orders[taker].remaining > 0
    BY <1>1 DEF BookInvariant, LifeOfOrders, Waiting
  <2> QED  BY <1>1, <1>2, <2>1, <2>2, <2>3
<1>5. NoNewCross'
  <2> SUFFICES ASSUME NEW b \in Range(queue'["buy"]), NEW a \in Range(queue'["sell"]),
                      orders[b].price >= orders[a].price
               PROVE  {a, b} \subseteq restored
    BY <1>1 DEF NoNewCross
  <2>0. "buy" \in Sides /\ "sell" \in Sides /\ Opposite("buy") = "sell"
        /\ Opposite("sell") = "buy"
    BY DEF Sides, Opposite
  <2>1. CASE b \in Range(queue["buy"]) /\ a \in Range(queue["sell"])
    BY <2>1 DEF BookInvariant, NoNewCross
  <2>2. ~CanMatch(orders, queue, taker)  BY DEF Finish
  <2>3. CASE b \notin Range(queue["buy"])
    <3>1. b = taker /\ orders[taker].side = "buy" /\ orders[taker].remaining > 0
      BY <1>2, <2>0, <2>3
    <3>2. a \in Range(queue["sell"])  BY <1>2, <2>0, <3>1
    <3>3. ~Crosses(orders, taker, a)  BY <1>1, <2>0, <2>2, <3>1, <3>2, NothingCrosses
    <3>4. a \in Orders  BY <2>0, <3>2, SideFacts
    <3> QED  BY <1>1, <3>1, <3>3, <3>4, HeapFacts, OrderFields DEF Crosses
  <2>4. CASE a \notin Range(queue["sell"])
    <3>1. a = taker /\ orders[taker].side = "sell" /\ orders[taker].remaining > 0
      BY <1>2, <2>0, <2>4
    <3>2. b \in Range(queue["buy"])  BY <1>2, <2>0, <3>1
    <3>3. ~Crosses(orders, taker, b)  BY <1>1, <2>0, <2>2, <3>1, <3>2, NothingCrosses
    <3>4. b \in Orders  BY <2>0, <3>2, SideFacts
    <3> QED  BY <1>1, <3>1, <3>3, <3>4, HeapFacts, OrderFields DEF Crosses
  <2> QED  BY <2>1, <2>3, <2>4
<1>6. TradesWithinLimits'
  BY <1>1 DEF BookInvariant, TradesWithinLimits
<1>7. ArrivalsDistinct' /\ LifeOfOrders'
  BY <1>1 DEF BookInvariant, ArrivalsDistinct, LifeOfOrders, Known
<1> QED  BY <1>1, <1>3, <1>4, <1>5, <1>6, <1>7 DEF BookInvariant

(* Starting to serve changes nothing the invariant speaks of. *)
LEMMA StartServingPreserves ==
  ASSUME BookInvariant, StartServing \/ UNCHANGED vars
  PROVE  BookInvariant'
<1>1. /\ orders' = orders /\ queue' = queue /\ seq' = seq /\ taker' = taker
      /\ trades' = trades /\ restored' = restored /\ opened' = opened
      /\ serving' = TRUE \/ serving' = serving
  BY DEF StartServing, vars, history
<1>2. TypeOK'
  BY <1>1 DEF BookInvariant, TypeOK
<1>3. PriceTimeSorted' /\ NoNewCross' /\ TradesWithinLimits'
  BY <1>1 DEF BookInvariant, PriceTimeSorted, NoNewCross, TradesWithinLimits
<1>4. BookHoldsOpenOrders' /\ ArrivalsDistinct'
  BY <1>1 DEF BookInvariant, BookHoldsOpenOrders, Queued, Waiting, ArrivalsDistinct, Known
<1>5. LifeOfOrders'
  BY <1>1 DEF BookInvariant, LifeOfOrders, Known
<1> QED  BY <1>2, <1>3, <1>4, <1>5 DEF BookInvariant
-----------------------------------------------------------------------------
(* The book's safety, for any number of orders, restored or submitted:     *)
(* both sides stay sorted by price and arrival, they hold exactly the      *)
(* waiting orders, matching leaves no crossed pair behind, and every fill  *)
(* respects both limits and is empty only if its maker was restored with   *)
(* nothing left (OrderBook.Submit, Restore and sortBooks).                 *)
THEOREM BookIsSafe == Spec => []BookInvariant
<1>1. Init => BookInvariant
  BY InitInvariant
<1>2. BookInvariant /\ [Next]_vars => BookInvariant'
  <2> SUFFICES ASSUME BookInvariant, [Next]_vars PROVE BookInvariant'
    OBVIOUS
  <2>1. ASSUME NEW o \in Orders, NEW row \in Rows, Restore(o, row) PROVE BookInvariant'
    BY <2>1, RestorePreserves
  <2>2. ASSUME NEW o \in Orders, NEW side \in Sides, NEW price \in Prices,
               NEW n \in Quantities, Submit(o, side, price, n)
        PROVE  BookInvariant'
    BY <2>2, SubmitPreserves
  <2>3. CASE Match  BY <2>3, MatchPreserves
  <2>4. CASE Finish  BY <2>4, FinishPreserves
  <2>5. CASE StartServing \/ UNCHANGED vars  BY <2>5, StartServingPreserves
  <2> QED  BY <2>1, <2>2, <2>3, <2>4, <2>5 DEF Next
<1> QED  BY <1>1, <1>2, PTL DEF Spec

(* Price-time priority of both sides, as the runs check it. *)
COROLLARY QueuesStaySorted == Spec => []PriceTimeSorted
<1>1. BookInvariant => PriceTimeSorted
  BY DEF BookInvariant
<1> QED  BY <1>1, BookIsSafe, PTL

(* A cross in the book can only have come from the store. *)
COROLLARY MatchingUncrosses == Spec => []NoNewCross
<1>1. BookInvariant => NoNewCross
  BY DEF BookInvariant
<1> QED  BY <1>1, BookIsSafe, PTL

(* Nothing matching filled stays in the book and nothing open drops out of *)
(* it; an order restored with nothing left leaves with its first fill.     *)
COROLLARY OpenOrdersStay == Spec => []BookHoldsOpenOrders
<1>1. BookInvariant => BookHoldsOpenOrders
  BY DEF BookInvariant
<1> QED  BY <1>1, BookIsSafe, PTL

(* Settlement's refund is never negative: fills respect both limits.  Only *)
(* a maker restored with nothing left is filled with nothing.              *)
COROLLARY FillsRespectLimits == Spec => []TradesWithinLimits
<1>1. BookInvariant => TradesWithinLimits
  BY DEF BookInvariant
<1> QED  BY <1>1, BookIsSafe, PTL

(* Nobody is overtaken: only the taker and the head of the other side are  *)
(* filled, and the head has nobody ahead of it, so an order waits until    *)
(* everybody who rests ahead of it has left (book.go:104 and 141).         *)
THEOREM NobodyIsOvertaken == Spec => NoOvertaking
<1>1. ASSUME BookInvariant, [Next]_vars, NEW o \in Orders, NEW p \in Orders,
             Queued(o), Queued(p), orders[o].side = orders[p].side, Before(orders, p, o)
      PROVE  orders'[o].remaining = orders[o].remaining
  <2>1. /\ orders[o] \in Order /\ orders[p] \in Order
        /\ orders[o].side \in Sides
        /\ o \in Range(queue[orders[o].side]) /\ p \in Range(queue[orders[o].side])
    BY <1>1, HeapFacts, OrderFields DEF Queued
  <2>2. Known(o) /\ o # taker
    BY <2>1, <1>1, SideFacts
  <2>3. ASSUME NEW x \in Orders, NEW row \in Rows, Restore(x, row)
        PROVE  orders'[o] = orders[o]
    BY <1>1, <2>2, <2>3, HeapFacts DEF Restore
  <2>4. ASSUME NEW x \in Orders, NEW side \in Sides, NEW price \in Prices,
               NEW n \in Quantities, Submit(x, side, price, n)
        PROVE  orders'[o] = orders[o]
    BY <1>1, <2>2, <2>4, HeapFacts DEF Submit
  <2>5. CASE Match
    <3>1. /\ orders[Best].side \in Sides /\ Best = Head(queue[orders[Best].side])
          /\ orders'[o].remaining =
               IF o \in {taker, Best} THEN orders[o].remaining - FillQuantity(orders, taker, Best)
                                      ELSE orders[o].remaining
      <4>1. /\ orders[Best].side \in Sides
            /\ orders[Best].side = Opposite(orders[taker].side)
        BY <1>1, <2>5, MatchOrders
      <4>2. Best = Head(queue[orders[Best].side])
        BY <4>1 DEF Best
      <4> QED  BY <1>1, <2>5, <4>1, <4>2, MatchOrders
    <3>2. o # Best
      <4> SUFFICES ASSUME o = Best PROVE FALSE
        OBVIOUS
      <4>1. p # o
        BY <1>1, HeapFacts, BeforeOrder
      <4>2. Before(orders, o, p)
        BY <1>1, <2>1, <3>1, <4>1, HeadFirst
      <4> QED  BY <1>1, <2>1, <4>2, OrderFields DEF Before, BetterPrice
    <3> QED  BY <2>2, <3>1, <3>2
  <2>6. CASE Finish \/ StartServing \/ UNCHANGED vars
    BY <2>6 DEF Finish, StartServing, vars
  <2> QED  BY <1>1, <2>3, <2>4, <2>5, <2>6 DEF Next
<1>2. BookInvariant /\ [Next]_vars =>
        [\A o, p \in Orders :
           /\ Queued(o) /\ Queued(p) /\ orders[o].side = orders[p].side
           /\ Before(orders, p, o)
           => orders'[o].remaining = orders[o].remaining]_vars
  BY <1>1
<1> QED  BY <1>2, BookIsSafe, PTL DEF Spec, NoOvertaking
-----------------------------------------------------------------------------
(* What an order lost is what its fills took. *)

(* The lots of every fill. *)
Lots == [i \in DOMAIN trades |-> trades[i].quantity]

LEMMA LotsFacts ==
  ASSUME BookInvariant, NEW o \in Orders
  PROVE  /\ IsFiniteSet(FillsOf(o))
         /\ FillsOf(o) \subseteq DOMAIN trades
         /\ \A i \in FillsOf(o) : Lots[i] \in Int
         /\ ~Known(o) => FillsOf(o) = {}
<1>1. /\ DOMAIN trades = 1..Len(trades) /\ Len(trades) \in Nat
      /\ \A i \in DOMAIN trades : trades[i].quantity \in Nat
      /\ \A i \in DOMAIN trades : Known(trades[i].maker) /\ Known(trades[i].taker)
  BY TradeParties
<1>2. FillsOf(o) \subseteq DOMAIN trades
  BY DEF FillsOf
<1>3. IsFiniteSet(DOMAIN trades)
  BY <1>1, FS_Interval
<1>4. IsFiniteSet(FillsOf(o))
  BY <1>2, <1>3, FS_Subset
<1>5. \A i \in FillsOf(o) : Lots[i] \in Int
  BY <1>1, <1>2 DEF Lots
<1>6. ~Known(o) => FillsOf(o) = {}
  BY <1>1 DEF FillsOf
<1> QED  BY <1>2, <1>4, <1>5, <1>6

(* A fill counts for its maker and its taker, and for nobody else. *)
LEMMA MatchCounts ==
  ASSUME BookInvariant, FillsAccountForQuantity, Match
  PROVE  FillsAccountForQuantity'
<1> DEFINE n == FillQuantity(orders, taker, Best)
           new == Len(trades) + 1
           fill == FillOf(orders, taker, Best)
<1>1. /\ taker \in Orders /\ Best \in Orders /\ n \in Nat
      /\ \A o \in Orders :
           orders'[o].remaining =
             IF o \in {taker, Best} THEN orders[o].remaining - n ELSE orders[o].remaining
  BY MatchOrders
<1>2. opened' = opened /\ trades' = Append(trades, fill)
  BY DEF Match, history
<1>3. /\ fill \in [maker : Orders, taker : Orders, price : Nat, quantity : Nat]
      /\ fill.maker = Best /\ fill.taker = taker /\ fill.quantity = n
  BY <1>1, HeapFacts, OrderFields DEF FillOf
<1>4. /\ DOMAIN trades = 1..Len(trades) /\ Len(trades) \in Nat
      /\ DOMAIN trades' = DOMAIN trades \cup {new}
      /\ trades'[new] = fill
      /\ \A i \in DOMAIN trades : trades'[i] = trades[i]
  <2>1. trades \in Seq([maker : Orders, taker : Orders, price : Nat, quantity : Nat])
    BY DEF BookInvariant, TypeOK
  <2> HIDE DEF fill
  <2>2. /\ trades' \in Seq([maker : Orders, taker : Orders, price : Nat, quantity : Nat])
        /\ Len(trades') = new
        /\ \A i \in 1..new : trades'[i] = IF i = new THEN fill ELSE trades[i]
    BY <1>2, <1>3, <2>1, AppendProperties
  <2>3. DOMAIN trades' = 1..new /\ DOMAIN trades = 1..Len(trades) /\ Len(trades) \in Nat
    BY <2>1, <2>2, LenProperties
  <2> QED  BY <2>2, <2>3
<1> HIDE DEF n, fill, new
<1>5. ASSUME NEW o \in Orders
      PROVE  opened'[o] = orders'[o].remaining + SumFunctionOnSet(Lots', FillsOf(o)')
  <2> DEFINE old == SumFunctionOnSet(Lots, FillsOf(o))
  <2>1. /\ IsFiniteSet(FillsOf(o)) /\ \A i \in FillsOf(o) : Lots[i] \in Int
        /\ FillsOf(o) \subseteq DOMAIN trades
    BY LotsFacts
  <2>2. \A i \in FillsOf(o) : Lots'[i] = Lots[i]
    BY <1>4, <2>1 DEF Lots
  <2>3. SumFunctionOnSet(Lots', FillsOf(o)) = old /\ old \in Int
    BY <2>1, <2>2, SumEqual, SumAdds
  <2>4. opened'[o] = opened[o]
    BY <1>2
  <2>5. opened[o] = orders[o].remaining + old
    BY DEF FillsAccountForQuantity, Lots
  <2>6. orders[o].remaining \in Nat
    BY HeapFacts, OrderFields
  <2> HIDE DEF old
  <2>7. CASE o \in {taker, Best}
    <3>1. FillsOf(o)' = FillsOf(o) \cup {new} /\ new \notin FillsOf(o)
      BY <1>3, <1>4, <2>7 DEF FillsOf, new
    <3>2. new \in FillsOf(o)' /\ FillsOf(o)' \ {new} = FillsOf(o) /\ Lots'[new] = n
      BY <1>3, <1>4, <3>1 DEF Lots
    <3>3. /\ IsFiniteSet(FillsOf(o)')
          /\ \A i \in FillsOf(o)' : Lots'[i] \in Int
      BY <1>1, <2>1, <2>2, <3>1, <3>2, FS_AddElement
    <3>4. SumFunctionOnSet(Lots', FillsOf(o)') = n + old
      BY <2>3, <3>2, <3>3, SumAdds
    <3>5. orders'[o].remaining = orders[o].remaining - n
      BY <1>1, <2>7
    <3> QED  BY <1>1, <2>3, <2>4, <2>5, <2>6, <3>4, <3>5
  <2>8. CASE o \notin {taker, Best}
    <3>1. FillsOf(o)' = FillsOf(o)
      BY <1>3, <1>4, <2>8 DEF FillsOf
    <3>2. orders'[o].remaining = orders[o].remaining
      BY <1>1, <2>8
    <3> QED  BY <2>3, <2>4, <2>5, <3>1, <3>2
  <2> QED  BY <2>7, <2>8
<1> QED  BY <1>5 DEF FillsAccountForQuantity, Lots

(* A step that makes no trade counts nothing: an order it leaves alone     *)
(* stays accounted for, and one it numbers has no fills yet.               *)
LEMMA NoFillCounts ==
  ASSUME BookInvariant, FillsAccountForQuantity, UNCHANGED trades,
         \A o \in Orders :
           \/ orders'[o].remaining = orders[o].remaining /\ opened'[o] = opened[o]
           \/ /\ ~Known(o)
              /\ opened'[o] = orders'[o].remaining
              /\ orders'[o].remaining \in Nat
  PROVE  FillsAccountForQuantity'
<1>1. \A o \in Orders : FillsOf(o)' = FillsOf(o)
  BY DEF FillsOf
<1>2. ASSUME NEW o \in Orders
      PROVE  opened'[o] = orders'[o].remaining + SumFunctionOnSet(Lots', FillsOf(o)')
  <2>1. Lots' = Lots
    BY DEF Lots
  <2>2. CASE orders'[o].remaining = orders[o].remaining /\ opened'[o] = opened[o]
    BY <1>1, <2>1, <2>2 DEF FillsAccountForQuantity, Lots
  <2>3. CASE /\ ~Known(o)
             /\ opened'[o] = orders'[o].remaining
             /\ orders'[o].remaining \in Nat
    <3>1. FillsOf(o)' = {}
      BY <1>1, <2>3, LotsFacts
    <3>2. SumFunctionOnSet(Lots', FillsOf(o)') = 0
      BY <3>1, SumEmpty
    <3> QED  BY <2>3, <3>2
  <2> QED  BY <2>2, <2>3
<1> QED  BY <1>2 DEF FillsAccountForQuantity, Lots

(* For any number of fills, what is left of an order and the sum of its    *)
(* fills make up what was open when it entered the book: the matching loop *)
(* reports exactly what it counts down (book.go:109-119 and 146-156).      *)
THEOREM FillsAccount == Spec => []FillsAccountForQuantity
<1>1. Init => FillsAccountForQuantity
  <2> SUFFICES ASSUME Init PROVE FillsAccountForQuantity
    OBVIOUS
  <2>1. ASSUME NEW o \in Orders
        PROVE  orders[o].remaining = 0 /\ opened[o] = 0 /\ FillsOf(o) = {}
    BY DEF Init, NewOrderBook, FillsOf, Blank
  <2>2. \A o \in Orders : SumFunctionOnSet(Lots, FillsOf(o)) = 0
    BY <2>1, SumEmpty
  <2> QED  BY <2>1, <2>2 DEF FillsAccountForQuantity, Lots
<1>2. BookInvariant /\ FillsAccountForQuantity /\ [Next]_vars => FillsAccountForQuantity'
  <2> SUFFICES ASSUME BookInvariant, FillsAccountForQuantity, [Next]_vars
               PROVE  FillsAccountForQuantity'
    OBVIOUS
  <2>1. ASSUME NEW o \in Orders, NEW row \in Rows, Restore(o, row)
        PROVE  FillsAccountForQuantity'
    <3>1. row.remaining \in Nat
      BY RowFacts, OrderFields
    <3>2. /\ orders' = [orders EXCEPT ![o] = row]
          /\ opened' = [opened EXCEPT ![o] = row.remaining]
          /\ trades' = trades /\ ~Known(o)
      BY <2>1 DEF Restore
    <3>3. orders'[o] = row /\ opened'[o] = row.remaining
      BY <3>2 DEF BookInvariant, TypeOK
    <3>4. \A p \in Orders : p # o => orders'[p] = orders[p] /\ opened'[p] = opened[p]
      BY <3>2 DEF BookInvariant, TypeOK
    <3> QED  BY <3>1, <3>2, <3>3, <3>4, NoFillCounts
  <2>2. ASSUME NEW o \in Orders, NEW side \in Sides, NEW price \in Prices,
               NEW n \in Quantities, Submit(o, side, price, n)
        PROVE  FillsAccountForQuantity'
    <3>1. n \in Nat
      BY BookAssumption
    <3>2. /\ orders' = [orders EXCEPT ![o] =
                  [side |-> side, price |-> price, quantity |-> n,
                   remaining |-> n, sequence |-> seq + 1]]
          /\ opened' = [opened EXCEPT ![o] = n] /\ trades' = trades /\ ~Known(o)
      BY <2>2 DEF Submit
    <3>3. orders'[o].remaining = n /\ opened'[o] = n
      BY <3>2 DEF BookInvariant, TypeOK
    <3>4. \A p \in Orders : p # o => orders'[p] = orders[p] /\ opened'[p] = opened[p]
      BY <3>2 DEF BookInvariant, TypeOK
    <3> QED  BY <3>1, <3>2, <3>3, <3>4, NoFillCounts
  <2>3. CASE Match  BY <2>3, MatchCounts
  <2>4. CASE Finish \/ StartServing \/ UNCHANGED vars
    <3>1. UNCHANGED <<orders, trades, opened>>
      BY <2>4 DEF Finish, StartServing, vars, history
    <3> QED  BY <3>1, NoFillCounts
  <2> QED  BY <2>1, <2>2, <2>3, <2>4 DEF Next
<1> QED  BY <1>1, <1>2, BookIsSafe, PTL DEF Spec

-----------------------------------------------------------------------------
(* The resting orders of the abstract book. *)
Resting == Range(queue["buy"]) \cup Range(queue["sell"])

(* An order rests in the abstract book iff it is in the queue of its side. *)
LEMMA RestingFacts ==
  ASSUME BookInvariant
  PROVE  \A o : o \in Resting <=> /\ o \in Orders
                                  /\ o \in Range(queue[orders[o].side])
<1>1. \A s \in Sides : \A o \in Range(queue[s]) : o \in Orders /\ orders[o].side = s
  BY SideFacts
<1>2. \A o \in Orders : orders[o].side \in Sides
  BY HeapFacts, OrderFields
<1> QED  BY <1>1, <1>2 DEF Resting, Sides

(* The abstract book compares, fills and reports orders the same way.      *)
LEMMA SameOps ==
  /\ \A side : PTP!Opposite(side) = Opposite(side)
  /\ \A ord, o, p : PTP!Before(ord, o, p) <=> Before(ord, o, p)
  /\ \A ord, t, m : PTP!Crosses(ord, t, m) <=> Crosses(ord, t, m)
  /\ \A ord, t, m : PTP!Filled(ord, t, m) = Filled(ord, t, m)
  /\ \A ord, t, m : PTP!FillOf(ord, t, m) = FillOf(ord, t, m)
  BY DEF PTP!Opposite, Opposite, PTP!Before, Before, PTP!BetterPrice, BetterPrice,
         PTP!Crosses, Crosses, PTP!Filled, Filled, PTP!FillOf, FillOf,
         PTP!FillQuantity, FillQuantity, PTP!Lesser, Lesser

(* A fill at position 0 is a fill with the order nobody is ahead of. *)
LEMMA TradeStep ==
  ASSUME BookInvariant, Match
  PROVE  PTP!Trade(Best)
<1>1. /\ Best \in Orders /\ Best \in Range(queue[orders[Best].side])
      /\ orders[Best].side \in Sides
      /\ orders[Best].side = Opposite(orders[taker].side)
      /\ Crosses(orders, taker, Best) /\ Best = Head(queue[orders[Best].side])
  BY ZenonT(40), MatchOrders, OrderFields, HeapFacts DEF Best
<1>2. Best \in Resting
  BY <1>1, RestingFacts
<1>3. Best \in PTP!Counterparties
  BY <1>1, <1>2, SameOps DEF PTP!Counterparties, Resting
<1>4. PTP!First(Best)
  <2> SUFFICES ASSUME NEW m \in Resting \ {Best}, orders[m].side = orders[Best].side
               PROVE  Before(orders, Best, m)
    BY SameOps DEF PTP!First, Resting
  <2>1. m \in Range(queue[orders[Best].side])  BY RestingFacts
  <2> QED  BY <1>1, <2>1, HeadFirst
<1>5. Resting' = IF orders'[Best].remaining = 0 THEN Resting \ {Best} ELSE Resting
  <2>1. \A s \in Sides :
          Range(queue'[s]) = IF orders'[Best].remaining = 0 THEN Range(queue[s]) \ {Best}
                                                            ELSE Range(queue[s])
    BY MatchQueue
  <2> QED  BY <2>1 DEF Resting, Sides
<1>6. /\ taker # None /\ orders[taker].remaining > 0
      /\ orders' = Filled(orders, taker, Best)
      /\ trades' = Append(trades, FillOf(orders, taker, Best))
      /\ seq' = seq /\ taker' = taker /\ serving' = serving
  BY DEF Match, CanMatch
<1> QED  BY SMTT(40), <1>3, <1>4, <1>5, <1>6, SameOps DEF PTP!Trade, Resting

(* The end of Submit is the abstract end: nothing resting crosses. *)
LEMMA DoneStep ==
  ASSUME BookInvariant, Finish
  PROVE  PTP!Done
<1>1. /\ taker \in Orders /\ taker # None /\ ~CanMatch(orders, queue, taker)
      /\ orders' = orders /\ taker' = None /\ seq' = seq
      /\ trades' = trades /\ serving' = serving
  BY FinishQueue DEF Finish
<1>2. orders[taker].side \in Sides /\ orders[taker].remaining \in Nat
  BY <1>1, HeapFacts, OrderFields
<1>3. orders[taker].remaining = 0 \/ PTP!Counterparties = {}
  <2> SUFFICES ASSUME orders[taker].remaining > 0, NEW m \in PTP!Counterparties PROVE FALSE
    BY <1>2
  <2>1. /\ m \in Resting /\ orders[m].side = Opposite(orders[taker].side)
        /\ Crosses(orders, taker, m)
    BY SameOps DEF PTP!Counterparties, Resting
  <2>2. m \in Range(queue[Opposite(orders[taker].side)])  BY <2>1, RestingFacts
  <2> QED  BY <1>1, <2>1, <2>2, NothingCrosses
<1>4. \A s \in Sides : \A x : x \in Range(queue'[s])
        <=> \/ x \in Range(queue[s])
            \/ s = orders[taker].side /\ x = taker /\ orders[taker].remaining > 0
  BY FinishQueue
<1>5. \A x : x \in Resting' <=> x \in Resting \/ (x = taker /\ orders[taker].remaining > 0)
  BY <1>2, <1>4 DEF Resting, Sides
<1>6. Resting' = IF orders[taker].remaining > 0 THEN Resting \cup {taker} ELSE Resting
  BY <1>5
<1> QED  BY <1>1, <1>3, <1>6 DEF PTP!Done, Resting

(* Restore enters an order and rests it. *)
LEMMA RestoreStep ==
  ASSUME BookInvariant, NEW o \in Orders, NEW row \in Rows, Restore(o, row)
  PROVE  PTP!Restore(o)
<1>1. /\ ~serving /\ orders[o].sequence = 0 /\ row.sequence > seq /\ seq' = row.sequence
      /\ orders' = [orders EXCEPT ![o] = row] /\ orders'[o] = row
      /\ taker' = taker /\ trades' = trades /\ serving' = serving
  BY HeapFacts DEF Restore
<1>2. row.side \in Sides
  BY RowFacts, OrderFields
<1>3. \A s \in Sides : \A x : x \in Range(queue'[s])
        <=> x \in Range(queue[s]) \/ (s = row.side /\ x = o)
  BY RestorePreserves
<1>4. Resting' = Resting \cup {o}
  <2>1. \A x : x \in Resting' <=> x \in Resting \/ x = o
    BY <1>2, <1>3 DEF Resting, Sides
  <2> QED  BY <2>1
<1> QED  BY <1>1, <1>4 DEF PTP!Restore, PTP!Enter, Resting

(* Submit enters an order and makes it the taker. *)
LEMMA SubmitStep ==
  ASSUME BookInvariant, NEW o \in Orders, NEW side \in Sides, NEW price \in Prices,
         NEW n \in Quantities, Submit(o, side, price, n)
  PROVE  PTP!Submit(o)
<1> DEFINE row == [side |-> side, price |-> price, quantity |-> n,
                   remaining |-> n, sequence |-> seq + 1]
<1>1. /\ serving /\ taker = None /\ orders[o].sequence = 0 /\ seq' = seq + 1
      /\ orders' = [orders EXCEPT ![o] = row] /\ orders'[o] = row
      /\ taker' = o /\ queue' = queue /\ trades' = trades /\ serving' = serving
  BY HeapFacts DEF Submit
<1>2. row.sequence > seq /\ row.sequence = seq + 1 /\ row.remaining = row.quantity
  BY HeapFacts
<1> HIDE DEF row
<1>3. PTP!Enter(o)
  BY <1>1, <1>2 DEF PTP!Enter
<1> QED  BY <1>1, <1>2, <1>3 DEF PTP!Submit

(* The sorted slices implement price-time priority: every step of the book *)
(* is a step of the set-based book, which always trades with the best      *)
(* order and rests an order only when nothing crosses it.                  *)
THEOREM BookImplementsPriceTimePriority == Spec => ImplementsPriceTimePriority
<1>1. Init => PTP!Init
  <2>1. Init => Range(queue["buy"]) \cup Range(queue["sell"]) = {}
    BY DEF Init, NewOrderBook, Range, Sides
  <2> QED  BY <2>1 DEF Init, NewOrderBook, Blank, PTP!Init
<1>2. BookInvariant /\ [Next]_vars => [PTP!Next]_(PTP!vars)
  <2> SUFFICES ASSUME BookInvariant, [Next]_vars PROVE [PTP!Next]_(PTP!vars)
    OBVIOUS
  <2>1. ASSUME NEW o \in Orders, NEW row \in Rows, Restore(o, row) PROVE PTP!Next
    BY <2>1, RestoreStep DEF PTP!Next
  <2>2. ASSUME NEW o \in Orders, NEW side \in Sides, NEW price \in Prices,
               NEW n \in Quantities, Submit(o, side, price, n)
        PROVE  PTP!Next
    BY <2>2, SubmitStep DEF PTP!Next
  <2>3. CASE Match
    BY <2>3, TradeStep, MatchOrders DEF PTP!Next
  <2>4. CASE Finish
    BY <2>4, DoneStep DEF PTP!Next
  <2>5. CASE StartServing
    BY <2>5 DEF StartServing, PTP!StartServing, PTP!Next
  <2>6. CASE UNCHANGED vars
    BY <2>6 DEF vars, PTP!vars
  <2> QED  BY <2>1, <2>2, <2>3, <2>4, <2>5, <2>6 DEF Next
<1> QED  BY <1>1, <1>2, BookIsSafe, PTL DEF Spec, PTP!Spec, ImplementsPriceTimePriority
=============================================================================
