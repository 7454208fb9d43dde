--------------------------- MODULE ExchangeBooks ---------------------------
(***************************************************************************)
(* The books inside the exchange, seen as instances of the abstract book   *)
(* of PriceTimePriority, one for each symbol.                              *)
(***************************************************************************)
EXTENDS Exchange

(* Each symbol's book stays a price-time-priority book whatever the        *)
(* goroutines do to the orders outside its mutex.                          *)
Blank == [side |-> "buy", price |-> 0, quantity |-> 0, remaining |-> 0, sequence |-> 0]

SeenBy(s) == [o \in Orders |->
  IF orders[o] # None /\ orders[o].symbol = s /\ orders[o].sequence > 0
    THEN [side |-> orders[o].side, price |-> orders[o].price, quantity |-> orders[o].quantity,
          remaining |-> orders[o].remaining, sequence |-> orders[o].sequence]
    ELSE Blank]

PTP(s) == INSTANCE PriceTimePriority
            WITH orders <- SeenBy(s), resting <- Range(queue[s]["buy"]) \cup Range(queue[s]["sell"]),
                 seq <- seq[s], taker <- holder[s], trades <- tape[s], serving <- TRUE,
                 Prices <- {}, Quantities <- {}, MaxRestored <- 0

BooksArePriceTimePriority == [][\A s \in Symbols : [PTP(s)!Next]_(PTP(s)!vars)]_vars

=============================================================================
