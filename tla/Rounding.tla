------------------------------ MODULE Rounding ------------------------------
(***************************************************************************)
(* The life of one order in floating point: reserved, filled by one resting*)
(* order after another, settled, released (wallet/service.go:41-154 and    *)
(* engine/book.go:109-111), while another order of the account keeps its   *)
(* reservation in the same Locked balance.  The other modules compute with *)
(* integers; here every product, sum and difference is rounded to          *)
(* Precision significant binary digits, to nearest and ties to even, as    *)
(* float64 does with 53.                                                   *)
(* A number is a multiple of the smallest step a computation can reach, so *)
(* that numbers below 2^Precision are exact.                               *)
(***************************************************************************)
EXTENDS Integers

CONSTANTS
  Precision,  \* significant digits (53 in float64)
  MaxNumber,  \* bound: the largest price and quantity
  Others      \* what the account's other order may have reserved

ASSUME RoundingAssumption == Precision \in Nat \ {0} /\ MaxNumber \in Nat /\ Others \subseteq Nat

(* n rounded to a multiple of unit. *)
Nearest(n, unit) ==
  LET below == (n \div unit) * unit  rest == n % unit IN
  IF 2 * rest < unit \/ (2 * rest = unit /\ (n \div unit) % 2 = 0) THEN below ELSE below + unit

(* The spacing of the numbers around n: the power of two that leaves       *)
(* Precision digits.                                                       *)
Unit(n) == IF n < 2^Precision THEN 1
           ELSE CHOOSE u \in {2^k : k \in 1..(2 * Precision)} :
                  2^(Precision - 1) * u <= n /\ n < 2^Precision * u

Fl(n) == Nearest(n, Unit(n))

(* The numbers there are. *)
Numbers == {n \in 1..MaxNumber : Fl(n) = n}

VARIABLES
  pc,        \* "reserve", "match", "settle", "done", "failed"
  price, quantity, remaining,
  other,     \* the ReservedAmount of the account's other order
  locked,    \* the account's Locked balance, for both
  reserved,  \* this order's ReservedAmount
  resting,   \* what the maker of the last fill had, and has left
  filled,    \* the quantity of that fill
  rounded    \* history: how many results went into locked and reserved

request == <<price, quantity, other>>
vars == <<pc, request, remaining, locked, reserved, resting, filled, rounded>>

Init ==
  /\ pc = "reserve"
  /\ price \in Numbers
  /\ quantity \in Numbers
  /\ other \in {n \in Others : Fl(n) = n}
  /\ locked = other
  /\ remaining = 0 /\ reserved = 0 /\ resting = 0 /\ filled = 0 /\ rounded = 0

(* Reserve, and the first lines of Submit. *)
Reserve ==
  /\ pc = "reserve"
  /\ locked' = Fl(locked + Fl(price * quantity))
  /\ reserved' = Fl(price * quantity)
  /\ remaining' = quantity
  /\ rounded' = 1
  /\ pc' = "match"
  /\ UNCHANGED <<request, resting, filled>>

Lesser(m, n) == IF m < n THEN m ELSE n

(* Mutant of FillQuantity: the maker's whole quantity. *)
WholeMaker(maker) == maker

FillQuantity(maker) == Lesser(remaining, maker)

(* One fill by a maker of any quantity. *)
Match ==
  /\ pc = "match"
  /\ remaining # 0
  /\ \E maker \in Numbers :
       /\ filled' = FillQuantity(maker)
       /\ resting' = Fl(maker - FillQuantity(maker))
  /\ remaining' = Fl(remaining - filled')
  /\ pc' = "settle"
  /\ UNCHANGED <<request, locked, reserved, rounded>>

(* Mutant of Cost: the order's quantity, not the fill's. *)
WholeCost == Fl(price * quantity)

Cost == Fl(price * filled)

(* Mutant of Adjusted: the reservation is not counted down. *)
Unadjusted == reserved

(* AdjustRemainingReservation. *)
Adjusted == IF reserved < Cost THEN 0 ELSE Fl(reserved - Cost)

(* Settle and AdjustRemainingReservation; or "locked underflow", after the *)
(* match.                                                                  *)
Settle ==
  /\ pc = "settle"
  /\ IF locked < Cost THEN pc' = "failed" /\ UNCHANGED <<locked, reserved, rounded>>
     ELSE /\ locked' = Fl(locked - Cost)
          /\ reserved' = Adjusted
          /\ rounded' = rounded + 3
          /\ pc' = "match"
  /\ UNCHANGED <<request, remaining, resting, filled>>

(* ReleaseRemaining, once Remaining is exactly 0. *)
Release ==
  /\ pc = "match"
  /\ remaining = 0
  /\ locked' = Fl(locked - Lesser(locked, reserved))
  /\ reserved' = 0
  /\ rounded' = rounded + 1
  /\ pc' = "done"
  /\ UNCHANGED <<request, remaining, resting, filled>>

Over == pc \in {"done", "failed"} /\ UNCHANGED vars

Next == Reserve \/ Match \/ Settle \/ Release \/ Over

Spec == Init /\ [][Next]_vars

-----------------------------------------------------------------------------
(* Every quantity stays a number of the format and is never negative, and  *)
(* a fill leaves exactly nothing of the taker or of the maker: the tests   *)
(* for Remaining = 0 (book.go:129, exchange.go:191 and 370) are sound      *)
(* although they compare floats.                                           *)
FillsExhaustExactly ==
  /\ remaining >= 0 /\ Fl(remaining) = remaining
  /\ resting >= 0
  /\ pc = "settle" => remaining = 0 \/ resting = 0

(* Where the amounts are exact so is everything, as in the integers of     *)
(* the other modules: the reservation is what the rest of the order costs, *)
(* the balance holds it beside the other order's, and no fill underflows.  *)
ExactWithinPrecision ==
  other + price * quantity < 2^Precision =>
    /\ pc # "failed"
    /\ pc = "match" => reserved = price * remaining /\ locked = other + reserved

(* Rounding moves the balance and the reservations apart: dust stays       *)
(* locked, or the account's other order is left short.  It never adds up   *)
(* to more than half a spacing of the largest balance for every result     *)
(* that was rounded into one of them, and never locks a negative balance.  *)
Largest == Fl(other + Fl(price * quantity))
DriftIsBounded ==
  /\ locked >= 0
  /\ LET drift == locked - (other + reserved)
         bound == rounded * Unit(Largest) IN
     pc # "reserve" => 2 * drift <= bound /\ -bound <= 2 * drift

-----------------------------------------------------------------------------
(* architecture.md:295, "pre-reserved funds before entering matching": the *)
(* fills of an order together never cost more than it reserved.            *)
ReservationCoversFills == pc = "settle" => locked >= Cost

(* The aim of ReleaseRemaining (wallet/service.go:120): nothing stays      *)
(* locked of an order that is done.                                        *)
NothingStaysLocked == pc = "done" => locked = other
=============================================================================
