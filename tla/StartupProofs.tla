--------------------------- MODULE StartupProofs ---------------------------
(* Theorems about Startup, for every number of attempts. *)
EXTENDS Startup, TLAPS

(* What main can still have before it: a service and those after it.       *)
Remainders == {<<"postgres", "redis", "redpanda">>, <<"redis", "redpanda">>, <<"redpanda">>, << >>}

(* The services of a suffix. *)
Left(list) ==
  IF list = << >> THEN {}
  ELSE IF list = <<"redpanda">> THEN {"redpanda"}
  ELSE IF list = <<"redis", "redpanda">> THEN {"redis", "redpanda"}
  ELSE {"postgres", "redis", "redpanda"}

StartupTypeOK ==
  /\ configured \in SUBSET {"postgres", "redis", "redpanda"}
  /\ pc \in {"try", "wait", "serving", "exited"}
  /\ todo \in Remainders
  /\ attempt \in 1..MaxAttempts
  /\ cancelled \in BOOLEAN
  /\ late \in Nat

(* Every configured service is connected or still to come; main serves at  *)
(* the end of the list only; the timer runs only when an attempt is left;  *)
(* and a failure that saw the signal was the last.                         *)
StartupInvariant ==
  /\ StartupTypeOK
  /\ connected = configured \ Left(todo)
  /\ pc = "serving" => todo = << >>
  /\ pc = "wait" => attempt < MaxAttempts
  /\ pc # "exited" => late = 0
  /\ late <= 1

(* Going on to the next service takes one service from what is left. *)
LEMMA TailOfSuffix ==
  ASSUME NEW list \in Remainders, list # << >>
  PROVE  /\ Tail(list) \in Remainders
         /\ Head(list) \in Left(list)
         /\ Left(Tail(list)) = Left(list) \ {Head(list)}
<1>1. CASE list = <<"postgres", "redis", "redpanda">>
  <2>1. Tail(list) = <<"redis", "redpanda">> /\ Head(list) = "postgres"  BY <1>1
  <2> QED  BY <1>1, <2>1 DEF Remainders, Left
<1>2. CASE list = <<"redis", "redpanda">>
  <2>1. Tail(list) = <<"redpanda">> /\ Head(list) = "redis"  BY <1>2
  <2> QED  BY <1>2, <2>1 DEF Remainders, Left
<1>3. CASE list = <<"redpanda">>
  <2>1. Tail(list) = << >> /\ Head(list) = "redpanda"  BY <1>3
  <2> QED  BY <1>3, <2>1 DEF Remainders, Left
<1> QED  BY <1>1, <1>2, <1>3 DEF Remainders

LEMMA StartupInit == Init => StartupInvariant
<1> SUFFICES ASSUME Init PROVE StartupInvariant  OBVIOUS
<1>1. todo = <<"postgres", "redis", "redpanda">> /\ connected = {}  BY DEF Init, Services
<1>2. Range(Services) = {"postgres", "redis", "redpanda"}
  <2>1. DOMAIN Services = {1, 2, 3}  BY DEF Services
  <2>2. Services[1] = "postgres" /\ Services[2] = "redis" /\ Services[3] = "redpanda"
    BY DEF Services
  <2>3. Range(Services) = {Services[i] : i \in {1, 2, 3}}  BY <2>1 DEF Range
  <2> QED  BY <2>2, <2>3
<1>3. configured \subseteq {"postgres", "redis", "redpanda"}  BY <1>2 DEF Init
<1>4. Left(todo) = {"postgres", "redis", "redpanda"}  BY <1>1 DEF Left
<1>5. 1 \in 1..MaxAttempts  BY StartupAssumption
<1>6. todo \in Remainders  BY <1>1 DEF Remainders
<1>7. connected = configured \ Left(todo)  BY <1>1, <1>3, <1>4
<1>8. pc = "try" /\ attempt = 1 /\ late = 0 /\ cancelled \in BOOLEAN  BY DEF Init
<1>9. StartupTypeOK  BY <1>3, <1>5, <1>6, <1>8 DEF StartupTypeOK
<1> QED  BY <1>7, <1>8, <1>9 DEF StartupInvariant

LEMMA StartupStep == StartupInvariant /\ [Next]_vars => StartupInvariant'
<1> SUFFICES ASSUME StartupInvariant, [Next]_vars PROVE StartupInvariant'  OBVIOUS
<1> USE StartupAssumption DEF StartupInvariant, StartupTypeOK
<1>1. CASE Skip
  BY <1>1, TailOfSuffix DEF Skip
<1>2. CASE Connect
  BY <1>2, TailOfSuffix DEF Connect, Trying
<1>3. CASE Refused
  BY <1>3 DEF Refused, Trying
<1>4. CASE Timer
  BY <1>4 DEF Timer
<1>5. CASE Abort
  BY <1>5 DEF Abort
<1>6. CASE Serve
  BY <1>6 DEF Serve
<1>7. CASE Fatal
  BY <1>7 DEF Fatal
<1>8. CASE Signal
  BY <1>8 DEF Signal
<1>9. CASE UNCHANGED vars
  BY <1>9 DEF vars
<1> QED
  BY <1>1, <1>2, <1>3, <1>4, <1>5, <1>6, <1>7, <1>8, <1>9 DEF Next, Run, Settled

LEMMA StartupIsSafe == Spec => []StartupInvariant
  BY StartupInit, StartupStep, PTL DEF Spec

(* main never reaches ListenAndServe with a no-op adapter where an address *)
(* was configured, whatever attempts failed and whenever a signal came.    *)
THEOREM ConfiguredServicesAreConnected == Spec => []NoSilentFallback
<1>1. StartupInvariant => NoSilentFallback
  BY DEF StartupInvariant, NoSilentFallback, Left
<1> QED  BY <1>1, StartupIsSafe, PTL

(* withRetry gives up after maxAttempts, and after a signal it makes at    *)
(* most one attempt more.                                                  *)
THEOREM RetriesStayBounded == Spec => []RetriesAreBounded
<1>1. StartupInvariant => RetriesAreBounded
  BY StartupAssumption DEF StartupInvariant, StartupTypeOK, RetriesAreBounded
<1> QED  BY <1>1, StartupIsSafe, PTL
=============================================================================
