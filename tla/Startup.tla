------------------------------ MODULE Startup ------------------------------
(***************************************************************************)
(* main (cmd/exchanged/main.go): the services that are configured are      *)
(* connected one after the other, each with withRetry; NewExchange runs,   *)
(* and the process listens; SIGINT and SIGTERM cancel the context that all *)
(* of this runs under.                                                     *)
(* Whether a service is up is the environment's choice at every attempt.   *)
(***************************************************************************)
EXTENDS Naturals, SequencesExt

CONSTANT MaxAttempts   \* maxAttempts (30)

ASSUME StartupAssumption == MaxAttempts \in Nat \ {0}

Services == <<"postgres", "redis", "redpanda">>

(* NewExchange passes the context to these two. *)
Cancellable == {"postgres", "redis"}

VARIABLES
  configured, \* the services the environment names (config.Load)
  connected,  \* those with a client; for the rest the no-op adapter is used
  pc,         \* "try", "wait" (the two seconds), "serving", "exited"
  todo,       \* the services main has not come to the end of
  attempt,
  cancelled,  \* a signal has come
  late        \* history: attempts that failed after the signal

vars == <<configured, connected, pc, todo, attempt, cancelled, late>>

Init ==
  /\ configured \in SUBSET Range(Services)
  /\ connected = {}
  /\ pc = "try"
  /\ todo = Services
  /\ attempt = 1
  /\ cancelled = FALSE
  /\ late = 0

Signal ==
  /\ ~cancelled
  /\ cancelled' = TRUE
  /\ UNCHANGED <<configured, connected, pc, todo, attempt, late>>

(* main has come to this service, and it is configured. *)
Trying == pc = "try" /\ todo # << >> /\ Head(todo) \in configured

(* No address: the no-op adapter stays. *)
Skip ==
  /\ pc = "try"
  /\ todo # << >>
  /\ Head(todo) \notin configured
  /\ todo' = Tail(todo)
  /\ UNCHANGED <<configured, connected, pc, attempt, cancelled, late>>

(* PingContext fails under a cancelled context; the clients of Redis and   *)
(* Redpanda are made without it.                                           *)
Connect ==
  /\ Trying
  /\ Head(todo) = "postgres" => ~cancelled
  /\ connected' = connected \cup {Head(todo)}
  /\ todo' = Tail(todo)
  /\ attempt' = 1
  /\ UNCHANGED <<configured, pc, cancelled, late>>

(* Mutants of Refused: the context is not looked at; the error is dropped  *)
(* and the no-op adapter stays.                                            *)
RefusedRegardless ==
  /\ Trying
  /\ late' = IF cancelled THEN late + 1 ELSE late
  /\ pc' = IF attempt = MaxAttempts THEN "exited" ELSE "wait"
  /\ UNCHANGED <<configured, connected, todo, attempt, cancelled>>

RefusedFallsBack ==
  /\ Trying
  /\ late' = IF cancelled THEN late + 1 ELSE late
  /\ IF attempt = MaxAttempts THEN todo' = Tail(todo) /\ attempt' = 1 /\ UNCHANGED pc
     ELSE pc' = (IF cancelled THEN "exited" ELSE "wait") /\ UNCHANGED <<todo, attempt>>
  /\ UNCHANGED <<configured, connected, cancelled>>

(* A failed attempt: the last one, or one under a context that is already  *)
(* cancelled (the timer is not ready yet), ends the process.               *)
Refused ==
  /\ Trying
  /\ late' = IF cancelled THEN late + 1 ELSE late
  /\ pc' = IF attempt = MaxAttempts \/ cancelled THEN "exited" ELSE "wait"
  /\ UNCHANGED <<configured, connected, todo, attempt, cancelled>>

(* Mutant of Timer: the loop does not count. *)
TimerUncounted ==
  /\ pc = "wait"
  /\ pc' = "try"
  /\ UNCHANGED <<configured, connected, todo, attempt, cancelled, late>>

(* The select, when its two cases race: either can win. *)
Timer ==
  /\ pc = "wait"
  /\ pc' = "try"
  /\ attempt' = attempt + 1
  /\ UNCHANGED <<configured, connected, todo, cancelled, late>>

Abort ==
  /\ pc = "wait"
  /\ cancelled
  /\ pc' = "exited"
  /\ UNCHANGED <<configured, connected, todo, attempt, cancelled, late>>

(* NewExchange, whose calls fail under a cancelled context and may fail    *)
(* otherwise; then ListenAndServe, which may find its port taken.          *)
Serve ==
  /\ pc = "try"
  /\ todo = << >>
  /\ cancelled => configured \cap Cancellable = {}
  /\ pc' = "serving"
  /\ UNCHANGED <<configured, connected, todo, attempt, cancelled, late>>

Fatal ==
  /\ pc = "try"
  /\ todo = << >>
  /\ pc' = "exited"
  /\ UNCHANGED <<configured, connected, todo, attempt, cancelled, late>>

Run == Skip \/ Connect \/ Refused \/ Timer \/ Abort \/ Serve \/ Fatal

(* Served or over: the signal no longer does anything. *)
Settled == pc \in {"serving", "exited"} /\ UNCHANGED vars

Next == Run \/ Signal \/ Settled

Spec == Init /\ [][Next]_vars

(* An attempt returns and a timer fires. *)
FairSpec == Spec /\ WF_vars(Run)

-----------------------------------------------------------------------------
(* The process never serves with a no-op adapter in the place of a service *)
(* it was configured with, whatever attempts failed on the way.            *)
NoSilentFallback == pc = "serving" => connected = configured

(* No service is tried more than MaxAttempts times, and the signal wins    *)
(* over the retries: at most one attempt, already released by the timer,   *)
(* fails after it (main.go:77 and 92).                                     *)
RetriesAreBounded == attempt <= MaxAttempts /\ late <= 1

(* A start comes to an end: it serves or gives up.                         *)
StartEnds == <>(pc \in {"serving", "exited"})
=============================================================================
