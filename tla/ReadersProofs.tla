--------------------------- MODULE ReadersProofs ---------------------------
(***************************************************************************)
(* What is shown.  With a store wired, the trades in the market data, the  *)
(* cache and on the bus, and the orders and audit events on the bus, have  *)
(* been committed: the order of PlaceOrder's calls guarantees it,          *)
(* whichever requests interleave and whichever calls fail.                 *)
(* And what GET requests show, whatever writes, expires and fails beside   *)
(* them, are books a symbol really had between two submissions, and trade  *)
(* lists that are the beginning of its history.                            *)
(***************************************************************************)
EXTENDS Readers, ExchangeTypes


(* The part of PublishedIsStored that is not about account versions. *)
Stored ==
  /\ bus.trades \cup UNION {Range(market[s]) : s \in Symbols} \subseteq db.trades
  /\ \A s \in Symbols : cache.trades[s] # None => Range(cache.trades[s]) \subseteq db.trades
  /\ bus.audit \subseteq db.audit
  /\ db.audit \subseteq auditLog
  /\ \A o \in Orders : bus.orders[o] # None => db.orders[o] # None
  /\ \A t \in db.trades : db.orders[t.maker] # None /\ db.orders[t.taker] # None

(* Where the trades of a request are in the store, *)
Reporting == {"record", "publishTrade"} \cup Auditing

(* what its next calls rely on, *)
Backed(r) ==
  /\ job[r].pc \in Reporting => Range(job[r].fills) \subseteq db.trades
  /\ At(r, "saveAudit") => Event(r) \in auditLog
  /\ At(r, "publishAudit") => Event(r) \in db.audit
  /\ job[r].pc \in {"marshalOrder", "publishOrder"} => db.orders[job[r].row.id] # None
  /\ At(r, "cacheTrades") => Range(job[r].view) \subseteq db.trades

(* and which orders it has put into changedOrders, fill by fill: *)
Applying == {"loadStatus", "storeStatus", "collect", "settle", "loadReserved",
             "storeReserved", "checkReserved", "clampReserved", "releaseMaker",
             "releaseTaker", "clip", "subtract", "add", "clear"}

Gathered(r) ==
  /\ job[r].pc \in Applying =>
       /\ job[r].at > 0 => r \in job[r].pending
       /\ \A i \in DOMAIN job[r].fills : i < job[r].at => job[r].fills[i].maker \in job[r].pending
  /\ At(r, "collect") /\ job[r].role = "taker" =>
       \A i \in DOMAIN job[r].fills : i = job[r].at => job[r].fills[i].maker \in job[r].pending
  /\ At(r, "releaseMaker") => job[r].role = "maker"
  /\ At(r, "releaseTaker") => job[r].at > Len(job[r].fills)
  /\ job[r].pc \in Releasing => job[r].role = "maker" \/ job[r].at > Len(job[r].fills)

(* in the end, the maker and the taker of every fill, until all are stored. *)
Persisting == {"accounts", "orders", "saveTrades"} \cup Syncing \cup WithRow

Underway(r) ==
  job[r].pending \cup {o \in Orders : \/ db.orders[o] # None
                                      \/ At(r, "saveOrder") /\ o = job[r].row.id}

Covered(r) ==
  /\ job[r].pc \in Persisting => \A i \in DOMAIN job[r].fills :
       job[r].fills[i].maker \in Underway(r) /\ job[r].fills[i].taker \in Underway(r)
  /\ At(r, "saveTrades") => job[r].pending = {}

Ready(r) == Backed(r) /\ Gathered(r) /\ Covered(r)

ShownInvariant == TypeInvariant /\ Stored /\ \A r \in Requests : Ready(r)

-----------------------------------------------------------------------------
(* What a step does to everybody else *)

(* The store and the audit log only grow. *)
Grows ==
  /\ db.trades \subseteq db'.trades
  /\ db.audit \subseteq db'.audit
  /\ auditLog \subseteq auditLog'
  /\ \A o \in Orders : db.orders[o] # None => db'.orders[o] # None

(* A step that shows and stores nothing but accounts. *)
Silent ==
  /\ db'.orders = db.orders /\ db'.trades = db.trades /\ db'.audit = db.audit
  /\ cache'.trades = cache.trades
  /\ UNCHANGED <<market, auditLog, bus>>

LEMMA OthersStayReady ==
  ASSUME ShownInvariant, Grows, NEW r \in Requests,
         \A q \in Requests \ {r} : job'[q] = job[q]
  PROVE  \A q \in Requests \ {r} : Ready(q)'
<1> TAKE q \in Requests \ {r}
<1>1. /\ Ready(q) /\ job'[q] = job[q]
      /\ job[q].pc \in WithRow => job[q].row.id \in Orders
  BY DEF ShownInvariant, TypeInvariant, Local, Loaded, Row
<1>2. Backed(q)'
  BY <1>1 DEF Ready, Backed, Grows, At, Event, WithRow
<1>3. Gathered(q)'
  BY <1>1 DEF Ready, Gathered, At
<1>4. Underway(q) \subseteq Underway(q)'
  BY <1>1 DEF Underway, Grows, At
<1>5. Covered(q)'
  BY <1>1, <1>4 DEF Ready, Covered, At
<1> QED  BY <1>2, <1>3, <1>5 DEF Ready

(* Enough for a step that is not about the store. *)
LEMMA SilentStep ==
  ASSUME ShownInvariant, Silent, NEW r \in Requests,
         \A q \in Requests \ {r} : job'[q] = job[q], Ready(r)'
  PROVE  Stored' /\ \A q \in Requests : Ready(q)'
<1>1. Stored'
  BY DEF ShownInvariant, Stored, Silent
<1>2. Grows
  BY DEF Silent, Grows
<1> QED  BY <1>1, <1>2, OthersStayReady

(* Where nothing is relied upon. *)
LEMMA ElsewhereIsReady ==
  ASSUME NEW r \in Requests,
         job'[r].pc \in {"idle", "ok", "failed", "match", "snapshot", "cacheBook",
                         "copyTrades"} \cup Unsubmitted
  PROVE  Ready(r)'
BY DEF Ready, Backed, Gathered, Covered, Reporting, Auditing, Applying, Releasing, Persisting,
   Syncing,
   WithRow, Unsubmitted, At

LEMMA ReturnIsReady ==
  ASSUME TypeInvariant, NEW r \in Requests, NEW answer \in {"ok", "failed"}, Return(r, answer)
  PROVE  Ready(r)' /\ \A q \in Requests \ {r} : job'[q] = job[q]
<1>1. job \in [Requests -> Job]
  BY DEF TypeInvariant, Typed
<1>2. job'[r] = [Idle EXCEPT !.pc = answer, !.input = job[r].input]
  BY <1>1 DEF Return
<1>3. job'[r].pc = answer
  BY <1>2 DEF Idle
<1>4. \A q \in Requests \ {r} : job'[q] = job[q]
  BY <1>1 DEF Return
<1> QED  BY <1>3, <1>4, ElsewhereIsReady

LEMMA GotoIsReady ==
  ASSUME TypeInvariant, NEW r \in Requests,
         NEW label \in {"match", "snapshot", "copyTrades", "clone"}, Goto(r, label)
  PROVE  Ready(r)' /\ \A q \in Requests \ {r} : job'[q] = job[q]
<1>1. label \in Labels
  BY DEF Labels, Unsubmitted, Submitted
<1> QED  BY <1>1, GotoFacts, ElsewhereIsReady DEF Unsubmitted

(* A copy to persist for a request without fills. *)
LEMMA UnmatchedIsReady ==
  ASSUME NEW r \in Requests, job'[r].pc = "persist", job'[r].fills = << >>
  PROVE  Ready(r)'
BY DEF Ready, Backed, Gathered, Covered, Reporting, Auditing, Applying, Releasing, Persisting,
   Syncing,
   WithRow, At

-----------------------------------------------------------------------------
(* Before matching *)

LEMMA AcceptIsReady ==
  ASSUME ShownInvariant, NEW r \in Requests, Accept(r)
  PROVE  Silent /\ Ready(r)' /\ \A q \in Requests \ {r} : job'[q] = job[q]
<1>1. PICK in \in Inputs : Deposit(r, in) \/ PlaceOrder(r, in)
  BY DEF Accept
<1>2. /\ job \in [Requests -> Job] /\ job[r] \in Job /\ job[r].fills = << >>
  <2>1. job[r] = Idle
    BY DEF Accept, ShownInvariant, TypeInvariant, Local, Phased
  <2>2. job[r].fills = << >>
    BY <2>1 DEF Idle
  <2> QED  BY <2>2 DEF ShownInvariant, TypeInvariant, Typed
<1>3. CASE Deposit(r, in)
  <2>1. Silent
    BY <1>3 DEF Deposit, Silent, memory, services
  <2>2. /\ job'[r].fills = << >> /\ job'[r].pc \in {"persist", "failed"}
        /\ \A q \in Requests \ {r} : job'[q] = job[q]
    BY <1>2, <1>3 DEF Deposit, Job
  <2> QED  BY <2>1, <2>2, UnmatchedIsReady, ElsewhereIsReady
<1>4. CASE PlaceOrder(r, in)
  <2>1. Silent
    BY <1>4 DEF PlaceOrder, Silent, services
  <2>2. /\ job'[r].pc \in {"reserve", "failed"}
        /\ \A q \in Requests \ {r} : job'[q] = job[q]
    BY <1>2, <1>4 DEF PlaceOrder, Job
  <2> QED  BY <2>1, <2>2, ElsewhereIsReady DEF Unsubmitted
<1> QED  BY <1>1, <1>3, <1>4

(* The steps that leave the request where nothing is relied upon. *)
Passing(r) ==
  \/ Reserve(r) \/ Submit(r) \/ Match(r) \/ TakeSnapshot(r) \/ CacheOrderBook(r) \/ CallFails(r)

LEMMA PassingIsReady ==
  ASSUME ShownInvariant, NEW r \in Requests, Passing(r)
  PROVE  Silent /\ Ready(r)' /\ \A q \in Requests \ {r} : job'[q] = job[q]
<1>1. job \in [Requests -> Job] /\ job[r] \in Job /\ cache \in Redis /\ TypeInvariant
  BY DEF ShownInvariant, TypeInvariant, Typed
<1>2. CASE Reserve(r)
  <2>1. Silent
    BY <1>2 DEF Reserve, Silent, services
  <2> QED  BY <1>1, <1>2, <2>1, GotoIsReady, ReturnIsReady DEF Reserve, Fail
<1>3. CASE Submit(r)
  <2>1. Silent
    BY <1>3 DEF Submit, Silent, services
  <2> QED  BY <1>1, <1>3, <2>1, GotoIsReady DEF Submit
<1>4. CASE Match(r)
  <2>1. Silent
    BY SMTT(40), <1>4 DEF Match, Silent, services
  <2>2. PICK fills : job' = [job EXCEPT ![r].fills = fills]
    BY <1>4 DEF Match
  <2>3. job'[r].pc = "match" /\ \A q \in Requests \ {r} : job'[q] = job[q]
    BY <1>1, <1>4, <2>2 DEF Match, At, Job
  <2> QED  BY <2>1, <2>3, ElsewhereIsReady
<1>5. CASE TakeSnapshot(r)
  <2>1. Silent
    BY <1>5 DEF TakeSnapshot, Silent, memory, services
  <2>2. PICK view : job' = [job EXCEPT ![r].pc = "cacheBook", ![r].view = view]
    BY <1>5 DEF TakeSnapshot
  <2>3. job'[r].pc = "cacheBook" /\ \A q \in Requests \ {r} : job'[q] = job[q]
    BY <1>1, <2>2 DEF Job
  <2> QED  BY <2>1, <2>3, ElsewhereIsReady
<1>6. CASE CacheOrderBook(r)
  <2>1. cache'.trades = cache.trades
    BY <1>1, <1>6 DEF CacheOrderBook, Keep, Redis
  <2>2. Silent
    BY <1>6, <2>1 DEF CacheOrderBook, Silent, memory
  <2> QED  BY <1>1, <1>6, <2>2, GotoIsReady, ReturnIsReady DEF CacheOrderBook, Answered, Fail
<1>7. CASE CallFails(r)
  <2>1. Silent
    BY <1>7 DEF CallFails, Silent, memory, services
  <2> QED  BY <1>1, <1>7, <2>1, ReturnIsReady DEF CallFails, Fail
<1> QED  BY <1>2, <1>3, <1>4, <1>5, <1>6, <1>7 DEF Passing

-----------------------------------------------------------------------------
(* syncAccount, before matching and after it *)

LEMMA SyncingIsReady ==
  ASSUME NEW r \in Requests, Ready(r), job[r].pc \in Persisting, ~At(r, "saveOrder"),
         job'[r].pc \in Syncing \cup {"accounts", "orders"},
         job'[r].fills = job[r].fills, job'[r].pending = job[r].pending,
         db'.orders = db.orders
  PROVE  Ready(r)'
<1>1. Backed(r)' /\ Gathered(r)'
  BY DEF Backed, Gathered, Reporting, Auditing, Applying, Releasing, Syncing, At
<1>2. Underway(r) \subseteq Underway(r)'
  BY DEF Underway
<1>3. Covered(r)'
  BY <1>2 DEF Ready, Covered, Syncing, At
<1> QED  BY <1>1, <1>3 DEF Ready

Carries(r) ==
  GetReserved(r) \/ PersistAccount(r) \/ ReplaceAccount(r) \/ CacheAccount(r) \/ NextAccount(r)

LEMMA CarriesIsReady ==
  ASSUME ShownInvariant, NEW r \in Requests, Carries(r)
  PROVE  Silent /\ Ready(r)' /\ \A q \in Requests \ {r} : job'[q] = job[q]
<1>1. /\ job \in [Requests -> Job] /\ job[r] \in Job /\ cache \in Redis /\ db \in Database
      /\ TypeInvariant /\ Local(r) /\ Ready(r)
  BY DEF ShownInvariant, TypeInvariant, Typed
<1>2. CASE GetReserved(r)
  <2>1. Silent
    BY <1>2 DEF GetReserved, Silent, memory, services
  <2>2. job[r].fills = << >>
    <3>1. At(r, "clone") /\ job[r].input.kind # "deposit"
      BY <1>1, <1>2, KnownOf DEF GetReserved, At, Unsubmitted
    <3> QED  BY <1>1, <3>1 DEF Local, Phased, Fresh, Busy, At, Unsubmitted
  <2>3. /\ job'[r].pc = "persist" /\ job'[r].fills = job[r].fills
        /\ \A q \in Requests \ {r} : job'[q] = job[q]
    BY <1>1, <1>2 DEF GetReserved, Job
  <2> QED  BY <2>1, <2>2, <2>3, UnmatchedIsReady
<1>3. CASE PersistAccount(r)
  <2>1. db'.orders = db.orders /\ db'.trades = db.trades /\ db'.audit = db.audit
    BY <1>1, <1>3 DEF PersistAccount, Save, Database
  <2>2. Silent
    BY <1>3, <2>1 DEF PersistAccount, Silent, memory
  <2>3. CASE Fail(r)
    BY <1>1, <2>2, <2>3, ReturnIsReady DEF Fail
  <2>4. CASE ~Fail(r)
    <3>1. /\ job'[r].pc = "replace" /\ job'[r].fills = job[r].fills
          /\ job'[r].pending = job[r].pending
          /\ \A q \in Requests \ {r} : job'[q] = job[q]
      BY <1>1, <1>3, <2>4 DEF PersistAccount, Goto, Job
    <3> QED
      BY <1>1, <1>3, <2>1, <2>2, <3>1, SyncingIsReady DEF PersistAccount, At, Persisting,
         Syncing
  <2> QED  BY <2>3, <2>4
<1>4. CASE ReplaceAccount(r)
  <2>1. Silent
    BY <1>4 DEF ReplaceAccount, Silent, services
  <2>2. /\ job'[r].pc = "cacheAccount" /\ job'[r].fills = job[r].fills
        /\ job'[r].pending = job[r].pending
        /\ \A q \in Requests \ {r} : job'[q] = job[q]
    BY <1>1, <1>4 DEF ReplaceAccount, Goto, Job
  <2> QED
    BY <1>1, <1>4, <2>1, <2>2, SyncingIsReady DEF ReplaceAccount, Silent, At, Persisting,
       Syncing
<1>5. CASE CacheAccount(r)
  <2>1. cache'.trades = cache.trades
    BY <1>1, <1>5 DEF CacheAccount, Keep, Redis
  <2>2. Silent
    BY <1>5, <2>1 DEF CacheAccount, Silent, memory
  <2> DEFINE label == IF job[r].input.kind = "deposit" THEN "audit"
                      ELSE IF orders[r].sequence = 0 THEN "submit" ELSE "accounts"
  <2>3. /\ job'[r].pc = label /\ job'[r].fills = job[r].fills /\ job'[r].pending = job[r].pending
        /\ \A q \in Requests \ {r} : job'[q] = job[q]
    BY <1>1, <1>5 DEF CacheAccount, Goto, Job
  <2>4. CASE label = "audit"
    <3>1. job[r].fills = << >>
      BY <1>1, <1>5, <2>4 DEF CacheAccount, Local, Phased, Fresh, Busy, At
    <3>2. Range(<< >>) = {}
      BY DEF Range
    <3> HIDE DEF label
    <3>3. Backed(r)'
      BY <2>3, <2>4, <3>1, <3>2 DEF Backed, At
    <3>4. Gathered(r)' /\ Covered(r)'
      BY <2>3, <2>4 DEF Gathered, Covered, Applying, Releasing, Persisting, Syncing, WithRow, At
    <3> QED  BY <2>2, <2>3, <3>3, <3>4 DEF Ready
  <2>5. CASE label = "submit"
    BY <2>2, <2>3, <2>5, ElsewhereIsReady DEF Unsubmitted
  <2>6. CASE label = "accounts"
    BY <1>1, <1>5, <2>2, <2>3, <2>6, SyncingIsReady DEF CacheAccount, Silent, At, Persisting,
       Syncing
  <2> QED  BY <2>4, <2>5, <2>6
<1>6. CASE NextAccount(r)
  <2>1. Silent
    BY <1>6 DEF NextAccount, Silent, memory, services
  <2>2. /\ job'[r].pc \in {"orders", "persist"} /\ job'[r].fills = job[r].fills
        /\ job'[r].pending = job[r].pending
        /\ \A q \in Requests \ {r} : job'[q] = job[q]
    <3>1. CASE Goto(r, "orders")
      BY <1>1, <3>1 DEF Goto, Job
    <3>2. CASE ~Goto(r, "orders")
      <4>1. PICK a \in Accounts :
              job' = [job EXCEPT ![r].pc = "persist", ![r].clone = job[r].accounts[a],
                                 ![r].accounts[a] = None]
        BY <1>6, <3>2 DEF NextAccount
      <4> QED  BY <1>1, <4>1 DEF Job
    <3> QED  BY <3>1, <3>2
  <2> QED
    BY <1>1, <1>6, <2>1, <2>2, SyncingIsReady DEF NextAccount, Silent, At, Persisting, Syncing
<1> QED  BY <1>2, <1>3, <1>4, <1>5, <1>6 DEF Carries

-----------------------------------------------------------------------------
(* Settlement: who is gathered *)

LEMMA ApplyingIsReady ==
  ASSUME NEW r \in Requests, Ready(r), job[r].pc \in Applying,
         job'[r].pc \in Applying, job'[r].pc # "releaseTaker",
         job'[r].fills = job[r].fills, job'[r].at = job[r].at,
         job'[r].pending = job[r].pending,
         job'[r].pc = "releaseMaker" => job'[r].role = "maker",
         job'[r].pc \in Releasing => job'[r].role = "maker" \/ job[r].at > Len(job[r].fills),
         job'[r].pc = "collect" /\ job'[r].role = "taker" => job[r].at \notin DOMAIN job[r].fills
  PROVE  Ready(r)'
<1>1. Backed(r)' /\ Covered(r)'
  BY DEF Backed, Covered, Reporting, Auditing, Applying, Releasing, Persisting, Syncing,
     WithRow, At
<1>2. Gathered(r)'
  BY DEF Ready, Gathered, Applying, Releasing, At
<1> QED  BY <1>1, <1>2 DEF Ready

Settles(r) ==
  \/ LoadStatus(r) \/ StoreStatus(r) \/ Settle(r)
  \/ LoadReserved(r) \/ StoreReserved(r) \/ CheckReserved(r) \/ ClampReserved(r)
  \/ ReleaseMaker(r) \/ ClipReserved(r) \/ SubtractReserved(r) \/ AddReserved(r)
  \/ ClearReserved(r)

LEMMA SettlesIsReady ==
  ASSUME ShownInvariant, NEW r \in Requests, Settles(r)
  PROVE  Silent /\ Ready(r)' /\ \A q \in Requests \ {r} : job'[q] = job[q]
<1>1. /\ job \in [Requests -> Job] /\ job[r] \in Job /\ TypeInvariant /\ Local(r) /\ Ready(r)
  BY DEF ShownInvariant, TypeInvariant, Typed
<1>2. 0 \notin DOMAIN job[r].fills /\ job[r].role \in {"maker", "taker"}
  BY <1>1, LenProperties DEF Job
<1>3. Silent
  BY ZenonT(40) DEF Settles, LoadStatus, StoreStatus, Settle, LoadReserved, StoreReserved,
     CheckReserved, ClampReserved, ReleaseMaker, StartRelease, ClipReserved,
     SubtractReserved, AddReserved, ClearReserved, Silent, memory, services
<1>4. CASE LoadStatus(r)
  <2>1. /\ job'[r].pc = "storeStatus" /\ job'[r].fills = job[r].fills
        /\ job'[r].at = job[r].at /\ job'[r].pending = job[r].pending
        /\ \A q \in Requests \ {r} : job'[q] = job[q]
    BY <1>1, <1>4 DEF LoadStatus, Job
  <2>9. job[r].pc \in Applying /\ job'[r].pc \in Applying /\ job'[r].pc \notin Releasing
    BY <1>1, <1>3, <1>4, <2>1 DEF LoadStatus, Applying, Releasing, At
  <2>10. job'[r].pc \notin {"releaseMaker", "releaseTaker", "collect"}
    BY <1>1, <1>3, <1>4, <2>1
  <2> QED  BY <1>1, <1>3, <1>4, <2>1, <2>9, <2>10, ApplyingIsReady
<1>5. CASE StoreStatus(r)
  <2>1. /\ job'[r].fills = job[r].fills
        /\ job'[r].at = job[r].at /\ job'[r].pending = job[r].pending
        /\ \A q \in Requests \ {r} : job'[q] = job[q]
    BY <1>1, <1>5 DEF StoreStatus, Job
  <2>2. /\ job'[r].pc = IF job[r].at = 0 THEN "collect"
                        ELSE IF job[r].role = "maker" THEN "loadStatus" ELSE "releaseMaker"
        /\ job'[r].role = IF job[r].at = 0 \/ job[r].role = "maker" THEN "taker" ELSE "maker"
    BY <1>1, <1>5 DEF StoreStatus, Job
  <2>3. /\ job[r].pc \in Applying /\ job'[r].pc \in Applying
        /\ job'[r].pc \notin Releasing /\ job'[r].pc # "releaseTaker"
    BY <1>5, <2>2 DEF StoreStatus, Applying, Releasing, At
  <2>4. /\ job'[r].pc = "releaseMaker" => job'[r].role = "maker"
        /\ job'[r].pc = "collect" => job[r].at \notin DOMAIN job[r].fills
    BY <1>2, <2>2
  <2> QED  BY <1>1, <1>3, <2>1, <2>3, <2>4, ApplyingIsReady
<1>6. CASE Settle(r)
  <2>1. CASE Fail(r)
    BY <1>1, <1>3, <2>1, ReturnIsReady DEF Fail
  <2>2. CASE ~Fail(r)
    <3>1. /\ job'[r].pc \in {"settle", "loadReserved"} /\ job'[r].fills = job[r].fills
          /\ job'[r].at = job[r].at /\ job'[r].pending = job[r].pending
          /\ \A q \in Requests \ {r} : job'[q] = job[q]
      BY <1>1, <1>6, <2>2 DEF Settle, At, Job
    <3>9. job[r].pc \in Applying /\ job'[r].pc \in Applying /\ job'[r].pc \notin Releasing
      BY <1>1, <1>3, <1>6, <3>1 DEF Settle, Applying, Releasing, At
    <3>10. job'[r].pc \notin {"releaseMaker", "releaseTaker", "collect"}
      BY <1>1, <1>3, <1>6, <3>1
    <3> QED  BY <1>1, <1>3, <1>6, <3>1, <3>9, <3>10, ApplyingIsReady
  <2> QED  BY <2>1, <2>2
<1>7. CASE LoadReserved(r)
  <2>1. /\ job'[r].pc = "storeReserved" /\ job'[r].fills = job[r].fills
        /\ job'[r].at = job[r].at /\ job'[r].pending = job[r].pending
        /\ \A q \in Requests \ {r} : job'[q] = job[q]
    BY <1>1, <1>7 DEF LoadReserved, Job
  <2>9. job[r].pc \in Applying /\ job'[r].pc \in Applying /\ job'[r].pc \notin Releasing
    BY <1>1, <1>3, <1>7, <2>1 DEF LoadReserved, Applying, Releasing, At
  <2>10. job'[r].pc \notin {"releaseMaker", "releaseTaker", "collect"}
    BY <1>1, <1>3, <1>7, <2>1
  <2> QED  BY <1>1, <1>3, <1>7, <2>1, <2>9, <2>10, ApplyingIsReady
<1>8. CASE StoreReserved(r)
  <2>1. /\ job'[r].pc = "checkReserved" /\ job'[r].fills = job[r].fills
        /\ job'[r].at = job[r].at /\ job'[r].pending = job[r].pending
        /\ \A q \in Requests \ {r} : job'[q] = job[q]
    BY <1>1, <1>8 DEF StoreReserved, Job
  <2>9. job[r].pc \in Applying /\ job'[r].pc \in Applying /\ job'[r].pc \notin Releasing
    BY <1>1, <1>3, <1>8, <2>1 DEF StoreReserved, Applying, Releasing, At
  <2>10. job'[r].pc \notin {"releaseMaker", "releaseTaker", "collect"}
    BY <1>1, <1>3, <1>8, <2>1
  <2> QED  BY <1>1, <1>3, <1>8, <2>1, <2>9, <2>10, ApplyingIsReady
<1>9. CASE CheckReserved(r) \/ ClampReserved(r)
  <2>1. /\ job'[r].pc \in {"clampReserved", "loadReserved", "loadStatus"}
        /\ job'[r].fills = job[r].fills
        /\ job'[r].at = job[r].at /\ job'[r].pending = job[r].pending
        /\ \A q \in Requests \ {r} : job'[q] = job[q]
    <3>1. CASE Goto(r, "clampReserved")
      BY <1>1, <3>1 DEF Goto, Job
    <3>2. CASE AfterAdjust(r)
      BY <1>1, <3>2 DEF AfterAdjust, Job
    <3> QED  BY <1>9, <3>1, <3>2 DEF CheckReserved, ClampReserved
  <2>2. job[r].pc \in Applying /\ job'[r].pc \in Applying /\ job'[r].pc \notin Releasing
    BY <1>9, <2>1 DEF CheckReserved, ClampReserved, Applying, Releasing, At
  <2>3. job'[r].pc \notin {"releaseMaker", "releaseTaker", "collect"}
    BY <2>1
  <2> QED  BY <1>1, <1>3, <2>1, <2>2, <2>3, ApplyingIsReady
<1>10. CASE ReleaseMaker(r)
  <2>1. PICK label \in {"collect", "clip", "subtract"} : Goto(r, label)
    BY <1>10 DEF ReleaseMaker, StartRelease
  <2>2. /\ job'[r].pc = label /\ job'[r].fills = job[r].fills
        /\ job'[r].at = job[r].at /\ job'[r].pending = job[r].pending
        /\ job'[r].role = job[r].role
        /\ \A q \in Requests \ {r} : job'[q] = job[q]
    BY <1>1, <2>1 DEF Goto, Job
  <2>3. job[r].role = "maker" /\ job[r].pc \in Applying
    BY <1>1, <1>10 DEF ReleaseMaker, Ready, Gathered, Applying, Releasing, At
  <2>4. job'[r].pc \in Applying /\ job'[r].pc \notin {"releaseMaker", "releaseTaker"}
    BY <2>2 DEF Applying
  <2> QED  BY <1>1, <1>3, <2>2, <2>3, <2>4, ApplyingIsReady
<1>11. CASE ClipReserved(r) \/ SubtractReserved(r) \/ AddReserved(r) \/ ClearReserved(r)
  <2>1. job[r].pc \in Releasing
    BY <1>11 DEF ClipReserved, SubtractReserved, AddReserved, ClearReserved, Releasing, At
  <2>2. PICK label, v : /\ label \in Releasing \cup {"collect"}
                        /\ job' = [job EXCEPT ![r].pc = label, ![r].seen = v]
    <3>1. job' = [job EXCEPT ![r].pc = job'[r].pc, ![r].seen = job'[r].seen]
          /\ job'[r].pc \in Releasing \cup {"collect"}
      BY <1>1, <1>11 DEF ClipReserved, SubtractReserved, AddReserved, ClearReserved, Goto,
         Releasing, Job
    <3> QED  BY <3>1
  <2>3. /\ job'[r].pc = label /\ job'[r].fills = job[r].fills
        /\ job'[r].at = job[r].at /\ job'[r].pending = job[r].pending
        /\ job'[r].role = job[r].role
        /\ \A q \in Requests \ {r} : job'[q] = job[q]
    BY <1>1, <2>2 DEF Job
  <2>4. job[r].role = "maker" \/ job[r].at > Len(job[r].fills)
    BY <1>1, <2>1 DEF Ready, Gathered
  <2>5. job[r].at > Len(job[r].fills) => job[r].at \notin DOMAIN job[r].fills
    BY <1>1, LenProperties DEF Job
  <2>6. /\ job[r].pc \in Applying /\ job'[r].pc \in Applying
        /\ job'[r].pc \notin {"releaseMaker", "releaseTaker"}
    BY <2>1, <2>2, <2>3 DEF Applying, Releasing
  <2> QED  BY <1>1, <1>3, <2>3, <2>4, <2>5, <2>6, ApplyingIsReady
<1> QED  BY <1>4, <1>5, <1>6, <1>7, <1>8, <1>9, <1>10, <1>11 DEF Settles

LEMMA FinishIsReady ==
  ASSUME ShownInvariant, NEW r \in Requests, Finish(r)
  PROVE  Silent /\ Ready(r)' /\ \A q \in Requests \ {r} : job'[q] = job[q]
<1>1. /\ job \in [Requests -> Job] /\ job[r] \in Job
      /\ job[r].at = 0 /\ job[r].role = "taker"
  BY DEF ShownInvariant, TypeInvariant, Typed, Local, Positioned, Finish
<1>2. Silent
  BY DEF Finish, Silent, memory, services
<1>3. /\ job'[r].pc = "loadStatus" /\ job'[r].fills = job[r].fills /\ job'[r].at = 0
      /\ \A q \in Requests \ {r} : job'[q] = job[q]
  BY <1>1 DEF Finish, Goto, Job
<1>4. Backed(r)' /\ Covered(r)'
  BY <1>3 DEF Backed, Covered, Reporting, Auditing, Persisting, Syncing, WithRow, At
<1>5. Gathered(r)'
  <2>1. \A i \in DOMAIN job[r].fills : ~(i < 0)
    BY <1>1, LenProperties DEF Job
  <2> QED  BY <1>3, <2>1 DEF Gathered, Releasing, At
<1> QED  BY <1>2, <1>3, <1>4, <1>5 DEF Ready

(* Both orders of a fill are gathered when the fill is done. *)
LEMMA GatheredIsCovered ==
  ASSUME TypeInvariant, NEW r \in Requests, Gathered(r), job[r].pc \in Applying,
         job[r].at > Len(job[r].fills),
         NEW i \in DOMAIN job[r].fills
  PROVE  job[r].fills[i].maker \in job[r].pending /\ job[r].fills[i].taker \in job[r].pending
<1>1. /\ job[r].fills \in Seq(Trade) /\ job[r].at \in Nat /\ Local(r)
  BY DEF TypeInvariant, Typed, Job
<1>2. i < job[r].at /\ job[r].at > 0
  BY <1>1, LenProperties
<1>3. job[r].fills[i].taker = r
  BY <1>1 DEF Local, Priced
<1> QED  BY <1>2, <1>3 DEF Gathered

LEMMA ReleaseTakerIsReady ==
  ASSUME ShownInvariant, NEW r \in Requests, ReleaseTaker(r)
  PROVE  Silent /\ Ready(r)' /\ \A q \in Requests \ {r} : job'[q] = job[q]
<1>1. /\ job \in [Requests -> Job] /\ job[r] \in Job /\ TypeInvariant /\ Local(r) /\ Ready(r)
      /\ At(r, "releaseTaker")
  BY DEF ShownInvariant, TypeInvariant, Typed, ReleaseTaker
<1>2. Silent
  BY DEF ReleaseTaker, StartRelease, Silent, memory, services
<1>3. /\ job'[r].pc \in {"clip", "subtract", "accounts"} /\ job'[r].fills = job[r].fills
      /\ job'[r].at = job[r].at /\ job'[r].pending = job[r].pending
      /\ \A q \in Requests \ {r} : job'[q] = job[q]
  BY <1>1 DEF ReleaseTaker, StartRelease, Goto, Job
<1>4. job[r].at > Len(job[r].fills)
  BY <1>1 DEF Ready, Gathered
<1>5. CASE job'[r].pc \in {"clip", "subtract"}
  <2>1. /\ job[r].pc \in Applying /\ job'[r].pc \in Applying
        /\ job'[r].pc \notin {"releaseMaker", "releaseTaker", "collect"}
    BY <1>1, <1>5 DEF Applying, At
  <2> QED  BY <1>1, <1>2, <1>3, <1>4, <2>1, ApplyingIsReady
<1>6. CASE job'[r].pc = "accounts"
  <2>1. Backed(r)' /\ Gathered(r)'
    BY <1>6 DEF Backed, Gathered, Reporting, Auditing, Applying, Releasing, At
  <2>2. \A i \in DOMAIN job[r].fills :
          job[r].fills[i].maker \in job[r].pending /\ job[r].fills[i].taker \in job[r].pending
    BY <1>1, <1>4, GatheredIsCovered DEF Ready, Applying, Releasing, At
  <2>3. Covered(r)'
    BY <1>3, <2>2 DEF Covered, Underway, At
  <2> QED  BY <1>2, <1>3, <2>1, <2>3 DEF Ready
<1> QED  BY <1>3, <1>5, <1>6

LEMMA CollectIsReady ==
  ASSUME ShownInvariant, NEW r \in Requests, Collect(r)
  PROVE  Silent /\ Ready(r)' /\ \A q \in Requests \ {r} : job'[q] = job[q]
<1> DEFINE o == Subject(r)
           last == job[r].at >= Len(job[r].fills)
<1>1. /\ job[r] \in Job /\ TypeInvariant /\ Local(r) /\ Gathered(r) /\ At(r, "collect")
  BY DEF ShownInvariant, TypeInvariant, Typed, Ready, Collect
<1>2. /\ UNCHANGED <<memory, book, services>>
      /\ \A q \in Requests \ {r} : job'[q] = job[q]
      /\ job'[r].fills = job[r].fills
      /\ job'[r].pending = job[r].pending \cup {o}
      /\ job'[r].at = IF job[r].role = "taker" THEN job[r].at + 1 ELSE job[r].at
      /\ job'[r].role = IF job[r].role = "taker" /\ ~last THEN "maker" ELSE "taker"
      /\ job'[r].pc = IF job[r].role = "maker" THEN "collect"
                      ELSE IF ~last THEN "settle"
                      ELSE IF job[r].at = Len(job[r].fills) THEN "releaseTaker"
                      ELSE "accounts"
  BY <1>1, CollectFacts
<1>3. Silent
  BY <1>2 DEF Silent, memory, services
<1>4. /\ job[r].at \in Nat /\ Len(job[r].fills) \in Nat
      /\ DOMAIN job[r].fills = 1..Len(job[r].fills) /\ job[r].role \in {"maker", "taker"}
      /\ job[r].role = "maker" => job[r].at \in 1..Len(job[r].fills)
  BY <1>1, LenProperties DEF Job, Local, Positioned, At
<1>5. /\ job[r].at > 0 => r \in job[r].pending
      /\ \A i \in DOMAIN job[r].fills : i < job[r].at => job[r].fills[i].maker \in job[r].pending
      /\ job[r].role = "taker" => \A i \in DOMAIN job[r].fills :
           i = job[r].at => job[r].fills[i].maker \in job[r].pending
  BY <1>1 DEF Gathered, Applying, Releasing, At
<1>6. o = IF job[r].role = "maker" THEN job[r].fills[job[r].at].maker ELSE r
  BY DEF Subject, Fill
<1> HIDE DEF o
<1>7. /\ r \in job'[r].pending
      /\ \A i \in DOMAIN job[r].fills : i < job'[r].at => job[r].fills[i].maker \in job'[r].pending
      /\ job[r].role = "maker" => \A i \in DOMAIN job[r].fills :
           i = job'[r].at => job[r].fills[i].maker \in job'[r].pending
  BY <1>2, <1>4, <1>5, <1>6
<1>8. Gathered(r)'
  <2>1. job'[r].pc = "collect" => job[r].role = "maker"
    BY <1>2, <1>4
  <2>2. job'[r].pc # "releaseMaker"
    BY <1>2
  <2>3. job'[r].pc = "releaseTaker" => job'[r].at > Len(job[r].fills)
    BY <1>2, <1>4
  <2>4. job'[r].pc \notin Releasing
    BY <1>2 DEF Releasing
  <2> QED  BY <1>2, <1>7, <2>1, <2>2, <2>3, <2>4 DEF Gathered, At
<1>9. Backed(r)'
  BY <1>2 DEF Backed, Reporting, Auditing, At
<1>10. Covered(r)'
  <2>1. SUFFICES ASSUME job'[r].pc = "accounts" PROVE Covered(r)'
    BY <1>2 DEF Covered, Persisting, Syncing, WithRow, At
  <2>2. job[r].at > Len(job[r].fills)
    BY <1>2, <1>4, <2>1
  <2>3. \A i \in DOMAIN job[r].fills :
          job[r].fills[i].maker \in job[r].pending /\ job[r].fills[i].taker \in job[r].pending
    BY <1>1, <2>2, GatheredIsCovered DEF Applying, Releasing, At
  <2> QED  BY <1>2, <2>3 DEF Covered, Underway, At
<1> QED  BY <1>2, <1>3, <1>8, <1>9, <1>10 DEF Ready

-----------------------------------------------------------------------------
(* persistChangedOrders *)

LEMMA NextOrderIsReady ==
  ASSUME ShownInvariant, NEW r \in Requests, NextOrder(r)
  PROVE  Silent /\ Ready(r)' /\ \A q \in Requests \ {r} : job'[q] = job[q]
<1>1. /\ job \in [Requests -> Job] /\ job[r] \in Job /\ Covered(r) /\ At(r, "orders")
  BY DEF ShownInvariant, TypeInvariant, Typed, Ready, NextOrder
<1>2. Silent /\ db'.orders = db.orders
  BY DEF NextOrder, Silent, memory, services
<1>3. \A i \in DOMAIN job[r].fills :
        job[r].fills[i].maker \in Underway(r) /\ job[r].fills[i].taker \in Underway(r)
  BY <1>1 DEF Covered, Persisting, At
<1>4. CASE job[r].pending = {}
  <2>1. /\ job'[r].pc = "saveTrades" /\ job'[r].fills = job[r].fills
        /\ job'[r].pending = job[r].pending
        /\ \A q \in Requests \ {r} : job'[q] = job[q]
    BY SMTT(40), <1>1, <1>4 DEF NextOrder, Goto, Job
  <2>2. Backed(r)' /\ Gathered(r)'
    BY <2>1 DEF Backed, Gathered, Reporting, Auditing, Applying, Releasing, At
  <2>3. Underway(r) \subseteq Underway(r)'
    BY <1>1, <1>2, <2>1 DEF Underway, At
  <2>4. Covered(r)'
    BY <1>3, <1>4, <2>1, <2>3 DEF Covered
  <2> QED  BY <1>2, <2>1, <2>2, <2>4 DEF Ready
<1>5. CASE job[r].pending # {}
  <2>1. PICK o \in job[r].pending :
          job' = [job EXCEPT ![r].pc = "saveOrder", ![r].pending = @ \ {o},
                             ![r].row = [id |-> o, order |-> orders[o]]]
    BY <1>5 DEF NextOrder
  <2>2. /\ job'[r].pc = "saveOrder" /\ job'[r].fills = job[r].fills
        /\ job'[r].pending = job[r].pending \ {o} /\ job'[r].row.id = o /\ o \in Orders
        /\ \A q \in Requests \ {r} : job'[q] = job[q]
    BY <1>1, <2>1 DEF Job
  <2>3. Backed(r)' /\ Gathered(r)'
    BY <2>2 DEF Backed, Gathered, Reporting, Auditing, Applying, Releasing, At
  <2>4. Underway(r) \subseteq Underway(r)'
    BY <1>1, <1>2, <2>2 DEF Underway, At
  <2>5. Covered(r)'
    BY <1>3, <2>2, <2>4 DEF Covered, At
  <2> QED  BY <1>2, <2>2, <2>3, <2>5 DEF Ready
<1> QED  BY <1>4, <1>5

LEMMA MarshalOrderIsReady ==
  ASSUME ShownInvariant, NEW r \in Requests, MarshalOrder(r)
  PROVE  Silent /\ Ready(r)' /\ \A q \in Requests \ {r} : job'[q] = job[q]
<1>1. /\ job \in [Requests -> Job] /\ job[r] \in Job /\ Ready(r) /\ At(r, "marshalOrder")
      /\ job[r].row \in Row
  BY DEF ShownInvariant, TypeInvariant, Typed, Local, Loaded, WithRow, At, MarshalOrder
<1>2. Silent /\ db'.orders = db.orders
  BY DEF MarshalOrder, Silent, memory, services
<1>3. /\ job'[r].pc = "publishOrder" /\ job'[r].fills = job[r].fills
      /\ job'[r].pending = job[r].pending /\ job'[r].row.id = job[r].row.id
      /\ \A q \in Requests \ {r} : job'[q] = job[q]
  BY <1>1 DEF MarshalOrder, Job, Row
<1>4. Backed(r)'
  BY <1>1, <1>2, <1>3 DEF Ready, Backed, Reporting, Auditing, At
<1>5. Gathered(r)'
  BY <1>3 DEF Gathered, Applying, Releasing, At
<1>6. Underway(r) \subseteq Underway(r)'
  BY <1>1, <1>2, <1>3 DEF Underway, At
<1>7. Covered(r)'
  BY <1>1, <1>3, <1>6 DEF Ready, Covered, Persisting, WithRow, At
<1> QED  BY <1>2, <1>3, <1>4, <1>5, <1>7 DEF Ready

LEMMA PersistOrderKeepsShown ==
  ASSUME "store" \in Wired, ShownInvariant, NEW r \in Requests, PersistOrder(r)
  PROVE  Stored' /\ \A q \in Requests : Ready(q)'
<1> DEFINE id == job[r].row.id
<1>1. /\ job \in [Requests -> Job] /\ job[r] \in Job /\ Ready(r) /\ At(r, "saveOrder")
      /\ id \in Orders /\ job[r].row.order # None /\ db \in Database /\ Stored /\ TypeInvariant
  <2>1. job[r].row \in Row
    BY DEF ShownInvariant, TypeInvariant, Local, Loaded, WithRow, At, PersistOrder
  <2> QED
    BY <2>1, ExchangeAssumption DEF ShownInvariant, TypeInvariant, Typed, Row, PersistOrder
<1>2. /\ db' = [db EXCEPT !.orders[id] = job[r].row.order]
      /\ UNCHANGED <<memory, cache, bus>> /\ Answered(r, "marshalOrder")
  BY DEF PersistOrder, Save
<1>3. /\ db'.trades = db.trades /\ db'.audit = db.audit
      /\ \A o \in Orders : db'.orders[o] = IF o = id THEN job[r].row.order ELSE db.orders[o]
  BY <1>1, <1>2 DEF Database
<1> HIDE DEF id
<1>4. Grows
  BY <1>1, <1>2, <1>3 DEF Grows, memory
<1>5. Stored'
  <2>1. \A t \in db.trades : t.maker \in Orders /\ t.taker \in Orders
    BY <1>1 DEF Database, Trade, Orders
  <2> QED  BY <1>1, <1>2, <1>3, <2>1 DEF Stored, memory
<1>6. Ready(r)' /\ \A q \in Requests \ {r} : job'[q] = job[q]
  <2>1. CASE Fail(r)
    BY <1>1, <2>1, ReturnIsReady DEF Fail
  <2>2. CASE Goto(r, "marshalOrder")
    <3>1. /\ job'[r].pc = "marshalOrder" /\ job'[r].fills = job[r].fills
          /\ job'[r].pending = job[r].pending /\ job'[r].row = job[r].row
          /\ \A q \in Requests \ {r} : job'[q] = job[q]
      BY <1>1, <2>2 DEF Goto, Job
    <3>2. Backed(r)'
      BY <1>1, <1>3, <3>1 DEF Backed, Reporting, Auditing, At, id
    <3>3. Gathered(r)'
      BY <3>1 DEF Gathered, Applying, Releasing, At
    <3>4. Underway(r) \subseteq Underway(r)'
      BY <1>1, <1>3, <3>1 DEF Underway, At, id
    <3>5. Covered(r)'
      BY <1>1, <3>1, <3>4 DEF Ready, Covered, Persisting, WithRow, At
    <3> QED  BY <3>1, <3>2, <3>3, <3>5 DEF Ready
  <2> QED  BY <1>2, <2>1, <2>2 DEF Answered
<1> QED  BY <1>4, <1>5, <1>6, OthersStayReady

LEMMA PublishOrderKeepsShown ==
  ASSUME ShownInvariant, NEW r \in Requests, PublishOrder(r)
  PROVE  Stored' /\ \A q \in Requests : Ready(q)'
<1> DEFINE id == job[r].row.id
<1>1. /\ job \in [Requests -> Job] /\ job[r] \in Job /\ Ready(r) /\ At(r, "publishOrder")
      /\ bus \in Topics /\ Stored /\ TypeInvariant
  BY DEF ShownInvariant, TypeInvariant, Typed, PublishOrder
<1>2. /\ bus' = bus \/ bus' = [bus EXCEPT !.orders[id] = job[r].row.order]
      /\ UNCHANGED <<memory, db, cache>>
  BY DEF PublishOrder, Send
<1>3. db.orders[id] # None
  BY <1>1 DEF Ready, Backed, At
<1> HIDE DEF id
<1>4. /\ bus'.trades = bus.trades /\ bus'.audit = bus.audit
      /\ \A o \in Orders : o # id => bus'.orders[o] = bus.orders[o]
  BY <1>1, <1>2 DEF Topics
<1>5. Grows
  BY <1>2 DEF Grows, memory
<1>6. Stored'
  BY <1>1, <1>2, <1>3, <1>4 DEF Stored, memory
<1>7. Ready(r)' /\ \A q \in Requests \ {r} : job'[q] = job[q]
  <2>1. CASE Fail(r)
    BY <1>1, <2>1, ReturnIsReady DEF Fail
  <2>2. CASE ~Fail(r)
    <3>1. /\ job'[r].pc = "orders" /\ job'[r].fills = job[r].fills
          /\ job'[r].pending = job[r].pending
          /\ \A q \in Requests \ {r} : job'[q] = job[q]
      BY <1>1, <2>2 DEF PublishOrder, Job
    <3> QED  BY <1>1, <1>2, <3>1, SyncingIsReady DEF Persisting, WithRow, At
  <2> QED  BY <2>1, <2>2
<1> QED  BY <1>5, <1>6, <1>7, OthersStayReady

-----------------------------------------------------------------------------
(* Trades and audit events *)

LEMMA PersistTradesKeepsShown ==
  ASSUME "store" \in Wired, ShownInvariant, NEW r \in Requests, PersistTrades(r)
  PROVE  Stored' /\ \A q \in Requests : Ready(q)'
<1> DEFINE fills == job[r].fills
<1>1. /\ job \in [Requests -> Job] /\ job[r] \in Job /\ Covered(r) /\ At(r, "saveTrades")
      /\ db \in Database /\ Stored /\ TypeInvariant /\ fills \in Seq(Trade)
  BY DEF ShownInvariant, TypeInvariant, Typed, Ready, PersistTrades, Job
<1>2. /\ db' = [db EXCEPT !.trades = @ \cup Range(fills)]
      /\ UNCHANGED <<memory, cache, bus>> /\ Answered(r, "record")
  BY DEF PersistTrades, Save
<1>3. /\ db'.trades = db.trades \cup Range(fills)
      /\ db'.audit = db.audit /\ db'.orders = db.orders
  BY <1>1, <1>2 DEF Database
<1>4. Grows
  BY <1>2, <1>3 DEF Grows, memory
<1>5. \A t \in Range(fills) : db.orders[t.maker] # None /\ db.orders[t.taker] # None
  <2> SUFFICES ASSUME NEW i \in DOMAIN fills
               PROVE  db.orders[fills[i].maker] # None /\ db.orders[fills[i].taker] # None
    BY DEF Range
  <2>1. fills[i].maker \in Underway(r) /\ fills[i].taker \in Underway(r)
    BY <1>1 DEF Covered, Persisting, At
  <2>2. job[r].pending = {} /\ ~At(r, "saveOrder")
    BY <1>1 DEF Covered, At
  <2> QED  BY <2>1, <2>2 DEF Underway
<1>6. Stored'
  BY <1>1, <1>2, <1>3, <1>5 DEF Stored, memory
<1>7. Ready(r)' /\ \A q \in Requests \ {r} : job'[q] = job[q]
  <2>1. CASE Fail(r)
    BY <1>1, <2>1, ReturnIsReady DEF Fail
  <2>2. CASE Goto(r, "record")
    <3>1. /\ job'[r].pc = "record" /\ job'[r].fills = fills
          /\ \A q \in Requests \ {r} : job'[q] = job[q]
      BY <1>1, <2>2 DEF Goto, Job
    <3>2. Backed(r)'
      BY <1>3, <3>1 DEF Backed, At
    <3>3. Gathered(r)' /\ Covered(r)'
      BY <3>1 DEF Gathered, Covered, Applying, Releasing, Persisting, Syncing, WithRow, At
    <3> QED  BY <3>1, <3>2, <3>3 DEF Ready
  <2> QED  BY <1>2, <2>1, <2>2 DEF Answered
<1> QED  BY <1>4, <1>6, <1>7, OthersStayReady

(* At recordAudit, for the next event: only the trades matter. *)
LEMMA AuditIsReady ==
  ASSUME NEW r \in Requests, job'[r].pc \in {"audit", "publishTrade"},
         Range(job'[r].fills) \subseteq db'.trades
  PROVE  Ready(r)'
<1>1. Backed(r)'
  BY DEF Backed, At
<1>2. Gathered(r)' /\ Covered(r)'
  BY DEF Gathered, Covered, Applying, Releasing, Persisting, Syncing, WithRow, At
<1> QED  BY <1>1, <1>2 DEF Ready

LEMMA RecordKeepsShown ==
  ASSUME ShownInvariant, NEW r \in Requests, Record(r)
  PROVE  Stored' /\ \A q \in Requests : Ready(q)'
<1> DEFINE s == orders[r].symbol
           fills == job[r].fills
<1>1. /\ job \in [Requests -> Job] /\ job[r] \in Job /\ Ready(r) /\ At(r, "record")
      /\ market \in [Symbols -> Seq(Trade)] /\ Stored /\ TypeInvariant /\ fills \in Seq(Trade)
  BY DEF ShownInvariant, TypeInvariant, Typed, Record, Job
<1>2. /\ market' = [market EXCEPT ![s] = @ \o fills] /\ auditLog' = auditLog
      /\ UNCHANGED services
  BY DEF Record
<1>3. Range(fills) \subseteq db.trades
  BY <1>1 DEF Ready, Backed, Reporting, At
<1>4. /\ job'[r].pc = "audit" /\ job'[r].fills = fills
      /\ \A q \in Requests \ {r} : job'[q] = job[q]
  BY <1>1 DEF Record, Job
<1>5. Ready(r)'
  BY <1>2, <1>3, <1>4, AuditIsReady DEF services
<1>6. Grows
  BY <1>2 DEF Grows, services
<1> HIDE DEF s
<1>7. \A x \in Symbols : Range(market'[x]) \subseteq db.trades
  <2> TAKE x \in Symbols
  <2>1. market[x] \in Seq(Trade) /\ Range(market[x]) \subseteq db.trades
    BY <1>1 DEF Stored
  <2>2. market'[x] \in {market[x], market[x] \o fills}
    BY <1>1, <1>2
  <2>3. Range(market[x] \o fills) = Range(market[x]) \cup Range(fills)
    BY <1>1, <2>1, RangeConcatenation
  <2> QED  BY <1>3, <2>1, <2>2, <2>3
<1>8. Stored'
  BY <1>1, <1>2, <1>7 DEF Stored, services
<1> QED  BY <1>4, <1>5, <1>6, <1>8, OthersStayReady

LEMMA RecordAuditKeepsShown ==
  ASSUME ShownInvariant, NEW r \in Requests, RecordAudit(r)
  PROVE  Stored' /\ \A q \in Requests : Ready(q)'
<1>1. /\ job \in [Requests -> Job] /\ job[r] \in Job /\ Ready(r) /\ At(r, "audit") /\ Stored
  BY DEF ShownInvariant, TypeInvariant, Typed, RecordAudit
<1>2. /\ auditLog' = auditLog \cup {Event(r)} /\ market' = market /\ UNCHANGED services
  BY DEF RecordAudit
<1>3. /\ job'[r].pc = "saveAudit" /\ job'[r].fills = job[r].fills /\ job'[r].at = job[r].at
      /\ \A q \in Requests \ {r} : job'[q] = job[q]
  BY <1>1 DEF RecordAudit, Goto, Job
<1>4. Grows
  BY <1>2 DEF Grows, services
<1>5. Stored'
  BY <1>1, <1>2 DEF Stored, services
<1>6. Backed(r)'
  BY <1>1, <1>2, <1>3 DEF Ready, Backed, Reporting, Auditing, Event, At, services
<1>7. Gathered(r)' /\ Covered(r)'
  BY <1>3 DEF Gathered, Covered, Applying, Releasing, Persisting, Syncing, WithRow, At
<1> QED  BY <1>3, <1>4, <1>5, <1>6, <1>7, OthersStayReady DEF Ready

LEMMA PersistAuditKeepsShown ==
  ASSUME "store" \in Wired, ShownInvariant, NEW r \in Requests, PersistAudit(r)
  PROVE  Stored' /\ \A q \in Requests : Ready(q)'
<1>1. /\ job \in [Requests -> Job] /\ job[r] \in Job /\ Ready(r) /\ At(r, "saveAudit")
      /\ db \in Database /\ Stored /\ TypeInvariant
  BY DEF ShownInvariant, TypeInvariant, Typed, PersistAudit
<1>2. /\ db' = [db EXCEPT !.audit = @ \cup {Event(r)}]
      /\ UNCHANGED <<memory, cache, bus>> /\ Answered(r, "publishAudit")
  BY DEF PersistAudit, Save
<1>3. /\ db'.audit = db.audit \cup {Event(r)}
      /\ db'.trades = db.trades /\ db'.orders = db.orders
  BY <1>1, <1>2 DEF Database
<1>4. Grows
  BY <1>2, <1>3 DEF Grows, memory
<1>5. Event(r) \in auditLog
  BY <1>1 DEF Ready, Backed
<1>6. Stored'
  BY <1>1, <1>2, <1>3, <1>5 DEF Stored, memory
<1>7. Ready(r)' /\ \A q \in Requests \ {r} : job'[q] = job[q]
  <2>1. CASE Fail(r)
    BY <1>1, <2>1, ReturnIsReady DEF Fail
  <2>2. CASE Goto(r, "publishAudit")
    <3>1. /\ job'[r].pc = "publishAudit" /\ job'[r].fills = job[r].fills
          /\ job'[r].at = job[r].at
          /\ \A q \in Requests \ {r} : job'[q] = job[q]
      BY <1>1, <2>2 DEF Goto, Job
    <3>2. Backed(r)'
      BY <1>1, <1>3, <3>1 DEF Ready, Backed, Reporting, Auditing, Event, At
    <3>3. Gathered(r)' /\ Covered(r)'
      BY <3>1 DEF Gathered, Covered, Applying, Releasing, Persisting, Syncing, WithRow, At
    <3> QED  BY <3>1, <3>2, <3>3 DEF Ready
  <2> QED  BY <1>2, <2>1, <2>2 DEF Answered
<1> QED  BY <1>4, <1>6, <1>7, OthersStayReady

LEMMA AfterEventIsReady ==
  ASSUME TypeInvariant, NEW r \in Requests, AfterEvent(r),
         Range(job[r].fills) \subseteq db'.trades
  PROVE  Ready(r)' /\ \A q \in Requests \ {r} : job'[q] = job[q]
<1>1. job \in [Requests -> Job] /\ job[r] \in Job
  BY DEF TypeInvariant, Typed
<1>2. CASE job[r].at < Len(job[r].fills)
  <2>1. job' = [job EXCEPT ![r].pc = "audit", ![r].at = job[r].at + 1]
    BY <1>2 DEF AfterEvent
  <2>2. /\ job'[r].pc = "audit" /\ job'[r].fills = job[r].fills
        /\ \A q \in Requests \ {r} : job'[q] = job[q]
    BY <1>1, <2>1 DEF Job
  <2> QED  BY <2>2, AuditIsReady
<1>3. CASE ~(job[r].at < Len(job[r].fills))
  BY <1>3, GotoIsReady, ReturnIsReady DEF AfterEvent
<1> QED  BY <1>2, <1>3

LEMMA PublishAuditKeepsShown ==
  ASSUME ShownInvariant, NEW r \in Requests, PublishAudit(r)
  PROVE  Stored' /\ \A q \in Requests : Ready(q)'
<1>1. /\ job \in [Requests -> Job] /\ job[r] \in Job /\ Ready(r) /\ At(r, "publishAudit")
      /\ bus \in Topics /\ Stored /\ TypeInvariant
  BY DEF ShownInvariant, TypeInvariant, Typed, PublishAudit
<1>2. /\ bus' = bus \/ bus' = [bus EXCEPT !.audit = @ \cup {Event(r)}]
      /\ UNCHANGED <<memory, db, cache>>
  BY DEF PublishAudit, Send
<1>3. Event(r) \in db.audit /\ Range(job[r].fills) \subseteq db.trades
  BY <1>1 DEF Ready, Backed, Reporting, Auditing, At
<1>4. /\ bus'.trades = bus.trades /\ bus'.orders = bus.orders
      /\ bus'.audit \subseteq bus.audit \cup {Event(r)}
  BY <1>1, <1>2 DEF Topics
<1>5. Grows
  BY <1>2 DEF Grows, memory
<1>6. Stored'
  BY <1>1, <1>2, <1>3, <1>4 DEF Stored, memory
<1>7. Ready(r)' /\ \A q \in Requests \ {r} : job'[q] = job[q]
  <2>1. CASE Fail(r)
    BY <1>1, <2>1, ReturnIsReady DEF Fail
  <2>2. CASE Goto(r, "publishTrade")
    <3>1. /\ job'[r].pc = "publishTrade" /\ job'[r].fills = job[r].fills
          /\ \A q \in Requests \ {r} : job'[q] = job[q]
      BY <1>1, <2>2 DEF Goto, Job
    <3> QED  BY <1>2, <1>3, <3>1, AuditIsReady
  <2>3. CASE AfterEvent(r)
    BY <1>1, <1>2, <1>3, <2>3, AfterEventIsReady
  <2> QED  BY <2>1, <2>2, <2>3 DEF PublishAudit
<1> QED  BY <1>5, <1>6, <1>7, OthersStayReady

LEMMA PublishTradeKeepsShown ==
  ASSUME ShownInvariant, NEW r \in Requests, PublishTrade(r)
  PROVE  Stored' /\ \A q \in Requests : Ready(q)'
<1>1. /\ job \in [Requests -> Job] /\ job[r] \in Job /\ Ready(r) /\ At(r, "publishTrade")
      /\ bus \in Topics /\ Stored /\ TypeInvariant /\ Local(r)
  BY DEF ShownInvariant, TypeInvariant, Typed, PublishTrade
<1>2. /\ bus' = bus \/ bus' = [bus EXCEPT !.trades = @ \cup {Fill(r)}]
      /\ UNCHANGED <<memory, db, cache>>
  BY DEF PublishTrade, Send
<1>3. Range(job[r].fills) \subseteq db.trades
  BY <1>1 DEF Ready, Backed, Reporting, At
<1>4. Fill(r) \in db.trades
  <2>1. job[r].at \in 1..Len(job[r].fills)
    BY <1>1 DEF Local, Positioned, InFill, At
  <2>2. job[r].at \in DOMAIN job[r].fills
    BY <1>1, <2>1, LenProperties DEF Job
  <2> QED  BY <1>3, <2>2 DEF Fill, Range
<1>5. /\ bus'.audit = bus.audit /\ bus'.orders = bus.orders
      /\ bus'.trades \subseteq bus.trades \cup {Fill(r)}
  BY <1>1, <1>2 DEF Topics
<1>6. Grows
  BY <1>2 DEF Grows, memory
<1>7. Stored'
  BY <1>1, <1>2, <1>4, <1>5 DEF Stored, memory
<1>8. Ready(r)' /\ \A q \in Requests \ {r} : job'[q] = job[q]
  BY <1>1, <1>2, <1>3, AfterEventIsReady, ReturnIsReady DEF PublishTrade, Fail
<1> QED  BY <1>6, <1>7, <1>8, OthersStayReady

-----------------------------------------------------------------------------
(* The cached trades *)

LEMMA CopyTradesIsReady ==
  ASSUME ShownInvariant, NEW r \in Requests, CopyTrades(r)
  PROVE  Silent /\ Ready(r)' /\ \A q \in Requests \ {r} : job'[q] = job[q]
<1>1. /\ job \in [Requests -> Job] /\ job[r] \in Job /\ Stored /\ orders[r] \in Order
  BY KnownOf DEF ShownInvariant, TypeInvariant, Typed, CopyTrades, At, Submitted
<1>2. Silent
  BY DEF CopyTrades, Silent, memory, services
<1>3. /\ job'[r].pc = "cacheTrades" /\ job'[r].view = market[orders[r].symbol]
      /\ \A q \in Requests \ {r} : job'[q] = job[q]
  BY <1>1 DEF CopyTrades, Job
<1>4. Range(market[orders[r].symbol]) \subseteq db.trades
  BY <1>1 DEF Stored, Order
<1>5. Backed(r)'
  BY <1>2, <1>3, <1>4 DEF Silent, Backed, Reporting, Auditing, At
<1>6. Gathered(r)' /\ Covered(r)'
  BY <1>3 DEF Gathered, Covered, Applying, Releasing, Persisting, Syncing, WithRow, At
<1> QED  BY <1>2, <1>3, <1>5, <1>6 DEF Ready

LEMMA CacheTradesKeepsShown ==
  ASSUME ShownInvariant, NEW r \in Requests, CacheTrades(r)
  PROVE  Stored' /\ \A q \in Requests : Ready(q)'
<1> DEFINE s == orders[r].symbol
<1>1. /\ Ready(r) /\ At(r, "cacheTrades") /\ cache \in Redis /\ Stored /\ TypeInvariant
  BY DEF ShownInvariant, TypeInvariant, Typed, CacheTrades
<1>2. /\ cache' = cache \/ cache' = [cache EXCEPT !.trades[s] = job[r].view]
      /\ UNCHANGED <<memory, db, bus>>
  BY DEF CacheTrades, Keep
<1>3. Range(job[r].view) \subseteq db.trades
  BY <1>1 DEF Ready, Backed
<1> HIDE DEF s
<1>4. \A x \in Symbols : cache'.trades[x] \in {cache.trades[x], job[r].view}
  BY <1>1, <1>2 DEF Redis
<1>5. Grows
  BY <1>2 DEF Grows, memory
<1>6. Stored'
  BY <1>1, <1>2, <1>3, <1>4 DEF Stored, memory
<1>7. Ready(r)' /\ \A q \in Requests \ {r} : job'[q] = job[q]
  BY <1>1, ReturnIsReady DEF CacheTrades, Fail
<1> QED  BY <1>5, <1>6, <1>7, OthersStayReady

-----------------------------------------------------------------------------
(* The inductive invariant *)

LEMMA ShownInit == Init => ShownInvariant
<1> SUFFICES ASSUME Init PROVE ShownInvariant
  OBVIOUS
<1>1. TypeInvariant
  BY TypeInit
<1>2. ASSUME NEW r \in Requests PROVE Ready(r)
  <2>1. job[r].pc = "idle"
    BY DEF Init, Idle
  <2> QED
    BY <2>1 DEF Ready, Backed, Gathered, Covered, Reporting, Auditing, Applying, Releasing,
       Persisting,
       Syncing, WithRow, At
<1>3. Range(<< >>) = {}
  BY DEF Range
<1>4. \A s \in Symbols : market[s] = << >> /\ cache.trades[s] \in {None, << >>}
  BY DEF Init, NewExchange, ColdCache
<1>5. /\ bus.trades = {} /\ bus.audit = {} /\ db.trades = {} /\ db.audit = {}
      /\ \A o \in Orders : bus.orders[o] = None
  BY DEF Init, NewExchange
<1>6. Stored
  BY <1>3, <1>4, <1>5 DEF Stored
<1> QED  BY <1>1, <1>2, <1>6 DEF ShownInvariant

LEMMA ShownStep ==
  "store" \in Wired /\ ShownInvariant /\ TypeInvariant' /\ [Next]_vars => ShownInvariant'
<1> SUFFICES ASSUME "store" \in Wired, ShownInvariant, TypeInvariant', [Next]_vars
             PROVE  ShownInvariant'
  OBVIOUS
<1>1. TypeInvariant'
  OBVIOUS
<1> DEFINE Kept == Stored' /\ \A q \in Requests : Ready(q)'
<1>2. ASSUME UNCHANGED vars PROVE Kept
  <2>1. Stored'
    BY <1>2 DEF ShownInvariant, Stored, vars, memory, services
  <2>2. ASSUME NEW q \in Requests PROVE Ready(q)'
    BY <1>2 DEF ShownInvariant, Ready, Backed, Gathered, Covered, Underway, Event, At, vars,
       memory, services
  <2> QED  BY <2>1, <2>2
<1>3. ASSUME NEW r \in Requests, Accept(r) PROVE Kept
  BY <1>3, AcceptIsReady, SilentStep
<1>4. ASSUME NEW r \in Requests, Serve(r) PROVE Kept
  <2>1. \/ \/ Passing(r) \/ Carries(r) \/ Settles(r) \/ Finish(r) \/ ReleaseTaker(r)
           \/ Collect(r) \/ NextOrder(r) \/ MarshalOrder(r) \/ CopyTrades(r)
        \/ \/ PersistOrder(r) \/ PublishOrder(r) \/ PersistTrades(r) \/ Record(r)
           \/ RecordAudit(r) \/ PersistAudit(r) \/ PublishAudit(r) \/ PublishTrade(r)
           \/ CacheTrades(r)
    BY <1>4 DEF Serve, Passing, Carries, Settles
  <2>2. CASE \/ Passing(r) \/ Carries(r) \/ Settles(r) \/ Finish(r) \/ ReleaseTaker(r)
             \/ Collect(r) \/ NextOrder(r) \/ MarshalOrder(r) \/ CopyTrades(r)
    <3>1. Silent /\ Ready(r)' /\ \A q \in Requests \ {r} : job'[q] = job[q]
      BY <2>2, PassingIsReady, CarriesIsReady, SettlesIsReady, FinishIsReady,
         ReleaseTakerIsReady, CollectIsReady, NextOrderIsReady, MarshalOrderIsReady,
         CopyTradesIsReady
    <3> QED  BY <3>1, SilentStep
  <2> QED
    BY <2>1, <2>2, PersistOrderKeepsShown, PublishOrderKeepsShown, PersistTradesKeepsShown,
       RecordKeepsShown, RecordAuditKeepsShown, PersistAuditKeepsShown, PublishAuditKeepsShown,
       PublishTradeKeepsShown, CacheTradesKeepsShown
<1>5. Kept
  BY <1>2, <1>3, <1>4 DEF Next, AllAnswered
<1> QED  BY <1>1, <1>5 DEF ShownInvariant

(* What has left the program survives a crash of it: see PublishedIsStored, *)
(* for any number of requests, orders and faults, with a store wired.      *)
THEOREM WhatIsPublishedIsStored == "store" \in Wired => (Spec => []PublishedIsStored)
<1> SUFFICES ASSUME "store" \in Wired PROVE Spec => []PublishedIsStored
  OBVIOUS
<1>1. Init => VersionInvariant /\ ShownInvariant
  BY VersionInit, ShownInit
<1>2. VersionInvariant /\ ShownInvariant /\ TypeInvariant' /\ [Next]_vars =>
        VersionInvariant' /\ ShownInvariant'
  BY VersionStep, ShownStep
<1>3. VersionInvariant /\ ShownInvariant => PublishedIsStored
  BY DEF VersionInvariant, Versions, CacheBehind, ShownInvariant, Stored, PublishedIsStored
<1> QED  BY <1>1, <1>2, <1>3, TypesArePreserved, PTL DEF Spec

-----------------------------------------------------------------------------
(* Prefixes *)


(* IsPrefix, element by element. *)
Begins(p, q) == Len(p) <= Len(q) /\ \A i \in 1..Len(p) : p[i] = q[i]

LEMMA BeginsIsPrefix ==
  ASSUME NEW S, NEW p \in Seq(S), NEW q \in Seq(S), Begins(p, q)
  PROVE  IsPrefix(p, q)
<1>1. Len(p) \in Nat /\ Len(q) \in Nat /\ Len(p) <= Len(q)
  BY LenProperties DEF Begins
<1>2. /\ SubSeq(p, 1, Len(p)) \in Seq(S) /\ SubSeq(q, 1, Len(p)) \in Seq(S)
      /\ Len(SubSeq(p, 1, Len(p))) = Len(p) /\ Len(SubSeq(q, 1, Len(p))) = Len(p)
      /\ \A i \in 1..Len(p) : /\ SubSeq(p, 1, Len(p))[i] = p[i]
                              /\ SubSeq(q, 1, Len(p))[i] = q[i]
  BY <1>1
<1>3. \A i \in 1..Len(p) : SubSeq(p, 1, Len(p))[i] = SubSeq(q, 1, Len(p))[i]
  BY <1>2 DEF Begins
<1>4. SubSeq(p, 1, Len(p)) = SubSeq(q, 1, Len(p))
  BY <1>2, <1>3, SeqEqual
<1> QED  BY <1>1, <1>4 DEF IsPrefix

LEMMA BeginsExtends ==
  ASSUME NEW S, NEW p \in Seq(S), NEW q \in Seq(S), NEW more \in Seq(S), Begins(p, q)
  PROVE  Begins(p, q \o more)
<1>1. Len(p) \in Nat /\ Len(q) \in Nat /\ Len(more) \in Nat
  BY LenProperties
<1>2. /\ Len(q \o more) = Len(q) + Len(more)
      /\ \A i \in 1..Len(q) : (q \o more)[i] = q[i]
  BY <1>1, ConcatProperties
<1> QED  BY <1>1, <1>2 DEF Begins

-----------------------------------------------------------------------------
(* What may be in the hands of a reader, of a writer or of the cache *)

(* An entry that may be shown under a key. *)
Truthful(key, entry) ==
  /\ key[1] = "account" => entry \in Solvent
  /\ key[1] = "book" => entry \in Book /\ Face(entry) \in past[key[2]]
  /\ key[1] = "trades" => /\ entry \in Seq(Trade)
                          /\ Begins(entry, market[key[2]])
                          /\ Range(entry) \subseteq db.trades

(* A request carries such an entry to the cache, *)
Viewed(r) ==
  /\ At(r, "cacheBook") => Truthful(<<"book", orders[r].symbol>>, job[r].view)
  /\ At(r, "cacheTrades") => Truthful(<<"trades", orders[r].symbol>>, job[r].view)

(* a reader holds one or none, *)
Reading(d) ==
  /\ reads[d] = [pc |-> reads[d].pc, key |-> reads[d].key, entry |-> reads[d].entry]
  /\ reads[d].pc \in {"load", "fill"} => reads[d].key \in Keys
  /\ reads[d].entry # None => reads[d].key \in Keys /\ Truthful(reads[d].key, reads[d].entry)

(* and so does the cache; while nobody matches, the book is on record.     *)
BooksOnRecord ==
  \A s \in Symbols : holder[s] = None => Face(Snapshot(orders, queue[s])) \in past[s]

CacheIsTruthful == \A key \in Keys : Cached(key) # None => Truthful(key, Cached(key))

ReadInvariant ==
  /\ ShownInvariant
  /\ BooksOnRecord
  /\ CacheIsTruthful
  /\ \A r \in Requests : Viewed(r)
  /\ reads = [d \in Readers |-> reads[d]]
  /\ \A d \in Readers : Reading(d)

(* The two invariants the runs check follow. *)
LEMMA ReadInvariantSuffices ==
  ASSUME ReadInvariant
  PROVE  BooksShownAreWhole /\ TradesShownAreAPrefix
<1>1. ASSUME NEW s \in Symbols, NEW kind \in {"book", "trades"},
             NEW entry \in Visible(kind, s)
      PROVE  Truthful(<<kind, s>>, entry)
  <2>1. entry # None /\ <<kind, s>> \in Keys
    BY <1>1 DEF Visible, Keys
  <2>2. ASSUME NEW d \in Readers, reads[d].key = <<kind, s>>, entry = reads[d].entry
        PROVE  Truthful(<<kind, s>>, entry)
    BY <2>1, <2>2 DEF ReadInvariant, Reading
  <2>3. ASSUME entry = Cached(<<kind, s>>) PROVE Truthful(<<kind, s>>, entry)
    BY <2>1, <2>3 DEF ReadInvariant, CacheIsTruthful
  <2>4. entry = Cached(<<kind, s>>) \/
          \E d \in Readers : reads[d].key = <<kind, s>> /\ entry = reads[d].entry
    BY <1>1 DEF Visible, Cached
  <2> QED  BY <2>2, <2>3, <2>4
<1>2. BooksShownAreWhole
  <2> SUFFICES ASSUME NEW s \in Symbols, NEW view \in Visible("book", s)
               PROVE  Face(view) \in past[s]
    BY DEF BooksShownAreWhole
  <2> QED  BY <1>1 DEF Truthful
<1>3. TradesShownAreAPrefix
  <2> SUFFICES ASSUME NEW s \in Symbols, NEW list \in Visible("trades", s)
               PROVE  IsPrefix(list, market[s]) /\ Range(list) \subseteq db.trades
    BY DEF TradesShownAreAPrefix
  <2>1. Truthful(<<"trades", s>>, list)
    BY <1>1
  <2>2. /\ list \in Seq(Trade) /\ market[s] \in Seq(Trade)
        /\ Begins(list, market[s]) /\ Range(list) \subseteq db.trades
    BY <2>1 DEF Truthful, ReadInvariant, ShownInvariant, TypeInvariant, Typed
  <2> HIDE DEF Trade
  <2> QED  BY <2>2, BeginsIsPrefix
<1> QED  BY <1>2, <1>3

-----------------------------------------------------------------------------
(* What a step of a request does to what is shown *)

(* An order keeps its symbol for ever. *)
KeepsSymbols == \A o \in Orders : orders[o] # None => orders'[o].symbol = orders[o].symbol

LEMMA UpdateKeepsSymbols ==
  ASSUME TypeInvariant, NEW o \in Orders, orders[o] \in Order, NEW x,
         \/ orders' = [orders EXCEPT ![o].status = x]
         \/ orders' = [orders EXCEPT ![o].reserved = x]
  PROVE  KeepsSymbols
<1>1. orders \in [Orders -> Order \cup {None}]
  BY DEF TypeInvariant, Typed
<1>2. \A p \in Orders \ {o} : orders'[p] = orders[p]
  BY <1>1
<1>3. orders'[o].symbol = orders[o].symbol
  BY <1>1 DEF Order
<1> QED  BY <1>2, <1>3 DEF KeepsSymbols

LEMMA SymbolsStay ==
  ASSUME TypeInvariant, NEW r \in Requests, Accept(r) \/ Serve(r)
  PROVE  KeepsSymbols
<1>1. /\ orders \in [Orders -> Order \cup {None}] /\ r \in Orders
      /\ job[r].pc \in Unsubmitted \cup Submitted => orders[r] \in Order
  BY KnownOf DEF TypeInvariant, Typed
<1>2. CASE orders' = orders
  BY <1>2 DEF KeepsSymbols
<1>3. CASE Accept(r)
  <2>1. orders[r] = None
    BY <1>3 DEF Accept, TypeInvariant, Local, Phased
  <2>2. \A o \in Orders : o # r => orders'[o] = orders[o]
    BY <1>1, <1>3 DEF Accept, Deposit, PlaceOrder, memory
  <2> QED  BY <2>1, <2>2 DEF KeepsSymbols
<1>4. CASE Reserve(r) /\ orders' # orders
  <2>1. orders[r] \in Order
    BY <1>1, <1>4 DEF Reserve, At, Unsubmitted
  <2>2. PICK x : orders' = [orders EXCEPT ![r].reserved = x]
    BY <1>4 DEF Reserve
  <2> QED  BY <1>1, <2>1, <2>2, UpdateKeepsSymbols
<1>5. CASE Submit(r)
  <2>1. orders[r] \in Order
    BY <1>1, <1>5 DEF Submit, At, Unsubmitted
  <2>2. PICK x, y : orders' = [orders EXCEPT ![r].sequence = x, ![r].remaining = y]
    BY <1>5 DEF Submit
  <2>3. orders'[r].symbol = orders[r].symbol /\ \A o \in Orders \ {r} : orders'[o] = orders[o]
    BY <1>1, <2>1, <2>2 DEF Order
  <2> QED  BY <2>3 DEF KeepsSymbols
<1>6. CASE Match(r)
  <2> DEFINE maker == Head(queue[orders[r].symbol][Opposite(orders[r].side)])
             n == FillQuantity(orders, r, maker)
  <2>1. /\ maker \in Orders /\ orders[maker] \in Order /\ orders[r] \in Order
        /\ \A o \in Orders \ {r, maker} : orders'[o] = orders[o]
        /\ orders'[maker] = [orders[maker] EXCEPT !.remaining = @ - n]
        /\ orders'[r] = [orders[r] EXCEPT !.remaining = @ - n]
    BY ZenonT(40), <1>1, <1>6, MatchFacts DEF Match, At, Submitted
  <2> HIDE DEF maker, n
  <2>2. orders'[maker].symbol = orders[maker].symbol /\ orders'[r].symbol = orders[r].symbol
    BY <2>1 DEF Order
  <2> QED  BY ZenonT(40), <2>1, <2>2 DEF KeepsSymbols
<1>7. CASE StoreStatus(r)
  <2>1. Subject(r) \in Orders /\ orders[Subject(r)] \in Order
    <3>1. job[r].pc = "storeStatus" /\ Local(r)
      BY <1>7 DEF StoreStatus, At, TypeInvariant
    <3>2. job[r].role = "taker" \/ job[r].at \in 1..Len(job[r].fills)
      BY <3>1 DEF Local, Positioned, InFill
    <3>3. orders[r] \in Order /\ orders[r] # None
      BY <1>1, <3>1, KnownOf DEF Submitted, InFill
    <3> QED  BY <3>2, <3>3, SubjectTyped
  <2>2. PICK x : orders' = [orders EXCEPT ![Subject(r)].status = x]
    BY <1>7 DEF StoreStatus
  <2> QED  BY <2>1, <2>2, UpdateKeepsSymbols
<1>8. CASE StoreReserved(r) \/ ClampReserved(r) \/ ClipReserved(r) \/ ClearReserved(r)
  <2>1. Subject(r) \in Orders /\ orders[Subject(r)] \in Order
    BY <1>8, SettlingKnown DEF StoreReserved, ClampReserved, ClipReserved, ClearReserved, At,
       Settling
  <2>2. PICK x : orders' = [orders EXCEPT ![Subject(r)].reserved = x]
    BY <1>8 DEF StoreReserved, ClampReserved, ClipReserved, ClearReserved
  <2> QED  BY <2>1, <2>2, UpdateKeepsSymbols
<1>9. orders' = orders \/ \/ Accept(r) \/ Reserve(r) \/ Submit(r) \/ Match(r)
                         \/ StoreStatus(r) \/ StoreReserved(r) \/ ClampReserved(r)
                         \/ ClipReserved(r) \/ ClearReserved(r)
  BY ZenonT(40) DEF Serve, GetReserved, PersistAccount, ReplaceAccount, CacheAccount, Finish,
     LoadStatus, Collect, Settle, LoadReserved, CheckReserved, ReleaseMaker, ReleaseTaker,
     StartRelease, SubtractReserved, AddReserved, NextAccount, NextOrder, PersistOrder, MarshalOrder,
     PublishOrder, PersistTrades, Record, RecordAudit, PersistAudit, PublishAudit,
     PublishTrade, TakeSnapshot, CacheOrderBook, CopyTrades, CacheTrades, CallFails, memory
<1> QED  BY <1>2, <1>3, <1>4, <1>5, <1>6, <1>7, <1>8, <1>9

(* A step that puts no book and no trade list anywhere. *)
Blind(r) ==
  /\ cache'.books = cache.books /\ cache'.trades = cache.trades
  /\ market' = market /\ db.trades \subseteq db'.trades
  /\ job'[r].pc \notin {"cacheBook", "cacheTrades"}
  /\ \A q \in Requests \ {r} : job'[q] = job[q]

(* The steps that touch neither store nor cache nor market data, *)
Inward(r) ==
  \/ Reserve(r) \/ GetReserved(r) \/ ReplaceAccount(r) \/ Submit(r) \/ Match(r) \/ Finish(r)
  \/ LoadStatus(r) \/ StoreStatus(r) \/ Collect(r) \/ Settle(r) \/ LoadReserved(r)
  \/ StoreReserved(r) \/ CheckReserved(r) \/ ClampReserved(r)
  \/ ReleaseMaker(r) \/ ReleaseTaker(r) \/ ClipReserved(r) \/ SubtractReserved(r)
  \/ AddReserved(r) \/ ClearReserved(r) \/ NextAccount(r) \/ NextOrder(r)
  \/ MarshalOrder(r) \/ RecordAudit(r) \/ CallFails(r)

(* and the calls. *)
Outward(r) ==
  \/ PersistAccount(r) \/ CacheAccount(r) \/ PersistOrder(r) \/ PublishOrder(r)
  \/ PersistTrades(r) \/ PersistAudit(r) \/ PublishAudit(r) \/ PublishTrade(r)

LEMMA ReturnIsBlind ==
  ASSUME job \in [Requests -> Job], NEW r \in Requests, NEW answer \in {"ok", "failed"},
         Return(r, answer)
  PROVE  job'[r].pc = answer /\ \A q \in Requests \ {r} : job'[q] = job[q]
<1>1. job'[r] = [Idle EXCEPT !.pc = answer, !.input = job[r].input]
  BY DEF Return
<1>2. job'[r].pc = answer
  BY <1>1 DEF Idle
<1> QED  BY <1>2 DEF Return

LEMMA InwardIsBlind ==
  ASSUME ShownInvariant, NEW r \in Requests, Accept(r) \/ Inward(r)
  PROVE  Blind(r)
<1>1. job \in [Requests -> Job] /\ job[r] \in Job /\ TypeInvariant
  BY SMTT(40) DEF ShownInvariant, TypeInvariant, Typed
<1>2. /\ cache' = cache /\ db' = db
      /\ market' = market
  BY ZenonT(40) DEF Accept, Deposit, PlaceOrder, Inward, Reserve, GetReserved, ReplaceAccount,
     Submit,
     Match, Finish, LoadStatus, StoreStatus, Collect, Settle, LoadReserved, StoreReserved,
     CheckReserved, ClampReserved, ReleaseMaker, ReleaseTaker, StartRelease, ClipReserved,
     SubtractReserved, AddReserved, ClearReserved, NextAccount, NextOrder, MarshalOrder,
     RecordAudit, CallFails, memory, services
<1> DEFINE Lands == /\ job'[r].pc \notin {"cacheBook", "cacheTrades"}
                    /\ \A q \in Requests \ {r} : job'[q] = job[q]
<1>3. ASSUME Fail(r) PROVE Lands
  BY <1>1, <1>3, ReturnIsBlind DEF Fail
<1>4. ASSUME NEW label, Goto(r, label), label \notin {"cacheBook", "cacheTrades"} PROVE Lands
  BY <1>1, <1>4 DEF Goto, Job
<1>5. ASSUME Accept(r) PROVE Lands
  <2>1. PICK in \in Inputs : Deposit(r, in) \/ PlaceOrder(r, in)
    BY <1>5 DEF Accept
  <2>2. PICK copy :
          \/ job' = [job EXCEPT ![r].pc = "failed", ![r].input = in]
          \/ job' = [job EXCEPT ![r].pc = "reserve", ![r].input = in]
          \/ job' = [job EXCEPT ![r].pc = "persist", ![r].input = in, ![r].clone = copy]
    BY <2>1 DEF Deposit, PlaceOrder
  <2> QED  BY <1>1, <2>2 DEF Job
<1>6. ASSUME Reserve(r) \/ ReplaceAccount(r) \/ Submit(r) \/ Finish(r) \/ RecordAudit(r)
           \/ ReleaseMaker(r) \/ ReleaseTaker(r) \/ ClipReserved(r) \/ ClearReserved(r)
           \/ CallFails(r) PROVE Lands
  BY <1>3, <1>4, <1>6 DEF Reserve, ReplaceAccount, Submit, Finish, RecordAudit, ReleaseMaker,
     ReleaseTaker, StartRelease, ClipReserved, ClearReserved, CallFails
<1>7. ASSUME \/ GetReserved(r) \/ LoadStatus(r) \/ LoadReserved(r) \/ MarshalOrder(r)
             \/ SubtractReserved(r) \/ AddReserved(r)
      PROVE  Lands
  BY <1>1, <1>7 DEF GetReserved, LoadStatus, LoadReserved, MarshalOrder, SubtractReserved,
     AddReserved, Job
<1>8. ASSUME Match(r) PROVE Lands
  <2>1. PICK fills : job' = [job EXCEPT ![r].fills = fills]
    BY <1>8 DEF Match
  <2> QED  BY SMTT(40), <1>1, <1>8, <2>1 DEF Match, At, Job
<1>9. ASSUME StoreStatus(r) \/ StoreReserved(r) PROVE Lands
  BY <1>1, <1>9 DEF StoreStatus, StoreReserved, Job
<1>10. ASSUME Collect(r) PROVE Lands
  BY <1>1, <1>10 DEF Collect, Job
<1>11. ASSUME Settle(r) PROVE Lands
  BY ZenonT(40), <1>1, <1>3, <1>11 DEF Settle, At, Job
<1>12. ASSUME NextAccount(r) PROVE Lands
  <2>1. CASE Goto(r, "orders")
    BY <1>4, <2>1
  <2>2. CASE ~Goto(r, "orders")
    <3>1. PICK a \in Accounts :
            job' = [job EXCEPT ![r].pc = "persist", ![r].clone = job[r].accounts[a],
                               ![r].accounts[a] = None]
      BY <1>12, <2>2 DEF NextAccount
    <3> QED  BY <1>1, <3>1 DEF Job
  <2> QED  BY <2>1, <2>2
<1>13. ASSUME NextOrder(r) PROVE Lands
  <2>1. CASE Goto(r, "saveTrades")
    BY <1>4, <2>1
  <2>2. CASE ~Goto(r, "saveTrades")
    <3>1. PICK pending, row :
            job' = [job EXCEPT ![r].pc = "saveOrder", ![r].pending = pending, ![r].row = row]
      BY <1>13, <2>2 DEF NextOrder
    <3> QED  BY <1>1, <3>1 DEF Job
  <2> QED  BY <2>1, <2>2
<1>14. ASSUME CheckReserved(r) \/ ClampReserved(r) PROVE Lands
  <2>1. CASE AfterAdjust(r)
    BY <1>1, <2>1 DEF AfterAdjust, Job
  <2> QED  BY <1>4, <1>14, <2>1 DEF CheckReserved, ClampReserved
<1>15. Lands
  BY <1>5, <1>6, <1>7, <1>8, <1>9, <1>10, <1>11, <1>12, <1>13, <1>14 DEF Inward
<1> QED  BY <1>2, <1>15 DEF Blind

LEMMA OutwardIsBlind ==
  ASSUME ShownInvariant, NEW r \in Requests, Outward(r)
  PROVE  Blind(r)
<1>1. /\ job \in [Requests -> Job] /\ job[r] \in Job /\ TypeInvariant
      /\ db \in Database /\ cache \in Redis
  BY DEF ShownInvariant, TypeInvariant, Typed
<1>2. market' = market
  BY DEF Outward, PersistAccount, CacheAccount, PersistOrder, PublishOrder, PersistTrades,
     PersistAudit, PublishAudit, PublishTrade, memory
<1>3. cache'.books = cache.books /\ cache'.trades = cache.trades
  BY <1>1 DEF Outward, PersistAccount, CacheAccount, PersistOrder, PublishOrder, PersistTrades,
     PersistAudit, PublishAudit, PublishTrade, Keep, Redis
<1>4. db.trades \subseteq db'.trades
  <2>1. db' = db \/ PersistAccount(r) \/ PersistOrder(r) \/ PersistTrades(r) \/ PersistAudit(r)
    BY DEF Outward, CacheAccount, PublishOrder, PublishAudit, PublishTrade
  <2>2. CASE PersistAccount(r)
    BY <1>1, <2>2 DEF PersistAccount, Save, Database
  <2>3. CASE PersistOrder(r)
    BY <1>1, <2>3 DEF PersistOrder, Save, Database
  <2>4. CASE PersistTrades(r)
    <3> DEFINE new == Range(job[r].fills)
    <3>1. db' = [db EXCEPT !.trades = @ \cup new] \/ db' = db
      BY <2>4 DEF PersistTrades, Save
    <3> HIDE DEF new
    <3> QED  BY <1>1, <3>1 DEF Database
  <2>5. CASE PersistAudit(r)
    BY <1>1, <2>5 DEF PersistAudit, Save, Database
  <2> QED  BY <2>1, <2>2, <2>3, <2>4, <2>5
<1> DEFINE Lands == /\ job'[r].pc \notin {"cacheBook", "cacheTrades"}
                    /\ \A q \in Requests \ {r} : job'[q] = job[q]
<1>5. ASSUME Fail(r) PROVE Lands
  BY <1>1, <1>5, ReturnIsBlind DEF Fail
<1>6. ASSUME NEW label, Goto(r, label), label \notin {"cacheBook", "cacheTrades"} PROVE Lands
  BY <1>1, <1>6 DEF Goto, Job
<1>7. ASSUME AfterEvent(r) PROVE Lands
  <2>1. CASE Return(r, "ok")
    BY <1>1, <2>1, ReturnIsBlind
  <2>2. CASE ~Return(r, "ok")
    <3>1. Goto(r, "snapshot") \/ job' = [job EXCEPT ![r].pc = "audit", ![r].at = @ + 1]
      BY <1>7, <2>2 DEF AfterEvent
    <3> QED  BY <1>1, <1>6, <3>1 DEF Job
  <2> QED  BY <2>1, <2>2
<1>8. ASSUME PersistAccount(r) PROVE Lands
  <2>1. PICK next : \/ Fail(r) \/ Goto(r, "replace")
                    \/ job' = [job EXCEPT ![r].pc = "replace", ![r].clone = next]
    BY <1>8 DEF PersistAccount
  <2> QED  BY <1>1, <1>5, <1>6, <2>1 DEF Job
<1>9. ASSUME PublishOrder(r) PROVE Lands
  <2>1. Fail(r) \/ job' = [job EXCEPT ![r].pc = "orders", ![r].row = None]
    BY <1>9 DEF PublishOrder
  <2> QED  BY <1>1, <1>5, <2>1 DEF Job
<1>10. ASSUME CacheAccount(r) \/ PersistOrder(r) \/ PersistTrades(r) \/ PersistAudit(r) PROVE Lands
  BY <1>5, <1>6, <1>10 DEF CacheAccount, PersistOrder, PersistTrades, PersistAudit, Answered
<1>11. ASSUME PublishAudit(r) \/ PublishTrade(r) PROVE Lands
  BY <1>5, <1>6, <1>7, <1>11 DEF PublishAudit, PublishTrade
<1>12. Lands
  BY <1>8, <1>9, <1>10, <1>11 DEF Outward
<1> QED  BY <1>2, <1>3, <1>4, <1>12 DEF Blind

-----------------------------------------------------------------------------
(* The invariant is inductive: the requests' steps *)

(* What is on record only grows, so what is truthful stays so. *)
OnRecord ==
  /\ \A s \in Symbols : past[s] \subseteq past'[s]
  /\ \A s \in Symbols : \/ market'[s] = market[s]
                        \/ \E more \in Seq(Trade) : market'[s] = market[s] \o more
  /\ db.trades \subseteq db'.trades

LEMMA TruthfulStays ==
  ASSUME TypeInvariant, OnRecord, NEW key \in Keys, NEW entry, Truthful(key, entry)
  PROVE  Truthful(key, entry)'
<1>1. /\ key[1] \in {"book", "trades"} => key[2] \in Symbols
      /\ market \in [Symbols -> Seq(Trade)]
  BY DEF Keys, TypeInvariant, Typed
<1>2. CASE key[1] = "account"
  BY <1>2 DEF Truthful
<1>3. CASE key[1] = "book"
  BY <1>1, <1>3 DEF Truthful, OnRecord
<1>4. CASE key[1] = "trades"
  <2> DEFINE s == key[2]
  <2>1. /\ s \in Symbols /\ market[s] \in Seq(Trade)
        /\ entry \in Seq(Trade) /\ Begins(entry, market[s]) /\ Range(entry) \subseteq db.trades
    BY <1>1, <1>4 DEF Truthful
  <2>2. Begins(entry, market'[s])
    <3>1. CASE market'[s] = market[s]
      BY <2>1, <3>1
    <3>2. CASE market'[s] # market[s]
      <4>1. PICK more \in Seq(Trade) : market'[s] = market[s] \o more
        BY <2>1, <3>2 DEF OnRecord
      <4> HIDE DEF Trade, s
      <4> QED  BY <2>1, <4>1, BeginsExtends
    <3> QED  BY <3>1, <3>2
  <2> QED  BY <1>4, <2>1, <2>2 DEF Truthful, OnRecord
<1>5. CASE key[1] \notin {"account", "book", "trades"}
  BY <1>5 DEF Truthful
<1> QED  BY <1>2, <1>3, <1>4, <1>5

(* Who does not step holds what he held. *)
LEMMA HandsStay ==
  ASSUME ReadInvariant, OnRecord, KeepsSymbols, NEW q \in Requests, job'[q] = job[q]
  PROVE  Viewed(q)'
<1>1. Viewed(q) /\ TypeInvariant
  BY DEF ReadInvariant, ShownInvariant
<1>2. ASSUME job[q].pc \in {"cacheBook", "cacheTrades"}
      PROVE  /\ orders'[q].symbol = orders[q].symbol
             /\ <<"book", orders[q].symbol>> \in Keys
             /\ <<"trades", orders[q].symbol>> \in Keys
  <2>1. orders[q] # None /\ orders[q] \in Order /\ q \in Orders
    BY <1>1, <1>2, KnownOf DEF Submitted
  <2> QED  BY <2>1 DEF KeepsSymbols, Order, Keys
<1>3. CASE At(q, "cacheBook")
  BY <1>1, <1>2, <1>3, TruthfulStays DEF Viewed, At
<1>4. CASE At(q, "cacheTrades")
  BY <1>1, <1>2, <1>4, TruthfulStays DEF Viewed, At
<1>5. CASE ~At(q, "cacheBook") /\ ~At(q, "cacheTrades")
  BY <1>1, <1>5 DEF Viewed, At
<1> QED  BY <1>3, <1>4, <1>5

LEMMA ReadingStays ==
  ASSUME TypeInvariant, OnRecord, NEW d \in Readers, Reading(d), reads'[d] = reads[d]
  PROVE  Reading(d)'
<1>1. reads[d].entry # None => Truthful(reads[d].key, reads[d].entry)'
  BY TruthfulStays DEF Reading
<1> QED  BY <1>1 DEF Reading

(* What is put into the cache was in somebody's hands. *)
LEMMA CacheStays ==
  ASSUME ReadInvariant, OnRecord, TypeInvariant',
         \A s \in Symbols :
           \/ cache'.books[s] = cache.books[s]
           \/ Truthful(<<"book", s>>, cache'.books[s]),
         \A s \in Symbols :
           \/ cache'.trades[s] = cache.trades[s]
           \/ Truthful(<<"trades", s>>, cache'.trades[s])
  PROVE  CacheIsTruthful'
<1> SUFFICES ASSUME NEW key \in Keys, NEW entry, entry = Cached(key)', entry # None
             PROVE  Truthful(key, entry)'
  BY DEF CacheIsTruthful
<1>1. TypeInvariant /\ CacheIsTruthful
  BY DEF ReadInvariant, ShownInvariant
<1>2. CASE key[1] = "account"
  <2>1. key[2] \in Accounts /\ entry = cache'.accounts[key[2]]
    BY <1>2 DEF Keys, Cached
  <2>2. cache'.accounts[key[2]] \in Solvent \cup {None}
    BY <2>1 DEF TypeInvariant, Typed, Redis
  <2> QED  BY <1>2, <2>1, <2>2 DEF Truthful
<1>3. ASSUME NEW s \in Symbols, key = <<"book", s>> PROVE Truthful(key, entry)'
  <2>1. Cached(key) = cache.books[s] /\ entry = cache'.books[s]
    BY <1>3 DEF Cached
  <2>2. Truthful(key, entry)
    BY <1>1, <1>3, <2>1 DEF CacheIsTruthful
  <2> QED  BY <1>1, <2>1, <2>2, TruthfulStays
<1>4. ASSUME NEW s \in Symbols, key = <<"trades", s>> PROVE Truthful(key, entry)'
  <2>1. Cached(key) = cache.trades[s] /\ entry = cache'.trades[s]
    BY <1>4 DEF Cached
  <2>2. Truthful(key, entry)
    BY <1>1, <1>4, <2>1 DEF CacheIsTruthful
  <2> QED  BY <1>1, <2>1, <2>2, TruthfulStays
<1> QED  BY <1>2, <1>3, <1>4 DEF Keys

(* A step that leaves what is on record, cached and held in good order.    *)
LEMMA WriteKeepsReads ==
  ASSUME ReadInvariant, ShownInvariant', Observed, OnRecord, CacheIsTruthful',
         \A q \in Requests : Viewed(q)'
  PROVE  ReadInvariant'
<1>1. BooksOnRecord'
  BY DEF BooksOnRecord, Observed
<1>2. reads' = [d \in Readers |-> reads'[d]] /\ \A d \in Readers : Reading(d)'
  <2>1. TypeInvariant /\ reads' = reads
    BY DEF ReadInvariant, ShownInvariant, Observed
  <2> QED  BY <2>1, ReadingStays DEF ReadInvariant
<1> QED  BY <1>1, <1>2 DEF ReadInvariant

LEMMA ObservedGrows ==
  ASSUME Observed
  PROVE  \A s \in Symbols : past[s] \subseteq past'[s]
BY DEF Observed

(* A step of a request that shows nothing, *)
LEMMA BlindKeepsReads ==
  ASSUME ReadInvariant, ShownInvariant', Observed, KeepsSymbols, NEW r \in Requests, Blind(r)
  PROVE  ReadInvariant'
<1>1. OnRecord
  BY ObservedGrows DEF Blind, OnRecord
<1>2. \A q \in Requests : Viewed(q)'
  <2>1. Viewed(r)'
    BY DEF Viewed, Blind, At
  <2> QED  BY <1>1, <2>1, HandsStay DEF Blind
<1>3. CacheIsTruthful'
  BY <1>1, CacheStays DEF Blind, ShownInvariant
<1> QED  BY <1>1, <1>2, <1>3, WriteKeepsReads

(* one that appends to the market data, *)
LEMMA RecordKeepsReads ==
  ASSUME ReadInvariant, ShownInvariant', Observed, KeepsSymbols, NEW r \in Requests, Record(r)
  PROVE  ReadInvariant'
<1>1. /\ TypeInvariant /\ job \in [Requests -> Job] /\ job[r] \in Job
      /\ market \in [Symbols -> Seq(Trade)]
  BY DEF ReadInvariant, ShownInvariant, TypeInvariant, Typed
<1>2. /\ market' = [market EXCEPT ![orders[r].symbol] = @ \o job[r].fills]
      /\ db' = db /\ cache' = cache /\ job[r].fills \in Seq(Trade)
  BY <1>1 DEF Record, services, Job
<1>3. OnRecord
  BY <1>1, <1>2, ObservedGrows DEF OnRecord
<1>4. job'[r].pc = "audit" /\ \A q \in Requests \ {r} : job'[q] = job[q]
  BY <1>1 DEF Record, Job
<1>5. \A q \in Requests : Viewed(q)'
  <2>1. Viewed(r)'
    BY <1>4 DEF Viewed, At
  <2> QED  BY <1>3, <1>4, <2>1, HandsStay
<1>6. CacheIsTruthful'
  BY <1>2, <1>3, CacheStays DEF ShownInvariant
<1> QED  BY <1>3, <1>5, <1>6, WriteKeepsReads

(* one that copies a book or a trade list, *)
LEMMA CopyKeepsReads ==
  ASSUME ReadInvariant, ShownInvariant', Observed, NEW r \in Requests,
         TakeSnapshot(r) \/ CopyTrades(r)
  PROVE  ReadInvariant'
<1>0. PICK s : s = orders[r].symbol
  OBVIOUS
<1>1. /\ TypeInvariant /\ Stored /\ job \in [Requests -> Job] /\ job[r] \in Job
      /\ market \in [Symbols -> Seq(Trade)]
  BY DEF ReadInvariant, ShownInvariant, TypeInvariant, Typed
<1>2. UNCHANGED <<memory, book, services>>
  BY DEF TakeSnapshot, CopyTrades
<1>3. OnRecord /\ KeepsSymbols
  BY <1>2, ObservedGrows DEF OnRecord, KeepsSymbols, memory, services
<1>4. s \in Symbols /\ <<"book", s>> \in Keys /\ <<"trades", s>> \in Keys
  <2>1. orders[r] \in Order
    BY <1>1, KnownOf DEF TakeSnapshot, CopyTrades, At, Submitted
  <2> QED  BY <1>0, <2>1 DEF Order, Keys
<1>5. \A q \in Requests \ {r} : job'[q] = job[q]
  BY <1>1 DEF TakeSnapshot, CopyTrades
<1>6. orders'[r].symbol = s
  BY <1>0, <1>2 DEF memory
<1>7. CASE TakeSnapshot(r)
  <2>1. PICK view : view = Snapshot(orders, queue[s])
    OBVIOUS
  <2>2. /\ job' = [job EXCEPT ![r].pc = "cacheBook", ![r].view = view]
        /\ Face(view) \in past[s]
    BY <1>0, <1>4, <1>7, <2>1 DEF TakeSnapshot, ReadInvariant, BooksOnRecord
  <2>3. job'[r].pc = "cacheBook" /\ job'[r].view = view
    BY <1>1, <2>2 DEF Job
  <2>4. view \in Book
    <3>1. job'[r].pc = "cacheBook" => job'[r].view \in Book
      BY DEF ShownInvariant, TypeInvariant, Local, Loaded, At
    <3> QED  BY <2>3, <3>1
  <2>5. Truthful(<<"book", s>>, view)
    BY <2>2, <2>4 DEF Truthful
  <2>6. Truthful(<<"book", s>>, view)'
    BY <1>1, <1>3, <1>4, <2>5, TruthfulStays
  <2>7. Viewed(r)'
    BY <1>6, <2>3, <2>6 DEF Viewed, At
  <2>8. \A q \in Requests : Viewed(q)'
    BY <1>3, <1>5, <2>7, HandsStay
  <2>9. CacheIsTruthful'
    BY <1>2, <1>3, CacheStays DEF ShownInvariant, services
  <2> QED  BY <1>3, <2>8, <2>9, WriteKeepsReads
<1>8. CASE CopyTrades(r)
  <2>0. PICK view : view = market[s]
    OBVIOUS
  <2>1. job' = [job EXCEPT ![r].pc = "cacheTrades", ![r].view = view]
    BY <1>0, <1>8, <2>0 DEF CopyTrades
  <2>2. view \in Seq(Trade) /\ Range(view) \subseteq db.trades
    BY <1>1, <1>4, <2>0 DEF Stored
  <2>3. Begins(view, market[s])
    BY <2>0, <2>2, LenProperties DEF Begins
  <2>4. Truthful(<<"trades", s>>, view)
    BY <2>2, <2>3 DEF Truthful
  <2>5. job'[r].pc = "cacheTrades" /\ job'[r].view = view
    BY <1>1, <2>1 DEF Job
  <2>6. Truthful(<<"trades", s>>, view)'
    BY <1>1, <1>3, <1>4, <2>4, TruthfulStays
  <2>7. Viewed(r)'
    BY <1>6, <2>5, <2>6 DEF Viewed, At
  <2>8. \A q \in Requests : Viewed(q)'
    BY <1>3, <1>5, <2>7, HandsStay
  <2>9. CacheIsTruthful'
    BY <1>2, <1>3, CacheStays DEF ShownInvariant, services
  <2> QED  BY <1>3, <2>8, <2>9, WriteKeepsReads
<1> QED  BY <1>7, <1>8

(* and one that puts such a copy into the cache. *)
LEMMA PutKeepsReads ==
  ASSUME ReadInvariant, ShownInvariant', Observed, NEW r \in Requests,
         CacheOrderBook(r) \/ CacheTrades(r)
  PROVE  ReadInvariant'
<1> DEFINE s == orders[r].symbol
           view == job[r].view
<1>1. /\ TypeInvariant /\ job \in [Requests -> Job] /\ job[r] \in Job /\ cache \in Redis
      /\ Viewed(r)
  BY DEF ReadInvariant, ShownInvariant, TypeInvariant, Typed
<1>2. UNCHANGED <<memory, book, db, bus>>
  BY DEF CacheOrderBook, CacheTrades
<1>3. OnRecord /\ KeepsSymbols
  BY <1>2, ObservedGrows DEF OnRecord, KeepsSymbols, memory
<1>4. /\ job'[r].pc \notin {"cacheBook", "cacheTrades"}
      /\ \A q \in Requests \ {r} : job'[q] = job[q]
  <2>1. Goto(r, "copyTrades") \/ Return(r, "ok") \/ Return(r, "failed")
    BY DEF CacheOrderBook, CacheTrades, Answered, Fail
  <2>2. CASE Goto(r, "copyTrades")
    BY <1>1, <2>2 DEF Goto, Job
  <2> QED  BY <1>1, <2>1, <2>2, ReturnIsBlind
<1>5. \A q \in Requests : Viewed(q)'
  <2>1. Viewed(r)'
    BY <1>4 DEF Viewed, At
  <2> QED  BY <1>3, <1>4, <2>1, HandsStay
<1> HIDE DEF s, view
<1>6. CASE CacheOrderBook(r)
  <2>1. Truthful(<<"book", s>>, view)
    BY <1>1, <1>6 DEF CacheOrderBook, Viewed, s, view
  <2>2. cache' = cache \/ cache' = [cache EXCEPT !.books[s] = view]
    BY <1>6 DEF CacheOrderBook, Keep, s, view
  <2>3. /\ cache'.trades = cache.trades
        /\ \A x \in Symbols : \/ cache'.books[x] = cache.books[x]
                              \/ (x = s /\ cache'.books[x] = view)
    BY <1>1, <2>2 DEF Redis
  <2>4. \A x \in Symbols : \/ cache'.books[x] = cache.books[x]
                           \/ Truthful(<<"book", x>>, cache'.books[x])
    BY <2>1, <2>3
  <2>5. CacheIsTruthful'
    BY <1>3, <2>3, <2>4, CacheStays DEF ShownInvariant
  <2> QED  BY <1>3, <1>5, <2>5, WriteKeepsReads
<1>7. CASE CacheTrades(r)
  <2>1. Truthful(<<"trades", s>>, view)
    BY <1>1, <1>7 DEF CacheTrades, Viewed, s, view
  <2>2. cache' = cache \/ cache' = [cache EXCEPT !.trades[s] = view]
    BY <1>7 DEF CacheTrades, Keep, s, view
  <2>3. /\ cache'.books = cache.books
        /\ \A x \in Symbols : \/ cache'.trades[x] = cache.trades[x]
                              \/ (x = s /\ cache'.trades[x] = view)
    BY <1>1, <2>2 DEF Redis
  <2>4. \A x \in Symbols : \/ cache'.trades[x] = cache.trades[x]
                           \/ Truthful(<<"trades", x>>, cache'.trades[x])
    BY <2>1, <2>3
  <2>5. CacheIsTruthful'
    BY <1>3, <2>3, <2>4, CacheStays DEF ShownInvariant
  <2> QED  BY <1>3, <1>5, <2>5, WriteKeepsReads
<1> QED  BY <1>6, <1>7

LEMMA WriteStep ==
  ASSUME "store" \in Wired, ReadInvariant, TypeInvariant', Write
  PROVE  ReadInvariant'
<1>1. Next /\ Observed /\ ShownInvariant /\ TypeInvariant
  BY DEF Write, ReadInvariant, ShownInvariant
<1>2. ShownInvariant'
  BY <1>1, ShownStep
<1>3. ASSUME NEW r \in Requests, Accept(r) \/ Serve(r) PROVE ReadInvariant'
  <2>1. KeepsSymbols
    BY <1>1, <1>3, SymbolsStay
  <2>2. \/ Accept(r) \/ Inward(r) \/ Outward(r) \/ Record(r)
        \/ TakeSnapshot(r) \/ CopyTrades(r) \/ CacheOrderBook(r) \/ CacheTrades(r)
    BY <1>3 DEF Serve, Inward, Outward
  <2>3. CASE Accept(r) \/ Inward(r) \/ Outward(r)
    BY <1>1, <1>2, <2>1, <2>3, InwardIsBlind, OutwardIsBlind, BlindKeepsReads
  <2> QED
    BY <1>1, <1>2, <2>1, <2>2, <2>3, RecordKeepsReads, CopyKeepsReads, PutKeepsReads
<1>4. CASE UNCHANGED vars
  <2>1. OnRecord /\ KeepsSymbols
    BY <1>1, <1>4, ObservedGrows DEF OnRecord, KeepsSymbols, vars, memory, services
  <2>2. \A q \in Requests : Viewed(q)'
    BY <1>4, <2>1, HandsStay DEF vars
  <2>3. CacheIsTruthful'
    BY <1>2, <1>4, <2>1, CacheStays DEF ShownInvariant, vars, services
  <2> QED  BY <1>1, <1>2, <2>1, <2>2, <2>3, WriteKeepsReads
<1> QED  BY <1>1, <1>3, <1>4 DEF Next, AllAnswered

-----------------------------------------------------------------------------
(* The invariant is inductive: the readers' steps *)

(* A reader's step on the cache, or an entry whose time is over: requests, *)
(* memory, store and bus do not notice.                                    *)
Aside ==
  /\ UNCHANGED <<memory, book, db, bus, job, past>>
  /\ cache' \in Redis
  /\ \A s \in Symbols : cache'.trades[s] # None => Range(cache'.trades[s]) \subseteq db.trades

LEMMA AsideKeepsShown ==
  ASSUME ShownInvariant, Aside
  PROVE  ShownInvariant'
<1>1. TypeInvariant /\ Stored
  BY DEF ShownInvariant
<1>2. TypeInvariant'
  <2>1. Typed' /\ Resting'
    BY <1>1 DEF TypeInvariant, Typed, Resting, Aside, memory, book, At
  <2>2. ASSUME NEW r \in Requests PROVE Local(r)'
    BY <1>1 DEF TypeInvariant, Local, Phased, Positioned, Priced, Loaded, Fresh, Busy, At,
       Crosses, Aside, memory
  <2> QED  BY <2>1, <2>2 DEF TypeInvariant
<1>3. Stored'
  BY <1>1 DEF Stored, Aside, memory
<1>4. ASSUME NEW q \in Requests PROVE Ready(q)'
  BY DEF ShownInvariant, Ready, Backed, Gathered, Covered, Underway, Event, At, Aside, memory
<1> QED  BY <1>2, <1>3, <1>4 DEF ShownInvariant

(* Then the requests hold what they held, and nothing is matched. *)
LEMMA AsideKeepsReads ==
  ASSUME ReadInvariant, Aside, CacheIsTruthful', reads' = [d \in Readers |-> reads'[d]],
         \A d \in Readers : Reading(d)'
  PROVE  ReadInvariant'
<1>1. ShownInvariant'
  BY AsideKeepsShown DEF ReadInvariant
<1>2. OnRecord /\ KeepsSymbols
  BY DEF Aside, OnRecord, KeepsSymbols, memory
<1>3. BooksOnRecord'
  BY DEF ReadInvariant, BooksOnRecord, Aside, memory, book
<1>4. \A q \in Requests : Viewed(q)'
  BY <1>2, HandsStay DEF Aside
<1> QED  BY <1>1, <1>3, <1>4 DEF ReadInvariant

(* One entry of the cache is replaced by one that may be shown, or goes.   *)
LEMMA ReplacedEntry ==
  ASSUME ReadInvariant, UNCHANGED <<memory, book, db, bus, job, past>>,
         NEW key \in Keys, NEW entry, entry = None \/ Truthful(key, entry),
         cache' = WithEntry(key, entry)
  PROVE  Aside /\ CacheIsTruthful'
<1>1. cache \in Redis /\ CacheIsTruthful /\ Stored
  BY DEF ReadInvariant, ShownInvariant, TypeInvariant, Typed
<1> DEFINE Others == \A k \in Keys \ {key} : Cached(k)' = Cached(k)
           Proper == /\ cache' \in Redis
                     /\ \A s \in Symbols : cache'.trades[s] # None =>
                                            Range(cache'.trades[s]) \subseteq db.trades
<1>2. ASSUME NEW a \in Accounts, key = <<"account", a>>
      PROVE  Proper /\ Others /\ Cached(key)' = entry
  <2>1. entry \in Solvent \cup {None}
    BY <1>2 DEF Truthful
  <2>2. cache' = [cache EXCEPT !.accounts[a] = entry]
    BY <1>2 DEF WithEntry
  <2>3. /\ cache' \in Redis /\ cache'.books = cache.books /\ cache'.trades = cache.trades
        /\ cache'.accounts[a] = entry
        /\ \A x \in Accounts \ {a} : cache'.accounts[x] = cache.accounts[x]
    BY <1>1, <2>1, <2>2 DEF Redis
  <2>4. Others /\ Cached(key)' = entry
    BY <1>2, <2>3 DEF Keys, Cached
  <2> QED  BY <1>1, <2>3, <2>4 DEF Stored
<1>3. ASSUME NEW s \in Symbols, key = <<"book", s>>
      PROVE  Proper /\ Others /\ Cached(key)' = entry
  <2>1. entry \in Book \cup {None}
    BY <1>3 DEF Truthful
  <2>2. cache' = [cache EXCEPT !.books[s] = entry]
    BY <1>3 DEF WithEntry
  <2>3. /\ cache' \in Redis /\ cache'.accounts = cache.accounts /\ cache'.trades = cache.trades
        /\ cache'.books[s] = entry
        /\ \A x \in Symbols \ {s} : cache'.books[x] = cache.books[x]
    BY <1>1, <2>1, <2>2 DEF Redis
  <2>4. Others /\ Cached(key)' = entry
    BY <1>3, <2>3 DEF Keys, Cached
  <2> QED  BY <1>1, <2>3, <2>4 DEF Stored
<1>4. ASSUME NEW s \in Symbols, key = <<"trades", s>>
      PROVE  Proper /\ Others /\ Cached(key)' = entry
  <2>1. /\ entry \in Seq(Trade) \cup {None}
        /\ entry # None => Range(entry) \subseteq db.trades
    BY <1>4 DEF Truthful
  <2>2. cache' = [cache EXCEPT !.trades[s] = entry]
    BY <1>4 DEF WithEntry
  <2>3. /\ cache' \in Redis /\ cache'.accounts = cache.accounts /\ cache'.books = cache.books
        /\ cache'.trades[s] = entry
        /\ \A x \in Symbols \ {s} : cache'.trades[x] = cache.trades[x]
    BY <1>1, <2>1, <2>2 DEF Redis
  <2>4. Others /\ Cached(key)' = entry
    BY <1>4, <2>3 DEF Keys, Cached
  <2>5. \A x \in Symbols : cache'.trades[x] # None => Range(cache'.trades[x]) \subseteq db.trades
    BY <1>1, <2>1, <2>3 DEF Stored
  <2> QED  BY <2>3, <2>4, <2>5
<1>5. Proper /\ Others /\ Cached(key)' = entry
  BY <1>2, <1>3, <1>4 DEF Keys
<1>6. CacheIsTruthful'
  <2> SUFFICES ASSUME NEW k \in Keys, NEW e, e = Cached(k)', e # None
               PROVE  Truthful(k, e)'
    BY DEF CacheIsTruthful
  <2>1. Truthful(k, e)
    BY <1>1, <1>5 DEF CacheIsTruthful
  <2> QED  BY <2>1 DEF Truthful, memory
<1> QED  BY <1>5, <1>6 DEF Aside

(* GET looks into the cache. *)
LEMMA LookupKeepsReads ==
  ASSUME ReadInvariant, NEW d \in Readers, Lookup(d)
  PROVE  ReadInvariant'
<1>1. PICK key, pc, k, entry :
        /\ key \in Watched
        /\ reads' = [reads EXCEPT ![d] = [pc |-> pc, key |-> k, entry |-> entry]]
        /\ \/ pc = "answered" /\ k = key /\ entry = Cached(key) /\ entry # None
           \/ pc = "load" /\ k = key /\ entry = None
           \/ pc = "failed" /\ k = None /\ entry = None
  <2>1. PICK key \in Watched :
          \/ reads' = [reads EXCEPT ![d] = IF Cached(key) # None
               THEN [pc |-> "answered", key |-> key, entry |-> Cached(key)]
               ELSE [pc |-> "load", key |-> key, entry |-> None]]
          \/ reads' = [reads EXCEPT ![d] = [NoRead EXCEPT !.pc = "failed"]]
    BY DEF Lookup
  <2>2. [NoRead EXCEPT !.pc = "failed"] = [pc |-> "failed", key |-> None, entry |-> None]
    BY DEF NoRead
  <2> QED  BY <2>1, <2>2
<1>2. /\ UNCHANGED <<vars, past>> /\ CacheIsTruthful /\ key \in Keys
      /\ cache \in Redis /\ Stored
      /\ reads = [e \in Readers |-> reads[e]] /\ \A e \in Readers : Reading(e)
  BY <1>1, ReadersAssumption DEF Lookup, ReadInvariant, ShownInvariant, TypeInvariant, Typed
<1>3. Aside
  BY <1>2 DEF Aside, vars, services, memory, book, Stored
<1>4. CacheIsTruthful'
  BY <1>2 DEF CacheIsTruthful, Cached, Truthful, vars, services, memory
<1>5. ASSUME NEW e \in Readers PROVE Reading(e)'
  <2>1. CASE e = d
    <3>1. reads'[e] = [pc |-> pc, key |-> k, entry |-> entry]
      BY <1>1, <1>2, <2>1
    <3>2. entry # None => k = key /\ Truthful(key, entry)'
      BY <1>1, <1>2 DEF CacheIsTruthful, Truthful, vars, memory, services
    <3> QED  BY <1>1, <1>2, <3>1, <3>2 DEF Reading
  <2>2. CASE e # d
    <3>1. reads'[e] = reads[e] /\ Reading(e)
      BY <1>1, <1>2, <2>2
    <3> QED  BY <1>2, <3>1 DEF Reading, Truthful, vars, memory, services
  <2> QED  BY <2>1, <2>2
<1>6. reads' = [e \in Readers |-> reads'[e]]
  BY <1>1, <1>2
<1> QED  BY <1>3, <1>4, <1>5, <1>6, AsideKeepsReads

(* On a miss it copies what memory holds, *)
LEMMA LoadKeepsReads ==
  ASSUME ReadInvariant, NEW d \in Readers, Load(d)
  PROVE  ReadInvariant'
<1>1. PICK key, entry :
        /\ key = reads[d].key
        /\ entry = IF key[1] = "account" THEN wallet[key[2]]
                   ELSE IF key[1] = "book" THEN Snapshot(orders, queue[key[2]])
                   ELSE market[key[2]]
  OBVIOUS
<1>2. /\ UNCHANGED <<vars, past>> /\ CacheIsTruthful /\ key \in Keys
      /\ Typed /\ Resting /\ Stored /\ BooksOnRecord
      /\ reads = [e \in Readers |-> reads[e]] /\ \A e \in Readers : Reading(e)
  BY <1>1 DEF Load, Reading, ReadInvariant, ShownInvariant, TypeInvariant
<1>3. /\ reads' = [reads EXCEPT ![d].pc = "fill", ![d].entry = entry]
      /\ key[1] = "book" => holder[key[2]] = None
  BY <1>1 DEF Load
<1>4. Truthful(key, entry)
  <2>1. CASE key[1] = "account"
    <3>1. key[2] \in Accounts /\ entry = wallet[key[2]]
      BY <1>1, <1>2, <2>1 DEF Keys
    <3> QED  BY <1>2, <2>1, <3>1 DEF Truthful, Typed
  <2>2. ASSUME NEW s \in Symbols, key = <<"book", s>> PROVE Truthful(key, entry)
    <3>1. entry = Snapshot(orders, queue[s]) /\ holder[s] = None
      BY <1>1, <1>3, <2>2
    <3>2. Face(entry) \in past[s]
      BY <1>2, <3>1 DEF BooksOnRecord
    <3>3. /\ queue[s] \in [Sides -> Seq(Orders)]
          /\ \A side \in Sides : \A o \in Range(queue[s][side]) : orders[o] \in Order
      <4>1. queue[s] \in [Sides -> Seq(Orders)] /\ orders \in [Orders -> Order \cup {None}]
        BY <1>2 DEF Typed
      <4>2. ASSUME NEW side \in Sides, NEW o \in Range(queue[s][side])
            PROVE  orders[o] \in Order
        <5>1. queue[s][side] \in Seq(Orders)
          BY <4>1
        <5>2. o \in Orders
          BY <5>1 DEF Range
        <5> QED  BY <1>2, <4>1, <5>2 DEF Resting
      <4> QED  BY <4>1, <4>2
    <3>4. entry \in Book
      BY <3>1, <3>3, SnapshotTyped
    <3> QED  BY <2>2, <3>2, <3>4 DEF Truthful
  <2>3. ASSUME NEW s \in Symbols, key = <<"trades", s>> PROVE Truthful(key, entry)
    <3>1. /\ entry = market[s] /\ entry \in Seq(Trade)
          /\ Range(entry) \subseteq db.trades
      BY <1>1, <1>2, <2>3 DEF Typed, Stored
    <3>2. Begins(entry, market[s])
      BY <3>1, LenProperties DEF Begins
    <3> QED  BY <2>3, <3>1, <3>2 DEF Truthful
  <2> QED  BY <1>2, <2>1, <2>2, <2>3 DEF Keys
<1>5. Aside
  BY <1>2 DEF Aside, vars, services, memory, book, Stored, Typed
<1>6. CacheIsTruthful'
  BY <1>2 DEF CacheIsTruthful, Cached, Truthful, vars, services, memory
<1>7. ASSUME NEW e \in Readers PROVE Reading(e)'
  <2>1. CASE e = d
    <3>1. PICK pc, old : reads[d] = [pc |-> pc, key |-> key, entry |-> old]
      BY <1>1, <1>2 DEF Reading
    <3>2. reads'[e] = [pc |-> "fill", key |-> key, entry |-> entry]
      <4>1. PICK mid : mid = [reads EXCEPT ![d].pc = "fill"]
        OBVIOUS
      <4>2. mid = [x \in Readers |-> mid[x]] /\ mid[d] = [pc |-> "fill", key |-> key, entry |-> old]
        BY <1>2, <3>1, <4>1
      <4>3. reads' = [mid EXCEPT ![d].entry = entry]
        BY <1>3, <4>1
      <4> QED  BY <2>1, <4>2, <4>3
    <3>3. Truthful(key, entry)'
      BY <1>2, <1>4 DEF Truthful, vars, memory, services
    <3>4. reads'[e].pc = "fill" /\ reads'[e].key = key /\ reads'[e].entry = entry
      BY <3>2
    <3>5. Truthful(reads[e].key, reads[e].entry)'
      BY <3>3, <3>4 DEF Truthful
    <3> QED  BY <1>2, <3>2, <3>4, <3>5 DEF Reading
  <2>2. CASE e # d
    <3>1. reads'[e] = reads[e] /\ Reading(e)
      BY <1>2, <1>3, <2>2
    <3> QED  BY <1>2, <3>1 DEF Reading, Truthful, vars, memory, services
  <2> QED  BY <2>1, <2>2
<1>8. reads' = [e \in Readers |-> reads'[e]]
  BY <1>2, <1>3
<1> QED  BY <1>5, <1>6, <1>7, <1>8, AsideKeepsReads

(* and puts the copy into the cache, *)
LEMMA StoreKeepsReads ==
  ASSUME ReadInvariant, NEW d \in Readers, Store(d)
  PROVE  ReadInvariant'
<1>1. PICK key, entry : key = reads[d].key /\ entry = reads[d].entry
  OBVIOUS
<1>2. /\ UNCHANGED <<memory, book, db, bus, job, past>> /\ CacheIsTruthful /\ key \in Keys
      /\ Typed /\ Stored /\ (entry = None \/ Truthful(key, entry))
      /\ reads = [e \in Readers |-> reads[e]] /\ \A e \in Readers : Reading(e)
  BY <1>1 DEF Store, Reading, ReadInvariant, ShownInvariant, TypeInvariant
<1>3. /\ cache' = cache \/ cache' = WithEntry(key, entry)
      /\ \/ reads' = [reads EXCEPT ![d].pc = "answered"]
         \/ reads' = [reads EXCEPT ![d] = [NoRead EXCEPT !.pc = "failed"]]
  BY <1>1 DEF Store, Keep
<1>4. Aside /\ CacheIsTruthful'
  <2>1. CASE cache' = cache
    BY <1>2, <2>1 DEF Aside, Stored, Typed, CacheIsTruthful, Cached, Truthful, memory
  <2>2. CASE cache' = WithEntry(key, entry)
    BY <1>2, <2>2, ReplacedEntry
  <2> QED  BY <1>3, <2>1, <2>2
<1>5. ASSUME NEW e \in Readers PROVE Reading(e)'
  <2>1. Reading(e) /\ Reading(d)
    BY <1>2
  <2>2. CASE reads'[e] = reads[e]
    BY <1>2, <2>1, <2>2 DEF Reading, Truthful, memory
  <2>3. CASE e = d /\ reads' = [reads EXCEPT ![d].pc = "answered"]
    <3>1. reads[d] = [pc |-> reads[d].pc, key |-> key, entry |-> entry]
      BY <1>1, <2>1 DEF Reading
    <3>2. reads'[e] = [pc |-> "answered", key |-> key, entry |-> entry]
      BY <1>2, <2>3, <3>1
    <3> QED  BY <1>2, <3>2 DEF Reading, Truthful, memory
  <2>4. CASE e = d /\ reads' = [reads EXCEPT ![d] = [NoRead EXCEPT !.pc = "failed"]]
    <3>1. reads'[e] = [pc |-> "failed", key |-> None, entry |-> None]
      BY <1>2, <2>4 DEF NoRead
    <3> QED  BY <3>1 DEF Reading
  <2> QED  BY <1>2, <1>3, <2>2, <2>3, <2>4
<1>6. reads' = [e \in Readers |-> reads'[e]]
  BY <1>2, <1>3
<1> QED  BY <1>4, <1>5, <1>6, AsideKeepsReads

(* where it stays until its time is over. *)
LEMMA ExpireKeepsReads ==
  ASSUME ReadInvariant, NEW key \in Watched, Expire(key)
  PROVE  ReadInvariant'
<1>1. /\ UNCHANGED <<memory, book, db, bus, job, past>> /\ reads' = reads /\ key \in Keys
      /\ cache' = WithEntry(key, None)
  BY ReadersAssumption DEF Expire, readVars
<1>2. Aside /\ CacheIsTruthful'
  BY <1>1, ReplacedEntry
<1>3. \A d \in Readers : Reading(d)'
  BY <1>1 DEF ReadInvariant, Reading, Truthful, memory
<1> QED  BY <1>1, <1>2, <1>3, AsideKeepsReads DEF ReadInvariant

-----------------------------------------------------------------------------
(* The inductive invariant *)

LEMMA ReadInit == ReadersInit => ReadInvariant
<1> SUFFICES ASSUME ReadersInit PROVE ReadInvariant
  OBVIOUS
<1>1. ShownInvariant /\ Init
  BY ShownInit DEF ReadersInit
<1>2. BooksOnRecord
  BY DEF BooksOnRecord, ReadersInit
<1>3. \A r \in Requests : Viewed(r)
  BY <1>1 DEF Init, Idle, Viewed, At
<1>4. /\ reads = [d \in Readers |-> [pc |-> "idle", key |-> None, entry |-> None]]
      /\ reads = [d \in Readers |-> reads[d]]
  BY DEF ReadersInit, NoRead
<1>5. \A d \in Readers : Reading(d)
  BY <1>4 DEF Reading
<1>6. CacheIsTruthful
  <2> SUFFICES ASSUME NEW key \in Keys, NEW entry, entry = Cached(key), entry # None
               PROVE  Truthful(key, entry)
    BY DEF CacheIsTruthful
  <2>1. cache \in Redis /\ Stored /\ market \in [Symbols -> Seq(Trade)]
    BY <1>1 DEF ShownInvariant, TypeInvariant, Typed
  <2>2. /\ \A s \in Symbols : cache.books[s] \in {None, Snapshot(orders, queue[s])}
        /\ \A s \in Symbols : cache.trades[s] \in {None, << >>} /\ market[s] = << >>
    BY <1>1 DEF Init, NewExchange, ColdCache
  <2>3. CASE key[1] = "account"
    BY <2>1, <2>3 DEF Keys, Cached, Redis, Truthful
  <2>4. ASSUME NEW s \in Symbols, key = <<"book", s>> PROVE Truthful(key, entry)
    <3>1. entry = Snapshot(orders, queue[s]) /\ entry \in Book
      BY <2>1, <2>2, <2>4 DEF Cached, Redis
    <3>2. Face(entry) \in past[s]
      BY <3>1 DEF ReadersInit
    <3> QED  BY <2>4, <3>1, <3>2 DEF Truthful
  <2>5. ASSUME NEW s \in Symbols, key = <<"trades", s>> PROVE Truthful(key, entry)
    <3>1. entry = << >> /\ entry = cache.trades[s] /\ market[s] = << >>
      BY <2>2, <2>5 DEF Cached
    <3>2. Begins(entry, market[s])
      BY <3>1 DEF Begins
    <3>3. Range(entry) \subseteq db.trades
      BY <2>1, <3>1 DEF Stored
    <3> QED  BY <2>1, <2>5, <3>1, <3>2, <3>3 DEF Truthful
  <2> QED  BY <2>3, <2>4, <2>5 DEF Keys
<1> QED  BY <1>1, <1>2, <1>3, <1>4, <1>5, <1>6 DEF ReadInvariant

LEMMA ReadStep ==
  "store" \in Wired /\ ReadInvariant /\ TypeInvariant' /\ [ReadersNext]_everything =>
    ReadInvariant'
<1> SUFFICES ASSUME "store" \in Wired, ReadInvariant, TypeInvariant', [ReadersNext]_everything
             PROVE  ReadInvariant'
  OBVIOUS
<1>1. CASE UNCHANGED everything
  <2>1. Aside
    BY <1>1 DEF everything, vars, readVars, memory, book, services, Aside, ReadInvariant,
       ShownInvariant, TypeInvariant, Typed, Stored
  <2>2. CacheIsTruthful' /\ \A d \in Readers : Reading(d)'
    BY <1>1 DEF everything, vars, readVars, memory, services, ReadInvariant, CacheIsTruthful,
       Cached, Reading, Truthful
  <2> QED  BY <1>1, <2>1, <2>2, AsideKeepsReads DEF everything, readVars, ReadInvariant
<1> QED
  BY <1>1, WriteStep, LookupKeepsReads, LoadKeepsReads, StoreKeepsReads, ExpireKeepsReads
     DEF ReadersNext, Read

(* Readers do not disturb the requests' turns. *)
LEMMA ReadersTakeTurns ==
  TypeInvariant /\ TypeInvariant' /\ (Serial => Turns) /\ [ReadersNext]_everything =>
    (Serial => Turns)'
<1> SUFFICES ASSUME Serial, TypeInvariant, TypeInvariant', Turns, [ReadersNext]_everything
             PROVE  Turns'
  BY DEF Serial, InCredit
<1>1. Next \/ UNCHANGED <<memory, job>>
  BY DEF ReadersNext, Write, Read, Lookup, Load, Store, Expire, everything, vars
<1>2. CASE Next
  BY <1>2, TurnsStep
<1>3. CASE UNCHANGED <<memory, job>>
  BY <1>3 DEF Turns, InTurn, Busy, At, Subject, Fill, LockedBy, MyPair, memory
<1> QED  BY <1>1, <1>2, <1>3

(* Nor the types. *)
LEMMA ReadersKeepTypes ==
  "store" \in Wired /\ ReadInvariant /\ (Serial => Turns) /\ [ReadersNext]_everything =>
    TypeInvariant'
<1> SUFFICES ASSUME "store" \in Wired, ReadInvariant, Serial => Turns,
                    [ReadersNext]_everything
             PROVE  TypeInvariant'
  OBVIOUS
<1>1. CASE Write
  BY <1>1, TypeStep DEF Write, ReadInvariant, ShownInvariant
<1>2. CASE UNCHANGED everything
  <2>1. Aside
    BY <1>2 DEF everything, vars, readVars, memory, book, services, Aside, ReadInvariant,
       ShownInvariant, TypeInvariant, Typed, Stored
  <2> QED  BY <2>1, AsideKeepsShown DEF ReadInvariant, ShownInvariant
<1> QED
  BY <1>1, <1>2, LookupKeepsReads, LoadKeepsReads, StoreKeepsReads, ExpireKeepsReads
     DEF ReadersNext, Read, ReadInvariant, ShownInvariant

LEMMA ReadsAreTruthful == "store" \in Wired => (ReadersSpec => []ReadInvariant)
<1> SUFFICES ASSUME "store" \in Wired PROVE ReadersSpec => []ReadInvariant
  OBVIOUS
<1>1. ReadersInit => ReadInvariant /\ (Serial => Turns)
  BY ReadInit, TurnsInit DEF ReadersInit
<1>2. ReadInvariant /\ (Serial => Turns) /\ [ReadersNext]_everything =>
        ReadInvariant' /\ (Serial => Turns)'
  <2>1. ReadInvariant => TypeInvariant
    BY DEF ReadInvariant, ShownInvariant
  <2> QED  BY <2>1, ReadStep, ReadersTakeTurns, ReadersKeepTypes
<1> QED  BY <1>1, <1>2, PTL DEF ReadersSpec

(* Submit is atomic for readers: a book that is shown to a client, cached  *)
(* or fresh, is one the symbol really had between two submissions (however *)
(* old), never one with an order half matched (book.go:54 and 90).         *)
THEOREM WholeBooksAreShown == "store" \in Wired => (ReadersSpec => []BooksShownAreWhole)
<1>1. ReadInvariant => BooksShownAreWhole
  BY ReadInvariantSuffices
<1> QED  BY <1>1, ReadsAreTruthful, PTL

(* A trade list that is shown is the beginning of the symbol's history,    *)
(* without gaps, and every trade in it is stored: PlaceOrder stores before *)
(* it records, and copies under the mutex (exchange.go:204-208).           *)
THEOREM PrefixesAreShown == "store" \in Wired => (ReadersSpec => []TradesShownAreAPrefix)
<1>1. ReadInvariant => TradesShownAreAPrefix
  BY ReadInvariantSuffices
<1> QED  BY <1>1, ReadsAreTruthful, PTL

=============================================================================
