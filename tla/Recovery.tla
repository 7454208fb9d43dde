------------------------------ MODULE Recovery ------------------------------
(***************************************************************************)
(* The exchange, stopped at any step and started again: Exchange with a    *)
(* process that can die, and NewExchange over whatever the store then      *)
(* holds (exchange.go:31-86 and 427-449, postgres.go:40-64 and 231-349,    *)
(* wallet/service.go:173-253).                                             *)
(*                                                                         *)
(* A stop loses the goroutines and all memory; PostgreSQL, Redis and       *)
(* Redpanda keep what they have.  Memory is left as it was until Bootstrap *)
(* overwrites it: nothing reads it in between.                             *)
(***************************************************************************)
EXTENDS ExchangeProperties

CONSTANTS
  MaxStops,    \* bound: how often the process stops
  CleanStops,  \* it only stops between requests
  LoadLimit    \* the LIMIT of loadTrades and loadAudit (1000)

ASSUME RecoveryAssumption ==
  /\ MaxStops \in Nat
  /\ CleanStops \in BOOLEAN
  /\ LoadLimit \in Nat
  /\ "store" \in Wired

VARIABLES
  boot,    \* how far NewExchange has come, and what it has left to do
  stops,   \* bound's counter
  before   \* history: what memory showed when it stopped after all requests had succeeded

recoveryVars == <<boot, stops, before>>

allVars == <<vars, recoveryVars>>

Serving == boot.pc = "serving"

(* Nothing is left to do before listening. *)
Started == boot.pc = "rebuild" /\ boot.accounts = {} /\ boot.symbols = {}

Phase(pc) == [pc |-> pc, accounts |-> {}, symbols |-> {}, at |-> None]

-----------------------------------------------------------------------------
(* What the store returns *)

(* Mutant of LoadedAccounts: the version column is not selected. *)
UnversionedAccounts == [a \in Accounts |-> [db.accounts[a] EXCEPT !.version = 0]]

LoadedAccounts == db.accounts

(* Mutant of OpenRows: the query forgets the second status. *)
UntouchedRows == {o \in Orders : db.orders[o] # None /\ db.orders[o].status = "open"}

OpenRows ==
  {o \in Orders : db.orders[o] # None /\ db.orders[o].status \in {"open", "partially_filled"}}

Rows == [o \in OpenRows |-> db.orders[o]]

(* ORDER BY symbol, sequence. *)
IsLoadOrder(ids) == \A i, j \in DOMAIN ids : i < j =>
  IF Rows[ids[i]].symbol = Rows[ids[j]].symbol
    THEN Rows[ids[i]].sequence <= Rows[ids[j]].sequence
    ELSE \A k \in (j + 1)..Len(ids) : Rows[ids[k]].symbol # Rows[ids[i]].symbol

(* ORDER BY executed_at LIMIT: the oldest trades.  Which trade of two      *)
(* symbols is the older is not recorded; on one tape it is.                *)
OldestTrades == {kept \in kSubset(Lesser(LoadLimit, Cardinality(db.trades)), db.trades) :
  \A s \in Symbols : \A i, j \in DOMAIN tape[s] :
    i < j /\ tape[s][j] \in kept /\ tape[s][i] \in db.trades => tape[s][i] \in kept}

(* On each tape they are in the order they were executed in. *)
InOrder(trades, kept) ==
  LET at == CHOOSE q \in SetToSeqs({i \in DOMAIN trades : trades[i] \in kept}) :
              \A m, n \in DOMAIN q : m < n => q[m] < q[n]
  IN  [n \in DOMAIN at |-> trades[at[n]]]

OldestEvents == {kept \in kSubset(Lesser(LoadLimit, Cardinality(db.audit)), db.audit) :
  \A e \in kept : \A i \in 0..e[2] : <<e[1], i>> \in db.audit => <<e[1], i>> \in kept}

-----------------------------------------------------------------------------
(* RebuildReservations *)

LockOf(row) == <<row.account, LockedAsset(Pair[row.symbol], row)>>

(* Mutants of Freed: the stored locks stay; the locks are cleared and not  *)
(* added to what is available.                                             *)
NotFreed(accounts) == accounts

FreedAndLost(accounts) == [a \in Accounts |-> [accounts[a] EXCEPT !.balances =
  [asset \in Assets |-> IF \E o \in OpenRows : LockOf(Rows[o]) = <<a, asset>>
                        THEN [@[asset] EXCEPT !.locked = 0] ELSE @[asset]]]]

(* First every lock an open order could account for is returned ... *)
Freed(accounts) == [a \in Accounts |-> [accounts[a] EXCEPT !.balances =
  [asset \in Assets |->
    IF \E o \in OpenRows : LockOf(Rows[o]) = <<a, asset>>
      THEN [available |-> Total(accounts[a], asset), locked |-> 0]
      ELSE @[asset]]]]

(* Mutant of Wanted: the whole order, whatever is filled. *)
WantedInFull(row) == Needs(row, row.quantity)

Wanted(row) == IF row.reserved > 0 THEN row.reserved ELSE Needs(row, row.remaining)

(* Mutant of Granted: not limited to what is available. *)
GrantedAll(accounts, row) == Wanted(row)

Granted(accounts, row) ==
  Lesser(Wanted(row), accounts[row.account].balances[LockOf(row)[2]].available)

(* ... and then locked again, order by order, as far as it goes. *)
Relocked(state, o) ==
  LET row == state.orders[o]
      amount == Granted(state.accounts, row)
  IN  [accounts |-> [state.accounts EXCEPT ![row.account] = Locking(@, LockOf(row)[2], amount)],
       orders |-> [state.orders EXCEPT ![o].reserved = amount]]

Rebuilt(ids) == FoldLeft(Relocked, [accounts |-> Freed(LoadedAccounts), orders |-> Rows], ids)

-----------------------------------------------------------------------------
(* Stop and start *)

(* What a client could see of memory; versions move at every start. *)
Shown == [balances |-> [a \in Accounts |-> wallet[a].balances],
          books |-> [s \in Symbols |-> Snapshot(orders, queue[s])],
          market |-> market, auditLog |-> auditLog]

(* A crash, a kill, or a start that fails (log.Fatal).  Requests that were *)
(* being served are never answered.                                        *)
Stop ==
  /\ stops < MaxStops
  /\ boot.pc # "down"
  /\ CleanStops => Serving /\ Quiet
  /\ job' = [r \in Requests |->
       IF Busy(r) THEN [Idle EXCEPT !.pc = "failed", !.input = job[r].input] ELSE job[r]]
  /\ boot' = Phase("down")
  /\ stops' = stops + 1
  /\ before' = IF ~Serving THEN before
               ELSE IF Quiet /\ AllSucceeded THEN Shown ELSE None
  /\ UNCHANGED <<memory, book, services>>

(* store.Bootstrap, Restore of every open order, RebuildReservations.      *)
(* Without an open order every account is synced, otherwise only theirs.   *)
Bootstrap ==
  /\ boot.pc = "down"
  /\ \E ids \in SetToSeqs(OpenRows) :
       /\ IsLoadOrder(ids)
       /\ wallet' = Rebuilt(ids).accounts
       /\ orders' = [o \in Orders |-> IF o \in OpenRows THEN Rebuilt(ids).orders[o] ELSE None]
  /\ \E kept \in OldestTrades :
       market' = [s \in Symbols |-> InOrder(tape[s], kept)]
  /\ auditLog' \in OldestEvents
  /\ queue' = [s \in Symbols |-> RestoredBook(Rows, s)]
  /\ seq' = [s \in Symbols |-> RestoredSeq(Rows, s)]
  /\ holder' = [s \in Symbols |-> None]
  /\ boot' = [Phase("rebuild") EXCEPT !.symbols = Symbols,
       !.accounts = IF OpenRows # {} THEN {Rows[o].account : o \in OpenRows}
                    ELSE {a \in Accounts : db.accounts[a].version > 0}]
  /\ UNCHANGED <<tape, services, job, stops, before>>

(* syncAccount: PersistAccount and ReplaceAccount, then the cache.  A      *)
(* version conflict ends the start.                                        *)
SyncAccount(a) ==
  /\ boot.pc = "rebuild"
  /\ a \in boot.accounts
  /\ LET next == [wallet[a] EXCEPT !.version = @ + 1] IN
     IF db.accounts[a].version = wallet[a].version
       THEN /\ db' = [db EXCEPT !.accounts[a] = next]
            /\ wallet' = [wallet EXCEPT ![a] = next]
            /\ boot' = [boot EXCEPT !.pc = "cacheAccount", !.at = a, !.accounts = @ \ {a}]
       ELSE boot' = Phase("down") /\ UNCHANGED <<db, wallet>>
  /\ UNCHANGED <<orders, market, auditLog, book, cache, bus, job, stops, before>>

BootCache ==
  /\ boot.pc = "cacheAccount"
  /\ \/ Keep([cache EXCEPT !.accounts[boot.at] = wallet[boot.at]])
     \/ "cache" \in Faults /\ UNCHANGED cache
  /\ boot' = [boot EXCEPT !.pc = "rebuild", !.at = None]
  /\ UNCHANGED <<memory, book, db, bus, job, stops, before>>

WarmBook(s) ==
  /\ boot.pc = "rebuild"
  /\ boot.accounts = {}
  /\ s \in boot.symbols
  /\ Keep([cache EXCEPT !.books[s] = Snapshot(orders, queue[s])])
  /\ boot' = [boot EXCEPT !.pc = "warmTrades", !.at = s, !.symbols = @ \ {s}]
  /\ UNCHANGED <<memory, book, db, bus, job, stops, before>>

(* Mutant of WarmTrades: the trade list of the last process is left. *)
TradesLeft ==
  /\ boot.pc = "warmTrades"
  /\ boot' = [boot EXCEPT !.pc = "rebuild", !.at = None]
  /\ UNCHANGED <<vars, stops, before>>

WarmTrades ==
  /\ boot.pc = "warmTrades"
  /\ Keep([cache EXCEPT !.trades[boot.at] = market[boot.at]])
  /\ boot' = [boot EXCEPT !.pc = "rebuild", !.at = None]
  /\ UNCHANGED <<memory, book, db, bus, job, stops, before>>

(* http.ListenAndServe *)
Listen ==
  /\ Started
  /\ boot' = Phase("serving")
  /\ before' = None
  /\ UNCHANGED <<vars, stops>>

Start ==
  \/ Bootstrap
  \/ \E a \in Accounts : SyncAccount(a)
  \/ BootCache
  \/ \E s \in Symbols : WarmBook(s)
  \/ WarmTrades
  \/ Listen

RecoveryInit ==
  /\ Init
  /\ boot = Phase("serving")
  /\ stops = 0
  /\ before = None

RecoveryNext ==
  \/ Serving /\ Next /\ UNCHANGED recoveryVars
  \/ Stop
  \/ Start

RecoverySpec == RecoveryInit /\ [][RecoveryNext]_allVars
=============================================================================
