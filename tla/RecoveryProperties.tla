------------------------- MODULE RecoveryProperties -------------------------
(***************************************************************************)
(* What a restart must restore, after a clean stop and after a crash       *)
(* between any two steps of a request or of an earlier start.              *)
(***************************************************************************)
EXTENDS Recovery

(* Stopped between requests that have all succeeded, the exchange comes    *)
(* back as it was, even when the start is interrupted and repeated: the    *)
(* same balances and locks, books, trades and audit log                    *)
(* (architecture.md:42).                                                   *)
RestartIsTransparent == Started /\ before # None => Shown = before

(* A start, however the previous process ended, serves what the store says *)
(* and shows what it serves: the wallet is the stored one, and Redis has   *)
(* the books and the trades of memory.                                     *)
StartsFromStore ==
  Started =>
    /\ wallet = db.accounts
    /\ \A s \in Symbols :
         /\ cache.books[s] = Snapshot(orders, queue[s])
         /\ cache.trades[s] = market[s]

(* The locks are those of the open orders again: of every account and      *)
(* asset with an open order, the locked balance is the sum of what these   *)
(* orders say they reserve, and an order has less than its row asks for    *)
(* only if the account has nothing left to lock (service.go:173).          *)
LocksAreRebuilt ==
  Started =>
    \A lock \in {LockOf(orders[o]) : o \in OpenRows} :
      LET mine == {o \in OpenRows : LockOf(orders[o]) = lock}
          balance == wallet[lock[1]].balances[lock[2]]
      IN  /\ balance.locked = SumFunctionOnSet([o \in mine |-> orders[o].reserved], mine)
          /\ balance.available > 0 => \A o \in mine : orders[o].reserved = Wanted(db.orders[o])

(* A start moves funds between locked and available and never creates or   *)
(* loses any, not even when it is itself interrupted and repeated.         *)
RecoveryMovesNoFunds ==
  [][~Serving => \A a \in Accounts, asset \in Assets :
       Total(db'.accounts[a], asset) = Total(db.accounts[a], asset)]_allVars

(* An order is stored before its trades: whatever the crash, the trades in *)
(* the store never claim more of an order than its row has given up, so    *)
(* that a restored order cannot be traded twice in the trade history.      *)
StoredTradesWithinRows ==
  \A o \in Orders : db.orders[o] # None =>
    MapThenSumSet(LAMBDA t : t.quantity, {t \in db.trades : o \in {t.maker, t.taker}})
      <= db.orders[o].quantity - db.orders[o].remaining

(* What a client was told happened survives any crash: the trades and the  *)
(* audit events of an answered request are in the store and on the topics. *)
AnsweredIsDurable ==
  \A r \in Requests : At(r, "ok") =>
    LET mine == {t \in UNION {Range(tape[s]) : s \in Symbols} : t.taker = r} IN
    /\ mine \subseteq db.trades \cap bus.trades
    /\ \A i \in 0..Cardinality(mine) : <<r, i>> \in db.audit \cap bus.audit

(* An order that was once accepted is in the restored book exactly while   *)
(* something of it remains, and has lost nothing but what was matched.     *)
WasAccepted(o) ==
  IF o \in Requests THEN At(o, "ok") /\ job[o].input.kind = "order" ELSE TRUE

Matched(o) ==
  MapThenSumSet(LAMBDA leg : tape[leg[1]][leg[2]].quantity,
                {leg \in Legs : o = tape[leg[1]][leg[2]][leg[3]]})

OpenOrdersReturn ==
  Started => \A o \in Orders : WasAccepted(o) =>
    /\ db.orders[o] # None
    /\ InBook(o) <=> db.orders[o].remaining > 0
    /\ db.orders[o].remaining >= db.orders[o].quantity - Matched(o)

(* Time priority survives restarts: of two orders at the same price the    *)
(* one that was ahead stays ahead, and an order accepted after a restart   *)
(* goes behind those that were accepted before it (book.go:39).            *)
Ahead(q, o, p) == \E i, j \in DOMAIN q : i < j /\ q[i] = o /\ q[j] = p

TimePriorityKept ==
  [][\A s \in Symbols, side \in Sides :
       LET old == queue[s][side]  new == queue'[s][side] IN
       \A o \in Range(old) \cap Range(new) : \A p \in Range(new) \ {o} :
         /\ orders'[o].price = orders'[p].price
         /\ Ahead(old, o, p) \/ (Serving /\ p \notin Range(old))
         => Ahead(new, o, p)]_allVars

(* No account row can keep NewExchange from finishing (exchange.go:433):   *)
(* whatever an interrupted start has already written, the next one loads   *)
(* the versions it will be compared with, and its store calls succeed.     *)
StartsMeetNoConflict ==
  boot.pc = "rebuild" =>
    \A a \in boot.accounts : db.accounts[a].version = wallet[a].version

-----------------------------------------------------------------------------
(* What the documents say of a restart and a crash or a race breaks *)

(* restart-check.sh:31, "maker locked balance should match open sell       *)
(* orders".                                                                *)
LocksMatchRestoredBook == Started => LocksAreNeeded

(* restart-check.sh:32, "orderbook and account locks should be             *)
(* consistent": no restored order is worth more than it has reserved.      *)
RestoredOrdersAreFunded ==
  Started => \A o \in OpenRows : orders[o].reserved >= Needs(orders[o], orders[o].remaining)

(* architecture.md:42, "restart recovery for open orders and balances":    *)
(* without deposits the accounts together hold what they held at first.    *)
UnitsSurviveRestart ==
  Started => \A asset \in Assets :
    MapThenSumSet(LAMBDA a : Total(wallet[a], asset), Accounts) =
      MapThenSumSet(LAMBDA a : Total(InitialAccounts[a], asset), Accounts)

(* local-stack.md:54, "open and partially filled orders": nothing that is  *)
(* filled comes back, when every request has succeeded.                    *)
NoFilledOrderRestored ==
  Started /\ AllSucceeded => \A o \in OpenRows : orders[o].remaining > 0

(* local-stack.md:55, "recent trades": a trade that is loaded is not older *)
(* than one that is left out.                                              *)
RecentTradesLoaded ==
  Started => \A s \in Symbols : \A i, j \in DOMAIN tape[s] :
    i < j /\ tape[s][i] \in Range(market[s]) => tape[s][j] \in Range(market[s])

(* local-stack.md:60, "read-through / write-through cache": a started      *)
(* exchange does not serve an account older than the stored one.           *)
CacheFreshAfterStart ==
  Started => \A a \in Accounts :
    cache.accounts[a] # None => cache.accounts[a] = db.accounts[a]

=============================================================================
