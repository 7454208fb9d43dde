------------------------ MODULE ExchangeProperties ------------------------
(***************************************************************************)
(* What the exchange has to get right: the agreement of wallet, books,     *)
(* store, cache and event bus that scripts/full-acceptance.sh checks on a  *)
(* running stack, and what must hold while requests interleave and calls   *)
(* fail.                                                                   *)
(***************************************************************************)
EXTENDS Exchange

TypeOK ==
  /\ wallet \in [Accounts -> Account]
  /\ orders \in [Orders -> Order \cup {None}]
  /\ market \in [Symbols -> Seq(Trade)]
  /\ auditLog \subseteq Requests \X Nat
  /\ queue \in [Symbols -> [Sides -> Seq(Orders)]]
  /\ seq \in [Symbols -> Nat]
  /\ holder \in [Symbols -> Requests \cup {None}]
  /\ tape \in [Symbols -> Seq(Trade)]
  /\ db.accounts \in [Accounts -> Account]
  /\ db.orders \in [Orders -> Order \cup {None}]
  /\ db.trades \subseteq Trade
  /\ db.audit \subseteq Requests \X Nat
  /\ cache.accounts \in [Accounts -> Account \cup {None}]
  /\ cache.books \in [Symbols -> [Sides -> Seq(Order)] \cup {None}]
  /\ cache.trades \in [Symbols -> Seq(Trade) \cup {None}]
  /\ bus.orders \in [Orders -> Order \cup {None}]
  /\ bus.trades \subseteq Trade
  /\ bus.audit \subseteq Requests \X Nat
  /\ \A r \in Requests : job[r].fills \in Seq(Trade) /\ job[r].pending \subseteq Orders

-----------------------------------------------------------------------------
(* Vocabulary *)

(* Every request so far has been answered. *)
Quiet == \A r \in Requests : ~Busy(r)

InBook(o) == \E s \in Symbols, side \in Sides : o \in Range(queue[s][side])

(* What the open orders of an account still need of an asset. *)
LockNeeded(a, asset) ==
  LET open == {o \in Orders : /\ InBook(o)
                                /\ orders[o].account = a
                                /\ LockedAsset(Pair[orders[o].symbol], orders[o]) = asset}
  IN  SumFunctionOnSet([o \in open |-> Needs(orders[o], orders[o].remaining)], open)

Deposited(a, asset) ==
  LET credited == {r \in Requests : /\ <<r, 0>> \in auditLog
                                    /\ job[r].input.kind = "deposit"
                                    /\ job[r].input.account = a
                                    /\ job[r].input.asset = asset}
  IN  SumFunctionOnSet([r \in credited |-> job[r].input.amount], credited)

(* What order o gained of an asset by a fill; negative is what it paid. *)
Gain(o, fill, asset) ==
  LET pair == Pair[orders[o].symbol]
      units == IF asset = pair.base THEN fill.quantity
               ELSE IF asset = pair.quote THEN 0 - fill.price * fill.quantity ELSE 0
  IN  IF orders[o].side = "buy" THEN units ELSE 0 - units

(* Both legs of every fill on every tape. *)
Legs == UNION {{s} \X (DOMAIN tape[s]) \X {"maker", "taker"} : s \in Symbols}

Traded(a, asset) ==
  LET fill(leg) == tape[leg[1]][leg[2]]
      owner(leg) == IF leg[3] = "maker" THEN fill(leg).maker ELSE fill(leg).taker
      mine == {leg \in Legs : orders[owner(leg)].account = a}
  IN  SumFunctionOnSet([leg \in mine |-> Gain(owner(leg), fill(leg), asset)], mine)

Total(account, asset) == account.balances[asset].available + account.balances[asset].locked

-----------------------------------------------------------------------------
(* Between requests *)

(* The locked balances are exactly what the open orders still need, and    *)
(* every order's own ReservedAmount says so too (full-acceptance.sh:165).  *)
LocksAreNeeded ==
  \A a \in Accounts, asset \in Assets :
    wallet[a].balances[asset].locked = LockNeeded(a, asset)

LocksMatchBook ==
  Quiet =>
    /\ LocksAreNeeded
    /\ \A o \in Orders :
         InBook(o) => orders[o].reserved = Needs(orders[o], orders[o].remaining)

(* Whatever failed, no open order is short of its reservation: the next    *)
(* taker can be settled against it.                                        *)
LocksCoverBook ==
  Quiet => \A a \in Accounts, asset \in Assets :
             wallet[a].balances[asset].locked >= LockNeeded(a, asset)

(* Every unit is accounted for: an account holds, available and locked     *)
(* together, what it started with, what the audit log says was deposited,  *)
(* and what the matches of its orders gained and cost.  A fill settled     *)
(* twice, at the wrong price or for one side only breaks it.               *)
BalancesExplained ==
  Quiet => \A a \in Accounts, asset \in Assets :
             Total(wallet[a], asset) =
               Total(InitialAccounts[a], asset) + Deposited(a, asset) + Traded(a, asset)

(* The store holds what memory holds, so that a restart loses nothing: the *)
(* accounts, every accepted order in its latest state, every trade and     *)
(* every audit event (full-acceptance.sh:189-202 and 218-231).             *)
StoreAgrees ==
  Quiet =>
    /\ db.accounts = wallet
    /\ \A o \in Orders :
         db.orders[o] = IF orders[o] # None /\ orders[o].sequence > 0 THEN orders[o] ELSE None
    /\ \A o \in Orders : InBook(o) => orders[o].status = Status(orders[o])
    /\ market = tape
    /\ db.trades = UNION {Range(market[s]) : s \in Symbols}
    /\ db.audit = auditLog

(* So do the readers' copies: Redis, and for every order the last message  *)
(* of its topic (full-acceptance.sh:203-216).                              *)
ReadersAgree ==
  Quiet =>
    /\ \A a \in Accounts : cache.accounts[a] = IF wallet[a].version = 0 THEN None ELSE wallet[a]
    /\ \A s \in Symbols : cache.books[s] = Snapshot(orders, queue[s]) /\ cache.trades[s] = market[s]
    /\ \A o \in Orders : db.orders[o] # None =>
         IF bus.orders[o] = None THEN o \notin Requests /\ orders[o] = OpenOrders[o]
                                 ELSE bus.orders[o] = orders[o]
    /\ bus.trades = db.trades
    /\ bus.audit = db.audit

-----------------------------------------------------------------------------
(* While requests interleave *)

(* No failing call drives a balance below zero, in memory or in the store, *)
(* while requests come one at a time.  (In parallel they do: the release   *)
(* of an order reads a reservation another request can store meanwhile,    *)
(* wallet/service.go:128-132 and 150.)                                     *)
BalancesNeverNegative ==
  \A a \in Accounts, asset \in Assets :
    \A b \in {wallet[a].balances[asset], db.accounts[a].balances[asset]} :
      b.available >= 0 /\ b.locked >= 0

(* The version column lets one request at a time carry an account from the *)
(* store to memory: memory is never ahead of the row, is behind it only by *)
(* the copy being carried, and no second copy is under way.  A stale copy  *)
(* can therefore never move the wallet's version backwards.                *)
Carrying(r, a) == At(r, "replace") /\ job[r].clone.id = a

OneWriterAtATime ==
  \A a \in Accounts :
    /\ wallet[a].version <= db.accounts[a].version
    /\ "ack" \notin Faults /\ wallet[a].version < db.accounts[a].version
         => \E r \in Requests : Carrying(r, a)
    /\ \A r \in Requests : Carrying(r, a) =>
         /\ job[r].clone = db.accounts[a]
         /\ wallet[a].version + 1 = db.accounts[a].version
         /\ \A q \in Requests : Carrying(q, a) => q = r

(* The order of PlaceOrder's calls keeps the store ahead of what it        *)
(* publishes: a cached account is no newer than its row; a trade is stored *)
(* before it is recorded, cached or put on its topic, an audit event and   *)
(* an order before they are put on theirs; both orders of a stored trade   *)
(* are stored.  (It says nothing of cached order books, which can show an  *)
(* order without a row, nor of the audit log in memory, which GET /audit   *)
(* shows before the event is stored.)                                      *)
PublishedIsStored ==
  /\ \A a \in Accounts : cache.accounts[a] # None =>
       cache.accounts[a].version <= db.accounts[a].version
  /\ bus.trades \cup UNION {Range(market[s]) : s \in Symbols} \subseteq db.trades
  /\ \A s \in Symbols : cache.trades[s] # None => Range(cache.trades[s]) \subseteq db.trades
  /\ bus.audit \subseteq db.audit
  /\ db.audit \subseteq auditLog
  /\ \A o \in Orders : bus.orders[o] # None => db.orders[o] # None
  /\ \A t \in db.trades : db.orders[t.maker] # None /\ db.orders[t.taker] # None

(* A commit whose reply was lost leaves the row one version ahead with     *)
(* nobody to carry it back: from then on neither copy of the account's     *)
(* versioned state moves again.                                            *)
Behind(a) ==
  /\ wallet[a].version < db.accounts[a].version
  /\ \A r \in Requests : ~Carrying(r, a)

LostReplyFreezesAccount ==
  [][\A a \in Accounts : Behind(a) =>
       db'.accounts[a] = db.accounts[a] /\ wallet'[a].version = wallet[a].version]_vars

(* Every accepted request is answered: no mutex is left locked and no      *)
(* settlement loop runs forever.                                           *)
EveryRequestAnswered ==
  \A r \in Requests : Busy(r) ~> job[r].pc \in {"ok", "failed"}

-----------------------------------------------------------------------------
(* What the documents say and concurrent requests break *)

(* architecture.md:295, "pre-reserved funds before entering matching": a   *)
(* fill that is about to be settled finds the funds its order reserved, so *)
(* that Settle's underflow check (wallet/service.go:87 and 99) never fires. *)
MatchedFundsAreReserved ==
  \A r \in Requests : At(r, "settle") =>
    CanSettle(wallet[orders[Subject(r)].account], MyPair(r), orders[Subject(r)], Fill(r).quantity)

(* local-stack.md:60, "write-through cache": between requests the cached   *)
(* account is the stored one.                                              *)
CacheIsWrittenThrough ==
  Quiet => \A a \in Accounts :
             cache.accounts[a] # None => cache.accounts[a] = db.accounts[a]

(* full-acceptance.sh:165-185 compares every account's locked balances     *)
(* with its open orders and fails with "locked balance mismatch"; here     *)
(* after requests that have all succeeded.                                 *)
AllSucceeded == \A r \in Requests : job[r].pc # "failed"

OpenOrdersAreReserved == Quiet /\ AllSucceeded => LocksAreNeeded

(* local-stack.md:60, "write-through cache" of order book snapshots: an    *)
(* order that a cached book shows is one the store has.                    *)
CachedBooksAreStored ==
  \A s \in Symbols : cache.books[s] # None =>
    \A side \in Sides : \A i \in DOMAIN cache.books[s][side] :
      \E o \in Orders :
        /\ db.orders[o] # None
        /\ db.orders[o].symbol = s
        /\ db.orders[o].sequence = cache.books[s][side][i].sequence

(* full-acceptance.sh:227-229: the row of an order and the last message    *)
(* about it agree, again when all requests have succeeded.                 *)
OrderRowsMatchTopic ==
  Quiet /\ AllSucceeded =>
    \A o \in Orders : bus.orders[o] # None => db.orders[o].remaining = bus.orders[o].remaining

=============================================================================
