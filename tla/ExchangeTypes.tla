--------------------------- MODULE ExchangeTypes ---------------------------
(***************************************************************************)
(* What the other proofs about Exchange start from.  Type correctness:     *)
(* TypeInvariant says, label by label, what a goroutine's local variables  *)
(* are.  Balances are integers when requests overlap and naturals when     *)
(* they take turns, which Turns is needed for: then no other request can   *)
(* change ReservedAmount while ReleaseRemaining reads it again and again.  *)
(* Then account versions: with a store wired, the version column admits    *)
(* one writer of an account at a time, and a commit whose reply was lost   *)
(* freezes the account.                                                    *)
(***************************************************************************)
EXTENDS ExchangeProperties, ModelLemmas

(* Where a goroutine can be: in syncAccount, in PlaceOrder before Submit   *)
(* and after it, in recordAudit.                                           *)
Syncing == {"persist", "replace", "cacheAccount"}

Unsubmitted == {"reserve", "clone", "submit"}

Auditing == {"audit", "saveAudit", "publishAudit"}

InFill == {"settle", "loadReserved", "storeReserved", "checkReserved", "clampReserved",
           "releaseMaker", "publishTrade"}

WithRow == {"saveOrder", "marshalOrder", "publishOrder"}

Submitted == InFill \cup WithRow \cup
  {"match", "loadStatus", "storeStatus", "collect", "releaseTaker",
   "clip", "subtract", "add", "clear", "accounts", "orders",
   "saveTrades", "record", "snapshot", "cacheBook", "copyTrades", "cacheTrades"}

Labels == {"idle", "ok", "failed"} \cup Syncing \cup Unsubmitted \cup Auditing \cup Submitted

(* Requests take turns, and nobody starts in debt: the circumstances in    *)
(* which no balance is ever negative.                                      *)
InCredit ==
  /\ \A a \in Accounts, asset \in Assets :
       /\ InitialAccounts[a].balances[asset].available >= 0
       /\ InitialAccounts[a].balances[asset].locked >= 0
  /\ \A o \in DOMAIN OpenOrders : OpenOrders[o].reserved >= 0

Serial == IsFiniteSet(Requests) /\ MaxInFlight = 1 /\ InCredit

Amounts == IF Serial THEN Nat ELSE Int

(* An account, which nobody has overdrawn if requests take turns. *)
Solvent == [id : Accounts, version : Nat,
            balances : [Assets -> [available : Amounts, locked : Amounts]]]

Statuses == {"open", "partially_filled", "filled"}

Row == [id : Orders, order : Order]

Book == [Sides -> Seq(Order)]

Database == [accounts : [Accounts -> Solvent], orders : [Orders -> Order \cup {None}],
             trades : SUBSET Trade, audit : SUBSET (Requests \X Nat)]

Redis == [accounts : [Accounts -> Solvent \cup {None}],
          books : [Symbols -> Book \cup {None}], trades : [Symbols -> Seq(Trade) \cup {None}]]

Topics == [orders : [Orders -> Order \cup {None}],
           trades : SUBSET Trade, audit : SUBSET (Requests \X Nat)]

Job == [pc : Labels, input : Inputs \cup {None}, fills : Seq(Trade), at : Nat,
        role : {"maker", "taker"}, clone : Solvent \cup {None},
        accounts : [Accounts -> Solvent \cup {None}], pending : SUBSET Orders,
        seen : Int, status : Statuses \cup {None}, row : Row \cup {None},
        view : Book \cup Seq(Trade) \cup {None}]

Typed ==
  /\ wallet \in [Accounts -> Solvent]
  /\ orders \in [Orders -> Order \cup {None}]
  /\ market \in [Symbols -> Seq(Trade)]
  /\ auditLog \in SUBSET (Requests \X Nat)
  /\ queue \in [Symbols -> [Sides -> Seq(Orders)]]
  /\ seq \in [Symbols -> Nat]
  /\ holder \in [Symbols -> Requests \cup {None}]
  /\ tape \in [Symbols -> Seq(Trade)]
  /\ db \in Database
  /\ cache \in Redis
  /\ bus \in Topics
  /\ job \in [Requests -> Job]

-----------------------------------------------------------------------------
(* What a goroutine knows, by where it is *)

(* Nothing has been matched for this request yet. *)
Fresh(r) == job[r].fills = << >> /\ job[r].at = 0 /\ job[r].role = "taker"

(* A deposit has no order; an order exists from its validation on, and has *)
(* its sequence from Submit on.                                            *)
Phased(r) ==
  /\ At(r, "idle") => job[r] = Idle /\ orders[r] = None
  /\ ~At(r, "idle") => job[r].input \in Inputs
  /\ Busy(r) /\ job[r].input.kind = "deposit" =>
       Fresh(r) /\ job[r].pc \in Syncing \cup Auditing
  /\ Busy(r) /\ job[r].input.kind # "deposit" =>
       /\ orders[r] # None
       /\ job[r].pc \in Unsubmitted => orders[r].sequence = 0
       /\ job[r].pc \in Submitted \cup Auditing => orders[r].sequence > 0
       /\ orders[r].sequence = 0 => Fresh(r)

(* Which fill a request is at, and in whose turn. *)
Positioned(r) ==
  /\ At(r, "match") => job[r].at = 0 /\ job[r].role = "taker"
  /\ job[r].pc \in InFill => job[r].at \in 1..Len(job[r].fills)
  /\ job[r].pc \in {"loadStatus", "storeStatus", "collect", "clip", "subtract", "add", "clear"} =>
       job[r].role = "taker" \/ job[r].at \in 1..Len(job[r].fills)
  /\ job[r].pc \in {"loadStatus", "storeStatus"} => job[r].at \in 0..Len(job[r].fills)
  /\ At(r, "releaseMaker") => job[r].role = "maker"
  /\ At(r, "releaseTaker") => job[r].role = "taker"
  /\ job[r].pc \in Auditing => job[r].at \in 0..Len(job[r].fills)

(* A fill is at its maker's price, which the taker's order crosses. *)
Priced(r) ==
  \A i \in DOMAIN job[r].fills :
    LET fill == job[r].fills[i] IN
    /\ fill.taker = r
    /\ orders[r] # None
    /\ orders[fill.maker] # None
    /\ fill.price = orders[fill.maker].price
    /\ Crosses(orders, r, fill.maker)

(* What it carries is there when it is needed. *)
Loaded(r) ==
  /\ job[r].pc \in Syncing => job[r].clone \in Solvent
  /\ At(r, "storeStatus") => job[r].status \in Statuses
  /\ job[r].pc \in WithRow => job[r].row \in Row /\ orders[job[r].row.id] # None
  /\ \A o \in job[r].pending : orders[o] # None
  /\ At(r, "cacheBook") => job[r].view \in Book
  /\ At(r, "cacheTrades") => job[r].view \in Seq(Trade)

Local(r) == Phased(r) /\ Positioned(r) /\ Priced(r) /\ Loaded(r)

(* What rests has been submitted, and is not being matched: no order ever  *)
(* trades with itself.                                                     *)
Resting ==
  \A s \in Symbols, side \in Sides : \A o \in Range(queue[s][side]) :
    /\ orders[o] # None
    /\ o \in Requests => orders[o].sequence > 0 /\ ~At(o, "match")

TypeInvariant == Typed /\ Resting /\ \A r \in Requests : Local(r)

(* One goroutine at a time. *)
InTurn == \A q, r \in Requests : Busy(q) /\ Busy(r) => q = r

(* When requests take turns, ReservedAmount is negative only between its   *)
(* store and the store of zero, and a release takes what it gives, and no  *)
(* more than is locked.                                                    *)
LockedBy(r) ==
  LET o == orders[Subject(r)] IN LockedBalance(wallet[o.account], MyPair(r), o)

Turns ==
  /\ InTurn
  /\ \A o \in Orders : orders[o] # None /\ orders[o].reserved < 0 =>
       \E r \in Requests : job[r].pc \in {"checkReserved", "clampReserved"} /\ o = Subject(r)
  /\ \A r \in Requests :
       /\ job[r].pc \in {"subtract", "add"} => orders[Subject(r)].reserved <= LockedBy(r)
       /\ At(r, "add") => job[r].seen = orders[Subject(r)].reserved

-----------------------------------------------------------------------------
(* The wallet's arithmetic keeps an account solvent *)

LEMMA ProductIsNatural ==
  ASSUME NEW k \in Nat, NEW n \in Nat PROVE k * n \in Nat
OBVIOUS

LEMMA ZeroIsInteger == 0 \in Int
OBVIOUS

LEMMA ProductIsMonotone ==
  ASSUME NEW k \in Nat, NEW m \in Nat, NEW n \in Nat, m <= k
  PROVE  m * n <= k * n
OBVIOUS

LEMMA NeedsIsNatural ==
  ASSUME NEW order \in Order, NEW n \in Nat PROVE Needs(order, n) \in Nat
<1>1. order.price \in Nat  BY DEF Order
<1>2. order.price * n \in Nat  BY <1>1, ProductIsNatural
<1> QED  BY <1>2 DEF Needs

LEMMA LockedAssetIsAsset ==
  ASSUME NEW s \in Symbols, NEW order
  PROVE  LockedAsset(Pair[s], order) \in Assets
BY ExchangeAssumption DEF LockedAsset

LEMMA AmountsClosed ==
  /\ Nat \subseteq Amounts /\ Amounts \subseteq Int /\ (Serial => Amounts = Nat)
  /\ \A m \in Amounts, n \in Nat : m + n \in Amounts
BY DEF Amounts

(* Setting one of the two amounts of a balance. *)
LEMMA AvailableSet ==
  ASSUME NEW account \in Solvent, NEW asset \in Assets, NEW v \in Amounts
  PROVE  LET next == [account EXCEPT !.balances[asset].available = v] IN
         /\ next \in Solvent
         /\ \A x \in Assets :
              /\ next.balances[x].available = IF x = asset THEN v ELSE account.balances[x].available
              /\ next.balances[x].locked = account.balances[x].locked
BY DEF Solvent

LEMMA LockedSet ==
  ASSUME NEW account \in Solvent, NEW asset \in Assets, NEW v \in Amounts
  PROVE  LET next == [account EXCEPT !.balances[asset].locked = v] IN
         /\ next \in Solvent
         /\ \A x \in Assets :
              /\ next.balances[x].locked = IF x = asset THEN v ELSE account.balances[x].locked
              /\ next.balances[x].available = account.balances[x].available
BY DEF Solvent

LEMMA BalanceIsAmount ==
  ASSUME NEW account \in Solvent, NEW asset \in Assets
  PROVE  /\ account.balances[asset].available \in Amounts
         /\ account.balances[asset].locked \in Amounts
         /\ account.balances[asset].available \in Int /\ account.balances[asset].locked \in Int
BY AmountsClosed DEF Solvent

LEMMA BalanceIsNatural ==
  ASSUME Serial, NEW account \in Solvent, NEW asset \in Assets
  PROVE  account.balances[asset].available \in Nat /\ account.balances[asset].locked \in Nat
BY BalanceIsAmount, AmountsClosed

LEMMA CreditingKeepsSolvent ==
  ASSUME NEW account \in Solvent, NEW asset \in Assets, NEW amount \in Nat
  PROVE  Crediting(account, asset, amount) \in Solvent
<1>1. account.balances[asset].available + amount \in Amounts  BY BalanceIsAmount, AmountsClosed
<1> QED  BY <1>1, AvailableSet DEF Crediting

LEMMA LockingKeepsSolvent ==
  ASSUME NEW account \in Solvent, NEW asset \in Assets, NEW amount,
         account.balances[asset].available - amount \in Amounts,
         account.balances[asset].locked + amount \in Amounts
  PROVE  Locking(account, asset, amount) \in Solvent
<1> DEFINE left == account.balances[asset].available - amount
           mid == [account EXCEPT !.balances[asset].available = left]
           kept == mid.balances[asset].locked + amount
<1>1. mid \in Solvent /\ mid.balances[asset].locked = account.balances[asset].locked
  BY AvailableSet
<1>2. kept \in Amounts  BY <1>1
<1>3. [mid EXCEPT !.balances[asset].locked = kept] \in Solvent
  <2> HIDE DEF mid, kept
  <2> QED  BY <1>1, <1>2, LockedSet
<1>4. Locking(account, asset, amount) = [mid EXCEPT !.balances[asset].locked = kept]
  BY DEF Locking
<1> QED  BY <1>3, <1>4

LEMMA ReservedKeepsSolvent ==
  ASSUME NEW account \in Solvent, NEW s \in Symbols, NEW order \in Order,
         CanReserve(account, Pair[s], order)
  PROVE  Reserved(account, Pair[s], order) \in Solvent
<1> DEFINE asset == LockedAsset(Pair[s], order)
           amount == Needs(order, order.quantity)
<1>1. amount \in Nat  BY NeedsIsNatural DEF Order
<1>2. asset \in Assets  BY LockedAssetIsAsset
<1> HIDE DEF asset, amount
<1>3. account.balances[asset].available >= amount  BY DEF CanReserve, asset, amount
<1>4. account.balances[asset].available - amount \in Nat  BY <1>1, <1>2, <1>3, BalanceIsAmount
<1>5. account.balances[asset].locked + amount \in Amounts
  BY <1>1, <1>2, BalanceIsAmount, AmountsClosed
<1> QED  BY <1>2, <1>4, <1>5, AmountsClosed, LockingKeepsSolvent DEF Reserved, asset, amount

LEMMA ReleasedKeepsSolvent ==
  ASSUME NEW account \in Solvent, NEW asset \in Assets, NEW taken \in Int, NEW given \in Int,
         Serial => /\ taken <= account.balances[asset].locked
                   /\ given >= 0
  PROVE  Released(account, asset, taken, given) \in Solvent
<1> DEFINE kept == account.balances[asset].locked - taken
           mid == [account EXCEPT !.balances[asset].locked = kept]
           left == mid.balances[asset].available + given
<1>1. kept \in Amounts  BY BalanceIsAmount DEF Amounts
<1>2. mid \in Solvent /\ mid.balances[asset].available = account.balances[asset].available
  BY <1>1, LockedSet
<1>3. left \in Amounts  BY <1>2, BalanceIsAmount DEF Amounts
<1>4. [mid EXCEPT !.balances[asset].available = left] \in Solvent
  <2> HIDE DEF mid, left
  <2> QED  BY <1>2, <1>3, AvailableSet
<1>5. Released(account, asset, taken, given) = [mid EXCEPT !.balances[asset].available = left]
  BY DEF Released
<1> QED  BY <1>4, <1>5

(* Settle, when a buyer pays no more than the limit its lock was taken at. *)
LEMMA SettledKeepsSolvent ==
  ASSUME NEW account \in Solvent, NEW s \in Symbols, NEW order \in Order,
         NEW price \in Nat, NEW n \in Nat,
         CanSettle(account, Pair[s], order, n),
         order.side = "buy" => price <= order.price
  PROVE  Settled(account, Pair[s], order, price, n) \in Solvent
<1>1. Pair[s].base \in Assets /\ Pair[s].quote \in Assets  BY ExchangeAssumption
<1>2. order.price \in Nat  BY DEF Order
<1> DEFINE limit == order.price * n
           cost == price * n
<1>3. limit \in Nat /\ cost \in Nat  BY <1>2, ProductIsNatural
<1>4. order.side = "buy" => cost <= limit  BY <1>2, ProductIsMonotone
<1>5. CASE order.side = "buy"
  <2>1. account.balances[Pair[s].quote].locked >= limit
    BY <1>5 DEF CanSettle, LockedAsset, Needs
  <2>2. Settled(account, Pair[s], order, price, n) =
          [account EXCEPT !.balances[Pair[s].quote].locked = @ - limit,
                          !.balances[Pair[s].quote].available = @ + (limit - cost),
                          !.balances[Pair[s].base].available = @ + n]
    BY <1>5 DEF Settled
  <2> HIDE DEF limit, cost
  <2> DEFINE paid == [account EXCEPT !.balances[Pair[s].quote].locked = @ - limit]
             refunded == [paid EXCEPT !.balances[Pair[s].quote].available =
                            account.balances[Pair[s].quote].available + (limit - cost)]
  <2>3. paid \in Solvent
    <3>1. account.balances[Pair[s].quote].locked - limit \in Nat
      BY <1>1, <1>3, <2>1, BalanceIsAmount, AmountsClosed
    <3> QED  BY <1>1, <3>1, AmountsClosed, LockedSet
  <2>4. refunded \in Solvent
    <3> HIDE DEF paid
    <3>1. account.balances[Pair[s].quote].available + (limit - cost) \in Amounts
      BY <1>1, <1>3, <1>4, <1>5, BalanceIsAmount, AmountsClosed
    <3> QED  BY <1>1, <2>3, <3>1, AvailableSet
  <2>5. [refunded EXCEPT !.balances[Pair[s].base].available =
           account.balances[Pair[s].base].available + n] \in Solvent
    <3> HIDE DEF refunded
    <3>1. account.balances[Pair[s].base].available + n \in Amounts
      BY <1>1, BalanceIsAmount, AmountsClosed
    <3> QED  BY <1>1, <2>4, <3>1, AvailableSet
  <2> QED  BY <2>2, <2>5
<1>6. CASE order.side # "buy"
  <2>1. account.balances[Pair[s].base].locked >= n
    BY <1>6 DEF CanSettle, LockedAsset, Needs
  <2>2. Settled(account, Pair[s], order, price, n) =
          [account EXCEPT !.balances[Pair[s].base].locked = @ - n,
                          !.balances[Pair[s].quote].available = @ + cost]
    BY <1>6 DEF Settled
  <2> HIDE DEF limit, cost
  <2> DEFINE paid == [account EXCEPT !.balances[Pair[s].base].locked = @ - n]
  <2>3. paid \in Solvent
    <3>1. account.balances[Pair[s].base].locked - n \in Nat  BY <1>1, <2>1, BalanceIsAmount, AmountsClosed
    <3> QED  BY <1>1, <3>1, AmountsClosed, LockedSet
  <2>4. [paid EXCEPT !.balances[Pair[s].quote].available =
           account.balances[Pair[s].quote].available + cost] \in Solvent
    <3> HIDE DEF paid
    <3>1. account.balances[Pair[s].quote].available + cost \in Amounts
      BY <1>1, <1>3, BalanceIsAmount, AmountsClosed
    <3> QED  BY <1>1, <2>3, <3>1, AvailableSet
  <2> QED  BY <2>2, <2>4
<1> QED  BY <1>5, <1>6

-----------------------------------------------------------------------------
(* The restored books *)

LEMMA RestoredBookTyped ==
  ASSUME NEW rows, IsFiniteSet(DOMAIN rows), rows \in [DOMAIN rows -> Order],
         DOMAIN rows \subseteq Orders, NEW s \in Symbols
  PROVE  /\ RestoredBook(rows, s) \in [Sides -> Seq(Orders)]
         /\ \A side \in Sides :
              /\ Range(RestoredBook(rows, s)[side]) \subseteq {o \in DOMAIN rows : rows[o].symbol = s}
              /\ \A o \in DOMAIN rows : rows[o].symbol = s /\ rows[o].side = side =>
                   o \in Range(RestoredBook(rows, s)[side])
<1> SUFFICES ASSUME NEW side \in Sides
             PROVE  /\ RestoredBook(rows, s)[side] \in Seq(Orders)
                    /\ Range(RestoredBook(rows, s)[side])
                         \subseteq {o \in DOMAIN rows : rows[o].symbol = s}
                    /\ \A o \in DOMAIN rows : rows[o].symbol = s /\ rows[o].side = side =>
                         o \in Range(RestoredBook(rows, s)[side])
  BY DEF RestoredBook
<1> DEFINE ids == {o \in DOMAIN rows : rows[o].symbol = s /\ rows[o].side = side}
           R == {pair \in ids \X ids : Before(rows, pair[1], pair[2])}
<1>1. IsFiniteSet(ids)  BY FS_Subset
<1>2. \A o \in ids : rows[o].price \in Nat /\ rows[o].sequence \in Nat /\ rows[o].side = side
  BY DEF Order
<1>3. \A a, b \in ids : <<a, b>> \in R <=> Before(rows, a, b)
  OBVIOUS
<1>4. \A a, b \in ids : Before(rows, a, b) <=>
        \/ IF side = "buy" THEN rows[a].price > rows[b].price ELSE rows[a].price < rows[b].price
        \/ rows[a].price = rows[b].price /\ rows[a].sequence < rows[b].sequence
  BY <1>2 DEF Before, BetterPrice
<1> HIDE DEF ids, R
<1>5. \A a, b, c \in ids : <<a, b>> \in R /\ <<b, c>> \in R => <<a, c>> \in R
  BY <1>2, <1>3, <1>4
<1>6. \A a \in ids : <<a, a>> \notin R
  BY <1>2, <1>3, <1>4
<1>7. PICK q \in SetToSeqs(ids) : \A i, j \in DOMAIN q : i < j => <<q[j], q[i]>> \notin R
  BY <1>1, <1>5, <1>6, SortedEnumeration
<1>8. \A l \in SetToSeqs(ids) : l \in Seq(ids)
  <2>1. Cardinality(ids) \in Nat  BY <1>1, FS_CardinalityType
  <2> QED  BY <2>1 DEF SetToSeqs
<1>9. \A i, j \in DOMAIN q : i < j => ~Before(rows, q[j], q[i])
  <2>1. \A i \in DOMAIN q : q[i] \in ids  BY <1>7, <1>8, ElementOfSeq, LenProperties
  <2> QED  BY <1>3, <1>7, <2>1
<1>10. RestoredBook(rows, s)[side] =
         CHOOSE l \in SetToSeqs(ids) : \A i, j \in DOMAIN l : i < j => ~Before(rows, l[j], l[i])
  BY DEF RestoredBook, ids
<1>11. RestoredBook(rows, s)[side] \in SetToSeqs(ids)
  BY <1>7, <1>9, <1>10
<1>12. RestoredBook(rows, s)[side] \in Seq(ids)
  BY <1>8, <1>11
<1>13. ids \subseteq {o \in DOMAIN rows : rows[o].symbol = s} /\ ids \subseteq DOMAIN rows
  BY DEF ids
<1>14. \A o \in DOMAIN rows : rows[o].symbol = s /\ rows[o].side = side =>
         o \in Range(RestoredBook(rows, s)[side])
  <2>1. \A o \in ids : o \in Range(RestoredBook(rows, s)[side])
    BY <1>1, <1>11, EnumerationIsComplete DEF Range
  <2> QED  BY <2>1 DEF ids
<1> QED
  <2>1. Range(RestoredBook(rows, s)[side]) \subseteq ids  BY <1>12, RangeProperties
  <2>2. RestoredBook(rows, s)[side] \in Seq(Orders)  BY <1>12, <1>13
  <2> QED  BY <1>13, <1>14, <2>1, <2>2

LEMMA RestoredSeqTyped ==
  ASSUME NEW rows, IsFiniteSet(DOMAIN rows), rows \in [DOMAIN rows -> Order], NEW s \in Symbols
  PROVE  RestoredSeq(rows, s) \in Nat
<1> DEFINE chosen == {o \in DOMAIN rows : rows[o].symbol = s}
           numbers == {rows[o].sequence : o \in chosen}
<1>1. IsFiniteSet(chosen)  BY FS_Subset
<1>2. IsFiniteSet(numbers)
  <2> DEFINE f == [o \in DOMAIN rows |-> rows[o].sequence]
  <2>1. numbers = {f[o] : o \in chosen}  OBVIOUS
  <2> HIDE DEF f, chosen
  <2> QED  BY <1>1, <2>1, ImageIsFinite
<1>3. numbers \in SUBSET Nat  BY DEF Order
<1>4. RestoredSeq(rows, s) = IF numbers = {} THEN 0 ELSE Max(numbers)  BY DEF RestoredSeq
<1> HIDE DEF numbers
<1> QED  BY <1>2, <1>3, <1>4, LargestNatural

(* The copies a book's Snapshot returns. *)
LEMMA SnapshotTyped ==
  ASSUME NEW ord, NEW sides \in [Sides -> Seq(Orders)],
         \A side \in Sides : \A o \in Range(sides[side]) : ord[o] \in Order
  PROVE  Snapshot(ord, sides) \in Book
<1> SUFFICES ASSUME NEW side \in Sides
             PROVE  [i \in DOMAIN sides[side] |-> ord[sides[side][i]]] \in Seq(Order)
  BY DEF Snapshot, Book
<1> DEFINE q == sides[side]
<1>1. q \in Seq(Orders)  OBVIOUS
<1>2. \A o \in Range(q) : ord[o] \in Order  OBVIOUS
<1> HIDE DEF q
<1>3. DOMAIN q = 1..Len(q) /\ Len(q) \in Nat  BY <1>1, LenProperties
<1>4. \A i \in 1..Len(q) : ord[q[i]] \in Order  BY <1>2, <1>3 DEF Range
<1>5. [i \in 1..Len(q) |-> ord[q[i]]] \in Seq(Order)  BY <1>3, <1>4
<1> QED  BY <1>3, <1>5 DEF q

LEMMA IdleTyped == Idle \in Job
<1>1. << >> \in Seq(Trade)  OBVIOUS
<1>2. [a \in Accounts |-> None] \in [Accounts -> Solvent \cup {None}]  OBVIOUS
<1>3. "idle" \in Labels /\ "taker" \in {"maker", "taker"} /\ {} \in SUBSET Orders /\ 0 \in Nat
  BY DEF Labels
<1> QED  BY <1>1, <1>2, <1>3 DEF Idle, Job

LEMMA TypeInit == Init => TypeInvariant
<1> SUFFICES ASSUME Init PROVE TypeInvariant
  OBVIOUS
<1> USE DEF Init, NewExchange
<1>1. \A a \in Accounts : InitialAccounts[a] \in Solvent
  <2> SUFFICES ASSUME NEW a \in Accounts PROVE InitialAccounts[a] \in Solvent
    OBVIOUS
  <2> DEFINE account == InitialAccounts[a]
  <2>1. account \in Account  BY ExchangeAssumption
  <2>2. Serial => \A asset \in Assets : /\ account.balances[asset].available >= 0
                                        /\ account.balances[asset].locked >= 0
    BY DEF Serial, InCredit
  <2> HIDE DEF account
  <2>3. account \in Solvent  BY <2>1, <2>2 DEF Account, Amount, Solvent, Amounts
  <2> QED  BY <2>3 DEF account
<1>2. InitialAccounts \in [Accounts -> Solvent]
  BY <1>1, ExchangeAssumption
<1>3. /\ IsFiniteSet(DOMAIN OpenOrders) /\ OpenOrders \in [DOMAIN OpenOrders -> Order]
      /\ DOMAIN OpenOrders \subseteq Orders /\ DOMAIN OpenOrders \cap Requests = {}
  BY ExchangeAssumption DEF Orders
<1>4. orders \in [Orders -> Order \cup {None}]
  BY <1>3 DEF Orders
<1>5. \A o \in DOMAIN OpenOrders : o \notin Requests /\ orders[o] \in Order /\ orders[o] # None
  BY <1>3, ExchangeAssumption
<1>6. \A s \in Symbols :
        /\ queue[s] \in [Sides -> Seq(Orders)]
        /\ \A side \in Sides : Range(queue[s][side]) \subseteq DOMAIN OpenOrders
  BY <1>3, RestoredBookTyped
<1>7. queue \in [Symbols -> [Sides -> Seq(Orders)]]
  BY <1>6
<1>8. seq \in [Symbols -> Nat]
  BY <1>3, RestoredSeqTyped
<1>9. \A s \in Symbols : Snapshot(orders, queue[s]) \in Book
  BY <1>5, <1>6, SnapshotTyped
<1>10. db \in Database
  BY <1>2, <1>4 DEF Database
<1>11. cache \in Redis
  BY <1>2, <1>9 DEF Redis, ColdCache
<1>12. bus \in Topics
  BY DEF Topics
<1>13. Idle \in Job
  BY IdleTyped
<1>14. job \in [Requests -> Job]
  BY <1>13
<1>15. Typed
  BY <1>2, <1>4, <1>7, <1>8, <1>10, <1>11, <1>12, <1>14 DEF Typed
<1>16. Resting
  BY <1>5, <1>6 DEF Resting
<1>17. ASSUME NEW r \in Requests PROVE Local(r)
  <2>1. job[r] = Idle /\ orders[r] = None
    BY DEF Orders
  <2>2. At(r, "idle") /\ ~Busy(r) /\ job[r].pc = "idle"
    BY <2>1 DEF Idle, At, Busy
  <2>3. job[r].fills = << >> /\ job[r].pending = {}
    BY <2>1 DEF Idle
  <2> QED
    BY <2>1, <2>2, <2>3 DEF Local, Phased, Positioned, Priced, Loaded, At, Syncing,
       Unsubmitted, Submitted, Auditing, InFill, WithRow
<1> QED  BY <1>15, <1>16, <1>17 DEF TypeInvariant

-----------------------------------------------------------------------------
(* What any step of a goroutine does to the others *)

(* An order keeps who wants what at which price for ever, and its sequence *)
(* from Submit on; a request creates no order but its own.                 *)
Evolves(r) ==
  \A o \in Orders :
    /\ orders[o] # None =>
         /\ orders'[o] # None
         /\ orders'[o].side = orders[o].side
         /\ orders'[o].price = orders[o].price
         /\ orders'[o].sequence = orders[o].sequence \/ (o = r /\ At(r, "submit"))
    /\ orders[o] = None /\ o # r => orders'[o] = None

LEMMA OthersKeep ==
  ASSUME TypeInvariant, NEW r \in Requests, Evolves(r),
         \A q \in Requests \ {r} : job'[q] = job[q]
  PROVE  \A q \in Requests \ {r} : Local(q)'
<1> TAKE q \in Requests \ {r}
<1>1. Local(q) /\ job'[q] = job[q] /\ q \in Orders /\ q # r
  BY DEF TypeInvariant, Orders
<1>2. /\ orders[q] = None => orders'[q] = None
      /\ orders[q] # None => /\ orders'[q] # None
                            /\ orders'[q].side = orders[q].side
                            /\ orders'[q].price = orders[q].price
                            /\ orders'[q].sequence = orders[q].sequence
  BY <1>1 DEF Evolves
<1>3. \A o \in Orders : orders[o] # None => orders'[o] # None /\ orders'[o].price = orders[o].price
  BY DEF Evolves
<1>4. job[q] \in Job
  BY DEF TypeInvariant, Typed
<1>5. Phased(q)'
  BY <1>1, <1>2 DEF Local, Phased, At, Busy, Fresh
<1>6. Positioned(q)'
  BY <1>1 DEF Local, Positioned, At
<1>7. Priced(q)'
  <2>1. \A i \in DOMAIN job[q].fills : job[q].fills[i].maker \in Orders
    <3>1. job[q].fills \in Seq(Trade)  BY <1>4 DEF Job
    <3>2. \A i \in DOMAIN job[q].fills : job[q].fills[i] \in Trade
      BY <3>1, LenProperties, ElementOfSeq
    <3> QED  BY <3>2 DEF Trade
  <2> QED  BY <1>1, <1>2, <1>3, <2>1 DEF Local, Priced, Crosses
<1>8. Loaded(q)'
  <2>1. job[q].pending \subseteq Orders  BY <1>4 DEF Job
  <2>2. job[q].pc \in WithRow => job[q].row.id \in Orders  BY <1>1 DEF Local, Loaded, Row
  <2> QED  BY <1>1, <1>3, <2>1, <2>2 DEF Local, Loaded, At
<1> QED  BY <1>5, <1>6, <1>7, <1>8 DEF Local

LEMMA JobUpdate ==
  ASSUME NEW r \in Requests, NEW j \in Job, job \in [Requests -> Job],
         job' = [job EXCEPT ![r] = j]
  PROVE  /\ job' \in [Requests -> Job]
         /\ job'[r] = j
         /\ \A q \in Requests \ {r} : job'[q] = job[q]
OBVIOUS

(* Enough for a step outside the order book's critical section. *)
LEMMA StepKeepsTypes ==
  ASSUME TypeInvariant, NEW r \in Requests, Typed', Local(r)', Evolves(r),
         \A q \in Requests \ {r} : job'[q] = job[q],
         queue' = queue, ~At(r, "submit"), job'[r].pc # "match"
  PROVE  TypeInvariant'
<1>1. Resting'
  <2> SUFFICES ASSUME NEW s \in Symbols, NEW side \in Sides, NEW o \in Range(queue[s][side])
               PROVE  /\ orders'[o] # None
                      /\ o \in Requests => orders'[o].sequence > 0 /\ job'[o].pc # "match"
    BY DEF Resting, At
  <2>1. /\ orders[o] # None
        /\ o \in Requests => orders[o].sequence > 0 /\ job[o].pc # "match"
    BY DEF TypeInvariant, Resting, At
  <2>2. o \in Orders
    <3>1. queue[s][side] \in Seq(Orders)  BY DEF TypeInvariant, Typed
    <3> QED  BY <3>1, RangeProperties
  <2> QED  BY <2>1, <2>2 DEF Evolves
<1>2. \A q \in Requests : Local(q)'
  BY OthersKeep
<1> QED  BY <1>1, <1>2 DEF TypeInvariant

(* What is known of the goroutine that makes the step. *)
LEMMA KnownOf ==
  ASSUME TypeInvariant, NEW r \in Requests
  PROVE  /\ job[r] \in Job
         /\ Local(r)
         /\ r \in Orders
         /\ ~At(r, "idle") => job[r].input \in Inputs
         /\ job[r].pc \in Unsubmitted \cup Submitted =>
              job[r].input.kind # "deposit" /\ orders[r] \in Order /\ orders[r] # None
<1>1. job[r] \in Job /\ Local(r) /\ r \in Orders
  BY DEF TypeInvariant, Typed, Orders
<1>2. ~At(r, "idle") => job[r].input \in Inputs
  BY <1>1 DEF Local, Phased
<1>3. ASSUME job[r].pc \in Unsubmitted \cup Submitted
      PROVE  job[r].input.kind # "deposit" /\ orders[r] # None
  <2>1. Busy(r) /\ job[r].pc \notin Syncing \cup Auditing
    BY <1>3 DEF Busy, Unsubmitted, Submitted, InFill, WithRow, Syncing, Auditing
  <2> QED  BY <1>1, <2>1 DEF Local, Phased
<1>4. orders[r] # None => orders[r] \in Order
  BY <1>1 DEF TypeInvariant, Typed
<1> QED  BY <1>1, <1>2, <1>3, <1>4

(* The goroutine of r is where it should be, and not inside Submit. *)
Moves(r) ==
  /\ job' \in [Requests -> Job]
  /\ \A q \in Requests \ {r} : job'[q] = job[q]
  /\ Local(r)'
  /\ job'[r].pc # "match"

LEMMA ReturnLocal ==
  ASSUME TypeInvariant, NEW r \in Requests, NEW answer \in {"ok", "failed"},
         ~At(r, "idle"), Return(r, answer)
  PROVE  Moves(r)
<1> DEFINE j == [Idle EXCEPT !.pc = answer, !.input = job[r].input]
<1>1. job \in [Requests -> Job] /\ job[r].input \in Inputs
  BY KnownOf DEF TypeInvariant, Typed
<1>2. j \in Job
  BY <1>1, IdleTyped DEF Job, Labels
<1>3. job' = [job EXCEPT ![r] = j]
  BY DEF Return
<1>4. j.pc = answer /\ j.input = job[r].input /\ j.fills = << >> /\ j.pending = {}
  BY DEF Idle
<1> HIDE DEF j
<1>5. /\ job' \in [Requests -> Job] /\ job'[r] = j
      /\ \A q \in Requests \ {r} : job'[q] = job[q]
  BY <1>1, <1>2, <1>3, JobUpdate
<1>6. Local(r)'
  BY <1>1, <1>4, <1>5 DEF Local, Phased, Positioned, Priced, Loaded, At, Busy, Fresh,
     Syncing, Unsubmitted, Submitted, Auditing, InFill, WithRow
<1> QED  BY <1>4, <1>5, <1>6 DEF Moves

(* A step that only moves its own goroutine. *)
LEMMA LocalStep ==
  ASSUME TypeInvariant, NEW r \in Requests, UNCHANGED <<memory, book, services>>,
         Moves(r), ~At(r, "submit")
  PROVE  TypeInvariant'
<1>1. Typed'
  BY DEF TypeInvariant, Typed, Moves, memory, book, services
<1>2. Evolves(r)
  BY DEF Evolves, memory
<1>3. queue' = queue
  BY DEF book
<1> QED  BY <1>1, <1>2, <1>3, StepKeepsTypes DEF Moves

LEMMA GetReservedKeepsTypes ==
  ASSUME TypeInvariant, NEW r \in Requests, GetReserved(r) PROVE TypeInvariant'
<1> DEFINE j == [job[r] EXCEPT !.pc = "persist", !.clone = wallet[orders[r].account]]
<1>1. At(r, "clone") /\ UNCHANGED <<memory, book, services>> /\ job' = [job EXCEPT ![r] = j]
  BY DEF GetReserved
<1>2. /\ job[r] \in Job /\ job \in [Requests -> Job] /\ Local(r)
      /\ orders[r] \in Order /\ orders[r] # None
  BY <1>1, KnownOf DEF At, Unsubmitted, TypeInvariant, Typed
<1>3. wallet[orders[r].account] \in Solvent
  BY <1>2 DEF TypeInvariant, Typed, Order
<1>4. j \in Job
  BY ZenonT(40), <1>2, <1>3 DEF Job, Labels, Syncing
<1>5. /\ job' \in [Requests -> Job] /\ job'[r] = j
      /\ \A q \in Requests \ {r} : job'[q] = job[q]
  BY <1>1, <1>2, <1>4, JobUpdate
<1>6. Local(r)'
  <2>1. orders' = orders  BY <1>1 DEF memory
  <2> QED
    BY ZenonT(40), <1>1, <1>2, <1>3, <1>5, <2>1 DEF Job, Local, Phased, Positioned, Priced,
       Loaded, At, Busy, Fresh,
     Syncing, Unsubmitted, Submitted, Auditing, InFill, WithRow, Crosses
<1> QED  BY <1>1, <1>5, <1>6, LocalStep DEF At, Moves

(* The fill a goroutine is at, and the order whose turn it is. *)
LEMMA FillTyped ==
  ASSUME TypeInvariant, NEW r \in Requests, job[r].at \in 1..Len(job[r].fills)
  PROVE  /\ Fill(r) \in Trade
         /\ orders[Fill(r).maker] \in Order /\ orders[Fill(r).maker] # None
         /\ Fill(r).price = orders[Fill(r).maker].price
         /\ Crosses(orders, r, Fill(r).maker)
<1>1. job[r].fills \in Seq(Trade) /\ Local(r)
  BY KnownOf DEF Job
<1>2. job[r].at \in DOMAIN job[r].fills
  BY <1>1, LenProperties
<1>3. Fill(r) \in Trade
  BY <1>1, ElementOfSeq DEF Fill
<1>4. /\ orders[Fill(r).maker] # None
      /\ Fill(r).price = orders[Fill(r).maker].price
      /\ Crosses(orders, r, Fill(r).maker)
  BY <1>1, <1>2 DEF Local, Priced, Fill
<1>5. orders[Fill(r).maker] \in Order
  BY <1>3, <1>4 DEF Trade, TypeInvariant, Typed
<1> QED  BY <1>3, <1>4, <1>5

LEMMA SubjectTyped ==
  ASSUME TypeInvariant, NEW r \in Requests, orders[r] \in Order, orders[r] # None,
         job[r].role = "taker" \/ job[r].at \in 1..Len(job[r].fills)
  PROVE  Subject(r) \in Orders /\ orders[Subject(r)] \in Order /\ orders[Subject(r)] # None
<1>1. CASE job[r].role = "maker"
  BY <1>1, FillTyped DEF Subject, Trade
<1>2. CASE job[r].role # "maker"
  BY <1>2, KnownOf DEF Subject
<1> QED  BY <1>1, <1>2

LEMMA LoadStatusKeepsTypes ==
  ASSUME TypeInvariant, NEW r \in Requests, LoadStatus(r) PROVE TypeInvariant'
<1> DEFINE j == [job[r] EXCEPT !.pc = "storeStatus", !.status = Status(orders[Subject(r)])]
<1>1. At(r, "loadStatus") /\ UNCHANGED <<memory, book, services>> /\ job' = [job EXCEPT ![r] = j]
  BY DEF LoadStatus
<1>2. /\ job[r] \in Job /\ job \in [Requests -> Job] /\ Local(r)
      /\ orders[r] \in Order /\ orders[r] # None
  BY <1>1, KnownOf DEF At, Unsubmitted, Submitted, InFill, WithRow, TypeInvariant, Typed
<1>3. Status(orders[Subject(r)]) \in Statuses
  BY DEF Status, Statuses
<1>4. j \in Job
  BY ZenonT(40), <1>2, <1>3 DEF Job, Labels, Syncing, Submitted, InFill, WithRow
<1>5. /\ job' \in [Requests -> Job] /\ job'[r] = j
      /\ \A q \in Requests \ {r} : job'[q] = job[q]
  BY SMTT(40), <1>1, <1>2, <1>4, JobUpdate
<1>6. Local(r)'
  <2>1. orders' = orders  BY <1>1 DEF memory
  <2> QED
    BY <1>1, <1>2, <1>3, <1>5, <2>1 DEF Job, Local, Phased, Positioned, Priced, Loaded, At, Busy, Fresh,
       Syncing, Unsubmitted, Submitted, Auditing, InFill, WithRow, Crosses
<1> QED  BY <1>1, <1>5, <1>6, LocalStep DEF At, Moves

LEMMA LoadReservedKeepsTypes ==
  ASSUME TypeInvariant, NEW r \in Requests, LoadReserved(r) PROVE TypeInvariant'
<1> DEFINE j == [job[r] EXCEPT !.pc = "storeReserved", !.seen = orders[Subject(r)].reserved]
<1>1. At(r, "loadReserved") /\ UNCHANGED <<memory, book, services>> /\ job' = [job EXCEPT ![r] = j]
  BY DEF LoadReserved
<1>2. /\ job[r] \in Job /\ job \in [Requests -> Job] /\ Local(r)
      /\ orders[r] \in Order /\ orders[r] # None
  BY <1>1, KnownOf DEF At, Unsubmitted, Submitted, InFill, WithRow, TypeInvariant, Typed
<1>3. orders[Subject(r)].reserved \in Int
  <2>1. job[r].at \in 1..Len(job[r].fills)
    BY <1>1, <1>2 DEF At, Local, Positioned, InFill
  <2> QED  BY <1>2, <2>1, SubjectTyped DEF Order
<1>4. j \in Job
  BY ZenonT(40), <1>2, <1>3 DEF Job, Labels, Syncing, Submitted, InFill, WithRow
<1>5. /\ job' \in [Requests -> Job] /\ job'[r] = j
      /\ \A q \in Requests \ {r} : job'[q] = job[q]
  BY <1>1, <1>2, <1>4, JobUpdate
<1>6. Local(r)'
  <2>1. orders' = orders  BY <1>1 DEF memory
  <2> QED
    BY <1>1, <1>2, <1>3, <1>5, <2>1 DEF Job, Local, Phased, Positioned, Priced, Loaded, At, Busy, Fresh,
       Syncing, Unsubmitted, Submitted, Auditing, InFill, WithRow, Crosses
<1> QED  BY <1>1, <1>5, <1>6, LocalStep DEF At, Moves

LEMMA MarshalOrderKeepsTypes ==
  ASSUME TypeInvariant, NEW r \in Requests, MarshalOrder(r) PROVE TypeInvariant'
<1> DEFINE j == [job[r] EXCEPT !.pc = "publishOrder", !.row.order = orders[job[r].row.id]]
<1>1. At(r, "marshalOrder") /\ UNCHANGED <<memory, book, services>> /\ job' = [job EXCEPT ![r] = j]
  BY DEF MarshalOrder
<1>2. /\ job[r] \in Job /\ job \in [Requests -> Job] /\ Local(r)
      /\ orders[r] \in Order /\ orders[r] # None
  BY <1>1, KnownOf DEF At, Unsubmitted, Submitted, InFill, WithRow, TypeInvariant, Typed
<1>3. job[r].row \in Row /\ orders[job[r].row.id] # None /\ orders[job[r].row.id] \in Order
  BY <1>1, <1>2 DEF At, Local, Loaded, WithRow, Row, TypeInvariant, Typed
<1>4. j \in Job
  BY ZenonT(40), <1>2, <1>3 DEF Job, Row, Labels, Syncing, Submitted, InFill, WithRow
<1>5. /\ job' \in [Requests -> Job] /\ job'[r] = j
      /\ \A q \in Requests \ {r} : job'[q] = job[q]
  BY <1>1, <1>2, <1>4, JobUpdate
<1>6. Local(r)'
  <2>1. orders' = orders  BY <1>1 DEF memory
  <2> QED
    BY ZenonT(40), <1>1, <1>2, <1>3, <1>5, <2>1 DEF Job, Local, Phased, Positioned, Priced,
       Loaded, At, Busy, Fresh,
       Syncing, Unsubmitted, Submitted, Auditing, InFill, WithRow, Crosses, Row
<1> QED  BY <1>1, <1>5, <1>6, LocalStep DEF At, Moves

LEMMA CopyTradesKeepsTypes ==
  ASSUME TypeInvariant, NEW r \in Requests, CopyTrades(r) PROVE TypeInvariant'
<1> DEFINE j == [job[r] EXCEPT !.pc = "cacheTrades", !.view = market[orders[r].symbol]]
<1>1. At(r, "copyTrades") /\ UNCHANGED <<memory, book, services>> /\ job' = [job EXCEPT ![r] = j]
  BY DEF CopyTrades
<1>2. /\ job[r] \in Job /\ job \in [Requests -> Job] /\ Local(r)
      /\ orders[r] \in Order /\ orders[r] # None
  BY <1>1, KnownOf DEF At, Unsubmitted, Submitted, InFill, WithRow, TypeInvariant, Typed
<1>3. market[orders[r].symbol] \in Seq(Trade)
  BY <1>2 DEF Order, TypeInvariant, Typed
<1>4. j \in Job
  BY ZenonT(40), <1>2, <1>3 DEF Job, Labels, Syncing, Submitted, InFill, WithRow
<1>5. /\ job' \in [Requests -> Job] /\ job'[r] = j
      /\ \A q \in Requests \ {r} : job'[q] = job[q]
  BY <1>1, <1>2, <1>4, JobUpdate
<1>6. Local(r)'
  <2>1. orders' = orders  BY <1>1 DEF memory
  <2> QED
    BY <1>1, <1>2, <1>3, <1>5, <2>1 DEF Job, Local, Phased, Positioned, Priced, Loaded, At, Busy, Fresh,
       Syncing, Unsubmitted, Submitted, Auditing, InFill, WithRow, Crosses
<1> QED  BY <1>1, <1>5, <1>6, LocalStep DEF At, Moves

LEMMA TakeSnapshotKeepsTypes ==
  ASSUME TypeInvariant, NEW r \in Requests, TakeSnapshot(r) PROVE TypeInvariant'
<1> DEFINE j == [job[r] EXCEPT !.pc = "cacheBook", !.view = Snapshot(orders, queue[orders[r].symbol])]
<1>1. At(r, "snapshot") /\ UNCHANGED <<memory, book, services>> /\ job' = [job EXCEPT ![r] = j]
  BY DEF TakeSnapshot
<1>2. /\ job[r] \in Job /\ job \in [Requests -> Job] /\ Local(r)
      /\ orders[r] \in Order /\ orders[r] # None
  BY <1>1, KnownOf DEF At, Unsubmitted, Submitted, InFill, WithRow, TypeInvariant, Typed
<1>3. Snapshot(orders, queue[orders[r].symbol]) \in Book
  <2>1. orders[r].symbol \in Symbols  BY <1>2 DEF Order
  <2>2. queue[orders[r].symbol] \in [Sides -> Seq(Orders)]  BY <2>1 DEF TypeInvariant, Typed
  <2>3. ASSUME NEW side \in Sides, NEW o \in Range(queue[orders[r].symbol][side])
        PROVE  orders[o] \in Order
    <3>1. o \in Orders  BY <2>2, RangeProperties
    <3> QED  BY <2>1, <3>1 DEF TypeInvariant, Typed, Resting
  <2> QED  BY <2>2, <2>3, SnapshotTyped
<1>4. j \in Job
  BY ZenonT(40), <1>2, <1>3 DEF Job, Labels, Syncing, Submitted, InFill, WithRow
<1>5. /\ job' \in [Requests -> Job] /\ job'[r] = j
      /\ \A q \in Requests \ {r} : job'[q] = job[q]
  BY <1>1, <1>2, <1>4, JobUpdate
<1>6. Local(r)'
  <2>1. orders' = orders  BY <1>1 DEF memory
  <2> QED
    BY ZenonT(40), <1>1, <1>2, <1>3, <1>5, <2>1 DEF Job, Local, Phased, Positioned, Priced,
       Loaded, At, Busy, Fresh,
       Syncing, Unsubmitted, Submitted, Auditing, InFill, WithRow, Crosses
<1> QED  BY <1>1, <1>5, <1>6, LocalStep DEF At, Moves

(* A step that touches neither the orders nor the queues. *)
LEMMA OuterStep ==
  ASSUME TypeInvariant, NEW r \in Requests, Typed', orders' = orders, queue' = queue,
         Moves(r), ~At(r, "submit")
  PROVE  TypeInvariant'
<1>1. Evolves(r)
  BY DEF Evolves
<1> QED  BY <1>1, StepKeepsTypes DEF Moves

(* What Collect adds, and where it goes. *)
LEMMA CollectFacts ==
  ASSUME TypeInvariant, NEW r \in Requests, Collect(r)
  PROVE  LET o == Subject(r)
             a == orders[o].account
             last == job[r].at >= Len(job[r].fills)
         IN /\ At(r, "collect") /\ UNCHANGED <<memory, book, services>>
            /\ o \in Orders /\ orders[o] \in Order /\ orders[o] # None
            /\ a \in Accounts /\ wallet[a] \in Solvent
            /\ job' \in [Requests -> Job]
            /\ \A q \in Requests \ {r} : job'[q] = job[q]
            /\ job'[r].fills = job[r].fills /\ job'[r].input = job[r].input
            /\ job'[r].accounts = [job[r].accounts EXCEPT ![a] = wallet[a]]
            /\ job'[r].pending = job[r].pending \cup {o}
            /\ job'[r].at = IF job[r].role = "taker" THEN job[r].at + 1 ELSE job[r].at
            /\ job'[r].role = IF job[r].role = "taker" /\ ~last THEN "maker" ELSE "taker"
            /\ job'[r].pc = IF job[r].role = "maker" THEN "collect"
                            ELSE IF ~last THEN "settle"
                            ELSE IF job[r].at = Len(job[r].fills) THEN "releaseTaker"
                            ELSE "accounts"
<1> DEFINE o == Subject(r)
           a == orders[o].account
           last == job[r].at >= Len(job[r].fills)
           j == [job[r] EXCEPT
                   !.accounts[a] = wallet[a],
                   !.pending = @ \cup {o},
                   !.role = IF @ = "taker" /\ ~last THEN "maker" ELSE "taker",
                   !.at = IF job[r].role = "taker" THEN @ + 1 ELSE @,
                   !.pc = IF job[r].role = "maker" THEN "collect"
                          ELSE IF ~last THEN "settle"
                          ELSE IF job[r].at = Len(job[r].fills) THEN "releaseTaker"
                          ELSE "accounts"]
<1>1. At(r, "collect") /\ UNCHANGED <<memory, book, services>> /\ job' = [job EXCEPT ![r] = j]
  BY ZenonT(40) DEF Collect
<1>2. /\ job[r] \in Job /\ job \in [Requests -> Job] /\ Local(r)
      /\ orders[r] \in Order /\ orders[r] # None
  BY <1>1, KnownOf DEF At, Submitted, TypeInvariant, Typed
<1>3. /\ job[r].role \in {"maker", "taker"} /\ job[r].at \in Nat /\ Len(job[r].fills) \in Nat
      /\ job[r].role = "taker" \/ job[r].at \in 1..Len(job[r].fills)
  BY <1>1, <1>2, LenProperties DEF Job, At, Local, Positioned
<1>4. o \in Orders /\ orders[o] \in Order /\ orders[o] # None
  BY <1>2, <1>3, SubjectTyped
<1>5. a \in Accounts /\ wallet[a] \in Solvent
  BY <1>4 DEF Order, TypeInvariant, Typed
<1> HIDE DEF o, a
<1>6. /\ j.fills = job[r].fills /\ j.input = job[r].input
      /\ j.at = IF job[r].role = "taker" THEN job[r].at + 1 ELSE job[r].at
      /\ j.role = IF job[r].role = "taker" /\ ~last THEN "maker" ELSE "taker"
      /\ j.pending = job[r].pending \cup {o}
      /\ j.pc = IF job[r].role = "maker" THEN "collect"
                ELSE IF ~last THEN "settle"
                ELSE IF job[r].at = Len(job[r].fills) THEN "releaseTaker"
                ELSE "accounts"
  BY <1>2 DEF Job
<1>7. j.accounts = [job[r].accounts EXCEPT ![a] = wallet[a]]
  BY <1>2 DEF Job
<1>8. j \in Job
  <2>1. /\ j.clone = job[r].clone /\ j.seen = job[r].seen /\ j.status = job[r].status
        /\ j.row = job[r].row /\ j.view = job[r].view
        /\ j.accounts = [job[r].accounts EXCEPT ![a] = wallet[a]]
        /\ DOMAIN j = DOMAIN job[r]
    BY <1>2 DEF Job
  <2>2. j.accounts \in [Accounts -> Solvent \cup {None}]
    BY <1>2, <1>5, <2>1 DEF Job
  <2>3. j.at \in Nat /\ j.role \in {"maker", "taker"} /\ j.pc \in Labels
    BY <1>3, <1>6 DEF Labels, Submitted, InFill
  <2>4. j.pending \in SUBSET Orders
    BY <1>2, <1>4, <1>6 DEF Job
  <2> QED
    BY <1>2, <1>6, <2>1, <2>2, <2>3, <2>4 DEF Job
<1> HIDE DEF j, last
<1>9. /\ job' \in [Requests -> Job] /\ job'[r] = j
      /\ \A q \in Requests \ {r} : job'[q] = job[q]
  BY <1>1, <1>2, <1>8, JobUpdate
<1> QED  BY <1>1, <1>4, <1>5, <1>6, <1>7, <1>9 DEF o, a, last

LEMMA CollectKeepsTypes ==
  ASSUME TypeInvariant, NEW r \in Requests, Collect(r) PROVE TypeInvariant'
<1> DEFINE o == Subject(r)
           last == job[r].at >= Len(job[r].fills)
<1>1. /\ At(r, "collect") /\ UNCHANGED <<memory, book, services>>
      /\ o \in Orders /\ orders[o] # None
      /\ job' \in [Requests -> Job]
      /\ \A q \in Requests \ {r} : job'[q] = job[q]
      /\ job'[r].fills = job[r].fills /\ job'[r].input = job[r].input
      /\ job'[r].pending = job[r].pending \cup {o}
      /\ job'[r].at = IF job[r].role = "taker" THEN job[r].at + 1 ELSE job[r].at
      /\ job'[r].role = IF job[r].role = "taker" /\ ~last THEN "maker" ELSE "taker"
      /\ job'[r].pc = IF job[r].role = "maker" THEN "collect"
                      ELSE IF ~last THEN "settle"
                      ELSE IF job[r].at = Len(job[r].fills) THEN "releaseTaker"
                      ELSE "accounts"
  BY CollectFacts
<1>2. /\ job[r] \in Job /\ job \in [Requests -> Job] /\ Local(r)
      /\ orders[r] \in Order /\ orders[r] # None
  BY <1>1, KnownOf DEF At, Submitted, TypeInvariant, Typed
<1>3. /\ job[r].role \in {"maker", "taker"} /\ job[r].at \in Nat /\ Len(job[r].fills) \in Nat
      /\ job[r].role = "taker" \/ job[r].at \in 1..Len(job[r].fills)
  BY <1>1, <1>2, LenProperties DEF Job, At, Local, Positioned
<1>4. orders' = orders
  BY <1>1 DEF memory
<1> HIDE DEF o, last
<1>5. Local(r)'
  <2>1. Phased(r)'
    BY <1>1, <1>2, <1>3, <1>4 DEF Local, Phased, At, Busy, Fresh,
       Syncing, Unsubmitted, Submitted, Auditing, InFill, WithRow
  <2>2. Positioned(r)'
    BY <1>1, <1>3 DEF Positioned, At, Auditing, InFill, last
  <2>3. Priced(r)'
    BY <1>1, <1>2, <1>4 DEF Local, Priced, Crosses
  <2>4. Loaded(r)'
    BY <1>1, <1>2, <1>4 DEF Local, Loaded, At, Syncing, WithRow
  <2> QED  BY <2>1, <2>2, <2>3, <2>4 DEF Local
<1>6. job'[r].pc # "match"
  BY <1>1
<1> QED  BY <1>1, <1>5, <1>6, LocalStep DEF At, Moves

LEMMA NextAccountKeepsTypes ==
  ASSUME TypeInvariant, NEW r \in Requests, NextAccount(r) PROVE TypeInvariant'
<1>1. At(r, "accounts") /\ UNCHANGED <<memory, book, services>>
  BY DEF NextAccount
<1>2. /\ job[r] \in Job /\ job \in [Requests -> Job] /\ Local(r)
      /\ orders[r] \in Order /\ orders[r] # None /\ orders' = orders
  BY <1>1, KnownOf DEF At, Submitted, TypeInvariant, Typed, memory
<1>3. CASE Goto(r, "orders")
  <2> DEFINE j == [job[r] EXCEPT !.pc = "orders"]
  <2>1. job' = [job EXCEPT ![r] = j]  BY <1>3 DEF Goto
  <2>2. j \in Job  BY ZenonT(40), <1>2 DEF Job, Labels, Submitted
  <2>3. /\ job' \in [Requests -> Job] /\ job'[r] = j
        /\ \A q \in Requests \ {r} : job'[q] = job[q]
    BY <1>2, <2>1, <2>2, JobUpdate
  <2>4. Local(r)'
    BY <1>1, <1>2, <2>3 DEF Job, Local, Phased, Positioned, Priced, Loaded, At, Busy, Fresh,
       Syncing, Unsubmitted, Submitted, Auditing, InFill, WithRow, Crosses
  <2>5. Moves(r)  BY <1>2, <2>3, <2>4 DEF Job, Moves
  <2> QED  BY <1>1, <2>5, LocalStep DEF At
<1>4. ASSUME NEW a \in Accounts, job[r].accounts[a] # None,
             job' = [job EXCEPT ![r].pc = "persist", ![r].clone = job[r].accounts[a],
                                ![r].accounts[a] = None]
      PROVE  TypeInvariant'
  <2> DEFINE j == [job[r] EXCEPT !.pc = "persist", !.clone = job[r].accounts[a],
                                 !.accounts[a] = None]
  <2>1. job' = [job EXCEPT ![r] = j]  BY <1>4
  <2>2. job[r].accounts[a] \in Solvent  BY <1>2, <1>4 DEF Job
  <2>3. j \in Job  BY <1>2, <2>2 DEF Job, Labels, Syncing
  <2>4. /\ job' \in [Requests -> Job] /\ job'[r] = j
        /\ \A q \in Requests \ {r} : job'[q] = job[q]
    BY <1>2, <2>1, <2>3, JobUpdate
  <2>5. Local(r)'
    BY <1>1, <1>2, <2>2, <2>4 DEF Job, Local, Phased, Positioned, Priced, Loaded, At, Busy, Fresh,
       Syncing, Unsubmitted, Submitted, Auditing, InFill, WithRow, Crosses
  <2>6. Moves(r)  BY <1>2, <2>4, <2>5 DEF Job, Moves
  <2> QED  BY <1>1, <2>6, LocalStep DEF At
<1> QED  BY <1>3, <1>4 DEF NextAccount

LEMMA NextOrderKeepsTypes ==
  ASSUME TypeInvariant, NEW r \in Requests, NextOrder(r) PROVE TypeInvariant'
<1>1. At(r, "orders") /\ UNCHANGED <<memory, book, services>>
  BY DEF NextOrder
<1>2. /\ job[r] \in Job /\ job \in [Requests -> Job] /\ Local(r)
      /\ orders[r] \in Order /\ orders[r] # None /\ orders' = orders
  BY <1>1, KnownOf DEF At, Submitted, TypeInvariant, Typed, memory
<1>3. CASE Goto(r, "saveTrades")
  <2> DEFINE j == [job[r] EXCEPT !.pc = "saveTrades"]
  <2>1. job' = [job EXCEPT ![r] = j]  BY <1>3 DEF Goto
  <2>2. j \in Job  BY ZenonT(40), <1>2 DEF Job, Labels, Submitted
  <2>3. /\ job' \in [Requests -> Job] /\ job'[r] = j
        /\ \A q \in Requests \ {r} : job'[q] = job[q]
    BY <1>2, <2>1, <2>2, JobUpdate
  <2>4. Local(r)'
    BY <1>1, <1>2, <2>3 DEF Job, Local, Phased, Positioned, Priced, Loaded, At, Busy, Fresh,
       Syncing, Unsubmitted, Submitted, Auditing, InFill, WithRow, Crosses
  <2>5. Moves(r)  BY <1>2, <2>3, <2>4 DEF Job, Moves
  <2> QED  BY <1>1, <2>5, LocalStep DEF At
<1>4. ASSUME NEW o \in job[r].pending,
             job' = [job EXCEPT ![r].pc = "saveOrder", ![r].pending = @ \ {o},
                                ![r].row = [id |-> o, order |-> orders[o]]]
      PROVE  TypeInvariant'
  <2> DEFINE j == [job[r] EXCEPT !.pc = "saveOrder", !.pending = @ \ {o},
                                 !.row = [id |-> o, order |-> orders[o]]]
  <2>1. job' = [job EXCEPT ![r] = j]  BY <1>4
  <2>2. o \in Orders /\ orders[o] # None /\ orders[o] \in Order
    BY <1>2, <1>4 DEF Job, Local, Loaded, TypeInvariant, Typed
  <2>3. j \in Job  BY ZenonT(40), <1>2, <2>2 DEF Job, Row, Labels, Submitted, WithRow
  <2>4. /\ job' \in [Requests -> Job] /\ job'[r] = j
        /\ \A q \in Requests \ {r} : job'[q] = job[q]
    BY <1>2, <2>1, <2>3, JobUpdate
  <2>5. Local(r)'
    BY <1>1, <1>2, <2>2, <2>4 DEF Job, Row, Local, Phased, Positioned, Priced, Loaded, At, Busy, Fresh,
       Syncing, Unsubmitted, Submitted, Auditing, InFill, WithRow, Crosses
  <2>6. Moves(r)  BY <1>2, <2>4, <2>5 DEF Job, Moves
  <2> QED  BY <1>1, <2>6, LocalStep DEF At
<1> QED  BY <1>3, <1>4 DEF NextOrder

LEMMA CallFailsKeepsTypes ==
  ASSUME TypeInvariant, NEW r \in Requests, CallFails(r) PROVE TypeInvariant'
<1>1. /\ Return(r, "failed") /\ UNCHANGED <<memory, book, services>>
      /\ ~At(r, "idle") /\ ~At(r, "submit")
  BY DEF CallFails, Fail, At
<1> QED  BY <1>1, ReturnLocal, LocalStep

(* A goroutine that goes on to another label and changes nothing else. *)
LEMMA GotoFacts ==
  ASSUME TypeInvariant, NEW r \in Requests, NEW label \in Labels, Goto(r, label)
  PROVE  /\ job' \in [Requests -> Job]
         /\ job'[r] = [job[r] EXCEPT !.pc = label]
         /\ job'[r].pc = label
         /\ \A q \in Requests \ {r} : job'[q] = job[q]
<1> DEFINE j == [job[r] EXCEPT !.pc = label]
<1>1. job' = [job EXCEPT ![r] = j] /\ job \in [Requests -> Job] /\ job[r] \in Job
  BY KnownOf DEF Goto, TypeInvariant, Typed
<1>2. j \in Job /\ j.pc = label
  BY <1>1 DEF Job
<1> HIDE DEF j
<1>3. job' \in [Requests -> Job] /\ job'[r] = j /\ \A q \in Requests \ {r} : job'[q] = job[q]
  BY <1>1, <1>2, JobUpdate
<1> QED  BY <1>2, <1>3 DEF j

LEMMA ReplaceAccountKeepsTypes ==
  ASSUME TypeInvariant, NEW r \in Requests, ReplaceAccount(r) PROVE TypeInvariant'
<1>1. /\ At(r, "replace") /\ Goto(r, "cacheAccount")
      /\ wallet' = [wallet EXCEPT ![job[r].clone.id] = job[r].clone]
      /\ UNCHANGED <<orders, market, auditLog, book, services>>
  BY DEF ReplaceAccount
<1>2. job[r] \in Job /\ Local(r) /\ job[r].input \in Inputs
  BY <1>1, KnownOf DEF At
<1>3. job[r].clone \in Solvent
  BY <1>1, <1>2 DEF Local, Loaded, At, Syncing
<1>4. Moves(r)
  <2>1. "cacheAccount" \in Labels
    BY DEF Labels, Syncing, Unsubmitted, Submitted, Auditing, InFill, WithRow
  <2>2. /\ job' \in [Requests -> Job] /\ job'[r] = [job[r] EXCEPT !.pc = "cacheAccount"]
       /\ job'[r].pc = "cacheAccount" /\ \A q \in Requests \ {r} : job'[q] = job[q]
    BY <2>1, <1>1, GotoFacts
  <2>3. Local(r)'
    BY <1>1, <1>2, <1>3, <2>2 DEF Job, Local, Phased, Positioned, Priced, Loaded, At, Busy, Fresh,
       Syncing, Unsubmitted, Submitted, Auditing, InFill, WithRow, Crosses
  <2> QED  BY <2>2, <2>3 DEF Moves
<1>5. wallet' \in [Accounts -> Solvent]
  BY <1>1, <1>3 DEF TypeInvariant, Typed, Solvent
<1>6. Typed'
  BY <1>1, <1>4, <1>5 DEF TypeInvariant, Typed, Moves, book, services
<1> QED  BY <1>1, <1>4, <1>6, OuterStep DEF At, book

LEMMA CacheAccountKeepsTypes ==
  ASSUME TypeInvariant, NEW r \in Requests, CacheAccount(r) PROVE TypeInvariant'
<1>1. At(r, "cacheAccount") /\ UNCHANGED <<memory, book, db, bus>> /\ orders' = orders
  BY DEF CacheAccount, memory
<1>2. job[r] \in Job /\ Local(r) /\ job[r].input \in Inputs
  BY <1>1, KnownOf DEF At
<1>3. job[r].clone \in Solvent
  BY <1>1, <1>2 DEF Local, Loaded, At, Syncing
<1>4. cache' \in Redis
  <2>1. [cache EXCEPT !.accounts[job[r].clone.id] = job[r].clone] \in Redis
    BY <1>3 DEF TypeInvariant, Typed, Redis, Solvent
  <2> QED  BY <2>1 DEF CacheAccount, Keep, TypeInvariant, Typed
<1>5. Moves(r)
  <2>1. CASE job[r].input.kind = "deposit"
    <3>0. Goto(r, "audit")  BY <2>1 DEF CacheAccount
    <3>1. "audit" \in Labels
      BY DEF Labels, Syncing, Unsubmitted, Submitted, Auditing, InFill, WithRow
    <3>2. /\ job' \in [Requests -> Job] /\ job'[r] = [job[r] EXCEPT !.pc = "audit"]
         /\ job'[r].pc = "audit" /\ \A q \in Requests \ {r} : job'[q] = job[q]
      BY <3>1, <3>0, GotoFacts
    <3>3. Local(r)'
      BY <1>1, <1>2, <2>1, <3>2 DEF Job, Local, Phased, Positioned, Priced, Loaded, At, Busy, Fresh,
       Syncing, Unsubmitted, Submitted, Auditing, InFill, WithRow, Crosses
    <3> QED  BY <3>2, <3>3 DEF Moves
  <2>2. CASE job[r].input.kind # "deposit" /\ orders[r].sequence = 0
    <3>0. Goto(r, "submit")  BY <2>2 DEF CacheAccount
    <3>1. "submit" \in Labels
      BY DEF Labels, Syncing, Unsubmitted, Submitted, Auditing, InFill, WithRow
    <3>2. /\ job' \in [Requests -> Job] /\ job'[r] = [job[r] EXCEPT !.pc = "submit"]
         /\ job'[r].pc = "submit" /\ \A q \in Requests \ {r} : job'[q] = job[q]
      BY <3>1, <3>0, GotoFacts
    <3>3. Local(r)'
      BY <1>1, <1>2, <2>2, <3>2 DEF Job, Local, Phased, Positioned, Priced, Loaded, At, Busy, Fresh,
       Syncing, Unsubmitted, Submitted, Auditing, InFill, WithRow, Crosses
    <3> QED  BY <3>2, <3>3 DEF Moves
  <2>3. CASE job[r].input.kind # "deposit" /\ orders[r].sequence # 0
    <3>0. Goto(r, "accounts")  BY <2>3 DEF CacheAccount
    <3>4. orders[r] # None  BY <1>1, <1>2, <2>3 DEF At, Local, Phased, Busy
    <3>5. orders[r].sequence \in Nat
      BY <3>4, KnownOf DEF TypeInvariant, Typed, Order
    <3>1. "accounts" \in Labels
      BY DEF Labels, Syncing, Unsubmitted, Submitted, Auditing, InFill, WithRow
    <3>2. /\ job' \in [Requests -> Job] /\ job'[r] = [job[r] EXCEPT !.pc = "accounts"]
         /\ job'[r].pc = "accounts" /\ \A q \in Requests \ {r} : job'[q] = job[q]
      BY <3>1, <3>0, GotoFacts
    <3>3. Local(r)'
      BY <1>1, <1>2, <2>3, <3>4, <3>5, <3>2 DEF Job, Local, Phased, Positioned, Priced, Loaded, At, Busy, Fresh,
       Syncing, Unsubmitted, Submitted, Auditing, InFill, WithRow, Crosses
    <3> QED  BY <3>2, <3>3 DEF Moves
  <2> QED  BY <2>1, <2>2, <2>3
<1>6. Typed'
  BY <1>1, <1>4, <1>5 DEF TypeInvariant, Typed, Moves, memory, book
<1> QED  BY <1>1, <1>5, <1>6, OuterStep DEF At, book

LEMMA PersistAccountKeepsTypes ==
  ASSUME TypeInvariant, NEW r \in Requests, PersistAccount(r) PROVE TypeInvariant'
<1> DEFINE c == job[r].clone
           next == [c EXCEPT !.version = @ + 1]
           j == [job[r] EXCEPT !.pc = "replace", !.clone = next]
<1>1. At(r, "persist") /\ UNCHANGED <<memory, book, cache, bus>> /\ orders' = orders
  BY DEF PersistAccount, memory
<1>2. job[r] \in Job /\ Local(r) /\ job[r].input \in Inputs
  BY <1>1, KnownOf DEF At
<1>3. c \in Solvent
  BY <1>1, <1>2 DEF Local, Loaded, At, Syncing
<1>4. next \in Solvent
  BY <1>3 DEF Solvent
<1>5. db' \in Database
  <2>1. [db EXCEPT !.accounts[c.id] = next] \in Database
    <3> HIDE DEF next
    <3>1. c.id \in Accounts  BY <1>3 DEF Solvent
    <3> HIDE DEF c
    <3> QED  BY <1>4, <3>1 DEF TypeInvariant, Typed, Database
  <2> QED  BY <2>1 DEF PersistAccount, Save, TypeInvariant, Typed
<1>6. CASE Goto(r, "replace")
  <2>1. Moves(r)
    <3>1. "replace" \in Labels
      BY DEF Labels, Syncing, Unsubmitted, Submitted, Auditing, InFill, WithRow
    <3>2. /\ job' \in [Requests -> Job] /\ job'[r] = [job[r] EXCEPT !.pc = "replace"]
         /\ job'[r].pc = "replace" /\ \A q \in Requests \ {r} : job'[q] = job[q]
      BY <3>1, <1>6, GotoFacts
    <3>3. Local(r)'
      BY <1>1, <1>2, <1>3, <3>2 DEF Job, Local, Phased, Positioned, Priced, Loaded, At, Busy, Fresh,
       Syncing, Unsubmitted, Submitted, Auditing, InFill, WithRow, Crosses
    <3> QED  BY <3>2, <3>3 DEF Moves
  <2>2. Typed'
    BY <1>1, <1>5, <2>1 DEF TypeInvariant, Typed, Moves, memory, book
  <2> QED  BY <1>1, <2>1, <2>2, OuterStep DEF At, book
<1>7. CASE job' = [job EXCEPT ![r] = j]
  <2>1. j \in Job
    <3> HIDE DEF next
    <3> QED  BY <1>2, <1>4 DEF Job, Labels, Syncing
  <2>2. job \in [Requests -> Job]  BY DEF TypeInvariant, Typed
  <2>3. /\ job' \in [Requests -> Job] /\ job'[r] = j
        /\ \A q \in Requests \ {r} : job'[q] = job[q]
    BY <1>7, <2>1, <2>2, JobUpdate
  <2>4. Local(r)'
    <3> HIDE DEF next
    <3> QED
      BY <1>1, <1>2, <1>4, <2>3 DEF Job, Local, Phased, Positioned, Priced, Loaded, At, Busy, Fresh,
       Syncing, Unsubmitted, Submitted, Auditing, InFill, WithRow, Crosses
  <2>5. Moves(r)  BY <1>2, <2>3, <2>4 DEF Job, Moves
  <2>6. Typed'
    BY <1>1, <1>5, <2>5 DEF TypeInvariant, Typed, Moves, memory, book
  <2> QED  BY <1>1, <2>5, <2>6, OuterStep DEF At, book
<1>8. CASE Fail(r)
  <2>1. Moves(r)  BY <1>1, <1>8, ReturnLocal DEF Fail, At
  <2>2. Typed'
    BY <1>1, <1>5, <2>1 DEF TypeInvariant, Typed, Moves, memory, book
  <2> QED  BY <1>1, <2>1, <2>2, OuterStep DEF At, book
<1> QED  BY <1>6, <1>7, <1>8 DEF PersistAccount

LEMMA PersistOrderKeepsTypes ==
  ASSUME TypeInvariant, NEW r \in Requests, PersistOrder(r) PROVE TypeInvariant'
<1>1. At(r, "saveOrder") /\ UNCHANGED <<memory, book, cache, bus>> /\ orders' = orders
  BY DEF PersistOrder, memory
<1>2. /\ job[r] \in Job /\ Local(r) /\ job[r].input \in Inputs
      /\ orders[r] \in Order /\ orders[r] # None
  BY <1>1, KnownOf DEF At, Unsubmitted, Submitted, InFill, WithRow
<1>3. job[r].row \in Row /\ orders[job[r].row.id] # None
  BY <1>1, <1>2 DEF At, Local, Loaded, WithRow
<1>5. db' \in Database
  <2>1. [db EXCEPT !.orders[job[r].row.id] = job[r].row.order] \in Database
    BY <1>3 DEF TypeInvariant, Typed, Database, Row
  <2> QED  BY <2>1 DEF PersistOrder, Save, TypeInvariant, Typed
<1>6. Moves(r)
  <2>1. CASE Goto(r, "marshalOrder")
    <3>1. "marshalOrder" \in Labels
      BY DEF Labels, Syncing, Unsubmitted, Submitted, Auditing, InFill, WithRow
    <3>2. /\ job' \in [Requests -> Job] /\ job'[r] = [job[r] EXCEPT !.pc = "marshalOrder"]
         /\ job'[r].pc = "marshalOrder" /\ \A q \in Requests \ {r} : job'[q] = job[q]
      BY <3>1, <2>1, GotoFacts
    <3>3. Local(r)'
      BY <1>1, <1>2, <1>3, <3>2 DEF Job, Local, Phased, Positioned, Priced, Loaded, At, Busy, Fresh,
       Syncing, Unsubmitted, Submitted, Auditing, InFill, WithRow, Crosses
    <3> QED  BY <3>2, <3>3 DEF Moves
  <2>2. CASE Fail(r)
    BY <1>1, <2>2, ReturnLocal DEF Fail, At
  <2> QED  BY <2>1, <2>2 DEF PersistOrder, Answered
<1>7. Typed'
  BY <1>1, <1>5, <1>6 DEF TypeInvariant, Typed, Moves, memory, book
<1> QED  BY <1>1, <1>6, <1>7, OuterStep DEF At, book

LEMMA PersistTradesKeepsTypes ==
  ASSUME TypeInvariant, NEW r \in Requests, PersistTrades(r) PROVE TypeInvariant'
<1>1. At(r, "saveTrades") /\ UNCHANGED <<memory, book, cache, bus>> /\ orders' = orders
  BY DEF PersistTrades, memory
<1>2. /\ job[r] \in Job /\ Local(r) /\ job[r].input \in Inputs
      /\ orders[r] \in Order /\ orders[r] # None
  BY <1>1, KnownOf DEF At, Unsubmitted, Submitted, InFill, WithRow
<1>5. db' \in Database
  <2>1. Range(job[r].fills) \subseteq Trade  BY <1>2, RangeProperties DEF Job
  <2>2. [db EXCEPT !.trades = @ \cup Range(job[r].fills)] \in Database
    BY <2>1 DEF TypeInvariant, Typed, Database
  <2> QED  BY <2>2 DEF PersistTrades, Save, TypeInvariant, Typed
<1>6. Moves(r)
  <2>1. CASE Goto(r, "record")
    <3>1. "record" \in Labels
      BY DEF Labels, Syncing, Unsubmitted, Submitted, Auditing, InFill, WithRow
    <3>2. /\ job' \in [Requests -> Job] /\ job'[r] = [job[r] EXCEPT !.pc = "record"]
         /\ job'[r].pc = "record" /\ \A q \in Requests \ {r} : job'[q] = job[q]
      BY <3>1, <2>1, GotoFacts
    <3>3. Local(r)'
      BY <1>1, <1>2, <3>2 DEF Job, Local, Phased, Positioned, Priced, Loaded, At, Busy, Fresh,
       Syncing, Unsubmitted, Submitted, Auditing, InFill, WithRow, Crosses
    <3> QED  BY <3>2, <3>3 DEF Moves
  <2>2. CASE Fail(r)
    BY <1>1, <2>2, ReturnLocal DEF Fail, At
  <2> QED  BY <2>1, <2>2 DEF PersistTrades, Answered
<1>7. Typed'
  BY <1>1, <1>5, <1>6 DEF TypeInvariant, Typed, Moves, memory, book
<1> QED  BY <1>1, <1>6, <1>7, OuterStep DEF At, book

LEMMA PersistAuditKeepsTypes ==
  ASSUME TypeInvariant, NEW r \in Requests, PersistAudit(r) PROVE TypeInvariant'
<1>1. At(r, "saveAudit") /\ UNCHANGED <<memory, book, cache, bus>> /\ orders' = orders
  BY DEF PersistAudit, memory
<1>2. job[r] \in Job /\ Local(r) /\ job[r].input \in Inputs
  BY <1>1, KnownOf DEF At
<1>5. db' \in Database
  <2>1. Event(r) \in Requests \X Nat  BY <1>2 DEF Event, Job
  <2>2. [db EXCEPT !.audit = @ \cup {Event(r)}] \in Database
    BY <2>1 DEF TypeInvariant, Typed, Database
  <2> QED  BY <2>2 DEF PersistAudit, Save, TypeInvariant, Typed
<1>6. Moves(r)
  <2>1. CASE Goto(r, "publishAudit")
    <3>1. "publishAudit" \in Labels
      BY DEF Labels, Syncing, Unsubmitted, Submitted, Auditing, InFill, WithRow
    <3>2. /\ job' \in [Requests -> Job] /\ job'[r] = [job[r] EXCEPT !.pc = "publishAudit"]
         /\ job'[r].pc = "publishAudit" /\ \A q \in Requests \ {r} : job'[q] = job[q]
      BY <3>1, <2>1, GotoFacts
    <3>3. Local(r)'
      BY <1>1, <1>2, <3>2 DEF Job, Local, Phased, Positioned, Priced, Loaded, At, Busy, Fresh,
       Syncing, Unsubmitted, Submitted, Auditing, InFill, WithRow, Crosses
    <3> QED  BY <3>2, <3>3 DEF Moves
  <2>2. CASE Fail(r)
    BY <1>1, <2>2, ReturnLocal DEF Fail, At
  <2> QED  BY <2>1, <2>2 DEF PersistAudit, Answered
<1>7. Typed'
  BY <1>1, <1>5, <1>6 DEF TypeInvariant, Typed, Moves, memory, book
<1> QED  BY <1>1, <1>6, <1>7, OuterStep DEF At, book

LEMMA CacheOrderBookKeepsTypes ==
  ASSUME TypeInvariant, NEW r \in Requests, CacheOrderBook(r) PROVE TypeInvariant'
<1>1. At(r, "cacheBook") /\ UNCHANGED <<memory, book, db, bus>> /\ orders' = orders
  BY DEF CacheOrderBook, memory
<1>2. /\ job[r] \in Job /\ Local(r) /\ job[r].input \in Inputs
      /\ orders[r] \in Order /\ orders[r] # None
  BY <1>1, KnownOf DEF At, Unsubmitted, Submitted, InFill, WithRow
<1>3. job[r].view \in Book
  BY <1>1, <1>2 DEF At, Local, Loaded
<1>5. cache' \in Redis
  <2>1. orders[r].symbol \in Symbols  BY <1>2 DEF Order
  <2>2. [cache EXCEPT !.books[orders[r].symbol] = job[r].view] \in Redis
    BY <1>3, <2>1 DEF TypeInvariant, Typed, Redis
  <2> QED  BY <2>2 DEF CacheOrderBook, Keep, TypeInvariant, Typed
<1>6. Moves(r)
  <2>1. CASE Goto(r, "copyTrades")
    <3>1. "copyTrades" \in Labels
      BY DEF Labels, Syncing, Unsubmitted, Submitted, Auditing, InFill, WithRow
    <3>2. /\ job' \in [Requests -> Job] /\ job'[r] = [job[r] EXCEPT !.pc = "copyTrades"]
         /\ job'[r].pc = "copyTrades" /\ \A q \in Requests \ {r} : job'[q] = job[q]
      BY <3>1, <2>1, GotoFacts
    <3>3. Local(r)'
      BY <1>1, <1>2, <1>3, <3>2 DEF Job, Local, Phased, Positioned, Priced, Loaded, At, Busy, Fresh,
       Syncing, Unsubmitted, Submitted, Auditing, InFill, WithRow, Crosses
    <3> QED  BY <3>2, <3>3 DEF Moves
  <2>2. CASE Fail(r)
    BY <1>1, <2>2, ReturnLocal DEF Fail, At
  <2> QED  BY <2>1, <2>2 DEF CacheOrderBook, Answered
<1>7. Typed'
  BY <1>1, <1>5, <1>6 DEF TypeInvariant, Typed, Moves, memory, book
<1> QED  BY <1>1, <1>6, <1>7, OuterStep DEF At, book

LEMMA CacheTradesKeepsTypes ==
  ASSUME TypeInvariant, NEW r \in Requests, CacheTrades(r) PROVE TypeInvariant'
<1>1. At(r, "cacheTrades") /\ UNCHANGED <<memory, book, db, bus>> /\ orders' = orders
  BY DEF CacheTrades, memory
<1>2. /\ job[r] \in Job /\ Local(r) /\ job[r].input \in Inputs
      /\ orders[r] \in Order /\ orders[r] # None
  BY <1>1, KnownOf DEF At, Unsubmitted, Submitted, InFill, WithRow
<1>3. job[r].view \in Seq(Trade)
  BY <1>1, <1>2 DEF At, Local, Loaded
<1>4. cache' \in Redis
  <2>1. orders[r].symbol \in Symbols  BY <1>2 DEF Order
  <2>2. [cache EXCEPT !.trades[orders[r].symbol] = job[r].view] \in Redis
    BY <1>3, <2>1 DEF TypeInvariant, Typed, Redis
  <2> QED  BY <2>2 DEF CacheTrades, Keep, TypeInvariant, Typed
<1>5. Moves(r)
  BY <1>1, ReturnLocal DEF CacheTrades, Fail, At
<1>6. Typed'
  BY <1>1, <1>4, <1>5 DEF TypeInvariant, Typed, Moves, memory, book
<1> QED  BY <1>1, <1>5, <1>6, OuterStep DEF At, book

LEMMA PublishOrderKeepsTypes ==
  ASSUME TypeInvariant, NEW r \in Requests, PublishOrder(r) PROVE TypeInvariant'
<1> DEFINE j == [job[r] EXCEPT !.pc = "orders", !.row = None]
<1>1. At(r, "publishOrder") /\ UNCHANGED <<memory, book, db, cache>> /\ orders' = orders
  BY DEF PublishOrder, memory
<1>2. /\ job[r] \in Job /\ Local(r) /\ job[r].input \in Inputs
      /\ orders[r] \in Order /\ orders[r] # None
  BY <1>1, KnownOf DEF At, Unsubmitted, Submitted, InFill, WithRow
<1>3. job[r].row \in Row
  BY <1>1, <1>2 DEF At, Local, Loaded, WithRow
<1>4. bus' \in Topics
  <2>1. [bus EXCEPT !.orders[job[r].row.id] = job[r].row.order] \in Topics
    BY <1>3 DEF TypeInvariant, Typed, Topics, Row
  <2> QED  BY <2>1 DEF PublishOrder, Send, TypeInvariant, Typed
<1>5. Moves(r)
  <2>1. CASE job' = [job EXCEPT ![r] = j]
    <3>1. j \in Job  BY <1>2 DEF Job, Labels, Submitted
    <3>2. job \in [Requests -> Job]  BY DEF TypeInvariant, Typed
    <3>3. /\ job' \in [Requests -> Job] /\ job'[r] = j
          /\ \A q \in Requests \ {r} : job'[q] = job[q]
      BY <2>1, <3>1, <3>2, JobUpdate
    <3>4. Local(r)'
      BY <1>1, <1>2, <3>3 DEF Job, Local, Phased, Positioned, Priced, Loaded, At, Busy, Fresh,
       Syncing, Unsubmitted, Submitted, Auditing, InFill, WithRow, Crosses
    <3> QED  BY <1>2, <3>3, <3>4 DEF Job, Moves
  <2>2. CASE Fail(r)
    BY <1>1, <2>2, ReturnLocal DEF Fail, At
  <2> QED  BY <2>1, <2>2 DEF PublishOrder
<1>6. Typed'
  BY <1>1, <1>4, <1>5 DEF TypeInvariant, Typed, Moves, memory, book
<1> QED  BY <1>1, <1>5, <1>6, OuterStep DEF At, book

LEMMA RecordKeepsTypes ==
  ASSUME TypeInvariant, NEW r \in Requests, Record(r) PROVE TypeInvariant'
<1> DEFINE j == [job[r] EXCEPT !.pc = "audit", !.at = 0]
<1>1. /\ At(r, "record") /\ job' = [job EXCEPT ![r] = j]
      /\ market' = [market EXCEPT ![orders[r].symbol] = @ \o job[r].fills]
      /\ UNCHANGED <<wallet, orders, auditLog, book, services>>
  BY DEF Record
<1>2. /\ job[r] \in Job /\ Local(r) /\ job[r].input \in Inputs
      /\ orders[r] \in Order /\ orders[r] # None
  BY <1>1, KnownOf DEF At, Unsubmitted, Submitted, InFill, WithRow
<1>3. market' \in [Symbols -> Seq(Trade)]
  <2>1. market \in [Symbols -> Seq(Trade)] /\ orders[r].symbol \in Symbols /\ job[r].fills \in Seq(Trade)
    BY <1>2 DEF TypeInvariant, Typed, Order, Job
  <2>2. market[orders[r].symbol] \o job[r].fills \in Seq(Trade)
    BY <2>1, ConcatProperties
  <2> QED  BY <1>1, <2>1, <2>2
<1>4. Moves(r)
  <2>1. j \in Job  BY <1>2 DEF Job, Labels, Auditing
  <2>2. job \in [Requests -> Job]  BY DEF TypeInvariant, Typed
  <2>3. /\ job' \in [Requests -> Job] /\ job'[r] = j
        /\ \A q \in Requests \ {r} : job'[q] = job[q]
    BY <1>1, <2>1, <2>2, JobUpdate
  <2>4. Len(job[r].fills) \in Nat  BY SMTT(40), <1>2, LenProperties DEF Job
  <2>5. Local(r)'
    BY <1>1, <1>2, <2>3, <2>4 DEF Job, Local, Phased, Positioned, Priced, Loaded, At, Busy, Fresh,
       Syncing, Unsubmitted, Submitted, Auditing, InFill, WithRow, Crosses
  <2> QED  BY <1>2, <2>3, <2>5 DEF Job, Moves
<1>5. Typed'
  BY <1>1, <1>3, <1>4 DEF TypeInvariant, Typed, Moves, book, services
<1> QED  BY <1>1, <1>4, <1>5, OuterStep DEF At, book

LEMMA RecordAuditKeepsTypes ==
  ASSUME TypeInvariant, NEW r \in Requests, RecordAudit(r) PROVE TypeInvariant'
<1>1. /\ At(r, "audit") /\ Goto(r, "saveAudit")
      /\ auditLog' = auditLog \cup {Event(r)}
      /\ UNCHANGED <<wallet, orders, market, book, services>>
  BY DEF RecordAudit
<1>2. job[r] \in Job /\ Local(r) /\ job[r].input \in Inputs
  BY <1>1, KnownOf DEF At
<1>3. auditLog' \in SUBSET (Requests \X Nat)
  <2>1. Event(r) \in Requests \X Nat  BY <1>2 DEF Event, Job
  <2> QED  BY <1>1, <2>1 DEF TypeInvariant, Typed
<1>4. Moves(r)
  <2>1. "saveAudit" \in Labels
    BY DEF Labels, Syncing, Unsubmitted, Submitted, Auditing, InFill, WithRow
  <2>2. /\ job' \in [Requests -> Job] /\ job'[r] = [job[r] EXCEPT !.pc = "saveAudit"]
       /\ job'[r].pc = "saveAudit" /\ \A q \in Requests \ {r} : job'[q] = job[q]
    BY <2>1, <1>1, GotoFacts
  <2>3. Local(r)'
    BY <1>1, <1>2, <2>2 DEF Job, Local, Phased, Positioned, Priced, Loaded, At, Busy, Fresh,
       Syncing, Unsubmitted, Submitted, Auditing, InFill, WithRow, Crosses
  <2> QED  BY <2>2, <2>3 DEF Moves
<1>5. Typed'
  BY <1>1, <1>3, <1>4 DEF TypeInvariant, Typed, Moves, book, services
<1> QED  BY <1>1, <1>4, <1>5, OuterStep DEF At, book

LEMMA AfterEventMoves ==
  ASSUME TypeInvariant, NEW r \in Requests, job[r].pc \in {"publishAudit", "publishTrade"},
         AfterEvent(r), orders' = orders
  PROVE  Moves(r)
<1>1. job[r] \in Job /\ Local(r) /\ job[r].input \in Inputs /\ ~At(r, "idle")
  BY KnownOf DEF At
<1>2. Len(job[r].fills) \in Nat  BY <1>1, LenProperties DEF Job
<1>3. CASE job[r].at < Len(job[r].fills)
  <2> DEFINE j == [job[r] EXCEPT !.pc = "audit", !.at = @ + 1]
  <2>1. job' = [job EXCEPT ![r] = j]  BY <1>3 DEF AfterEvent
  <2>2. j \in Job
    <3>1. job[r].at + 1 \in Nat /\ "audit" \in Labels  BY <1>1 DEF Job, Labels, Auditing
    <3> QED  BY <1>1, <3>1 DEF Job
  <2>3. job \in [Requests -> Job]  BY DEF TypeInvariant, Typed
  <2>4. /\ job' \in [Requests -> Job] /\ job'[r] = j
        /\ \A q \in Requests \ {r} : job'[q] = job[q]
    BY <2>1, <2>2, <2>3, JobUpdate
  <2>5. /\ j.pc = "audit" /\ j.at = job[r].at + 1 /\ j.fills = job[r].fills
        /\ j.input = job[r].input /\ j.pending = job[r].pending
    BY <1>1 DEF Job
  <2>6. job[r].at \in Nat  BY <1>1 DEF Job
  <2>7. job[r].fills # << >>  BY <1>3, <2>6, EmptySeq
  <2> HIDE DEF j
  <2>8. Local(r)'
    <3>1. Phased(r)'
      BY <1>1, <2>4, <2>5, <2>7 DEF Local, Phased, At, Busy, Fresh,
         Syncing, Unsubmitted, Submitted, Auditing, InFill, WithRow
    <3>2. Positioned(r)'
      BY <1>2, <1>3, <2>4, <2>5, <2>6 DEF Positioned, At, Auditing, InFill
    <3>3. Priced(r)'
      BY <1>1, <2>4, <2>5 DEF Local, Priced, Crosses
    <3>4. Loaded(r)'
      BY <1>1, <2>4, <2>5 DEF Local, Loaded, At, Syncing, WithRow
    <3> QED  BY <3>1, <3>2, <3>3, <3>4 DEF Local
  <2> QED  BY <2>4, <2>5, <2>8 DEF Moves
<1>4. CASE ~(job[r].at < Len(job[r].fills)) /\ job[r].input.kind = "deposit"
  <2>1. Return(r, "ok")  BY <1>4 DEF AfterEvent
  <2> QED  BY <1>1, <2>1, ReturnLocal
<1>5. CASE ~(job[r].at < Len(job[r].fills)) /\ job[r].input.kind # "deposit"
  <2>1. Goto(r, "snapshot")  BY <1>5 DEF AfterEvent
  <2>2. "snapshot" \in Labels
    BY DEF Labels, Syncing, Unsubmitted, Submitted, Auditing, InFill, WithRow
  <2>3. /\ job' \in [Requests -> Job] /\ job'[r] = [job[r] EXCEPT !.pc = "snapshot"]
       /\ job'[r].pc = "snapshot" /\ \A q \in Requests \ {r} : job'[q] = job[q]
    BY <2>2, <2>1, GotoFacts
  <2>4. Local(r)'
    BY <1>1, <1>5, <2>3 DEF Job, Local, Phased, Positioned, Priced, Loaded, At, Busy, Fresh,
       Syncing, Unsubmitted, Submitted, Auditing, InFill, WithRow, Crosses
  <2> QED  BY <2>3, <2>4 DEF Moves
<1> QED  BY <1>3, <1>4, <1>5

LEMMA PublishAuditKeepsTypes ==
  ASSUME TypeInvariant, NEW r \in Requests, PublishAudit(r) PROVE TypeInvariant'
<1>1. At(r, "publishAudit") /\ UNCHANGED <<memory, book, db, cache>> /\ orders' = orders
  BY DEF PublishAudit, memory
<1>2. job[r] \in Job /\ Local(r) /\ job[r].input \in Inputs
  BY <1>1, KnownOf DEF At
<1>3. bus' \in Topics
  <2>1. Event(r) \in Requests \X Nat  BY <1>2 DEF Event, Job
  <2>2. [bus EXCEPT !.audit = @ \cup {Event(r)}] \in Topics
    BY <2>1 DEF TypeInvariant, Typed, Topics
  <2> QED  BY <2>2 DEF PublishAudit, Send, TypeInvariant, Typed
<1>4. Moves(r)
  <2>1. CASE job[r].at > 0 /\ Goto(r, "publishTrade")
    <3>0. job[r].at \in 1..Len(job[r].fills) /\ job[r].input.kind # "deposit"
      <4>1. job[r].at \in 0..Len(job[r].fills) /\ Len(job[r].fills) \in Nat /\ Busy(r)
        BY <1>1, <1>2, LenProperties DEF At, Local, Positioned, Auditing, Job, Busy
      <4>2. job[r].at # 0  BY <2>1, <4>1
      <4> QED  BY <1>2, <2>1, <4>1, <4>2 DEF Local, Phased, Fresh
    <3>1. "publishTrade" \in Labels
      BY DEF Labels, Syncing, Unsubmitted, Submitted, Auditing, InFill, WithRow
    <3>2. /\ job' \in [Requests -> Job] /\ job'[r] = [job[r] EXCEPT !.pc = "publishTrade"]
         /\ job'[r].pc = "publishTrade" /\ \A q \in Requests \ {r} : job'[q] = job[q]
      BY <3>1, <2>1, GotoFacts
    <3>3. Local(r)'
      BY <1>1, <1>2, <3>0, <3>2 DEF Job, Local, Phased, Positioned, Priced, Loaded, At, Busy, Fresh,
       Syncing, Unsubmitted, Submitted, Auditing, InFill, WithRow, Crosses
    <3> QED  BY <3>2, <3>3 DEF Moves
  <2>2. CASE AfterEvent(r)
    BY <1>1, <2>2, AfterEventMoves DEF At
  <2>3. CASE Fail(r)
    BY <1>1, <2>3, ReturnLocal DEF Fail, At
  <2> QED  BY <2>1, <2>2, <2>3 DEF PublishAudit
<1>5. Typed'
  BY <1>1, <1>3, <1>4 DEF TypeInvariant, Typed, Moves, memory, book
<1> QED  BY <1>1, <1>4, <1>5, OuterStep DEF At, book

LEMMA PublishTradeKeepsTypes ==
  ASSUME TypeInvariant, NEW r \in Requests, PublishTrade(r) PROVE TypeInvariant'
<1>1. At(r, "publishTrade") /\ UNCHANGED <<memory, book, db, cache>> /\ orders' = orders
  BY DEF PublishTrade, memory
<1>2. job[r] \in Job /\ Local(r) /\ job[r].input \in Inputs
  BY <1>1, KnownOf DEF At
<1>3. bus' \in Topics
  <2>1. Fill(r) \in Trade
    BY <1>1, <1>2, FillTyped DEF At, Local, Positioned, InFill
  <2>2. [bus EXCEPT !.trades = @ \cup {Fill(r)}] \in Topics
    BY <2>1 DEF TypeInvariant, Typed, Topics
  <2> QED  BY <2>2 DEF PublishTrade, Send, TypeInvariant, Typed
<1>4. Moves(r)
  <2>1. CASE AfterEvent(r)
    BY <1>1, <2>1, AfterEventMoves DEF At
  <2>2. CASE Fail(r)
    BY <1>1, <2>2, ReturnLocal DEF Fail, At
  <2> QED  BY <2>1, <2>2 DEF PublishTrade
<1>5. Typed'
  BY <1>1, <1>3, <1>4 DEF TypeInvariant, Typed, Moves, memory, book
<1> QED  BY <1>1, <1>4, <1>5, OuterStep DEF At, book

-----------------------------------------------------------------------------
(* The steps that change orders *)

LEMMA OrderUpdate ==
  ASSUME TypeInvariant, NEW r \in Requests, NEW o \in Orders, orders[o] \in Order,
         NEW x \in Order, x.side = orders[o].side, x.price = orders[o].price,
         x.sequence = orders[o].sequence, orders' = [orders EXCEPT ![o] = x]
  PROVE  orders' \in [Orders -> Order \cup {None}] /\ Evolves(r)
<1>1. orders \in [Orders -> Order \cup {None}] /\ x # None /\ orders[o] # None
  BY ExchangeAssumption DEF TypeInvariant, Typed
<1> QED  BY <1>1 DEF Evolves

(* What the step leaves alone of its own goroutine. *)
LEMMA OwnKeep ==
  ASSUME TypeInvariant, NEW r \in Requests, Evolves(r),
         job'[r].fills = job[r].fills, job'[r].pending = job[r].pending
  PROVE  Priced(r)' /\ \A o \in job'[r].pending : orders'[o] # None
<1>1. job[r] \in Job /\ Local(r) /\ r \in Orders
  BY KnownOf
<1>2. Priced(r)'
  <2>1. \A i \in DOMAIN job[r].fills : job[r].fills[i].maker \in Orders
    <3>1. job[r].fills \in Seq(Trade)  BY <1>1 DEF Job
    <3>2. \A i \in DOMAIN job[r].fills : job[r].fills[i] \in Trade
      BY <3>1, LenProperties, ElementOfSeq
    <3> QED  BY <3>2 DEF Trade
  <2> QED  BY <1>1, <2>1 DEF Local, Priced, Crosses, Evolves
<1>3. \A o \in job'[r].pending : orders'[o] # None
  <2>1. job[r].pending \subseteq Orders  BY <1>1 DEF Job
  <2> QED  BY <1>1, <2>1 DEF Local, Loaded, Evolves
<1> QED  BY <1>2, <1>3

LEMMA ReserveKeepsTypes ==
  ASSUME TypeInvariant, NEW r \in Requests, Reserve(r) PROVE TypeInvariant'
<1>1. At(r, "reserve") /\ UNCHANGED <<market, auditLog, book, services>>
  BY DEF Reserve
<1>2. /\ job[r] \in Job /\ Local(r) /\ r \in Orders /\ job[r].input \in Inputs
      /\ orders[r] \in Order /\ orders[r] # None /\ job[r].input.kind # "deposit"
      /\ job[r].input \in Inputs
  BY <1>1, KnownOf DEF At, Unsubmitted
<1> DEFINE o == orders[r]
           a == o.account
<1>3. CASE CanReserve(wallet[a], MyPair(r), o)
  <2>1. /\ wallet' = [wallet EXCEPT ![a] = Reserved(wallet[a], MyPair(r), o)]
        /\ orders' = [orders EXCEPT ![r].reserved = Needs(o, o.quantity)]
        /\ Goto(r, "clone")
    BY <1>3 DEF Reserve
  <2>2. a \in Accounts /\ wallet[a] \in Solvent /\ o.symbol \in Symbols
    BY <1>2 DEF Order, TypeInvariant, Typed
  <2>3. Reserved(wallet[a], MyPair(r), o) \in Solvent
    BY <1>2, <1>3, <2>2, ReservedKeepsSolvent DEF MyPair
  <2>4. wallet' \in [Accounts -> Solvent]
    BY <2>1, <2>2, <2>3 DEF TypeInvariant, Typed
  <2> DEFINE x == [o EXCEPT !.reserved = Needs(o, o.quantity)]
  <2>5. x \in Order /\ x.side = o.side /\ x.price = o.price /\ x.sequence = o.sequence
    <3>1. Needs(o, o.quantity) \in Nat  BY <1>2, NeedsIsNatural DEF Order
    <3> QED  BY <1>2, <3>1 DEF Order
  <2>6. orders' = [orders EXCEPT ![r] = x]
    BY <2>1
  <2>7. orders' \in [Orders -> Order \cup {None}] /\ Evolves(r)
    <3> HIDE DEF x
    <3> QED  BY <1>2, <2>5, <2>6, OrderUpdate
  <2>8. orders'[r] # None /\ orders'[r].sequence = orders[r].sequence
    BY <1>1, <1>2, <2>7 DEF Evolves, At
  <2>9. Moves(r)
    <3>1. "clone" \in Labels
      BY DEF Labels, Syncing, Unsubmitted, Submitted, Auditing, InFill, WithRow
    <3>2. /\ job' \in [Requests -> Job] /\ job'[r] = [job[r] EXCEPT !.pc = "clone"]
         /\ job'[r].pc = "clone" /\ \A q \in Requests \ {r} : job'[q] = job[q]
      BY <3>1, <2>1, GotoFacts
    <3>3. /\ job'[r].fills = job[r].fills /\ job'[r].pending = job[r].pending
         /\ job'[r].input = job[r].input /\ job'[r].at = job[r].at /\ job'[r].role = job[r].role
      BY <3>2, <1>2 DEF Job
    <3>4. Phased(r)'
      BY <1>1, <1>2, <2>7, <2>8, <3>2, <3>3 DEF Local, Phased, At, Busy, Fresh,
         Syncing, Unsubmitted, Submitted, Auditing, InFill, WithRow
    <3>5. Positioned(r)'
      BY <1>1, <1>2, <2>7, <2>8, <3>2, <3>3 DEF Local, Positioned, At, Auditing, InFill
    <3>6. Priced(r)' /\ \A p \in job'[r].pending : orders'[p] # None
      BY <1>1, <1>2, <2>7, <2>8, <3>3, OwnKeep
    <3>7. Loaded(r)'
      BY <1>1, <1>2, <2>7, <2>8, <3>2, <3>3, <3>6 DEF Local, Loaded, At, Syncing, WithRow
    <3> QED  BY <3>2, <3>4, <3>5, <3>6, <3>7 DEF Local, Moves
  <2>10. Typed'
    BY <1>1, <2>4, <2>7, <2>9 DEF TypeInvariant, Typed, Moves, book, services
  <2> QED  BY <1>1, <2>7, <2>9, <2>10, StepKeepsTypes DEF At, Moves, book
<1>4. CASE ~CanReserve(wallet[a], MyPair(r), o)
  <2>1. Fail(r) /\ UNCHANGED <<memory, book, services>>
    BY <1>1, <1>4 DEF Reserve, memory
  <2> QED  BY <1>1, <2>1, ReturnLocal, LocalStep DEF Fail, At
<1> QED  BY <1>3, <1>4

(* A step of the settlement, and what it leaves alone. *)
LEMMA SettlingMoves ==
  ASSUME TypeInvariant, NEW r \in Requests, job[r].pc \in Submitted, Evolves(r),
         NEW j \in Job, job' = [job EXCEPT ![r] = j],
         j.pc \in {"loadStatus", "collect", "settle", "loadReserved", "storeReserved",
                   "checkReserved", "clampReserved", "releaseMaker", "releaseTaker",
                   "clip", "subtract", "add", "clear", "accounts"},
         j.fills = job[r].fills, j.pending = job[r].pending, j.input = job[r].input,
         Positioned(r)'
  PROVE  Moves(r)
<1>1. /\ job[r] \in Job /\ Local(r) /\ r \in Orders /\ job[r].input \in Inputs
      /\ job[r].input.kind # "deposit" /\ orders[r] # None
  BY KnownOf DEF At, Submitted, InFill, WithRow
<1>2. job \in [Requests -> Job]
  BY DEF TypeInvariant, Typed
<1>3. /\ job' \in [Requests -> Job] /\ job'[r] = j
      /\ \A q \in Requests \ {r} : job'[q] = job[q]
  BY <1>2, JobUpdate
<1>4. Priced(r)' /\ \A o \in job'[r].pending : orders'[o] # None
  BY <1>3, OwnKeep
<1>5. orders[r].sequence > 0 /\ orders'[r] # None /\ orders'[r].sequence = orders[r].sequence
  <2>1. Busy(r) /\ job[r].pc # "submit"
    BY DEF Submitted, InFill, WithRow, Busy
  <2>2. orders[r].sequence > 0
    BY <1>1, <2>1 DEF Local, Phased
  <2> QED  BY <1>1, <2>1, <2>2 DEF Evolves, At
<1>6. Phased(r)'
  <2>1. orders'[r].sequence # 0
    <3>1. orders[r].sequence \in Nat  BY <1>1, KnownOf DEF Order, Submitted, TypeInvariant, Typed
    <3> QED  BY <1>5, <3>1
  <2>2. j.pc # "idle" /\ j.pc \in Submitted /\ j.pc \notin Unsubmitted
    BY DEF Submitted, InFill, Unsubmitted, WithRow
  <2> QED  BY <1>1, <1>3, <1>5, <2>1, <2>2 DEF Phased, At, Busy
<1>7. Loaded(r)'
  BY <1>3, <1>4 DEF Loaded, At, Syncing, WithRow
<1> QED  BY <1>3, <1>4, <1>6, <1>7 DEF Local, Moves

(* A step that changes wallet and orders. *)
LEMMA InnerStep ==
  ASSUME TypeInvariant, NEW r \in Requests, wallet' \in [Accounts -> Solvent],
         orders' \in [Orders -> Order \cup {None}], Evolves(r),
         UNCHANGED <<market, auditLog, book, services>>, Moves(r), ~At(r, "submit")
  PROVE  TypeInvariant'
<1>1. Typed'
  BY DEF TypeInvariant, Typed, Moves, book, services
<1>2. queue' = queue
  BY DEF book
<1> QED  BY <1>1, <1>2, StepKeepsTypes DEF Moves

LEMMA StoreStatusKeepsTypes ==
  ASSUME TypeInvariant, NEW r \in Requests, StoreStatus(r) PROVE TypeInvariant'
<1> DEFINE o == Subject(r)
           j == [job[r] EXCEPT !.status = None,
                   !.role = IF job[r].at = 0 \/ @ = "maker" THEN "taker" ELSE "maker",
                   !.pc = IF job[r].at = 0 THEN "collect"
                          ELSE IF job[r].role = "maker" THEN "loadStatus" ELSE "releaseMaker"]
           x == [orders[o] EXCEPT !.status = job[r].status]
<1>1. /\ At(r, "storeStatus") /\ UNCHANGED <<wallet, market, auditLog, book, services>>
      /\ orders' = [orders EXCEPT ![o] = x] /\ job' = [job EXCEPT ![r] = j]
  BY DEF StoreStatus
<1>2. /\ job[r] \in Job /\ Local(r) /\ orders[r] \in Order /\ orders[r] # None
  BY <1>1, KnownOf DEF At, Submitted
<1>3. /\ job[r].at \in 0..Len(job[r].fills) /\ Len(job[r].fills) \in Nat
      /\ job[r].role = "taker" \/ job[r].at \in 1..Len(job[r].fills)
      /\ job[r].status \in Statuses /\ job[r].role \in {"maker", "taker"}
  BY <1>1, <1>2, LenProperties DEF Local, Positioned, Loaded, Job, At
<1>4. o \in Orders /\ orders[o] \in Order /\ orders[o] # None
  BY <1>2, <1>3, SubjectTyped
<1> HIDE DEF o
<1>5. x \in Order /\ x.side = orders[o].side /\ x.price = orders[o].price
      /\ x.sequence = orders[o].sequence
  BY <1>3, <1>4 DEF Order, Statuses
<1> HIDE DEF x
<1>6. orders' \in [Orders -> Order \cup {None}] /\ Evolves(r)
  BY <1>1, <1>4, <1>5, OrderUpdate
<1>7. /\ j.fills = job[r].fills /\ j.input = job[r].input /\ j.pending = job[r].pending
      /\ j.at = job[r].at
      /\ j.role = IF job[r].at = 0 \/ job[r].role = "maker" THEN "taker" ELSE "maker"
      /\ j.pc = IF job[r].at = 0 THEN "collect"
                ELSE IF job[r].role = "maker" THEN "loadStatus" ELSE "releaseMaker"
  BY <1>2 DEF Job
<1>8. j \in Job
  <2>1. j.role \in {"maker", "taker"} /\ j.pc \in Labels
    BY <1>7 DEF Labels, Submitted, InFill
  <2>2. /\ DOMAIN j = DOMAIN job[r] /\ j.clone = job[r].clone /\ j.accounts = job[r].accounts
        /\ j.row = job[r].row /\ j.view = job[r].view /\ j.seen = job[r].seen
        /\ j.status = None
    BY <1>2 DEF Job
  <2> QED  BY <1>2, <1>7, <2>1, <2>2 DEF Job
<1> HIDE DEF j
<1>9. Positioned(r)'
  <2>1. job'[r] = j
    BY <1>1, <1>8, JobUpdate DEF TypeInvariant, Typed
  <2> QED  BY <1>3, <1>7, <2>1 DEF Positioned, At, InFill, Auditing
<1>10. Moves(r)
  BY <1>1, <1>6, <1>7, <1>8, <1>9, SettlingMoves DEF At, Submitted
<1> QED  BY <1>1, <1>6, <1>10, InnerStep DEF At, TypeInvariant, Typed

(* Where a step of the settlement goes next. *)
LEMMA SettlingGoes ==
  ASSUME TypeInvariant, NEW r \in Requests, job[r].pc \in Submitted, Evolves(r),
         NEW label \in {"checkReserved", "clampReserved", "collect",
                        "clip", "subtract", "add", "clear", "accounts"},
         NEW v \in Int, job' = [job EXCEPT ![r].pc = label, ![r].seen = v],
         job[r].role = "taker" \/ job[r].at \in 1..Len(job[r].fills),
         label \in {"checkReserved", "clampReserved"} => job[r].at \in 1..Len(job[r].fills)
  PROVE  Moves(r)
<1> DEFINE j == [job[r] EXCEPT !.pc = label, !.seen = v]
<1>1. job[r] \in Job /\ job \in [Requests -> Job]
  BY KnownOf DEF TypeInvariant, Typed
<1>2. label \in Labels
  BY DEF Labels, Submitted, InFill
<1>3. /\ j \in Job /\ j.fills = job[r].fills /\ j.input = job[r].input /\ j.role = job[r].role
      /\ j.pending = job[r].pending /\ j.at = job[r].at /\ j.pc = label
  BY ZenonT(40), <1>1, <1>2 DEF Job
<1>4. job' = [job EXCEPT ![r] = j]
  BY <1>1
<1> HIDE DEF j
<1>5. Positioned(r)'
  <2>1. job'[r] = j
    BY <1>1, <1>3, <1>4, JobUpdate
  <2> QED  BY <1>3, <2>1 DEF Positioned, At, InFill, Auditing
<1> QED  BY <1>3, <1>4, <1>5, SettlingMoves

(* ReservedAmount can be set to anything. *)
LEMMA ReservedSet ==
  ASSUME TypeInvariant, NEW r \in Requests, NEW o \in Orders, orders[o] \in Order, NEW v \in Int,
         orders' = [orders EXCEPT ![o].reserved = v]
  PROVE  orders' \in [Orders -> Order \cup {None}] /\ Evolves(r)
<1> DEFINE x == [orders[o] EXCEPT !.reserved = v]
<1>1. x \in Order /\ x.side = orders[o].side /\ x.price = orders[o].price
      /\ x.sequence = orders[o].sequence
  BY DEF Order
<1>2. orders' = [orders EXCEPT ![o] = x]
  OBVIOUS
<1> HIDE DEF x
<1> QED  BY <1>1, <1>2, OrderUpdate

(* In a fill, or in the release of the taker. *)
Settling == {"storeReserved", "checkReserved", "clampReserved", "releaseMaker", "releaseTaker",
             "clip", "subtract", "add", "clear"}

LEMMA SettlingKnown ==
  ASSUME TypeInvariant, NEW r \in Requests, job[r].pc \in Settling
  PROVE  /\ job[r] \in Job /\ job \in [Requests -> Job] /\ Local(r)
         /\ job[r].pc \in Submitted /\ ~At(r, "submit") /\ Busy(r)
         /\ job[r].role \in {"maker", "taker"}
         /\ job[r].role = "taker" \/ job[r].at \in 1..Len(job[r].fills)
         /\ job[r].pc \in {"storeReserved", "checkReserved", "clampReserved"} =>
              job[r].at \in 1..Len(job[r].fills)
         /\ Subject(r) \in Orders /\ orders[Subject(r)] \in Order /\ orders[Subject(r)] # None
         /\ orders[r] \in Order /\ MyPair(r) = Pair[orders[r].symbol]
         /\ LockedAsset(MyPair(r), orders[Subject(r)]) \in Assets
         /\ orders[Subject(r)].account \in Accounts
         /\ wallet[orders[Subject(r)].account] \in Solvent
         /\ LockedBy(r) =
              wallet[orders[Subject(r)].account].balances
                [LockedAsset(MyPair(r), orders[Subject(r)])].locked
         /\ LockedBy(r) \in Amounts /\ LockedBy(r) \in Int
<1>1. job[r].pc \in Submitted /\ ~At(r, "submit") /\ Busy(r)
  BY DEF Settling, Submitted, InFill, At, Busy
<1>2. /\ job[r] \in Job /\ job \in [Requests -> Job] /\ Local(r)
      /\ orders[r] \in Order /\ orders[r] # None
  BY <1>1, KnownOf DEF TypeInvariant, Typed
<1>3. /\ job[r].role \in {"maker", "taker"}
      /\ job[r].role = "taker" \/ job[r].at \in 1..Len(job[r].fills)
      /\ job[r].pc \in {"storeReserved", "checkReserved", "clampReserved"} =>
           job[r].at \in 1..Len(job[r].fills)
  BY <1>2 DEF Job, Local, Positioned, At, InFill, Settling
<1>4. Subject(r) \in Orders /\ orders[Subject(r)] \in Order /\ orders[Subject(r)] # None
  BY <1>2, <1>3, SubjectTyped
<1>5. LockedAsset(MyPair(r), orders[Subject(r)]) \in Assets
  BY <1>2, LockedAssetIsAsset DEF MyPair, Order
<1>6. orders[Subject(r)].account \in Accounts /\ wallet[orders[Subject(r)].account] \in Solvent
  BY <1>4 DEF Order, TypeInvariant, Typed
<1>7. LockedBy(r) =
        wallet[orders[Subject(r)].account].balances
          [LockedAsset(MyPair(r), orders[Subject(r)])].locked
  BY DEF LockedBy, LockedBalance
<1>8. LockedBy(r) \in Amounts /\ LockedBy(r) \in Int
  BY <1>5, <1>6, <1>7, BalanceIsAmount
<1> QED  BY <1>1, <1>2, <1>3, <1>4, <1>5, <1>6, <1>7, <1>8 DEF MyPair

LEMMA StoreReservedKeepsTypes ==
  ASSUME TypeInvariant, NEW r \in Requests, StoreReserved(r) PROVE TypeInvariant'
<1> DEFINE o == Subject(r)
           kept == Adjusted(job[r].seen, Needs(orders[o], Fill(r).quantity))
<1>1. /\ At(r, "storeReserved") /\ UNCHANGED <<wallet, market, auditLog, book, services>>
      /\ orders' = [orders EXCEPT ![o].reserved = kept]
      /\ job' = [job EXCEPT ![r].pc = "checkReserved", ![r].seen = 0]
  BY DEF StoreReserved
<1>2. /\ job[r] \in Job /\ job[r].pc \in Submitted /\ ~At(r, "submit")
      /\ job[r].at \in 1..Len(job[r].fills) /\ o \in Orders /\ orders[o] \in Order
  BY <1>1, SettlingKnown DEF At, Settling
<1>3. kept \in Int
  <2>1. Fill(r).quantity \in Nat  BY <1>2, FillTyped DEF Trade
  <2>2. Needs(orders[o], Fill(r).quantity) \in Nat  BY <1>2, <2>1, NeedsIsNatural
  <2> QED  BY <1>2, <2>2 DEF Adjusted, Job
<1> HIDE DEF o, kept
<1>4. orders' \in [Orders -> Order \cup {None}] /\ Evolves(r)
  BY <1>1, <1>2, <1>3, ReservedSet
<1>5. Moves(r)
  BY <1>1, <1>2, <1>4, ZeroIsInteger, SettlingGoes
<1> QED  BY <1>1, <1>2, <1>4, <1>5, InnerStep DEF TypeInvariant, Typed

LEMMA AfterAdjustMoves ==
  ASSUME TypeInvariant, NEW r \in Requests, job[r].pc \in {"checkReserved", "clampReserved"},
         Evolves(r), AfterAdjust(r)
  PROVE  Moves(r)
<1> DEFINE j == [job[r] EXCEPT !.role = IF @ = "maker" THEN "taker" ELSE "maker",
                   !.pc = IF job[r].role = "maker" THEN "loadReserved" ELSE "loadStatus"]
<1>1. /\ job[r] \in Job /\ job \in [Requests -> Job] /\ job[r].pc \in Submitted
      /\ job[r].at \in 1..Len(job[r].fills) /\ Len(job[r].fills) \in Nat
  BY SettlingKnown, LenProperties DEF Settling, Job
<1>2. job' = [job EXCEPT ![r] = j]
  BY <1>1 DEF AfterAdjust
<1>3. /\ j.fills = job[r].fills /\ j.input = job[r].input /\ j.pending = job[r].pending
      /\ j.at = job[r].at
      /\ j.role = IF job[r].role = "maker" THEN "taker" ELSE "maker"
      /\ j.pc = IF job[r].role = "maker" THEN "loadReserved" ELSE "loadStatus"
  BY <1>1 DEF Job
<1>4. j \in Job
  <2>1. j.role \in {"maker", "taker"} /\ j.pc \in Labels
    BY <1>3 DEF Labels, Submitted, InFill
  <2>2. /\ DOMAIN j = DOMAIN job[r] /\ j.clone = job[r].clone /\ j.accounts = job[r].accounts
        /\ j.row = job[r].row /\ j.view = job[r].view /\ j.seen = job[r].seen
        /\ j.status = job[r].status
    BY <1>1 DEF Job
  <2> QED  BY ZenonT(40), <1>1, <1>3, <2>1, <2>2 DEF Job
<1> HIDE DEF j
<1>5. Positioned(r)'
  <2>1. job'[r] = j
    BY <1>1, <1>2, <1>4, JobUpdate
  <2> QED  BY <1>1, <1>3, <2>1 DEF Positioned, At, InFill, Auditing
<1> QED  BY <1>1, <1>2, <1>3, <1>4, <1>5, SettlingMoves

LEMMA CheckReservedKeepsTypes ==
  ASSUME TypeInvariant, NEW r \in Requests, CheckReserved(r) PROVE TypeInvariant'
<1>1. At(r, "checkReserved") /\ UNCHANGED <<memory, book, services>>
  BY DEF CheckReserved
<1>2. /\ job[r] \in Job /\ job \in [Requests -> Job] /\ job[r].pc \in Submitted
      /\ ~At(r, "submit") /\ job[r].at \in 1..Len(job[r].fills)
  BY <1>1, SettlingKnown DEF At, Settling
<1>3. Evolves(r)
  BY <1>1 DEF Evolves, memory
<1>4. Moves(r)
  <2>1. CASE Goto(r, "clampReserved")
    <3>1. job' = [job EXCEPT ![r].pc = "clampReserved", ![r].seen = job[r].seen]
      BY <1>2, <2>1 DEF Goto, Job
    <3>2. job[r].seen \in Int
      BY <1>2 DEF Job
    <3> QED  BY <1>2, <1>3, <3>1, <3>2, SettlingGoes
  <2>2. CASE AfterAdjust(r)
    BY <1>1, <1>3, <2>2, AfterAdjustMoves DEF At
  <2> QED  BY <2>1, <2>2 DEF CheckReserved
<1> QED  BY <1>1, <1>2, <1>4, LocalStep

LEMMA ClampReservedKeepsTypes ==
  ASSUME TypeInvariant, NEW r \in Requests, ClampReserved(r) PROVE TypeInvariant'
<1>1. /\ At(r, "clampReserved") /\ UNCHANGED <<wallet, market, auditLog, book, services>>
      /\ orders' = [orders EXCEPT ![Subject(r)].reserved = 0] /\ AfterAdjust(r)
  BY DEF ClampReserved
<1>2. ~At(r, "submit") /\ Subject(r) \in Orders /\ orders[Subject(r)] \in Order
  BY <1>1, SettlingKnown DEF At, Settling
<1>3. orders' \in [Orders -> Order \cup {None}] /\ Evolves(r)
  BY <1>1, <1>2, ZeroIsInteger, ReservedSet
<1>4. Moves(r)
  BY <1>1, <1>3, AfterAdjustMoves DEF At
<1> QED  BY <1>1, <1>2, <1>3, <1>4, InnerStep DEF TypeInvariant, Typed

LEMMA SettleKeepsTypes ==
  ASSUME TypeInvariant, NEW r \in Requests, Settle(r) PROVE TypeInvariant'
<1> DEFINE o == orders[Subject(r)]
           a == o.account
           f == Fill(r)
           next == Settled(wallet[a], MyPair(r), o, f.price, f.quantity)
<1>1. At(r, "settle") /\ UNCHANGED <<orders, market, auditLog, book, services>>
  BY DEF Settle
<1>2. /\ job[r] \in Job /\ job \in [Requests -> Job] /\ Local(r) /\ orders[r] \in Order /\ orders[r] # None
  BY <1>1, KnownOf DEF At, Submitted, InFill, TypeInvariant, Typed
<1>3. /\ job[r].at \in 1..Len(job[r].fills) /\ Len(job[r].fills) \in Nat
      /\ job[r].role \in {"maker", "taker"}
  BY <1>1, <1>2, LenProperties DEF Local, Positioned, Job, At, InFill
<1>4. Evolves(r)
  BY <1>1 DEF Evolves
<1>5. CASE CanSettle(wallet[a], MyPair(r), o, f.quantity)
  <2>1. o \in Order /\ a \in Accounts /\ wallet[a] \in Solvent /\ orders[r].symbol \in Symbols
    <3>1. o \in Order  BY <1>2, <1>3, SubjectTyped
    <3> QED  BY <1>2, <3>1 DEF Order, TypeInvariant, Typed
  <2>2. f.price \in Nat /\ f.quantity \in Nat /\ (o.side = "buy" => f.price <= o.price)
    <3>1. /\ f \in Trade /\ orders[f.maker] \in Order
          /\ f.price = orders[f.maker].price /\ Crosses(orders, r, f.maker)
      BY <1>3, FillTyped
    <3>2. f.price \in Nat /\ f.quantity \in Nat  BY <3>1 DEF Trade
    <3>3. CASE job[r].role = "maker"
      <4>1. o = orders[f.maker]  BY <3>3 DEF Subject
      <4> QED  BY <3>1, <3>2, <4>1
    <3>4. CASE job[r].role # "maker"
      <4>1. o = orders[r]  BY <3>4 DEF Subject
      <4> QED  BY <3>1, <3>2, <4>1 DEF Crosses
    <3> QED  BY <3>3, <3>4
  <2>3. next \in Solvent
    <3> HIDE DEF o, a, f
    <3> QED  BY <1>5, <2>1, <2>2, SettledKeepsSolvent DEF MyPair
  <2>4. wallet' = [wallet EXCEPT ![a] = next]
    BY <1>5 DEF Settle
  <2>5. wallet' \in [Accounts -> Solvent]
    <3> HIDE DEF a, next
    <3> QED  BY <2>1, <2>3, <2>4 DEF TypeInvariant, Typed
  <2>6. CASE job[r].role = "maker"
    <3> DEFINE j == [job[r] EXCEPT !.role = "taker"]
    <3>1. job' = [job EXCEPT ![r] = j]
      BY <1>5, <2>6 DEF Settle
    <3>2. /\ j \in Job /\ j.fills = job[r].fills /\ j.input = job[r].input
          /\ j.pending = job[r].pending /\ j.at = job[r].at /\ j.role = "taker" /\ j.pc = "settle"
      BY <1>1, <1>2 DEF Job, At
    <3> HIDE DEF j
    <3>3. Positioned(r)'
      <4>1. job'[r] = j
        BY <1>2, <3>1, <3>2, JobUpdate
      <4> QED  BY <1>3, <3>2, <4>1 DEF Positioned, At, InFill, Auditing
    <3>4. Moves(r)
      BY <1>1, <1>4, <3>1, <3>2, <3>3, SettlingMoves DEF At, Submitted, InFill
    <3> QED  BY <1>1, <1>4, <2>5, <3>4, InnerStep DEF At, TypeInvariant, Typed
  <2>7. CASE job[r].role # "maker"
    <3> DEFINE j == [job[r] EXCEPT !.role = "maker", !.pc = "loadReserved"]
    <3>1. job' = [job EXCEPT ![r] = j]
      BY <1>5, <2>7 DEF Settle
    <3>2. /\ j \in Job /\ j.fills = job[r].fills /\ j.input = job[r].input
          /\ j.pending = job[r].pending /\ j.at = job[r].at /\ j.role = "maker"
          /\ j.pc = "loadReserved"
      BY ZenonT(40), <1>1, <1>2 DEF Job, At, Labels, Submitted, InFill
    <3> HIDE DEF j
    <3>3. Positioned(r)'
      <4>1. job'[r] = j
        BY <1>2, <3>1, <3>2, JobUpdate
      <4> QED  BY <1>3, <3>2, <4>1 DEF Positioned, At, InFill, Auditing
    <3>4. Moves(r)
      BY <1>1, <1>4, <3>1, <3>2, <3>3, SettlingMoves DEF At, Submitted, InFill
    <3> QED  BY <1>1, <1>4, <2>5, <3>4, InnerStep DEF At, TypeInvariant, Typed
  <2> QED  BY <2>6, <2>7
<1>6. CASE ~CanSettle(wallet[a], MyPair(r), o, f.quantity)
  <2>1. Fail(r) /\ UNCHANGED <<memory, book, services>>
    BY <1>1, <1>6 DEF Settle, memory
  <2> QED  BY <1>1, <2>1, ReturnLocal, LocalStep DEF Fail, At
<1> QED  BY <1>5, <1>6

(* ReleaseRemaining. *)
LEMMA StartReleaseKeepsTypes ==
  ASSUME TypeInvariant, NEW r \in Requests, ReleaseMaker(r) \/ ReleaseTaker(r)
  PROVE  TypeInvariant'
<1>1. /\ job[r].pc \in {"releaseMaker", "releaseTaker"} /\ UNCHANGED <<memory, book, services>>
      /\ \E label \in {"collect", "accounts", "clip", "subtract"} : Goto(r, label)
  BY DEF ReleaseMaker, ReleaseTaker, StartRelease, At
<1>2. /\ job[r] \in Job /\ job \in [Requests -> Job] /\ job[r].pc \in Submitted
      /\ ~At(r, "submit") /\ (job[r].role = "taker" \/ job[r].at \in 1..Len(job[r].fills))
  BY <1>1, SettlingKnown DEF Settling
<1>3. PICK label \in {"collect", "accounts", "clip", "subtract"} : Goto(r, label)
  BY <1>1
<1>4. job' = [job EXCEPT ![r].pc = label, ![r].seen = job[r].seen] /\ job[r].seen \in Int
  BY <1>2, <1>3 DEF Goto, Job
<1>5. Moves(r)
  <2>1. Evolves(r)
    BY <1>1 DEF Evolves, memory
  <2> QED  BY <1>2, <1>4, <2>1, SettlingGoes
<1> QED  BY <1>1, <1>2, <1>5, LocalStep

LEMMA ClipReservedKeepsTypes ==
  ASSUME TypeInvariant, NEW r \in Requests, ClipReserved(r) PROVE TypeInvariant'
<1>1. /\ At(r, "clip") /\ UNCHANGED <<wallet, market, auditLog, book, services>>
      /\ orders' = [orders EXCEPT ![Subject(r)].reserved = LockedBy(r)] /\ Goto(r, "subtract")
  BY DEF ClipReserved, LockedBy
<1>2. /\ job[r] \in Job /\ job \in [Requests -> Job] /\ job[r].pc \in Submitted
      /\ ~At(r, "submit") /\ (job[r].role = "taker" \/ job[r].at \in 1..Len(job[r].fills))
      /\ Subject(r) \in Orders /\ orders[Subject(r)] \in Order /\ LockedBy(r) \in Int
  BY <1>1, SettlingKnown DEF At, Settling
<1>3. orders' \in [Orders -> Order \cup {None}] /\ Evolves(r)
  BY <1>1, <1>2, ReservedSet
<1>4. job' = [job EXCEPT ![r].pc = "subtract", ![r].seen = job[r].seen] /\ job[r].seen \in Int
  BY <1>1, <1>2 DEF Goto, Job
<1>5. Moves(r)
  BY <1>2, <1>3, <1>4, SettlingGoes
<1> QED  BY <1>1, <1>2, <1>3, <1>5, InnerStep DEF TypeInvariant, Typed

LEMMA SubtractReservedKeepsTypes ==
  ASSUME TypeInvariant, NEW r \in Requests, SubtractReserved(r) PROVE TypeInvariant'
<1>1. /\ At(r, "subtract") /\ UNCHANGED <<memory, book, services>>
      /\ job' = [job EXCEPT ![r].pc = "add", ![r].seen = orders[Subject(r)].reserved]
  BY DEF SubtractReserved
<1>2. /\ job[r].pc \in Submitted /\ ~At(r, "submit")
      /\ (job[r].role = "taker" \/ job[r].at \in 1..Len(job[r].fills))
      /\ orders[Subject(r)].reserved \in Int
  BY <1>1, SettlingKnown DEF At, Settling, Order
<1>3. Moves(r)
  <2>1. Evolves(r)
    BY <1>1 DEF Evolves, memory
  <2> QED  BY <1>1, <1>2, <2>1, SettlingGoes
<1> QED  BY <1>1, <1>2, <1>3, LocalStep

(* In turn, the same amount moves from one balance to the other. *)
LEMMA ReleaseIsCovered ==
  ASSUME TypeInvariant, Turns, NEW r \in Requests, At(r, "add")
  PROVE  /\ job[r].seen = orders[Subject(r)].reserved
         /\ 0 <= orders[Subject(r)].reserved /\ orders[Subject(r)].reserved <= LockedBy(r)
<1>1. Busy(r) /\ Subject(r) \in Orders /\ orders[Subject(r)] # None /\ orders[Subject(r)] \in Order
  BY SettlingKnown DEF At, Settling
<1>2. \A q \in Requests : job[q].pc \notin {"checkReserved", "clampReserved"}
  BY <1>1 DEF Turns, InTurn, Busy, At
<1>3. ~(orders[Subject(r)].reserved < 0)
  BY <1>1, <1>2 DEF Turns
<1> QED  BY <1>1, <1>3 DEF Turns, At, Order

LEMMA AddReservedKeepsTypes ==
  ASSUME TypeInvariant, Serial => Turns, NEW r \in Requests, AddReserved(r)
  PROVE  TypeInvariant'
<1> DEFINE o == orders[Subject(r)]
           a == o.account
           asset == LockedAsset(MyPair(r), o)
           next == Released(wallet[a], asset, job[r].seen, o.reserved)
<1>1. /\ At(r, "add") /\ UNCHANGED <<orders, market, auditLog, book, services>>
      /\ wallet' = [wallet EXCEPT ![a] = next]
      /\ job' = [job EXCEPT ![r].pc = "clear", ![r].seen = 0]
  BY DEF AddReserved
<1>2. /\ job[r] \in Job /\ job[r].pc \in Submitted /\ ~At(r, "submit")
      /\ (job[r].role = "taker" \/ job[r].at \in 1..Len(job[r].fills))
      /\ o \in Order /\ a \in Accounts /\ asset \in Assets /\ wallet[a] \in Solvent
      /\ LockedBy(r) = wallet[a].balances[asset].locked /\ LockedBy(r) \in Int
  BY <1>1, SettlingKnown DEF At, Settling
<1>3. job[r].seen \in Int /\ o.reserved \in Int
  BY <1>2 DEF Job, Order
<1>4. Serial => job[r].seen <= wallet[a].balances[asset].locked /\ o.reserved >= 0
  BY <1>1, <1>2, <1>3, ReleaseIsCovered
<1> HIDE DEF o, a, asset
<1>5. next \in Solvent
  BY <1>2, <1>3, <1>4, ReleasedKeepsSolvent
<1> HIDE DEF next
<1>6. wallet' \in [Accounts -> Solvent]
  BY <1>1, <1>2, <1>5 DEF TypeInvariant, Typed
<1>7. Evolves(r)
  BY <1>1 DEF Evolves
<1>8. Moves(r)
  BY <1>1, <1>2, <1>7, ZeroIsInteger, SettlingGoes
<1> QED  BY <1>1, <1>2, <1>6, <1>7, <1>8, InnerStep DEF TypeInvariant, Typed

LEMMA ClearReservedKeepsTypes ==
  ASSUME TypeInvariant, NEW r \in Requests, ClearReserved(r) PROVE TypeInvariant'
<1>1. /\ At(r, "clear") /\ UNCHANGED <<wallet, market, auditLog, book, services>>
      /\ orders' = [orders EXCEPT ![Subject(r)].reserved = 0] /\ Goto(r, "collect")
  BY DEF ClearReserved
<1>2. /\ job[r] \in Job /\ job \in [Requests -> Job] /\ job[r].pc \in Submitted
      /\ ~At(r, "submit") /\ (job[r].role = "taker" \/ job[r].at \in 1..Len(job[r].fills))
      /\ Subject(r) \in Orders /\ orders[Subject(r)] \in Order
  BY <1>1, SettlingKnown DEF At, Settling
<1>3. orders' \in [Orders -> Order \cup {None}] /\ Evolves(r)
  BY <1>1, <1>2, ZeroIsInteger, ReservedSet
<1>4. job' = [job EXCEPT ![r].pc = "collect", ![r].seen = job[r].seen] /\ job[r].seen \in Int
  BY <1>1, <1>2 DEF Goto, Job
<1>5. Moves(r)
  BY <1>2, <1>3, <1>4, SettlingGoes
<1> QED  BY <1>1, <1>2, <1>3, <1>5, InnerStep DEF TypeInvariant, Typed

-----------------------------------------------------------------------------
(* A request enters *)

LEMMA EntersLocal ==
  ASSUME TypeInvariant, NEW r \in Requests, At(r, "idle"), NEW in \in Inputs, NEW j \in Job,
         job' = [job EXCEPT ![r] = j],
         j.input = in, j.fills = << >>, j.at = 0, j.role = "taker", j.pending = {},
         \/ j.pc = "failed"
         \/ j.pc = "persist" /\ in.kind = "deposit" /\ j.clone \in Solvent
         \/ j.pc = "reserve" /\ in.kind # "deposit" /\ orders'[r] # None
                             /\ orders'[r].sequence = 0
  PROVE  Moves(r)
<1>1. /\ job' \in [Requests -> Job] /\ job'[r] = j
      /\ \A q \in Requests \ {r} : job'[q] = job[q]
  BY JobUpdate DEF TypeInvariant, Typed
<1>2. j.pc \in {"failed", "persist", "reserve"}
  OBVIOUS
<1>3. Phased(r)'
  BY <1>1, <1>2 DEF Phased, At, Busy, Fresh, Syncing, Unsubmitted, Auditing, Submitted,
     InFill, WithRow
<1>4. Positioned(r)'
  BY <1>1, <1>2 DEF Positioned, At, InFill, Auditing
<1>5. Priced(r)'
  <2>1. \A i \in DOMAIN << >> : FALSE
    OBVIOUS
  <2>2. job'[r].fills = << >>
    BY <1>1
  <2> QED  BY <2>1, <2>2 DEF Priced
<1>6. Loaded(r)'
  BY <1>1, <1>2 DEF Loaded, At, Syncing, WithRow
<1> QED  BY <1>1, <1>2, <1>3, <1>4, <1>5, <1>6 DEF Local, Moves

LEMMA AcceptKeepsTypes ==
  ASSUME TypeInvariant, NEW r \in Requests, Accept(r) PROVE TypeInvariant'
<1>1. /\ At(r, "idle") /\ job[r] = Idle /\ orders[r] = None /\ r \in Orders /\ job[r] \in Job
      /\ job \in [Requests -> Job]
  BY KnownOf DEF Accept, Local, Phased, TypeInvariant, Typed
<1>2. PICK in \in Inputs : Deposit(r, in) \/ PlaceOrder(r, in)
  BY DEF Accept
<1>3. WellFormed(in)
  BY ExchangeAssumption
<1>4. "failed" \in Labels /\ "persist" \in Labels /\ "reserve" \in Labels
  BY DEF Labels, Syncing, Unsubmitted
<1>5. job[r].fills = << >> /\ job[r].at = 0 /\ job[r].role = "taker" /\ job[r].pending = {}
  BY <1>1 DEF Idle
<1>6. ASSUME NEW label \in Labels, job' = [job EXCEPT ![r].pc = label, ![r].input = in],
             \/ label = "failed"
             \/ label = "reserve" /\ in.kind # "deposit" /\ orders'[r] # None
                                  /\ orders'[r].sequence = 0
      PROVE  Moves(r)
  <2> DEFINE j == [job[r] EXCEPT !.pc = label, !.input = in]
  <2>1. job' = [job EXCEPT ![r] = j]
    BY <1>1, <1>6
  <2>2. /\ j \in Job /\ j.pc = label /\ j.input = in /\ j.fills = << >> /\ j.at = 0
        /\ j.role = "taker" /\ j.pending = {}
    BY ZenonT(40), <1>1, <1>5 DEF Job
  <2> HIDE DEF j
  <2> QED  BY <1>1, <1>6, <2>1, <2>2, EntersLocal
<1>7. CASE Deposit(r, in)
  <2>1. UNCHANGED <<memory, book, services>> /\ in.kind = "deposit"
    BY <1>7 DEF Deposit
  <2>2. in.account \in Accounts /\ in.asset \in Assets /\ in.amount \in Int
    BY <1>3, <2>1 DEF WellFormed
  <2>3. CASE in.amount <= 0
    <3>1. Moves(r)  BY <1>4, <1>6, <1>7, <2>3 DEF Deposit
    <3> QED  BY <1>1, <2>1, <3>1, LocalStep DEF At
  <2>4. CASE ~(in.amount <= 0)
    <3> DEFINE c == Crediting(wallet[in.account], in.asset, in.amount)
               j == [job[r] EXCEPT !.pc = "persist", !.input = in, !.clone = c]
    <3>1. job' = [job EXCEPT ![r].pc = "persist", ![r].input = in, ![r].clone = c]
      BY <1>7, <2>4 DEF Deposit
    <3>2. c \in Solvent
      BY <2>2, <2>4, CreditingKeepsSolvent DEF TypeInvariant, Typed
    <3> HIDE DEF c
    <3>3. job' = [job EXCEPT ![r] = j]
      BY <1>1, <3>1
    <3>4. /\ j \in Job /\ j.pc = "persist" /\ j.input = in /\ j.fills = << >> /\ j.at = 0
          /\ j.role = "taker" /\ j.pending = {} /\ j.clone = c
      BY ZenonT(40), <1>1, <1>4, <1>5, <3>2 DEF Job
    <3> HIDE DEF j
    <3>5. Moves(r)
      BY <1>1, <2>1, <3>2, <3>3, <3>4, EntersLocal
    <3> QED  BY <1>1, <2>1, <3>5, LocalStep DEF At
  <2> QED  BY <2>3, <2>4
<1>8. CASE PlaceOrder(r, in)
  <2>1. UNCHANGED <<wallet, market, auditLog, book, services>> /\ in.kind = "order"
    BY <1>8 DEF PlaceOrder
  <2>2. in.account \in Accounts /\ in.price \in Int /\ in.quantity \in Int /\ in.kind # "deposit"
    BY <1>3, <2>1 DEF WellFormed
  <2>3. CASE ValidateOrder(in)
    <3>1. /\ job' = [job EXCEPT ![r].pc = "reserve", ![r].input = in]
          /\ orders' = [orders EXCEPT ![r] = NewOrder(in)]
      BY <1>8, <2>3 DEF PlaceOrder
    <3>2. NewOrder(in) \in Order /\ NewOrder(in).sequence = 0
      BY <2>2, <2>3 DEF ValidateOrder, NewOrder, Order
    <3>3. NewOrder(in) # None
      BY <3>2, ExchangeAssumption
    <3>4. orders' \in [Orders -> Order \cup {None}] /\ Evolves(r) /\ orders'[r] = NewOrder(in)
      <4> HIDE DEF NewOrder
      <4> QED  BY <1>1, <3>1, <3>2 DEF TypeInvariant, Typed, Evolves
    <3>5. Moves(r)
      BY <1>4, <1>6, <2>2, <3>1, <3>2, <3>3, <3>4
    <3>6. wallet' \in [Accounts -> Solvent]
      BY <2>1 DEF TypeInvariant, Typed
    <3> QED  BY <1>1, <2>1, <3>4, <3>5, <3>6, InnerStep DEF At
  <2>4. CASE ~ValidateOrder(in)
    <3>1. /\ job' = [job EXCEPT ![r].pc = "failed", ![r].input = in]
          /\ UNCHANGED <<memory, book, services>>
      BY <1>8, <2>1, <2>4 DEF PlaceOrder, memory
    <3>2. Moves(r)  BY <1>4, <1>6, <3>1
    <3> QED  BY <1>1, <3>1, <3>2, LocalStep DEF At
  <2> QED  BY <2>3, <2>4
<1> QED  BY <1>2, <1>7, <1>8

-----------------------------------------------------------------------------
(* Inside Submit *)

LEMMA SubmitKeepsTypes ==
  ASSUME TypeInvariant, NEW r \in Requests, Submit(r) PROVE TypeInvariant'
<1> DEFINE s == orders[r].symbol
           x == [orders[r] EXCEPT !.sequence = seq[s] + 1, !.remaining = orders[r].quantity]
<1>1. /\ At(r, "submit") /\ Goto(r, "match")
      /\ UNCHANGED <<wallet, market, auditLog, queue, tape, services>>
      /\ seq' = [seq EXCEPT ![s] = seq[s] + 1] /\ holder' = [holder EXCEPT ![s] = r]
  BY DEF Submit
<1>2. /\ job[r] \in Job /\ Local(r) /\ r \in Orders /\ orders[r] \in Order /\ orders[r] # None
      /\ job[r].input \in Inputs /\ job[r].input.kind # "deposit"
  BY <1>1, KnownOf DEF At, Unsubmitted
<1>3. orders \in [Orders -> Order \cup {None}] /\ seq \in [Symbols -> Nat] /\ s \in Symbols
  BY <1>2 DEF TypeInvariant, Typed, Order
<1>4. orders' = [orders EXCEPT ![r] = x]
  <2>1. orders' = [orders EXCEPT ![r].sequence = seq[s] + 1, ![r].remaining = orders[r].quantity]
    BY DEF Submit
  <2> QED  BY <1>2, <1>3, <2>1
<1>5. /\ x \in Order /\ x.side = orders[r].side /\ x.price = orders[r].price
      /\ x.sequence > 0
  <2>1. seq[s] + 1 \in Nat /\ seq[s] + 1 > 0 /\ orders[r].quantity \in Nat
    BY <1>2, <1>3 DEF Order
  <2> HIDE DEF s
  <2>2. x.sequence = seq[s] + 1 /\ x.side = orders[r].side /\ x.price = orders[r].price
    BY <1>2 DEF Order
  <2>3. x \in Order
    BY <1>2, <2>1 DEF Order
  <2> QED  BY <2>1, <2>2, <2>3
<1>6. x # None
  BY <1>5, ExchangeAssumption
<1> HIDE DEF x
<1>7. orders' \in [Orders -> Order \cup {None}] /\ Evolves(r) /\ orders'[r] = x
  BY <1>1, <1>2, <1>3, <1>4, <1>5, <1>6 DEF Evolves
<1>8. Fresh(r)
  BY <1>1, <1>2 DEF Local, Phased, At, Busy, Unsubmitted
<1>9. "match" \in Labels
  BY DEF Labels, Submitted
<1>10. /\ job' \in [Requests -> Job] /\ job'[r] = [job[r] EXCEPT !.pc = "match"]
       /\ job'[r].pc = "match" /\ \A q \in Requests \ {r} : job'[q] = job[q]
  BY <1>1, <1>9, GotoFacts
<1>11. /\ job'[r].fills = job[r].fills /\ job'[r].pending = job[r].pending
       /\ job'[r].input = job[r].input /\ job'[r].at = job[r].at /\ job'[r].role = job[r].role
  BY <1>2, <1>10 DEF Job
<1>12. Local(r)'
  <2>1. Phased(r)'
    BY <1>2, <1>5, <1>6, <1>7, <1>8, <1>10, <1>11 DEF Phased, At, Busy, Fresh,
       Syncing, Unsubmitted, Submitted, Auditing, InFill, WithRow
  <2>2. Positioned(r)'
    BY <1>8, <1>10, <1>11 DEF Positioned, Fresh, At, Auditing, InFill
  <2>3. Priced(r)' /\ \A o \in job'[r].pending : orders'[o] # None
    BY <1>7, <1>11, OwnKeep
  <2>4. Loaded(r)'
    BY <1>10, <2>3 DEF Loaded, At, Syncing, WithRow
  <2> QED  BY <2>1, <2>2, <2>3, <2>4 DEF Local
<1>13. Typed'
  <2>1. seq' \in [Symbols -> Nat]
    BY <1>1, <1>3
  <2>2. holder' \in [Symbols -> Requests \cup {None}]
    BY <1>1, <1>3 DEF TypeInvariant, Typed
  <2> QED  BY <1>1, <1>7, <1>10, <2>1, <2>2 DEF TypeInvariant, Typed, services
<1>14. Resting'
  <2> SUFFICES ASSUME NEW t \in Symbols, NEW side \in Sides, NEW o \in Range(queue[t][side])
               PROVE  /\ orders'[o] # None
                      /\ o \in Requests => orders'[o].sequence > 0 /\ job'[o].pc # "match"
    BY <1>1 DEF Resting, At
  <2>1. /\ orders[o] # None
        /\ o \in Requests => orders[o].sequence > 0 /\ job[o].pc # "match"
    BY DEF TypeInvariant, Resting, At
  <2>2. o \in Orders
    <3>1. queue[t][side] \in Seq(Orders)  BY DEF TypeInvariant, Typed
    <3> QED  BY <3>1, RangeProperties
  <2>3. o # r
    <3>1. orders[r].sequence = 0
      BY <1>1, <1>2 DEF Local, Phased, At, Busy, Unsubmitted
    <3> QED  BY <2>1, <3>1
  <2> QED  BY <1>7, <1>10, <2>1, <2>2, <2>3 DEF Evolves
<1>15. \A q \in Requests : Local(q)'
  BY <1>7, <1>10, <1>12, OthersKeep
<1> QED  BY <1>13, <1>14, <1>15 DEF TypeInvariant

LEMMA SidesFacts ==
  ASSUME NEW side \in Sides PROVE Opposite(side) \in Sides /\ Opposite(side) # side
BY SMTT(40) DEF Sides, Opposite

(* What one match does to the two orders, the queues and the fills. *)
LEMMA MatchFacts ==
  ASSUME TypeInvariant, NEW r \in Requests, Match(r)
  PROVE  LET s == orders[r].symbol
             q == queue[s][Opposite(orders[r].side)]
             maker == Head(q)
             n == FillQuantity(orders, r, maker)
             fill == FillOf(orders, r, maker)
         IN /\ s \in Symbols /\ Opposite(orders[r].side) \in Sides
            /\ q \in Seq(Orders) /\ q # << >> /\ maker \in Range(q)
            /\ maker \in Orders /\ maker # r
            /\ orders[maker] \in Order /\ orders[maker] # None
            /\ Crosses(orders, r, maker)
            /\ fill \in Trade /\ fill.maker = maker /\ fill.taker = r
            /\ fill.price = orders[maker].price
            /\ orders' \in [Orders -> Order \cup {None}]
            /\ \A o \in Orders \ {r, maker} : orders'[o] = orders[o]
            /\ orders'[maker] = [orders[maker] EXCEPT !.remaining = @ - n]
            /\ orders'[r] = [orders[r] EXCEPT !.remaining = @ - n]
            /\ orders'[maker] \in Order /\ orders'[r] \in Order
            /\ n \in Nat /\ n <= orders[maker].remaining /\ n <= orders[r].remaining
<1> DEFINE s == orders[r].symbol
           q == queue[s][Opposite(orders[r].side)]
           maker == Head(q)
           n == FillQuantity(orders, r, maker)
           fill == FillOf(orders, r, maker)
<1>1. /\ At(r, "match") /\ CanMatch(orders, queue[s], r) /\ orders' = Filled(orders, r, maker)
  BY DEF Match
<1>2. r \in Orders /\ orders[r] \in Order /\ orders[r] # None
  BY <1>1, KnownOf DEF At, Submitted
<1>3. s \in Symbols /\ orders[r].side \in Sides /\ Opposite(orders[r].side) \in Sides
  BY SMTT(40), <1>2, SidesFacts DEF Order
<1>4. q \in Seq(Orders) /\ q # << >> /\ Crosses(orders, r, maker)
  BY <1>1, <1>3 DEF CanMatch, TypeInvariant, Typed
<1> HIDE DEF q
<1>5. maker \in Range(q) /\ maker \in Orders
  <2>1. Len(q) \in Nat \ {0} /\ maker = q[1]
    BY <1>4, EmptySeq, HeadTailProperties
  <2>2. 1 \in 1..Len(q)
    BY <2>1
  <2> QED  BY <1>4, <2>1, <2>2, RangeProperties
<1>6. orders[maker] # None /\ maker # r
  <2>1. orders[maker] # None /\ (maker \in Requests => ~At(maker, "match"))
    BY <1>3, <1>5 DEF TypeInvariant, Resting, q
  <2> QED  BY <1>1, <2>1
<1>7. orders \in [Orders -> Order \cup {None}] /\ orders[maker] \in Order
  BY <1>5, <1>6 DEF TypeInvariant, Typed
<1> HIDE DEF maker
<1>8. /\ orders[r].remaining \in Nat /\ orders[maker].remaining \in Nat
      /\ n \in Nat /\ n <= orders[r].remaining /\ n <= orders[maker].remaining
  <2>1. orders[r].remaining \in Nat /\ orders[maker].remaining \in Nat
    BY <1>2, <1>7 DEF Order
  <2> QED  BY <2>1 DEF FillQuantity, Lesser
<1>9. orders' = [orders EXCEPT ![maker].remaining = @ - n, ![r].remaining = @ - n]
  BY <1>1 DEF Filled
<1>10. fill = [maker |-> maker, taker |-> r, price |-> orders[maker].price, quantity |-> n]
  BY DEF FillOf
<1> HIDE DEF n, fill
<1>11. /\ \A o \in Orders \ {r, maker} : orders'[o] = orders[o]
       /\ orders'[maker] = [orders[maker] EXCEPT !.remaining = @ - n]
       /\ orders'[r] = [orders[r] EXCEPT !.remaining = @ - n]
       /\ DOMAIN orders' = Orders
  BY <1>2, <1>5, <1>6, <1>7, <1>9
<1>12. orders'[maker] \in Order /\ orders'[r] \in Order
  <2>1. orders[r].remaining - n \in Nat /\ orders[maker].remaining - n \in Nat
    BY <1>8
  <2> QED  BY <1>2, <1>7, <1>11, <2>1 DEF Order
<1>13. orders' \in [Orders -> Order \cup {None}]
  <2>1. orders' = [o \in Orders |-> orders'[o]]
    BY <1>7, <1>9
  <2>2. \A o \in Orders : orders'[o] \in Order \cup {None}
    BY <1>7, <1>11, <1>12
  <2> QED  BY <2>1, <2>2
<1>14. fill \in Trade /\ fill.maker = maker /\ fill.taker = r /\ fill.price = orders[maker].price
  <2>1. orders[maker].price \in Nat  BY SMTT(40), <1>7 DEF Order
  <2> QED  BY <1>5, <1>8, <1>10, <2>1 DEF Trade
<1> QED
  BY ZenonT(40), <1>3, <1>4, <1>5, <1>6, <1>7, <1>8, <1>11, <1>12, <1>13, <1>14 DEF q, maker,
     n, fill

LEMMA MatchKeepsTypes ==
  ASSUME TypeInvariant, NEW r \in Requests, Match(r) PROVE TypeInvariant'
<1> DEFINE s == orders[r].symbol
           away == Opposite(orders[r].side)
           q == queue[s][away]
           maker == Head(q)
           n == FillQuantity(orders, r, maker)
           fill == FillOf(orders, r, maker)
<1>1. /\ At(r, "match") /\ UNCHANGED <<wallet, market, auditLog, seq, holder, services>>
      /\ queue' = [queue EXCEPT ![s] = AfterFill(orders, queue[s], r, maker)]
      /\ tape' = [tape EXCEPT ![s] = Append(tape[s], fill)]
      /\ job' = [job EXCEPT ![r] = [job[r] EXCEPT !.fills = Append(job[r].fills, fill)]]
  BY DEF Match
<1>2. /\ job[r] \in Job /\ Local(r) /\ r \in Orders /\ orders[r] \in Order /\ orders[r] # None
      /\ job[r].input \in Inputs /\ job[r].input.kind # "deposit" /\ job \in [Requests -> Job]
  BY SMTT(40), <1>1, KnownOf DEF At, Submitted, TypeInvariant, Typed
<1>3. /\ s \in Symbols /\ away \in Sides /\ q \in Seq(Orders) /\ q # << >>
      /\ maker \in Orders /\ maker # r /\ orders[maker] \in Order /\ orders[maker] # None
      /\ Crosses(orders, r, maker)
      /\ fill \in Trade /\ fill.maker = maker /\ fill.taker = r
      /\ fill.price = orders[maker].price
  BY ZenonT(40), MatchFacts
<1>4. /\ orders' \in [Orders -> Order \cup {None}]
      /\ \A o \in Orders \ {r, maker} : orders'[o] = orders[o]
      /\ orders'[maker] = [orders[maker] EXCEPT !.remaining = @ - n]
      /\ orders'[r] = [orders[r] EXCEPT !.remaining = @ - n]
      /\ orders'[maker] \in Order /\ orders'[r] \in Order
  BY ZenonT(40), MatchFacts
<1>5. AfterFill(orders, queue[s], r, maker) = queue[s]
      \/ AfterFill(orders, queue[s], r, maker) = [queue[s] EXCEPT ![away] = Tail(q)]
  BY DEF AfterFill
<1>6. queue \in [Symbols -> [Sides -> Seq(Orders)]] /\ tape \in [Symbols -> Seq(Trade)]
  BY DEF TypeInvariant, Typed
<1>7. Tail(q) \in Seq(Orders) /\ Range(Tail(q)) \subseteq Range(q)
  <2> HIDE DEF q
  <2>1. /\ Tail(q) \in Seq(Orders) /\ Len(Tail(q)) = Len(q) - 1 /\ Len(q) \in Nat \ {0}
        /\ \A i \in 1..Len(Tail(q)) : Tail(q)[i] = q[i + 1]
    BY <1>3, EmptySeq, HeadTailProperties
  <2>2. ASSUME NEW y \in Range(Tail(q)) PROVE y \in Range(q)
    <3>1. PICK i \in 1..Len(Tail(q)) : Tail(q)[i] = y
      BY <2>1, RangeProperties
    <3>2. i + 1 \in 1..Len(q) /\ q[i + 1] = y
      BY <2>1, <3>1
    <3> QED  BY <1>3, <3>2, RangeProperties
  <2> QED  BY <2>1, <2>2
<1> HIDE DEF s, away, q, maker, n, fill
<1>8. /\ orders'[maker].side = orders[maker].side /\ orders'[maker].price = orders[maker].price
      /\ orders'[maker].sequence = orders[maker].sequence
      /\ orders'[r].side = orders[r].side /\ orders'[r].price = orders[r].price
      /\ orders'[r].sequence = orders[r].sequence
      /\ orders'[maker] # None /\ orders'[r] # None
  BY ZenonT(40), <1>2, <1>3, <1>4, ExchangeAssumption DEF Order
<1>9. Evolves(r)
  <2> SUFFICES ASSUME NEW o \in Orders
               PROVE  /\ orders[o] # None =>
                           /\ orders'[o] # None
                           /\ orders'[o].side = orders[o].side
                           /\ orders'[o].price = orders[o].price
                           /\ orders'[o].sequence = orders[o].sequence
                      /\ orders[o] = None /\ o # r => orders'[o] = None
    BY DEF Evolves
  <2>1. CASE o = r
    BY <1>2, <1>8, <2>1
  <2>2. CASE o = maker
    BY <1>3, <1>8, <2>2
  <2>3. CASE o \in Orders \ {r, maker}
    <3>1. orders'[o] = orders[o]
      BY <1>4, <2>3
    <3> QED  BY <3>1
  <2> QED  BY <2>1, <2>2, <2>3
<1>10. /\ queue' \in [Symbols -> [Sides -> Seq(Orders)]]
       /\ \A t \in Symbols, side \in Sides : Range(queue'[t][side]) \subseteq Range(queue[t][side])
  <2>1. CASE AfterFill(orders, queue[s], r, maker) = queue[s]
    <3>1. queue' = queue
      BY <1>1, <1>3, <1>6, <2>1
    <3> QED  BY <1>6, <3>1
  <2>2. CASE AfterFill(orders, queue[s], r, maker) = [queue[s] EXCEPT ![away] = Tail(q)]
    <3>1. queue' = [queue EXCEPT ![s] = [queue[s] EXCEPT ![away] = Tail(q)]]
      BY <1>1, <2>2
    <3>2. queue' \in [Symbols -> [Sides -> Seq(Orders)]]
      BY <1>3, <1>6, <1>7, <3>1
    <3>3. ASSUME NEW t \in Symbols, NEW side \in Sides
          PROVE  queue'[t][side] = IF t = s /\ side = away THEN Tail(q) ELSE queue[t][side]
      BY <1>3, <1>6, <3>1
    <3> QED  BY <1>7, <3>2, <3>3 DEF q
  <2> QED  BY <1>5, <2>1, <2>2
<1>11. tape' \in [Symbols -> Seq(Trade)]
  <2>1. Append(tape[s], fill) \in Seq(Trade)
    BY <1>3, <1>6, AppendProperties
  <2> QED  BY <1>1, <1>3, <1>6, <2>1
<1> DEFINE fills == Append(job[r].fills, fill)
           j == [job[r] EXCEPT !.fills = fills]
<1>12. /\ job[r].fills \in Seq(Trade) /\ fills \in Seq(Trade)
       /\ Len(job[r].fills) \in Nat /\ Len(fills) = Len(job[r].fills) + 1
       /\ DOMAIN job[r].fills = 1..Len(job[r].fills) /\ DOMAIN fills = 1..Len(fills)
       /\ \A i \in 1..Len(job[r].fills) : fills[i] = job[r].fills[i]
       /\ fills[Len(job[r].fills) + 1] = fill
  <2>1. job[r].fills \in Seq(Trade)
    BY <1>2 DEF Job
  <2> QED  BY <1>3, <2>1, AppendProperties, LenProperties
<1> HIDE DEF fills
<1>13. /\ j \in Job /\ j.pc = "match" /\ j.fills = fills /\ j.input = job[r].input
       /\ j.at = job[r].at /\ j.role = job[r].role /\ j.pending = job[r].pending
  BY <1>1, <1>2, <1>12 DEF Job, At
<1>14. job' = [job EXCEPT ![r] = j]
  BY <1>1 DEF fills
<1> HIDE DEF j
<1>15. /\ job' \in [Requests -> Job] /\ job'[r] = j
       /\ \A p \in Requests \ {r} : job'[p] = job[p]
  BY <1>2, <1>13, <1>14, JobUpdate
<1>16. Local(r)'
  <2>1. orders'[r].sequence > 0 /\ orders'[r].sequence # 0
    <3>1. orders[r].sequence > 0
      BY <1>1, <1>2 DEF Local, Phased, At, Busy, Submitted
    <3>2. orders[r].sequence \in Nat
      BY <1>2 DEF Order
    <3> QED  BY <1>8, <3>1, <3>2
  <2>2. Phased(r)'
    BY <1>2, <1>8, <1>13, <1>15, <2>1 DEF Phased, At, Busy, Unsubmitted
  <2>3. Positioned(r)'
    BY <1>1, <1>2, <1>13, <1>15 DEF Local, Positioned, At, Auditing, InFill
  <2>4. Priced(r)'
    <3> SUFFICES ASSUME NEW i \in 1..Len(fills)
                 PROVE  /\ fills[i].taker = r
                        /\ orders'[r] # None
                        /\ orders'[fills[i].maker] # None
                        /\ fills[i].price = orders'[fills[i].maker].price
                        /\ Crosses(orders', r, fills[i].maker)
      BY SMTT(40), <1>12, <1>13, <1>15 DEF Priced, Crosses
    <3>1. CASE i \in 1..Len(job[r].fills)
      <4>1. /\ fills[i] = job[r].fills[i] /\ fills[i].maker \in Orders
        <5>1. job[r].fills[i] \in Trade
          BY <1>12, <3>1, ElementOfSeq
        <5> QED  BY <1>12, <3>1, <5>1 DEF Trade
      <4>2. /\ fills[i].taker = r
            /\ orders[fills[i].maker] # None
            /\ fills[i].price = orders[fills[i].maker].price
            /\ Crosses(orders, r, fills[i].maker)
        BY <1>2, <1>12, <3>1, <4>1 DEF Local, Priced
      <4>3. /\ orders'[fills[i].maker] # None
            /\ orders'[fills[i].maker].price = orders[fills[i].maker].price
        BY <1>9, <4>1, <4>2 DEF Evolves
      <4> QED  BY <1>8, <4>1, <4>2, <4>3 DEF Crosses
    <3>2. CASE i = Len(job[r].fills) + 1
      BY <1>3, <1>8, <1>12, <3>2 DEF Crosses
    <3> QED  BY <1>12, <3>1, <3>2
  <2>5. Loaded(r)'
    <3>1. job[r].pending \subseteq Orders
      BY <1>2 DEF Job
    <3>2. \A o \in job[r].pending : orders'[o] # None
      BY <1>2, <1>9, <3>1 DEF Local, Loaded, Evolves
    <3> QED  BY <1>13, <1>15, <3>2 DEF Loaded, At, Syncing, WithRow
  <2> QED  BY <2>2, <2>3, <2>4, <2>5 DEF Local
<1>17. Typed'
  BY <1>1, <1>4, <1>10, <1>11, <1>15 DEF TypeInvariant, Typed, services
<1>18. Resting'
  <2> SUFFICES ASSUME NEW t \in Symbols, NEW side \in Sides, NEW o \in Range(queue'[t][side])
               PROVE  /\ orders'[o] # None
                      /\ o \in Requests => orders'[o].sequence > 0 /\ job'[o].pc # "match"
    BY DEF Resting, At
  <2>1. o \in Range(queue[t][side])
    BY <1>10
  <2>2. /\ orders[o] # None
        /\ o \in Requests => orders[o].sequence > 0 /\ job[o].pc # "match"
    BY <2>1 DEF TypeInvariant, Resting, At
  <2>3. o \in Orders /\ o # r
    <3>1. queue[t][side] \in Seq(Orders)  BY <1>6
    <3> QED  BY <1>1, <2>1, <2>2, <3>1, RangeProperties DEF At
  <2> QED  BY <1>1, <1>9, <1>15, <2>2, <2>3 DEF Evolves, At
<1>19. \A p \in Requests : Local(p)'
  BY <1>9, <1>15, <1>16, OthersKeep
<1> QED  BY <1>17, <1>18, <1>19 DEF TypeInvariant

LEMMA FinishKeepsTypes ==
  ASSUME TypeInvariant, NEW r \in Requests, Finish(r) PROVE TypeInvariant'
<1> DEFINE s == orders[r].symbol
           side == orders[r].side
<1>1. /\ At(r, "match") /\ UNCHANGED <<memory, seq, tape, services>> /\ Goto(r, "loadStatus")
      /\ holder' = [holder EXCEPT ![s] = None]
  BY DEF Finish
<1>2. /\ job[r] \in Job /\ Local(r) /\ r \in Orders /\ orders[r] \in Order /\ orders[r] # None
      /\ job[r].input \in Inputs /\ job[r].input.kind # "deposit" /\ orders' = orders
      /\ s \in Symbols /\ side \in Sides
  BY <1>1, KnownOf DEF At, Submitted, memory, Order
<1>3. queue \in [Symbols -> [Sides -> Seq(Orders)]]
  BY DEF TypeInvariant, Typed
<1>4. /\ queue' \in [Symbols -> [Sides -> Seq(Orders)]]
      /\ \A t \in Symbols, x \in Sides : Range(queue'[t][x]) \subseteq Range(queue[t][x]) \cup {r}
  <2>1. CASE queue' = queue
    BY <1>3, <2>1
  <2>2. CASE queue' # queue
    <3> DEFINE q == queue[s][side]
    <3>1. PICK k \in 1..(Len(q) + 1) :
            queue' = [queue EXCEPT ![s] = Joined(queue[s], side, r, k)]
      BY <2>2 DEF Finish
    <3>2. q \in Seq(Orders)
      BY <1>2, <1>3
    <3> DEFINE placed == Placed(q, r, k)
    <3>3. queue' = [queue EXCEPT ![s] = [queue[s] EXCEPT ![side] = placed]]
      BY <3>1 DEF Joined
    <3> HIDE DEF q
    <3>4. placed \in Seq(Orders)
      BY <1>2, <3>1, <3>2, PlacedProperties
    <3>5. Range(placed) = Range(q) \cup {r}
      BY <1>2, <3>1, <3>2, PlacedRange
    <3> HIDE DEF placed, s, side
    <3>6. queue' \in [Symbols -> [Sides -> Seq(Orders)]]
      BY <1>2, <1>3, <3>3, <3>4
    <3>7. ASSUME NEW t \in Symbols, NEW x \in Sides
          PROVE  queue'[t][x] = IF t = s /\ x = side THEN placed ELSE queue[t][x]
      BY <1>2, <1>3, <3>3
    <3> QED  BY <3>5, <3>6, <3>7 DEF q
  <2> QED  BY <2>1, <2>2
<1>5. Evolves(r)
  BY <1>2 DEF Evolves
<1>6. "loadStatus" \in Labels
  BY DEF Labels, Submitted
<1>7. /\ job' \in [Requests -> Job] /\ job'[r] = [job[r] EXCEPT !.pc = "loadStatus"]
      /\ job'[r].pc = "loadStatus" /\ \A q \in Requests \ {r} : job'[q] = job[q]
  BY <1>1, <1>6, GotoFacts
<1>8. orders[r].sequence > 0
  BY <1>1, <1>2 DEF Local, Phased, At, Busy, Submitted
<1>9. Local(r)'
  <2>1. Len(job[r].fills) \in Nat
    BY <1>2, LenProperties DEF Job
  <2> QED
    BY <1>1, <1>2, <1>7, <2>1 DEF Job, Local, Phased, Positioned, Priced, Loaded, At, Busy, Fresh,
       Syncing, Unsubmitted, Submitted, Auditing, InFill, WithRow, Crosses
<1>10. Typed'
  <2>1. holder' \in [Symbols -> Requests \cup {None}]
    BY <1>1, <1>2 DEF TypeInvariant, Typed
  <2> QED  BY <1>1, <1>4, <1>7, <2>1 DEF TypeInvariant, Typed, memory, services
<1>11. Resting'
  <2> SUFFICES ASSUME NEW t \in Symbols, NEW x \in Sides, NEW o \in Range(queue'[t][x])
               PROVE  /\ orders[o] # None
                      /\ o \in Requests => orders[o].sequence > 0 /\ job'[o].pc # "match"
    BY <1>2 DEF Resting, At
  <2>1. CASE o = r
    BY <1>2, <1>7, <1>8, <2>1
  <2>2. CASE o # r
    <3>1. o \in Range(queue[t][x])
      BY <1>4, <2>2
    <3>2. /\ orders[o] # None
          /\ o \in Requests => orders[o].sequence > 0 /\ job[o].pc # "match"
      BY <3>1 DEF TypeInvariant, Resting, At
    <3> QED  BY <1>7, <2>2, <3>2
  <2> QED  BY <2>1, <2>2
<1>12. \A p \in Requests : Local(p)'
  BY <1>5, <1>7, <1>9, OthersKeep
<1> QED  BY <1>10, <1>11, <1>12 DEF TypeInvariant

-----------------------------------------------------------------------------
(* The inductive invariant *)

LEMMA TypeStep ==
  TypeInvariant /\ (Serial => Turns) /\ [Next]_vars => TypeInvariant'
<1> SUFFICES ASSUME TypeInvariant, Serial => Turns, [Next]_vars PROVE TypeInvariant'
  OBVIOUS
<1>1. ASSUME UNCHANGED vars PROVE TypeInvariant'
  BY <1>1 DEF TypeInvariant, Typed, Resting, Local, Phased, Positioned, Priced, Loaded, Fresh,
     At, Busy, vars, memory, book, services
<1>2. ASSUME NEW r \in Requests, Accept(r) PROVE TypeInvariant'
  BY <1>2, AcceptKeepsTypes
<1>3. ASSUME NEW r \in Requests, Serve(r) PROVE TypeInvariant'
  BY <1>3, ReserveKeepsTypes, GetReservedKeepsTypes, PersistAccountKeepsTypes,
     ReplaceAccountKeepsTypes, CacheAccountKeepsTypes, SubmitKeepsTypes, MatchKeepsTypes,
     FinishKeepsTypes, LoadStatusKeepsTypes, StoreStatusKeepsTypes, CollectKeepsTypes,
     SettleKeepsTypes, LoadReservedKeepsTypes, StoreReservedKeepsTypes,
     CheckReservedKeepsTypes, ClampReservedKeepsTypes, StartReleaseKeepsTypes,
     ClipReservedKeepsTypes, SubtractReservedKeepsTypes, AddReservedKeepsTypes,
     ClearReservedKeepsTypes, NextAccountKeepsTypes,
     NextOrderKeepsTypes, PersistOrderKeepsTypes, MarshalOrderKeepsTypes,
     PublishOrderKeepsTypes, PersistTradesKeepsTypes, RecordKeepsTypes,
     RecordAuditKeepsTypes, PersistAuditKeepsTypes, PublishAuditKeepsTypes,
     PublishTradeKeepsTypes, TakeSnapshotKeepsTypes, CacheOrderBookKeepsTypes,
     CopyTradesKeepsTypes, CacheTradesKeepsTypes, CallFailsKeepsTypes DEF Serve
<1> QED  BY <1>1, <1>2, <1>3 DEF Next, AllAnswered

-----------------------------------------------------------------------------
(* Requests that take turns *)

LEMMA AcceptedAlone ==
  ASSUME Serial, NEW r \in Requests, Accept(r) PROVE Quiet
<1> DEFINE B == {q \in Requests : Busy(q)}
<1>1. IsFiniteSet(B) /\ Cardinality(B) < 1
  BY FS_Subset DEF Serial, Accept
<1> HIDE DEF B
<1>2. B = {}
  BY <1>1, FS_CardinalityType, FS_EmptySet
<1> QED  BY <1>2 DEF B, Quiet

(* No order has less than nothing reserved. *)
NoDebt == \A o \in Orders : orders[o] # None => orders[o].reserved >= 0

LEMMA NobodyOwes ==
  ASSUME Turns,
         Quiet \/ \E r \in Requests : Busy(r) /\ job[r].pc \notin {"checkReserved", "clampReserved"},
         orders \in [Orders -> Order \cup {None}]
  PROVE  NoDebt
<1> SUFFICES ASSUME NEW o \in Orders, orders[o] # None, ~(orders[o].reserved >= 0) PROVE FALSE
  BY DEF NoDebt
<1>1. orders[o].reserved < 0
  BY DEF Order
<1>2. PICK q \in Requests : job[q].pc \in {"checkReserved", "clampReserved"}
  BY <1>1 DEF Turns
<1>3. Busy(q)
  BY <1>2 DEF Busy
<1> QED  BY <1>2, <1>3 DEF Turns, InTurn, Quiet

(* The goroutine of r goes somewhere else than into a release. *)
Passes(r) ==
  /\ \A q \in Requests \ {r} : job'[q] = job[q]
  /\ job'[r].pc \notin {"subtract", "add"}

LEMMA PassesKeepsTurns ==
  ASSUME InTurn, NEW r \in Requests, Quiet \/ Busy(r), Passes(r),
         job' \in [Requests -> Job],
         \A o \in Orders : orders'[o] # None /\ orders'[o].reserved < 0 =>
           job'[r].pc \in {"checkReserved", "clampReserved"} /\ o = Subject(r)'
  PROVE  Turns'
<1>1. \A q \in Requests \ {r} : ~Busy(q) /\ job'[q].pc = job[q].pc
  BY DEF Passes, InTurn, Quiet
<1>2. InTurn'
  BY <1>1 DEF InTurn, Busy
<1>3. \A q \in Requests \ {r} : job'[q].pc \notin {"subtract", "add"}
  BY <1>1 DEF Busy
<1> QED  BY <1>2, <1>3 DEF Turns, Passes, At

(* The goroutine of r is in a release, or anywhere else. *)
LEMMA ReleaseTurns ==
  ASSUME InTurn, NEW r \in Requests, Busy(r), job' \in [Requests -> Job],
         \A q \in Requests \ {r} : job'[q] = job[q],
         \A o \in Orders : orders'[o] # None => ~(orders'[o].reserved < 0),
         job'[r].pc \in {"subtract", "add"} => orders'[Subject(r)'].reserved <= LockedBy(r)',
         job'[r].pc = "add" => job'[r].seen = orders'[Subject(r)'].reserved
  PROVE  Turns'
<1>1. \A q \in Requests \ {r} : ~Busy(q) /\ job'[q].pc = job[q].pc
  BY DEF InTurn
<1>2. InTurn'
  BY <1>1 DEF InTurn, Busy
<1>3. \A q \in Requests \ {r} : job'[q].pc \notin {"subtract", "add"}
  BY <1>1 DEF Busy
<1> QED  BY <1>2, <1>3 DEF Turns, At

LEMMA GotoPasses ==
  ASSUME TypeInvariant, NEW r \in Requests, NEW label, label \notin {"subtract", "add"},
         Goto(r, label)
  PROVE  Passes(r)
<1>1. job \in [Requests -> Job] /\ job[r] \in Job
  BY DEF TypeInvariant, Typed
<1> QED  BY <1>1 DEF Goto, Passes, Job

LEMMA ReturnPasses ==
  ASSUME TypeInvariant, NEW r \in Requests, NEW answer \in {"ok", "failed"}, Return(r, answer)
  PROVE  Passes(r)
<1>1. job \in [Requests -> Job]
  BY DEF TypeInvariant, Typed
<1>2. job'[r] = [Idle EXCEPT !.pc = answer, !.input = job[r].input]
  BY <1>1 DEF Return
<1>3. job'[r].pc = answer
  BY <1>2 DEF Idle
<1>4. \A q \in Requests \ {r} : job'[q] = job[q]
  BY <1>1 DEF Return
<1> QED  BY <1>3, <1>4 DEF Passes

LEMMA AfterEventPasses ==
  ASSUME TypeInvariant, NEW r \in Requests, AfterEvent(r) PROVE Passes(r)
<1>1. job \in [Requests -> Job] /\ job[r] \in Job
  BY DEF TypeInvariant, Typed
<1>2. CASE job[r].at < Len(job[r].fills)
  <2>1. job' = [job EXCEPT ![r].pc = "audit", ![r].at = job[r].at + 1]
    BY <1>2 DEF AfterEvent
  <2> QED  BY <1>1, <2>1 DEF Passes, Job
<1>3. CASE ~(job[r].at < Len(job[r].fills))
  BY <1>3, GotoPasses, ReturnPasses DEF AfterEvent
<1> QED  BY <1>2, <1>3

LEMMA AfterAdjustPasses ==
  ASSUME TypeInvariant, NEW r \in Requests, AfterAdjust(r)
  PROVE  Passes(r) /\ job'[r].pc \in {"loadReserved", "loadStatus"}
<1>1. job \in [Requests -> Job] /\ job[r] \in Job
  BY DEF TypeInvariant, Typed
<1>2. PICK pc \in {"loadReserved", "loadStatus"}, role \in {"maker", "taker"} :
        job' = [job EXCEPT ![r].role = role, ![r].pc = pc]
  BY DEF AfterAdjust
<1> QED  BY <1>1, <1>2 DEF Passes, Job

(* A step that leaves nobody in debt and does not enter a release. *)
LEMMA FreeStep ==
  ASSUME TypeInvariant', Turns, NEW r \in Requests, Quiet \/ Busy(r), Passes(r), NoDebt'
  PROVE  Turns'
<1>1. \A o \in Orders : orders'[o] # None => ~(orders'[o].reserved < 0)
  BY DEF TypeInvariant, Typed, NoDebt, Order
<1>2. job' \in [Requests -> Job]
  BY DEF TypeInvariant, Typed
<1> QED  BY <1>1, <1>2, PassesKeepsTurns DEF Turns

(* The steps that do not touch an order. *)
LEMMA PassingSteps ==
  ASSUME TypeInvariant, NEW r \in Requests,
         \/ GetReserved(r) \/ PersistAccount(r) \/ ReplaceAccount(r) \/ CacheAccount(r)
         \/ Finish(r) \/ LoadStatus(r) \/ Collect(r) \/ Settle(r)
         \/ LoadReserved(r) \/ AddReserved(r) \/ NextAccount(r)
         \/ NextOrder(r) \/ PersistOrder(r) \/ MarshalOrder(r) \/ PublishOrder(r)
         \/ PersistTrades(r) \/ Record(r)
         \/ RecordAudit(r) \/ PersistAudit(r) \/ PublishAudit(r) \/ PublishTrade(r)
         \/ TakeSnapshot(r) \/ CacheOrderBook(r) \/ CopyTrades(r) \/ CacheTrades(r)
         \/ CallFails(r)
  PROVE  Passes(r) /\ Busy(r) /\ orders' = orders /\ job[r].pc \notin {"checkReserved", "clampReserved"}
<1>1. job \in [Requests -> Job] /\ job[r] \in Job
  BY DEF TypeInvariant, Typed
<1>2. CASE GetReserved(r)
  <2>1. Passes(r)  BY <1>1, <1>2 DEF GetReserved, Passes, Job
  <2> QED  BY <1>2, <2>1 DEF GetReserved, memory, At, Busy
<1>3. CASE PersistAccount(r)
  <2>1. Passes(r)
    <3>1. CASE Goto(r, "replace") \/ Fail(r)
      BY <3>1, GotoPasses, ReturnPasses DEF Fail
    <3>2. CASE \E next : job' = [job EXCEPT ![r].pc = "replace", ![r].clone = next]
      BY <1>1, <3>2 DEF Passes, Job
    <3> QED  BY <1>3, <3>1, <3>2 DEF PersistAccount
  <2> QED  BY <1>3, <2>1 DEF PersistAccount, memory, At, Busy
<1>4. CASE ReplaceAccount(r)
  BY <1>4, GotoPasses DEF ReplaceAccount, At, Busy
<1>5. CASE CacheAccount(r)
  BY <1>5, GotoPasses DEF CacheAccount, memory, At, Busy
<1>6. CASE Finish(r)
  BY <1>6, GotoPasses DEF Finish, memory, At, Busy
<1>7. CASE LoadStatus(r)
  <2>1. Passes(r)  BY <1>1, <1>7 DEF LoadStatus, Passes, Job
  <2> QED  BY <1>7, <2>1 DEF LoadStatus, memory, At, Busy
<1>8. CASE Collect(r)
  <2>1. Passes(r)  BY <1>8, CollectFacts DEF Passes
  <2> QED  BY <1>8, <2>1 DEF Collect, memory, At, Busy
<1>9. CASE Settle(r)
  <2>1. Passes(r)
    <3>1. CASE Fail(r)
      BY <3>1, ReturnPasses DEF Fail
    <3>2. CASE ~Fail(r)
      BY <1>1, <1>9, <3>2 DEF Settle, Passes, Job, At
    <3> QED  BY <3>1, <3>2
  <2> QED  BY <1>9, <2>1 DEF Settle, At, Busy
<1>10. CASE LoadReserved(r)
  <2>1. Passes(r)  BY <1>1, <1>10 DEF LoadReserved, Passes, Job
  <2> QED  BY <1>10, <2>1 DEF LoadReserved, memory, At, Busy
<1>11. CASE AddReserved(r)
  <2>1. Passes(r)  BY <1>1, <1>11 DEF AddReserved, Passes, Job
  <2> QED  BY <1>11, <2>1 DEF AddReserved, At, Busy
<1>12. CASE NextAccount(r)
  <2>1. Passes(r)
    <3>1. CASE Goto(r, "orders")
      BY <3>1, GotoPasses
    <3>2. CASE \E a \in Accounts : job' = [job EXCEPT ![r].pc = "persist",
                 ![r].clone = job[r].accounts[a], ![r].accounts[a] = None]
      BY <1>1, <3>2 DEF Passes, Job
    <3> QED  BY <1>12, <3>1, <3>2 DEF NextAccount
  <2> QED  BY <1>12, <2>1 DEF NextAccount, memory, At, Busy
<1>13. CASE NextOrder(r)
  <2>1. Passes(r)
    <3>1. CASE Goto(r, "saveTrades")
      BY <3>1, GotoPasses
    <3>2. CASE \E o \in job[r].pending : job' = [job EXCEPT ![r].pc = "saveOrder",
                 ![r].pending = @ \ {o}, ![r].row = [id |-> o, order |-> orders[o]]]
      BY <1>1, <3>2 DEF Passes, Job
    <3> QED  BY <1>13, <3>1, <3>2 DEF NextOrder
  <2> QED  BY <1>13, <2>1 DEF NextOrder, memory, At, Busy
<1>14. CASE PersistOrder(r)
  BY <1>14, GotoPasses, ReturnPasses DEF PersistOrder, Answered, Fail, memory, At, Busy
<1>15. CASE MarshalOrder(r)
  <2>1. Passes(r)  BY <1>1, <1>15 DEF MarshalOrder, Passes, Job
  <2> QED  BY <1>15, <2>1 DEF MarshalOrder, memory, At, Busy
<1>16. CASE PublishOrder(r)
  <2>1. Passes(r)
    <3>1. CASE Fail(r)
      BY <3>1, ReturnPasses DEF Fail
    <3>2. CASE ~Fail(r)
      BY ZenonT(40), <1>1, <1>16, <3>2 DEF PublishOrder, Passes, Job
    <3> QED  BY <3>1, <3>2
  <2> QED  BY <1>16, <2>1 DEF PublishOrder, memory, At, Busy
<1>17. CASE PersistTrades(r)
  BY <1>17, GotoPasses, ReturnPasses DEF PersistTrades, Answered, Fail, memory, At, Busy
<1>18. CASE Record(r)
  <2>1. Passes(r)  BY <1>1, <1>18 DEF Record, Passes, Job
  <2> QED  BY <1>18, <2>1 DEF Record, At, Busy
<1>19. CASE RecordAudit(r)
  BY <1>19, GotoPasses DEF RecordAudit, At, Busy
<1>20. CASE PersistAudit(r)
  BY <1>20, GotoPasses, ReturnPasses DEF PersistAudit, Answered, Fail, memory, At, Busy
<1>21. CASE PublishAudit(r)
  BY <1>21, GotoPasses, ReturnPasses, AfterEventPasses DEF PublishAudit, Fail, memory, At, Busy
<1>22. CASE PublishTrade(r)
  BY <1>22, ReturnPasses, AfterEventPasses DEF PublishTrade, Fail, memory, At, Busy
<1>23. CASE TakeSnapshot(r)
  <2>1. Passes(r)  BY <1>1, <1>23 DEF TakeSnapshot, Passes, Job
  <2> QED  BY <1>23, <2>1 DEF TakeSnapshot, memory, At, Busy
<1>24. CASE CacheOrderBook(r)
  BY <1>24, GotoPasses, ReturnPasses DEF CacheOrderBook, Answered, Fail, memory, At, Busy
<1>25. CASE CopyTrades(r)
  <2>1. Passes(r)  BY SMTT(40), <1>1, <1>25 DEF CopyTrades, Passes, Job
  <2> QED  BY <1>25, <2>1 DEF CopyTrades, memory, At, Busy
<1>26. CASE CacheTrades(r)
  BY <1>26, ReturnPasses DEF CacheTrades, Fail, memory, At, Busy
<1>27. CASE CallFails(r)
  BY <1>27, ReturnPasses DEF CallFails, Fail, memory, Busy
<1> QED
  BY <1>2, <1>3, <1>4, <1>5, <1>6, <1>7, <1>8, <1>9, <1>10, <1>11, <1>12, <1>13, <1>14, <1>15,
     <1>16, <1>17, <1>18, <1>19, <1>20, <1>21, <1>22, <1>23, <1>24, <1>25, <1>26, <1>27

LEMMA TurnsInit == Serial /\ Init => Turns
<1> SUFFICES ASSUME Serial, Init PROVE Turns
  OBVIOUS
<1>1. \A r \in Requests : At(r, "idle") /\ ~Busy(r)
  BY DEF Init, Idle, At, Busy
<1>2. \A o \in Orders : orders[o] # None => orders[o].reserved >= 0
  BY DEF Init, NewExchange, Orders, Serial, InCredit
<1>3. \A o \in Orders : orders[o] # None => ~(orders[o].reserved < 0)
  <2>1. orders \in [Orders -> Order \cup {None}]
    BY TypeInit DEF TypeInvariant, Typed
  <2> QED  BY <1>2, <2>1 DEF Order
<1> QED  BY <1>1, <1>3 DEF Turns, InTurn, At

(* The steps that do touch one. *)
LEMMA ReservingSteps ==
  ASSUME TypeInvariant, NoDebt, NEW r \in Requests,
         Reserve(r) \/ Submit(r) \/ Match(r) \/ StoreStatus(r) \/ ClearReserved(r)
  PROVE  Passes(r) /\ NoDebt'
<1> DEFINE o == Subject(r)
<1>1. /\ job \in [Requests -> Job] /\ job[r] \in Job /\ r \in Orders
      /\ orders \in [Orders -> Order \cup {None}] /\ orders[r] \in Order
  BY KnownOf DEF TypeInvariant, Typed, Reserve, Submit, Match, StoreStatus, ClearReserved, At,
     Unsubmitted, Submitted
<1>7. ASSUME NEW p \in Orders, NEW x, orders' = [orders EXCEPT ![p] = x], x.reserved >= 0
      PROVE  NoDebt'
  BY <1>1, <1>7 DEF NoDebt
<1>8. ASSUME StoreStatus(r) \/ ClearReserved(r) PROVE o \in Orders /\ orders[o] \in Order /\ orders[o] # None
  <2>1. orders[r] # None /\ Local(r) /\ job[r].role \in {"maker", "taker"}
    BY <1>1, <1>8, KnownOf DEF StoreStatus, ClearReserved, At, Submitted, Job
  <2>2. job[r].role = "taker" \/ job[r].at \in 1..Len(job[r].fills)
    BY <1>8, <2>1 DEF StoreStatus, ClearReserved, At, Local, Positioned
  <2> QED  BY <1>1, <2>1, <2>2, SubjectTyped
<1>9. \A p \in Orders : orders[p] \in Order /\ orders[p] # None => orders[p].reserved >= 0
  BY DEF NoDebt
<1> HIDE DEF o
<1>2. CASE Reserve(r)
  <2>1. Passes(r)
    BY <1>2, GotoPasses, ReturnPasses DEF Reserve, Fail
  <2>2. Needs(orders[r], orders[r].quantity) >= 0
    BY <1>1, NeedsIsNatural DEF Order
  <2>3. NoDebt'
    <3>1. CASE orders' = orders
      BY <3>1 DEF NoDebt
    <3>2. CASE orders' # orders
      <4> DEFINE x == [orders[r] EXCEPT !.reserved = Needs(orders[r], orders[r].quantity)]
      <4>1. orders' = [orders EXCEPT ![r] = x]
        BY <1>2, <3>2 DEF Reserve
      <4>2. x.reserved >= 0
        BY <1>1, <2>2 DEF Order
      <4> HIDE DEF x
      <4> QED  BY <1>1, <1>7, <4>1, <4>2
    <3> QED  BY <3>1, <3>2
  <2> QED  BY <2>1, <2>3
<1>3. CASE Submit(r)
  <2>1. Passes(r)
    BY <1>3, GotoPasses DEF Submit
  <2>2. NoDebt'
    <3> DEFINE x == [orders[r] EXCEPT !.sequence = seq[orders[r].symbol] + 1,
                                      !.remaining = orders[r].quantity]
    <3>1. orders' = [orders EXCEPT ![r] = x]
      BY <1>1, <1>3 DEF Submit
    <3>2. x.reserved = orders[r].reserved /\ orders[r] # None
      BY <1>1, <1>3, KnownOf DEF Order, Submit, At, Unsubmitted
    <3> HIDE DEF x
    <3> QED  BY <1>1, <1>7, <1>9, <3>1, <3>2
  <2> QED  BY <2>1, <2>2
<1>4. CASE Match(r)
  <2>1. Passes(r)
    <3>1. PICK fills : job' = [job EXCEPT ![r].fills = fills]
      BY <1>4 DEF Match
    <3> QED  BY <1>1, <1>4, <3>1 DEF Passes, Job, Match, At
  <2>2. NoDebt'
    <3> DEFINE maker == Head(queue[orders[r].symbol][Opposite(orders[r].side)])
               n == FillQuantity(orders, r, maker)
    <3>1. /\ maker \in Orders /\ orders[maker] \in Order /\ orders[maker] # None /\ orders[r] # None
          /\ \A p \in Orders \ {r, maker} : orders'[p] = orders[p]
          /\ orders'[maker] = [orders[maker] EXCEPT !.remaining = @ - n]
          /\ orders'[r] = [orders[r] EXCEPT !.remaining = @ - n]
      BY <1>4, MatchFacts, KnownOf DEF Match, At, Submitted
    <3> HIDE DEF maker, n
    <3>2. /\ orders'[maker].reserved = orders[maker].reserved
          /\ orders'[r].reserved = orders[r].reserved
      BY <1>1, <3>1 DEF Order
    <3> QED  BY <1>1, <1>9, <3>1, <3>2 DEF NoDebt
  <2> QED  BY <2>1, <2>2
<1>5. CASE StoreStatus(r)
  <2>1. Passes(r)
    BY <1>1, <1>5 DEF StoreStatus, Passes, Job
  <2>2. NoDebt'
    <3> DEFINE x == [orders[o] EXCEPT !.status = job[r].status]
    <3>1. orders' = [orders EXCEPT ![o] = x]
      BY <1>5 DEF StoreStatus, o
    <3>2. x.reserved = orders[o].reserved
      BY <1>5, <1>8 DEF Order
    <3> HIDE DEF x
    <3> QED  BY <1>5, <1>7, <1>8, <1>9, <3>1, <3>2
  <2> QED  BY <2>1, <2>2
<1>6. CASE ClearReserved(r)
  <2>1. Passes(r)
    BY <1>6, GotoPasses DEF ClearReserved
  <2>2. NoDebt'
    <3> DEFINE x == [orders[o] EXCEPT !.reserved = 0]
    <3>1. orders' = [orders EXCEPT ![o] = x]
      BY <1>6 DEF ClearReserved, o
    <3>2. x.reserved >= 0
      BY <1>6, <1>8 DEF Order
    <3> HIDE DEF x
    <3> QED  BY <1>6, <1>7, <1>8, <3>1, <3>2
  <2> QED  BY <2>1, <2>2
<1> QED  BY <1>2, <1>3, <1>4, <1>5, <1>6

LEMMA SubjectStays ==
  ASSUME NEW r \in Requests, job'[r].role = job[r].role, job'[r].fills = job[r].fills,
         job'[r].at = job[r].at
  PROVE  Subject(r)' = Subject(r)
BY DEF Subject, Fill

LEMMA LockStays ==
  ASSUME NEW r \in Requests, Subject(r)' = Subject(r), wallet' = wallet,
         orders'[Subject(r)].account = orders[Subject(r)].account,
         orders'[Subject(r)].side = orders[Subject(r)].side,
         orders'[r].symbol = orders[r].symbol
  PROVE  LockedBy(r)' = LockedBy(r)
<1>1. LockedAsset(MyPair(r)', orders'[Subject(r)]) = LockedAsset(MyPair(r), orders[Subject(r)])
  BY DEF LockedAsset, MyPair
<1> QED  BY <1>1 DEF LockedBy, LockedBalance

(* The release, step by step. *)
LEMMA ReleasingSteps ==
  ASSUME Serial, TypeInvariant, Turns, NoDebt, NEW r \in Requests, job' \in [Requests -> Job],
         \/ ReleaseMaker(r) \/ ReleaseTaker(r) \/ ClipReserved(r) \/ SubtractReserved(r)
  PROVE  Turns'
<1>1. job[r].pc \in Settling
  BY DEF ReleaseMaker, ReleaseTaker, ClipReserved, SubtractReserved, At, Settling
<1> DEFINE o == Subject(r)
           a == orders[o].account
<1>2. /\ job[r] \in Job /\ job \in [Requests -> Job] /\ Busy(r)
      /\ o \in Orders /\ orders[o] \in Order /\ orders[o] # None /\ orders[r] \in Order
      /\ MyPair(r) = Pair[orders[r].symbol]
      /\ LockedBy(r) \in Nat /\ orders \in [Orders -> Order \cup {None}]
  <2>1. Serial => Amounts = Nat
    BY AmountsClosed
  <2> QED  BY <1>1, <2>1, SettlingKnown DEF TypeInvariant, Typed
<1>3. \A p \in Orders : orders[p] # None => ~(orders[p].reserved < 0)
  BY <1>2 DEF NoDebt, Order
<1>4. CASE ReleaseMaker(r) \/ ReleaseTaker(r)
  <2>1. orders' = orders /\ wallet' = wallet
    BY <1>4 DEF ReleaseMaker, ReleaseTaker, StartRelease, memory
  <2>2. PICK label \in {"collect", "accounts", "clip", "subtract"} :
           Goto(r, label) /\ (label = "subtract" => ~(LockedBy(r) < orders[o].reserved))
    BY <1>4 DEF ReleaseMaker, ReleaseTaker, StartRelease, LockedBy
  <2>3. /\ \A q \in Requests \ {r} : job'[q] = job[q]
        /\ job'[r].pc = label /\ job'[r].role = job[r].role /\ job'[r].fills = job[r].fills
        /\ job'[r].at = job[r].at
    BY <1>2, <2>2 DEF Goto, Job
  <2>4. Subject(r)' = o /\ LockedBy(r)' = LockedBy(r)
    BY <2>1, <2>3, SubjectStays, LockStays
  <2>5. label = "subtract" => orders[o].reserved <= LockedBy(r)
    BY <1>2, <2>2 DEF Order
  <2>6. /\ job'[r].pc \in {"subtract", "add"} => orders'[Subject(r)'].reserved <= LockedBy(r)'
        /\ job'[r].pc # "add"
    BY <2>1, <2>2, <2>3, <2>4, <2>5
  <2> HIDE DEF o
  <2> QED  BY <1>2, <1>3, <2>1, <2>3, <2>6, ReleaseTurns DEF Turns
<1>5. CASE ClipReserved(r)
  <2>1. orders' = [orders EXCEPT ![o].reserved = LockedBy(r)] /\ wallet' = wallet /\ Goto(r, "subtract")
    BY <1>5 DEF ClipReserved, LockedBy
  <2>3. /\ \A q \in Requests \ {r} : job'[q] = job[q]
        /\ job'[r].pc = "subtract" /\ job'[r].role = job[r].role /\ job'[r].fills = job[r].fills
        /\ job'[r].at = job[r].at
    BY <1>2, <2>1 DEF Goto, Job
  <2>4. /\ orders'[o].reserved = LockedBy(r) /\ orders'[o].account = orders[o].account
        /\ orders'[o].side = orders[o].side /\ orders'[r].symbol = orders[r].symbol
        /\ \A p \in Orders \ {o} : orders'[p] = orders[p]
    BY <1>2, <2>1 DEF Order
  <2>5. Subject(r)' = o /\ LockedBy(r)' = LockedBy(r)
    BY <2>1, <2>3, <2>4, SubjectStays, LockStays
  <2>6. \A p \in Orders : orders'[p] # None => ~(orders'[p].reserved < 0)
    <3> HIDE DEF o
    <3> QED  BY <1>2, <1>3, <2>4
  <2>7. orders'[Subject(r)'].reserved <= LockedBy(r)'
    BY <1>2, <2>4, <2>5
  <2> HIDE DEF o
  <2> QED  BY <1>2, <2>3, <2>6, <2>7, ReleaseTurns DEF Turns
<1>6. CASE SubtractReserved(r)
  <2>1. orders' = orders /\ wallet' = wallet
        /\ job' = [job EXCEPT ![r].pc = "add", ![r].seen = orders[o].reserved]
    BY <1>6 DEF SubtractReserved, memory
  <2>2. /\ \A q \in Requests \ {r} : job'[q] = job[q]
        /\ job'[r].pc = "add" /\ job'[r].role = job[r].role /\ job'[r].fills = job[r].fills
        /\ job'[r].at = job[r].at /\ job'[r].seen = orders[o].reserved
    <3> HIDE DEF o
    <3> QED  BY <1>2, <2>1 DEF Job
  <2>3. Subject(r)' = o /\ LockedBy(r)' = LockedBy(r)
    BY <2>1, <2>2, SubjectStays, LockStays
  <2>4. orders[o].reserved <= LockedBy(r)
    BY <1>6 DEF SubtractReserved, Turns, At
  <2>5. /\ orders'[Subject(r)'].reserved <= LockedBy(r)'
        /\ job'[r].seen = orders'[Subject(r)'].reserved
    BY <2>1, <2>2, <2>3, <2>4
  <2> HIDE DEF o
  <2> QED  BY <1>2, <1>3, <2>1, <2>2, <2>5, ReleaseTurns DEF Turns
<1> QED  BY <1>4, <1>5, <1>6

(* AdjustRemainingReservation, store by store. *)
LEMMA AdjustingSteps ==
  ASSUME TypeInvariant, Turns, NEW r \in Requests, job' \in [Requests -> Job],
         orders' \in [Orders -> Order \cup {None}],
         StoreReserved(r) \/ CheckReserved(r) \/ ClampReserved(r)
  PROVE  Turns'
<1>1. job[r].pc \in Settling
  BY DEF StoreReserved, CheckReserved, ClampReserved, At, Settling
<1> DEFINE o == Subject(r)
<1>2. /\ job[r] \in Job /\ job \in [Requests -> Job] /\ Busy(r)
      /\ o \in Orders /\ orders[o] \in Order /\ orders[o] # None
      /\ orders \in [Orders -> Order \cup {None}]
  BY <1>1, SettlingKnown DEF TypeInvariant, Typed
<1>3. \A p \in Orders : orders[p] # None /\ orders[p].reserved < 0 =>
        job[r].pc \in {"checkReserved", "clampReserved"} /\ p = o
  <2> SUFFICES ASSUME NEW p \in Orders, orders[p] # None /\ orders[p].reserved < 0
               PROVE  job[r].pc \in {"checkReserved", "clampReserved"} /\ p = o
    OBVIOUS
  <2>1. PICK q \in Requests : job[q].pc \in {"checkReserved", "clampReserved"} /\ p = Subject(q)
    BY DEF Turns
  <2>2. q = r
    BY <1>2, <2>1 DEF Turns, InTurn, Busy
  <2> QED  BY <2>1, <2>2
<1>4. CASE StoreReserved(r)
  <2>1. /\ At(r, "storeReserved") /\ \A p \in Orders \ {o} : orders'[p] = orders[p]
        /\ job' = [job EXCEPT ![r].pc = "checkReserved", ![r].seen = 0]
    <3>1. PICK v : orders' = [orders EXCEPT ![o].reserved = v]
      BY <1>4 DEF StoreReserved
    <3> QED  BY <1>2, <1>4, <3>1 DEF StoreReserved
  <2>2. /\ Passes(r) /\ job'[r].pc = "checkReserved"
        /\ job'[r].role = job[r].role /\ job'[r].fills = job[r].fills /\ job'[r].at = job[r].at
    BY <1>2, <2>1 DEF Passes, Job
  <2>3. Subject(r)' = o
    BY <2>2 DEF Subject, Fill
  <2>4. \A p \in Orders : orders'[p] # None /\ orders'[p].reserved < 0 => p = o
    BY <1>3, <2>1 DEF At
  <2> QED  BY <1>2, <2>2, <2>3, <2>4, PassesKeepsTurns DEF Turns
<1>5. CASE CheckReserved(r) /\ orders[o].reserved < 0
  <2>1. Goto(r, "clampReserved") /\ orders' = orders
    BY <1>5 DEF CheckReserved, memory
  <2>2. /\ Passes(r) /\ job'[r].pc = "clampReserved"
        /\ job'[r].role = job[r].role /\ job'[r].fills = job[r].fills /\ job'[r].at = job[r].at
    BY <1>2, <2>1 DEF Goto, Passes, Job
  <2>3. Subject(r)' = o
    BY <2>2 DEF Subject, Fill
  <2> QED  BY <1>2, <1>3, <2>1, <2>2, <2>3, PassesKeepsTurns DEF Turns
<1>6. CASE CheckReserved(r) /\ ~(orders[o].reserved < 0)
  <2>1. AfterAdjust(r) /\ orders' = orders
    BY <1>6 DEF CheckReserved, memory
  <2>2. \A p \in Orders : orders'[p] # None => ~(orders'[p].reserved < 0)
    <3> HIDE DEF o
    <3> QED  BY <1>3, <1>6, <2>1
  <2> QED  BY <1>2, <2>1, <2>2, AfterAdjustPasses, PassesKeepsTurns DEF Turns
<1>7. CASE ClampReserved(r)
  <2>1. AfterAdjust(r) /\ orders' = [orders EXCEPT ![o].reserved = 0]
    BY <1>7 DEF ClampReserved
  <2>2. orders'[o].reserved = 0 /\ \A p \in Orders \ {o} : orders'[p] = orders[p]
    <3> HIDE DEF o
    <3> QED  BY <1>2, <2>1 DEF Order
  <2>3. \A p \in Orders : orders'[p] # None => ~(orders'[p].reserved < 0)
    <3> HIDE DEF o
    <3> QED  BY <1>3, <2>2
  <2> QED  BY <1>2, <2>1, <2>3, AfterAdjustPasses, PassesKeepsTurns DEF Turns
<1> QED  BY <1>4, <1>5, <1>6, <1>7

LEMMA TurnsStep ==
  ASSUME Serial, TypeInvariant, TypeInvariant', Turns, [Next]_vars PROVE Turns'
<1>1. /\ job \in [Requests -> Job] /\ job' \in [Requests -> Job]
      /\ orders \in [Orders -> Order \cup {None}] /\ orders' \in [Orders -> Order \cup {None}]
  BY DEF TypeInvariant, Typed
<1>2. ASSUME UNCHANGED vars PROVE Turns'
  BY <1>2 DEF Turns, InTurn, Busy, At, Subject, Fill, LockedBy, MyPair, vars, memory
<1>3. ASSUME NEW r \in Requests, Accept(r) PROVE Turns'
  <2>1. Quiet /\ NoDebt
    BY <1>1, <1>3, AcceptedAlone, NobodyOwes
  <2>2. PICK in \in Inputs : Deposit(r, in) \/ PlaceOrder(r, in)
    BY <1>3 DEF Accept
  <2>3. Passes(r) /\ NoDebt'
    <3>1. CASE Deposit(r, in)
      <4>1. orders' = orders
        BY <3>1 DEF Deposit, memory
      <4>2. Passes(r)
        BY <1>1, <3>1 DEF Deposit, Passes, Job
      <4> QED  BY <2>1, <4>1, <4>2 DEF NoDebt
    <3>2. CASE PlaceOrder(r, in)
      <4>1. Passes(r)
        BY <1>1, <3>2 DEF PlaceOrder, Passes, Job
      <4>2. NoDebt'
        BY <1>1, <2>1, <3>2 DEF PlaceOrder, NewOrder, NoDebt, Orders
      <4> QED  BY <4>1, <4>2
    <3> QED  BY <2>2, <3>1, <3>2
  <2> QED  BY <2>1, <2>3, FreeStep
<1>4. ASSUME NEW r \in Requests, Serve(r) PROVE Turns'
  <2>1. CASE StoreReserved(r) \/ CheckReserved(r) \/ ClampReserved(r)
    BY <1>1, <2>1, AdjustingSteps
  <2>2. CASE ReleaseMaker(r) \/ ReleaseTaker(r) \/ ClipReserved(r) \/ SubtractReserved(r)
    <3>1. Busy(r) /\ job[r].pc \notin {"checkReserved", "clampReserved"}
      BY <2>2 DEF ReleaseMaker, ReleaseTaker, ClipReserved, SubtractReserved, At, Busy
    <3>2. NoDebt
      BY <1>1, <3>1, NobodyOwes
    <3> QED  BY <1>1, <2>2, <3>2, ReleasingSteps
  <2>3. CASE Reserve(r) \/ Submit(r) \/ Match(r) \/ StoreStatus(r) \/ ClearReserved(r)
    <3>1. Busy(r) /\ job[r].pc \notin {"checkReserved", "clampReserved"}
      BY <2>3 DEF Reserve, Submit, Match, StoreStatus, ClearReserved, At, Busy
    <3>2. NoDebt
      BY <1>1, <3>1, NobodyOwes
    <3> QED  BY <2>3, <3>1, <3>2, ReservingSteps, FreeStep
  <2>4. ASSUME Passes(r), Busy(r), orders' = orders, job[r].pc \notin {"checkReserved", "clampReserved"}
        PROVE  Turns'
    <3>1. NoDebt
      BY <1>1, <2>4, NobodyOwes
    <3>2. NoDebt'
      BY <2>4, <3>1 DEF NoDebt
    <3> QED  BY <2>4, <3>2, FreeStep
  <2> QED  BY <1>4, <2>1, <2>2, <2>3, <2>4, PassingSteps DEF Serve
<1> QED  BY <1>2, <1>3, <1>4 DEF Next, AllAnswered

-----------------------------------------------------------------------------
(* What the type invariant says of the properties the runs check. *)

LEMMA TypeInvariantIsTypeOK == TypeInvariant => TypeOK
<1> SUFFICES ASSUME TypeInvariant PROVE TypeOK
  OBVIOUS
<1>1. Solvent \subseteq Account
  BY AmountsClosed DEF Solvent, Account, Amount
<1> QED
  BY <1>1 DEF TypeInvariant, Typed, TypeOK, Database, Redis, Topics, Job, Book

LEMMA TypeInvariantIsSolvent == Serial /\ TypeInvariant => BalancesNeverNegative
<1> SUFFICES ASSUME Serial, TypeInvariant, NEW a \in Accounts, NEW asset \in Assets
             PROVE  \A b \in {wallet[a].balances[asset], db.accounts[a].balances[asset]} :
                      b.available >= 0 /\ b.locked >= 0
  BY DEF BalancesNeverNegative
<1>1. wallet[a] \in Solvent /\ db.accounts[a] \in Solvent
  BY DEF TypeInvariant, Typed, Database
<1> QED  BY <1>1, BalanceIsNatural

LEMMA TypesAndTurns == Spec => [](TypeInvariant /\ (Serial => Turns))
<1>1. Init => TypeInvariant /\ (Serial => Turns)
  BY TypeInit, TurnsInit
<1>2. TypeInvariant /\ (Serial => Turns) /\ [Next]_vars => TypeInvariant' /\ (Serial => Turns)'
  <2>1. TypeInvariant /\ (Serial => Turns) /\ [Next]_vars => TypeInvariant'
    BY TypeStep
  <2>2. Serial' <=> Serial
    BY DEF Serial, InCredit
  <2> QED  BY <2>1, <2>2, TurnsStep
<1> QED  BY <1>1, <1>2, PTL DEF Spec

(* Every variable and every local variable of a goroutine has the type its *)
(* label says, whatever interleaves and whichever calls fail.  A balance   *)
(* is an integer, as the code's float64 is of either sign.                 *)
THEOREM TypesArePreserved == Spec => []TypeInvariant
BY TypesAndTurns, PTL

(* Requests that take turns: one goroutine at a time, and a release takes  *)
(* what it gives and no more than is locked.                               *)
LEMMA TakesTurns == Serial => (Spec => []Turns)
<1> SUFFICES ASSUME Serial PROVE Spec => []Turns
  OBVIOUS
<1>1. TypeInvariant /\ (Serial => Turns) => Turns
  OBVIOUS
<1> QED  BY <1>1, TypesAndTurns, PTL

(* Every variable keeps its type: in particular no order is ever without   *)
(* a remaining quantity in range, and what waits in a queue is an order.   *)
THEOREM ExchangeTypeOK == Spec => []TypeOK
BY TypeInvariantIsTypeOK, TypesArePreserved, PTL

(* One request at a time, whichever calls fail and whichever replies are   *)
(* lost, no deposit, reservation, settlement, release or replacement by a  *)
(* stale copy drives a balance below zero, in memory or in the store.      *)
(* (Requests that overlap can: see configuration ReleaseRace.)             *)
THEOREM BalancesStayNonNegative == Serial => (Spec => []BalancesNeverNegative)
<1> SUFFICES ASSUME Serial PROVE Spec => []BalancesNeverNegative
  OBVIOUS
<1>1. TypeInvariant => BalancesNeverNegative
  BY TypeInvariantIsSolvent
<1> QED  BY <1>1, TypesArePreserved, PTL

-----------------------------------------------------------------------------
(* Optimistic concurrency between memory and store *)

(* A copy of an account that nobody has written anywhere yet. *)
Current(copy) == copy.id \in Accounts /\ copy.version <= wallet[copy.id].version

(* The copies a request holds: what it is about to persist and what is     *)
(* waiting in changedAccounts are no newer than memory, and what it has    *)
(* persisted is no newer than the row.                                     *)
Copies(r) ==
  /\ At(r, "persist") => Current(job[r].clone)
  /\ \A a \in Accounts : job[r].accounts[a] # None =>
       job[r].accounts[a].id = a /\ Current(job[r].accounts[a])
  /\ job[r].pc \in {"replace", "cacheAccount"} =>
       job[r].clone.version <= db.accounts[job[r].clone.id].version

Named == \A a \in Accounts : wallet[a].id = a /\ db.accounts[a].id = a

CacheBehind ==
  \A a \in Accounts : cache.accounts[a] # None =>
    cache.accounts[a].version <= db.accounts[a].version

Versions == Named /\ OneWriterAtATime /\ CacheBehind /\ \A r \in Requests : Copies(r)

VersionInvariant == TypeInvariant /\ Versions
-----------------------------------------------------------------------------
(* The steps that are about something else *)

LEMMA LockingKeepsVersion ==
  ASSUME NEW account \in Solvent, NEW asset, NEW amount
  PROVE  /\ Locking(account, asset, amount).id = account.id
         /\ Locking(account, asset, amount).version = account.version
BY DEF Locking, Solvent

LEMMA SettledKeepsVersion ==
  ASSUME NEW account \in Solvent, NEW pair, NEW order, NEW price, NEW n
  PROVE  /\ Settled(account, pair, order, price, n).id = account.id
         /\ Settled(account, pair, order, price, n).version = account.version
BY DEF Settled, Solvent

LEMMA ReleasedKeepsVersion ==
  ASSUME NEW account \in Solvent, NEW asset, NEW taken, NEW given
  PROVE  /\ Released(account, asset, taken, given).id = account.id
         /\ Released(account, asset, taken, given).version = account.version
BY DEF Released, Solvent

LEMMA CreditingKeepsVersion ==
  ASSUME NEW account \in Solvent, NEW asset, NEW amount
  PROVE  /\ Crediting(account, asset, amount).id = account.id
         /\ Crediting(account, asset, amount).version = account.version
BY DEF Crediting, Solvent

(* The goroutine of r leaves syncAccount alone, *)
Departs(r) ==
  /\ \A q \in Requests \ {r} : job'[q] = job[q]
  /\ job'[r].pc \notin Syncing
  /\ \A a \in Accounts : job'[r].accounts[a] \in {job[r].accounts[a], None}

(* and so does the whole step. *)
Plain(r) ==
  /\ Departs(r)
  /\ ~At(r, "replace")
  /\ db'.accounts = db.accounts
  /\ cache'.accounts = cache.accounts
  /\ \A a \in Accounts : wallet'[a].version = wallet[a].version /\ wallet'[a].id = wallet[a].id

(* A step that at most takes copies of its own. *)
Copying(r) ==
  /\ \A q \in Requests \ {r} : job'[q] = job[q]
  /\ job'[r].pc \notin {"replace", "cacheAccount"}
  /\ ~At(r, "replace")
  /\ db'.accounts = db.accounts
  /\ cache'.accounts = cache.accounts
  /\ \A a \in Accounts : wallet'[a].version = wallet[a].version /\ wallet'[a].id = wallet[a].id

LEMMA CopyingKeepsVersions ==
  ASSUME VersionInvariant, NEW r \in Requests, Copying(r), Copies(r)' PROVE Versions'
<1>1. \A a \in Accounts :
        wallet'[a].version = wallet[a].version /\ wallet'[a].id = wallet[a].id
  BY DEF Copying
<1>2. \A q \in Requests : job'[q].pc = "replace" => q # r /\ job'[q] = job[q]
  BY DEF Copying
<1>3. \A q \in Requests, a \in Accounts : Carrying(q, a)' <=> Carrying(q, a)
  BY <1>2 DEF Copying, Carrying, At
<1>4. Named'
  BY <1>1 DEF VersionInvariant, Versions, Named, Copying
<1>5. OneWriterAtATime'
  <2> SUFFICES ASSUME NEW a \in Accounts
               PROVE  /\ wallet'[a].version <= db'.accounts[a].version
                      /\ "ack" \notin Faults /\ wallet'[a].version < db'.accounts[a].version
                           => \E q \in Requests : Carrying(q, a)'
                      /\ \A q \in Requests : Carrying(q, a)' =>
                           /\ job'[q].clone = db'.accounts[a]
                           /\ wallet'[a].version + 1 = db'.accounts[a].version
                           /\ \A p \in Requests : Carrying(p, a)' => p = q
    BY DEF OneWriterAtATime
  <2>1. /\ wallet[a].version <= db.accounts[a].version
        /\ "ack" \notin Faults /\ wallet[a].version < db.accounts[a].version
             => \E q \in Requests : Carrying(q, a)
        /\ \A q \in Requests : Carrying(q, a) =>
             /\ job[q].clone = db.accounts[a]
             /\ wallet[a].version + 1 = db.accounts[a].version
             /\ \A p \in Requests : Carrying(p, a) => p = q
    BY DEF VersionInvariant, Versions, OneWriterAtATime
  <2>2. \A q \in Requests : Carrying(q, a)' => job'[q].clone = job[q].clone
    BY <1>2 DEF Carrying, At
  <2> QED  BY <1>1, <1>3, <2>1, <2>2 DEF Copying
<1>6. CacheBehind'
  BY DEF VersionInvariant, Versions, CacheBehind, Copying
<1>7. ASSUME NEW q \in Requests PROVE Copies(q)'
  <2>1. Copies(q)
    BY DEF VersionInvariant, Versions
  <2>2. \A copy : Current(copy) => Current(copy)'
    BY <1>1 DEF Current
  <2>3. CASE q # r
    BY <2>1, <2>2, <2>3 DEF Copying, Copies, At
  <2> QED  BY <2>3
<1> QED  BY <1>4, <1>5, <1>6, <1>7 DEF Versions

LEMMA PlainKeepsVersions ==
  ASSUME VersionInvariant, NEW r \in Requests, Plain(r) PROVE Versions'
<1>1. Copies(r)
  BY DEF VersionInvariant, Versions
<1>2. \A copy : Current(copy) => Current(copy)'
  BY DEF Current, Plain
<1>3. Copies(r)'
  BY <1>1, <1>2 DEF Plain, Departs, Copies, At, Syncing
<1>4. Copying(r)
  BY DEF Plain, Departs, Copying, Syncing
<1> QED  BY <1>3, <1>4, CopyingKeepsVersions

LEMMA GotoDeparts ==
  ASSUME TypeInvariant, NEW r \in Requests, NEW label, label \notin Syncing, Goto(r, label)
  PROVE  Departs(r)
<1>1. job \in [Requests -> Job] /\ job[r] \in Job
  BY DEF TypeInvariant, Typed
<1> QED  BY <1>1 DEF Goto, Departs, Job

LEMMA ReturnDeparts ==
  ASSUME TypeInvariant, NEW r \in Requests, NEW answer \in {"ok", "failed"}, Return(r, answer)
  PROVE  Departs(r)
<1>1. job \in [Requests -> Job]
  BY DEF TypeInvariant, Typed
<1>2. job'[r] = [Idle EXCEPT !.pc = answer, !.input = job[r].input]
  BY <1>1 DEF Return
<1>3. job'[r].pc = answer /\ job'[r].accounts = [a \in Accounts |-> None]
  BY <1>2 DEF Idle
<1>4. \A q \in Requests \ {r} : job'[q] = job[q]
  BY <1>1 DEF Return
<1> QED  BY <1>3, <1>4 DEF Departs, Syncing
LEMMA AfterEventDeparts ==
  ASSUME TypeInvariant, NEW r \in Requests, AfterEvent(r) PROVE Departs(r)
<1>1. job \in [Requests -> Job] /\ job[r] \in Job
  BY DEF TypeInvariant, Typed
<1>2. CASE job[r].at < Len(job[r].fills)
  <2>1. job' = [job EXCEPT ![r].pc = "audit", ![r].at = job[r].at + 1]
    BY <1>2 DEF AfterEvent
  <2> QED  BY <1>1, <2>1 DEF Departs, Job, Syncing
<1>3. CASE ~(job[r].at < Len(job[r].fills))
  BY <1>3, GotoDeparts, ReturnDeparts DEF AfterEvent, Syncing
<1> QED  BY <1>2, <1>3

(* Every step but those of syncAccount and those that take a copy. *)
Elsewhere(r) ==
  \/ \E in \in Inputs : At(r, "idle") /\ PlaceOrder(r, in)
  \/ Reserve(r) \/ Submit(r) \/ Match(r) \/ Finish(r)
  \/ LoadStatus(r) \/ StoreStatus(r) \/ Settle(r)
  \/ LoadReserved(r) \/ StoreReserved(r) \/ CheckReserved(r) \/ ClampReserved(r)
  \/ ReleaseMaker(r) \/ ReleaseTaker(r)
  \/ ClipReserved(r) \/ SubtractReserved(r) \/ AddReserved(r) \/ ClearReserved(r)
  \/ NextOrder(r) \/ PersistOrder(r) \/ MarshalOrder(r) \/ PublishOrder(r)
  \/ PersistTrades(r) \/ Record(r)
  \/ RecordAudit(r) \/ PersistAudit(r) \/ PublishAudit(r) \/ PublishTrade(r)
  \/ TakeSnapshot(r) \/ CacheOrderBook(r) \/ CopyTrades(r) \/ CacheTrades(r)
  \/ CallFails(r)

LEMMA PlainSteps ==
  ASSUME TypeInvariant, NEW r \in Requests, Elsewhere(r)
  PROVE  Plain(r)
<1>1. /\ job \in [Requests -> Job] /\ job[r] \in Job /\ db \in Database /\ cache \in Redis
      /\ wallet \in [Accounts -> Solvent] /\ orders \in [Orders -> Order \cup {None}]
  BY DEF TypeInvariant, Typed
<1> DEFINE Kept == \A a \in Accounts : /\ wallet'[a].version = wallet[a].version
                                       /\ wallet'[a].id = wallet[a].id
<1>4. wallet' = wallet => Kept
  OBVIOUS
<1> HIDE DEF Kept
<1>5. Departs(r) /\ ~At(r, "replace") /\ db'.accounts = db.accounts
        /\ cache'.accounts = cache.accounts /\ Kept => Plain(r)
  BY DEF Plain, Kept
<1>6. CASE \E in \in Inputs : At(r, "idle") /\ PlaceOrder(r, in)
  <2>1. PICK in \in Inputs : At(r, "idle") /\ PlaceOrder(r, in)
    BY <1>6
  <2>2. Departs(r)
    BY <1>1, <2>1 DEF PlaceOrder, Departs, Job, Syncing
  <2> QED  BY <1>4, <1>5, <2>1, <2>2 DEF PlaceOrder, services, At
<1>7. CASE LoadStatus(r)
  <2>1. Departs(r)
    BY <1>1, <1>7 DEF LoadStatus, Departs, Job, Syncing
  <2> QED  BY <1>4, <1>5, <1>7, <2>1 DEF LoadStatus, memory, services, At
<1>8. CASE LoadReserved(r)
  <2>1. Departs(r)
    BY <1>1, <1>8 DEF LoadReserved, Departs, Job, Syncing
  <2> QED  BY <1>4, <1>5, <1>8, <2>1 DEF LoadReserved, memory, services, At
<1>9. CASE NextOrder(r)
  <2>1. Departs(r)
    <3>1. CASE job[r].pending = {}
      BY <1>9, <3>1, GotoDeparts DEF NextOrder, Syncing
    <3>2. CASE job[r].pending # {}
      <4>1. PICK o \in job[r].pending :
              job' = [job EXCEPT ![r].pc = "saveOrder", ![r].pending = @ \ {o},
                                 ![r].row = [id |-> o, order |-> orders[o]]]
        BY <1>9, <3>2 DEF NextOrder
      <4> QED  BY <1>1, <4>1 DEF Departs, Job, Syncing
    <3> QED  BY <3>1, <3>2
  <2> QED  BY <1>4, <1>5, <1>9, <2>1 DEF NextOrder, memory, services, At
<1>10. CASE MarshalOrder(r)
  <2>1. Departs(r)
    BY <1>1, <1>10 DEF MarshalOrder, Departs, Job, Syncing
  <2> QED  BY <1>4, <1>5, <1>10, <2>1 DEF MarshalOrder, memory, services, At
<1>11. CASE TakeSnapshot(r)
  <2>1. Departs(r)
    BY <1>1, <1>11 DEF TakeSnapshot, Departs, Job, Syncing
  <2> QED  BY <1>4, <1>5, <1>11, <2>1 DEF TakeSnapshot, memory, services, At
<1>12. CASE CopyTrades(r)
  <2>1. Departs(r)
    BY SMTT(40), <1>1, <1>12 DEF CopyTrades, Departs, Job, Syncing
  <2> QED  BY <1>4, <1>5, <1>12, <2>1 DEF CopyTrades, memory, services, At
<1>13. CASE Match(r)
  <2>1. Departs(r)
    <3>1. PICK fills : job' = [job EXCEPT ![r].fills = fills]
      BY <1>13 DEF Match
    <3>2. At(r, "match")
      BY <1>13 DEF Match
    <3> QED  BY SMTT(40), <1>1, <3>1, <3>2 DEF Departs, Job, Syncing, At
  <2> QED  BY <1>4, <1>5, <1>13, <2>1 DEF Match, services, At
<1>14. CASE StoreStatus(r)
  <2>1. Departs(r)
    BY <1>1, <1>14 DEF StoreStatus, Departs, Job, Syncing
  <2> QED  BY <1>4, <1>5, <1>14, <2>1 DEF StoreStatus, services, At
<1>15. CASE StoreReserved(r)
  <2>1. Departs(r)
    BY <1>1, <1>15 DEF StoreReserved, Departs, Job, Syncing
  <2> QED  BY <1>4, <1>5, <1>15, <2>1 DEF StoreReserved, services, At
<1>16. CASE Record(r)
  <2>1. Departs(r)
    BY <1>1, <1>16 DEF Record, Departs, Job, Syncing
  <2> QED  BY <1>4, <1>5, <1>16, <2>1 DEF Record, services, At
<1>17. CASE Submit(r)
  <2>1. Departs(r)
    BY <1>17, GotoDeparts DEF Submit, Syncing
  <2> QED  BY <1>4, <1>5, <1>17, <2>1 DEF Submit, memory, services, At
<1>18. CASE Finish(r)
  <2>1. Departs(r)
    BY <1>18, GotoDeparts DEF Finish, Syncing
  <2> QED  BY <1>4, <1>5, <1>18, <2>1 DEF Finish, memory, services, At
<1>19. CASE RecordAudit(r)
  <2>1. Departs(r)
    BY <1>19, GotoDeparts DEF RecordAudit, Syncing
  <2> QED  BY <1>4, <1>5, <1>19, <2>1 DEF RecordAudit, memory, services, At
<1>20. CASE PersistOrder(r)
  <2>1. Departs(r)
    BY <1>20, GotoDeparts, ReturnDeparts DEF PersistOrder, Answered, Fail, Syncing
  <2>2. db'.accounts = db.accounts
    BY <1>1, <1>20 DEF PersistOrder, Save, Database
  <2> QED  BY <1>4, <1>5, <1>20, <2>1, <2>2 DEF PersistOrder, memory, At
<1>21. CASE PersistTrades(r)
  <2>1. Departs(r)
    BY <1>21, GotoDeparts, ReturnDeparts DEF PersistTrades, Answered, Fail, Syncing
  <2>2. db'.accounts = db.accounts
    BY <1>1, <1>21 DEF PersistTrades, Save, Database
  <2> QED  BY <1>4, <1>5, <1>21, <2>1, <2>2 DEF PersistTrades, memory, At
<1>22. CASE PersistAudit(r)
  <2>1. Departs(r)
    BY <1>22, GotoDeparts, ReturnDeparts DEF PersistAudit, Answered, Fail, Syncing
  <2>2. db'.accounts = db.accounts
    BY <1>1, <1>22 DEF PersistAudit, Save, Database
  <2> QED  BY <1>4, <1>5, <1>22, <2>1, <2>2 DEF PersistAudit, memory, At
<1>23. CASE PublishOrder(r)
  <2>1. Departs(r)
    <3>1. CASE Fail(r)
      BY <3>1, ReturnDeparts DEF Fail
    <3>2. CASE ~Fail(r)
      BY ZenonT(40), <1>1, <1>23, <3>2 DEF PublishOrder, Departs, Job, Syncing
    <3> QED  BY <3>1, <3>2
  <2> QED  BY <1>4, <1>5, <1>23, <2>1 DEF PublishOrder, memory, At
<1>24. CASE PublishAudit(r)
  <2>2. Departs(r)
    BY <1>24, AfterEventDeparts, GotoDeparts, ReturnDeparts DEF PublishAudit, Fail, Syncing
  <2> QED  BY <1>4, <1>5, <1>24, <2>2 DEF PublishAudit, memory, At
<1>25. CASE PublishTrade(r)
  <2>2. Departs(r)
    BY <1>25, AfterEventDeparts, ReturnDeparts DEF PublishTrade, Fail
  <2> QED  BY <1>4, <1>5, <1>25, <2>2 DEF PublishTrade, memory, At
<1>26. CASE CacheOrderBook(r)
  <2>1. Departs(r)
    BY <1>26, GotoDeparts, ReturnDeparts DEF CacheOrderBook, Answered, Fail, Syncing
  <2>2. cache'.accounts = cache.accounts
    BY <1>1, <1>26 DEF CacheOrderBook, Keep, Redis
  <2> QED  BY <1>4, <1>5, <1>26, <2>1, <2>2 DEF CacheOrderBook, memory, At
<1>27. CASE CacheTrades(r)
  <2>1. Departs(r)
    BY <1>27, ReturnDeparts DEF CacheTrades, Fail
  <2>2. cache'.accounts = cache.accounts
    BY <1>1, <1>27 DEF CacheTrades, Keep, Redis
  <2> QED  BY <1>4, <1>5, <1>27, <2>1, <2>2 DEF CacheTrades, memory, At
<1>28. CASE CallFails(r)
  <2>1. Departs(r)
    BY <1>28, ReturnDeparts DEF CallFails, Fail
  <2> QED  BY <1>4, <1>5, <1>28, <2>1 DEF CallFails, memory, services, At
<1>29. CASE Reserve(r)
  <2>1. orders[r] \in Order /\ orders[r].account \in Accounts /\ orders[r].symbol \in Symbols
    BY <1>29, KnownOf DEF Reserve, At, Unsubmitted, Order
  <2>2. Departs(r)
    BY <1>29, GotoDeparts, ReturnDeparts DEF Reserve, Fail, Syncing
  <2>3. Kept
    <3>1. CASE wallet' = wallet
      BY <1>4, <3>1
    <3>2. CASE wallet' # wallet
      <4> DEFINE a == orders[r].account
                 next == Reserved(wallet[a], MyPair(r), orders[r])
      <4>1. wallet' = [wallet EXCEPT ![a] = next]
        BY <1>29, <3>2 DEF Reserve
      <4>2. next.id = wallet[a].id /\ next.version = wallet[a].version
        BY <1>1, <2>1, LockingKeepsVersion DEF Reserved
      <4> HIDE DEF next
      <4> QED  BY <1>1, <2>1, <4>1, <4>2 DEF Kept
    <3> QED  BY <3>1, <3>2
  <2> QED  BY <1>5, <1>29, <2>2, <2>3 DEF Reserve, services, At
<1>30. CASE Settle(r)
  <2> DEFINE o == orders[Subject(r)]
             a == o.account
             next == Settled(wallet[a], MyPair(r), o, Fill(r).price, Fill(r).quantity)
  <2>1. o \in Order /\ a \in Accounts /\ orders[r].symbol \in Symbols
    <3>1. orders[r] \in Order /\ orders[r] # None /\ Local(r)
      BY <1>30, KnownOf DEF Settle, At, Submitted, InFill
    <3>2. job[r].at \in 1..Len(job[r].fills)
      BY <1>30, <3>1 DEF Settle, Local, Positioned, At, InFill
    <3>3. o \in Order
      BY <3>1, <3>2, SubjectTyped
    <3> HIDE DEF o
    <3> QED  BY <3>1, <3>3 DEF Order
  <2>2. Departs(r)
    <3>1. CASE Fail(r)
      BY <3>1, ReturnDeparts DEF Fail
    <3>2. CASE ~Fail(r)
      BY <1>1, <1>30, <3>2 DEF Settle, Departs, Job, Syncing, At
    <3> QED  BY <3>1, <3>2
  <2>3. Kept
    <3>1. CASE wallet' = wallet
      BY <1>4, <3>1
    <3>2. CASE wallet' # wallet
      <4>1. wallet' = [wallet EXCEPT ![a] = next]
        BY <1>30, <3>2 DEF Settle
      <4>2. next.id = wallet[a].id /\ next.version = wallet[a].version
        BY <1>1, <2>1, SettledKeepsVersion
      <4> HIDE DEF next, a
      <4> QED  BY <1>1, <2>1, <4>1, <4>2 DEF Kept
    <3> QED  BY <3>1, <3>2
  <2> QED  BY <1>5, <1>30, <2>2, <2>3 DEF Settle, services, At
<1>31. ASSUME AfterAdjust(r) PROVE Departs(r)
  <2>1. PICK pc \in {"loadReserved", "loadStatus"}, role \in {"maker", "taker"} :
          job' = [job EXCEPT ![r].role = role, ![r].pc = pc]
    BY <1>31 DEF AfterAdjust
  <2> QED  BY <1>1, <2>1 DEF Departs, Job, Syncing
<1>32. CASE CheckReserved(r)
  <2>1. Departs(r)
    BY <1>31, <1>32, GotoDeparts DEF CheckReserved, Syncing
  <2> QED  BY <1>4, <1>5, <1>32, <2>1 DEF CheckReserved, memory, services, At
<1>33. CASE ClampReserved(r)
  <2>1. Departs(r)
    BY <1>31, <1>33 DEF ClampReserved
  <2> QED  BY <1>4, <1>5, <1>33, <2>1 DEF ClampReserved, services, At
<1>34. CASE ReleaseMaker(r) \/ ReleaseTaker(r)
  <2>1. Departs(r)
    BY <1>34, GotoDeparts DEF ReleaseMaker, ReleaseTaker, StartRelease, Syncing
  <2> QED  BY <1>4, <1>5, <1>34, <2>1 DEF ReleaseMaker, ReleaseTaker, StartRelease, memory, services, At
<1>35. CASE ClipReserved(r)
  <2>1. Departs(r)
    BY <1>35, GotoDeparts DEF ClipReserved, Syncing
  <2> QED  BY <1>4, <1>5, <1>35, <2>1 DEF ClipReserved, services, At
<1>36. CASE SubtractReserved(r)
  <2>1. Departs(r)
    BY <1>1, <1>36 DEF SubtractReserved, Departs, Job, Syncing
  <2> QED  BY <1>4, <1>5, <1>36, <2>1 DEF SubtractReserved, memory, services, At
<1>37. CASE AddReserved(r)
  <2> DEFINE o == orders[Subject(r)]
             a == o.account
             next == Released(wallet[a], LockedAsset(MyPair(r), o), job[r].seen, o.reserved)
  <2>1. a \in Accounts
    <3>1. o \in Order
      BY <1>37, SettlingKnown DEF AddReserved, At, Settling
    <3> HIDE DEF o
    <3> QED  BY <3>1 DEF Order
  <2>2. Departs(r)
    BY <1>1, <1>37 DEF AddReserved, Departs, Job, Syncing
  <2>3. Kept
    <3>1. wallet' = [wallet EXCEPT ![a] = next]
      BY <1>37 DEF AddReserved
    <3>2. next.id = wallet[a].id /\ next.version = wallet[a].version
      BY <1>1, <2>1, ReleasedKeepsVersion
    <3> HIDE DEF next, a
    <3> QED  BY <1>1, <2>1, <3>1, <3>2 DEF Kept
  <2> QED  BY <1>5, <1>37, <2>2, <2>3 DEF AddReserved, services, At
<1>38. CASE ClearReserved(r)
  <2>1. Departs(r)
    BY <1>38, GotoDeparts DEF ClearReserved, Syncing
  <2> QED  BY <1>4, <1>5, <1>38, <2>1 DEF ClearReserved, services, At
<1> QED
  BY <1>6, <1>7, <1>8, <1>9, <1>10, <1>11, <1>12, <1>13, <1>14, <1>15, <1>16, <1>17,
     <1>18, <1>19, <1>20, <1>21, <1>22, <1>23, <1>24, <1>25, <1>26, <1>27, <1>28,
     <1>29, <1>30, <1>32, <1>33, <1>34, <1>35, <1>36, <1>37, <1>38 DEF Elsewhere
-----------------------------------------------------------------------------
(* The steps that take a copy of an account *)

LEMMA CurrentCopy ==
  ASSUME VersionInvariant, NEW a \in Accounts PROVE wallet[a].id = a /\ Current(wallet[a])
<1>1. wallet[a] \in Solvent /\ wallet[a].id = a
  BY DEF VersionInvariant, Versions, Named, TypeInvariant, Typed
<1> QED  BY <1>1 DEF Current, Solvent

LEMMA DepositKeepsVersions ==
  ASSUME VersionInvariant, NEW r \in Requests, At(r, "idle"), NEW in \in Inputs, Deposit(r, in)
  PROVE  Versions'
<1>1. /\ job \in [Requests -> Job] /\ job[r] \in Job /\ UNCHANGED <<memory, services>>
      /\ Copies(r) /\ in.kind = "deposit"
  BY DEF VersionInvariant, Versions, TypeInvariant, Typed, Deposit
<1>2. in.account \in Accounts
  BY <1>1, ExchangeAssumption DEF WellFormed
<1>3. /\ job'[r].accounts = job[r].accounts /\ \A q \in Requests \ {r} : job'[q] = job[q]
      /\ \/ job'[r].pc = "failed"
         \/ job'[r].pc = "persist"
              /\ job'[r].clone = Crediting(wallet[in.account], in.asset, in.amount)
  BY <1>1 DEF Deposit, Job
<1>4. Current(Crediting(wallet[in.account], in.asset, in.amount))
  <2>1. wallet[in.account] \in Solvent
    BY <1>2 DEF VersionInvariant, TypeInvariant, Typed
  <2> QED  BY <1>2, <2>1, CurrentCopy, CreditingKeepsVersion DEF Current
<1>5. \A copy : Current(copy) => Current(copy)'
  BY <1>1 DEF Current, memory
<1>6. Copies(r)'
  BY <1>1, <1>3, <1>4, <1>5 DEF Copies, At
<1>7. Copying(r)
  BY <1>1, <1>3 DEF Copying, At, memory, services
<1> QED  BY <1>6, <1>7, CopyingKeepsVersions

LEMMA GetReservedKeepsVersions ==
  ASSUME VersionInvariant, NEW r \in Requests, GetReserved(r) PROVE Versions'
<1>1. /\ job \in [Requests -> Job] /\ job[r] \in Job /\ UNCHANGED <<memory, services>>
      /\ Copies(r) /\ At(r, "clone")
  BY DEF VersionInvariant, Versions, TypeInvariant, Typed, GetReserved
<1>2. orders[r].account \in Accounts
  <2>1. orders[r] \in Order
    BY <1>1, KnownOf DEF VersionInvariant, At, Unsubmitted
  <2> QED  BY <2>1 DEF Order
<1>3. /\ job'[r].accounts = job[r].accounts /\ \A q \in Requests \ {r} : job'[q] = job[q]
      /\ job'[r].pc = "persist" /\ job'[r].clone = wallet[orders[r].account]
  BY <1>1 DEF GetReserved, Job
<1>4. Current(wallet[orders[r].account])
  BY <1>2, CurrentCopy
<1>5. \A copy : Current(copy) => Current(copy)'
  BY <1>1 DEF Current, memory
<1>6. Copies(r)'
  BY <1>1, <1>3, <1>4, <1>5 DEF Copies, At
<1>7. Copying(r)
  BY <1>1, <1>3 DEF Copying, At, memory, services
<1> QED  BY <1>6, <1>7, CopyingKeepsVersions

LEMMA CollectKeepsVersions ==
  ASSUME VersionInvariant, NEW r \in Requests, Collect(r) PROVE Versions'
<1> DEFINE a == orders[Subject(r)].account
<1>1. /\ job \in [Requests -> Job] /\ job[r] \in Job /\ UNCHANGED <<memory, services>>
      /\ Copies(r) /\ At(r, "collect") /\ TypeInvariant
  BY DEF VersionInvariant, Versions, TypeInvariant, Typed, Collect
<1>2. /\ a \in Accounts /\ job'[r].accounts = [job[r].accounts EXCEPT ![a] = wallet[a]]
      /\ \A q \in Requests \ {r} : job'[q] = job[q]
      /\ job'[r].pc = IF job[r].role = "maker" THEN "collect"
                      ELSE IF ~(job[r].at >= Len(job[r].fills)) THEN "settle"
                      ELSE IF job[r].at = Len(job[r].fills) THEN "releaseTaker"
                      ELSE "accounts"
  BY <1>1, CollectFacts
<1>3. job'[r].pc \in {"collect", "settle", "releaseTaker", "accounts"}
  BY <1>2
<1>5. Current(wallet[a]) /\ wallet[a].id = a
  BY <1>2, CurrentCopy
<1> HIDE DEF a
<1>6. \A copy : Current(copy) => Current(copy)'
  BY <1>1 DEF Current, memory
<1>7. Copies(r)'
  <2>1. job[r].accounts \in [Accounts -> Solvent \cup {None}]
    BY <1>1 DEF Job
  <2>2. \A b \in Accounts : job'[r].accounts[b] = IF b = a THEN wallet[a] ELSE job[r].accounts[b]
    BY <1>2, <2>1
  <2> QED  BY <1>1, <1>3, <1>5, <1>6, <2>2 DEF Copies, At
<1>8. Copying(r)
  BY <1>1, <1>2, <1>3 DEF Copying, At, memory, services
<1> QED  BY <1>7, <1>8, CopyingKeepsVersions

LEMMA NextAccountKeepsVersions ==
  ASSUME VersionInvariant, NEW r \in Requests, NextAccount(r) PROVE Versions'
<1>1. /\ job \in [Requests -> Job] /\ job[r] \in Job /\ UNCHANGED <<memory, services>>
      /\ Copies(r) /\ At(r, "accounts")
  BY DEF VersionInvariant, Versions, TypeInvariant, Typed, NextAccount
<1>2. CASE Goto(r, "orders")
  <2>1. Plain(r)
    BY <1>1, <1>2, GotoDeparts DEF Plain, VersionInvariant, Syncing, At, memory, services
  <2> QED  BY <2>1, PlainKeepsVersions
<1>3. CASE ~Goto(r, "orders")
  <2>1. PICK a \in Accounts :
          /\ job[r].accounts[a] # None
          /\ job' = [job EXCEPT ![r].pc = "persist", ![r].clone = job[r].accounts[a],
                                ![r].accounts[a] = None]
    BY <1>3 DEF NextAccount
  <2>2. /\ job'[r].accounts = [job[r].accounts EXCEPT ![a] = None]
        /\ job'[r].pc = "persist" /\ job'[r].clone = job[r].accounts[a]
        /\ \A q \in Requests \ {r} : job'[q] = job[q]
    BY <1>1, <2>1 DEF Job
  <2>3. Current(job[r].accounts[a])
    BY <1>1, <2>1 DEF Copies
  <2>4. \A copy : Current(copy) => Current(copy)'
    BY <1>1 DEF Current, memory
  <2>5. \A b \in Accounts : job'[r].accounts[b] = IF b = a THEN None ELSE job[r].accounts[b]
    <3>1. job[r].accounts \in [Accounts -> Solvent \cup {None}]
      BY <1>1 DEF Job
    <3> QED  BY <2>2, <3>1
  <2>6. Copies(r)'
    BY <1>1, <2>2, <2>3, <2>4, <2>5 DEF Copies, At
  <2>7. Copying(r)
    BY <1>1, <2>2 DEF Copying, At, memory, services
  <2> QED  BY <2>6, <2>7, CopyingKeepsVersions
<1> QED  BY <1>2, <1>3

-----------------------------------------------------------------------------
(* syncAccount *)

(* Who finds the row at its copy's version finds memory there too, so that *)
(* nobody is on the way from the row to memory.                            *)
LEMMA RowIsFree ==
  ASSUME VersionInvariant, NEW r \in Requests, At(r, "persist"),
         db.accounts[job[r].clone.id].version = job[r].clone.version
  PROVE  /\ job[r].clone \in Solvent /\ job[r].clone.id \in Accounts
         /\ wallet[job[r].clone.id].version = job[r].clone.version
         /\ \A q \in Requests : ~Carrying(q, job[r].clone.id)
<1> DEFINE a == job[r].clone.id
<1>1. job[r].clone \in Solvent
  BY DEF VersionInvariant, TypeInvariant, Local, Loaded, At, Syncing
<1>2. a \in Accounts /\ job[r].clone.version <= wallet[a].version
  BY DEF VersionInvariant, Versions, Copies, Current
<1>3. wallet[a] \in Solvent /\ db.accounts[a] \in Solvent
  BY <1>2 DEF VersionInvariant, TypeInvariant, Typed, Database
<1>4. /\ wallet[a].version \in Nat /\ db.accounts[a].version \in Nat
      /\ job[r].clone.version \in Nat
  BY <1>1, <1>3 DEF Solvent
<1>5. /\ wallet[a].version <= db.accounts[a].version
      /\ \A q \in Requests : Carrying(q, a) => wallet[a].version + 1 = db.accounts[a].version
  BY <1>2 DEF VersionInvariant, Versions, OneWriterAtATime
<1> QED  BY <1>1, <1>2, <1>4, <1>5

LEMMA PersistAccountKeepsVersions ==
  ASSUME VersionInvariant, "store" \in Wired, NEW r \in Requests, PersistAccount(r)
  PROVE  Versions'
<1> DEFINE c == job[r].clone
           next == [c EXCEPT !.version = c.version + 1]
<1>1. /\ job \in [Requests -> Job] /\ job[r] \in Job /\ db \in Database
      /\ At(r, "persist") /\ UNCHANGED <<memory, cache>> /\ TypeInvariant
  BY DEF VersionInvariant, TypeInvariant, Typed, PersistAccount
<1>2. CASE db.accounts[c.id].version # c.version
  <2>1. Fail(r) /\ db' = db
    BY <1>2 DEF PersistAccount
  <2>2. Plain(r)
    BY <1>1, <2>1, ReturnDeparts DEF Plain, Fail, At, memory
  <2> QED  BY <2>2, PlainKeepsVersions
<1>3. CASE db.accounts[c.id].version = c.version
  <2>1. /\ c \in Solvent /\ c.id \in Accounts /\ wallet[c.id].version = c.version
        /\ \A q \in Requests : ~Carrying(q, c.id)
    BY <1>1, <1>3, RowIsFree
  <2>2. db' = [db EXCEPT !.accounts[c.id] = next]
    BY <1>3 DEF PersistAccount, Save
  <2>3. \/ job' = [job EXCEPT ![r].pc = "replace", ![r].clone = next]
        \/ "ack" \in Faults /\ Fail(r)
    BY <1>3 DEF PersistAccount
  <2>4. next.id = c.id /\ next.version = c.version + 1 /\ c.version \in Nat
    BY <2>1 DEF Solvent
  <2> HIDE DEF c, next
  <2>5. \A a \in Accounts : db'.accounts[a] = IF a = c.id THEN next ELSE db.accounts[a]
    BY <1>1, <2>1, <2>2 DEF Database
  <2>6. \A a \in Accounts : wallet'[a] = wallet[a] /\ cache'.accounts[a] = cache.accounts[a]
    BY <1>1 DEF memory
  <2>7. \A q \in Requests \ {r} : job'[q] = job[q]
    BY <1>1, <2>3 DEF Fail, Return
  <2>8. \/ job'[r].pc = "replace" /\ job'[r].clone = next /\ job'[r].accounts = job[r].accounts
        \/ /\ "ack" \in Faults /\ job'[r].pc = "failed"
           /\ \A a \in Accounts : job'[r].accounts[a] = None
    <3>1. CASE job' = [job EXCEPT ![r].pc = "replace", ![r].clone = next]
      BY <1>1, <3>1 DEF Job
    <3>2. CASE "ack" \in Faults /\ Fail(r)
      <4>1. job'[r] = [Idle EXCEPT !.pc = "failed", !.input = job[r].input]
        BY <1>1, <3>2 DEF Fail, Return
      <4> QED  BY <3>2, <4>1 DEF Idle
    <3> QED  BY <2>3, <3>1, <3>2
  <2>9. \A a \in Accounts : /\ wallet[a].version \in Nat /\ db.accounts[a].version \in Nat
                            /\ db.accounts[a].version <= db'.accounts[a].version
    <3>1. \A a \in Accounts : wallet[a] \in Solvent /\ db.accounts[a] \in Solvent
      BY <1>1 DEF TypeInvariant, Typed, Database
    <3>2. \A a \in Accounts : wallet[a].version \in Nat /\ db.accounts[a].version \in Nat
      BY <3>1 DEF Solvent
    <3>3. db.accounts[c.id].version = c.version
      BY <1>3 DEF c
    <3> QED  BY <2>4, <2>5, <3>2, <3>3
  <2>10. Named'
    BY <2>4, <2>5, <2>6 DEF VersionInvariant, Versions, Named
  <2>11. CacheBehind'
    <3> SUFFICES ASSUME NEW a \in Accounts, cache.accounts[a] # None
                 PROVE  cache.accounts[a].version <= db'.accounts[a].version
      BY <2>6 DEF CacheBehind
    <3>1. cache.accounts[a].version <= db.accounts[a].version
      BY DEF VersionInvariant, Versions, CacheBehind
    <3>2. cache.accounts[a].version \in Nat /\ db'.accounts[a].version \in Nat
      <4>1. cache.accounts[a] \in Solvent
        BY DEF VersionInvariant, TypeInvariant, Typed, Redis
      <4> QED  BY <2>4, <2>5, <2>9, <4>1 DEF Solvent
    <3> QED  BY <2>9, <3>1, <3>2
  <2>12. ASSUME NEW q \in Requests PROVE Copies(q)'
    <3>1. Copies(q)
      BY DEF VersionInvariant, Versions
    <3>2. \A copy : Current(copy) => Current(copy)'
      BY <2>6 DEF Current
    <3>3. CASE q = r
      <4>1. next.version <= db'.accounts[next.id].version
        BY <2>1, <2>4, <2>5
      <4> QED  BY <2>8, <3>1, <3>2, <3>3, <4>1 DEF Copies, At
    <3>4. CASE q # r
      <4>1. job[q].pc \in {"replace", "cacheAccount"} =>
              /\ job[q].clone.id \in Accounts /\ job[q].clone.version \in Nat
              /\ job[q].clone.version <= db.accounts[job[q].clone.id].version
        BY <1>1, <3>1 DEF Copies, TypeInvariant, Local, Loaded, Syncing, Solvent
      <4>2. \A a \in Accounts : db'.accounts[a].version \in Nat
        BY <2>4, <2>5, <2>9
      <4>3. job'[q] = job[q]
        BY <2>7, <3>4
      <4>4. job[q].pc \in {"replace", "cacheAccount"} =>
              job[q].clone.version <= db'.accounts[job[q].clone.id].version
        BY <2>9, <4>1, <4>2
      <4> QED  BY <3>1, <3>2, <4>3, <4>4 DEF Copies, At
    <3> QED  BY <3>3, <3>4
  <2>13. OneWriterAtATime'
    <3> SUFFICES ASSUME NEW a \in Accounts
                 PROVE  /\ wallet[a].version <= db'.accounts[a].version
                        /\ "ack" \notin Faults /\ wallet[a].version < db'.accounts[a].version
                             => \E q \in Requests : Carrying(q, a)'
                        /\ \A q \in Requests : Carrying(q, a)' =>
                             /\ job'[q].clone = db'.accounts[a]
                             /\ wallet[a].version + 1 = db'.accounts[a].version
                             /\ \A p \in Requests : Carrying(p, a)' => p = q
      BY <2>6 DEF OneWriterAtATime
    <3>1. /\ wallet[a].version <= db.accounts[a].version
          /\ "ack" \notin Faults /\ wallet[a].version < db.accounts[a].version
               => \E q \in Requests : Carrying(q, a)
          /\ \A q \in Requests : Carrying(q, a) =>
               /\ job[q].clone = db.accounts[a]
               /\ wallet[a].version + 1 = db.accounts[a].version
               /\ \A p \in Requests : Carrying(p, a) => p = q
      BY DEF VersionInvariant, Versions, OneWriterAtATime
    <3>2. \A q \in Requests \ {r} : Carrying(q, a)' <=> Carrying(q, a)
      BY <2>7 DEF Carrying, At
    <3>3. ~Carrying(r, a)
      BY <1>1 DEF Carrying, At
    <3>4. CASE a = c.id
      <4>1. \A q \in Requests \ {r} : ~Carrying(q, a)'
        BY <2>1, <3>2, <3>4
      <4>2. db'.accounts[a] = next /\ wallet[a].version + 1 = next.version
        BY <2>1, <2>4, <2>5, <3>4
      <4>3. CASE "ack" \in Faults
        BY <2>8, <2>9, <4>1, <4>2, <4>3, <2>4 DEF Carrying, At
      <4>4. CASE "ack" \notin Faults
        <5>1. Carrying(r, a)' /\ job'[r].clone = next
          BY <2>4, <2>8, <3>4, <4>4 DEF Carrying, At
        <5> QED  BY <2>9, <4>1, <4>2, <5>1, <2>4
      <4> QED  BY <4>3, <4>4
    <3>5. CASE a # c.id
      <4>1. ~Carrying(r, a)'
        BY <2>4, <2>8, <3>5 DEF Carrying, At
      <4>2. db'.accounts[a] = db.accounts[a]
        BY <2>5, <3>5
      <4>3. \A q \in Requests : Carrying(q, a)' <=> Carrying(q, a)
        BY <3>2, <3>3, <4>1
      <4>4. \A q \in Requests : Carrying(q, a) => job'[q].clone = job[q].clone
        BY <2>7, <3>3
      <4> QED  BY <3>1, <4>2, <4>3, <4>4
    <3> QED  BY <3>4, <3>5
  <2> QED  BY <2>10, <2>11, <2>12, <2>13 DEF Versions
<1> QED  BY <1>2, <1>3
LEMMA ReplaceAccountKeepsVersions ==
  ASSUME VersionInvariant, NEW r \in Requests, ReplaceAccount(r) PROVE Versions'
<1> DEFINE c == job[r].clone
<1>1. /\ job \in [Requests -> Job] /\ job[r] \in Job /\ wallet \in [Accounts -> Solvent]
      /\ db \in Database /\ At(r, "replace") /\ UNCHANGED services /\ TypeInvariant
      /\ wallet' = [wallet EXCEPT ![c.id] = c] /\ Goto(r, "cacheAccount")
  BY DEF VersionInvariant, TypeInvariant, Typed, ReplaceAccount
<1>2. /\ c \in Solvent /\ c.id \in Accounts
      /\ c = db.accounts[c.id] /\ wallet[c.id].version + 1 = c.version
      /\ \A q \in Requests : Carrying(q, c.id) => q = r
  <2>1. c \in Solvent
    BY <1>1 DEF TypeInvariant, Local, Loaded, At, Syncing
  <2>2. c.id \in Accounts /\ Carrying(r, c.id)
    BY <1>1, <2>1 DEF Carrying, Solvent
  <2> QED  BY <2>1, <2>2 DEF VersionInvariant, Versions, OneWriterAtATime
<1>3. /\ job'[r].pc = "cacheAccount" /\ job'[r].clone = c
      /\ job'[r].accounts = job[r].accounts /\ \A q \in Requests \ {r} : job'[q] = job[q]
  BY <1>1 DEF Goto, Job
<1> HIDE DEF c
<1>4. \A a \in Accounts : wallet'[a] = IF a = c.id THEN c ELSE wallet[a]
  BY <1>1, <1>2
<1>5. /\ \A a \in Accounts : wallet[a].version \in Nat
      /\ c.version \in Nat
  BY <1>1, <1>2 DEF Solvent
<1>6. \A a \in Accounts :
        /\ wallet'[a].version \in Nat /\ wallet[a].version <= wallet'[a].version
        /\ db'.accounts[a] = db.accounts[a] /\ cache'.accounts[a] = cache.accounts[a]
  BY <1>1, <1>2, <1>4, <1>5 DEF services
<1>7. Named'
  BY <1>2, <1>4, <1>6 DEF VersionInvariant, Versions, Named
<1>8. CacheBehind'
  BY <1>6 DEF VersionInvariant, Versions, CacheBehind
<1>9. ASSUME NEW copy \in Solvent, Current(copy) PROVE Current(copy)'
  <2>1. copy.version \in Nat /\ copy.id \in Accounts
    BY DEF Solvent
  <2> QED  BY <1>5, <1>6, <1>9, <2>1 DEF Current
<1>10. ASSUME NEW q \in Requests PROVE Copies(q)'
  <2>1. Copies(q) /\ job[q] \in Job /\ Local(q)
    BY <1>1 DEF VersionInvariant, Versions, TypeInvariant
  <2>2. /\ At(q, "persist") => job[q].clone \in Solvent
        /\ \A a \in Accounts : job[q].accounts[a] # None => job[q].accounts[a] \in Solvent
    BY <2>1 DEF Local, Loaded, Job, Syncing, At
  <2>3. CASE q = r
    <3>1. c.version <= db'.accounts[c.id].version
      BY <1>2, <1>5, <1>6
    <3> QED  BY <1>3, <1>9, <2>1, <2>2, <2>3, <3>1 DEF Copies, At
  <2>4. CASE q # r
    <3>1. job[q].pc \in {"replace", "cacheAccount"} => job[q].clone.id \in Accounts
      BY <2>1 DEF Local, Loaded, Syncing, Solvent
    <3> QED  BY <1>3, <1>6, <1>9, <2>1, <2>2, <2>4, <3>1 DEF Copies, At
  <2> QED  BY <2>3, <2>4
<1>11. OneWriterAtATime'
  <2> SUFFICES ASSUME NEW a \in Accounts
               PROVE  /\ wallet'[a].version <= db.accounts[a].version
                      /\ "ack" \notin Faults /\ wallet'[a].version < db.accounts[a].version
                           => \E q \in Requests : Carrying(q, a)'
                      /\ \A q \in Requests : Carrying(q, a)' =>
                           /\ job'[q].clone = db.accounts[a]
                           /\ wallet'[a].version + 1 = db.accounts[a].version
                           /\ \A p \in Requests : Carrying(p, a)' => p = q
    BY <1>6 DEF OneWriterAtATime
  <2>1. /\ wallet[a].version <= db.accounts[a].version
        /\ "ack" \notin Faults /\ wallet[a].version < db.accounts[a].version
             => \E q \in Requests : Carrying(q, a)
        /\ \A q \in Requests : Carrying(q, a) =>
             /\ job[q].clone = db.accounts[a]
             /\ wallet[a].version + 1 = db.accounts[a].version
             /\ \A p \in Requests : Carrying(p, a) => p = q
    BY DEF VersionInvariant, Versions, OneWriterAtATime
  <2>2. ~Carrying(r, a)' /\ \A q \in Requests \ {r} : Carrying(q, a)' <=> Carrying(q, a)
    BY <1>3 DEF Carrying, At
  <2>3. CASE a = c.id
    <3>1. wallet'[a] = db.accounts[a]
      BY <1>2, <1>4, <2>3
    <3>2. \A q \in Requests : ~Carrying(q, a)'
      BY <1>2, <2>2, <2>3
    <3> QED  BY <1>6, <3>1, <3>2
  <2>4. CASE a # c.id
    <3>1. ~Carrying(r, a) /\ wallet'[a] = wallet[a]
      BY <1>4, <2>4 DEF Carrying, c
    <3>2. \A q \in Requests : Carrying(q, a)' <=> Carrying(q, a)
      BY <2>2, <3>1
    <3>3. \A q \in Requests : Carrying(q, a)' => job'[q].clone = job[q].clone
      BY <1>3, <2>2
    <3> QED  BY <2>1, <3>1, <3>2, <3>3
  <2> QED  BY <2>3, <2>4
<1> QED  BY <1>7, <1>8, <1>10, <1>11 DEF Versions

LEMMA CacheAccountKeepsVersions ==
  ASSUME VersionInvariant, NEW r \in Requests, CacheAccount(r) PROVE Versions'
<1> DEFINE c == job[r].clone
<1>1. /\ job \in [Requests -> Job] /\ job[r] \in Job /\ cache \in Redis
      /\ At(r, "cacheAccount") /\ UNCHANGED <<memory, db>> /\ TypeInvariant
  BY DEF VersionInvariant, TypeInvariant, Typed, CacheAccount
<1>2. PICK label \in {"audit", "submit", "accounts"} : Goto(r, label)
  BY DEF CacheAccount
<1>3. Departs(r)
  BY <1>1, <1>2, GotoDeparts DEF Syncing
<1>4. \A a \in Accounts : cache'.accounts[a] \in {cache.accounts[a], db.accounts[a]}
        \/ cache'.accounts[a].version <= db.accounts[a].version
  <2>1. c \in Solvent /\ c.version <= db.accounts[c.id].version
    BY <1>1 DEF TypeInvariant, Local, Loaded, At, Syncing, VersionInvariant, Versions, Copies
  <2>2. cache' = [cache EXCEPT !.accounts[c.id] = c] \/ cache' = cache
    BY DEF CacheAccount, Keep
  <2> HIDE DEF c
  <2> QED  BY <1>1, <2>1, <2>2 DEF Redis, Solvent
<1>5. CacheBehind'
  <2> SUFFICES ASSUME NEW a \in Accounts, cache'.accounts[a] # None
               PROVE  cache'.accounts[a].version <= db.accounts[a].version
    BY <1>1 DEF CacheBehind
  <2>1. db.accounts[a].version \in Nat
    <3>1. db.accounts[a] \in Solvent
      BY <1>1 DEF TypeInvariant, Typed, Database
    <3> QED  BY <3>1 DEF Solvent
  <2> QED  BY <1>4, <2>1 DEF VersionInvariant, Versions, CacheBehind
<1>6. (Named /\ OneWriterAtATime)' /\ \A q \in Requests : Copies(q)'
  <2>1. \A q \in Requests : job'[q].pc = "replace" => q # r /\ job'[q] = job[q]
    BY <1>3 DEF Departs, Syncing
  <2>2. \A q \in Requests, a \in Accounts : Carrying(q, a)' <=> Carrying(q, a)
    BY <1>1, <1>3, <2>1 DEF Departs, Carrying, At
  <2>3. Named'
    BY <1>1 DEF VersionInvariant, Versions, Named, memory
  <2>4. OneWriterAtATime'
    <3>1. \A q \in Requests, a \in Accounts : Carrying(q, a)' => job'[q].clone = job[q].clone
      BY <2>1 DEF Carrying, At
    <3>2. wallet' = wallet /\ db' = db
      BY <1>1 DEF memory
    <3> QED  BY <2>2, <3>1, <3>2 DEF VersionInvariant, Versions, OneWriterAtATime
  <2>5. ASSUME NEW q \in Requests PROVE Copies(q)'
    <3>1. Copies(q) /\ \A copy : Current(copy) => Current(copy)'
      BY <1>1 DEF VersionInvariant, Versions, Current, memory
    <3> QED  BY <1>1, <1>3, <3>1 DEF Departs, Copies, At, Syncing
  <2> QED  BY <2>3, <2>4, <2>5
<1> QED  BY <1>5, <1>6 DEF Versions

-----------------------------------------------------------------------------
(* The inductive invariant *)

LEMMA VersionInit == "store" \in Wired /\ Init => VersionInvariant
<1> SUFFICES ASSUME "store" \in Wired, Init PROVE VersionInvariant
  OBVIOUS
<1>1. TypeInvariant
  BY TypeInit
<1>2. /\ wallet = InitialAccounts /\ db.accounts = InitialAccounts
      /\ \A r \in Requests : job[r] = Idle
  BY DEF Init, NewExchange
<1>3. \A a \in Accounts : InitialAccounts[a].id = a
  BY ExchangeAssumption
<1>4. \A a \in Accounts : InitialAccounts[a].version \in Nat
  <2>1. \A a \in Accounts : InitialAccounts[a] \in Account
    BY ExchangeAssumption
  <2> QED  BY <2>1 DEF Account
<1>5. \A r \in Requests : job[r].pc = "idle" /\ \A a \in Accounts : job[r].accounts[a] = None
  BY <1>2 DEF Idle
<1>6. CacheBehind
  <2>1. \A a \in Accounts : cache.accounts[a] \in {None, InitialAccounts[a]}
    BY DEF Init, NewExchange, ColdCache
  <2> QED  BY <1>2, <1>4, <2>1 DEF CacheBehind
<1>7. Named
  BY <1>2, <1>3 DEF Named
<1>8. OneWriterAtATime
  BY <1>2, <1>4, <1>5 DEF OneWriterAtATime, Carrying, At
<1>9. \A r \in Requests : Copies(r)
  BY <1>5 DEF Copies, At
<1> QED  BY <1>1, <1>6, <1>7, <1>8, <1>9 DEF VersionInvariant, Versions

LEMMA VersionStep ==
  "store" \in Wired /\ VersionInvariant /\ TypeInvariant' /\ [Next]_vars => VersionInvariant'
<1> SUFFICES ASSUME "store" \in Wired, VersionInvariant, TypeInvariant', [Next]_vars
             PROVE  VersionInvariant'
  OBVIOUS
<1>1. TypeInvariant'
  OBVIOUS
<1>2. ASSUME UNCHANGED vars PROVE Versions'
  BY <1>2 DEF VersionInvariant, Versions, Named, OneWriterAtATime, CacheBehind, Copies,
     Carrying, Current, At, vars, memory, services
<1>3. ASSUME NEW r \in Requests, Elsewhere(r) PROVE Versions'
  BY <1>3, PlainSteps, PlainKeepsVersions DEF VersionInvariant
<1>4. ASSUME NEW r \in Requests, Accept(r) PROVE Versions'
  <2>1. PICK in \in Inputs : Deposit(r, in) \/ PlaceOrder(r, in)
    BY <1>4 DEF Accept
  <2>2. At(r, "idle")
    BY <1>4 DEF Accept
  <2>3. CASE PlaceOrder(r, in)
    BY <1>3, <2>2, <2>3 DEF Elsewhere
  <2> QED  BY <2>1, <2>2, <2>3, DepositKeepsVersions
<1>5. ASSUME NEW r \in Requests, Serve(r) PROVE Versions'
  <2>1. \/ Elsewhere(r) \/ GetReserved(r) \/ PersistAccount(r) \/ ReplaceAccount(r)
        \/ CacheAccount(r) \/ Collect(r) \/ NextAccount(r)
    BY <1>5 DEF Serve, Elsewhere
  <2> QED
    BY <1>3, <2>1, GetReservedKeepsVersions, PersistAccountKeepsVersions,
       ReplaceAccountKeepsVersions, CacheAccountKeepsVersions, CollectKeepsVersions,
       NextAccountKeepsVersions
<1> QED  BY <1>1, <1>2, <1>4, <1>5 DEF VersionInvariant, Next, AllAnswered

LEMMA VersionsAreKept == "store" \in Wired => (Spec => []VersionInvariant)
<1> SUFFICES ASSUME "store" \in Wired PROVE Spec => []VersionInvariant
  OBVIOUS
<1>1. Init => VersionInvariant
  BY VersionInit
<1>2. VersionInvariant /\ TypeInvariant' /\ [Next]_vars => VersionInvariant'
  BY VersionStep
<1> QED  BY <1>1, <1>2, TypesArePreserved, PTL DEF Spec

(* The optimistic lock works, for any number of requests, accounts and     *)
(* faults, as long as the store is not the no-op one: see OneWriterAtATime. *)
THEOREM OneWriter == "store" \in Wired => (Spec => []OneWriterAtATime)
<1> SUFFICES ASSUME "store" \in Wired PROVE Spec => []OneWriterAtATime
  OBVIOUS
<1>1. VersionInvariant => OneWriterAtATime
  BY DEF VersionInvariant, Versions
<1> QED  BY <1>1, VersionsAreKept, PTL

(* A commit that was never acknowledged freezes the account: while the row *)
(* is ahead and nobody carries it back, no step moves the row, nor the     *)
(* version in memory.                                                      *)
THEOREM LostReplyFreezes == "store" \in Wired => (Spec => LostReplyFreezesAccount)
<1> DEFINE Frozen == \A a \in Accounts : Behind(a) =>
                       db'.accounts[a] = db.accounts[a] /\ wallet'[a].version = wallet[a].version
<1> SUFFICES ASSUME "store" \in Wired PROVE Spec => [][Frozen]_vars
  BY DEF LostReplyFreezesAccount
<1>1. VersionInvariant /\ [Next]_vars => [Frozen]_vars
  <2> SUFFICES ASSUME VersionInvariant, Next PROVE Frozen
    BY DEF vars
  <2>1. ASSUME UNCHANGED vars PROVE Frozen
    BY <2>1 DEF vars, memory, services
  <2>2. ASSUME NEW r \in Requests, Elsewhere(r) PROVE Frozen
    BY <2>2, PlainSteps DEF VersionInvariant, Plain
  <2>3. ASSUME NEW r \in Requests, Accept(r) PROVE Frozen
    <3>1. CASE \E in \in Inputs : PlaceOrder(r, in)
      BY <2>2, <2>3, <3>1 DEF Elsewhere, Accept
    <3>2. CASE \E in \in Inputs : Deposit(r, in)
      BY SMTT(40), <3>2 DEF Deposit, memory, services
    <3> QED  BY <2>3, <3>1, <3>2 DEF Accept
  <2>4. ASSUME NEW r \in Requests,
               GetReserved(r) \/ CacheAccount(r) \/ Collect(r) \/ NextAccount(r)
        PROVE  Frozen
    BY ZenonT(40), <2>4 DEF GetReserved, CacheAccount, Collect, NextAccount, memory, services
  <2>5. ASSUME NEW r \in Requests, PersistAccount(r) PROVE Frozen
    <3> DEFINE c == job[r].clone
               next == [c EXCEPT !.version = c.version + 1]
    <3>1. CASE db.accounts[c.id].version # c.version
      BY <2>5, <3>1 DEF PersistAccount, memory
    <3>2. CASE db.accounts[c.id].version = c.version
      <4>1. /\ c.id \in Accounts /\ wallet[c.id].version = c.version
            /\ db \in Database /\ wallet' = wallet
        BY <2>5, <3>2, RowIsFree DEF PersistAccount, memory, VersionInvariant, TypeInvariant,
           Typed
      <4>2. db' = [db EXCEPT !.accounts[c.id] = next]
        BY <2>5, <3>2 DEF PersistAccount, Save
      <4>3. wallet[c.id].version \in Nat /\ ~Behind(c.id)
        <5>1. wallet[c.id] \in Solvent
          BY <4>1 DEF VersionInvariant, TypeInvariant, Typed
        <5> QED  BY <3>2, <4>1, <5>1 DEF Behind, Solvent
      <4> HIDE DEF c, next
      <4> QED  BY <4>1, <4>2, <4>3 DEF Database
    <3> QED  BY <3>1, <3>2
  <2>6. ASSUME NEW r \in Requests, ReplaceAccount(r) PROVE Frozen
    <3> DEFINE c == job[r].clone
    <3>1. /\ wallet' = [wallet EXCEPT ![c.id] = c] /\ db' = db
          /\ wallet \in [Accounts -> Solvent]
      BY <2>6 DEF ReplaceAccount, services, VersionInvariant, TypeInvariant, Typed
    <3>2. ~Behind(c.id)
      BY <2>6 DEF ReplaceAccount, Behind, Carrying
    <3> HIDE DEF c
    <3> QED  BY <3>1, <3>2
  <2>7. ASSUME NEW r \in Requests, Serve(r) PROVE Frozen
    <3>1. \/ Elsewhere(r) \/ GetReserved(r) \/ PersistAccount(r) \/ ReplaceAccount(r)
          \/ CacheAccount(r) \/ Collect(r) \/ NextAccount(r)
      BY <2>7 DEF Serve, Elsewhere
    <3> QED  BY <2>2, <2>4, <2>5, <2>6, <3>1
  <2> QED  BY <2>1, <2>3, <2>7 DEF Next, AllAnswered
<1> QED  BY <1>1, VersionsAreKept, PTL DEF Spec
=============================================================================
