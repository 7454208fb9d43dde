--------------------------- MODULE ExchangeFunds ---------------------------
(***************************************************************************)
(* Where the money is when requests are served one after the other: the    *)
(* locked balances are what the open orders and the fills that are not yet *)
(* settled need, whichever call fails.                                     *)
(***************************************************************************)
EXTENDS ExchangeTypes

(* Nobody but r is being served. *)
Solo(r) == \A q \in Requests \ {r} : ~Busy(q)

-----------------------------------------------------------------------------
(* The fills of a goroutine that are not applied yet *)

(* From the first fill to the release of what the taker has left. *)
Applying == {"match", "loadStatus", "storeStatus", "collect", "settle",
             "loadReserved", "storeReserved", "checkReserved", "clampReserved",
             "releaseMaker", "releaseTaker", "clip", "subtract", "add", "clear"}

(* The fills still to come; the current one is among them if `now'.        *)
Later(j, now) ==
  {i \in DOMAIN j.fills : j.pc \in Applying /\ (i > j.at \/ (i = j.at /\ now))}

(* Which fills have their maker's or taker's half still to be settled, and *)
(* still to be subtracted from ReservedAmount.                             *)
Unsettled(j, who) == Later(j, j.pc = "settle" /\ (who = "taker" \/ j.role = "maker"))

Unadjusted(j, who) ==
  Later(j, \/ j.pc = "settle"
           \/ j.pc \in {"loadReserved", "storeReserved"} /\ (who = "taker" \/ j.role = "maker")
           \/ j.pc \in {"checkReserved", "clampReserved"} /\ who = "taker" /\ j.role = "maker")

Party(fill, who) == IF who = "maker" THEN fill.maker ELSE fill.taker

(* How much of order o is in the fills S, on the side of who. *)
Volume(fills, who, o, S) ==
  SumFunctionOnSet([i \in S |-> IF Party(fills[i], who) = o THEN fills[i].quantity ELSE 0], S)

Quantity(fills, makers, takers, o) ==
  Volume(fills, "maker", o, makers) + Volume(fills, "taker", o, takers)

Unpaid(j) ==
  [o \in Orders |-> Quantity(j.fills, Unsettled(j, "maker"), Unsettled(j, "taker"), o)]

Unreduced(j) ==
  [o \in Orders |-> Quantity(j.fills, Unadjusted(j, "maker"), Unadjusted(j, "taker"), o)]

Nothing == [o \in Orders |-> 0]

-----------------------------------------------------------------------------
(* Locks *)

Unsent(o) == o \in Requests /\ orders[o].sequence = 0

(* What an order has a claim to: what it reserved, until Submit; what is   *)
(* left of it, and its fills that are not settled, from then on.           *)
Due(owed, o) ==
  IF Unsent(o) THEN orders[o].reserved
  ELSE Needs(orders[o], orders[o].remaining) + Needs(orders[o], owed[o])

LocksOf(o, a, asset) ==
  orders[o] # None /\ orders[o].account = a /\ LockedAsset(Pair[orders[o].symbol], orders[o]) = asset

Claim(owed, o, a, asset) == IF LocksOf(o, a, asset) THEN Due(owed, o) ELSE 0

(* What was locked beyond the needs of the restored orders at the start. *)
RestoredClaim(o, a, asset) ==
  IF /\ o \in DOMAIN OpenOrders
     /\ OpenOrders[o].account = a
     /\ LockedAsset(Pair[OpenOrders[o].symbol], OpenOrders[o]) = asset
    THEN Needs(OpenOrders[o], OpenOrders[o].remaining) ELSE 0

Surplus(a, asset) ==
  InitialAccounts[a].balances[asset].locked
    - SumFunctionOnSet([o \in Orders |-> RestoredClaim(o, a, asset)], Orders)

Locked(owed) ==
  \A a \in Accounts, asset \in Assets :
    wallet[a].balances[asset].locked =
      Surplus(a, asset) + SumFunctionOnSet([o \in Orders |-> Claim(owed, o, a, asset)], Orders)

(* No order says it has reserved more than it needs, so that releasing the *)
(* rest of a filled order takes nothing from another one.                  *)
Exact == \A o \in DOMAIN OpenOrders :
           OpenOrders[o].reserved = Needs(OpenOrders[o], OpenOrders[o].remaining)

Backed(owed) ==
  \A o \in Orders : orders[o] # None /\ ~Unsent(o) =>
    LET needed == Needs(orders[o], orders[o].remaining) + Needs(orders[o], owed[o]) IN
    orders[o].reserved <= needed /\ (Exact => orders[o].reserved = needed)

-----------------------------------------------------------------------------
(* What the goroutine in turn knows *)

(* Before Submit its reservation is what the order needs, or nothing yet. *)
BeforeSubmit(r) ==
  job[r].input.kind # "deposit" /\ orders[r].sequence = 0 =>
    /\ orders[r].reserved = IF At(r, "reserve") THEN 0 ELSE Needs(orders[r], orders[r].quantity)
    /\ \A a \in Accounts : job[r].accounts[a] = None

(* Nobody writes ReservedAmount between its load and its store, and a      *)
(* release is of an order with nothing left, all of whose fills have been  *)
(* applied: it never finds less locked than reserved.                      *)
Steady(r) ==
  /\ At(r, "storeReserved") => job[r].seen = orders[Subject(r)].reserved
  /\ At(r, "clampReserved") => orders[Subject(r)].reserved < 0
  /\ At(r, "releaseMaker") => job[r].role = "maker"
  /\ At(r, "releaseTaker") => job[r].at > Len(job[r].fills)
  /\ job[r].pc \in Releasing =>
       /\ ~At(r, "clip")
       /\ orders[Subject(r)].remaining = 0
       /\ job[r].role = "maker" \/ job[r].at > Len(job[r].fills)

(* Its makers are other orders of the same symbol; the head of the queue   *)
(* is not met again unless nothing is left to trade.                       *)
Matched(r) ==
  job[r].pc \in Applying =>
    /\ \A i \in DOMAIN job[r].fills :
         LET maker == job[r].fills[i].maker IN
         /\ maker # r
         /\ ~Unsent(maker)
         /\ orders[maker].symbol = orders[r].symbol
         /\ At(r, "match") => orders[maker].remaining = 0 \/ orders[r].remaining = 0
    /\ \A i, k \in DOMAIN job[r].fills :
         i < k /\ job[r].fills[i].maker = job[r].fills[k].maker => job[r].fills[k].quantity = 0
    /\ Steady(r)

(* The accounts whose copies in changedAccounts are about to be refreshed. *)
Dirty(r) ==
  IF At(r, "collect") /\ job[r].role = "taker" THEN {orders[r].account}
  ELSE IF job[r].pc \in Applying /\ job[r].at \in DOMAIN job[r].fills
    THEN {orders[Fill(r).maker].account, orders[r].account}
  ELSE {}

(* A copy is the account, or the account and the deposit. *)
Copied(r) ==
  /\ \A a \in Accounts : job[r].accounts[a] # None /\ a \notin Dirty(r) =>
       job[r].accounts[a] = wallet[a]
  /\ job[r].pc \in Syncing =>
       LET c == job[r].clone  in == job[r].input IN
       /\ c.id \in Accounts
       /\ job[r].accounts[c.id] = None
       /\ job[r].pc \in {"persist", "replace"} =>
            c.balances = IF in.kind = "deposit"
                           THEN Crediting(wallet[c.id], in.asset, in.amount).balances
                           ELSE wallet[c.id].balances

Keeps(r) == BeforeSubmit(r) /\ Matched(r) /\ Copied(r)

(* A queue holds orders of its own symbol, an account knows its name. *)
Labelled ==
  /\ \A a \in Accounts : wallet[a].id = a
  /\ \A s \in Symbols, side \in Sides : \A o \in Range(queue[s][side]) : orders[o].symbol = s

Money(r) == Locked(Unpaid(job[r])) /\ Backed(Unreduced(job[r]))

AllSettled == Locked(Nothing) /\ Backed(Nothing)

FundsInvariant ==
  /\ TypeInvariant
  /\ InTurn
  /\ Labelled
  /\ \A r \in Requests : Busy(r) => Keeps(r) /\ Money(r)
  /\ Quiet => AllSettled

(* The hypotheses: Serial of ExchangeTypes, and a start at which the       *)
(* restored orders find their funds, as RebuildReservations leaves them    *)
(* when the accounts have enough.                                          *)
Funded ==
  /\ \A o \in DOMAIN OpenOrders :
       OpenOrders[o].reserved <= Needs(OpenOrders[o], OpenOrders[o].remaining)
  /\ \A a \in Accounts, asset \in Assets : Surplus(a, asset) >= 0

-----------------------------------------------------------------------------
(* Sums over fills *)

LEMMA VolumeNatural ==
  ASSUME NEW fills \in Seq(Trade), NEW who, NEW o, NEW S \in SUBSET DOMAIN fills
  PROVE  /\ IsFiniteSet(S)
         /\ Volume(fills, who, o, S) \in Nat
         /\ \A i \in S : Party(fills[i], who) = o => fills[i].quantity <= Volume(fills, who, o, S)
<1> DEFINE F == [i \in S |-> IF Party(fills[i], who) = o THEN fills[i].quantity ELSE 0]
<1>1. IsFiniteSet(S)
  <2>1. DOMAIN fills = 1..Len(fills) /\ Len(fills) \in Nat
    BY LenProperties
  <2>2. IsFiniteSet(1..Len(fills))
    BY <2>1, FS_Interval
  <2> QED  BY <2>1, <2>2, FS_Subset
<1>2. \A i \in S : fills[i].quantity \in Nat
  <2>1. \A i \in S : fills[i] \in Trade
    BY LenProperties, ElementOfSeq
  <2> QED  BY <2>1 DEF Trade
<1>3. \A i \in S : F[i] \in Nat
  BY <1>2
<1>4. \A i \in S : Party(fills[i], who) = o => F[i] = fills[i].quantity
  OBVIOUS
<1>5. Volume(fills, who, o, S) = SumFunctionOnSet(F, S)
  BY DEF Volume
<1> HIDE DEF F
<1>6. SumFunctionOnSet(F, S) \in Nat /\ \A i \in S : F[i] <= SumFunctionOnSet(F, S)
  BY <1>1, <1>3, SumNatural
<1> QED  BY <1>1, <1>4, <1>5, <1>6

(* One half of a fill fewer. *)
LEMMA VolumeDrop ==
  ASSUME NEW fills \in Seq(Trade), NEW who, NEW o, NEW S \in SUBSET DOMAIN fills, NEW i \in S
  PROVE  Volume(fills, who, o, S) =
           (IF Party(fills[i], who) = o THEN fills[i].quantity ELSE 0)
             + Volume(fills, who, o, S \ {i})
<1> DEFINE F == [k \in S |-> IF Party(fills[k], who) = o THEN fills[k].quantity ELSE 0]
           T == S \ {i}
           G == [k \in T |-> IF Party(fills[k], who) = o THEN fills[k].quantity ELSE 0]
<1>1. IsFiniteSet(S) /\ IsFiniteSet(T)
  BY VolumeNatural, FS_Subset
<1>2. \A k \in S : fills[k].quantity \in Nat
  <2>1. \A k \in S : fills[k] \in Trade
    BY LenProperties, ElementOfSeq
  <2> QED  BY <2>1 DEF Trade
<1>3. \A k \in S : F[k] \in Int
  BY <1>2
<1>4. \A k \in T : G[k] \in Int /\ F[k] = G[k]
  BY <1>2
<1>5. /\ Volume(fills, who, o, S) = SumFunctionOnSet(F, S)
      /\ Volume(fills, who, o, T) = SumFunctionOnSet(G, T)
  BY DEF Volume
<1>6. F[i] = IF Party(fills[i], who) = o THEN fills[i].quantity ELSE 0
  OBVIOUS
<1> HIDE DEF F, G
<1>7. SumFunctionOnSet(F, S) = F[i] + SumFunctionOnSet(F, S \ {i})
  BY <1>1, <1>3, SumAdds
<1>8. SumFunctionOnSet(F, T) = SumFunctionOnSet(G, T)
  <2> HIDE DEF T
  <2> QED  BY <1>1, <1>4, SumEqual
<1> QED  BY <1>5, <1>6, <1>7, <1>8

(* One fill more. *)
LEMMA VolumeAppend ==
  ASSUME NEW fills \in Seq(Trade), NEW fill \in Trade, NEW who, NEW o,
         NEW S \in SUBSET DOMAIN fills
  PROVE  Volume(Append(fills, fill), who, o, S \cup {Len(fills) + 1}) =
           (IF Party(fill, who) = o THEN fill.quantity ELSE 0) + Volume(fills, who, o, S)
<1> DEFINE more == Append(fills, fill)
           n == Len(fills) + 1
           T == S \cup {n}
           F == [k \in S |-> IF Party(fills[k], who) = o THEN fills[k].quantity ELSE 0]
           G == [k \in T \ {n} |-> IF Party(more[k], who) = o THEN more[k].quantity ELSE 0]
<1>1. /\ DOMAIN fills = 1..Len(fills) /\ Len(fills) \in Nat
      /\ more \in Seq(Trade) /\ DOMAIN more = 1..n /\ more[n] = fill
      /\ \A k \in 1..Len(fills) : more[k] = fills[k]
  BY LenProperties, AppendProperties
<1>2. T \in SUBSET DOMAIN more /\ n \in T /\ T \ {n} = S
  BY <1>1
<1>3. Volume(more, who, o, T) =
        (IF Party(more[n], who) = o THEN more[n].quantity ELSE 0) + Volume(more, who, o, T \ {n})
  <2> HIDE DEF more, T, n
  <2> QED  BY <1>1, <1>2, VolumeDrop
<1>4. Volume(more, who, o, T \ {n}) = SumFunctionOnSet(G, T \ {n})
  BY DEF Volume
<1>5. Volume(fills, who, o, S) = SumFunctionOnSet(F, S)
  BY DEF Volume
<1>6. IsFiniteSet(S)
  BY VolumeNatural
<1>7. \A k \in S : F[k] \in Int /\ G[k] = F[k]
  <2> SUFFICES ASSUME NEW k \in S PROVE F[k] \in Int /\ G[k] = F[k]
    OBVIOUS
  <2>1. k \in 1..Len(fills) /\ k \in T \ {n} /\ more[k] = fills[k]
    BY <1>1, <1>2
  <2>2. fills[k] \in Trade
    BY <2>1, ElementOfSeq
  <2>3. fills[k].quantity \in Nat
    BY <2>2 DEF Trade
  <2> HIDE DEF more, T, n
  <2> QED  BY <2>1, <2>3
<1> HIDE DEF F, G
<1>8. SumFunctionOnSet(G, S) = SumFunctionOnSet(F, S)
  BY <1>6, <1>7, SumEqual
<1> HIDE DEF T
<1> QED  BY <1>1, <1>2, <1>3, <1>4, <1>5, <1>8 DEF T

LEMMA VolumeZero ==
  ASSUME NEW fills \in Seq(Trade), NEW who, NEW o, NEW S \in SUBSET DOMAIN fills,
         \A i \in S : Party(fills[i], who) = o => fills[i].quantity = 0
  PROVE  Volume(fills, who, o, S) = 0
<1> DEFINE F == [i \in S |-> IF Party(fills[i], who) = o THEN fills[i].quantity ELSE 0]
<1>1. IsFiniteSet(S) /\ \A i \in S : F[i] = 0
  BY VolumeNatural
<1>2. Volume(fills, who, o, S) = SumFunctionOnSet(F, S)
  BY DEF Volume
<1> HIDE DEF F
<1> QED  BY <1>1, <1>2, SumZero

-----------------------------------------------------------------------------
(* Sums over orders *)

LEMMA OrdersAreFinite == Serial => IsFiniteSet(Orders)
BY ExchangeAssumption, FS_Union DEF Serial, Orders

LEMMA SurplusIsInteger ==
  ASSUME Serial, NEW a \in Accounts, NEW asset \in Assets PROVE Surplus(a, asset) \in Int
<1>1. IsFiniteSet(Orders)
  BY OrdersAreFinite
<1>2. InitialAccounts[a].balances[asset].locked \in Int
  <2>1. InitialAccounts[a] \in Account
    BY ExchangeAssumption
  <2> QED  BY <2>1 DEF Account, Amount
<1>3. \A o \in Orders : RestoredClaim(o, a, asset) \in Int
  <2> SUFFICES ASSUME NEW o \in Orders, o \in DOMAIN OpenOrders PROVE RestoredClaim(o, a, asset) \in Int
    BY DEF RestoredClaim
  <2>1. OpenOrders[o] \in Order
    BY ExchangeAssumption
  <2>2. OpenOrders[o].remaining \in Nat
    BY <2>1 DEF Order
  <2> QED  BY <2>1, <2>2, NeedsIsNatural DEF RestoredClaim
<1> DEFINE R == [o \in Orders |-> RestoredClaim(o, a, asset)]
<1>4. \A o \in Orders : R[o] \in Int
  BY <1>3
<1>5. SumFunctionOnSet(R, Orders) \in Int
  <2> HIDE DEF R
  <2> QED  BY <1>1, <1>4, SumAdds
<1> QED  BY <1>2, <1>5 DEF Surplus

LEMMA ClaimInteger ==
  ASSUME TypeInvariant, NEW owed \in [Orders -> Nat], NEW o \in Orders, NEW a, NEW asset
  PROVE  Claim(owed, o, a, asset) \in Int /\ (NoDebt => Claim(owed, o, a, asset) >= 0)
<1>1. CASE orders[o] = None
  BY <1>1 DEF Claim, LocksOf
<1>2. CASE orders[o] # None
  <2>1. orders[o] \in Order
    BY <1>2 DEF TypeInvariant, Typed
  <2>2. orders[o].reserved \in Int /\ orders[o].remaining \in Nat
    BY <2>1 DEF Order
  <2>3. NoDebt => orders[o].reserved >= 0
    BY <1>2 DEF NoDebt
  <2>4. Needs(orders[o], orders[o].remaining) \in Nat /\ Needs(orders[o], owed[o]) \in Nat
    BY <2>1, <2>2, NeedsIsNatural
  <2> QED  BY <2>2, <2>3, <2>4 DEF Claim, Due
<1> QED  BY <1>1, <1>2

(* No claim changes, and no lock. *)
LEMMA LockedEven ==
  ASSUME NEW p, NEW q, Locked(p),
         \A o \in Orders, a \in Accounts, asset \in Assets :
           Claim(q, o, a, asset)' = Claim(p, o, a, asset),
         \A a \in Accounts, asset \in Assets :
           wallet'[a].balances[asset].locked = wallet[a].balances[asset].locked
  PROVE  Locked(q)'
<1> SUFFICES ASSUME NEW a \in Accounts, NEW asset \in Assets
             PROVE  wallet'[a].balances[asset].locked =
               Surplus(a, asset) + SumFunctionOnSet([o \in Orders |-> Claim(q, o, a, asset)'], Orders)
  BY DEF Locked, Surplus
<1>1. [o \in Orders |-> Claim(q, o, a, asset)'] = [o \in Orders |-> Claim(p, o, a, asset)]
  OBVIOUS
<1> QED  BY <1>1 DEF Locked

(* One claim changes, and the lock with it. *)
LEMMA LockedMoves ==
  ASSUME TypeInvariant, TypeInvariant', Serial, NEW p \in [Orders -> Nat], NEW q \in [Orders -> Nat],
         Locked(p), NEW x \in Orders,
         \A o \in Orders \ {x}, a \in Accounts, asset \in Assets :
           Claim(q, o, a, asset)' = Claim(p, o, a, asset),
         \A a \in Accounts, asset \in Assets :
           wallet'[a].balances[asset].locked =
             wallet[a].balances[asset].locked - Claim(p, x, a, asset) + Claim(q, x, a, asset)'
  PROVE  Locked(q)'
<1> SUFFICES ASSUME NEW a \in Accounts, NEW asset \in Assets
             PROVE  wallet'[a].balances[asset].locked =
               Surplus(a, asset) + SumFunctionOnSet([o \in Orders |-> Claim(q, o, a, asset)'], Orders)
  BY DEF Locked, Surplus
<1> DEFINE F == [o \in Orders |-> Claim(p, o, a, asset)]
           G == [o \in Orders |-> Claim(q, o, a, asset)']
<1>1. IsFiniteSet(Orders)
  BY OrdersAreFinite
<1>2. \A o \in Orders : F[o] \in Int
  BY ClaimInteger
<1>3. G[x] \in Int
  <2>1. Claim(q, x, a, asset)' \in Int
    <3>1. CASE orders'[x] = None
      BY <3>1 DEF Claim, LocksOf
    <3>2. CASE orders'[x] # None
      <4>1. orders'[x] \in Order
        BY <3>2 DEF TypeInvariant, Typed
      <4>2. orders'[x].reserved \in Int /\ orders'[x].remaining \in Nat
        BY <4>1 DEF Order
      <4>3. Needs(orders'[x], orders'[x].remaining) \in Nat /\ Needs(orders'[x], q[x]) \in Nat
        BY <4>1, <4>2, NeedsIsNatural
      <4> QED  BY <4>2, <4>3 DEF Claim, Due, Unsent
    <3> QED  BY <3>1, <3>2
  <2> QED  BY <2>1
<1>4. \A o \in Orders : o # x => G[o] = F[o]
  OBVIOUS
<1>5. F[x] = Claim(p, x, a, asset) /\ G[x] = Claim(q, x, a, asset)'
  OBVIOUS
<1>6. wallet[a].balances[asset].locked = Surplus(a, asset) + SumFunctionOnSet(F, Orders)
  BY DEF Locked
<1>7. wallet[a].balances[asset].locked \in Nat /\ Surplus(a, asset) \in Int
  <2>1. wallet[a] \in Solvent
    BY DEF TypeInvariant, Typed
  <2> QED  BY <2>1, BalanceIsNatural, SurplusIsInteger
<1>8. wallet'[a].balances[asset].locked = wallet[a].balances[asset].locked - F[x] + G[x]
  BY <1>5
<1> HIDE DEF F, G
<1>9. SumFunctionOnSet(G, Orders) = SumFunctionOnSet(F, Orders) - F[x] + G[x]
  BY <1>1, <1>2, <1>3, <1>4, SumChanges
<1>10. SumFunctionOnSet(F, Orders) \in Int
  BY <1>1, <1>2, SumAdds
<1>11. wallet'[a].balances[asset].locked = Surplus(a, asset) + SumFunctionOnSet(G, Orders)
  BY <1>2, <1>3, <1>6, <1>7, <1>8, <1>9, <1>10
<1> QED  BY <1>11 DEF G

(* The locked balance covers what any one order has a claim to. *)
LEMMA ClaimIsLocked ==
  ASSUME TypeInvariant, NoDebt, Serial, Funded, NEW owed \in [Orders -> Nat], Locked(owed),
         NEW o \in Orders, NEW a \in Accounts, NEW asset \in Assets
  PROVE  Claim(owed, o, a, asset) <= wallet[a].balances[asset].locked
<1> DEFINE F == [x \in Orders |-> Claim(owed, x, a, asset)]
<1>1. IsFiniteSet(Orders)
  BY OrdersAreFinite
<1>2. (\A x \in Orders : F[x] \in Nat) /\ F[o] = Claim(owed, o, a, asset)
  BY ClaimInteger
<1>3. wallet[a].balances[asset].locked = Surplus(a, asset) + SumFunctionOnSet(F, Orders)
  BY DEF Locked
<1>4. wallet[a].balances[asset].locked \in Nat
  <2>1. wallet[a] \in Solvent
    BY DEF TypeInvariant, Typed
  <2> QED  BY <2>1, BalanceIsNatural
<1> HIDE DEF F
<1>5. SumFunctionOnSet(F, Orders) \in Nat /\ F[o] <= SumFunctionOnSet(F, Orders)
  BY <1>1, <1>2, SumNatural
<1>6. Surplus(a, asset) >= 0
  BY DEF Funded
<1>7. Surplus(a, asset) \in Int
  BY SurplusIsInteger
<1> QED  BY <1>2, <1>3, <1>4, <1>5, <1>6, <1>7

-----------------------------------------------------------------------------
(* What is pending *)

LEMMA QuantityNatural ==
  ASSUME NEW fills \in Seq(Trade), NEW S \in SUBSET DOMAIN fills, NEW T \in SUBSET DOMAIN fills, NEW o
  PROVE  Quantity(fills, S, T, o) \in Nat
BY VolumeNatural DEF Quantity

LEMMA PendingTyped ==
  ASSUME NEW j \in Job
  PROVE  /\ j.fills \in Seq(Trade)
         /\ \A who : Unsettled(j, who) \subseteq DOMAIN j.fills
         /\ \A who : Unadjusted(j, who) \subseteq DOMAIN j.fills
         /\ Unpaid(j) \in [Orders -> Nat]
         /\ Unreduced(j) \in [Orders -> Nat]
<1>1. j.fills \in Seq(Trade)
  BY DEF Job
<1>2. \A now : Later(j, now) \subseteq DOMAIN j.fills
  BY DEF Later
<1>3. \A who : Unsettled(j, who) \subseteq DOMAIN j.fills /\ Unadjusted(j, who) \subseteq DOMAIN j.fills
  BY <1>2 DEF Unsettled, Unadjusted
<1>4. \A o \in Orders : Unpaid(j)[o] \in Nat /\ Unreduced(j)[o] \in Nat
  BY <1>1, <1>3, QuantityNatural DEF Unpaid, Unreduced
<1> QED  BY <1>1, <1>3, <1>4 DEF Unpaid, Unreduced

LEMMA NothingPending ==
  ASSUME NEW j \in Job, j.pc \notin Applying \/ j.fills = << >>
  PROVE  Unpaid(j) = Nothing /\ Unreduced(j) = Nothing
<1>1. \A now : Later(j, now) = {}
  BY DEF Later
<1>2. \A who : Unsettled(j, who) = {} /\ Unadjusted(j, who) = {}
  BY <1>1 DEF Unsettled, Unadjusted
<1>3. \A who, o : Volume(j.fills, who, o, {}) = 0
  BY SumEmpty DEF Volume
<1>4. \A o : Quantity(j.fills, {}, {}, o) = 0
  BY <1>3 DEF Quantity
<1> QED  BY <1>2, <1>4 DEF Unpaid, Unreduced, Nothing

(* Nothing becomes pending, and nothing is applied, between two records    *)
(* with the same fills and the same position.                              *)
LEMMA SamePending ==
  ASSUME NEW j, NEW k, k.fills = j.fills, j.pc \in Applying, k.pc \in Applying,
         \A i \in DOMAIN j.fills, who \in {"maker", "taker"} :
           /\ i \in Unsettled(k, who) <=> i \in Unsettled(j, who)
           /\ i \in Unadjusted(k, who) <=> i \in Unadjusted(j, who)
  PROVE  Unpaid(k) = Unpaid(j) /\ Unreduced(k) = Unreduced(j)
<1>1. \A who \in {"maker", "taker"} : /\ Unsettled(k, who) \subseteq DOMAIN j.fills
                                      /\ Unsettled(j, who) \subseteq DOMAIN j.fills
                                      /\ Unadjusted(k, who) \subseteq DOMAIN j.fills
                                      /\ Unadjusted(j, who) \subseteq DOMAIN j.fills
  BY DEF Unsettled, Unadjusted, Later
<1>2. \A who \in {"maker", "taker"} : /\ Unsettled(k, who) = Unsettled(j, who)
                                      /\ Unadjusted(k, who) = Unadjusted(j, who)
  BY <1>1
<1> QED  BY <1>2 DEF Unpaid, Unreduced

-----------------------------------------------------------------------------
(* One step of the goroutine in turn *)

LEMMA BusyIsSolo ==
  ASSUME FundsInvariant, NEW r \in Requests, Busy(r)
  PROVE  Solo(r) /\ Keeps(r) /\ Money(r)
BY DEF FundsInvariant, InTurn, Solo

LEMMA QuietIsSolo ==
  ASSUME Quiet, NEW r \in Requests PROVE Solo(r)
BY DEF Quiet, Solo

LEMMA TurnStep ==
  ASSUME FundsInvariant, TypeInvariant', NEW r \in Requests, Solo(r),
         \A q \in Requests \ {r} : job'[q] = job[q],
         Labelled',
         Busy(r)' => Keeps(r)' /\ Money(r)',
         ~Busy(r)' => AllSettled'
  PROVE  FundsInvariant'
<1>1. \A q \in Requests \ {r} : ~Busy(q)'
  BY DEF Solo, Busy
<1>2. InTurn'
  BY <1>1 DEF InTurn
<1>3. \A q \in Requests : Busy(q)' => Keeps(q)' /\ Money(q)'
  BY <1>1
<1>4. Quiet' => AllSettled'
  BY DEF Quiet
<1> QED  BY <1>2, <1>3, <1>4 DEF FundsInvariant

(* The books and the names stay as they are. *)
Renamed == \A a \in Accounts : wallet'[a].id = wallet[a].id

Symbolic == \A o \in Orders : orders[o] # None => orders'[o].symbol = orders[o].symbol

LEMMA LabelledStays ==
  ASSUME TypeInvariant, Labelled, Renamed, Symbolic, queue' = queue
  PROVE  Labelled'
<1>1. \A s \in Symbols, side \in Sides : \A o \in Range(queue[s][side]) : o \in Orders /\ orders[o] # None
  <2> TAKE s \in Symbols, side \in Sides
  <2>1. queue[s][side] \in Seq(Orders)
    BY DEF TypeInvariant, Typed
  <2> QED  BY <2>1, RangeProperties DEF TypeInvariant, Resting
<1> QED  BY <1>1 DEF Labelled, Renamed, Symbolic

(* No order and no lock changes. *)
MoneyStands ==
  /\ \A o \in Orders :
       /\ orders'[o] = None <=> orders[o] = None
       /\ orders[o] # None =>
            /\ orders'[o].account = orders[o].account /\ orders'[o].symbol = orders[o].symbol
            /\ orders'[o].side = orders[o].side /\ orders'[o].price = orders[o].price
            /\ orders'[o].quantity = orders[o].quantity
            /\ orders'[o].remaining = orders[o].remaining
            /\ orders'[o].reserved = orders[o].reserved
            /\ orders'[o].sequence = orders[o].sequence
  /\ \A a \in Accounts, asset \in Assets :
       wallet'[a].balances[asset].locked = wallet[a].balances[asset].locked

LEMMA MoneyStays ==
  ASSUME MoneyStands, NEW p PROVE (Locked(p) => Locked(p)') /\ (Backed(p) => Backed(p)')
<1>1. ASSUME NEW o \in Orders, orders[o] # None
      PROVE  /\ \A n : Needs(orders'[o], n) = Needs(orders[o], n)
             /\ Unsent(o)' <=> Unsent(o)
  BY <1>1 DEF MoneyStands, Needs, Unsent
<1>2. ASSUME NEW o \in Orders, NEW a \in Accounts, NEW asset \in Assets
      PROVE  Claim(p, o, a, asset)' = Claim(p, o, a, asset)
  <2>1. CASE orders[o] = None
    BY <2>1 DEF MoneyStands, Claim, LocksOf
  <2>2. CASE orders[o] # None
    <3>1. LocksOf(o, a, asset)' <=> LocksOf(o, a, asset)
      BY <2>2 DEF MoneyStands, LocksOf, LockedAsset
    <3>2. Due(p, o)' = Due(p, o)
      BY <1>1, <2>2 DEF MoneyStands, Due
    <3> QED  BY <3>1, <3>2 DEF Claim
  <2> QED  BY <2>1, <2>2
<1>3. Locked(p) => Locked(p)'
  <2> SUFFICES ASSUME Locked(p) PROVE Locked(p)'
    OBVIOUS
  <2>1. \A a \in Accounts, asset \in Assets :
          wallet'[a].balances[asset].locked = wallet[a].balances[asset].locked
    BY DEF MoneyStands
  <2> QED  BY <1>2, <2>1, LockedEven
<1>4. Backed(p) => Backed(p)'
  BY <1>1 DEF MoneyStands, Backed
<1> QED  BY <1>3, <1>4

-----------------------------------------------------------------------------
(* Steps outside settlement *)

LEMMA MoneyIsSymbolic == MoneyStands => Symbolic
BY DEF MoneyStands, Symbolic

LEMMA AsideStep ==
  ASSUME FundsInvariant, TypeInvariant', NEW r \in Requests, Busy(r),
         \A q \in Requests \ {r} : job'[q] = job[q],
         MoneyStands, Renamed, queue' = queue,
         job[r].pc \notin Applying, job'[r].pc \notin Applying,
         Busy(r)' => BeforeSubmit(r)' /\ Copied(r)'
  PROVE  FundsInvariant'
<1>1. TypeInvariant /\ Labelled /\ Solo(r) /\ Money(r) /\ job[r] \in Job /\ job'[r] \in Job
  BY BusyIsSolo DEF FundsInvariant, TypeInvariant, Typed
<1>2. /\ Unpaid(job[r]) = Nothing /\ Unreduced(job[r]) = Nothing
      /\ Unpaid(job'[r]) = Nothing /\ Unreduced(job'[r]) = Nothing
  BY <1>1, NothingPending
<1>3. Locked(Nothing) /\ Backed(Nothing)
  BY <1>1, <1>2 DEF Money
<1>4. Locked(Nothing)' /\ Backed(Nothing)'
  BY <1>3, MoneyStays
<1>5. Money(r)' /\ AllSettled'
  BY <1>2, <1>4 DEF Money, AllSettled
<1>6. Matched(r)'
  BY DEF Matched
<1>7. Labelled'
  BY <1>1, MoneyIsSymbolic, LabelledStays
<1> QED  BY <1>1, <1>5, <1>6, <1>7, TurnStep DEF Keeps

(* The goroutine goes on without a copy of an account, or returns. *)
Leaves(r) ==
  /\ job'[r].pc \notin Applying
  /\ Busy(r)' => /\ job'[r].input = job[r].input
                 /\ ~At(r, "reserve") /\ job'[r].pc # "reserve"

LEMMA CalmStep ==
  ASSUME FundsInvariant, TypeInvariant', NEW r \in Requests, Busy(r), Departs(r), Leaves(r),
         UNCHANGED <<wallet, orders, queue>>, job[r].pc \notin Applying
  PROVE  FundsInvariant'
<1>1. Keeps(r)
  BY BusyIsSolo
<1>2. MoneyStands /\ Renamed
  BY DEF MoneyStands, Renamed
<1>3. ASSUME Busy(r)' PROVE BeforeSubmit(r)' /\ Copied(r)'
  <2>1. BeforeSubmit(r)'
    BY <1>1, <1>3 DEF Keeps, BeforeSubmit, Leaves, Departs, At
  <2>2. Dirty(r) = {}
    BY DEF Dirty, At, Applying
  <2>3. Copied(r)'
    BY <1>1, <2>2 DEF Keeps, Copied, Departs
  <2> QED  BY <2>1, <2>3
<1>4. \A q \in Requests \ {r} : job'[q] = job[q]
  BY DEF Departs
<1>5. job'[r].pc \notin Applying
  BY DEF Leaves
<1> QED  BY <1>2, <1>3, <1>4, <1>5, AsideStep

LEMMA GotoLeaves ==
  ASSUME TypeInvariant, NEW r \in Requests, NEW label, Goto(r, label),
         label \notin Applying, label # "reserve", ~At(r, "reserve")
  PROVE  Leaves(r)
<1>1. job \in [Requests -> Job] /\ job[r] \in Job
  BY DEF TypeInvariant, Typed
<1>2. job'[r].pc = label /\ job'[r].input = job[r].input
  BY <1>1 DEF Goto, Job
<1> QED  BY <1>2 DEF Leaves

LEMMA ReturnLeaves ==
  ASSUME TypeInvariant, NEW r \in Requests, NEW answer \in {"ok", "failed"}, Return(r, answer)
  PROVE  Leaves(r)
<1>1. job \in [Requests -> Job]
  BY DEF TypeInvariant, Typed
<1>2. job'[r].pc = answer
  BY <1>1 DEF Return, Idle
<1> QED  BY <1>2 DEF Leaves, Busy, Applying

LEMMA AfterEventLeaves ==
  ASSUME TypeInvariant, NEW r \in Requests, AfterEvent(r), ~At(r, "reserve") PROVE Leaves(r)
<1>1. job \in [Requests -> Job] /\ job[r] \in Job
  BY DEF TypeInvariant, Typed
<1>2. CASE job[r].at < Len(job[r].fills)
  <2>1. job' = [job EXCEPT ![r].pc = "audit", ![r].at = job[r].at + 1]
    BY <1>2 DEF AfterEvent
  <2> QED  BY <1>1, <2>1 DEF Leaves, Job, Applying
<1>3. CASE ~(job[r].at < Len(job[r].fills))
  BY <1>3, GotoLeaves, ReturnLeaves DEF AfterEvent, Applying
<1> QED  BY <1>2, <1>3

(* What follows the settlement, and a call that fails. *)
Reports(r) ==
  \/ NextOrder(r) \/ PersistOrder(r) \/ MarshalOrder(r) \/ PublishOrder(r)
  \/ PersistTrades(r) \/ Record(r)
  \/ RecordAudit(r) \/ PersistAudit(r) \/ PublishAudit(r) \/ PublishTrade(r)
  \/ TakeSnapshot(r) \/ CacheOrderBook(r) \/ CopyTrades(r) \/ CacheTrades(r)
  \/ CallFails(r)

LEMMA ReportsPass ==
  ASSUME TypeInvariant, NEW r \in Requests, Reports(r)
  PROVE  Leaves(r) /\ Busy(r) /\ job[r].pc \notin Applying /\ UNCHANGED <<wallet, orders, queue>>
<1>1. job \in [Requests -> Job] /\ job[r] \in Job
  BY DEF TypeInvariant, Typed
<1> USE DEF At, Applying
<1>2. CASE NextOrder(r)
  <2>1. Leaves(r)
    <3>1. CASE job[r].pending = {}
      BY <1>2, <3>1, GotoLeaves DEF NextOrder
    <3>2. CASE job[r].pending # {}
      <4>1. PICK o \in job[r].pending :
              job' = [job EXCEPT ![r].pc = "saveOrder", ![r].pending = @ \ {o},
                                 ![r].row = [id |-> o, order |-> orders[o]]]
        BY <1>2, <3>2 DEF NextOrder
      <4>2. job'[r].pc = "saveOrder" /\ job'[r].input = job[r].input
        BY <1>1, <4>1 DEF Job
      <4> QED  BY <1>2, <4>2 DEF Leaves, NextOrder
    <3> QED  BY <3>1, <3>2
  <2> QED  BY <1>2, <2>1 DEF NextOrder, Busy, memory, book
<1>3. CASE PersistOrder(r)
  BY <1>3, GotoLeaves, ReturnLeaves DEF PersistOrder, Answered, Fail, Busy, memory, book
<1>4. CASE MarshalOrder(r)
  <2>1. job'[r].pc = "publishOrder" /\ job'[r].input = job[r].input
    BY <1>1, <1>4 DEF MarshalOrder, Job
  <2> QED  BY <1>4, <2>1 DEF MarshalOrder, Leaves, Busy, memory, book
<1>5. CASE PublishOrder(r)
  <2>1. Leaves(r)
    <3>1. CASE Fail(r)
      BY <3>1, ReturnLeaves DEF Fail
    <3>2. CASE ~Fail(r)
      <4>1. job'[r].pc = "orders" /\ job'[r].input = job[r].input
        BY <1>1, <1>5, <3>2 DEF PublishOrder, Job
      <4> QED  BY <1>5, <4>1 DEF PublishOrder, Leaves
    <3> QED  BY <3>1, <3>2
  <2> QED  BY <1>5, <2>1 DEF PublishOrder, Busy, memory, book
<1>6. CASE PersistTrades(r)
  BY <1>6, GotoLeaves, ReturnLeaves DEF PersistTrades, Answered, Fail, Busy, memory, book
<1>7. CASE Record(r)
  <2>1. job'[r].pc = "audit" /\ job'[r].input = job[r].input
    BY <1>1, <1>7 DEF Record, Job
  <2> QED  BY <1>7, <2>1 DEF Record, Leaves, Busy, memory, book
<1>8. CASE RecordAudit(r)
  BY <1>8, GotoLeaves DEF RecordAudit, Busy, memory, book
<1>9. CASE PersistAudit(r)
  BY <1>9, GotoLeaves, ReturnLeaves DEF PersistAudit, Answered, Fail, Busy, memory, book
<1>10. CASE PublishAudit(r)
  BY <1>10, GotoLeaves, ReturnLeaves, AfterEventLeaves DEF PublishAudit, Fail, Busy, memory, book
<1>11. CASE PublishTrade(r)
  BY <1>11, ReturnLeaves, AfterEventLeaves DEF PublishTrade, Fail, Busy, memory, book
<1>12. CASE TakeSnapshot(r)
  <2>1. job'[r].pc = "cacheBook" /\ job'[r].input = job[r].input
    BY <1>1, <1>12 DEF TakeSnapshot, Job
  <2> QED  BY <1>12, <2>1 DEF TakeSnapshot, Leaves, Busy, memory, book
<1>13. CASE CacheOrderBook(r)
  BY <1>13, GotoLeaves, ReturnLeaves DEF CacheOrderBook, Answered, Fail, Busy, memory, book
<1>14. CASE CopyTrades(r)
  <2>1. job'[r].pc = "cacheTrades" /\ job'[r].input = job[r].input
    BY <1>1, <1>14 DEF CopyTrades, Job
  <2> QED  BY <1>14, <2>1 DEF CopyTrades, Leaves, Busy, memory, book
<1>15. CASE CacheTrades(r)
  BY <1>15, ReturnLeaves DEF CacheTrades, Fail, Busy, memory, book
<1>16. CASE CallFails(r)
  <2>1. Leaves(r)
    BY <1>16, ReturnLeaves DEF CallFails, Fail
  <2> QED  BY <1>16, <2>1 DEF CallFails, Busy, memory, book
<1> QED
  BY <1>2, <1>3, <1>4, <1>5, <1>6, <1>7, <1>8, <1>9, <1>10, <1>11, <1>12, <1>13, <1>14, <1>15,
     <1>16 DEF Reports

LEMMA ReportsKeepFunds ==
  ASSUME FundsInvariant, TypeInvariant', NEW r \in Requests, Reports(r) PROVE FundsInvariant'
<1>1. TypeInvariant
  BY DEF FundsInvariant
<1>2. Departs(r)
  BY <1>1, PlainSteps DEF Reports, Elsewhere, Plain
<1> QED  BY <1>1, <1>2, ReportsPass, CalmStep

-----------------------------------------------------------------------------
(* A request comes in *)

(* Nothing is locked for a request that has just come in. *)
LEMMA EnterStep ==
  ASSUME FundsInvariant, TypeInvariant', NEW r \in Requests, Quiet,
         \A q \in Requests \ {r} : job'[q] = job[q],
         MoneyStands, Renamed, queue' = queue, job'[r].pc \notin Applying,
         Busy(r)' => BeforeSubmit(r)' /\ Copied(r)'
  PROVE  FundsInvariant'
<1>1. TypeInvariant /\ Labelled /\ Solo(r) /\ job'[r] \in Job
  BY QuietIsSolo DEF FundsInvariant, TypeInvariant, Typed
<1>2. Unpaid(job'[r]) = Nothing /\ Unreduced(job'[r]) = Nothing
  BY <1>1, NothingPending
<1>3. Locked(Nothing) /\ Backed(Nothing)
  BY DEF FundsInvariant, AllSettled
<1>4. Locked(Nothing)' /\ Backed(Nothing)'
  BY <1>3, MoneyStays
<1>5. Money(r)' /\ AllSettled'
  BY <1>2, <1>4 DEF Money, AllSettled
<1>6. Matched(r)'
  BY DEF Matched
<1>7. Labelled'
  BY <1>1, MoneyIsSymbolic, LabelledStays
<1> QED  BY <1>1, <1>5, <1>6, <1>7, TurnStep DEF Keeps

LEMMA DepositKeepsFunds ==
  ASSUME FundsInvariant, TypeInvariant', NEW r \in Requests, At(r, "idle"), Quiet,
         NEW in \in Inputs, Deposit(r, in)
  PROVE  FundsInvariant'
<1>1. /\ job \in [Requests -> Job] /\ job[r] = Idle /\ Labelled
      /\ wallet' = wallet /\ orders' = orders /\ queue' = queue
      /\ in.kind = "deposit" /\ in.account \in Accounts /\ in.asset \in Assets
  BY ExchangeAssumption DEF FundsInvariant, TypeInvariant, Typed, Local, Phased, Deposit,
     memory, book, WellFormed
<1>2. MoneyStands /\ Renamed
  BY <1>1 DEF MoneyStands, Renamed
<1>3. CASE in.amount <= 0
  <2>1. job' = [job EXCEPT ![r].pc = "failed", ![r].input = in]
    BY <1>3 DEF Deposit
  <2>2. job'[r].pc = "failed" /\ \A q \in Requests \ {r} : job'[q] = job[q]
    BY <1>1, <2>1 DEF Job
  <2>3. ~Busy(r)' /\ job'[r].pc \notin Applying
    BY <2>2 DEF Busy, Applying
  <2> QED  BY <1>1, <1>2, <2>2, <2>3, EnterStep
<1>4. CASE ~(in.amount <= 0)
  <2> DEFINE a == in.account
             c == Crediting(wallet[a], in.asset, in.amount)
  <2>1. job' = [job EXCEPT ![r].pc = "persist", ![r].input = in, ![r].clone = c]
    BY <1>4 DEF Deposit
  <2> HIDE DEF c
  <2>2. /\ job'[r].pc = "persist" /\ job'[r].input = in /\ job'[r].clone = c
        /\ job'[r].accounts = job[r].accounts
        /\ \A q \in Requests \ {r} : job'[q] = job[q]
    BY <1>1, <2>1 DEF Job
  <2>3. c.id = a
    <3>1. wallet[a] \in Solvent /\ wallet[a].id = a
      BY <1>1 DEF FundsInvariant, TypeInvariant, Typed, Labelled
    <3> QED  BY <3>1, CreditingKeepsVersion DEF c
  <2>4. \A x \in Accounts : job'[r].accounts[x] = None
    BY <1>1, <2>2 DEF Idle
  <2>5. Copied(r)'
    BY <1>1, <2>2, <2>3, <2>4 DEF Copied, Syncing, c
  <2>6. BeforeSubmit(r)' /\ job'[r].pc \notin Applying
    BY <1>1, <2>2 DEF BeforeSubmit, Applying
  <2> QED  BY <1>1, <1>2, <2>2, <2>5, <2>6, EnterStep
<1> QED  BY <1>3, <1>4

LEMMA PlaceOrderKeepsFunds ==
  ASSUME FundsInvariant, TypeInvariant', NEW r \in Requests, At(r, "idle"), Quiet,
         NEW in \in Inputs, PlaceOrder(r, in)
  PROVE  FundsInvariant'
<1>1. /\ job \in [Requests -> Job] /\ job[r] = Idle /\ orders[r] = None /\ r \in Orders
      /\ orders \in [Orders -> Order \cup {None}]
      /\ wallet' = wallet /\ queue' = queue /\ in.kind = "order"
  BY DEF FundsInvariant, TypeInvariant, Typed, Local, Phased, PlaceOrder, book, Orders
<1>2. CASE ~ValidateOrder(in)
  <2>1. job' = [job EXCEPT ![r].pc = "failed", ![r].input = in] /\ orders' = orders
    BY <1>2 DEF PlaceOrder
  <2>2. job'[r].pc = "failed" /\ \A q \in Requests \ {r} : job'[q] = job[q]
    BY <1>1, <2>1 DEF Job
  <2>3. ~Busy(r)' /\ job'[r].pc \notin Applying
    BY <2>2 DEF Busy, Applying
  <2>4. MoneyStands /\ Renamed
    BY <1>1, <2>1 DEF MoneyStands, Renamed
  <2> QED  BY <1>1, <2>2, <2>3, <2>4, EnterStep
<1>3. CASE ValidateOrder(in)
  <2>1. /\ job' = [job EXCEPT ![r].pc = "reserve", ![r].input = in]
        /\ orders' = [orders EXCEPT ![r] = NewOrder(in)]
    BY <1>3 DEF PlaceOrder
  <2>2. /\ job'[r].pc = "reserve" /\ job'[r].input = in
        /\ job'[r].accounts = job[r].accounts
        /\ \A q \in Requests \ {r} : job'[q] = job[q]
    BY <1>1, <2>1 DEF Job
  <2>3. /\ \A o \in Orders \ {r} : orders'[o] = orders[o]
        /\ orders'[r].sequence = 0 /\ orders'[r].reserved = 0
    BY <1>1, <2>1 DEF NewOrder
  <2>4. Copied(r)'
    BY <1>1, <2>2 DEF Copied, Syncing, Idle
  <2>5. BeforeSubmit(r)' /\ job'[r].pc \notin Applying
    BY <1>1, <2>2, <2>3 DEF BeforeSubmit, Applying, Idle, At
  <2>6. Locked(Nothing) /\ Backed(Nothing) /\ TypeInvariant /\ Labelled
    BY DEF FundsInvariant, AllSettled
  <2>7. Locked(Nothing)'
    <3>1. ASSUME NEW o \in Orders, NEW a \in Accounts, NEW asset \in Assets
          PROVE  Claim(Nothing, o, a, asset)' = Claim(Nothing, o, a, asset)
      <4>1. CASE o = r
        <5>1. Claim(Nothing, r, a, asset) = 0
          BY <1>1 DEF Claim, LocksOf
        <5>2. Claim(Nothing, r, a, asset)' = 0
          BY <2>3 DEF Claim, Due, Unsent
        <5> QED  BY <4>1, <5>1, <5>2
      <4>2. CASE o # r
        BY <2>3, <4>2 DEF Claim, LocksOf, Due, Unsent
      <4> QED  BY <4>1, <4>2
    <3> QED  BY <1>1, <2>6, <3>1, LockedEven
  <2>8. Backed(Nothing)'
    <3>1. Unsent(r)'
      BY <2>3 DEF Unsent
    <3> QED  BY <2>3, <2>6, <3>1 DEF Backed, Unsent
  <2>9. Unpaid(job'[r]) = Nothing /\ Unreduced(job'[r]) = Nothing
    <3>1. job'[r] \in Job
      BY DEF TypeInvariant, Typed
    <3> QED  BY <2>5, <3>1, NothingPending
  <2>10. Money(r)' /\ AllSettled'
    BY <2>7, <2>8, <2>9 DEF Money, AllSettled
  <2>11. Labelled'
    <3>1. Renamed /\ Symbolic
      BY <1>1, <2>3 DEF Renamed, Symbolic
    <3> QED  BY <1>1, <2>6, <3>1, LabelledStays
  <2>12. Matched(r)' /\ Solo(r)
    BY <2>5, QuietIsSolo DEF Matched
  <2> QED  BY <2>2, <2>4, <2>5, <2>10, <2>11, <2>12, TurnStep DEF Keeps
<1> QED  BY <1>2, <1>3

LEMMA AcceptKeepsFunds ==
  ASSUME Serial, FundsInvariant, TypeInvariant', NEW r \in Requests, Accept(r)
  PROVE  FundsInvariant'
<1>1. Quiet /\ At(r, "idle")
  BY AcceptedAlone DEF Accept
<1>2. PICK in \in Inputs : Deposit(r, in) \/ PlaceOrder(r, in)
  BY DEF Accept
<1> QED  BY <1>1, <1>2, DepositKeepsFunds, PlaceOrderKeepsFunds

-----------------------------------------------------------------------------
(* Before Submit, and syncAccount *)

LEMMA LockingMovesLock ==
  ASSUME Serial, NEW account \in Solvent, NEW asset \in Assets, NEW amount \in Int,
         amount <= account.balances[asset].available,
         0 <= account.balances[asset].locked + amount
  PROVE  \A x \in Assets : Locking(account, asset, amount).balances[x].locked =
           IF x = asset THEN account.balances[asset].locked + amount ELSE account.balances[x].locked
<1> DEFINE left == account.balances[asset].available - amount
           mid == [account EXCEPT !.balances[asset].available = left]
           kept == mid.balances[asset].locked + amount
<1>1. left \in Amounts
  <2>1. left \in Nat  BY BalanceIsNatural
  <2> QED  BY <2>1, AmountsClosed
<1>2. mid \in Solvent /\ \A x \in Assets : mid.balances[x].locked = account.balances[x].locked
  <2> HIDE DEF left
  <2> QED  BY <1>1, AvailableSet
<1>3. kept \in Amounts /\ kept = account.balances[asset].locked + amount
  <2>1. kept = account.balances[asset].locked + amount
    BY <1>2
  <2>2. kept \in Nat
    BY <2>1, BalanceIsNatural
  <2> HIDE DEF kept
  <2> QED  BY <2>1, <2>2, AmountsClosed
<1>4. Locking(account, asset, amount) = [mid EXCEPT !.balances[asset].locked = kept]
  BY DEF Locking
<1> HIDE DEF mid, kept
<1>5. \A x \in Assets : [mid EXCEPT !.balances[asset].locked = kept].balances[x].locked =
        IF x = asset THEN kept ELSE mid.balances[x].locked
  BY ZenonT(40), <1>2, <1>3, LockedSet
<1> QED  BY <1>2, <1>3, <1>4, <1>5

LEMMA ReserveKeepsFunds ==
  ASSUME Serial, FundsInvariant, TypeInvariant', NEW r \in Requests, Reserve(r)
  PROVE  FundsInvariant'
<1> DEFINE o == orders[r]
           a == o.account
           asset == LockedAsset(MyPair(r), o)
           cost == Needs(o, o.quantity)
<1>1. /\ At(r, "reserve") /\ Busy(r) /\ TypeInvariant /\ Labelled /\ job[r].pc \notin Applying
      /\ UNCHANGED <<market, auditLog, book, services>>
  BY DEF Reserve, At, Busy, FundsInvariant, Applying
<1>2. /\ job[r] \in Job /\ r \in Orders /\ o \in Order /\ o # None
      /\ job[r].input.kind # "deposit" /\ o.sequence = 0
  BY <1>1, KnownOf DEF At, Unsubmitted, Local, Phased
<1>3. Keeps(r) /\ Solo(r) /\ Money(r)
  BY <1>1, BusyIsSolo
<1>4. CASE ~CanReserve(wallet[a], MyPair(r), o)
  <2>1. Fail(r) /\ UNCHANGED <<wallet, orders, queue>>
    BY <1>1, <1>4 DEF Reserve, book
  <2>2. Departs(r) /\ Leaves(r)
    BY <1>1, <2>1, ReturnDeparts, ReturnLeaves DEF Fail
  <2> QED  BY <1>1, <2>1, <2>2, CalmStep
<1>5. CASE CanReserve(wallet[a], MyPair(r), o)
  <2>1. /\ wallet' = [wallet EXCEPT ![a] = Locking(wallet[a], asset, cost)]
        /\ orders' = [orders EXCEPT ![r] = [o EXCEPT !.reserved = cost]]
        /\ Goto(r, "clone")
    BY <1>5 DEF Reserve, Reserved
  <2>2. /\ a \in Accounts /\ wallet \in [Accounts -> Solvent] /\ wallet[a] \in Solvent
        /\ o.symbol \in Symbols /\ asset \in Assets /\ cost \in Nat
        /\ orders \in [Orders -> Order \cup {None}]
    BY <1>1, <1>2, LockedAssetIsAsset, NeedsIsNatural DEF Order, TypeInvariant, Typed, MyPair
  <2>3. cost <= wallet[a].balances[asset].available
    BY <1>5, <2>2, BalanceIsNatural DEF CanReserve
  <2>4. \A x \in Assets : wallet'[a].balances[x].locked =
          IF x = asset THEN wallet[a].balances[asset].locked + cost ELSE wallet[a].balances[x].locked
    <3>1. wallet'[a] = Locking(wallet[a], asset, cost)
      BY <2>1, <2>2
    <3>2. 0 <= wallet[a].balances[asset].locked + cost
      BY <2>2, BalanceIsNatural
    <3> HIDE DEF o, a, asset, cost
    <3> QED  BY <2>2, <2>3, <3>1, <3>2, LockingMovesLock
  <2>5. /\ \A x \in Orders \ {r} : orders'[x] = orders[x]
        /\ orders'[r] = [o EXCEPT !.reserved = cost]
    BY <1>2, <2>1, <2>2
  <2>6. /\ orders'[r].reserved = cost /\ orders'[r].account = a /\ orders'[r].symbol = o.symbol
        /\ orders'[r].side = o.side /\ orders'[r].price = o.price
        /\ orders'[r].quantity = o.quantity /\ orders'[r].sequence = 0
        /\ orders'[r] # None
    <3>1. orders'[r] \in Order
      BY <1>2, <2>2, <2>5 DEF Order
    <3> QED  BY ZenonT(40), <1>2, <2>5, <3>1, ExchangeAssumption DEF Order
  <2>7. /\ \A b \in Accounts \ {a} : wallet'[b] = wallet[b]
        /\ wallet'[a].id = wallet[a].id
    <3>1. wallet'[a] = Locking(wallet[a], asset, cost)
      BY <2>1, <2>2
    <3> QED  BY <2>1, <2>2, <3>1, LockingKeepsVersion
  <2>8. /\ job'[r].pc = "clone" /\ job'[r].input = job[r].input
        /\ job'[r].accounts = job[r].accounts /\ job'[r] \in Job
        /\ \A q \in Requests \ {r} : job'[q] = job[q]
    BY <1>1, <1>2, <2>1 DEF Goto, TypeInvariant, Typed, Job
  <2>9. /\ Unpaid(job[r]) = Nothing /\ Unreduced(job[r]) = Nothing
        /\ Unpaid(job'[r]) = Nothing /\ Unreduced(job'[r]) = Nothing
    BY <1>1, <1>2, <2>8, NothingPending DEF Applying
  <2>10. Locked(Nothing) /\ Backed(Nothing)
    BY <1>3, <2>9 DEF Money
  <2>11. orders[r].reserved = 0 /\ \A b \in Accounts : job[r].accounts[b] = None
    BY <1>1, <1>2, <1>3 DEF Keeps, BeforeSubmit
  <2>12. Unsent(r) /\ Unsent(r)'
    BY <1>2, <2>6 DEF Unsent
  <2>13. \A x \in Orders \ {r}, b \in Accounts, y \in Assets :
           Claim(Nothing, x, b, y)' = Claim(Nothing, x, b, y)
    BY <2>5 DEF Claim, LocksOf, Due, Unsent
  <2>14. ASSUME NEW b \in Accounts, NEW y \in Assets
         PROVE  wallet'[b].balances[y].locked =
                  wallet[b].balances[y].locked - Claim(Nothing, r, b, y) + Claim(Nothing, r, b, y)'
    <3>1. Claim(Nothing, r, b, y) = 0
      BY <2>11, <2>12 DEF Claim, Due
    <3>2. Claim(Nothing, r, b, y)' = IF b = a /\ y = asset THEN cost ELSE 0
      BY <2>6, <2>12 DEF Claim, Due, LocksOf, LockedAsset, MyPair
    <3>3. wallet[b].balances[y].locked \in Nat
      <4>1. wallet[b] \in Solvent
        BY <2>2
      <4> QED  BY <4>1, BalanceIsNatural
    <3> QED  BY <2>2, <2>4, <2>7, <3>1, <3>2, <3>3
  <2>15. Nothing \in [Orders -> Nat]
    BY DEF Nothing
  <2>16. Locked(Nothing)'
    BY <1>1, <1>2, <2>10, <2>13, <2>14, <2>15, LockedMoves
  <2>17. Backed(Nothing)'
    BY <2>5, <2>10, <2>12 DEF Backed, Unsent
  <2>18. Money(r)' /\ AllSettled'
    BY <2>9, <2>16, <2>17 DEF Money, AllSettled
  <2>19. BeforeSubmit(r)'
    BY <2>6, <2>8, <2>11 DEF BeforeSubmit, At, Needs
  <2>20. Copied(r)' /\ Matched(r)'
    BY <2>8, <2>11 DEF Copied, Matched, Syncing, Applying
  <2>21. Labelled'
    <3>1. Renamed /\ Symbolic
      BY <2>5, <2>6, <2>7 DEF Renamed, Symbolic
    <3> QED  BY <1>1, <3>1, LabelledStays DEF book
  <2> QED  BY <1>3, <2>8, <2>18, <2>19, <2>20, <2>21, TurnStep DEF Keeps
<1> QED  BY <1>4, <1>5

LEMMA GetReservedKeepsFunds ==
  ASSUME FundsInvariant, TypeInvariant', NEW r \in Requests, GetReserved(r)
  PROVE  FundsInvariant'
<1> DEFINE c == wallet[orders[r].account]
<1>1. /\ At(r, "clone") /\ Busy(r) /\ TypeInvariant /\ Labelled
      /\ job[r].pc \notin Applying /\ job' = [job EXCEPT ![r].pc = "persist", ![r].clone = c]
      /\ wallet' = wallet /\ orders' = orders /\ queue' = queue
  BY DEF GetReserved, At, Busy, FundsInvariant, memory, book, Applying
<1>2. /\ job[r] \in Job /\ r \in Orders /\ orders[r] \in Order
      /\ job[r].input.kind # "deposit" /\ orders[r].sequence = 0
  BY <1>1, KnownOf DEF At, Unsubmitted, Local, Phased
<1>3. Keeps(r)
  BY <1>1, BusyIsSolo
<1>4. c.id = orders[r].account /\ orders[r].account \in Accounts
  BY <1>1, <1>2 DEF Labelled, Order
<1> HIDE DEF c
<1>5. /\ job'[r].pc = "persist" /\ job'[r].input = job[r].input /\ job'[r].clone = c
      /\ job'[r].accounts = job[r].accounts
      /\ \A q \in Requests \ {r} : job'[q] = job[q]
  BY <1>1, <1>2 DEF TypeInvariant, Typed, Job
<1>6. /\ orders[r].reserved = Needs(orders[r], orders[r].quantity)
      /\ \A a \in Accounts : job[r].accounts[a] = None
  BY <1>1, <1>2, <1>3 DEF Keeps, BeforeSubmit, At
<1>7. BeforeSubmit(r)'
  BY <1>1, <1>5, <1>6 DEF BeforeSubmit, At
<1>8. Copied(r)'
  BY <1>1, <1>2, <1>4, <1>5, <1>6 DEF Copied, c
<1>9. MoneyStands /\ Renamed /\ job'[r].pc \notin Applying
  BY <1>1, <1>5 DEF MoneyStands, Renamed, Applying
<1> QED  BY <1>1, <1>5, <1>7, <1>8, <1>9, AsideStep

LEMMA PersistAccountKeepsFunds ==
  ASSUME FundsInvariant, TypeInvariant', NEW r \in Requests, PersistAccount(r)
  PROVE  FundsInvariant'
<1> DEFINE c == job[r].clone
           next == [c EXCEPT !.version = @ + 1]
<1>1. /\ At(r, "persist") /\ Busy(r) /\ TypeInvariant
      /\ job[r].pc \notin Applying
      /\ wallet' = wallet /\ orders' = orders /\ queue' = queue
  BY DEF PersistAccount, At, Busy, FundsInvariant, memory, book, Applying
<1>2. job \in [Requests -> Job] /\ job[r] \in Job /\ c \in Solvent
  BY <1>1, KnownOf DEF At, Local, Loaded, Syncing, TypeInvariant, Typed
<1>3. Keeps(r)
  BY <1>1, BusyIsSolo
<1>4. CASE Fail(r)
  BY <1>1, <1>4, ReturnDeparts, ReturnLeaves, CalmStep DEF Fail
<1>5. CASE ~Fail(r)
  <2>1. \/ Goto(r, "replace")
        \/ job' = [job EXCEPT ![r].pc = "replace", ![r].clone = next]
    BY <1>5 DEF PersistAccount
  <2>2. next.id = c.id /\ next.balances = c.balances
    BY <1>2 DEF Solvent
  <2> HIDE DEF next, c
  <2>3. /\ job'[r].pc = "replace" /\ job'[r].input = job[r].input
        /\ job'[r].accounts = job[r].accounts
        /\ job'[r].clone.id = c.id /\ job'[r].clone.balances = c.balances
        /\ \A q \in Requests \ {r} : job'[q] = job[q]
    <3>1. CASE Goto(r, "replace")
      BY <1>2, <3>1 DEF Goto, Job, c
    <3>2. CASE job' = [job EXCEPT ![r].pc = "replace", ![r].clone = next]
      <4>1. /\ job'[r].pc = "replace" /\ job'[r].input = job[r].input
            /\ job'[r].accounts = job[r].accounts /\ job'[r].clone = next
            /\ \A q \in Requests \ {r} : job'[q] = job[q]
        BY <1>2, <3>2 DEF Job
      <4> QED  BY <2>2, <4>1
    <3> QED  BY <2>1, <3>1, <3>2
  <2>4. BeforeSubmit(r)'
    BY <1>1, <1>3, <2>3 DEF Keeps, BeforeSubmit, At
  <2>5. Dirty(r) = {}
    BY <1>1 DEF Dirty, At
  <2>6. Copied(r)'
    BY <1>1, <1>3, <2>3, <2>5 DEF Keeps, Copied, Syncing, At, c
  <2>7. MoneyStands /\ Renamed /\ job'[r].pc \notin Applying
    BY <1>1, <2>3 DEF MoneyStands, Renamed, Applying
  <2> QED  BY <1>1, <2>3, <2>4, <2>6, <2>7, AsideStep
<1> QED  BY <1>4, <1>5

LEMMA ReplaceAccountKeepsFunds ==
  ASSUME FundsInvariant, TypeInvariant', NEW r \in Requests, ReplaceAccount(r)
  PROVE  FundsInvariant'
<1> DEFINE c == job[r].clone
           in == job[r].input
<1>1. /\ At(r, "replace") /\ Busy(r) /\ TypeInvariant /\ Labelled
      /\ job[r].pc \notin Applying /\ Goto(r, "cacheAccount")
      /\ wallet' = [wallet EXCEPT ![c.id] = c] /\ orders' = orders /\ queue' = queue
  BY DEF ReplaceAccount, At, Busy, FundsInvariant, book, Applying
<1>2. /\ job \in [Requests -> Job] /\ job[r] \in Job /\ c \in Solvent /\ in \in Inputs
      /\ wallet \in [Accounts -> Solvent]
  BY <1>1, KnownOf DEF At, Local, Loaded, Syncing, TypeInvariant, Typed
<1>3. Keeps(r)
  BY <1>1, BusyIsSolo
<1>4. /\ c.id \in Accounts /\ job[r].accounts[c.id] = None
      /\ c.balances = IF in.kind = "deposit"
                        THEN Crediting(wallet[c.id], in.asset, in.amount).balances
                        ELSE wallet[c.id].balances
  BY <1>1, <1>3 DEF Keeps, Copied, At, Syncing
<1>5. /\ job'[r].pc = "cacheAccount" /\ job'[r].input = in /\ job'[r].clone = c
      /\ job'[r].accounts = job[r].accounts
      /\ \A q \in Requests \ {r} : job'[q] = job[q]
  BY <1>1, <1>2 DEF Goto, Job
<1>6. \A asset \in Assets : c.balances[asset].locked = wallet[c.id].balances[asset].locked
  <2>1. CASE in.kind = "deposit"
    <3>1. in.asset \in Assets
      BY <1>2, <2>1, ExchangeAssumption DEF WellFormed
    <3>2. wallet[c.id] \in Solvent
      BY <1>2, <1>4
    <3>3. c.balances = Crediting(wallet[c.id], in.asset, in.amount).balances
      BY <1>4, <2>1
    <3> HIDE DEF in, c
    <3> QED  BY <3>1, <3>2, <3>3 DEF Crediting, Solvent
  <2>2. CASE in.kind # "deposit"
    BY <1>4, <2>2
  <2> QED  BY <2>1, <2>2
<1> HIDE DEF c
<1>7. wallet'[c.id] = c /\ \A a \in Accounts \ {c.id} : wallet'[a] = wallet[a]
  BY <1>1, <1>2, <1>4
<1>8. MoneyStands
  <2>1. \A a \in Accounts, asset \in Assets :
          wallet'[a].balances[asset].locked = wallet[a].balances[asset].locked
    BY <1>6, <1>7
  <2> QED  BY <1>1, <2>1 DEF MoneyStands
<1>9. Renamed
  BY <1>1, <1>4, <1>7 DEF Renamed, Labelled
<1>10. BeforeSubmit(r)' /\ job'[r].pc \notin Applying
  BY <1>1, <1>3, <1>5 DEF Keeps, BeforeSubmit, At, Applying
<1>11. Dirty(r) = {}
  BY <1>1 DEF Dirty, At, Applying
<1>12. Copied(r)'
  BY <1>3, <1>4, <1>5, <1>7, <1>11 DEF Keeps, Copied, Syncing
<1> QED  BY <1>1, <1>5, <1>8, <1>9, <1>10, <1>12, AsideStep

LEMMA CacheAccountKeepsFunds ==
  ASSUME FundsInvariant, TypeInvariant', NEW r \in Requests, CacheAccount(r)
  PROVE  FundsInvariant'
<1>1. /\ At(r, "cacheAccount") /\ Busy(r) /\ TypeInvariant
      /\ job[r].pc \notin Applying /\ UNCHANGED <<wallet, orders, queue>>
  BY DEF CacheAccount, At, Busy, FundsInvariant, memory, book, Applying
<1>2. PICK label \in {"audit", "submit", "accounts"} : Goto(r, label)
  BY DEF CacheAccount
<1>3. label \notin Syncing /\ label \notin Applying /\ label # "reserve" /\ ~At(r, "reserve")
  BY <1>1 DEF Syncing, Applying, At
<1> QED  BY <1>1, <1>2, <1>3, GotoDeparts, GotoLeaves, CalmStep

LEMMA NextAccountKeepsFunds ==
  ASSUME FundsInvariant, TypeInvariant', NEW r \in Requests, NextAccount(r)
  PROVE  FundsInvariant'
<1> DEFINE left == {a \in Accounts : job[r].accounts[a] # None}
<1>1. /\ At(r, "accounts") /\ Busy(r) /\ TypeInvariant /\ Labelled
      /\ job[r].pc \notin Applying
      /\ wallet' = wallet /\ orders' = orders /\ queue' = queue
  BY DEF NextAccount, At, Busy, FundsInvariant, memory, book, Applying
<1>2. CASE left = {}
  <2>1. Goto(r, "orders")
    BY <1>2 DEF NextAccount
  <2>2. "orders" \notin Syncing /\ "orders" \notin Applying /\ ~At(r, "reserve")
    BY <1>1 DEF Syncing, Applying, At
  <2> QED  BY <1>1, <2>1, <2>2, GotoDeparts, GotoLeaves, CalmStep
<1>3. CASE left # {}
  <2>1. PICK a \in left :
          job' = [job EXCEPT ![r].pc = "persist", ![r].clone = job[r].accounts[a],
                             ![r].accounts[a] = None]
    BY <1>3 DEF NextAccount
  <2>2. /\ job \in [Requests -> Job] /\ job[r] \in Job /\ a \in Accounts
        /\ job[r].input.kind # "deposit" /\ orders[r].sequence > 0 /\ orders[r] \in Order
    BY <1>1, KnownOf DEF At, Submitted, Local, Phased, TypeInvariant, Typed
  <2>3. /\ job'[r].pc = "persist" /\ job'[r].input = job[r].input
        /\ job'[r].clone = job[r].accounts[a]
        /\ job'[r].accounts = [job[r].accounts EXCEPT ![a] = None]
        /\ \A q \in Requests \ {r} : job'[q] = job[q]
    BY <2>1, <2>2 DEF Job
  <2>4. job[r].accounts \in [Accounts -> Solvent \cup {None}]
    BY <2>2 DEF Job
  <2>5. /\ job'[r].accounts[a] = None
        /\ \A b \in Accounts \ {a} : job'[r].accounts[b] = job[r].accounts[b]
    BY <2>2, <2>3, <2>4
  <2>6. Keeps(r)
    BY <1>1, BusyIsSolo
  <2>7. Dirty(r) = {}
    BY <1>1 DEF Dirty, At, Applying
  <2>8. \A b \in Accounts : job[r].accounts[b] # None => job[r].accounts[b] = wallet[b]
    BY <2>6, <2>7 DEF Keeps, Copied
  <2>9. job[r].accounts[a] = wallet[a] /\ wallet[a].id = a
    BY <1>1, <2>2, <2>8 DEF Labelled
  <2>10. Copied(r)'
    BY <1>1, <2>2, <2>3, <2>5, <2>8, <2>9 DEF Copied, Syncing
  <2>11. BeforeSubmit(r)' /\ job'[r].pc \notin Applying
    <3>1. orders[r].sequence # 0
      BY <2>2 DEF Order
    <3> QED  BY <1>1, <2>3, <3>1 DEF BeforeSubmit, Applying
  <2>12. MoneyStands /\ Renamed
    BY <1>1 DEF MoneyStands, Renamed
  <2> QED  BY <1>1, <2>3, <2>10, <2>11, <2>12, AsideStep
<1> QED  BY <1>2, <1>3

-----------------------------------------------------------------------------
(* The settlement *)

LEMMA NeedsAdds ==
  ASSUME NEW order \in Order, NEW m \in Nat, NEW n \in Nat
  PROVE  /\ Needs(order, m + n) = Needs(order, m) + Needs(order, n)
         /\ Needs(order, 0) = 0
<1>1. order.price \in Nat
  BY DEF Order
<1>2. order.price * (m + n) = order.price * m + order.price * n /\ order.price * 0 = 0
  BY <1>1
<1> QED  BY <1>1, <1>2 DEF Needs

LEMMA NeedsParts ==
  ASSUME NEW order \in Order, NEW m \in Nat, NEW n \in Nat
  PROVE  /\ Needs(order, m) \in Nat /\ Needs(order, n) \in Nat
         /\ Needs(order, m + n) = Needs(order, m) + Needs(order, n)
         /\ Needs(order, order.remaining) \in Nat
<1>1. order.remaining \in Nat
  BY DEF Order
<1> QED  BY <1>1, NeedsIsNatural, NeedsAdds

(* All that the goroutine remembers of the orders it has met. *)
Sequenced == \A o \in Orders : orders[o] # None => orders'[o].sequence = orders[o].sequence

FillsAre(r) ==
  /\ \A i \in DOMAIN job[r].fills :
       LET maker == job[r].fills[i].maker IN
       /\ maker # r
       /\ ~Unsent(maker)
       /\ orders[maker].symbol = orders[r].symbol
  /\ \A i, k \in DOMAIN job[r].fills :
       i < k /\ job[r].fills[i].maker = job[r].fills[k].maker => job[r].fills[k].quantity = 0

LEMMA MakersExist ==
  ASSUME TypeInvariant, NEW r \in Requests
  PROVE  \A i \in DOMAIN job[r].fills :
           /\ job[r].fills[i] \in Trade
           /\ job[r].fills[i].maker \in Orders /\ orders[job[r].fills[i].maker] # None
           /\ job[r].fills[i].taker = r /\ job[r].fills[i].quantity \in Nat
           /\ orders[r] # None
<1>1. job[r].fills \in Seq(Trade) /\ Local(r)
  BY KnownOf DEF Job
<1>2. \A i \in DOMAIN job[r].fills : job[r].fills[i] \in Trade
  BY <1>1, LenProperties, ElementOfSeq
<1>3. \A i \in DOMAIN job[r].fills :
        job[r].fills[i].maker \in Orders /\ job[r].fills[i].quantity \in Nat
  BY <1>2 DEF Trade
<1> QED  BY <1>1, <1>2, <1>3 DEF Local, Priced

LEMMA FillsStay ==
  ASSUME TypeInvariant, NEW r \in Requests, FillsAre(r), Symbolic, Sequenced,
         job'[r].fills = job[r].fills
  PROVE  FillsAre(r)'
<1>1. r \in Orders
  BY DEF Orders
<1>2. ASSUME NEW i \in DOMAIN job[r].fills
      PROVE  LET maker == job[r].fills[i].maker IN
             maker # r /\ ~Unsent(maker)' /\ orders'[maker].symbol = orders'[r].symbol
  <2>1. /\ job[r].fills[i].maker \in Orders /\ orders[job[r].fills[i].maker] # None
        /\ orders[r] # None
    BY MakersExist
  <2> QED  BY <1>1, <2>1 DEF FillsAre, Symbolic, Sequenced, Unsent
<1> QED  BY <1>2 DEF FillsAre

(* A step of the settlement that accounts for the money. *)
LEMMA SettlingStep ==
  ASSUME FundsInvariant, TypeInvariant', NEW r \in Requests, job[r].pc \in Applying,
         \A q \in Requests \ {r} : job'[q] = job[q],
         job'[r].fills = job[r].fills,
         job'[r].pc \in (Applying \ {"match"}) \cup {"accounts"},
         Symbolic, Sequenced, Money(r)', Labelled',
         Steady(r)',
         (\A a \in Accounts : job[r].accounts[a] # None /\ a \notin Dirty(r) =>
            job[r].accounts[a] = wallet[a])'
  PROVE  FundsInvariant'
<1>1. Busy(r) /\ Busy(r)' /\ TypeInvariant
  BY DEF Busy, Applying, FundsInvariant
<1>2. Solo(r) /\ Keeps(r)
  BY <1>1, BusyIsSolo
<1>3. FillsAre(r)'
  <2>1. FillsAre(r)
    BY <1>2 DEF Keeps, Matched, FillsAre
  <2> QED  BY <1>1, <2>1, FillsStay
<1>4. Matched(r)'
  <2>1. job'[r].pc # "match"
    BY DEF Applying
  <2> QED  BY <1>3, <2>1 DEF Matched, FillsAre, At
<1>5. Copied(r)'
  BY DEF Copied, Syncing, Applying
<1>6. BeforeSubmit(r)'
  <2>1. Local(r)' /\ (orders'[r] # None => orders'[r] \in Order) /\ r \in Orders
    BY DEF TypeInvariant, Typed, Orders
  <2>2. job'[r].pc \in Submitted
    BY DEF Applying, Submitted, InFill
  <2>3. job'[r].input.kind # "deposit" => orders'[r].sequence > 0 /\ orders'[r] # None
    BY <1>1, <2>1, <2>2 DEF Local, Phased
  <2>4. job'[r].input.kind # "deposit" => orders'[r].sequence # 0
    BY <2>1, <2>3 DEF Order
  <2> QED  BY <2>4 DEF BeforeSubmit
<1> QED  BY <1>1, <1>2, <1>4, <1>5, <1>6, TurnStep DEF Keeps

(* One that neither moves money nor applies a fill. *)
LEMMA StandingStep ==
  ASSUME FundsInvariant, TypeInvariant', NEW r \in Requests, job[r].pc \in Applying,
         \A q \in Requests \ {r} : job'[q] = job[q],
         job'[r].fills = job[r].fills,
         job'[r].pc \in (Applying \ {"match"}) \cup {"accounts"},
         MoneyStands, Labelled',
         Unpaid(job'[r]) = Unpaid(job[r]), Unreduced(job'[r]) = Unreduced(job[r]),
         Steady(r)',
         (\A a \in Accounts : job[r].accounts[a] # None /\ a \notin Dirty(r) =>
            job[r].accounts[a] = wallet[a])'
  PROVE  FundsInvariant'
<1>1. Money(r)
  BY BusyIsSolo DEF Busy, Applying
<1>2. Symbolic /\ Sequenced
  BY MoneyIsSymbolic DEF MoneyStands, Sequenced
<1>3. Money(r)'
  BY <1>1, MoneyStays DEF Money
<1> QED  BY <1>2, <1>3, SettlingStep

LEMMA AllApplied ==
  ASSUME NEW j \in Job, j.at > Len(j.fills)
  PROVE  Unpaid(j) = Nothing /\ Unreduced(j) = Nothing
<1>1. DOMAIN j.fills = 1..Len(j.fills) /\ Len(j.fills) \in Nat /\ j.at \in Nat
  BY LenProperties DEF Job
<1>2. \A now : Later(j, now) = {}
  BY <1>1 DEF Later
<1>3. \A who : Unsettled(j, who) = {} /\ Unadjusted(j, who) = {}
  BY <1>2 DEF Unsettled, Unadjusted
<1>4. \A who, o : Volume(j.fills, who, o, {}) = 0
  BY SumEmpty DEF Volume
<1>5. \A o : Quantity(j.fills, {}, {}, o) = 0
  BY <1>4 DEF Quantity
<1> QED  BY <1>3, <1>5 DEF Unpaid, Unreduced, Nothing

LEMMA ApplyingKnown ==
  ASSUME FundsInvariant, NEW r \in Requests, job[r].pc \in Applying
  PROVE  /\ TypeInvariant /\ Labelled /\ Busy(r) /\ Keeps(r) /\ Money(r)
         /\ job \in [Requests -> Job] /\ job[r] \in Job /\ Local(r) /\ r \in Orders
         /\ orders[r] \in Order /\ orders[r] # None
         /\ DOMAIN job[r].fills = 1..Len(job[r].fills) /\ Len(job[r].fills) \in Nat
         /\ job[r].at \in Nat /\ job[r].role \in {"maker", "taker"}
         /\ job[r].fills \in Seq(Trade)
         /\ \A a \in Accounts : job[r].accounts[a] # None /\ a \notin Dirty(r) =>
              job[r].accounts[a] = wallet[a]
<1>1. TypeInvariant /\ Labelled /\ Busy(r)
  BY DEF FundsInvariant, Busy, Applying
<1>2. Keeps(r) /\ Money(r)
  BY <1>1, BusyIsSolo
<1>3. /\ job[r] \in Job /\ Local(r) /\ r \in Orders
      /\ orders[r] \in Order /\ orders[r] # None
  BY <1>1, KnownOf DEF Submitted, Applying, InFill
<1>4. /\ DOMAIN job[r].fills = 1..Len(job[r].fills) /\ Len(job[r].fills) \in Nat
      /\ job[r].at \in Nat /\ job[r].role \in {"maker", "taker"} /\ job[r].fills \in Seq(Trade)
  BY <1>3, LenProperties DEF Job
<1> QED  BY <1>1, <1>2, <1>3, <1>4 DEF Keeps, Copied, TypeInvariant, Typed

(* The wallet and the orders are not touched. *)
LEMMA IdleMoney ==
  ASSUME UNCHANGED <<wallet, orders>> PROVE MoneyStands /\ Renamed /\ Symbolic
BY DEF MoneyStands, Renamed, Symbolic

LEMMA LoadStatusKeepsFunds ==
  ASSUME FundsInvariant, TypeInvariant', NEW r \in Requests, LoadStatus(r) PROVE FundsInvariant'
<1> DEFINE v == Status(orders[Subject(r)])
<1>1. /\ At(r, "loadStatus") /\ job[r].pc \in Applying
      /\ job' = [job EXCEPT ![r].pc = "storeStatus", ![r].status = v]
      /\ UNCHANGED <<wallet, orders>> /\ queue' = queue
  BY DEF LoadStatus, At, Applying, memory, book
<1>2. /\ TypeInvariant /\ Labelled /\ job \in [Requests -> Job] /\ job[r] \in Job
      /\ \A a \in Accounts : job[r].accounts[a] # None /\ a \notin Dirty(r) =>
           job[r].accounts[a] = wallet[a]
  BY <1>1, ApplyingKnown
<1> HIDE DEF v
<1>3. /\ job'[r].pc = "storeStatus" /\ job'[r].fills = job[r].fills /\ job'[r].at = job[r].at
      /\ job'[r].role = job[r].role /\ job'[r].accounts = job[r].accounts
      /\ \A q \in Requests \ {r} : job'[q] = job[q]
  BY <1>1, <1>2 DEF Job
<1>4. Unpaid(job'[r]) = Unpaid(job[r]) /\ Unreduced(job'[r]) = Unreduced(job[r])
  <2>1. \A i \in DOMAIN job[r].fills, who \in {"maker", "taker"} :
          /\ i \in Unsettled(job'[r], who) <=> i \in Unsettled(job[r], who)
          /\ i \in Unadjusted(job'[r], who) <=> i \in Unadjusted(job[r], who)
    BY <1>1, <1>3 DEF At, Unsettled, Unadjusted, Later, Applying
  <2> QED  BY <1>1, <1>3, <2>1, SamePending DEF Applying
<1>5. MoneyStands /\ Labelled'
  BY SMTT(40), <1>1, <1>2, IdleMoney, LabelledStays
<1>6. Dirty(r)' = Dirty(r)
  BY ZenonT(40), <1>1, <1>3 DEF Dirty, At, Applying, Fill
<1>7. (\A a \in Accounts : job[r].accounts[a] # None /\ a \notin Dirty(r) =>
         job[r].accounts[a] = wallet[a])'
  BY <1>1, <1>2, <1>3, <1>6
<1>8. job'[r].pc \in (Applying \ {"match"}) \cup {"accounts"}
  BY <1>3 DEF Applying
<1>9. Steady(r)'
  BY <1>3 DEF Steady, At, Releasing
<1> QED  BY <1>1, <1>3, <1>4, <1>5, <1>7, <1>8, <1>9, StandingStep

LEMMA LoadReservedKeepsFunds ==
  ASSUME FundsInvariant, TypeInvariant', NEW r \in Requests, LoadReserved(r) PROVE FundsInvariant'
<1> DEFINE v == orders[Subject(r)].reserved
<1>1. /\ At(r, "loadReserved") /\ job[r].pc \in Applying
      /\ job' = [job EXCEPT ![r].pc = "storeReserved", ![r].seen = v]
      /\ UNCHANGED <<wallet, orders>> /\ queue' = queue
  BY DEF LoadReserved, At, Applying, memory, book
<1>2. /\ TypeInvariant /\ Labelled /\ job \in [Requests -> Job] /\ job[r] \in Job
      /\ \A a \in Accounts : job[r].accounts[a] # None /\ a \notin Dirty(r) =>
           job[r].accounts[a] = wallet[a]
  BY <1>1, ApplyingKnown
<1> HIDE DEF v
<1>3. /\ job'[r].pc = "storeReserved" /\ job'[r].fills = job[r].fills /\ job'[r].at = job[r].at
      /\ job'[r].role = job[r].role /\ job'[r].accounts = job[r].accounts
      /\ job'[r].seen = v
      /\ \A q \in Requests \ {r} : job'[q] = job[q]
  BY <1>1, <1>2 DEF Job
<1>4. Unpaid(job'[r]) = Unpaid(job[r]) /\ Unreduced(job'[r]) = Unreduced(job[r])
  <2>1. \A i \in DOMAIN job[r].fills, who \in {"maker", "taker"} :
          /\ i \in Unsettled(job'[r], who) <=> i \in Unsettled(job[r], who)
          /\ i \in Unadjusted(job'[r], who) <=> i \in Unadjusted(job[r], who)
    BY <1>1, <1>3 DEF At, Unsettled, Unadjusted, Later, Applying
  <2> QED  BY <1>1, <1>3, <2>1, SamePending DEF Applying
<1>5. MoneyStands /\ Labelled'
  BY SMTT(40), <1>1, <1>2, IdleMoney, LabelledStays
<1>6. Dirty(r)' = Dirty(r)
  BY ZenonT(40), <1>1, <1>3 DEF Dirty, At, Applying, Fill
<1>7. (\A a \in Accounts : job[r].accounts[a] # None /\ a \notin Dirty(r) =>
         job[r].accounts[a] = wallet[a])'
  BY <1>1, <1>2, <1>3, <1>6
<1>8. job'[r].pc \in (Applying \ {"match"}) \cup {"accounts"}
  <2>1. "storeReserved" \in (Applying \ {"match"}) \cup {"accounts"}
    BY DEF Applying
  <2> QED  BY ZenonT(40), <1>3, <2>1
<1>9. (job[r].seen = orders[Subject(r)].reserved)'
  BY <1>1, <1>3 DEF v, Subject, Fill
<1>10. Steady(r)'
  BY <1>3, <1>9 DEF Steady, At, Releasing
<1> QED  BY <1>1, <1>3, <1>4, <1>5, <1>7, <1>8, <1>10, StandingStep

LEMMA StoreStatusKeepsFunds ==
  ASSUME FundsInvariant, TypeInvariant', NEW r \in Requests, StoreStatus(r) PROVE FundsInvariant'
<1> DEFINE o == Subject(r)
           role == IF job[r].at = 0 \/ job[r].role = "maker" THEN "taker" ELSE "maker"
           pc == IF job[r].at = 0 THEN "collect"
                 ELSE IF job[r].role = "maker" THEN "loadStatus" ELSE "releaseMaker"
<1>1. /\ At(r, "storeStatus") /\ job[r].pc \in Applying
      /\ job' = [job EXCEPT ![r] = [job[r] EXCEPT !.status = None, !.role = role, !.pc = pc]]
      /\ orders' = [orders EXCEPT ![o] = [orders[o] EXCEPT !.status = job[r].status]]
      /\ wallet' = wallet /\ queue' = queue
  BY DEF StoreStatus, At, Applying, book
<1>2. /\ TypeInvariant /\ Labelled /\ job \in [Requests -> Job] /\ job[r] \in Job
      /\ Local(r) /\ orders[r] \in Order /\ orders[r] # None
      /\ job[r].at \in Nat /\ job[r].role \in {"maker", "taker"}
      /\ DOMAIN job[r].fills = 1..Len(job[r].fills) /\ Len(job[r].fills) \in Nat
      /\ \A a \in Accounts : job[r].accounts[a] # None /\ a \notin Dirty(r) =>
           job[r].accounts[a] = wallet[a]
  BY <1>1, ApplyingKnown
<1>3. job[r].role = "taker" \/ job[r].at \in 1..Len(job[r].fills)
  BY <1>1, <1>2 DEF Local, Positioned, At
<1>4. o \in Orders /\ orders[o] \in Order /\ orders[o] # None
  BY <1>2, <1>3, SubjectTyped
<1> HIDE DEF o, role, pc
<1>5. /\ job'[r].pc = pc /\ job'[r].fills = job[r].fills /\ job'[r].at = job[r].at
      /\ job'[r].role = role /\ job'[r].accounts = job[r].accounts
      /\ \A q \in Requests \ {r} : job'[q] = job[q]
  BY <1>1, <1>2 DEF Job
<1>6. pc \in {"collect", "loadStatus", "releaseMaker"}
  BY DEF pc
<1>7. Unpaid(job'[r]) = Unpaid(job[r]) /\ Unreduced(job'[r]) = Unreduced(job[r])
  <2>1. \A i \in DOMAIN job[r].fills, who \in {"maker", "taker"} :
          /\ i \in Unsettled(job'[r], who) <=> i \in Unsettled(job[r], who)
          /\ i \in Unadjusted(job'[r], who) <=> i \in Unadjusted(job[r], who)
    BY <1>1, <1>5, <1>6 DEF At, Unsettled, Unadjusted, Later, Applying
  <2> QED  BY ZenonT(40), <1>1, <1>5, <1>6, <2>1, SamePending DEF Applying
<1>8. MoneyStands /\ Renamed
  <2>1. orders \in [Orders -> Order \cup {None}]
    BY <1>2 DEF TypeInvariant, Typed
  <2>2. /\ \A x \in Orders \ {o} : orders'[x] = orders[x]
        /\ orders'[o] = [orders[o] EXCEPT !.status = job[r].status]
    BY <1>1, <1>4, <2>1
  <2>3. /\ orders'[o].account = orders[o].account /\ orders'[o].symbol = orders[o].symbol
        /\ orders'[o].side = orders[o].side /\ orders'[o].price = orders[o].price
        /\ orders'[o].quantity = orders[o].quantity
        /\ orders'[o].remaining = orders[o].remaining
        /\ orders'[o].reserved = orders[o].reserved
        /\ orders'[o].sequence = orders[o].sequence
    BY <1>4, <2>2 DEF Order
  <2>4. orders'[o] # None
    <3>1. job[r].status \in Statuses
      BY <1>1, <1>2 DEF Local, Loaded, At
    <3>2. orders'[o] \in Order
      BY <1>4, <2>2, <3>1 DEF Order, Statuses
    <3> QED  BY <3>2, ExchangeAssumption
  <2> QED  BY <1>1, <1>4, <2>2, <2>3, <2>4 DEF MoneyStands, Renamed
<1>9. Labelled'
  BY <1>1, <1>2, <1>8, MoneyIsSymbolic, LabelledStays
<1>10. (\A a \in Accounts : job[r].accounts[a] # None /\ a \notin Dirty(r) =>
          job[r].accounts[a] = wallet[a])'
  <2>1. CASE job[r].at = 0
    <3>1. Dirty(r) = {}
      BY <1>1, <1>2, <2>1 DEF Dirty, At
    <3> QED  BY <1>1, <1>2, <1>5, <3>1
  <2>2. CASE job[r].at # 0
    <3>1. job[r].at \in DOMAIN job[r].fills
      BY <1>1, <1>2, <2>2 DEF Local, Positioned, At
    <3>2. pc # "collect"
      BY <2>2 DEF pc
    <3>3. /\ Fill(r).maker \in Orders /\ orders[Fill(r).maker] # None
          /\ r \in Orders
      BY <1>2, <3>1, MakersExist DEF Fill, Orders
    <3>4. /\ orders'[Fill(r).maker].account = orders[Fill(r).maker].account
          /\ orders'[r].account = orders[r].account
      BY <1>2, <1>8, <3>3 DEF MoneyStands
    <3>5. Dirty(r) = {orders[Fill(r).maker].account, orders[r].account}
      BY <1>1, <3>1 DEF Dirty, At
    <3>6. Fill(r)' = Fill(r)
      BY <1>5 DEF Fill
    <3>7. pc \in Applying
      BY <1>6 DEF Applying
    <3>8. Dirty(r)' = {orders'[Fill(r).maker].account, orders'[r].account}
      BY <1>5, <3>1, <3>2, <3>6, <3>7 DEF Dirty, At
    <3> QED  BY <1>1, <1>2, <1>5, <3>4, <3>5, <3>8
  <2> QED  BY <2>1, <2>2
<1>11. job'[r].pc \in (Applying \ {"match"}) \cup {"accounts"}
  BY <1>5, <1>6 DEF Applying
<1>12. (At(r, "releaseMaker") => job[r].role = "maker")'
  BY <1>2, <1>5 DEF At, pc, role
<1>13. Steady(r)'
  BY <1>5, <1>6, <1>12 DEF Steady, At, Releasing
<1> QED  BY <1>1, <1>5, <1>7, <1>8, <1>9, <1>10, <1>11, <1>13, StandingStep

LEMMA CollectKeepsFunds ==
  ASSUME FundsInvariant, TypeInvariant', NEW r \in Requests, Collect(r) PROVE FundsInvariant'
<1> DEFINE o == Subject(r)
           a == orders[o].account
           n == Len(job[r].fills)
<1>1. /\ At(r, "collect") /\ job[r].pc \in Applying
      /\ UNCHANGED <<wallet, orders>> /\ queue' = queue
  BY DEF Collect, At, Applying, memory, book
<1>2. /\ TypeInvariant /\ Labelled /\ job[r] \in Job /\ Local(r)
      /\ job[r].at \in Nat /\ job[r].role \in {"maker", "taker"}
      /\ DOMAIN job[r].fills = 1..n /\ n \in Nat
      /\ \A b \in Accounts : job[r].accounts[b] # None /\ b \notin Dirty(r) =>
           job[r].accounts[b] = wallet[b]
  BY <1>1, ApplyingKnown
<1>3. /\ a \in Accounts /\ job' \in [Requests -> Job]
      /\ \A q \in Requests \ {r} : job'[q] = job[q]
      /\ job'[r].fills = job[r].fills
      /\ job'[r].accounts = [job[r].accounts EXCEPT ![a] = wallet[a]]
      /\ job'[r].at = IF job[r].role = "taker" THEN job[r].at + 1 ELSE job[r].at
      /\ job'[r].role = IF job[r].role = "taker" /\ ~(job[r].at >= n) THEN "maker" ELSE "taker"
      /\ job'[r].pc = IF job[r].role = "maker" THEN "collect"
                      ELSE IF ~(job[r].at >= n) THEN "settle"
                      ELSE IF job[r].at = n THEN "releaseTaker" ELSE "accounts"
  BY <1>2, CollectFacts
<1>4. job[r].accounts \in [Accounts -> Solvent \cup {None}]
  BY <1>2 DEF Job
<1>5. job[r].role = "taker" \/ job[r].at \in 1..n
  BY <1>1, <1>2 DEF Local, Positioned, At
<1>6. job'[r].pc \in (Applying \ {"match"}) \cup {"accounts"}
  BY <1>3 DEF Applying
<1>7. Unpaid(job'[r]) = Unpaid(job[r]) /\ Unreduced(job'[r]) = Unreduced(job[r])
  <2>1. CASE job'[r].pc = "accounts"
    <3>1. job[r].at > n
      BY <1>2, <1>3, <2>1
    <3>2. job'[r] \in Job /\ job'[r].pc \notin Applying
      BY <1>3, <2>1 DEF Applying
    <3>3. Unpaid(job[r]) = Nothing /\ Unreduced(job[r]) = Nothing
      BY <1>2, <3>1, AllApplied
    <3> QED  BY <3>2, <3>3, NothingPending
  <2>2. CASE job'[r].pc # "accounts"
    <3>1. \A i \in DOMAIN job[r].fills, who \in {"maker", "taker"} :
            /\ i \in Unsettled(job'[r], who) <=> i \in Unsettled(job[r], who)
            /\ i \in Unadjusted(job'[r], who) <=> i \in Unadjusted(job[r], who)
      <4>1. CASE job[r].role = "maker"
        BY <1>1, <1>3, <4>1 DEF At, Unsettled, Unadjusted, Later, Applying
      <4>2. CASE job[r].role # "maker" /\ ~(job[r].at >= n)
        <5>1. /\ job'[r].pc = "settle" /\ job'[r].role = "maker" /\ job'[r].at = job[r].at + 1
          BY <1>2, <1>3, <4>2
        <5>2. \A i \in 1..n : i > job[r].at + 1 \/ i = job[r].at + 1 <=> i > job[r].at
          BY <1>2
        <5> QED  BY <1>1, <1>2, <1>3, <5>1, <5>2 DEF At, Unsettled, Unadjusted, Later, Applying
      <4>3. CASE job[r].role # "maker" /\ job[r].at >= n
        <5>1. job'[r].pc = "releaseTaker" /\ job'[r].at = job[r].at + 1
          BY <1>2, <1>3, <2>2, <4>3
        <5>2. \A i \in 1..n : ~(i > job[r].at + 1) /\ ~(i > job[r].at)
          BY <1>2, <4>3
        <5> QED  BY <1>1, <1>2, <1>3, <5>1, <5>2 DEF At, Unsettled, Unadjusted, Later, Applying
      <4> QED  BY <4>1, <4>2, <4>3
    <3>2. job'[r].pc \in Applying
      BY <1>6, <2>2
    <3> QED  BY <1>1, <1>3, <3>1, <3>2, SamePending
  <2> QED  BY <2>1, <2>2
<1>8. MoneyStands /\ Labelled'
  BY <1>1, <1>2, IdleMoney, LabelledStays
<1>9. /\ job'[r].accounts[a] = wallet[a]
      /\ \A b \in Accounts \ {a} : job'[r].accounts[b] = job[r].accounts[b]
  BY <1>3, <1>4
<1>10. Dirty(r) \subseteq Dirty(r)' \cup {a}
  <2>1. CASE job[r].role = "maker"
    <3>1. Dirty(r) \subseteq {orders[Fill(r).maker].account, orders[r].account}
      BY <2>1 DEF Dirty
    <3>2. a = orders[Fill(r).maker].account
      BY <2>1 DEF Subject
    <3>3. Dirty(r)' = {orders[r].account}
      BY <1>1, <1>3, <2>1 DEF Dirty, At
    <3> QED  BY <3>1, <3>2, <3>3
  <2>2. CASE job[r].role # "maker"
    <3>1. Dirty(r) = {orders[r].account}
      BY <1>1, <1>2, <2>2 DEF Dirty
    <3>2. a = orders[r].account
      BY <2>2 DEF Subject
    <3> QED  BY <3>1, <3>2
  <2> QED  BY <2>1, <2>2
<1>11. (\A b \in Accounts : job[r].accounts[b] # None /\ b \notin Dirty(r) =>
          job[r].accounts[b] = wallet[b])'
  BY <1>1, <1>2, <1>9, <1>10
<1>12. (At(r, "releaseTaker") => job[r].at > Len(job[r].fills))'
  BY <1>2, <1>3 DEF At
<1>13. Steady(r)'
  BY <1>3, <1>12 DEF Steady, At, Releasing
<1> QED  BY <1>1, <1>3, <1>6, <1>7, <1>8, <1>11, <1>13, StandingStep

LEMMA FinishKeepsFunds ==
  ASSUME FundsInvariant, TypeInvariant', NEW r \in Requests, Finish(r) PROVE FundsInvariant'
<1> DEFINE s == orders[r].symbol
           side == orders[r].side
<1>1. /\ At(r, "match") /\ job[r].pc \in Applying /\ UNCHANGED <<wallet, orders>>
      /\ Goto(r, "loadStatus")
  BY DEF Finish, At, Applying, memory
<1>2. /\ TypeInvariant /\ Labelled /\ job \in [Requests -> Job] /\ job[r] \in Job
      /\ Local(r) /\ orders[r] \in Order /\ orders[r] # None /\ r \in Orders
      /\ job[r].at \in Nat /\ DOMAIN job[r].fills = 1..Len(job[r].fills)
      /\ \A a \in Accounts : job[r].accounts[a] # None /\ a \notin Dirty(r) =>
           job[r].accounts[a] = wallet[a]
  BY <1>1, ApplyingKnown
<1>3. /\ job'[r].pc = "loadStatus" /\ job'[r].fills = job[r].fills /\ job'[r].at = job[r].at
      /\ job'[r].role = job[r].role /\ job'[r].accounts = job[r].accounts
      /\ \A q \in Requests \ {r} : job'[q] = job[q]
  BY <1>1, <1>2 DEF Goto, Job
<1>4. Unpaid(job'[r]) = Unpaid(job[r]) /\ Unreduced(job'[r]) = Unreduced(job[r])
  <2>1. \A i \in DOMAIN job[r].fills, who \in {"maker", "taker"} :
          /\ i \in Unsettled(job'[r], who) <=> i \in Unsettled(job[r], who)
          /\ i \in Unadjusted(job'[r], who) <=> i \in Unadjusted(job[r], who)
    BY <1>1, <1>3 DEF At, Unsettled, Unadjusted, Later, Applying
  <2> QED  BY <1>1, <1>3, <2>1, SamePending DEF Applying
<1>5. MoneyStands
  BY <1>1, IdleMoney
<1>6. Labelled'
  <2>1. queue \in [Symbols -> [Sides -> Seq(Orders)]] /\ s \in Symbols /\ side \in Sides
    BY <1>2 DEF TypeInvariant, Typed, Order
  <2>2. ASSUME NEW t \in Symbols, NEW x \in Sides, NEW o \in Range(queue'[t][x])
        PROVE  o \in Range(queue[t][x]) \/ (o = r /\ t = s)
    <3>1. CASE queue' = queue
      BY <2>2, <3>1
    <3>2. CASE queue' # queue
      <4> DEFINE q == queue[s][side]
      <4>1. PICK k \in 1..(Len(q) + 1) :
              queue' = [queue EXCEPT ![s] = Joined(queue[s], side, r, k)]
        BY <3>2 DEF Finish
      <4>2. q \in Seq(Orders)
        BY <2>1
      <4> DEFINE placed == Placed(q, r, k)
      <4>3. queue' = [queue EXCEPT ![s] = [queue[s] EXCEPT ![side] = placed]]
        BY <4>1 DEF Joined
      <4> HIDE DEF q
      <4>4. Range(placed) = Range(q) \cup {r}
        BY <1>2, <4>1, <4>2, PlacedRange
      <4> HIDE DEF placed, s, side
      <4>5. queue'[t][x] = IF t = s /\ x = side THEN placed ELSE queue[t][x]
        BY <2>1, <4>3
      <4> QED  BY <2>2, <4>4, <4>5 DEF q
    <3> QED  BY <3>1, <3>2
  <2> QED  BY <1>1, <1>2, <2>2 DEF Labelled
<1>7. Dirty(r) = {} /\ Dirty(r)' = {}
  BY <1>1, <1>2, <1>3 DEF Dirty, At, Local, Positioned
<1>8. (\A a \in Accounts : job[r].accounts[a] # None /\ a \notin Dirty(r) =>
         job[r].accounts[a] = wallet[a])'
  BY <1>1, <1>2, <1>3, <1>7
<1>9. job'[r].pc \in (Applying \ {"match"}) \cup {"accounts"}
  BY <1>3 DEF Applying
<1>10. Steady(r)'
  BY <1>3 DEF Steady, At, Releasing
<1> QED  BY <1>1, <1>3, <1>4, <1>5, <1>6, <1>8, <1>9, <1>10, StandingStep

(* Nothing is left to release of an order that has been filled: every      *)
(* settlement has already taken what the fill needed.                      *)
Freeing == {"releaseMaker", "releaseTaker", "subtract", "add", "clear"}

LEMMA FreeingKnown ==
  ASSUME FundsInvariant, NEW r \in Requests, job[r].pc \in Freeing
  PROVE  /\ job[r].pc \in Applying /\ job[r].pc \in Settling
         /\ \/ job[r].role = "maker" /\ job[r].at \in DOMAIN job[r].fills
            \/ job[r].role = "taker" /\ job[r].at > Len(job[r].fills)
<1>1. job[r].pc \in Applying /\ job[r].pc \in Settling
  BY DEF Applying, Settling, Freeing
<1>2. /\ Keeps(r) /\ job[r].role \in {"maker", "taker"}
      /\ DOMAIN job[r].fills = 1..Len(job[r].fills)
      /\ job[r].role = "taker" \/ job[r].at \in 1..Len(job[r].fills)
  BY <1>1, ApplyingKnown, SettlingKnown
<1>3. Steady(r)
  BY <1>1, <1>2 DEF Keeps, Matched
<1>4. job[r].role = "taker" => job[r].at > Len(job[r].fills)
  BY <1>3 DEF Steady, At, Freeing, Releasing
<1> QED  BY <1>1, <1>2, <1>4

LEMMA NothingToRelease ==
  ASSUME FundsInvariant, Turns, NEW r \in Requests, job[r].pc \in Freeing,
         orders[Subject(r)].remaining = 0
  PROVE  orders[Subject(r)].reserved = 0
<1> DEFINE x == Subject(r)
           j == job[r]
<1>1. j.pc \in Applying /\ j.pc \in Settling
  BY FreeingKnown
<1>2. /\ TypeInvariant /\ Keeps(r) /\ Money(r) /\ Busy(r) /\ j \in Job /\ j.fills \in Seq(Trade)
      /\ orders \in [Orders -> Order \cup {None}]
  BY <1>1, ApplyingKnown DEF TypeInvariant, Typed
<1>3. x \in Orders /\ orders[x] \in Order /\ orders[x] # None
  BY <1>1, <1>2, SettlingKnown
<1>4. ~Unsent(x) /\ Unreduced(j)[x] = 0
  <2>1. CASE j.role = "maker" /\ j.at \in DOMAIN j.fills
    <3> DEFINE S == Unadjusted(j, "maker")
               T == Unadjusted(j, "taker")
    <3>1. x = j.fills[j.at].maker
      BY <2>1 DEF Subject, Fill
    <3>2. x # r /\ ~Unsent(x)
      BY <1>1, <1>2, <2>1, <3>1 DEF Keeps, Matched
    <3>3. /\ S \subseteq DOMAIN j.fills /\ T \subseteq DOMAIN j.fills
          /\ \A i \in S : i > j.at
      BY DEF Unadjusted, Later, Freeing
    <3>4. \A i \in S : Party(j.fills[i], "maker") = x => j.fills[i].quantity = 0
      BY <1>1, <1>2, <2>1, <3>1, <3>3 DEF Party, Keeps, Matched
    <3>5. \A i \in T : Party(j.fills[i], "taker") = x => j.fills[i].quantity = 0
      <4>1. \A i \in T : j.fills[i].taker = r
        BY <1>2, <3>3, MakersExist
      <4> QED  BY <3>2, <4>1 DEF Party
    <3> HIDE DEF S, T
    <3>6. Volume(j.fills, "maker", x, S) = 0 /\ Volume(j.fills, "taker", x, T) = 0
      BY <1>2, <3>3, <3>4, <3>5, VolumeZero
    <3>7. Quantity(j.fills, S, T, x) = 0
      BY <3>6 DEF Quantity
    <3> QED  BY <1>3, <3>2, <3>7 DEF Unreduced, S, T
  <2>2. CASE j.role = "taker" /\ j.at > Len(j.fills)
    <3>1. x = r
      BY <2>2 DEF Subject
    <3>2. Unreduced(j)[x] = 0
      BY <1>2, <1>3, <2>2, AllApplied DEF Nothing
    <3>3. j.pc \in Submitted
      BY <1>1, <1>2, SettlingKnown
    <3>4. orders[r].sequence > 0
      BY <1>2, <3>3, KnownOf DEF Local, Phased
    <3> QED  BY <1>3, <3>1, <3>2, <3>4 DEF Unsent, Order
  <2> QED  BY <2>1, <2>2, FreeingKnown
<1>5. NoDebt
  <2>1. job[r].pc \notin {"checkReserved", "clampReserved"}
    BY DEF Freeing
  <2> QED  BY <1>2, <2>1, NobodyOwes
<1>6. orders[x].reserved >= 0 /\ orders[x].reserved \in Int
  BY <1>3, <1>5 DEF NoDebt, Order
<1>7. orders[x].reserved <= Needs(orders[x], 0) + Needs(orders[x], 0)
  BY <1>2, <1>3, <1>4 DEF Money, Backed
<1>8. Needs(orders[x], 0) = 0
  BY <1>3, NeedsAdds
<1> QED  BY <1>6, <1>7, <1>8

(* So a release goes through its steps and changes nothing. *)
LEMMA FreeingStep ==
  ASSUME FundsInvariant, TypeInvariant', NEW r \in Requests, job[r].pc \in Freeing,
         UNCHANGED <<wallet, orders>>, queue' = queue,
         NEW label \in {"subtract", "add", "clear", "collect", "accounts"}, NEW v,
         job' = [job EXCEPT ![r].pc = label, ![r].seen = v],
         label = "accounts" => At(r, "releaseTaker"),
         label \in {"subtract", "add", "clear"} => orders[Subject(r)].remaining = 0
  PROVE  FundsInvariant'
<1> DEFINE j == job[r]
<1>1. /\ j.pc \in Applying
      /\ \/ j.role = "maker" /\ j.at \in DOMAIN j.fills
         \/ j.role = "taker" /\ j.at > Len(j.fills)
  BY FreeingKnown
<1>2. /\ TypeInvariant /\ Labelled /\ job \in [Requests -> Job] /\ j \in Job /\ job'[r] \in Job
      /\ DOMAIN j.fills = 1..Len(j.fills) /\ Len(j.fills) \in Nat /\ j.at \in Nat
      /\ \A a \in Accounts : j.accounts[a] # None /\ a \notin Dirty(r) => j.accounts[a] = wallet[a]
  BY <1>1, ApplyingKnown DEF TypeInvariant, Typed
<1>3. /\ job'[r].pc = label /\ job'[r].fills = j.fills /\ job'[r].at = j.at
      /\ job'[r].role = j.role /\ job'[r].accounts = j.accounts
      /\ \A q \in Requests \ {r} : job'[q] = job[q]
  BY <1>2 DEF Job
<1>4. At(r, "releaseTaker") => j.role = "taker"
  BY <1>2, ApplyingKnown, <1>1 DEF Local, Positioned, At
<1>5. Unpaid(job'[r]) = Unpaid(j) /\ Unreduced(job'[r]) = Unreduced(j)
  <2>1. CASE j.at > Len(j.fills)
    BY <1>2, <1>3, <2>1, AllApplied
  <2>2. CASE ~(j.at > Len(j.fills))
    <3>1. label \in Applying /\ label # "accounts"
      BY <1>1, <1>4, <2>2 DEF Applying
    <3>2. \A i \in DOMAIN j.fills, who \in {"maker", "taker"} :
            /\ i \in Unsettled(job'[r], who) <=> i \in Unsettled(j, who)
            /\ i \in Unadjusted(job'[r], who) <=> i \in Unadjusted(j, who)
      BY <1>1, <1>3, <3>1 DEF Unsettled, Unadjusted, Later, Freeing
    <3> HIDE DEF j
    <3> QED  BY <1>1, <1>3, <3>1, <3>2, SamePending DEF j
  <2> QED  BY <2>1, <2>2
<1>6. MoneyStands /\ Labelled'
  BY <1>2, IdleMoney, LabelledStays
<1>7. Dirty(r) \subseteq Dirty(r)'
  <2>1. CASE j.role = "taker" /\ j.at > Len(j.fills)
    <3>1. j.at \notin DOMAIN j.fills /\ ~At(r, "collect")
      BY <1>2, <2>1 DEF At, Freeing
    <3> QED  BY <3>1 DEF Dirty
  <2>2. CASE j.role = "maker" /\ j.at \in DOMAIN j.fills
    <3>1. Dirty(r) = {orders[Fill(r).maker].account, orders[r].account}
      BY <1>1, <2>2 DEF Dirty, At
    <3>2. job'[r].pc \in Applying /\ job'[r].role = "maker" /\ job'[r].at \in DOMAIN job'[r].fills
      BY <1>3, <1>4, <2>2 DEF Applying
    <3>3. Fill(r)' = Fill(r)
      BY <1>3 DEF Fill
    <3>4. Dirty(r)' = {orders'[Fill(r).maker].account, orders'[r].account}
      BY <3>2, <3>3 DEF Dirty, At
    <3> QED  BY <3>1, <3>4
  <2> QED  BY <1>1, <2>1, <2>2
<1>8. (\A a \in Accounts : job[r].accounts[a] # None /\ a \notin Dirty(r) =>
         job[r].accounts[a] = wallet[a])'
  BY <1>2, <1>3, <1>7
<1>9. job'[r].pc \in (Applying \ {"match"}) \cup {"accounts"}
  BY <1>3 DEF Applying
<1>10. Subject(r)' = Subject(r)
  BY <1>3 DEF Subject, Fill
<1>11. Steady(r)'
  BY <1>1, <1>3, <1>10 DEF Steady, At, Releasing
<1> HIDE DEF j
<1> QED  BY <1>1, <1>3, <1>5, <1>6, <1>8, <1>9, <1>11, StandingStep DEF j

LEMMA ReleasedNothing ==
  ASSUME NEW account \in Solvent, NEW asset \in Assets
  PROVE  Released(account, asset, 0, 0) = account
<1>1. /\ account.balances[asset].available + 0 = account.balances[asset].available
      /\ account.balances[asset].locked - 0 = account.balances[asset].locked
  BY BalanceIsAmount
<1> QED  BY <1>1 DEF Released, Solvent

Frees(r) ==
  \/ ReleaseMaker(r) \/ ReleaseTaker(r)
  \/ ClipReserved(r) \/ SubtractReserved(r) \/ AddReserved(r) \/ ClearReserved(r)

LEMMA FreesIsIdle ==
  ASSUME Serial, FundsInvariant, Turns, NEW r \in Requests, Frees(r)
  PROVE  /\ job[r].pc \in Freeing
         /\ UNCHANGED <<wallet, orders, market, auditLog, book, services>>
         /\ \E label \in {"subtract", "add", "clear", "collect", "accounts"} : \E v :
              /\ job' = [job EXCEPT ![r].pc = label, ![r].seen = v]
              /\ label = "accounts" => At(r, "releaseTaker")
              /\ label \in {"subtract", "add", "clear"} => orders[Subject(r)].remaining = 0
<1> DEFINE x == Subject(r)
           a == orders[x].account
<1>1. job[r].pc \in Freeing
  <2>1. ~At(r, "clip")
    <3> SUFFICES ASSUME At(r, "clip") PROVE FALSE
      OBVIOUS
    <3>1. job[r].pc \in Applying
      BY DEF At, Applying
    <3>2. Steady(r)
      BY <3>1, ApplyingKnown DEF Keeps, Matched
    <3> QED  BY <3>2 DEF Steady, At, Releasing
  <2> QED  BY <2>1 DEF Frees, ReleaseMaker, ReleaseTaker, ClipReserved, SubtractReserved,
                       AddReserved, ClearReserved, At, Freeing
<1>2. job[r].pc \in Applying /\ job[r].pc \in Settling
  BY <1>1, FreeingKnown
<1>3. /\ TypeInvariant /\ Keeps(r) /\ job \in [Requests -> Job] /\ job[r] \in Job
      /\ wallet \in [Accounts -> Solvent] /\ orders \in [Orders -> Order \cup {None}]
  BY <1>2, ApplyingKnown DEF TypeInvariant, Typed
<1>4. /\ x \in Orders /\ orders[x] \in Order /\ a \in Accounts
      /\ LockedAsset(MyPair(r), orders[x]) \in Assets /\ LockedBy(r) \in Amounts
  BY <1>2, <1>3, SettlingKnown
<1>5. job[r].pc \in Releasing => orders[x].remaining = 0
  BY <1>2, <1>3 DEF Keeps, Matched, Steady
<1>6. orders[x].remaining = 0 => orders[x].reserved = 0
  BY <1>1, NothingToRelease
<1>7. ASSUME NEW label, Goto(r, label) PROVE job' = [job EXCEPT ![r].pc = label, ![r].seen = job[r].seen]
  BY <1>3, <1>7 DEF Goto, Job
<1>8. CASE ReleaseMaker(r) \/ ReleaseTaker(r)
  <2>1. PICK skip \in {"collect", "accounts"} :
          (skip = "accounts" => At(r, "releaseTaker")) /\ StartRelease(r, skip)
    BY <1>8 DEF ReleaseMaker, ReleaseTaker
  <2>2. UNCHANGED <<memory, book, services>>
    BY <2>1 DEF StartRelease
  <2>3. CASE orders[x].remaining > 0
    <3>1. Goto(r, skip)
      BY <2>1, <2>3 DEF StartRelease
    <3> QED  BY <1>1, <1>7, <2>1, <2>2, <3>1 DEF memory
  <2>4. CASE ~(orders[x].remaining > 0)
    <3>1. orders[x].remaining = 0
      BY <1>4, <2>4 DEF Order
    <3>2. LockedBy(r) \in Nat
      BY <1>4, AmountsClosed
    <3>3. Goto(r, "subtract")
      BY <1>6, <2>1, <2>4, <3>1, <3>2 DEF StartRelease, LockedBy
    <3> QED  BY <1>1, <1>7, <2>2, <3>1, <3>3 DEF memory
  <2> QED  BY <2>3, <2>4
<1>9. CASE ClipReserved(r)
  BY <1>1, <1>9 DEF ClipReserved, At, Freeing
<1>10. CASE SubtractReserved(r)
  BY <1>1, <1>5, <1>10 DEF SubtractReserved, At, Releasing, memory
<1>11. CASE AddReserved(r)
  <2>1. /\ UNCHANGED <<orders, market, auditLog, book, services>>
        /\ job' = [job EXCEPT ![r].pc = "clear", ![r].seen = 0]
        /\ wallet' = [wallet EXCEPT ![a] =
             Released(wallet[a], LockedAsset(MyPair(r), orders[x]), job[r].seen, orders[x].reserved)]
    BY <1>11 DEF AddReserved
  <2>2. orders[x].remaining = 0 /\ orders[x].reserved = 0 /\ job[r].seen = 0
    BY <1>5, <1>6, <1>11 DEF Turns, AddReserved, At, Releasing
  <2>3. Released(wallet[a], LockedAsset(MyPair(r), orders[x]), 0, 0) = wallet[a]
    BY <1>3, <1>4, ReleasedNothing
  <2> HIDE DEF x, a
  <2>4. wallet' = wallet
    BY <1>3, <1>4, <2>1, <2>2, <2>3
  <2> QED  BY <1>1, <2>1, <2>2, <2>4 DEF x
<1>12. CASE ClearReserved(r)
  <2>1. /\ UNCHANGED <<wallet, market, auditLog, book, services>> /\ Goto(r, "collect")
        /\ orders' = [orders EXCEPT ![x] = [orders[x] EXCEPT !.reserved = 0]]
        /\ orders[x].reserved = 0
    BY <1>5, <1>6, <1>12 DEF ClearReserved, At, Releasing
  <2>2. [orders[x] EXCEPT !.reserved = 0] = orders[x]
    BY <1>4, <2>1 DEF Order
  <2> HIDE DEF x, a
  <2>3. orders' = orders
    BY <1>3, <2>1, <2>2
  <2> QED  BY <1>1, <1>7, <2>1, <2>3
<1> QED  BY <1>8, <1>9, <1>10, <1>11, <1>12 DEF Frees

LEMMA FreesKeepsFunds ==
  ASSUME Serial, FundsInvariant, Turns, TypeInvariant', NEW r \in Requests, Frees(r)
  PROVE  FundsInvariant'
<1>1. /\ job[r].pc \in Freeing
      /\ UNCHANGED <<wallet, orders>> /\ queue' = queue
  BY FreesIsIdle DEF book
<1>2. PICK label \in {"subtract", "add", "clear", "collect", "accounts"} : \E v :
        /\ job' = [job EXCEPT ![r].pc = label, ![r].seen = v]
        /\ label = "accounts" => At(r, "releaseTaker")
        /\ label \in {"subtract", "add", "clear"} => orders[Subject(r)].remaining = 0
  BY FreesIsIdle
<1>3. PICK v : job' = [job EXCEPT ![r].pc = label, ![r].seen = v]
  BY <1>2
<1> QED  BY <1>1, <1>2, <1>3, FreeingStep

(* The book takes the order over: it still needs what it reserved. *)
LEMMA SubmitKeepsFunds ==
  ASSUME FundsInvariant, TypeInvariant', NEW r \in Requests, Submit(r) PROVE FundsInvariant'
<1> DEFINE o == orders[r]
<1>1. /\ At(r, "submit") /\ Busy(r) /\ TypeInvariant /\ Labelled /\ job[r].pc \notin Applying
      /\ wallet' = wallet /\ queue' = queue /\ Goto(r, "match")
      /\ orders' = [orders EXCEPT ![r].sequence = seq[o.symbol] + 1, ![r].remaining = o.quantity]
  BY DEF Submit, At, Busy, FundsInvariant, Applying
<1>2. /\ job \in [Requests -> Job] /\ job[r] \in Job /\ r \in Orders /\ o \in Order /\ o # None
      /\ job[r].input.kind # "deposit" /\ o.sequence = 0 /\ Fresh(r)
      /\ orders \in [Orders -> Order \cup {None}]
  BY <1>1, KnownOf DEF At, Unsubmitted, Local, Phased, TypeInvariant, Typed
<1>3. Keeps(r) /\ Solo(r) /\ Money(r)
  BY <1>1, BusyIsSolo
<1>4. /\ \A x \in Orders \ {r} : orders'[x] = orders[x]
      /\ orders'[r] = [o EXCEPT !.sequence = seq[o.symbol] + 1, !.remaining = o.quantity]
  BY <1>1, <1>2
<1>5. /\ orders'[r].account = o.account /\ orders'[r].symbol = o.symbol
      /\ orders'[r].side = o.side /\ orders'[r].price = o.price
      /\ orders'[r].quantity = o.quantity /\ orders'[r].reserved = o.reserved
      /\ orders'[r].remaining = o.quantity /\ orders'[r].sequence = seq[o.symbol] + 1
  BY <1>2, <1>4 DEF Order
<1>6. ~Unsent(r)' /\ Unsent(r) /\ orders'[r] # None
  <2>1. seq[o.symbol] \in Nat
    BY <1>1, <1>2 DEF TypeInvariant, Typed, Order
  <2>2. orders'[r] \in Order
    <3> DEFINE n == seq[o.symbol] + 1
    <3>1. n \in Nat /\ o.quantity \in Nat
      BY <1>2, <2>1 DEF Order
    <3>2. orders'[r] = [o EXCEPT !.sequence = n, !.remaining = o.quantity]
      BY <1>4
    <3> HIDE DEF n, o
    <3> QED  BY <1>2, <3>1, <3>2 DEF Order
  <2> QED  BY <1>2, <1>5, <2>1, <2>2, ExchangeAssumption DEF Unsent
<1>7. /\ job'[r].pc = "match" /\ job'[r].input = job[r].input /\ job'[r].fills = << >>
      /\ job'[r].accounts = job[r].accounts /\ job'[r] \in Job /\ job'[r].at = 0
      /\ \A q \in Requests \ {r} : job'[q] = job[q]
  BY <1>1, <1>2 DEF Goto, Job, Fresh, TypeInvariant, Typed
<1>8. /\ Unpaid(job[r]) = Nothing /\ Unreduced(job[r]) = Nothing
      /\ Unpaid(job'[r]) = Nothing /\ Unreduced(job'[r]) = Nothing
  BY <1>1, <1>2, <1>7, NothingPending
<1>9. Locked(Nothing) /\ Backed(Nothing)
  BY <1>3, <1>8 DEF Money
<1>10. /\ o.reserved = Needs(o, o.quantity) /\ o.quantity \in Nat
       /\ \A a \in Accounts : job[r].accounts[a] = None
  BY <1>1, <1>2, <1>3 DEF Keeps, BeforeSubmit, At, Order
<1>11. \A n : Needs(orders'[r], n) = Needs(o, n)
  BY <1>5 DEF Needs
<1>12. Needs(o, o.quantity) \in Nat /\ Needs(o, 0) = 0
  BY <1>2, <1>10, NeedsIsNatural, NeedsAdds
<1> HIDE DEF o
<1>13. ASSUME NEW x \in Orders, NEW a \in Accounts, NEW asset \in Assets
       PROVE  Claim(Nothing, x, a, asset)' = Claim(Nothing, x, a, asset)
  <2>1. CASE x # r
    BY <1>4, <2>1 DEF Claim, LocksOf, Due, Unsent
  <2>2. CASE x = r
    <3>1. Due(Nothing, r)' = Due(Nothing, r)
      <4>1. Due(Nothing, r) = Needs(o, o.quantity)
        BY <1>6, <1>10 DEF Due, o
      <4>2. Due(Nothing, r)' = Needs(o, o.quantity) + Needs(o, 0)
        BY <1>2, <1>5, <1>6, <1>11 DEF Due, Nothing
      <4> QED  BY <1>12, <4>1, <4>2
    <3>2. LocksOf(r, a, asset)' <=> LocksOf(r, a, asset)
      BY <1>2, <1>5, <1>6 DEF LocksOf, LockedAsset, o
    <3> QED  BY <2>2, <3>1, <3>2 DEF Claim
  <2> QED  BY <2>1, <2>2
<1>14. Locked(Nothing)'
  BY <1>1, <1>9, <1>13, LockedEven
<1>15. Backed(Nothing)'
  <2> SUFFICES ASSUME NEW x \in Orders, orders'[x] # None, ~Unsent(x)'
               PROVE  LET needed == Needs(orders'[x], orders'[x].remaining)
                                      + Needs(orders'[x], Nothing[x]) IN
                      orders'[x].reserved <= needed /\ (Exact => orders'[x].reserved = needed)
    BY DEF Backed, Exact
  <2>1. CASE x # r
    BY <1>4, <1>9, <2>1 DEF Backed, Unsent
  <2>2. CASE x = r
    <3>1. /\ Needs(orders'[r], orders'[r].remaining) = Needs(o, o.quantity)
          /\ Needs(orders'[r], Nothing[r]) = 0
      BY <1>2, <1>5, <1>11, <1>12 DEF Nothing
    <3>2. orders'[r].reserved = Needs(o, o.quantity)
      BY <1>5, <1>10
    <3> QED  BY <1>12, <2>2, <3>1, <3>2
  <2> QED  BY <2>1, <2>2
<1>16. Money(r)' /\ Busy(r)'
  BY <1>7, <1>8, <1>14, <1>15 DEF Money, Busy
<1>17. Matched(r)'
  <2>1. DOMAIN job'[r].fills = {} /\ job'[r].pc = "match"
    BY <1>7
  <2> QED  BY <2>1 DEF Matched, Steady, At, Releasing
<1>18. Copied(r)'
  BY <1>7, <1>10 DEF Copied, Syncing
<1>19. BeforeSubmit(r)'
  <2>1. seq[o.symbol] \in Nat
    BY <1>1, <1>2 DEF TypeInvariant, Typed, Order
  <2> QED  BY <1>5, <2>1 DEF BeforeSubmit
<1>20. Labelled'
  <2>1. Renamed /\ Symbolic
    BY <1>1, <1>4, <1>5 DEF Renamed, Symbolic, o
  <2> QED  BY <1>1, <2>1, LabelledStays
<1> QED  BY <1>3, <1>7, <1>16, <1>17, <1>18, <1>19, <1>20, TurnStep DEF Keeps

(* Applying one half of a fill. *)
LEMMA OneHalf ==
  ASSUME NEW fills \in Seq(Trade), NEW who \in {"maker", "taker"}, NEW i \in DOMAIN fills,
         NEW M \in SUBSET DOMAIN fills, NEW T \in SUBSET DOMAIN fills,
         i \in IF who = "maker" THEN M ELSE T, NEW o
  PROVE  Quantity(fills, M, T, o) =
           (IF Party(fills[i], who) = o THEN fills[i].quantity ELSE 0)
             + Quantity(fills, IF who = "maker" THEN M \ {i} ELSE M,
                               IF who = "taker" THEN T \ {i} ELSE T, o)
<1>1. /\ Volume(fills, "maker", o, M) \in Nat /\ Volume(fills, "taker", o, T) \in Nat
      /\ Volume(fills, "maker", o, M \ {i}) \in Nat /\ Volume(fills, "taker", o, T \ {i}) \in Nat
  BY VolumeNatural
<1>2. fills[i].quantity \in Nat
  <2>1. fills[i] \in Trade
    BY LenProperties, ElementOfSeq
  <2> QED  BY <2>1 DEF Trade
<1>3. CASE who = "maker"
  <2>1. Volume(fills, "maker", o, M) =
          (IF Party(fills[i], "maker") = o THEN fills[i].quantity ELSE 0)
            + Volume(fills, "maker", o, M \ {i})
    BY <1>3, VolumeDrop
  <2>2. Quantity(fills, M, T, o) = Volume(fills, "maker", o, M) + Volume(fills, "taker", o, T)
    BY DEF Quantity
  <2>3. Quantity(fills, M \ {i}, T, o) =
          Volume(fills, "maker", o, M \ {i}) + Volume(fills, "taker", o, T)
    BY DEF Quantity
  <2> QED  BY <1>1, <1>2, <1>3, <2>1, <2>2, <2>3
<1>4. CASE who = "taker"
  <2>1. Volume(fills, "taker", o, T) =
          (IF Party(fills[i], "taker") = o THEN fills[i].quantity ELSE 0)
            + Volume(fills, "taker", o, T \ {i})
    BY <1>4, VolumeDrop
  <2>2. Quantity(fills, M, T, o) = Volume(fills, "maker", o, M) + Volume(fills, "taker", o, T)
    BY DEF Quantity
  <2>3. Quantity(fills, M, T \ {i}, o) =
          Volume(fills, "maker", o, M) + Volume(fills, "taker", o, T \ {i})
    BY DEF Quantity
  <2> QED  BY <1>1, <1>2, <1>4, <2>1, <2>2, <2>3
<1> QED  BY <1>3, <1>4

LEMMA SettleOneHalf ==
  ASSUME NEW j \in Job, NEW k \in Job, k.fills = j.fills, k.at = j.at, j.at \in DOMAIN j.fills,
         j.pc = "settle",
         \/ j.role = "maker" /\ k.pc = "settle" /\ k.role = "taker"
         \/ j.role = "taker" /\ k.pc = "loadReserved" /\ k.role = "maker"
  PROVE  /\ Unreduced(k) = Unreduced(j)
         /\ \A o \in Orders : Unpaid(j)[o] =
              (IF Party(j.fills[j.at], j.role) = o THEN j.fills[j.at].quantity ELSE 0) + Unpaid(k)[o]
<1> DEFINE i == j.at
           M == Unsettled(j, "maker")
           T == Unsettled(j, "taker")
<1>1. /\ j.fills \in Seq(Trade) /\ DOMAIN j.fills = 1..Len(j.fills) /\ Len(j.fills) \in Nat
      /\ j.pc \in Applying /\ k.pc \in Applying
  BY LenProperties DEF Job, Applying
<1>2. \A who \in {"maker", "taker"} : Unadjusted(k, who) = Unadjusted(j, who)
  BY <1>1 DEF Unadjusted, Later
<1>3. Unreduced(k) = Unreduced(j)
  BY <1>2 DEF Unreduced
<1>4. /\ Unsettled(k, "maker") = IF j.role = "maker" THEN M \ {i} ELSE M
      /\ Unsettled(k, "taker") = IF j.role = "taker" THEN T \ {i} ELSE T
      /\ i \in IF j.role = "maker" THEN M ELSE T
      /\ M \in SUBSET DOMAIN j.fills /\ T \in SUBSET DOMAIN j.fills
  <2>1. CASE j.role = "maker"
    BY <1>1, <2>1 DEF Unsettled, Later
  <2>2. CASE j.role = "taker"
    BY <1>1, <2>2 DEF Unsettled, Later
  <2> QED  BY <2>1, <2>2
<1> HIDE DEF M, T, i
<1>5. ASSUME NEW o \in Orders
      PROVE  Unpaid(j)[o] =
               (IF Party(j.fills[i], j.role) = o THEN j.fills[i].quantity ELSE 0) + Unpaid(k)[o]
  <2>1. Unpaid(j)[o] = Quantity(j.fills, M, T, o)
    BY DEF Unpaid, M, T
  <2>2. Unpaid(k)[o] = Quantity(j.fills, IF j.role = "maker" THEN M \ {i} ELSE M,
                                         IF j.role = "taker" THEN T \ {i} ELSE T, o)
    BY <1>4 DEF Unpaid
  <2>3. i \in DOMAIN j.fills
    BY DEF i
  <2> QED  BY <1>1, <1>4, <2>1, <2>2, <2>3, OneHalf
<1> QED  BY <1>3, <1>5 DEF i

LEMMA AdjustOneHalf ==
  ASSUME NEW j \in Job, NEW k \in Job, k.fills = j.fills, k.at = j.at, j.at \in DOMAIN j.fills,
         j.pc = "storeReserved",
         k.pc = "checkReserved", k.role = j.role, j.role \in {"maker", "taker"}
  PROVE  /\ Unpaid(k) = Unpaid(j)
         /\ \A o \in Orders : Unreduced(j)[o] =
              (IF Party(j.fills[j.at], j.role) = o THEN j.fills[j.at].quantity ELSE 0) + Unreduced(k)[o]
<1> DEFINE i == j.at
           M == Unadjusted(j, "maker")
           T == Unadjusted(j, "taker")
<1>1. /\ j.fills \in Seq(Trade) /\ DOMAIN j.fills = 1..Len(j.fills) /\ Len(j.fills) \in Nat
      /\ j.pc \in Applying /\ k.pc \in Applying
  BY LenProperties DEF Job, Applying
<1>2. \A who \in {"maker", "taker"} : Unsettled(k, who) = Unsettled(j, who)
  BY <1>1 DEF Unsettled, Later
<1>3. Unpaid(k) = Unpaid(j)
  BY <1>2 DEF Unpaid
<1>4. /\ Unadjusted(k, "maker") = IF j.role = "maker" THEN M \ {i} ELSE M
      /\ Unadjusted(k, "taker") = IF j.role = "taker" THEN T \ {i} ELSE T
      /\ i \in IF j.role = "maker" THEN M ELSE T
      /\ M \in SUBSET DOMAIN j.fills /\ T \in SUBSET DOMAIN j.fills
  <2>1. CASE j.role = "maker"
    BY <1>1, <2>1 DEF Unadjusted, Later
  <2>2. CASE j.role = "taker"
    BY <1>1, <2>2 DEF Unadjusted, Later
  <2> QED  BY <2>1, <2>2
<1> HIDE DEF M, T, i
<1>5. ASSUME NEW o \in Orders
      PROVE  Unreduced(j)[o] =
               (IF Party(j.fills[i], j.role) = o THEN j.fills[i].quantity ELSE 0) + Unreduced(k)[o]
  <2>1. Unreduced(j)[o] = Quantity(j.fills, M, T, o)
    BY DEF Unreduced, M, T
  <2>2. Unreduced(k)[o] = Quantity(j.fills, IF j.role = "maker" THEN M \ {i} ELSE M,
                                            IF j.role = "taker" THEN T \ {i} ELSE T, o)
    BY <1>4 DEF Unreduced
  <2>3. i \in DOMAIN j.fills
    BY DEF i
  <2> QED  BY <1>1, <1>4, <2>1, <2>2, <2>3, OneHalf
<1> QED  BY <1>3, <1>5 DEF i

LEMMA SettledMovesLock ==
  ASSUME Serial, NEW account \in Solvent, NEW s \in Symbols, NEW order \in Order,
         NEW price \in Nat, NEW n \in Nat,
         CanSettle(account, Pair[s], order, n),
         order.side = "buy" => price <= order.price
  PROVE  \A x \in Assets : Settled(account, Pair[s], order, price, n).balances[x].locked =
           IF x = LockedAsset(Pair[s], order) THEN account.balances[x].locked - Needs(order, n)
           ELSE account.balances[x].locked
<1>1. Pair[s].base \in Assets /\ Pair[s].quote \in Assets  BY ExchangeAssumption
<1>2. order.price \in Nat  BY DEF Order
<1> DEFINE limit == order.price * n
           cost == price * n
<1>3. limit \in Nat /\ cost \in Nat  BY <1>2, ProductIsNatural
<1>4. order.side = "buy" => cost <= limit  BY <1>2, ProductIsMonotone
<1>5. CASE order.side = "buy"
  <2> DEFINE quote == Pair[s].quote
             base == Pair[s].base
             left == account.balances[quote].locked - limit
             paid == [account EXCEPT !.balances[quote].locked = left]
             back == account.balances[quote].available + (limit - cost)
             refunded == [paid EXCEPT !.balances[quote].available = back]
             gain == account.balances[base].available + n
  <2>1. left \in Amounts
    <3>1. left \in Nat
      BY <1>1, <1>3, <1>5, BalanceIsNatural DEF CanSettle, LockedAsset, Needs
    <3> QED  BY <3>1, AmountsClosed
  <2>2. back \in Amounts /\ gain \in Amounts
    <3>1. back \in Nat /\ gain \in Nat
      <4> HIDE DEF limit, cost
      <4> QED  BY <1>1, <1>3, <1>4, <1>5, BalanceIsNatural
    <3> QED  BY <3>1, AmountsClosed
  <2>3. Settled(account, Pair[s], order, price, n) =
          [account EXCEPT !.balances[quote].locked = @ - limit,
                          !.balances[quote].available = @ + (limit - cost),
                          !.balances[base].available = @ + n]
    BY <1>5 DEF Settled
  <2> HIDE DEF limit, cost
  <2>4. quote # base
    BY ExchangeAssumption
  <2>5. \/ Settled(account, Pair[s], order, price, n) =
             [refunded EXCEPT !.balances[base].available = gain]
    BY <1>1, <2>3, <2>4 DEF Solvent
  <2> HIDE DEF quote, base, left, back, gain
  <2>6. paid \in Solvent /\ \A x \in Assets :
          paid.balances[x].locked = IF x = quote THEN left ELSE account.balances[x].locked
    BY SMTT(40), <1>1, <2>1, LockedSet DEF quote
  <2> HIDE DEF paid
  <2>7. refunded \in Solvent /\ \A x \in Assets :
          refunded.balances[x].locked = paid.balances[x].locked
    BY <1>1, <2>2, <2>6, AvailableSet DEF quote
  <2> HIDE DEF refunded
  <2>8. \A x \in Assets : [refunded EXCEPT !.balances[base].available = gain].balances[x].locked =
          refunded.balances[x].locked
    BY <1>1, <2>2, <2>7, AvailableSet DEF base
  <2>9. LockedAsset(Pair[s], order) = quote /\ Needs(order, n) = limit
    BY <1>5 DEF LockedAsset, Needs, quote, limit
  <2> QED  BY <2>5, <2>6, <2>7, <2>8, <2>9 DEF left
<1>6. CASE order.side # "buy"
  <2> DEFINE quote == Pair[s].quote
             base == Pair[s].base
             left == account.balances[base].locked - n
             paid == [account EXCEPT !.balances[base].locked = left]
             gain == account.balances[quote].available + cost
  <2>1. left \in Amounts
    <3>1. left \in Nat
      BY <1>1, <1>6, BalanceIsNatural DEF CanSettle, LockedAsset, Needs
    <3> QED  BY <3>1, AmountsClosed
  <2>2. gain \in Amounts
    <3>1. gain \in Nat
      <4> HIDE DEF cost
      <4> QED  BY <1>1, <1>3, BalanceIsNatural
    <3> QED  BY <3>1, AmountsClosed
  <2>3. Settled(account, Pair[s], order, price, n) =
          [account EXCEPT !.balances[base].locked = @ - n,
                          !.balances[quote].available = @ + cost]
    BY <1>6 DEF Settled
  <2> HIDE DEF cost
  <2>4. quote # base
    BY ExchangeAssumption
  <2>5. Settled(account, Pair[s], order, price, n) =
          [paid EXCEPT !.balances[quote].available = gain]
    BY <1>1, <2>3, <2>4 DEF Solvent
  <2> HIDE DEF quote, base, left, gain
  <2>6. paid \in Solvent /\ \A x \in Assets :
          paid.balances[x].locked = IF x = base THEN left ELSE account.balances[x].locked
    BY <1>1, <2>1, LockedSet DEF base
  <2> HIDE DEF paid
  <2>7. \A x \in Assets : [paid EXCEPT !.balances[quote].available = gain].balances[x].locked =
          paid.balances[x].locked
    BY <1>1, <2>2, <2>6, AvailableSet DEF quote
  <2>8. LockedAsset(Pair[s], order) = base /\ Needs(order, n) = n
    BY <1>6 DEF LockedAsset, Needs, base
  <2> QED  BY <2>5, <2>6, <2>7, <2>8 DEF left
<1> QED  BY <1>5, <1>6

(* The order whose half of the fill is being applied. *)
LEMMA SubjectFacts ==
  ASSUME FundsInvariant, NEW r \in Requests, job[r].pc \in Applying, job[r].pc \in InFill
  PROVE  LET x == Subject(r) IN
         /\ job[r].at \in DOMAIN job[r].fills
         /\ x \in Orders /\ orders[x] \in Order /\ orders[x] # None /\ ~Unsent(x)
         /\ orders[x].symbol = orders[r].symbol /\ orders[r].symbol \in Symbols
         /\ orders[x].account \in Accounts
         /\ Party(job[r].fills[job[r].at], job[r].role) = x
         /\ Fill(r).quantity \in Nat /\ Fill(r).price \in Nat
         /\ orders[x].side = "buy" => Fill(r).price <= orders[x].price
         /\ orders[x].account \in {orders[Fill(r).maker].account, orders[r].account}
<1>1. /\ TypeInvariant /\ Keeps(r) /\ job[r] \in Job /\ Local(r) /\ r \in Orders
      /\ orders[r] \in Order /\ orders[r] # None
      /\ DOMAIN job[r].fills = 1..Len(job[r].fills) /\ job[r].role \in {"maker", "taker"}
  BY ApplyingKnown
<1>2. job[r].at \in 1..Len(job[r].fills) /\ job[r].at \in DOMAIN job[r].fills
  BY <1>1 DEF Local, Positioned, InFill
<1>3. /\ Fill(r) \in Trade /\ orders[Fill(r).maker] \in Order /\ orders[Fill(r).maker] # None
      /\ Fill(r).price = orders[Fill(r).maker].price /\ Crosses(orders, r, Fill(r).maker)
      /\ Fill(r).taker = r
  BY <1>1, <1>2, FillTyped, MakersExist DEF Fill
<1>4. ~Unsent(Fill(r).maker) /\ orders[Fill(r).maker].symbol = orders[r].symbol
  BY <1>1, <1>2 DEF Keeps, Matched, Fill
<1>5. ~Unsent(r)
  <2>1. job[r].pc \in Submitted
    BY DEF Submitted, Applying, InFill
  <2>2. orders[r].sequence > 0 /\ orders[r].sequence \in Nat
    BY <1>1, <2>1, KnownOf DEF Local, Phased, Busy, Submitted, InFill, WithRow, Order
  <2> QED  BY <2>2 DEF Unsent
<1>6. Fill(r).quantity \in Nat /\ Fill(r).price \in Nat /\ Fill(r).maker \in Orders
  BY <1>3 DEF Trade
<1>7. orders[r].symbol \in Symbols
  BY <1>1 DEF Order
<1>8. orders[r].account \in Accounts /\ orders[Fill(r).maker].account \in Accounts
  BY <1>1, <1>3 DEF Order
<1>9. orders[r].side = "buy" => Fill(r).price <= orders[r].price
  BY <1>3, <1>6 DEF Crosses
<1>10. orders[Fill(r).maker].side = "buy" => Fill(r).price <= orders[Fill(r).maker].price
  BY <1>3, <1>6
<1>11. CASE job[r].role = "maker"
  <2>1. Subject(r) = Fill(r).maker /\ Party(job[r].fills[job[r].at], job[r].role) = Fill(r).maker
    BY <1>11 DEF Subject, Party, Fill
  <2> QED  BY <1>2, <1>3, <1>4, <1>6, <1>7, <1>8, <1>10, <2>1
<1>12. CASE job[r].role = "taker"
  <2>1. Subject(r) = r /\ Party(job[r].fills[job[r].at], job[r].role) = r
    BY <1>3, <1>12 DEF Subject, Party, Fill
  <2> QED  BY <1>1, <1>2, <1>5, <1>6, <1>7, <1>8, <1>9, <2>1
<1> QED  BY <1>1, <1>11, <1>12

(* The funds for a fill that is being settled are there. *)
LEMMA FillIsFunded ==
  ASSUME Serial, Funded, FundsInvariant, Turns, NEW r \in Requests, At(r, "settle"),
         Unpaid(job[r])[Subject(r)] >= Fill(r).quantity
  PROVE  LET o == orders[Subject(r)] IN CanSettle(wallet[o.account], MyPair(r), o, Fill(r).quantity)
<1> DEFINE x == Subject(r)
           o == orders[x]
           a == o.account
           n == Fill(r).quantity
           asset == LockedAsset(MyPair(r), o)
           p == Unpaid(job[r])
<1>1. job[r].pc \in Applying /\ job[r].pc \in InFill
  BY DEF At, Applying, InFill
<1>2. TypeInvariant /\ Money(r) /\ job[r] \in Job
  BY <1>1, ApplyingKnown
<1>3. /\ x \in Orders /\ o \in Order /\ o # None /\ ~Unsent(x)
      /\ o.symbol = orders[r].symbol /\ orders[r].symbol \in Symbols /\ a \in Accounts /\ n \in Nat
  BY <1>1, SubjectFacts
<1>4. p \in [Orders -> Nat] /\ Locked(p) /\ p[x] \in Nat
  BY <1>2, <1>3, PendingTyped DEF Money
<1>5. asset \in Assets
  BY <1>3, LockedAssetIsAsset DEF MyPair
<1>6. Claim(p, x, a, asset) = Needs(o, o.remaining) + Needs(o, p[x])
  BY <1>3 DEF Claim, LocksOf, Due, MyPair
<1>7. Claim(p, x, a, asset) <= wallet[a].balances[asset].locked
  <2>1. Busy(r) /\ job[r].pc \notin {"checkReserved", "clampReserved"}
    BY DEF At, Busy
  <2>2. NoDebt
    BY <1>2, <2>1, NobodyOwes DEF TypeInvariant, Typed
  <2> HIDE DEF p, x, a, asset
  <2> QED  BY <1>2, <1>3, <1>4, <1>5, <2>2, ClaimIsLocked
<1>8. wallet[a].balances[asset].locked \in Nat
  <2>1. wallet[a] \in Solvent
    BY <1>2, <1>3 DEF TypeInvariant, Typed
  <2> QED  BY <1>5, <2>1, BalanceIsNatural
<1>9. /\ Needs(o, o.remaining) \in Nat /\ Needs(o, n) \in Nat /\ Needs(o, p[x] - n) \in Nat
      /\ Needs(o, p[x]) = Needs(o, p[x] - n) + Needs(o, n)
  <2>1. PICK order \in Order : order = o
    BY <1>3
  <2>2. PICK m \in Nat : m = p[x] - n
    BY <1>3, <1>4
  <2>3. PICK i \in Nat : i = n
    BY <1>3
  <2>4. p[x] = m + i
    BY <1>3, <1>4, <2>2, <2>3
  <2> HIDE DEF o, p, x, n
  <2>5. /\ Needs(order, m) \in Nat /\ Needs(order, i) \in Nat
        /\ Needs(order, m + i) = Needs(order, m) + Needs(order, i)
        /\ Needs(order, order.remaining) \in Nat
    BY NeedsParts
  <2> QED  BY <2>1, <2>2, <2>3, <2>4, <2>5
<1> HIDE DEF o, p, x, n, asset, a
<1>10. wallet[a].balances[asset].locked >= Needs(o, n)
  BY <1>6, <1>7, <1>8, <1>9
<1> QED  BY <1>10 DEF CanSettle, o, x, n, asset, a

LEMMA SettleKeepsFunds ==
  ASSUME Serial, Funded, FundsInvariant, Turns, TypeInvariant', NEW r \in Requests, Settle(r)
  PROVE  FundsInvariant'
<1> DEFINE x == Subject(r)
           o == orders[x]
           a == o.account
           f == Fill(r)
           asset == LockedAsset(MyPair(r), o)
           next == Settled(wallet[a], MyPair(r), o, f.price, f.quantity)
<1>1. /\ At(r, "settle") /\ job[r].pc \in Applying /\ job[r].pc \in InFill
      /\ orders' = orders /\ queue' = queue
  BY DEF Settle, At, Applying, InFill, book
<1>2. /\ TypeInvariant /\ Labelled /\ Money(r) /\ job \in [Requests -> Job] /\ job[r] \in Job
      /\ job[r].role \in {"maker", "taker"} /\ job'[r] \in Job
      /\ wallet \in [Accounts -> Solvent] /\ r \in Orders
      /\ \A b \in Accounts : job[r].accounts[b] # None /\ b \notin Dirty(r) =>
           job[r].accounts[b] = wallet[b]
  BY <1>1, ApplyingKnown DEF TypeInvariant, Typed
<1>3. /\ job[r].at \in DOMAIN job[r].fills
      /\ x \in Orders /\ o \in Order /\ o # None /\ ~Unsent(x)
      /\ o.symbol = orders[r].symbol /\ orders[r].symbol \in Symbols /\ a \in Accounts
      /\ Party(job[r].fills[job[r].at], job[r].role) = x
      /\ f.quantity \in Nat /\ f.price \in Nat /\ (o.side = "buy" => f.price <= o.price)
      /\ a \in {orders[f.maker].account, orders[r].account}
  BY <1>1, SubjectFacts
<1> DEFINE to == IF job[r].role = "maker" THEN [job[r] EXCEPT !.role = "taker"]
                 ELSE [job[r] EXCEPT !.role = "maker", !.pc = "loadReserved"]
<1>4. /\ to \in Job /\ to.fills = job[r].fills /\ to.at = job[r].at
      /\ to.accounts = job[r].accounts /\ to.pc \in {"settle", "loadReserved"}
      /\ \/ job[r].role = "maker" /\ to.pc = "settle" /\ to.role = "taker"
         \/ job[r].role = "taker" /\ to.pc = "loadReserved" /\ to.role = "maker"
  <2>1. CASE job[r].role = "maker"
    BY <1>1, <1>2, <2>1 DEF Job, At
  <2>2. CASE job[r].role = "taker"
    BY ZenonT(40), <1>1, <1>2, <2>2 DEF Job, Labels, Submitted, InFill
  <2> QED  BY <1>2, <2>1, <2>2
<1>5. /\ Unreduced(to) = Unreduced(job[r])
      /\ \A y \in Orders : Unpaid(job[r])[y] = (IF x = y THEN f.quantity ELSE 0) + Unpaid(to)[y]
  <2> HIDE DEF to
  <2>1. /\ Unreduced(to) = Unreduced(job[r])
        /\ \A y \in Orders : Unpaid(job[r])[y] =
             (IF Party(job[r].fills[job[r].at], job[r].role) = y
                THEN job[r].fills[job[r].at].quantity ELSE 0) + Unpaid(to)[y]
    BY <1>1, <1>2, <1>3, <1>4, SettleOneHalf DEF At
  <2> QED  BY <1>3, <2>1 DEF Fill
<1> HIDE DEF to
<1>6. PICK p \in [Orders -> Nat], q \in [Orders -> Nat] : p = Unpaid(job[r]) /\ q = Unpaid(to)
  BY <1>2, <1>4, PendingTyped
<1>7. /\ \A y \in Orders \ {x} : p[y] = q[y]
      /\ p[x] = f.quantity + q[x] /\ q[x] \in Nat
  BY <1>3, <1>5, <1>6
<1>8. CanSettle(wallet[a], MyPair(r), o, f.quantity)
  <2>1. Unpaid(job[r])[x] >= f.quantity
    BY <1>3, <1>6, <1>7
  <2> QED  BY <1>1, <2>1, FillIsFunded
<1>9. wallet' = [wallet EXCEPT ![a] = next] /\ job' = [job EXCEPT ![r] = to]
  BY <1>2, <1>8 DEF Settle, to
<1>10. job'[r] = to /\ \A y \in Requests \ {r} : job'[y] = job[y]
  BY <1>2, <1>9
<1>11. /\ wallet'[a] = next /\ \A b \in Accounts \ {a} : wallet'[b] = wallet[b]
       /\ next.id = wallet[a].id /\ wallet[a] \in Solvent
  <2>1. wallet[a] \in Solvent
    BY <1>2, <1>3
  <2>2. next.id = wallet[a].id
    BY <2>1, SettledKeepsVersion
  <2> HIDE DEF next
  <2> QED  BY <1>2, <1>3, <1>9, <2>1, <2>2
<1>12. \A y \in Assets : next.balances[y].locked =
         IF y = asset THEN wallet[a].balances[y].locked - Needs(o, f.quantity)
         ELSE wallet[a].balances[y].locked
  <2> HIDE DEF o, a, f, x
  <2> QED  BY <1>3, <1>8, <1>11, SettledMovesLock DEF MyPair
<1>13. /\ Needs(o, p[x]) = Needs(o, f.quantity) + Needs(o, q[x])
       /\ Needs(o, f.quantity) \in Nat /\ Needs(o, q[x]) \in Nat /\ Needs(o, o.remaining) \in Nat
  <2>1. PICK n \in Nat, m \in Nat, k \in Nat : n = f.quantity /\ m = q[x] /\ k = p[x] /\ k = n + m
    BY <1>3, <1>7
  <2>2. PICK order \in Order : order = o
    BY <1>3
  <2> HIDE DEF o, f, x
  <2>3. /\ Needs(order, n + m) = Needs(order, n) + Needs(order, m)
        /\ Needs(order, n) \in Nat /\ Needs(order, m) \in Nat
        /\ Needs(order, order.remaining) \in Nat
    BY NeedsParts
  <2> QED  BY <2>1, <2>2, <2>3
<1> HIDE DEF next
<1>w. PICK w \in Orders : w = x
  BY <1>3
<1>14. \A y \in Orders \ {w}, b \in Accounts, z \in Assets : Claim(q, y, b, z)' = Claim(p, y, b, z)
  BY <1>1, <1>7, <1>w DEF Claim, LocksOf, Due, Unsent
<1>15. ASSUME NEW b \in Accounts, NEW z \in Assets
       PROVE  wallet'[b].balances[z].locked =
                wallet[b].balances[z].locked - Claim(p, w, b, z) + Claim(q, w, b, z)'
  <2>1. (LocksOf(w, b, z) <=> b = a /\ z = asset) /\ (LocksOf(w, b, z)' <=> LocksOf(w, b, z))
    BY <1>1, <1>3, <1>w DEF LocksOf, MyPair
  <2>7. ~Unsent(w) /\ ~Unsent(w)'
    BY <1>1, <1>3, <1>w DEF Unsent
  <2>2. Claim(p, w, b, z) = IF b = a /\ z = asset
                              THEN Needs(o, o.remaining) + Needs(o, p[x]) ELSE 0
    BY <1>w, <2>1, <2>7 DEF Claim, Due
  <2>3. Claim(q, w, b, z)' = IF b = a /\ z = asset
                               THEN Needs(o, o.remaining) + Needs(o, q[x]) ELSE 0
    BY <1>1, <1>w, <2>1, <2>7 DEF Claim, Due
  <2>4. wallet[b].balances[z].locked \in Nat
    <3>1. wallet[b] \in Solvent
      BY <1>2
    <3> QED  BY <3>1, BalanceIsNatural
  <2> HIDE DEF o, a, x, f, asset
  <2>5. CASE b = a
    BY <1>11, <1>12, <1>13, <2>2, <2>3, <2>4, <2>5
  <2>6. CASE b # a
    BY <1>11, <1>13, <2>2, <2>3, <2>4, <2>6
  <2> QED  BY <2>5, <2>6
<1>16. Locked(p) /\ Backed(Unreduced(job[r]))
  BY <1>2, <1>6 DEF Money
<1>17. Locked(q)'
  <2> QED  BY <1>2, <1>14, <1>15, <1>16, LockedMoves
<1>18. PICK u : u = Unreduced(job[r])
  OBVIOUS
<1>19. Backed(u)'
  BY <1>1, <1>16, <1>18 DEF Backed, Unsent
<1>20. Money(r)'
  BY <1>5, <1>6, <1>10, <1>17, <1>18, <1>19 DEF Money
<1>21. Symbolic /\ Sequenced /\ Renamed
  BY <1>1, <1>11 DEF Symbolic, Sequenced, Renamed
<1>22. Labelled'
  BY <1>1, <1>2, <1>21, LabelledStays
<1>23. Dirty(r) = {orders[f.maker].account, orders[r].account}
  <2>1. job[r].pc # "collect"
    BY <1>1 DEF At
  <2>2. Dirty(r) = {orders[Fill(r).maker].account, orders[r].account}
    BY ZenonT(40), <1>1, <1>3, <2>1 DEF Dirty, At
  <2> QED  BY <2>2
<1>24. Dirty(r)' = {orders[f.maker].account, orders[r].account}
  BY <1>1, <1>3, <1>4, <1>10 DEF Dirty, At, Applying, Fill
<1>25. (\A b \in Accounts : job[r].accounts[b] # None /\ b \notin Dirty(r) =>
          job[r].accounts[b] = wallet[b])'
  BY <1>2, <1>3, <1>4, <1>10, <1>11, <1>23, <1>24
<1>26. job'[r].pc \in (Applying \ {"match"}) \cup {"accounts"} /\ job'[r].fills = job[r].fills
  BY <1>4, <1>10 DEF Applying
<1>27. Steady(r)'
  BY <1>4, <1>10 DEF Steady, At, Releasing
<1> QED  BY <1>1, <1>10, <1>20, <1>21, <1>22, <1>25, <1>26, <1>27, SettlingStep

LEMMA StoreReservedKeepsFunds ==
  ASSUME FundsInvariant, TypeInvariant', NEW r \in Requests, StoreReserved(r) PROVE FundsInvariant'
<1> DEFINE x == Subject(r)
           n == Fill(r).quantity
           cut == Adjusted(job[r].seen, Needs(orders[x], n))
           to == [job[r] EXCEPT !.seen = 0, !.pc = "checkReserved"]
<1>1. /\ At(r, "storeReserved") /\ job[r].pc \in Applying
      /\ job' = [job EXCEPT ![r] = to]
      /\ orders' = [orders EXCEPT ![x] = [orders[x] EXCEPT !.reserved = cut]]
      /\ wallet' = wallet /\ queue' = queue
  BY DEF StoreReserved, At, Applying, book
<1>2. /\ TypeInvariant /\ Labelled /\ Money(r) /\ job \in [Requests -> Job] /\ job[r] \in Job
      /\ job'[r] \in Job /\ r \in Orders /\ job[r].role \in {"maker", "taker"}
      /\ orders \in [Orders -> Order \cup {None}]
      /\ \A a \in Accounts : job[r].accounts[a] # None /\ a \notin Dirty(r) =>
           job[r].accounts[a] = wallet[a]
  BY <1>1, ApplyingKnown DEF TypeInvariant, Typed
<1>3. /\ job[r].at \in DOMAIN job[r].fills
      /\ x \in Orders /\ orders[x] \in Order /\ orders[x] # None /\ ~Unsent(x)
      /\ Party(job[r].fills[job[r].at], job[r].role) = x /\ n \in Nat
  BY <1>1, SubjectFacts DEF At, InFill
<1>4. job[r].seen = orders[x].reserved
  BY <1>1, ApplyingKnown DEF Keeps, Matched, Steady
<1>5. /\ to.pc = "checkReserved" /\ to.fills = job[r].fills /\ to.at = job[r].at
      /\ to.role = job[r].role /\ to.accounts = job[r].accounts
  BY <1>2 DEF Job
<1> HIDE DEF to
<1>6. job'[r] = to /\ \A q \in Requests \ {r} : job'[q] = job[q]
  BY <1>1, <1>2
<1>8. /\ Unpaid(to) = Unpaid(job[r])
      /\ \A y \in Orders : Unreduced(job[r])[y] = (IF x = y THEN n ELSE 0) + Unreduced(to)[y]
  <2>1. /\ Unpaid(to) = Unpaid(job[r])
        /\ \A y \in Orders : Unreduced(job[r])[y] =
             (IF Party(job[r].fills[job[r].at], job[r].role) = y
                THEN job[r].fills[job[r].at].quantity ELSE 0) + Unreduced(to)[y]
    BY <1>1, <1>2, <1>3, <1>5, <1>6, AdjustOneHalf DEF At
  <2> QED  BY <1>3, <2>1 DEF Fill
<1>9. PICK u \in [Orders -> Nat], v \in [Orders -> Nat] : u = Unreduced(job[r]) /\ v = Unreduced(to)
  BY <1>2, <1>6, PendingTyped
<1>10. PICK w \in Orders, order \in Order, m \in Nat : w = x /\ order = orders[x] /\ m = n
  BY <1>3
<1> HIDE DEF x, n
<1>11. (\A y \in Orders \ {w} : u[y] = v[y]) /\ u[w] = m + v[w] /\ v[w] \in Nat
  BY <1>8, <1>9, <1>10
<1>12. /\ Needs(order, m) \in Nat /\ Needs(order, v[w]) \in Nat
       /\ Needs(order, u[w]) = Needs(order, m) + Needs(order, v[w])
       /\ Needs(order, order.remaining) \in Nat
  <2>1. PICK k \in Nat : k = v[w]
    BY <1>11
  <2>2. /\ Needs(order, m) \in Nat /\ Needs(order, k) \in Nat
        /\ Needs(order, m + k) = Needs(order, m) + Needs(order, k)
        /\ Needs(order, order.remaining) \in Nat
    BY NeedsParts
  <2> QED  BY <1>11, <2>1, <2>2
<1>13. order.reserved \in Int /\ cut = order.reserved - Needs(order, m)
  BY <1>4, <1>10 DEF Adjusted, Order
<1> HIDE DEF cut
<1>14. /\ \A y \in Orders \ {w} : orders'[y] = orders[y]
       /\ orders'[w] = [order EXCEPT !.reserved = cut]
  BY <1>1, <1>2, <1>10
<1>15. /\ orders'[w].account = order.account /\ orders'[w].symbol = order.symbol
       /\ orders'[w].side = order.side /\ orders'[w].price = order.price
       /\ orders'[w].remaining = order.remaining /\ orders'[w].sequence = order.sequence
       /\ orders'[w].reserved = cut
  BY <1>14 DEF Order
<1>16. orders'[w] # None
  <2>1. cut \in Int
    BY <1>12, <1>13
  <2>2. orders'[w] \in Order
    BY <1>14, <2>1 DEF Order
  <2> QED  BY <2>2, ExchangeAssumption
<1>18. PICK p : p = Unpaid(job[r])
  OBVIOUS
<1>19. Locked(p) /\ Backed(u)
  BY <1>2, <1>9, <1>18 DEF Money
<1>20. /\ order = orders[w] /\ order # None /\ ~Unsent(w) /\ ~Unsent(w)'
       /\ \A i : Needs(orders'[w], i) = Needs(order, i)
  BY <1>3, <1>10, <1>15 DEF Unsent, Needs
<1>21. Locked(p)'
  <2>1. ASSUME NEW y \in Orders, NEW a \in Accounts, NEW asset \in Assets
        PROVE  Claim(p, y, a, asset)' = Claim(p, y, a, asset)
    <3>1. CASE y = w
      <4>1. LocksOf(w, a, asset)' <=> LocksOf(w, a, asset)
        BY <1>15, <1>16, <1>20 DEF LocksOf, LockedAsset
      <4>2. Due(p, w)' = Due(p, w)
        BY <1>15, <1>20 DEF Due
      <4> QED  BY <3>1, <4>1, <4>2 DEF Claim
    <3>2. CASE y # w
      BY <1>14, <3>2 DEF Claim, LocksOf, Due, Unsent
    <3> QED  BY <3>1, <3>2
  <2> QED  BY <1>1, <1>19, <2>1, LockedEven
<1>22. Backed(v)'
  <2> SUFFICES ASSUME NEW y \in Orders, orders'[y] # None, ~Unsent(y)'
               PROVE  LET needed == Needs(orders'[y], orders'[y].remaining) + Needs(orders'[y], v[y]) IN
                      orders'[y].reserved <= needed /\ (Exact => orders'[y].reserved = needed)
    BY DEF Backed, Exact
  <2>1. CASE y = w
    <3>1. LET needed == Needs(order, order.remaining) + Needs(order, u[w]) IN
          order.reserved <= needed /\ (Exact => order.reserved = needed)
      BY <1>19, <1>20 DEF Backed
    <3>2. LET needed == Needs(order, order.remaining) + Needs(order, v[w]) IN
          cut <= needed /\ (Exact => cut = needed)
      BY <1>12, <1>13, <3>1
    <3> QED  BY <1>15, <1>20, <2>1, <3>2
  <2>2. CASE y # w
    BY <1>11, <1>14, <1>19, <2>2 DEF Backed, Unsent
  <2> QED  BY <2>1, <2>2
<1>23. Money(r)'
  BY <1>6, <1>8, <1>9, <1>18, <1>21, <1>22 DEF Money
<1>24. Symbolic /\ Sequenced /\ Renamed
  BY <1>1, <1>14, <1>15, <1>20 DEF Symbolic, Sequenced, Renamed
<1>25. Labelled'
  BY <1>1, <1>2, <1>24, LabelledStays
<1>26. Dirty(r) = {orders[Fill(r).maker].account, orders[r].account}
  BY <1>1, <1>3 DEF Dirty, At
<1>27. Dirty(r)' = {orders'[Fill(r).maker].account, orders'[r].account}
  BY <1>3, <1>5, <1>6 DEF Dirty, At, Applying, Fill
<1>28. \A y \in Orders : orders'[y].account = orders[y].account
  BY <1>14, <1>15, <1>20
<1>29. Fill(r).maker \in Orders
  BY <1>2, <1>3, MakersExist DEF Fill
<1>30. Dirty(r)' = Dirty(r)
  BY <1>2, <1>26, <1>27, <1>28, <1>29
<1>31. (\A a \in Accounts : job[r].accounts[a] # None /\ a \notin Dirty(r) =>
          job[r].accounts[a] = wallet[a])'
  BY <1>1, <1>2, <1>5, <1>6, <1>30
<1>32. job'[r].pc \in (Applying \ {"match"}) \cup {"accounts"} /\ job'[r].fills = job[r].fills
  BY <1>5, <1>6 DEF Applying
<1>33. Steady(r)'
  BY <1>5, <1>6 DEF Steady, At, Releasing
<1> QED  BY <1>1, <1>6, <1>23, <1>24, <1>25, <1>31, <1>32, <1>33, SettlingStep

(* The adjustment of one order is over. *)
LEMMA AfterAdjustGoes ==
  ASSUME FundsInvariant, NEW r \in Requests, job[r].pc \in {"checkReserved", "clampReserved"},
         AfterAdjust(r)
  PROVE  /\ job'[r].fills = job[r].fills /\ job'[r].at = job[r].at
         /\ job'[r].accounts = job[r].accounts
         /\ job'[r].pc \in {"loadReserved", "loadStatus"}
         /\ \A q \in Requests \ {r} : job'[q] = job[q]
         /\ Unpaid(job'[r]) = Unpaid(job[r]) /\ Unreduced(job'[r]) = Unreduced(job[r])
         /\ Steady(r)'
<1>1. job[r].pc \in Applying
  BY DEF Applying
<1>2. job \in [Requests -> Job] /\ job[r] \in Job /\ job[r].role \in {"maker", "taker"}
  BY <1>1, ApplyingKnown
<1>3. /\ job'[r].fills = job[r].fills /\ job'[r].at = job[r].at
      /\ job'[r].accounts = job[r].accounts
      /\ \/ /\ job[r].role = "maker"
            /\ job'[r].role = "taker" /\ job'[r].pc = "loadReserved"
         \/ /\ job[r].role = "taker"
            /\ job'[r].role = "maker" /\ job'[r].pc = "loadStatus"
      /\ \A q \in Requests \ {r} : job'[q] = job[q]
  BY <1>2 DEF AfterAdjust, Job
<1>4. \A i \in DOMAIN job[r].fills, who \in {"maker", "taker"} :
        /\ i \in Unsettled(job'[r], who) <=> i \in Unsettled(job[r], who)
        /\ i \in Unadjusted(job'[r], who) <=> i \in Unadjusted(job[r], who)
  BY <1>1, <1>3 DEF Unsettled, Unadjusted, Later, Applying
<1>5. job'[r].pc \in Applying
  BY <1>3 DEF Applying
<1>6. Unpaid(job'[r]) = Unpaid(job[r]) /\ Unreduced(job'[r]) = Unreduced(job[r])
  BY ZenonT(40), <1>1, <1>3, <1>4, <1>5, SamePending
<1>7. Steady(r)'
  BY <1>3 DEF Steady, At, Releasing
<1> QED  BY <1>3, <1>6, <1>7

LEMMA CheckReservedKeepsFunds ==
  ASSUME FundsInvariant, TypeInvariant', NEW r \in Requests, CheckReserved(r)
  PROVE  FundsInvariant'
<1> DEFINE x == Subject(r)
<1>1. /\ At(r, "checkReserved") /\ job[r].pc \in Applying /\ job[r].pc \in InFill
      /\ UNCHANGED <<wallet, orders>> /\ queue' = queue
      /\ IF orders[x].reserved < 0 THEN Goto(r, "clampReserved") ELSE AfterAdjust(r)
  BY DEF CheckReserved, At, Applying, InFill, memory, book
<1>2. /\ TypeInvariant /\ Labelled /\ job \in [Requests -> Job] /\ job[r] \in Job
      /\ job[r].at \in DOMAIN job[r].fills
      /\ \A a \in Accounts : job[r].accounts[a] # None /\ a \notin Dirty(r) =>
           job[r].accounts[a] = wallet[a]
  BY <1>1, ApplyingKnown, SubjectFacts
<1>3. /\ job'[r].fills = job[r].fills /\ job'[r].at = job[r].at
      /\ job'[r].accounts = job[r].accounts
      /\ job'[r].pc \in {"loadReserved", "loadStatus", "clampReserved"}
      /\ \A q \in Requests \ {r} : job'[q] = job[q]
      /\ Unpaid(job'[r]) = Unpaid(job[r]) /\ Unreduced(job'[r]) = Unreduced(job[r])
      /\ Steady(r)'
  <2>1. CASE orders[x].reserved < 0
    <3>1. Goto(r, "clampReserved")
      BY <1>1, <2>1
    <3>2. /\ job'[r].pc = "clampReserved" /\ job'[r].fills = job[r].fills
          /\ job'[r].at = job[r].at /\ job'[r].role = job[r].role
          /\ job'[r].accounts = job[r].accounts
          /\ \A q \in Requests \ {r} : job'[q] = job[q]
      BY <1>2, <3>1 DEF Goto, Job
    <3>3. \A i \in DOMAIN job[r].fills, who \in {"maker", "taker"} :
            /\ i \in Unsettled(job'[r], who) <=> i \in Unsettled(job[r], who)
            /\ i \in Unadjusted(job'[r], who) <=> i \in Unadjusted(job[r], who)
      BY <1>1, <3>2 DEF At, Unsettled, Unadjusted, Later, Applying
    <3>4. Unpaid(job'[r]) = Unpaid(job[r]) /\ Unreduced(job'[r]) = Unreduced(job[r])
      BY <1>1, <3>2, <3>3, SamePending DEF Applying
    <3>5. Subject(r)' = x
      BY <3>2 DEF Subject, Fill
    <3>6. Steady(r)'
      BY <1>1, <2>1, <3>2, <3>5 DEF Steady, At, Releasing
    <3> QED  BY <3>2, <3>4, <3>6
  <2>2. CASE ~(orders[x].reserved < 0)
    BY <1>1, <2>2, AfterAdjustGoes DEF At
  <2> QED  BY <2>1, <2>2
<1>4. MoneyStands /\ Labelled'
  BY SMTT(40), <1>1, <1>2, IdleMoney, LabelledStays
<1>5. Dirty(r)' = Dirty(r)
  BY ZenonT(40), <1>1, <1>2, <1>3 DEF Dirty, At, Applying, Fill
<1>6. (\A a \in Accounts : job[r].accounts[a] # None /\ a \notin Dirty(r) =>
         job[r].accounts[a] = wallet[a])'
  BY <1>1, <1>2, <1>3, <1>5
<1>7. job'[r].pc \in (Applying \ {"match"}) \cup {"accounts"}
  BY <1>3 DEF Applying
<1> QED  BY <1>1, <1>3, <1>4, <1>6, <1>7, StandingStep

(* Less than nothing becomes nothing, which is still no more than needed. *)
LEMMA ClampReservedKeepsFunds ==
  ASSUME FundsInvariant, TypeInvariant', NEW r \in Requests, ClampReserved(r)
  PROVE  FundsInvariant'
<1> DEFINE x == Subject(r)
<1>1. /\ At(r, "clampReserved") /\ job[r].pc \in Applying /\ job[r].pc \in InFill
      /\ orders' = [orders EXCEPT ![x] = [orders[x] EXCEPT !.reserved = 0]]
      /\ wallet' = wallet /\ queue' = queue /\ AfterAdjust(r)
  BY DEF ClampReserved, At, Applying, InFill, book
<1>2. /\ TypeInvariant /\ Labelled /\ Money(r) /\ Keeps(r) /\ job[r] \in Job
      /\ orders \in [Orders -> Order \cup {None}] /\ r \in Orders
      /\ \A a \in Accounts : job[r].accounts[a] # None /\ a \notin Dirty(r) =>
           job[r].accounts[a] = wallet[a]
  BY <1>1, ApplyingKnown DEF TypeInvariant, Typed
<1>3. /\ job[r].at \in DOMAIN job[r].fills
      /\ x \in Orders /\ orders[x] \in Order /\ orders[x] # None /\ ~Unsent(x)
  BY <1>1, SubjectFacts
<1>4. orders[x].reserved < 0
  BY <1>1, <1>2 DEF Keeps, Matched, Steady
<1>5. /\ job'[r].fills = job[r].fills /\ job'[r].at = job[r].at
      /\ job'[r].accounts = job[r].accounts
      /\ job'[r].pc \in {"loadReserved", "loadStatus"}
      /\ \A q \in Requests \ {r} : job'[q] = job[q]
      /\ Unpaid(job'[r]) = Unpaid(job[r]) /\ Unreduced(job'[r]) = Unreduced(job[r])
      /\ Steady(r)'
  BY <1>1, AfterAdjustGoes DEF At
<1>6. PICK w \in Orders, order \in Order : w = x /\ order = orders[x]
  BY <1>3
<1> HIDE DEF x
<1>7. /\ \A y \in Orders \ {w} : orders'[y] = orders[y]
      /\ orders'[w] = [order EXCEPT !.reserved = 0]
  BY <1>1, <1>2, <1>6
<1>8. /\ orders'[w].account = order.account /\ orders'[w].symbol = order.symbol
      /\ orders'[w].side = order.side /\ orders'[w].price = order.price
      /\ orders'[w].remaining = order.remaining /\ orders'[w].sequence = order.sequence
      /\ orders'[w].reserved = 0
  BY <1>7 DEF Order
<1>9. orders'[w] # None
  <2>1. orders'[w] \in Order
    BY <1>7 DEF Order
  <2> QED  BY <2>1, ExchangeAssumption
<1>10. /\ order = orders[w] /\ order # None /\ ~Unsent(w) /\ ~Unsent(w)'
       /\ \A i : Needs(orders'[w], i) = Needs(order, i)
  BY <1>3, <1>6, <1>8 DEF Unsent, Needs
<1>11. PICK p \in [Orders -> Nat], u \in [Orders -> Nat] : p = Unpaid(job[r]) /\ u = Unreduced(job[r])
  BY <1>2, PendingTyped
<1>12. Locked(p) /\ Backed(u)
  BY <1>2, <1>11 DEF Money
<1>13. Locked(p)'
  <2>1. ASSUME NEW y \in Orders, NEW a \in Accounts, NEW asset \in Assets
        PROVE  Claim(p, y, a, asset)' = Claim(p, y, a, asset)
    <3>1. CASE y = w
      <4>1. LocksOf(w, a, asset)' <=> LocksOf(w, a, asset)
        BY <1>8, <1>9, <1>10 DEF LocksOf, LockedAsset
      <4>2. Due(p, w)' = Due(p, w)
        BY <1>8, <1>10 DEF Due
      <4> QED  BY <3>1, <4>1, <4>2 DEF Claim
    <3>2. CASE y # w
      BY <1>7, <3>2 DEF Claim, LocksOf, Due, Unsent
    <3> QED  BY <3>1, <3>2
  <2> QED  BY <1>1, <1>12, <2>1, LockedEven
<1>14. Backed(u)'
  <2> SUFFICES ASSUME NEW y \in Orders, orders'[y] # None, ~Unsent(y)'
               PROVE  LET needed == Needs(orders'[y], orders'[y].remaining) + Needs(orders'[y], u[y]) IN
                      orders'[y].reserved <= needed /\ (Exact => orders'[y].reserved = needed)
    BY DEF Backed, Exact
  <2>1. CASE y = w
    <3>1. Needs(order, order.remaining) \in Nat /\ Needs(order, u[w]) \in Nat
      BY <1>11, NeedsParts
    <3>2. order.reserved \in Int /\ order.reserved < 0
      BY <1>4, <1>6 DEF Order
    <3>3. LET needed == Needs(order, order.remaining) + Needs(order, u[w]) IN
          Exact => order.reserved = needed
      BY <1>10, <1>12 DEF Backed
    <3>4. ~Exact
      BY <3>1, <3>2, <3>3
    <3> QED  BY <1>8, <1>10, <2>1, <3>1, <3>4
  <2>2. CASE y # w
    BY <1>7, <1>12, <2>2 DEF Backed, Unsent
  <2> QED  BY <2>1, <2>2
<1>15. Money(r)'
  BY <1>5, <1>11, <1>13, <1>14 DEF Money
<1>16. Symbolic /\ Sequenced /\ Renamed
  BY <1>1, <1>7, <1>8, <1>10 DEF Symbolic, Sequenced, Renamed
<1>17. Labelled'
  BY <1>1, <1>2, <1>16, LabelledStays
<1>18. Dirty(r) = {orders[Fill(r).maker].account, orders[r].account}
  BY <1>1, <1>3 DEF Dirty, At
<1>19. Dirty(r)' = {orders'[Fill(r).maker].account, orders'[r].account}
  BY <1>3, <1>5 DEF Dirty, At, Applying, Fill
<1>20. \A y \in Orders : orders'[y].account = orders[y].account
  BY <1>7, <1>8, <1>10
<1>21. Fill(r).maker \in Orders
  BY <1>2, <1>3, MakersExist DEF Fill
<1>22. Dirty(r)' = Dirty(r)
  BY <1>2, <1>18, <1>19, <1>20, <1>21
<1>23. (\A a \in Accounts : job[r].accounts[a] # None /\ a \notin Dirty(r) =>
          job[r].accounts[a] = wallet[a])'
  BY <1>1, <1>2, <1>5, <1>22
<1>24. job'[r].pc \in (Applying \ {"match"}) \cup {"accounts"}
  BY <1>5 DEF Applying
<1> QED  BY <1>1, <1>5, <1>15, <1>16, <1>17, <1>23, <1>24, SettlingStep

-----------------------------------------------------------------------------
(* Matching *)

(* A new fill is pending for both of its orders. *)
LEMMA MatchPending ==
  ASSUME NEW j \in Job, NEW k \in Job, NEW fill \in Trade, k.fills = Append(j.fills, fill),
         j.pc = "match", k.pc = "match", j.at = 0, k.at = 0, fill.maker # fill.taker
  PROVE  \A o \in Orders :
           LET n == IF o \in {fill.maker, fill.taker} THEN fill.quantity ELSE 0 IN
           Unpaid(k)[o] = n + Unpaid(j)[o] /\ Unreduced(k)[o] = n + Unreduced(j)[o]
<1> DEFINE S == DOMAIN j.fills
           T == DOMAIN k.fills
<1>1. /\ j.fills \in Seq(Trade) /\ S = 1..Len(j.fills) /\ Len(j.fills) \in Nat
      /\ T = 1..(Len(j.fills) + 1) /\ k.fills \in Seq(Trade) /\ fill.quantity \in Nat
  BY LenProperties, AppendProperties DEF Job, Trade
<1>2. T = S \cup {Len(j.fills) + 1}
  BY <1>1
<1>3. \A who : /\ Unsettled(j, who) = S /\ Unadjusted(j, who) = S
               /\ Unsettled(k, who) = T /\ Unadjusted(k, who) = T
  <2>1. (\A i \in S : i > 0) /\ (\A i \in T : i > 0)
    BY <1>1
  <2>2. \A now : Later(j, now) = S /\ Later(k, now) = T
    BY <2>1 DEF Later, Applying
  <2> QED  BY <2>2 DEF Unsettled, Unadjusted
<1> HIDE DEF S, T
<1> SUFFICES ASSUME NEW o \in Orders
             PROVE  LET n == IF o \in {fill.maker, fill.taker} THEN fill.quantity ELSE 0 IN
                    Unpaid(k)[o] = n + Unpaid(j)[o] /\ Unreduced(k)[o] = n + Unreduced(j)[o]
  OBVIOUS
<1>4. \A who : Volume(k.fills, who, o, T) =
        (IF Party(fill, who) = o THEN fill.quantity ELSE 0) + Volume(j.fills, who, o, S)
  <2>1. S \in SUBSET DOMAIN j.fills
    BY DEF S
  <2> QED  BY <1>1, <1>2, <2>1, VolumeAppend
<1>5. \A who : Volume(j.fills, who, o, S) \in Nat
  <2>1. S \in SUBSET DOMAIN j.fills
    BY DEF S
  <2> QED  BY <1>1, <2>1, VolumeNatural
<1>6. Quantity(k.fills, T, T, o) =
        (IF o \in {fill.maker, fill.taker} THEN fill.quantity ELSE 0) + Quantity(j.fills, S, S, o)
  <2>1. PICK a \in Nat : a = Volume(j.fills, "maker", o, S)
    BY <1>5
  <2>2. PICK b \in Nat : b = Volume(j.fills, "taker", o, S)
    BY <1>5
  <2>3. Volume(k.fills, "maker", o, T) = (IF fill.maker = o THEN fill.quantity ELSE 0) + a
    BY <1>4, <2>1 DEF Party
  <2>4. Volume(k.fills, "taker", o, T) = (IF fill.taker = o THEN fill.quantity ELSE 0) + b
    BY <1>4, <2>2 DEF Party
  <2>5. Quantity(k.fills, T, T, o) = Volume(k.fills, "maker", o, T) + Volume(k.fills, "taker", o, T)
    BY ZenonT(40) DEF Quantity
  <2>6. Quantity(j.fills, S, S, o) = a + b
    BY ZenonT(40), <2>1, <2>2 DEF Quantity
  <2> QED  BY SMTT(40), <1>1, <2>1, <2>2, <2>3, <2>4, <2>5, <2>6
<1> QED  BY <1>3, <1>6 DEF Unpaid, Unreduced

LEMMA MatchKeepsFunds ==
  ASSUME FundsInvariant, TypeInvariant', NEW r \in Requests, Match(r) PROVE FundsInvariant'
<1> DEFINE s == orders[r].symbol
           away == Opposite(orders[r].side)
           q == queue[s][away]
           maker == Head(q)
           n == FillQuantity(orders, r, maker)
           fill == FillOf(orders, r, maker)
<1>1. /\ At(r, "match") /\ job[r].pc \in Applying /\ wallet' = wallet
      /\ queue' = [queue EXCEPT ![s] = AfterFill(orders, queue[s], r, maker)]
      /\ job' = [job EXCEPT ![r] = [job[r] EXCEPT !.fills = Append(job[r].fills, fill)]]
      /\ orders[r].remaining > 0
  <2>1. At(r, "match") /\ wallet' = wallet
    BY ZenonT(40) DEF Match
  <2>2. queue' = [queue EXCEPT ![s] = AfterFill(orders, queue[s], r, maker)]
    BY ZenonT(40) DEF Match
  <2>3. job' = [job EXCEPT ![r] = [job[r] EXCEPT !.fills = Append(job[r].fills, fill)]]
    BY ZenonT(40) DEF Match
  <2>4. orders[r].remaining > 0
    <3>1. CanMatch(orders, queue[s], r)
      BY ZenonT(40) DEF Match
    <3> QED  BY ZenonT(40), <3>1 DEF CanMatch
  <2>5. job[r].pc \in Applying
    <3>1. job[r].pc = "match"
      BY <2>1 DEF At
    <3> QED  BY SMTT(40), <3>1 DEF Applying
  <2> HIDE DEF s, maker, fill
  <2> QED  BY ZenonT(40), <2>1, <2>2, <2>3, <2>4, <2>5
<1>2. /\ TypeInvariant /\ Labelled /\ Keeps(r) /\ Money(r) /\ Local(r)
      /\ job \in [Requests -> Job] /\ job[r] \in Job /\ job'[r] \in Job
      /\ r \in Orders /\ orders[r] \in Order /\ orders[r] # None
      /\ \A a \in Accounts : job[r].accounts[a] # None /\ a \notin Dirty(r) =>
           job[r].accounts[a] = wallet[a]
  BY SMTT(40), <1>1, ApplyingKnown DEF TypeInvariant, Typed
<1>3. /\ s \in Symbols /\ away \in Sides /\ q \in Seq(Orders) /\ q # << >> /\ maker \in Range(q)
      /\ maker \in Orders /\ maker # r /\ orders[maker] \in Order /\ orders[maker] # None
      /\ fill \in Trade /\ fill.maker = maker /\ fill.taker = r
      /\ \A o \in Orders \ {r, maker} : orders'[o] = orders[o]
      /\ orders'[maker] = [orders[maker] EXCEPT !.remaining = @ - n]
      /\ orders'[r] = [orders[r] EXCEPT !.remaining = @ - n]
      /\ orders'[maker] \in Order /\ orders'[r] \in Order
      /\ n \in Nat /\ n <= orders[maker].remaining /\ n <= orders[r].remaining
  BY ZenonT(40), <1>2, MatchFacts
<1>4. fill.quantity = n /\ n = Lesser(orders[r].remaining, orders[maker].remaining)
  BY DEF FillOf, FillQuantity
<1>5. ~Unsent(maker) /\ orders[maker].symbol = s
  <2>1. maker \in Requests => orders[maker].sequence > 0
    BY ZenonT(40), <1>2, <1>3 DEF TypeInvariant, Resting
  <2>2. orders[maker].sequence \in Nat
    BY ZenonT(40), <1>3 DEF Order
  <2>3. ~Unsent(maker)
    <3> HIDE DEF maker
    <3> QED  BY <2>1, <2>2 DEF Unsent
  <2>4. orders[maker].symbol = s
    <3>1. \A y \in Symbols, side \in Sides : \A o \in Range(queue[y][side]) : orders[o].symbol = y
      BY <1>2 DEF Labelled
    <3> HIDE DEF maker, s, away
    <3> QED  BY <1>3, <3>1
  <2> QED  BY SMTT(40), <2>3, <2>4
<1>6. job[r].at = 0 /\ ~Unsent(r) /\ orders[r].sequence # 0
  <2>1. job[r].at = 0
    BY <1>1, <1>2 DEF Local, Positioned
  <2>2. orders[r].sequence > 0 /\ orders[r].sequence \in Nat
    BY <1>1, <1>2, KnownOf DEF Local, Phased, At, Busy, Submitted, Order
  <2> QED  BY <2>1, <2>2 DEF Unsent
<1>7. \A t \in Symbols, side \in Sides : Range(queue'[t][side]) \subseteq Range(queue[t][side])
  <2>1. queue \in [Symbols -> [Sides -> Seq(Orders)]]
    BY <1>2 DEF TypeInvariant, Typed
  <2>2. Range(Tail(q)) \subseteq Range(q)
    <3> HIDE DEF q
    <3>1. /\ Tail(q) \in Seq(Orders) /\ Len(Tail(q)) = Len(q) - 1 /\ Len(q) \in Nat \ {0}
          /\ \A i \in 1..Len(Tail(q)) : Tail(q)[i] = q[i + 1]
      BY <1>3, EmptySeq, HeadTailProperties
    <3>2. ASSUME NEW y \in Range(Tail(q)) PROVE y \in Range(q)
      <4>1. PICK i \in 1..Len(Tail(q)) : Tail(q)[i] = y
        BY <3>1, RangeProperties
      <4>2. i + 1 \in 1..Len(q) /\ q[i + 1] = y
        BY <3>1, <4>1
      <4> QED  BY <1>3, <4>2, RangeProperties
    <3> QED  BY <3>2
  <2>3. \/ AfterFill(orders, queue[s], r, maker) = queue[s]
        \/ AfterFill(orders, queue[s], r, maker) = [queue[s] EXCEPT ![away] = Tail(q)]
    BY DEF AfterFill
  <2> HIDE DEF s, away, q, maker, n, fill
  <2>4. CASE AfterFill(orders, queue[s], r, maker) = queue[s]
    BY <1>1, <1>3, <2>1, <2>4
  <2>5. CASE AfterFill(orders, queue[s], r, maker) = [queue[s] EXCEPT ![away] = Tail(q)]
    <3>1. queue' = [queue EXCEPT ![s] = [queue[s] EXCEPT ![away] = Tail(q)]]
      BY <1>1, <2>5
    <3>2. ASSUME NEW t \in Symbols, NEW side \in Sides
          PROVE  queue'[t][side] = IF t = s /\ side = away THEN Tail(q) ELSE queue[t][side]
      BY <1>3, <2>1, <3>1
    <3> QED  BY <2>2, <3>2 DEF q
  <2> QED  BY <2>3, <2>4, <2>5
<1>8. PICK m \in Orders, d \in Nat, t \in Trade :
        /\ m = maker /\ d = n /\ t = fill
        /\ t.maker = m /\ t.taker = r /\ t.quantity = d
  <2> HIDE DEF maker, n, fill
  <2> QED  BY SMTT(40), <1>3, <1>4
<1> DEFINE to == [job[r] EXCEPT !.fills = Append(job[r].fills, t)]
<1>9. job' = [job EXCEPT ![r] = to]
  BY ZenonT(40), <1>1, <1>8
<1> HIDE DEF q, maker, n, fill
<1>10. /\ m # r /\ orders[m] \in Order /\ orders[m] # None /\ ~Unsent(m) /\ orders[m].symbol = s
       /\ \A o \in Orders \ {r, m} : orders'[o] = orders[o]
       /\ orders'[m] = [orders[m] EXCEPT !.remaining = @ - d]
       /\ orders'[r] = [orders[r] EXCEPT !.remaining = @ - d]
       /\ orders'[m] \in Order /\ orders'[r] \in Order
       /\ d <= orders[m].remaining /\ d <= orders[r].remaining
       /\ d = Lesser(orders[r].remaining, orders[m].remaining)
  BY <1>3, <1>4, <1>5, <1>8
<1>11. /\ to.fills = Append(job[r].fills, t) /\ to.pc = "match" /\ to.at = 0
       /\ to.input = job[r].input /\ to.accounts = job[r].accounts
  <2>1. /\ to.fills = Append(job[r].fills, t) /\ to.pc = job[r].pc /\ to.at = job[r].at
        /\ to.input = job[r].input /\ to.accounts = job[r].accounts
    BY <1>2 DEF Job
  <2> QED  BY <1>1, <1>6, <2>1 DEF At
<1> HIDE DEF to, s, away
<1>12. job'[r] = to /\ to \in Job /\ \A y \in Requests \ {r} : job'[y] = job[y]
  <2>1. job'[r] = to /\ \A y \in Requests \ {r} : job'[y] = job[y]
    BY <1>2, <1>9
  <2> QED  BY <1>2, <2>1
<1>j. PICK j \in Job : j = to
  BY <1>12
<1> HIDE DEF to
<1>13. \A o \in Orders :
         LET k == IF o \in {m, r} THEN d ELSE 0 IN
         Unpaid(j)[o] = k + Unpaid(job[r])[o] /\ Unreduced(j)[o] = k + Unreduced(job[r])[o]
  <2>1. job[r].pc = "match" /\ t.maker # t.taker
    BY <1>1, <1>8, <1>10 DEF At
  <2>2. \A o \in Orders :
          LET k == IF o \in {t.maker, t.taker} THEN t.quantity ELSE 0 IN
          Unpaid(j)[o] = k + Unpaid(job[r])[o] /\ Unreduced(j)[o] = k + Unreduced(job[r])[o]
    BY <1>2, <1>6, <1>11, <1>12, <1>j, <2>1, MatchPending
  <2> QED  BY <1>8, <2>2
<1>14. PICK p0 \in [Orders -> Nat], p1 \in [Orders -> Nat],
            u0 \in [Orders -> Nat], u1 \in [Orders -> Nat] :
         p0 = Unpaid(job[r]) /\ p1 = Unpaid(j) /\ u0 = Unreduced(job[r]) /\ u1 = Unreduced(j)
  BY <1>2, <1>12, <1>j, PendingTyped
<1>15. Locked(p0) /\ Backed(u0)
  BY <1>2, <1>14 DEF Money
<1>16. \A o \in Orders : /\ o \in {m, r} => p1[o] = d + p0[o] /\ u1[o] = d + u0[o]
                         /\ o \notin {m, r} => p1[o] = p0[o] /\ u1[o] = u0[o]
  BY <1>13, <1>14
<1>17. ASSUME NEW o \in {m, r}
       PROVE  /\ orders[o] # None /\ orders'[o] # None /\ o \in Orders
              /\ orders'[o].account = orders[o].account /\ orders'[o].symbol = orders[o].symbol
              /\ orders'[o].side = orders[o].side /\ orders'[o].price = orders[o].price
              /\ orders'[o].reserved = orders[o].reserved
              /\ orders'[o].sequence = orders[o].sequence
              /\ orders'[o].remaining = orders[o].remaining - d
              /\ ~Unsent(o) /\ ~Unsent(o)'
  <2>1. /\ orders[o] \in Order /\ orders'[o] \in Order /\ o \in Orders /\ ~Unsent(o)
        /\ orders'[o] = [orders[o] EXCEPT !.remaining = @ - d]
    BY <1>2, <1>6, <1>10
  <2>2. /\ orders'[o].account = orders[o].account /\ orders'[o].symbol = orders[o].symbol
        /\ orders'[o].side = orders[o].side /\ orders'[o].price = orders[o].price
        /\ orders'[o].reserved = orders[o].reserved
        /\ orders'[o].sequence = orders[o].sequence
        /\ orders'[o].remaining = orders[o].remaining - d
    BY <2>1 DEF Order
  <2> QED  BY <2>1, <2>2, ExchangeAssumption DEF Unsent
<1>18. ASSUME NEW o \in {m, r}, NEW g0 \in Nat, NEW g1 \in Nat, g1 = d + g0
       PROVE  Needs(orders'[o], orders'[o].remaining) + Needs(orders'[o], g1) =
                Needs(orders[o], orders[o].remaining) + Needs(orders[o], g0)
  <2>1. \A i : Needs(orders'[o], i) = Needs(orders[o], i)
    BY <1>17 DEF Needs
  <2>2. PICK order \in Order, rest \in Nat : order = orders[o] /\ rest = order.remaining - d
    BY <1>2, <1>10 DEF Order
  <2>3. orders[o].remaining = d + rest /\ orders'[o].remaining = rest
    <3>1. orders[o].remaining \in Nat
      BY <2>2 DEF Order
    <3> QED  BY <1>17, <2>2, <3>1
  <2>4. /\ Needs(order, d) \in Nat /\ Needs(order, rest) \in Nat
        /\ Needs(order, d + rest) = Needs(order, d) + Needs(order, rest)
    BY NeedsParts
  <2>5. /\ Needs(order, g0) \in Nat
        /\ Needs(order, d + g0) = Needs(order, d) + Needs(order, g0)
    BY NeedsParts
  <2>6. Needs(orders'[o], orders'[o].remaining) = Needs(order, rest)
    BY <2>1, <2>2, <2>3
  <2>7. Needs(orders'[o], g1) = Needs(order, d + g0)
    BY <1>18, <2>1, <2>2
  <2>8. Needs(orders[o], orders[o].remaining) = Needs(order, d + rest)
    BY <2>2, <2>3
  <2>9. Needs(orders[o], g0) = Needs(order, g0)
    BY <2>2
  <2> QED  BY <2>4, <2>5, <2>6, <2>7, <2>8, <2>9
<1>19. Locked(p1)'
  <2>1. ASSUME NEW o \in Orders, NEW a \in Accounts, NEW asset \in Assets
        PROVE  Claim(p1, o, a, asset)' = Claim(p0, o, a, asset)
    <3>1. CASE o \in {m, r}
      <4>1. LocksOf(o, a, asset)' <=> LocksOf(o, a, asset)
        BY <1>17, <3>1 DEF LocksOf, LockedAsset
      <4>2. p1[o] = d + p0[o] /\ p1[o] \in Nat /\ p0[o] \in Nat
        BY <1>16, <3>1
      <4>3. Due(p1, o)' = Due(p0, o)
        BY <1>17, <1>18, <3>1, <4>2 DEF Due
      <4> QED  BY <4>1, <4>3 DEF Claim
    <3>2. CASE o \notin {m, r}
      BY <1>10, <1>16, <3>2 DEF Claim, LocksOf, Due, Unsent
    <3> QED  BY <3>1, <3>2
  <2> QED  BY <1>1, <1>15, <2>1, LockedEven
<1>20. Backed(u1)'
  <2> SUFFICES ASSUME NEW o \in Orders, orders'[o] # None, ~Unsent(o)'
               PROVE  LET needed == Needs(orders'[o], orders'[o].remaining) + Needs(orders'[o], u1[o]) IN
                      orders'[o].reserved <= needed /\ (Exact => orders'[o].reserved = needed)
    BY DEF Backed, Exact
  <2>1. CASE o \in {m, r}
    <3>1. u1[o] = d + u0[o] /\ u1[o] \in Nat /\ u0[o] \in Nat
      BY <1>16, <2>1
    <3>2. LET needed == Needs(orders[o], orders[o].remaining) + Needs(orders[o], u0[o]) IN
          orders[o].reserved <= needed /\ (Exact => orders[o].reserved = needed)
      BY <1>15, <1>17, <2>1 DEF Backed
    <3> QED  BY <1>17, <1>18, <2>1, <3>1, <3>2
  <2>2. CASE o \notin {m, r}
    BY <1>10, <1>15, <1>16, <2>2 DEF Backed, Unsent
  <2> QED  BY <2>1, <2>2
<1>21. Money(r)' /\ Busy(r)'
  BY <1>11, <1>12, <1>j, <1>14, <1>19, <1>20 DEF Money, Busy
<1>22. Symbolic /\ Sequenced /\ Renamed
  BY <1>1, <1>10, <1>17 DEF Symbolic, Sequenced, Renamed
<1>23. Labelled'
  <2>1. ASSUME NEW y \in Symbols, NEW side \in Sides, NEW o \in Range(queue'[y][side])
        PROVE  orders'[o].symbol = y
    <3>1. o \in Range(queue[y][side])
      BY <1>7
    <3>2. queue[y][side] \in Seq(Orders)
      BY <1>2 DEF TypeInvariant, Typed
    <3>3. o \in Orders /\ orders[o] # None
      BY <1>2, <3>1, <3>2, RangeProperties DEF TypeInvariant, Resting
    <3> QED  BY <1>2, <1>22, <3>1, <3>3 DEF Labelled, Symbolic
  <2> QED  BY <1>1, <1>2, <2>1 DEF Labelled
<1>24. /\ j.fills \in Seq(Trade) /\ job[r].fills \in Seq(Trade)
       /\ DOMAIN job[r].fills = 1..Len(job[r].fills) /\ Len(job[r].fills) \in Nat
       /\ DOMAIN j.fills = 1..(Len(job[r].fills) + 1)
       /\ \A i \in 1..Len(job[r].fills) : j.fills[i] = job[r].fills[i]
       /\ j.fills[Len(job[r].fills) + 1] = t
  <2>1. job[r].fills \in Seq(Trade)
    BY <1>2 DEF Job
  <2>2. j.fills = Append(job[r].fills, t)
    BY <1>11, <1>j
  <2>3. PICK old \in Seq(Trade) : old = job[r].fills
    BY <2>1
  <2>4. PICK new \in Seq(Trade) : new = Append(old, t)
    BY AppendProperties
  <2>5. /\ DOMAIN old = 1..Len(old) /\ Len(old) \in Nat /\ DOMAIN new = 1..Len(new)
        /\ Len(new) = Len(old) + 1 /\ new[Len(old) + 1] = t
        /\ \A i \in 1..Len(old) : new[i] = old[i]
    BY <2>4, LenProperties, AppendProperties
  <2> QED  BY <2>2, <2>3, <2>4, <2>5
<1>25. orders[r].remaining \in Nat /\ orders[m].remaining \in Nat
  BY <1>2, <1>10 DEF Order
<1>26. /\ orders[m].remaining = 0 => d = 0
       /\ orders'[m].remaining = 0 \/ orders'[r].remaining = 0
       /\ orders[m].remaining = 0 => orders'[m].remaining = 0
  BY <1>10, <1>17, <1>25 DEF Lesser
<1>27. \A i \in 1..Len(job[r].fills) :
         LET other == job[r].fills[i].maker IN
         /\ other \in Orders /\ orders[other] # None
         /\ other # r /\ ~Unsent(other) /\ orders[other].symbol = orders[r].symbol
         /\ orders[other].remaining = 0
  <2> SUFFICES ASSUME NEW i \in 1..Len(job[r].fills)
               PROVE  LET other == job[r].fills[i].maker IN
                      /\ other \in Orders /\ orders[other] # None
                      /\ other # r /\ ~Unsent(other) /\ orders[other].symbol = orders[r].symbol
                      /\ orders[other].remaining = 0
    OBVIOUS
  <2>1. job[r].fills[i].maker \in Orders /\ orders[job[r].fills[i].maker] # None
    BY <1>2, <1>24, MakersExist
  <2>2. LET other == job[r].fills[i].maker IN
        /\ other # r /\ ~Unsent(other) /\ orders[other].symbol = orders[r].symbol
        /\ orders[other].remaining = 0 \/ orders[r].remaining = 0
    BY <1>1, <1>2, <1>24 DEF Keeps, Matched
  <2> QED  BY <1>1, <1>25, <2>1, <2>2
<1>27a. \A i \in DOMAIN j.fills : i \in 1..Len(job[r].fills) \/ i = Len(job[r].fills) + 1
  <2>1. PICK L \in Nat : L = Len(job[r].fills)
    BY <1>24
  <2>2. DOMAIN j.fills = 1..(L + 1)
    BY <1>24, <2>1
  <2> QED  BY <2>1, <2>2
<1>28. ASSUME NEW i \in DOMAIN j.fills
       PROVE  LET other == j.fills[i].maker IN
              /\ other # r /\ ~(other \in Requests /\ orders'[other].sequence = 0)
              /\ orders'[other].symbol = orders'[r].symbol
              /\ orders'[other].remaining = 0 \/ orders'[r].remaining = 0
  <2>1. CASE i \in 1..Len(job[r].fills)
    <3>1. PICK y \in Orders : y = j.fills[i].maker /\ y = job[r].fills[i].maker
      BY <1>24, <1>27, <2>1
    <3>2. /\ orders[y] # None /\ y # r /\ ~Unsent(y)
          /\ orders[y].symbol = orders[r].symbol /\ orders[y].remaining = 0
      BY <1>27, <2>1, <3>1
    <3>3. /\ ~Unsent(y)' /\ orders'[y].symbol = orders'[r].symbol
      BY <1>2, <1>22, <3>2 DEF Symbolic, Sequenced, Unsent
    <3>4. orders'[y].remaining = 0
      BY <1>10, <1>26, <3>2
    <3> QED  BY <3>1, <3>2, <3>3, <3>4 DEF Unsent
  <2>2. CASE i = Len(job[r].fills) + 1
    <3>1. j.fills[i].maker = m
      BY <1>8, <1>24, <2>2
    <3>2. ~Unsent(m)' /\ orders'[m].symbol = s /\ orders'[r].symbol = s
      BY <1>10, <1>17 DEF s
    <3> QED  BY <1>10, <1>26, <3>1, <3>2 DEF Unsent
  <2> QED  BY <1>27a, <2>1, <2>2
<1>29. ASSUME NEW i \in DOMAIN j.fills, NEW k \in DOMAIN j.fills, i < k,
              j.fills[i].maker = j.fills[k].maker
       PROVE  j.fills[k].quantity = 0
  <2>1. i \in 1..Len(job[r].fills)
    <3>1. PICK L \in Nat : L = Len(job[r].fills)
      BY <1>24
    <3>2. i \in 1..(L + 1) /\ k \in 1..(L + 1) /\ i < k
      BY <1>24, <1>29, <3>1
    <3> QED  BY <3>1, <3>2
  <2>2. CASE k \in 1..Len(job[r].fills)
    <3>1. /\ i \in DOMAIN job[r].fills /\ k \in DOMAIN job[r].fills
          /\ job[r].fills[i].maker = job[r].fills[k].maker
          /\ j.fills[k] = job[r].fills[k]
      BY <1>24, <1>29, <2>1, <2>2
    <3>2. job[r].fills[k].quantity = 0
      BY <1>1, <1>2, <1>29, <3>1 DEF Keeps, Matched
    <3> QED  BY <3>1, <3>2
  <2>3. CASE k = Len(job[r].fills) + 1
    <3>1. j.fills[k] = t /\ job[r].fills[i].maker = m
      BY ZenonT(40), <1>8, <1>24, <1>27, <1>29, <2>1, <2>3
    <3>2. orders[m].remaining = 0
      BY <1>27, <2>1, <3>1
    <3> QED  BY <1>8, <1>26, <3>1, <3>2
  <2> QED  BY <1>27a, <2>2, <2>3
<1>30. Matched(r)'
  <2>1. FillsAre(r)'
    BY <1>12, <1>j, <1>28, <1>29 DEF FillsAre, Unsent
  <2>2. \A i \in DOMAIN job'[r].fills :
          orders'[job'[r].fills[i].maker].remaining = 0 \/ orders'[r].remaining = 0
    BY <1>12, <1>j, <1>28
  <2>3. job'[r].pc = "match"
    BY <1>11, <1>12
  <2>4. Steady(r)'
    BY <2>3 DEF Steady, At, Releasing
  <2> QED  BY <2>1, <2>2, <2>4 DEF Matched, FillsAre
<1>31. Dirty(r) = {} /\ Dirty(r)' = {}
  BY <1>1, <1>6, <1>11, <1>12, <1>j, <1>24 DEF Dirty, At
<1>32. Copied(r)'
  <2>1. \A a \in Accounts : job'[r].accounts[a] # None => job'[r].accounts[a] = wallet'[a]
    BY <1>1, <1>2, <1>11, <1>12, <1>j, <1>31
  <2>2. job'[r].pc \notin Syncing
    BY <1>11, <1>12, <1>j DEF Syncing
  <2> QED  BY <2>1, <2>2 DEF Copied
<1>33. BeforeSubmit(r)'
  BY <1>6, <1>17 DEF BeforeSubmit
<1>34. Solo(r)
  BY <1>1, BusyIsSolo DEF Busy, Applying
<1> QED  BY <1>12, <1>j, <1>21, <1>23, <1>30, <1>32, <1>33, <1>34, TurnStep DEF Keeps

-----------------------------------------------------------------------------
(* The funds are there, always *)

LEMMA FundsInit ==
  ASSUME Serial, Funded, Init PROVE FundsInvariant
<1>1. TypeInvariant
  BY TypeInit
<1>2. \A r \in Requests : ~Busy(r)
  BY DEF Init, Idle, Busy
<1>3. /\ IsFiniteSet(DOMAIN OpenOrders) /\ OpenOrders \in [DOMAIN OpenOrders -> Order]
      /\ DOMAIN OpenOrders \subseteq Orders /\ DOMAIN OpenOrders \cap Requests = {}
  BY ExchangeAssumption DEF Orders
<1>4. /\ wallet = InitialAccounts /\ orders = [o \in Orders |-> IF o \in Requests THEN None ELSE OpenOrders[o]]
      /\ queue = [s \in Symbols |-> RestoredBook(OpenOrders, s)]
  BY DEF Init, NewExchange
<1>5. \A o \in DOMAIN OpenOrders :
        /\ o \in Orders /\ o \notin Requests /\ orders[o] = OpenOrders[o]
        /\ orders[o] \in Order /\ orders[o] # None /\ ~Unsent(o)
  BY <1>3, <1>4, ExchangeAssumption DEF Unsent
<1>6. \A o \in Orders : o \notin DOMAIN OpenOrders => orders[o] = None
  BY <1>4 DEF Orders
<1>7. Labelled
  <2>1. ASSUME NEW s \in Symbols, NEW side \in Sides, NEW o \in Range(queue[s][side])
        PROVE  orders[o].symbol = s
    <3>1. queue[s][side] = RestoredBook(OpenOrders, s)[side]
      BY <1>4
    <3>2. Range(RestoredBook(OpenOrders, s)[side])
            \subseteq {p \in DOMAIN OpenOrders : OpenOrders[p].symbol = s}
      BY <1>3, RestoredBookTyped
    <3>3. o \in DOMAIN OpenOrders /\ OpenOrders[o].symbol = s
      BY <3>1, <3>2
    <3> QED  BY <1>5, <3>3
  <2>2. \A a \in Accounts : wallet[a].id = a
    BY <1>4, ExchangeAssumption
  <2> QED  BY <2>1, <2>2 DEF Labelled
<1>8. ASSUME NEW o \in DOMAIN OpenOrders
      PROVE  /\ Needs(orders[o], Nothing[o]) = 0
             /\ Needs(orders[o], orders[o].remaining) \in Nat
             /\ Needs(orders[o], orders[o].remaining) + Needs(orders[o], Nothing[o]) =
                  Needs(OpenOrders[o], OpenOrders[o].remaining)
  <2>1. orders[o].remaining \in Nat /\ Nothing[o] = 0
    BY <1>5 DEF Order, Nothing
  <2>2. Needs(orders[o], 0) = 0 /\ Needs(orders[o], orders[o].remaining) \in Nat
    BY <1>5, <2>1, NeedsAdds, NeedsIsNatural
  <2> QED  BY <1>5, <2>1, <2>2
<1>9. Locked(Nothing)
  <2>1. ASSUME NEW a \in Accounts, NEW asset \in Assets
        PROVE  wallet[a].balances[asset].locked =
                 Surplus(a, asset) + SumFunctionOnSet([o \in Orders |-> Claim(Nothing, o, a, asset)], Orders)
    <3>1. \A o \in Orders : Claim(Nothing, o, a, asset) = RestoredClaim(o, a, asset)
      <4> SUFFICES ASSUME NEW o \in Orders
                   PROVE  Claim(Nothing, o, a, asset) = RestoredClaim(o, a, asset)
        OBVIOUS
      <4>1. CASE o \in DOMAIN OpenOrders
        BY <1>5, <1>8, <4>1 DEF Claim, LocksOf, Due, RestoredClaim
      <4>2. CASE o \notin DOMAIN OpenOrders
        BY <1>6, <4>2 DEF Claim, LocksOf, RestoredClaim
      <4> QED  BY <4>1, <4>2
    <3>2. [o \in Orders |-> Claim(Nothing, o, a, asset)] = [o \in Orders |-> RestoredClaim(o, a, asset)]
      BY <3>1
    <3>3. IsFiniteSet(Orders)
      BY OrdersAreFinite
    <3> DEFINE R == [o \in Orders |-> RestoredClaim(o, a, asset)]
    <3>4. \A o \in Orders : R[o] \in Int
      <4>1. \A o \in Orders : Claim(Nothing, o, a, asset) \in Int
        BY <1>1, ClaimInteger DEF Nothing
      <4> QED  BY <3>1, <4>1
    <3>5. Surplus(a, asset) = InitialAccounts[a].balances[asset].locked - SumFunctionOnSet(R, Orders)
      BY DEF Surplus
    <3> HIDE DEF R
    <3>6. SumFunctionOnSet(R, Orders) \in Int
      BY <3>3, <3>4, SumAdds
    <3>7. InitialAccounts[a].balances[asset].locked \in Int
      <4>1. InitialAccounts[a] \in Account
        BY ExchangeAssumption
      <4> QED  BY <4>1 DEF Account, Amount
    <3>8. wallet[a].balances[asset].locked = Surplus(a, asset) + SumFunctionOnSet(R, Orders)
      BY <1>4, <3>5, <3>6, <3>7
    <3> QED  BY <3>2, <3>8 DEF R
  <2> QED  BY <2>1 DEF Locked
<1>10. Backed(Nothing)
  <2> SUFFICES ASSUME NEW o \in Orders, orders[o] # None
               PROVE  LET needed == Needs(orders[o], orders[o].remaining) + Needs(orders[o], Nothing[o]) IN
                      orders[o].reserved <= needed /\ (Exact => orders[o].reserved = needed)
    BY DEF Backed
  <2>1. o \in DOMAIN OpenOrders
    BY <1>6
  <2>2. /\ OpenOrders[o].reserved <= Needs(OpenOrders[o], OpenOrders[o].remaining)
        /\ Exact => OpenOrders[o].reserved = Needs(OpenOrders[o], OpenOrders[o].remaining)
    BY <2>1 DEF Funded, Exact
  <2> QED  BY <1>5, <1>8, <2>1, <2>2
<1> QED  BY <1>1, <1>2, <1>7, <1>9, <1>10 DEF FundsInvariant, InTurn, AllSettled

LEMMA FundsStutter ==
  ASSUME FundsInvariant, TypeInvariant', UNCHANGED vars PROVE FundsInvariant'
<1>1. UNCHANGED <<wallet, orders, queue, job>> /\ TypeInvariant /\ Labelled
  BY DEF vars, memory, book, FundsInvariant
<1>2. MoneyStands /\ Renamed /\ Symbolic
  BY <1>1, IdleMoney
<1>3. InTurn' /\ Labelled'
  <2>1. InTurn'
    BY <1>1 DEF FundsInvariant, InTurn, Busy
  <2> QED  BY <1>1, <1>2, <2>1, LabelledStays
<1>4. ASSUME NEW r \in Requests, Busy(r)' PROVE Keeps(r)' /\ Money(r)'
  <2>1. Keeps(r) /\ Money(r)
    BY <1>1, <1>4 DEF FundsInvariant, Busy
  <2>2. BeforeSubmit(r)'
    BY <1>1, <2>1 DEF Keeps, BeforeSubmit, At
  <2>3. Matched(r)'
    BY <1>1, <2>1 DEF Keeps, Matched, Steady, At, Unsent, Subject, Fill
  <2>4. Copied(r)'
    BY <1>1, <2>1 DEF Keeps, Copied, Dirty, At, Fill
  <2>5. Money(r)'
    <3>1. Unpaid(job'[r]) = Unpaid(job[r]) /\ Unreduced(job'[r]) = Unreduced(job[r])
      BY <1>1
    <3> QED  BY <1>2, <2>1, <3>1, MoneyStays DEF Money
  <2> QED  BY <2>2, <2>3, <2>4, <2>5 DEF Keeps
<1>5. Quiet' => AllSettled'
  <2> SUFFICES ASSUME Quiet' PROVE AllSettled'
    OBVIOUS
  <2>1. AllSettled
    BY <1>1 DEF FundsInvariant, Quiet, Busy
  <2> QED  BY <1>2, <2>1, MoneyStays DEF AllSettled
<1> QED  BY <1>3, <1>4, <1>5 DEF FundsInvariant

LEMMA FundsStep ==
  ASSUME Serial, Funded, FundsInvariant, Turns, [Next]_vars PROVE FundsInvariant'
<1>1. TypeInvariant'
  BY TypeStep DEF FundsInvariant
<1>2. ASSUME UNCHANGED vars PROVE FundsInvariant'
  BY <1>1, <1>2, FundsStutter
<1>3. ASSUME NEW r \in Requests, Accept(r) PROVE FundsInvariant'
  BY <1>1, <1>3, AcceptKeepsFunds
<1>4. ASSUME NEW r \in Requests, Serve(r) PROVE FundsInvariant'
  BY <1>1, <1>4, ReserveKeepsFunds, GetReservedKeepsFunds, PersistAccountKeepsFunds,
     ReplaceAccountKeepsFunds, CacheAccountKeepsFunds, SubmitKeepsFunds, MatchKeepsFunds,
     FinishKeepsFunds, LoadStatusKeepsFunds, StoreStatusKeepsFunds, CollectKeepsFunds,
     SettleKeepsFunds, LoadReservedKeepsFunds, StoreReservedKeepsFunds,
     CheckReservedKeepsFunds, ClampReservedKeepsFunds, FreesKeepsFunds,
     NextAccountKeepsFunds, ReportsKeepFunds DEF Serve, Frees, Reports
<1> QED  BY <1>2, <1>3, <1>4 DEF Next, AllAnswered

(* One request at a time, from a start at which every restored order finds *)
(* its funds: while a request is being served the locked balances are what *)
(* the orders need and what its fills have yet to settle, and between      *)
(* requests they are what the orders need, whichever call failed.          *)
THEOREM FundsAreKept == Serial /\ Funded => (Spec => []FundsInvariant)
<1> SUFFICES ASSUME Serial, Funded PROVE Spec => []FundsInvariant
  OBVIOUS
<1>1. Init => FundsInvariant
  BY FundsInit
<1>2. FundsInvariant /\ Turns /\ [Next]_vars => FundsInvariant'
  BY FundsStep
<1> QED  BY <1>1, <1>2, TakesTurns, PTL DEF Spec

(* What rests in a book has a claim to what it needs. *)
LEMMA RestingClaims ==
  ASSUME TypeInvariant, NEW o \in Orders, InBook(o)
  PROVE  /\ orders[o] # None /\ orders[o] \in Order /\ ~Unsent(o)
         /\ Due(Nothing, o) = Needs(orders[o], orders[o].remaining)
         /\ Needs(orders[o], orders[o].remaining) \in Nat
<1>1. orders[o] # None /\ (o \in Requests => orders[o].sequence > 0)
  BY DEF InBook, TypeInvariant, Resting
<1>2. orders[o] \in Order
  BY <1>1 DEF TypeInvariant, Typed
<1>3. orders[o].sequence \in Nat /\ orders[o].remaining \in Nat
  BY <1>2 DEF Order
<1>4. ~Unsent(o)
  BY <1>1, <1>3 DEF Unsent
<1>5. Needs(orders[o], 0) = 0 /\ Needs(orders[o], orders[o].remaining) \in Nat
  BY <1>2, <1>3, NeedsAdds, NeedsIsNatural
<1>6. Nothing[o] = 0
  BY DEF Nothing
<1> QED  BY <1>1, <1>2, <1>4, <1>5, <1>6 DEF Due

LEMMA SettledCovers ==
  ASSUME Serial, Funded, TypeInvariant, NoDebt, AllSettled, NEW a \in Accounts, NEW asset \in Assets
  PROVE  wallet[a].balances[asset].locked >= LockNeeded(a, asset)
<1> DEFINE open == {o \in Orders : /\ InBook(o)
                                   /\ orders[o].account = a
                                   /\ LockedAsset(Pair[orders[o].symbol], orders[o]) = asset}
           F == [o \in open |-> Needs(orders[o], orders[o].remaining)]
           G == [o \in Orders |-> IF o \in open THEN F[o] ELSE 0]
           C == [o \in Orders |-> Claim(Nothing, o, a, asset)]
<1>1. IsFiniteSet(Orders) /\ open \in SUBSET Orders
  BY OrdersAreFinite
<1>2. \A o \in open : F[o] \in Nat /\ C[o] = F[o]
  <2> SUFFICES ASSUME NEW o \in open PROVE F[o] \in Nat /\ C[o] = F[o]
    OBVIOUS
  <2>1. /\ orders[o] # None /\ Due(Nothing, o) = Needs(orders[o], orders[o].remaining)
        /\ Needs(orders[o], orders[o].remaining) \in Nat
    BY RestingClaims
  <2> QED  BY <2>1 DEF Claim, LocksOf
<1>3. \A o \in Orders : C[o] \in Nat
  BY ClaimInteger DEF Nothing
<1>4. \A o \in Orders : G[o] = IF o \in open THEN F[o] ELSE 0
  OBVIOUS
<1>5. LockNeeded(a, asset) = SumFunctionOnSet(F, open)
  BY DEF LockNeeded
<1>6. wallet[a].balances[asset].locked = Surplus(a, asset) + SumFunctionOnSet(C, Orders)
  BY DEF AllSettled, Locked
<1>7. Surplus(a, asset) \in Int /\ Surplus(a, asset) >= 0
  BY SurplusIsInteger DEF Funded
<1> HIDE DEF F, G, C, open
<1>8. SumFunctionOnSet(G, Orders) = SumFunctionOnSet(F, open)
  BY <1>1, <1>2, <1>4, SumWithin
<1>9. \A o \in Orders : G[o] \in Int /\ C[o] \in Int /\ G[o] <= C[o]
  <2> SUFFICES ASSUME NEW o \in Orders PROVE G[o] \in Int /\ C[o] \in Int /\ G[o] <= C[o]
    OBVIOUS
  <2>1. CASE o \in open
    BY <1>2, <1>3, <1>4, <2>1
  <2>2. CASE o \notin open
    BY <1>3, <1>4, <2>2
  <2> QED  BY <2>1, <2>2
<1>10. SumFunctionOnSet(G, Orders) <= SumFunctionOnSet(C, Orders)
  BY <1>1, <1>9, SumMonotone
<1>11. SumFunctionOnSet(G, Orders) \in Int /\ SumFunctionOnSet(C, Orders) \in Int
  BY <1>1, <1>9, SumAdds
<1> QED  BY <1>5, <1>6, <1>7, <1>8, <1>10, <1>11

LEMMA SettlingIsUnpaid ==
  ASSUME FundsInvariant, NEW r \in Requests, At(r, "settle")
  PROVE  Unpaid(job[r])[Subject(r)] >= Fill(r).quantity
<1> DEFINE to == IF job[r].role = "maker" THEN [job[r] EXCEPT !.role = "taker"]
                 ELSE [job[r] EXCEPT !.role = "maker", !.pc = "loadReserved"]
<1>1. job[r].pc = "settle" /\ job[r].pc \in Applying /\ job[r].pc \in InFill
  BY DEF At, Applying, InFill
<1>2. job[r] \in Job /\ job[r].role \in {"maker", "taker"}
  BY <1>1, ApplyingKnown
<1>3. /\ job[r].at \in DOMAIN job[r].fills /\ Subject(r) \in Orders
      /\ Party(job[r].fills[job[r].at], job[r].role) = Subject(r) /\ Fill(r).quantity \in Nat
  BY <1>1, SubjectFacts
<1>4. /\ to \in Job /\ to.fills = job[r].fills /\ to.at = job[r].at
      /\ \/ job[r].role = "maker" /\ to.pc = "settle" /\ to.role = "taker"
         \/ job[r].role = "taker" /\ to.pc = "loadReserved" /\ to.role = "maker"
  <2>1. CASE job[r].role = "maker"
    BY <1>1, <1>2, <2>1 DEF Job
  <2>2. CASE job[r].role = "taker"
    BY ZenonT(40), <1>1, <1>2, <2>2 DEF Job, Labels, Submitted, InFill
  <2> QED  BY <1>2, <2>1, <2>2
<1> HIDE DEF to
<1>5. \A o \in Orders : Unpaid(job[r])[o] =
        (IF Party(job[r].fills[job[r].at], job[r].role) = o
           THEN job[r].fills[job[r].at].quantity ELSE 0) + Unpaid(to)[o]
  BY <1>1, <1>2, <1>3, <1>4, SettleOneHalf
<1>6. Unpaid(job[r])[Subject(r)] = Fill(r).quantity + Unpaid(to)[Subject(r)]
  BY <1>3, <1>5 DEF Fill
<1>7. Unpaid(to)[Subject(r)] \in Nat
  <2>1. Unpaid(to) \in [Orders -> Nat]
    BY <1>4, PendingTyped
  <2> QED  BY <1>3, <2>1
<1> QED  BY <1>3, <1>6, <1>7

(* No call that fails, at whatever point of a request, leaves an open      *)
(* order short of its reservation: the locked balances cover the books.    *)
THEOREM LocksCover == Serial /\ Funded => (Spec => []LocksCoverBook)
<1> SUFFICES ASSUME Serial, Funded PROVE Spec => []LocksCoverBook
  OBVIOUS
<1>1. FundsInvariant /\ Turns => LocksCoverBook
  <2> SUFFICES ASSUME FundsInvariant, Turns, Quiet, NEW a \in Accounts, NEW asset \in Assets
               PROVE  wallet[a].balances[asset].locked >= LockNeeded(a, asset)
    BY DEF LocksCoverBook
  <2>1. TypeInvariant /\ AllSettled
    BY DEF FundsInvariant
  <2>2. NoDebt
    BY <2>1, NobodyOwes DEF TypeInvariant, Typed
  <2> QED  BY <2>1, <2>2, SettledCovers
<1> QED  BY <1>1, FundsAreKept, TakesTurns, PTL

(* architecture.md:295, served one at a time: a fill that is about to be   *)
(* settled finds the funds its order reserved, so that Settle's underflow  *)
(* check never fires and no request is abandoned half-way.                 *)
THEOREM FillsAreFunded == Serial /\ Funded => (Spec => []MatchedFundsAreReserved)
<1> SUFFICES ASSUME Serial, Funded PROVE Spec => []MatchedFundsAreReserved
  OBVIOUS
<1>1. FundsInvariant /\ Turns => MatchedFundsAreReserved
  <2> SUFFICES ASSUME FundsInvariant, Turns, NEW r \in Requests, At(r, "settle")
               PROVE  CanSettle(wallet[orders[Subject(r)].account], MyPair(r),
                                orders[Subject(r)], Fill(r).quantity)
    BY DEF MatchedFundsAreReserved
  <2>1. Unpaid(job[r])[Subject(r)] >= Fill(r).quantity
    BY SettlingIsUnpaid
  <2> QED  BY <2>1, FillIsFunded
<1> QED  BY <1>1, FundsAreKept, TakesTurns, PTL

-----------------------------------------------------------------------------
(* To the unit.  When requests are served one after the other and no       *)
(* account write fails or loses its reply, the locked balances are exactly *)
(* what the open orders need: whatever else fails, the request in turn has *)
(* left nothing locked behind.                                             *)

(* No account write fails or loses its reply. *)
Writable == {"store", "ack"} \cap Faults = {}

(* Nothing is locked at the start but what the restored orders need, and   *)
(* each of them says so.                                                   *)
Snug == Exact /\ \A a \in Accounts, asset \in Assets : Surplus(a, asset) = 0

-----------------------------------------------------------------------------
(* Orders and copies *)

(* What has something left is in its book, or on its way there. *)
Rests ==
  \A o \in Orders : orders[o] # None /\ ~Unsent(o) /\ orders[o].remaining > 0 =>
    InBook(o) \/ (o \in Requests /\ At(o, "match"))

(* A request that gives up before Submit has reserved nothing; a deposit   *)
(* has no order.                                                           *)
NothingKept ==
  \A r \in Requests :
    /\ ~Busy(r) /\ orders[r] # None /\ Unsent(r) => orders[r].reserved = 0
    /\ Busy(r) /\ job[r].input.kind = "deposit" => orders[r] = None

(* A copy that is about to be written has the version of memory. *)
Timely ==
  \A r \in Requests : At(r, "persist") => job[r].clone.version = wallet[job[r].clone.id].version

LocksInvariant ==
  /\ FundsInvariant
  /\ "store" \in Wired => Versions
  /\ Rests
  /\ NothingKept
  /\ Timely

-----------------------------------------------------------------------------
(* Steps of the goroutine in turn *)

(* What another request has not sent to a book stays as it is.             *)
Untouched(r) ==
  \A q \in Requests \ {r} :
    \/ orders'[q] = orders[q]
    \/ /\ orders[q] # None /\ ~Unsent(q)
       /\ orders'[q].sequence = orders[q].sequence

(* No order comes into a book, or has more or less left. *)
Standing ==
  /\ queue' = queue
  /\ \A o \in Orders : orders'[o] # None /\ ~Unsent(o)' =>
       orders[o] # None /\ ~Unsent(o) /\ orders'[o].remaining = orders[o].remaining

LEMMA RestsStays ==
  ASSUME Rests, Standing, NEW r \in Requests, ~At(r, "match"),
         \A q \in Requests \ {r} : job'[q] = job[q]
  PROVE  Rests'
<1> SUFFICES ASSUME NEW o \in Orders, orders'[o] # None, ~Unsent(o)', orders'[o].remaining > 0
             PROVE  InBook(o)' \/ (o \in Requests /\ job'[o].pc = "match")
  BY DEF Rests, At
<1>1. orders[o] # None /\ ~Unsent(o) /\ orders[o].remaining > 0 /\ queue' = queue
  BY DEF Standing
<1>2. InBook(o) \/ (o \in Requests /\ At(o, "match"))
  BY <1>1 DEF Rests
<1> QED  BY <1>1, <1>2 DEF InBook, At

(* Everything but the books. *)
LEMMA LocksTurn ==
  ASSUME LocksInvariant, FundsInvariant', ("store" \in Wired => Versions)', NEW r \in Requests,
         Solo(r), \A q \in Requests \ {r} : job'[q] = job[q],
         Untouched(r), Rests',
         ~Busy(r)' /\ orders'[r] # None /\ Unsent(r)' => orders'[r].reserved = 0,
         Busy(r)' /\ job'[r].input.kind = "deposit" => orders'[r] = None,
         job'[r].pc = "persist" => job'[r].clone.version = wallet'[job'[r].clone.id].version
  PROVE  LocksInvariant'
<1>1. ASSUME NEW q \in Requests \ {r}
      PROVE  /\ ~Busy(q)'
             /\ orders'[q] # None /\ Unsent(q)' => orders'[q].reserved = 0
             /\ job'[q].pc # "persist"
  <2>1. job'[q] = job[q] /\ ~Busy(q)
    BY DEF Solo
  <2>2. orders[q] # None /\ Unsent(q) => orders[q].reserved = 0
    BY <2>1 DEF LocksInvariant, NothingKept
  <2>3. CASE orders'[q] = orders[q]
    BY <2>1, <2>2, <2>3 DEF Busy, Unsent
  <2>4. CASE orders'[q] # orders[q]
    BY <2>1, <2>4 DEF Busy, Unsent, Untouched
  <2> QED  BY <2>3, <2>4
<1>2. NothingKept'
  BY <1>1 DEF NothingKept
<1>3. Timely'
  BY <1>1 DEF Timely, At
<1> QED  BY <1>2, <1>3 DEF LocksInvariant

-----------------------------------------------------------------------------
(* Settlement *)

(* An order of a book changes, but not in what is left of it.              *)
Holding(o) ==
  /\ orders[o] # None /\ ~Unsent(o)
  /\ orders'[o].remaining = orders[o].remaining /\ orders'[o].sequence = orders[o].sequence

LEMMA HoldingStands ==
  ASSUME queue' = queue, \A o \in Orders : orders'[o] = orders[o] \/ Holding(o), NEW r \in Requests
  PROVE  Standing /\ Untouched(r)
<1>1. ASSUME NEW o \in Orders, orders'[o] # None, ~Unsent(o)'
      PROVE  orders[o] # None /\ ~Unsent(o) /\ orders'[o].remaining = orders[o].remaining
  <2>1. CASE orders'[o] = orders[o]
    BY <1>1, <2>1 DEF Unsent
  <2>2. CASE Holding(o)
    BY <2>2 DEF Holding
  <2> QED  BY <2>1, <2>2
<1>2. Untouched(r)
  BY DEF Untouched, Holding, Orders
<1> QED  BY <1>1, <1>2 DEF Standing

Settles(r) ==
  \/ LoadStatus(r) \/ StoreStatus(r) \/ Collect(r) \/ Settle(r)
  \/ LoadReserved(r) \/ StoreReserved(r) \/ CheckReserved(r) \/ ClampReserved(r)
  \/ ReleaseMaker(r) \/ ReleaseTaker(r)
  \/ ClipReserved(r) \/ SubtractReserved(r) \/ AddReserved(r) \/ ClearReserved(r)

LEMMA SubjectSent ==
  ASSUME FundsInvariant, NEW r \in Requests, job[r].pc \in Applying,
         job[r].role = "taker" \/ job[r].at \in 1..Len(job[r].fills)
  PROVE  /\ Subject(r) \in Orders /\ orders[Subject(r)] \in Order
         /\ orders[Subject(r)] # None /\ ~Unsent(Subject(r))
<1>1. /\ TypeInvariant /\ Keeps(r) /\ orders[r] \in Order /\ orders[r] # None /\ Local(r)
      /\ DOMAIN job[r].fills = 1..Len(job[r].fills) /\ Busy(r)
  BY ApplyingKnown
<1>2. ~Unsent(r)
  <2>1. orders[r].sequence > 0 /\ orders[r].sequence \in Nat
    BY <1>1, KnownOf DEF Local, Phased, Applying, Submitted, InFill, Order
  <2> QED  BY <2>1 DEF Unsent
<1>3. \A i \in DOMAIN job[r].fills : ~Unsent(job[r].fills[i].maker)
  BY <1>1 DEF Keeps, Matched
<1>4. ~Unsent(Subject(r))
  BY <1>1, <1>2, <1>3, ApplyingKnown DEF Subject, Fill
<1> QED  BY <1>1, <1>4, SubjectTyped

LEMMA ReservedHolds ==
  ASSUME TypeInvariant, NEW x \in Orders, orders[x] \in Order, orders[x] # None, ~Unsent(x), NEW v,
         orders' = [orders EXCEPT ![x].reserved = v]
  PROVE  \A o \in Orders : orders'[o] = orders[o] \/ Holding(o)
<1>1. orders \in [Orders -> Order \cup {None}]
  BY DEF TypeInvariant, Typed
<1>2. /\ \A o \in Orders \ {x} : orders'[o] = orders[o]
      /\ orders'[x] = [orders[x] EXCEPT !.reserved = v]
  BY <1>1
<1>3. orders'[x].remaining = orders[x].remaining /\ orders'[x].sequence = orders[x].sequence
  BY <1>2 DEF Order
<1> QED  BY <1>2, <1>3 DEF Holding

LEMMA SettlesFrame ==
  ASSUME FundsInvariant, NEW r \in Requests, Settles(r)
  PROVE  /\ job[r].pc \in Applying \ {"match"}
         /\ \A q \in Requests \ {r} : job'[q] = job[q]
         /\ job'[r].pc # "persist"
         /\ Busy(r)' => job'[r].input = job[r].input
         /\ queue' = queue
         /\ \A o \in Orders : orders'[o] = orders[o] \/ Holding(o)
<1>1. TypeInvariant /\ job \in [Requests -> Job] /\ job[r] \in Job
      /\ orders \in [Orders -> Order \cup {None}]
  BY SMTT(40) DEF FundsInvariant, TypeInvariant, Typed
<1>2. job[r].pc \in Applying \ {"match"}
  BY ZenonT(40) DEF Settles, LoadStatus, StoreStatus, Collect, Settle, LoadReserved, StoreReserved,
     CheckReserved, ClampReserved, ReleaseMaker, ReleaseTaker, ClipReserved, SubtractReserved,
     AddReserved, ClearReserved, At, Applying
<1>3. queue' = queue
  BY ZenonT(40) DEF Settles, LoadStatus, StoreStatus, Collect, Settle, LoadReserved, StoreReserved,
     CheckReserved, ClampReserved, ReleaseMaker, ReleaseTaker, StartRelease, ClipReserved,
     SubtractReserved, AddReserved, ClearReserved, book
<1>4. (\A q \in Requests \ {r} : job'[q] = job[q]) /\ job'[r].pc # "persist"
  <2>1. CASE Collect(r)
    BY <1>1, <2>1, CollectFacts
  <2>2. CASE ~Collect(r)
    <3>1. Departs(r)
      BY <1>1, <2>2, PlainSteps DEF Settles, Elsewhere, Plain
    <3> QED  BY <3>1 DEF Departs, Syncing
  <2> QED  BY <2>1, <2>2
<1>5. Busy(r)' => job'[r].input = job[r].input
  <2>1. CASE LoadStatus(r)
    BY <1>1, <2>1 DEF LoadStatus, Job
  <2>2. CASE StoreStatus(r)
    BY <1>1, <2>2 DEF StoreStatus, Job
  <2>3. CASE Collect(r)
    BY <1>1, <2>3, CollectFacts
  <2>4. CASE Settle(r)
    <3>1. CASE Fail(r)
      BY <1>1, <3>1 DEF Fail, Return, Job, Idle
    <3>2. CASE ~Fail(r)
      BY <1>1, <2>4, <3>2 DEF Settle, Job
    <3> QED  BY <3>1, <3>2
  <2>5. CASE LoadReserved(r)
    BY <1>1, <2>5 DEF LoadReserved, Job
  <2>6. CASE StoreReserved(r)
    BY <1>1, <2>6 DEF StoreReserved, Job
  <2>7. CASE CheckReserved(r) \/ ClampReserved(r)
    <3>1. Goto(r, "clampReserved") \/ AfterAdjust(r)
      BY <2>7 DEF CheckReserved, ClampReserved
    <3> QED  BY <1>1, <3>1 DEF AfterAdjust, Goto, Job
  <2>8. CASE ReleaseMaker(r) \/ ReleaseTaker(r) \/ ClipReserved(r) \/ ClearReserved(r)
    <3>1. PICK label : Goto(r, label)
      BY <2>8 DEF ReleaseMaker, ReleaseTaker, StartRelease, ClipReserved, ClearReserved
    <3> QED  BY <1>1, <3>1 DEF Goto, Job
  <2>9. CASE SubtractReserved(r)
    BY <1>1, <2>9 DEF SubtractReserved, Job
  <2>10. CASE AddReserved(r)
    BY <1>1, <2>10 DEF AddReserved, Job
  <2> QED  BY <2>1, <2>2, <2>3, <2>4, <2>5, <2>6, <2>7, <2>8, <2>9, <2>10 DEF Settles
<1>6. \A o \in Orders : orders'[o] = orders[o] \/ Holding(o)
  <2>1. CASE orders' = orders
    BY <2>1
  <2>2. CASE StoreStatus(r)
    <3> DEFINE x == Subject(r)
               v == job[r].status
    <3>1. orders' = [orders EXCEPT ![x].status = v] /\ At(r, "storeStatus")
      BY <2>2 DEF StoreStatus
    <3>2. x \in Orders /\ orders[x] \in Order /\ orders[x] # None /\ ~Unsent(x)
      BY <1>1, <1>2, <3>1, SubjectSent, KnownOf DEF Local, Positioned, At
    <3> HIDE DEF x, v
    <3>3. /\ \A o \in Orders \ {x} : orders'[o] = orders[o]
          /\ orders'[x] = [orders[x] EXCEPT !.status = v]
      BY <1>1, <3>1, <3>2
    <3>4. orders'[x].remaining = orders[x].remaining /\ orders'[x].sequence = orders[x].sequence
      BY <3>2, <3>3 DEF Order
    <3> QED  BY <3>2, <3>3, <3>4 DEF Holding
  <2>3. CASE \/ StoreReserved(r) \/ ClampReserved(r) \/ ClipReserved(r) \/ ClearReserved(r)
    <3> DEFINE x == Subject(r)
    <3>1. PICK v : orders' = [orders EXCEPT ![x].reserved = v]
      BY <2>3 DEF StoreReserved, ClampReserved, ClipReserved, ClearReserved
    <3>2. job[r].pc \in Settling
      BY <2>3 DEF StoreReserved, ClampReserved, ClipReserved, ClearReserved, At, Settling
    <3>3. job[r].role = "taker" \/ job[r].at \in 1..Len(job[r].fills)
      BY <1>1, <3>2, SettlingKnown
    <3>4. x \in Orders /\ orders[x] \in Order /\ orders[x] # None /\ ~Unsent(x)
      BY <1>2, <3>3, SubjectSent
    <3> HIDE DEF x
    <3> QED  BY <1>1, <3>1, <3>4, ReservedHolds
  <2> QED  BY <2>1, <2>2, <2>3 DEF Settles, LoadStatus, Collect, Settle, LoadReserved, CheckReserved,
             ReleaseMaker, ReleaseTaker, StartRelease, SubtractReserved, AddReserved, memory
<1> QED  BY <1>2, <1>3, <1>4, <1>5, <1>6

LEMMA SettlesKeepsLocks ==
  ASSUME LocksInvariant, FundsInvariant', ("store" \in Wired => Versions)',
         NEW r \in Requests, Settles(r)
  PROVE  LocksInvariant'
<1>1. FundsInvariant /\ Rests
  BY DEF LocksInvariant
<1>2. /\ job[r].pc \in Applying \ {"match"}
      /\ \A q \in Requests \ {r} : job'[q] = job[q]
      /\ job'[r].pc # "persist"
      /\ Busy(r)' => job'[r].input = job[r].input
      /\ queue' = queue
      /\ \A o \in Orders : orders'[o] = orders[o] \/ Holding(o)
  BY <1>1, SettlesFrame
<1>3. Solo(r) /\ orders[r] # None /\ job[r].input.kind # "deposit" /\ r \in Orders
  BY <1>1, <1>2, ApplyingKnown, BusyIsSolo, KnownOf DEF Applying, Submitted, InFill
<1>4. ~Unsent(r)
  <2>1. Local(r) /\ Busy(r) /\ orders[r] \in Order
    BY <1>1, <1>2, ApplyingKnown
  <2>2. orders[r].sequence > 0 /\ orders[r].sequence \in Nat
    BY <1>2, <1>3, <2>1 DEF Local, Phased, Applying, Submitted, InFill, Order
  <2> QED  BY <2>2 DEF Unsent
<1>5. ~Unsent(r)'
  BY <1>2, <1>3, <1>4 DEF Holding, Unsent
<1>6. Standing /\ Untouched(r)
  BY <1>2, HoldingStands
<1>7. Rests'
  BY <1>1, <1>2, <1>6, RestsStays DEF At
<1> QED  BY <1>2, <1>3, <1>5, <1>6, <1>7, LocksTurn

-----------------------------------------------------------------------------
(* What follows the settlement *)

LEMMA ReportsLate ==
  ASSUME NEW r \in Requests, Reports(r), "store" \notin Faults
  PROVE  job[r].pc \in Submitted \cup Auditing
<1> USE DEF At, Submitted, WithRow, InFill, Auditing
<1>1. CASE CallFails(r)
  BY SMTT(40), <1>1 DEF CallFails
<1>2. CASE ~CallFails(r)
  BY ZenonT(40), <1>2 DEF Reports, NextOrder, PersistOrder, MarshalOrder, PublishOrder,
     PersistTrades, Record,
     RecordAudit, PersistAudit, PublishAudit, PublishTrade, TakeSnapshot, CacheOrderBook,
     CopyTrades, CacheTrades
<1> QED  BY <1>1, <1>2

LEMMA ReportsKeepLocks ==
  ASSUME Writable, LocksInvariant, FundsInvariant', ("store" \in Wired => Versions)',
         NEW r \in Requests, Reports(r)
  PROVE  LocksInvariant'
<1>1. TypeInvariant /\ FundsInvariant /\ Rests
  BY DEF LocksInvariant, FundsInvariant
<1>2. Leaves(r) /\ Busy(r) /\ job[r].pc \notin Applying /\ UNCHANGED <<wallet, orders, queue>>
  BY <1>1, ReportsPass
<1>3. Departs(r)
  BY <1>1, PlainSteps DEF Reports, Elsewhere, Plain
<1>4. job[r].pc \in Submitted \cup Auditing
  BY ReportsLate DEF Writable
<1>5. Solo(r) /\ Local(r) /\ r \in Orders
  BY <1>1, <1>2, BusyIsSolo, KnownOf
<1>6. /\ job[r].input.kind = "deposit" => orders[r] = None
      /\ job[r].input.kind # "deposit" => ~Unsent(r)
  <2>1. job[r].input.kind = "deposit" => orders[r] = None
    BY <1>2 DEF LocksInvariant, NothingKept
  <2>2. ASSUME job[r].input.kind # "deposit" PROVE ~Unsent(r)
    <3>1. orders[r] # None /\ orders[r].sequence > 0
      BY <1>2, <1>4, <1>5, <2>2 DEF Local, Phased
    <3>2. orders[r] \in Order
      BY <1>1, <1>5, <3>1 DEF TypeInvariant, Typed
    <3>3. orders[r].sequence \in Nat
      BY <3>2 DEF Order
    <3> QED  BY <3>1, <3>3 DEF Unsent
  <2> QED  BY <2>1, <2>2
<1>7. Standing /\ Untouched(r)
  BY <1>2, HoldingStands
<1>8. Rests'
  BY <1>1, <1>2, <1>3, <1>7, RestsStays DEF At, Applying, Departs
<1>9. /\ ~Busy(r)' /\ orders'[r] # None /\ Unsent(r)' => orders'[r].reserved = 0
      /\ Busy(r)' /\ job'[r].input.kind = "deposit" => orders'[r] = None
  BY <1>2, <1>6 DEF Leaves, Unsent
<1> QED  BY <1>3, <1>5, <1>7, <1>8, <1>9, LocksTurn DEF Departs, Syncing

-----------------------------------------------------------------------------
(* A request comes in, and syncAccount *)

LEMMA AcceptKeepsLocks ==
  ASSUME Serial, LocksInvariant, FundsInvariant', ("store" \in Wired => Versions)',
         NEW r \in Requests, Accept(r)
  PROVE  LocksInvariant'
<1>1. TypeInvariant /\ FundsInvariant /\ Rests /\ Labelled
  BY DEF LocksInvariant, FundsInvariant
<1>2. Quiet /\ At(r, "idle")
  BY AcceptedAlone DEF Accept
<1>3. /\ job \in [Requests -> Job] /\ job[r] = Idle /\ orders[r] = None /\ r \in Orders
      /\ orders \in [Orders -> Order \cup {None}] /\ Solo(r)
  BY <1>1, <1>2, QuietIsSolo DEF TypeInvariant, Typed, Local, Phased, Orders
<1>4. PICK in \in Inputs : Deposit(r, in) \/ PlaceOrder(r, in)
  BY DEF Accept
<1>5. CASE Deposit(r, in)
  <2>1. /\ wallet' = wallet /\ orders' = orders /\ queue' = queue
        /\ in.account \in Accounts /\ in.asset \in Assets
    BY <1>4, <1>5, ExchangeAssumption DEF Deposit, memory, book, WellFormed
  <2>2. \A q \in Requests \ {r} : job'[q] = job[q]
    BY <1>3, <1>5 DEF Deposit
  <2>3. job'[r].pc = "persist" => job'[r].clone.version = wallet'[job'[r].clone.id].version
    <3>1. CASE in.amount <= 0
      <4>1. job' = [job EXCEPT ![r].pc = "failed", ![r].input = in]
        BY <1>5, <3>1 DEF Deposit
      <4> QED  BY <1>3, <4>1 DEF Job
    <3>2. CASE ~(in.amount <= 0)
      <4> DEFINE c == Crediting(wallet[in.account], in.asset, in.amount)
      <4>1. job' = [job EXCEPT ![r].pc = "persist", ![r].input = in, ![r].clone = c]
        BY <1>5, <3>2 DEF Deposit
      <4>2. wallet[in.account] \in Solvent /\ wallet[in.account].id = in.account
        BY <1>1, <2>1 DEF TypeInvariant, Typed, Labelled
      <4>3. c.id = in.account /\ c.version = wallet[in.account].version
        BY <4>2, CreditingKeepsVersion
      <4> HIDE DEF c
      <4>4. job'[r].clone = c
        BY <1>3, <4>1 DEF Job
      <4> QED  BY <2>1, <4>3, <4>4
    <3> QED  BY <3>1, <3>2
  <2>4. Standing /\ Untouched(r)
    BY <2>1, HoldingStands
  <2>5. Rests'
    BY <1>1, <1>2, <2>2, <2>4, RestsStays DEF At
  <2> QED  BY <1>3, <2>1, <2>2, <2>3, <2>4, <2>5, LocksTurn
<1>6. CASE PlaceOrder(r, in)
  <2>1. wallet' = wallet /\ queue' = queue /\ in.kind = "order"
    BY <1>6 DEF PlaceOrder, book
  <2>2. /\ \A q \in Requests \ {r} : job'[q] = job[q]
        /\ job'[r].input = in /\ job'[r].pc \in {"reserve", "failed"}
    BY <1>3, <1>6 DEF PlaceOrder, Job
  <2>3. /\ \A o \in Orders \ {r} : orders'[o] = orders[o]
        /\ orders'[r] # None => orders'[r].sequence = 0 /\ orders'[r].reserved = 0
    BY <1>3, <1>6 DEF PlaceOrder, NewOrder
  <2>4. Standing
    <3> SUFFICES ASSUME NEW o \in Orders, orders'[o] # None, ~Unsent(o)'
                 PROVE  orders[o] # None /\ ~Unsent(o) /\ orders'[o].remaining = orders[o].remaining
      BY <2>1 DEF Standing
    <3>1. o # r
      BY <2>3 DEF Unsent
    <3> QED  BY <2>3, <3>1 DEF Unsent
  <2>5. Untouched(r)
    BY <2>3 DEF Untouched, Orders
  <2>6. Rests'
    BY <1>1, <1>2, <2>2, <2>4, RestsStays DEF At
  <2> QED  BY <1>3, <2>1, <2>2, <2>3, <2>5, <2>6, LocksTurn
<1> QED  BY <1>4, <1>5, <1>6

(* A step that changes no order and no book, and does not return. *)
LEMMA CalmLocks ==
  ASSUME LocksInvariant, FundsInvariant', ("store" \in Wired => Versions)', NEW r \in Requests,
         Busy(r), ~At(r, "match"), UNCHANGED <<orders, queue>>,
         \A q \in Requests \ {r} : job'[q] = job[q],
         Busy(r)', job'[r].input = job[r].input,
         job'[r].pc = "persist" => job'[r].clone.version = wallet'[job'[r].clone.id].version
  PROVE  LocksInvariant'
<1>1. FundsInvariant /\ Rests /\ Solo(r)
  BY BusyIsSolo DEF LocksInvariant
<1>2. Standing /\ Untouched(r)
  BY HoldingStands
<1>3. Rests'
  BY <1>1, <1>2, RestsStays
<1>4. Busy(r)' /\ job'[r].input.kind = "deposit" => orders'[r] = None
  BY DEF LocksInvariant, NothingKept
<1> QED  BY <1>1, <1>2, <1>3, <1>4, LocksTurn

LEMMA ReserveKeepsLocks ==
  ASSUME LocksInvariant, FundsInvariant', ("store" \in Wired => Versions)',
         NEW r \in Requests, Reserve(r)
  PROVE  LocksInvariant'
<1>1. TypeInvariant /\ FundsInvariant /\ Rests
  BY DEF LocksInvariant, FundsInvariant
<1>2. /\ At(r, "reserve") /\ Busy(r) /\ queue' = queue
  BY DEF Reserve, At, Busy, book
<1>3. /\ job[r] \in Job /\ r \in Orders /\ orders[r] \in Order /\ orders[r] # None
      /\ job \in [Requests -> Job] /\ orders \in [Orders -> Order \cup {None}]
      /\ job[r].input.kind # "deposit" /\ orders[r].sequence = 0 /\ Solo(r) /\ Keeps(r)
  BY <1>1, <1>2, KnownOf, BusyIsSolo DEF At, Unsubmitted, Local, Phased, TypeInvariant, Typed
<1>4. CASE Fail(r) /\ UNCHANGED <<wallet, orders>>
  <2>1. job'[r].pc = "failed" /\ \A q \in Requests \ {r} : job'[q] = job[q]
    BY <1>3, <1>4 DEF Fail, Return, Idle
  <2>2. orders[r].reserved = 0
    BY <1>2, <1>3 DEF Keeps, BeforeSubmit
  <2>3. Standing /\ Untouched(r)
    BY <1>2, <1>4, HoldingStands
  <2>4. Rests'
    BY <1>1, <1>2, <2>1, <2>3, RestsStays DEF At
  <2> QED  BY <1>3, <1>4, <2>1, <2>2, <2>3, <2>4, LocksTurn DEF Busy
<1>5. CASE ~(Fail(r) /\ UNCHANGED <<wallet, orders>>)
  <2> DEFINE o == orders[r]
             cost == Needs(o, o.quantity)
  <2>1. orders' = [orders EXCEPT ![r].reserved = cost] /\ Goto(r, "clone")
    BY <1>5 DEF Reserve
  <2>2. /\ job'[r].pc = "clone" /\ job'[r].input = job[r].input
        /\ \A q \in Requests \ {r} : job'[q] = job[q]
    BY <1>3, <2>1 DEF Goto, Job
  <2> HIDE DEF cost
  <2>3. /\ \A x \in Orders \ {r} : orders'[x] = orders[x]
        /\ orders'[r] = [o EXCEPT !.reserved = cost]
    BY <1>3, <2>1
  <2>4. orders'[r].sequence = 0
    BY <1>3, <2>3 DEF Order
  <2>5. Standing
    <3> SUFFICES ASSUME NEW x \in Orders, orders'[x] # None, ~Unsent(x)'
                 PROVE  orders[x] # None /\ ~Unsent(x) /\ orders'[x].remaining = orders[x].remaining
      BY <1>2 DEF Standing
    <3>1. x # r
      BY <2>4 DEF Unsent
    <3> QED  BY <2>3, <3>1 DEF Unsent
  <2>6. Untouched(r)
    BY <2>3 DEF Untouched, Orders
  <2>7. Rests'
    BY <1>1, <1>2, <2>2, <2>5, RestsStays DEF At
  <2> QED  BY <1>3, <2>2, <2>6, <2>7, LocksTurn DEF Busy
<1> QED  BY <1>4, <1>5

LEMMA GetReservedKeepsLocks ==
  ASSUME LocksInvariant, FundsInvariant', ("store" \in Wired => Versions)',
         NEW r \in Requests, GetReserved(r)
  PROVE  LocksInvariant'
<1> DEFINE c == wallet[orders[r].account]
<1>1. /\ At(r, "clone") /\ Busy(r) /\ ~At(r, "match") /\ UNCHANGED <<wallet, orders, queue>>
      /\ job' = [job EXCEPT ![r].pc = "persist", ![r].clone = c]
      /\ TypeInvariant /\ Labelled
  BY DEF GetReserved, At, Busy, memory, book, LocksInvariant, FundsInvariant
<1>2. job \in [Requests -> Job] /\ job[r] \in Job /\ orders[r] \in Order
  BY <1>1, KnownOf DEF At, Unsubmitted, TypeInvariant, Typed
<1>3. c.id = orders[r].account
  BY <1>1, <1>2 DEF Labelled, Order
<1> HIDE DEF c
<1>4. /\ job'[r].pc = "persist" /\ job'[r].input = job[r].input /\ job'[r].clone = c
      /\ \A q \in Requests \ {r} : job'[q] = job[q]
  BY <1>1, <1>2 DEF Job
<1>5. job'[r].clone.version = wallet'[job'[r].clone.id].version
  BY <1>1, <1>3, <1>4 DEF c
<1>6. Busy(r)'
  BY <1>4 DEF Busy
<1> QED  BY <1>1, <1>4, <1>5, <1>6, CalmLocks

(* The row has the version of memory, and of the copy: the update matches. *)
LEMMA RowIsCurrent ==
  ASSUME Writable, "store" \in Wired, LocksInvariant, NEW r \in Requests, At(r, "persist")
  PROVE  db.accounts[job[r].clone.id].version = job[r].clone.version
<1> DEFINE a == job[r].clone.id
<1>1. TypeInvariant /\ FundsInvariant /\ Versions /\ Busy(r)
  BY DEF LocksInvariant, FundsInvariant, At, Busy
<1>2. a \in Accounts /\ Solo(r)
  BY <1>1, BusyIsSolo DEF Versions, Copies, Current
<1>3. wallet[a].version \in Nat /\ db.accounts[a].version \in Nat
  <2>1. wallet[a] \in Solvent /\ db.accounts[a] \in Solvent
    BY <1>1, <1>2 DEF TypeInvariant, Typed, Database
  <2> QED  BY <2>1 DEF Solvent
<1>4. \A q \in Requests : ~Carrying(q, a)
  BY <1>2 DEF Solo, Busy, Carrying, At
<1>5. wallet[a].version <= db.accounts[a].version /\ ~(wallet[a].version < db.accounts[a].version)
  BY <1>1, <1>2, <1>4 DEF Versions, OneWriterAtATime, Writable
<1>6. job[r].clone.version = wallet[a].version
  BY DEF LocksInvariant, Timely
<1> QED  BY <1>3, <1>5, <1>6

LEMMA PersistAccountKeepsLocks ==
  ASSUME Writable, LocksInvariant, FundsInvariant', ("store" \in Wired => Versions)',
         NEW r \in Requests, PersistAccount(r)
  PROVE  LocksInvariant'
<1> DEFINE c == job[r].clone
           next == [c EXCEPT !.version = @ + 1]
<1>1. /\ At(r, "persist") /\ Busy(r) /\ ~At(r, "match") /\ UNCHANGED <<orders, queue>>
      /\ job \in [Requests -> Job] /\ job[r] \in Job
  BY DEF PersistAccount, At, Busy, memory, book, LocksInvariant, FundsInvariant, TypeInvariant, Typed
<1>2. Goto(r, "replace") \/ job' = [job EXCEPT ![r].pc = "replace", ![r].clone = next]
  <2>1. CASE "store" \notin Wired
    BY <2>1 DEF PersistAccount
  <2>2. CASE "store" \in Wired
    <3>1. db.accounts[c.id].version = c.version
      BY <1>1, <2>2, RowIsCurrent
    <3> QED  BY <2>2, <3>1 DEF PersistAccount, Writable
  <2> QED  BY <2>1, <2>2
<1> HIDE DEF next
<1>3. /\ job'[r].pc = "replace" /\ job'[r].input = job[r].input
      /\ \A q \in Requests \ {r} : job'[q] = job[q]
  BY <1>1, <1>2 DEF Goto, Job
<1>4. Busy(r)'
  BY <1>3 DEF Busy
<1> QED  BY <1>1, <1>3, <1>4, CalmLocks

LEMMA ReplaceAccountKeepsLocks ==
  ASSUME LocksInvariant, FundsInvariant', ("store" \in Wired => Versions)',
         NEW r \in Requests, ReplaceAccount(r)
  PROVE  LocksInvariant'
<1>1. /\ At(r, "replace") /\ Busy(r) /\ ~At(r, "match") /\ UNCHANGED <<orders, queue>>
      /\ Goto(r, "cacheAccount") /\ job \in [Requests -> Job] /\ job[r] \in Job
  BY DEF ReplaceAccount, At, Busy, book, LocksInvariant, FundsInvariant, TypeInvariant, Typed
<1>2. /\ job'[r].pc = "cacheAccount" /\ job'[r].input = job[r].input
      /\ \A q \in Requests \ {r} : job'[q] = job[q]
  BY <1>1 DEF Goto, Job
<1>3. Busy(r)'
  BY <1>2 DEF Busy
<1> QED  BY <1>1, <1>2, <1>3, CalmLocks

LEMMA CacheAccountKeepsLocks ==
  ASSUME LocksInvariant, FundsInvariant', ("store" \in Wired => Versions)',
         NEW r \in Requests, CacheAccount(r)
  PROVE  LocksInvariant'
<1> DEFINE label == IF job[r].input.kind = "deposit" THEN "audit"
                    ELSE IF orders[r].sequence = 0 THEN "submit" ELSE "accounts"
<1>1. /\ At(r, "cacheAccount") /\ Busy(r) /\ ~At(r, "match") /\ UNCHANGED <<orders, queue>>
      /\ Goto(r, label) /\ job \in [Requests -> Job] /\ job[r] \in Job
  BY DEF CacheAccount, At, Busy, memory, book, LocksInvariant, FundsInvariant, TypeInvariant, Typed
<1>2. label \in {"audit", "submit", "accounts"}
  OBVIOUS
<1> HIDE DEF label
<1>3. /\ job'[r].pc = label /\ job'[r].input = job[r].input
      /\ \A q \in Requests \ {r} : job'[q] = job[q]
  BY <1>1 DEF Goto, Job
<1>4. Busy(r)' /\ job'[r].pc # "persist"
  BY <1>2, <1>3 DEF Busy
<1> QED  BY <1>1, <1>3, <1>4, CalmLocks

LEMMA NextAccountKeepsLocks ==
  ASSUME LocksInvariant, FundsInvariant', ("store" \in Wired => Versions)',
         NEW r \in Requests, NextAccount(r)
  PROVE  LocksInvariant'
<1> DEFINE left == {a \in Accounts : job[r].accounts[a] # None}
<1>1. /\ At(r, "accounts") /\ Busy(r) /\ ~At(r, "match") /\ UNCHANGED <<wallet, orders, queue>>
      /\ job \in [Requests -> Job] /\ job[r] \in Job /\ FundsInvariant /\ Labelled
  BY DEF NextAccount, At, Busy, memory, book, LocksInvariant, FundsInvariant, TypeInvariant, Typed
<1>2. CASE left = {}
  <2>1. Goto(r, "orders")
    BY <1>2 DEF NextAccount
  <2>2. /\ job'[r].pc = "orders" /\ job'[r].input = job[r].input
        /\ \A q \in Requests \ {r} : job'[q] = job[q]
    BY <1>1, <2>1 DEF Goto, Job
  <2>3. Busy(r)'
    BY <2>2 DEF Busy
  <2> QED  BY <1>1, <2>2, <2>3, CalmLocks
<1>3. CASE left # {}
  <2>1. PICK a \in left :
          job' = [job EXCEPT ![r].pc = "persist", ![r].clone = job[r].accounts[a],
                             ![r].accounts[a] = None]
    BY <1>3 DEF NextAccount
  <2>2. a \in Accounts /\ job[r].accounts[a] # None
    OBVIOUS
  <2>3. job[r].accounts[a] = wallet[a]
    <3>1. Keeps(r)
      BY <1>1, BusyIsSolo
    <3>2. Dirty(r) = {}
      BY <1>1 DEF Dirty, At, Applying
    <3> QED  BY <2>2, <3>1, <3>2 DEF Keeps, Copied
  <2>4. /\ job'[r].pc = "persist" /\ job'[r].input = job[r].input
        /\ job'[r].clone = job[r].accounts[a]
        /\ \A q \in Requests \ {r} : job'[q] = job[q]
    BY <1>1, <2>1 DEF Job
  <2>5. job'[r].clone.version = wallet'[job'[r].clone.id].version
    BY <1>1, <2>2, <2>3, <2>4 DEF Labelled
  <2>6. Busy(r)'
    BY <2>4 DEF Busy
  <2> QED  BY <1>1, <2>4, <2>5, <2>6, CalmLocks
<1> QED  BY <1>2, <1>3

-----------------------------------------------------------------------------
(* Submit *)

LEMMA SubmitKeepsLocks ==
  ASSUME LocksInvariant, FundsInvariant', ("store" \in Wired => Versions)',
         NEW r \in Requests, Submit(r)
  PROVE  LocksInvariant'
<1> DEFINE o == orders[r]
           n == seq[o.symbol] + 1
<1>1. /\ At(r, "submit") /\ Busy(r) /\ queue' = queue /\ Goto(r, "match")
      /\ orders' = [orders EXCEPT ![r].sequence = n, ![r].remaining = o.quantity]
      /\ TypeInvariant /\ FundsInvariant /\ Rests
  BY DEF Submit, At, Busy, LocksInvariant, FundsInvariant
<1>2. /\ job \in [Requests -> Job] /\ job[r] \in Job /\ r \in Orders /\ o \in Order /\ Solo(r)
      /\ job[r].input.kind # "deposit" /\ orders \in [Orders -> Order \cup {None}]
  BY <1>1, KnownOf, BusyIsSolo DEF At, Unsubmitted, TypeInvariant, Typed
<1>3. n \in Nat /\ n # 0
  <2>1. seq[o.symbol] \in Nat
    BY <1>1, <1>2 DEF TypeInvariant, Typed, Order
  <2> QED  BY <2>1
<1> HIDE DEF n
<1>4. /\ \A x \in Orders \ {r} : orders'[x] = orders[x]
      /\ orders'[r] = [o EXCEPT !.sequence = n, !.remaining = o.quantity]
  BY <1>1, <1>2
<1>5. orders'[r].sequence = n
  BY <1>2, <1>4 DEF Order
<1>6. /\ job'[r].pc = "match" /\ job'[r].input = job[r].input
      /\ \A q \in Requests \ {r} : job'[q] = job[q]
  BY <1>1, <1>2 DEF Goto, Job
<1>7. Rests'
  <2> SUFFICES ASSUME NEW x \in Orders, x # r, orders'[x] # None, ~Unsent(x)', orders'[x].remaining > 0
               PROVE  InBook(x)' \/ (x \in Requests /\ job'[x].pc = "match")
    BY <1>6 DEF Rests, At
  <2>1. InBook(x) \/ (x \in Requests /\ At(x, "match"))
    BY <1>1, <1>4 DEF Rests, Unsent
  <2> QED  BY <1>1, <1>6, <2>1 DEF InBook, At
<1>8. Untouched(r)
  BY <1>4 DEF Untouched, Orders
<1> QED  BY <1>2, <1>3, <1>5, <1>6, <1>7, <1>8, LocksTurn DEF Busy, Unsent

(* A queue without its head. *)
LEMMA BehindHead ==
  ASSUME NEW S, NEW q \in Seq(S), q # << >>, NEW x \in Range(q), x # Head(q)
  PROVE  x \in Range(Tail(q))
<1>1. Len(q) \in Nat \ {0} /\ Head(q) = q[1]
  BY EmptySeq, HeadTailProperties
<1>2. /\ Tail(q) \in Seq(S) /\ Len(Tail(q)) = Len(q) - 1
      /\ \A i \in 1..Len(Tail(q)) : Tail(q)[i] = q[i + 1]
  BY HeadTailProperties
<1>3. PICK i \in 1..Len(q) : q[i] = x
  BY RangeProperties
<1>4. i # 1 /\ i - 1 \in 1..(Len(q) - 1) /\ (i - 1) + 1 = i
  BY <1>1, <1>3
<1>5. Tail(q)[i - 1] = x
  BY <1>2, <1>3, <1>4
<1> QED  BY <1>2, <1>4, <1>5, RangeProperties

LEMMA MatchKeepsLocks ==
  ASSUME LocksInvariant, FundsInvariant', ("store" \in Wired => Versions)',
         NEW r \in Requests, Match(r)
  PROVE  LocksInvariant'
<1> DEFINE s == orders[r].symbol
           away == Opposite(orders[r].side)
           q == queue[s][away]
           maker == Head(q)
           n == FillQuantity(orders, r, maker)
           fill == FillOf(orders, r, maker)
<1>1. /\ At(r, "match") /\ Busy(r) /\ job[r].pc \in Applying
      /\ queue' = [queue EXCEPT ![s] = AfterFill(orders, queue[s], r, maker)]
      /\ job' = [job EXCEPT ![r] = [job[r] EXCEPT !.fills = Append(job[r].fills, fill)]]
      /\ TypeInvariant /\ FundsInvariant /\ Rests
  BY SMTT(40) DEF Match, At, Busy, Applying, LocksInvariant, FundsInvariant
<1>2. /\ job \in [Requests -> Job] /\ job[r] \in Job /\ r \in Orders /\ Solo(r)
      /\ job[r].input.kind # "deposit" /\ orders[r] \in Order
      /\ job[r].role = "taker"
      /\ queue \in [Symbols -> [Sides -> Seq(Orders)]]
  BY <1>1, KnownOf, BusyIsSolo DEF At, Submitted, TypeInvariant, Typed, Local, Positioned
<1>3. /\ s \in Symbols /\ away \in Sides /\ q \in Seq(Orders) /\ q # << >> /\ maker \in Range(q)
      /\ maker \in Orders /\ maker # r /\ orders[maker] \in Order /\ orders[maker] # None
      /\ \A o \in Orders \ {r, maker} : orders'[o] = orders[o]
      /\ orders'[maker] = [orders[maker] EXCEPT !.remaining = @ - n]
      /\ orders'[r] = [orders[r] EXCEPT !.remaining = @ - n]
      /\ n \in Nat
  BY ZenonT(40), <1>1, MatchFacts
<1>4. ~Unsent(maker) /\ ~Unsent(r)
  <2>1. InBook(maker)
    BY ZenonT(40), <1>3 DEF InBook
  <2>2. ~Unsent(maker)
    BY ZenonT(40), <1>1, <1>3, <2>1, RestingClaims
  <2>3. ~Unsent(r)
    BY <1>1, <1>2, SubjectSent DEF Subject
  <2> QED  BY <2>2, <2>3
<1>5. /\ job'[r].pc = "match" /\ job'[r].input = job[r].input
      /\ \A y \in Requests \ {r} : job'[y] = job[y]
  <2> DEFINE to == [job[r] EXCEPT !.fills = Append(job[r].fills, fill)]
  <2>1. to.pc = job[r].pc /\ to.input = job[r].input
    BY <1>2 DEF Job
  <2>2. job' = [job EXCEPT ![r] = to]
    BY SMTT(40), <1>1
  <2> HIDE DEF to
  <2> QED  BY <1>1, <1>2, <2>1, <2>2 DEF At
<1>6. \/ queue' = queue /\ n # orders[maker].remaining
      \/ queue' = [queue EXCEPT ![s] = [queue[s] EXCEPT ![away] = Tail(q)]]
           /\ n = orders[maker].remaining
  <2>1. CASE orders[maker].remaining = n
    BY <1>1, <2>1 DEF AfterFill
  <2>2. CASE orders[maker].remaining # n
    <3>1. AfterFill(orders, queue[s], r, maker) = queue[s]
      BY <2>2 DEF AfterFill
    <3> HIDE DEF s, maker, n
    <3>2. queue' = queue
      BY <1>1, <1>2, <1>3, <3>1
    <3> QED  BY <2>2, <3>2
  <2> QED  BY ZenonT(40), <2>1, <2>2
<1> HIDE DEF maker, n, fill
<1>7. /\ orders'[maker].remaining = orders[maker].remaining - n
      /\ orders'[maker].sequence = orders[maker].sequence
      /\ orders'[r].sequence = orders[r].sequence
  BY <1>2, <1>3 DEF Order
<1>8. ASSUME NEW x \in Orders, InBook(x), x # maker \/ queue' = queue
      PROVE  InBook(x)'
  <2>1. PICK t \in Symbols, side \in Sides : x \in Range(queue[t][side])
    BY <1>8 DEF InBook
  <2>2. CASE queue' = queue
    BY <2>1, <2>2 DEF InBook
  <2>3. CASE x # maker /\ queue' = [queue EXCEPT ![s] = [queue[s] EXCEPT ![away] = Tail(q)]]
    <3> HIDE DEF s, away
    <3>1. queue'[t][side] = IF t = s /\ side = away THEN Tail(q) ELSE queue[t][side]
      <4> HIDE DEF q
      <4> QED  BY <1>2, <1>3, <2>1, <2>3
    <3>2. CASE t = s /\ side = away
      <4>1. x \in Range(q)
        BY <2>1, <3>2
      <4> HIDE DEF q
      <4>2. x \in Range(Tail(q))
        BY <1>3, <2>3, <4>1, BehindHead DEF maker
      <4> QED  BY <2>1, <3>1, <3>2, <4>2 DEF InBook
    <3>3. CASE ~(t = s /\ side = away)
      BY <2>1, <3>1, <3>3 DEF InBook
    <3> QED  BY <3>2, <3>3
  <2> QED  BY <1>6, <1>8, <2>2, <2>3
<1> HIDE DEF q, s, away
<1>9. Rests'
  <2> SUFFICES ASSUME NEW x \in Orders, x # r, orders'[x] # None, ~Unsent(x)', orders'[x].remaining > 0
               PROVE  InBook(x)'
    BY <1>5 DEF Rests, At
  <2>1. CASE x = maker
    <3>1. InBook(x)
      BY <1>3, <2>1 DEF InBook, q
    <3>2. queue' = queue
      BY <1>6, <1>7, <2>1, <1>3
    <3> QED  BY <1>8, <3>1, <3>2
  <2>2. CASE x # maker
    <3>1. orders'[x] = orders[x]
      BY <1>3, <2>2
    <3>2. ~(x \in Requests /\ At(x, "match"))
      BY <1>2 DEF Solo, Busy, At
    <3>3. InBook(x)
      BY <1>1, <3>1, <3>2 DEF Rests, Unsent
    <3> QED  BY <1>8, <2>2, <3>3
  <2> QED  BY <2>1, <2>2
<1>10. Untouched(r)
  <2> SUFFICES ASSUME NEW x \in Requests \ {r}
               PROVE  \/ orders'[x] = orders[x]
                      \/ /\ orders[x] # None /\ ~Unsent(x)
                         /\ orders'[x].sequence = orders[x].sequence
    BY DEF Untouched
  <2>1. x \in Orders
    BY DEF Orders
  <2> QED  BY <1>3, <1>4, <1>7, <2>1
<1>11. ~Unsent(r)'
  BY <1>4, <1>7 DEF Unsent
<1> QED  BY SMTT(40), <1>1, <1>2, <1>5, <1>9, <1>10, <1>11, LocksTurn

LEMMA FinishKeepsLocks ==
  ASSUME LocksInvariant, FundsInvariant', ("store" \in Wired => Versions)',
         NEW r \in Requests, Finish(r)
  PROVE  LocksInvariant'
<1> DEFINE s == orders[r].symbol
           side == orders[r].side
<1>1. /\ At(r, "match") /\ Busy(r) /\ orders' = orders /\ Goto(r, "loadStatus")
      /\ TypeInvariant /\ FundsInvariant /\ Rests
  BY DEF Finish, At, Busy, memory, LocksInvariant, FundsInvariant
<1>2. /\ job \in [Requests -> Job] /\ job[r] \in Job /\ r \in Orders /\ Solo(r)
      /\ job[r].input.kind # "deposit" /\ orders[r] \in Order
      /\ queue \in [Symbols -> [Sides -> Seq(Orders)]] /\ s \in Symbols /\ side \in Sides
  BY <1>1, KnownOf, BusyIsSolo DEF At, Submitted, TypeInvariant, Typed, Order
<1>3. /\ job'[r].pc = "loadStatus" /\ job'[r].input = job[r].input
      /\ \A q \in Requests \ {r} : job'[q] = job[q]
  BY <1>1, <1>2 DEF Goto, Job
<1>4. /\ \A x \in Orders : InBook(x) => InBook(x)'
      /\ orders[r].remaining > 0 => InBook(r)'
  <2>1. CASE ~(orders[r].remaining > 0)
    BY <2>1 DEF Finish, InBook
  <2>2. CASE orders[r].remaining > 0
    <3> DEFINE q == queue[s][side]
    <3>1. PICK k \in 1..(Len(q) + 1) :
            queue' = [queue EXCEPT ![s] = Joined(queue[s], side, r, k)]
      BY <2>2 DEF Finish
    <3>2. q \in Seq(Orders)
      BY <1>2
    <3> DEFINE placed == Placed(q, r, k)
    <3>3. queue' = [queue EXCEPT ![s] = [queue[s] EXCEPT ![side] = placed]]
      BY <3>1 DEF Joined
    <3> HIDE DEF q
    <3>4. Range(placed) = Range(q) \cup {r}
      BY <1>2, <3>1, <3>2, PlacedRange
    <3> HIDE DEF placed, s, side
    <3>5. \A t \in Symbols, y \in Sides :
            queue'[t][y] = IF t = s /\ y = side THEN placed ELSE queue[t][y]
      BY <1>2, <3>3
    <3>6. \A t \in Symbols, y \in Sides : Range(queue[t][y]) \subseteq Range(queue'[t][y])
      BY <3>4, <3>5 DEF q
    <3>7. r \in Range(queue'[s][side])
      BY <1>2, <3>4, <3>5
    <3> QED  BY <1>2, <3>6, <3>7 DEF InBook
  <2> QED  BY <2>1, <2>2
<1>5. Rests'
  <2> SUFFICES ASSUME NEW x \in Orders, orders'[x] # None, ~Unsent(x)', orders'[x].remaining > 0
               PROVE  InBook(x)'
    BY DEF Rests
  <2>1. CASE x = r
    BY <1>1, <1>4, <2>1
  <2>2. CASE x # r
    <3>1. ~(x \in Requests /\ At(x, "match"))
      BY <1>2, <2>2 DEF Solo, Busy, At
    <3>2. InBook(x)
      BY <1>1, <3>1 DEF Rests, Unsent
    <3> QED  BY <1>4, <3>2
  <2> QED  BY <2>1, <2>2
<1>6. Untouched(r)
  BY <1>1 DEF Untouched
<1> QED  BY <1>2, <1>3, <1>5, <1>6, LocksTurn DEF Busy

-----------------------------------------------------------------------------
(* The locks are those of the books *)

LEMMA LocksInit ==
  ASSUME Serial, Funded, Init PROVE LocksInvariant
<1>1. FundsInvariant
  BY FundsInit
<1>2. "store" \in Wired => Versions
  BY VersionInit DEF VersionInvariant
<1>3. /\ IsFiniteSet(DOMAIN OpenOrders) /\ OpenOrders \in [DOMAIN OpenOrders -> Order]
      /\ DOMAIN OpenOrders \subseteq Orders /\ DOMAIN OpenOrders \cap Requests = {}
  BY ExchangeAssumption DEF Orders
<1>4. /\ orders = [o \in Orders |-> IF o \in Requests THEN None ELSE OpenOrders[o]]
      /\ queue = [s \in Symbols |-> RestoredBook(OpenOrders, s)]
      /\ job = [r \in Requests |-> Idle]
  BY DEF Init, NewExchange
<1>5. \A r \in Requests : r \in Orders /\ orders[r] = None /\ job[r].pc = "idle"
  BY <1>4 DEF Orders, Idle
<1>6. Rests
  <2> SUFFICES ASSUME NEW o \in Orders, orders[o] # None PROVE InBook(o)
    BY DEF Rests
  <2>1. o \in DOMAIN OpenOrders
    BY <1>5 DEF Orders
  <2>2. OpenOrders[o].symbol \in Symbols /\ OpenOrders[o].side \in Sides
    BY <1>3, <2>1 DEF Order
  <2>3. PICK s \in Symbols : s = OpenOrders[o].symbol
    BY <2>2
  <2>4. PICK side \in Sides : side = OpenOrders[o].side
    BY <2>2
  <2>5. o \in Range(RestoredBook(OpenOrders, s)[side])
    BY <1>3, <2>1, <2>3, <2>4, RestoredBookTyped
  <2>6. queue[s] = RestoredBook(OpenOrders, s)
    BY <1>4
  <2> QED  BY <2>5, <2>6 DEF InBook
<1>7. NothingKept
  BY <1>5 DEF NothingKept
<1>8. Timely
  BY <1>5 DEF Timely, At
<1> QED  BY <1>1, <1>2, <1>6, <1>7, <1>8 DEF LocksInvariant

LEMMA LocksStutter ==
  ASSUME LocksInvariant, FundsInvariant', ("store" \in Wired => Versions)', UNCHANGED vars
  PROVE  LocksInvariant'
<1>1. UNCHANGED <<wallet, orders, queue, job>>
  BY DEF vars, memory, book
<1>2. Rests'
  BY <1>1 DEF LocksInvariant, Rests, InBook, At, Unsent
<1>3. NothingKept'
  BY <1>1 DEF LocksInvariant, NothingKept, Busy, Unsent
<1>4. Timely'
  BY <1>1 DEF LocksInvariant, Timely, At
<1> QED  BY <1>2, <1>3, <1>4 DEF LocksInvariant

LEMMA LocksStep ==
  ASSUME Serial, Funded, Writable, LocksInvariant, Turns, [Next]_vars PROVE LocksInvariant'
<1>1. FundsInvariant'
  BY FundsStep DEF LocksInvariant
<1>2. ("store" \in Wired => Versions)'
  <2> SUFFICES ASSUME "store" \in Wired PROVE Versions'
    OBVIOUS
  <2>1. VersionInvariant
    BY DEF LocksInvariant, FundsInvariant, VersionInvariant
  <2>2. TypeInvariant'
    BY <1>1 DEF FundsInvariant
  <2>3. VersionInvariant'
    BY <2>1, <2>2, VersionStep
  <2> QED  BY <2>3 DEF VersionInvariant
<1>3. ASSUME UNCHANGED vars PROVE LocksInvariant'
  BY <1>1, <1>2, <1>3, LocksStutter
<1>4. ASSUME NEW r \in Requests, Accept(r) PROVE LocksInvariant'
  BY <1>1, <1>2, <1>4, AcceptKeepsLocks
<1>5. ASSUME NEW r \in Requests, Serve(r) PROVE LocksInvariant'
  BY <1>1, <1>2, <1>5, ReserveKeepsLocks, GetReservedKeepsLocks, PersistAccountKeepsLocks,
     ReplaceAccountKeepsLocks, CacheAccountKeepsLocks, SubmitKeepsLocks, MatchKeepsLocks,
     FinishKeepsLocks, SettlesKeepsLocks, NextAccountKeepsLocks, ReportsKeepLocks
     DEF Serve, Settles, Reports
<1> QED  BY <1>3, <1>4, <1>5 DEF Next, AllAnswered

(* Between requests nobody but a resting order has a claim. *)
LEMMA ClaimsRest ==
  ASSUME Quiet, LocksInvariant, NEW o \in Orders, NEW a, NEW asset
  PROVE  Claim(Nothing, o, a, asset) =
           IF InBook(o) /\ LocksOf(o, a, asset) THEN Needs(orders[o], orders[o].remaining) ELSE 0
<1>1. TypeInvariant /\ Rests
  BY DEF LocksInvariant, FundsInvariant
<1>2. CASE ~LocksOf(o, a, asset)
  BY <1>2 DEF Claim
<1>3. CASE InBook(o)
  BY <1>1, <1>3, RestingClaims DEF Claim
<1>4. CASE LocksOf(o, a, asset) /\ ~InBook(o)
  <2>1. orders[o] # None /\ orders[o] \in Order
    BY <1>1, <1>4 DEF LocksOf, TypeInvariant, Typed
  <2>2. CASE Unsent(o)
    <3>1. o \in Requests /\ ~Busy(o)
      BY <2>2 DEF Unsent, Quiet
    <3>2. orders[o].reserved = 0
      BY <2>1, <2>2, <3>1 DEF LocksInvariant, NothingKept
    <3> QED  BY <1>4, <2>2, <3>2 DEF Claim, Due
  <2>3. CASE ~Unsent(o)
    <3>1. ~(orders[o].remaining > 0)
      BY <1>1, <1>4, <2>1, <2>3 DEF Rests, Quiet, At, Busy
    <3>2. orders[o].remaining = 0 /\ Nothing[o] = 0
      BY <2>1, <3>1 DEF Order, Nothing
    <3>3. Needs(orders[o], 0) = 0
      BY <2>1, NeedsAdds
    <3> QED  BY <1>4, <2>3, <3>2, <3>3 DEF Claim, Due
  <2> QED  BY <2>2, <2>3
<1> QED  BY <1>2, <1>3, <1>4

LEMMA SettledExactly ==
  ASSUME Serial, Snug, Quiet, LocksInvariant, NEW a \in Accounts, NEW asset \in Assets
  PROVE  wallet[a].balances[asset].locked = LockNeeded(a, asset)
<1> DEFINE open == {o \in Orders : /\ InBook(o)
                                   /\ orders[o].account = a
                                   /\ LockedAsset(Pair[orders[o].symbol], orders[o]) = asset}
           F == [o \in open |-> Needs(orders[o], orders[o].remaining)]
           C == [o \in Orders |-> Claim(Nothing, o, a, asset)]
<1>1. TypeInvariant /\ AllSettled /\ IsFiniteSet(Orders) /\ open \in SUBSET Orders
  BY OrdersAreFinite DEF LocksInvariant, FundsInvariant
<1>2. \A o \in Orders : InBook(o) => orders[o] # None
  BY <1>1, RestingClaims
<1>3. \A o \in Orders : C[o] = IF o \in open THEN F[o] ELSE 0
  BY <1>2, ClaimsRest DEF LocksOf
<1>4. \A o \in open : F[o] \in Int
  <2> SUFFICES ASSUME NEW o \in open PROVE F[o] \in Int
    OBVIOUS
  <2>1. Needs(orders[o], orders[o].remaining) \in Nat
    BY <1>1, RestingClaims
  <2> QED  BY <2>1
<1>5. LockNeeded(a, asset) = SumFunctionOnSet(F, open)
  BY DEF LockNeeded
<1>6. wallet[a].balances[asset].locked = Surplus(a, asset) + SumFunctionOnSet(C, Orders)
  BY <1>1 DEF AllSettled, Locked
<1>7. Surplus(a, asset) = 0
  BY DEF Snug
<1>8. \A o \in Orders : C[o] \in Int
  <2>1. \A o \in Orders : Claim(Nothing, o, a, asset) \in Int
    BY <1>1, ClaimInteger DEF Nothing
  <2> QED  BY <2>1
<1> HIDE DEF F, C, open
<1>9. SumFunctionOnSet(C, Orders) = SumFunctionOnSet(F, open)
  BY <1>1, <1>3, <1>4, SumWithin
<1>10. SumFunctionOnSet(C, Orders) \in Int
  BY <1>1, <1>8, SumAdds
<1> QED  BY <1>5, <1>6, <1>7, <1>9, <1>10

(* When no account write fails or loses its reply: between requests the    *)
(* locked balances are what the orders in the books need, to the unit, and *)
(* each of them says so.  Reserve, the settlement of every fill and both   *)
(* releases agree; a call that fails late leaves nothing locked behind.    *)
THEOREM LocksMatch == Serial /\ Funded /\ Snug /\ Writable => (Spec => []LocksMatchBook)
<1> SUFFICES ASSUME Serial, Funded, Snug, Writable PROVE Spec => []LocksMatchBook
  OBVIOUS
<1>1. Init => LocksInvariant
  BY LocksInit
<1>2. LocksInvariant /\ Turns /\ [Next]_vars => LocksInvariant'
  BY LocksStep
<1>3. LocksInvariant => LocksMatchBook
  <2> SUFFICES ASSUME LocksInvariant, Quiet PROVE LocksMatchBook
    BY DEF LocksMatchBook
  <2>1. TypeInvariant /\ Backed(Nothing)
    BY DEF LocksInvariant, FundsInvariant, AllSettled
  <2>2. LocksAreNeeded
    BY SettledExactly DEF LocksAreNeeded
  <2>3. ASSUME NEW o \in Orders, InBook(o)
        PROVE  orders[o].reserved = Needs(orders[o], orders[o].remaining)
    <3>1. /\ orders[o] # None /\ orders[o] \in Order /\ ~Unsent(o)
          /\ Due(Nothing, o) = Needs(orders[o], orders[o].remaining)
      BY <2>1, <2>3, RestingClaims
    <3>2. orders[o].reserved = Needs(orders[o], orders[o].remaining) + Needs(orders[o], Nothing[o])
      BY <2>1, <3>1 DEF Backed, Snug
    <3> QED  BY <3>1, <3>2 DEF Due
  <2> QED  BY <2>2, <2>3 DEF LocksMatchBook
<1> QED  BY <1>1, <1>2, <1>3, TakesTurns, PTL DEF Spec

=============================================================================
