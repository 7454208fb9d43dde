--------------------------- MODULE ExchangeLedger ---------------------------
(***************************************************************************)
(* Nothing is created or lost.  When requests are served one after the     *)
(* other, what an account holds is what it started with, what the audit    *)
(* log says was deposited, and what the fills on the tapes gained and cost *)
(* its orders, whichever call fails.  And everybody is told: when no call  *)
(* fails either, the store, the cache and the topics have what memory has. *)
(***************************************************************************)
EXTENDS ExchangeFunds

(* What account a gains of an asset by one half of a fill. *)
Half(fill, who, a, asset) ==
  IF orders[Party(fill, who)].account = a THEN Gain(Party(fill, who), fill, asset) ELSE 0

Coming(fills, who, S, a, asset) ==
  SumFunctionOnSet([i \in S |-> Half(fills[i], who, a, asset)], S)

(* What a goroutine's fills have still to gain it, *)
Outstanding(j, a, asset) ==
  Coming(j.fills, "maker", Unsettled(j, "maker"), a, asset)
    + Coming(j.fills, "taker", Unsettled(j, "taker"), a, asset)

(* and the deposit that is in the wallet but not yet in the audit log.     *)
Credit(r, a, asset) ==
  IF /\ job[r].pc \in {"cacheAccount", "audit"}
     /\ job[r].input.kind = "deposit"
     /\ job[r].input.account = a
     /\ job[r].input.asset = asset
    THEN job[r].input.amount ELSE 0

(* What the audit log and the tapes explain. *)
Explained(a, asset) == Total(InitialAccounts[a], asset) + Deposited(a, asset) + Traded(a, asset)

Balanced(r) ==
  \A a \in Accounts, asset \in Assets :
    Total(wallet[a], asset) =
      Explained(a, asset) + Credit(r, a, asset) - Outstanding(job[r], a, asset)

AllBalanced == \A a \in Accounts, asset \in Assets : Total(wallet[a], asset) = Explained(a, asset)

(* Nothing is in the audit log before its request has made it known: a     *)
(* deposit is noted once, and it is credited to the account it names.      *)
Noted(r) ==
  /\ At(r, "idle") => <<r, 0>> \notin auditLog
  /\ job[r].pc \in Syncing \cup {"audit"} /\ job[r].input.kind = "deposit" =>
       <<r, 0>> \notin auditLog
  /\ job[r].pc \in {"persist", "replace"} /\ job[r].input.kind = "deposit" =>
       job[r].clone.id = job[r].input.account

(* The fills on the tapes are between orders, and there are finitely many. *)
Known(fills) ==
  \A i \in DOMAIN fills : orders[fills[i].maker] # None /\ orders[fills[i].taker] # None

Taped == IsFiniteSet(Legs) /\ \A s \in Symbols : Known(tape[s])

LedgerInvariant ==
  /\ FundsInvariant
  /\ Taped
  /\ \A r \in Requests : Noted(r)
  /\ \A r \in Requests : Busy(r) => Balanced(r)
  /\ Quiet => AllBalanced

-----------------------------------------------------------------------------
(* The sums *)

LEMMA GainIsInteger ==
  ASSUME NEW fill \in Trade, NEW o, NEW asset
  PROVE  Gain(o, fill, asset) \in Int
<1>1. fill.quantity \in Nat /\ fill.price \in Nat
  BY DEF Trade
<1> DEFINE cost == fill.price * fill.quantity
           units == IF asset = Pair[orders[o].symbol].base THEN fill.quantity
                    ELSE IF asset = Pair[orders[o].symbol].quote THEN 0 - cost ELSE 0
<1>2. cost \in Nat
  BY <1>1, ProductIsNatural
<1>3. units \in Int
  <2> HIDE DEF cost
  <2> QED  BY <1>1, <1>2
<1>4. Gain(o, fill, asset) = IF orders[o].side = "buy" THEN units ELSE 0 - units
  BY DEF Gain
<1> HIDE DEF units
<1> QED  BY <1>3, <1>4

LEMMA HalfIsInteger ==
  ASSUME NEW fill \in Trade, NEW who, NEW a, NEW asset
  PROVE  Half(fill, who, a, asset) \in Int
BY GainIsInteger DEF Half

LEMMA ComingInteger ==
  ASSUME NEW fills \in Seq(Trade), NEW who, NEW a, NEW asset, NEW S \in SUBSET DOMAIN fills
  PROVE  /\ IsFiniteSet(S)
         /\ \A i \in S : fills[i] \in Trade /\ Half(fills[i], who, a, asset) \in Int
         /\ Coming(fills, who, S, a, asset) \in Int
<1> DEFINE F == [i \in S |-> Half(fills[i], who, a, asset)]
<1>1. IsFiniteSet(S)
  BY VolumeNatural
<1>2. \A i \in S : fills[i] \in Trade
  BY LenProperties, ElementOfSeq
<1>3. \A i \in S : F[i] \in Int /\ F[i] = Half(fills[i], who, a, asset)
  BY <1>2, HalfIsInteger
<1>4. Coming(fills, who, S, a, asset) = SumFunctionOnSet(F, S)
  BY DEF Coming
<1> HIDE DEF F
<1>5. SumFunctionOnSet(F, S) \in Int
  BY <1>1, <1>3, SumAdds
<1> QED  BY <1>1, <1>2, <1>3, <1>4, <1>5

(* One half of a fill fewer. *)
LEMMA ComingDrop ==
  ASSUME NEW fills \in Seq(Trade), NEW who, NEW a, NEW asset,
         NEW S \in SUBSET DOMAIN fills, NEW i \in S
  PROVE  Coming(fills, who, S, a, asset) =
           Half(fills[i], who, a, asset) + Coming(fills, who, S \ {i}, a, asset)
<1> DEFINE F == [k \in S |-> Half(fills[k], who, a, asset)]
           T == S \ {i}
           G == [k \in T |-> Half(fills[k], who, a, asset)]
<1>1. IsFiniteSet(S) /\ IsFiniteSet(T)
  BY ComingInteger, FS_Subset
<1>2. \A k \in S : Half(fills[k], who, a, asset) \in Int
  BY ComingInteger
<1>3. \A k \in S : F[k] \in Int
  BY <1>2
<1>4. \A k \in T : G[k] \in Int /\ F[k] = G[k]
  BY <1>2
<1>5. /\ Coming(fills, who, S, a, asset) = SumFunctionOnSet(F, S)
      /\ Coming(fills, who, T, a, asset) = SumFunctionOnSet(G, T)
  BY DEF Coming
<1>6. F[i] = Half(fills[i], who, a, asset)
  OBVIOUS
<1> HIDE DEF F, G
<1>7. SumFunctionOnSet(F, S) = F[i] + SumFunctionOnSet(F, S \ {i})
  BY <1>1, <1>3, SumAdds
<1>8. SumFunctionOnSet(F, T) = SumFunctionOnSet(G, T)
  <2> HIDE DEF T
  <2> QED  BY <1>1, <1>4, SumEqual
<1> QED  BY <1>5, <1>6, <1>7, <1>8

(* One fill more. *)
LEMMA ComingAppend ==
  ASSUME NEW fills \in Seq(Trade), NEW fill \in Trade, NEW who, NEW a, NEW asset,
         NEW S \in SUBSET DOMAIN fills
  PROVE  Coming(Append(fills, fill), who, S \cup {Len(fills) + 1}, a, asset) =
           Half(fill, who, a, asset) + Coming(fills, who, S, a, asset)
<1> DEFINE more == Append(fills, fill)
           n == Len(fills) + 1
           T == S \cup {n}
           F == [k \in S |-> Half(fills[k], who, a, asset)]
           G == [k \in T \ {n} |-> Half(more[k], who, a, asset)]
<1>1. /\ DOMAIN fills = 1..Len(fills) /\ Len(fills) \in Nat
      /\ more \in Seq(Trade) /\ DOMAIN more = 1..n /\ more[n] = fill
      /\ \A k \in 1..Len(fills) : more[k] = fills[k]
  BY LenProperties, AppendProperties
<1>2. T \in SUBSET DOMAIN more /\ n \in T /\ T \ {n} = S
  BY <1>1
<1>3. Coming(more, who, T, a, asset) =
        Half(more[n], who, a, asset) + Coming(more, who, T \ {n}, a, asset)
  <2> HIDE DEF more, T, n
  <2> QED  BY <1>1, <1>2, ComingDrop
<1>4. Coming(more, who, T \ {n}, a, asset) = SumFunctionOnSet(G, T \ {n})
  BY DEF Coming
<1>5. Coming(fills, who, S, a, asset) = SumFunctionOnSet(F, S)
  BY DEF Coming
<1>6. IsFiniteSet(S) /\ \A k \in S : Half(fills[k], who, a, asset) \in Int
  BY ComingInteger
<1>7. \A k \in S : F[k] \in Int /\ G[k] = F[k]
  <2> SUFFICES ASSUME NEW k \in S PROVE F[k] \in Int /\ G[k] = F[k]
    OBVIOUS
  <2>1. k \in 1..Len(fills) /\ k \in T \ {n} /\ more[k] = fills[k]
    BY <1>1, <1>2
  <2> HIDE DEF more, T, n
  <2> QED  BY <1>6, <2>1
<1> HIDE DEF F, G
<1>8. SumFunctionOnSet(G, S) = SumFunctionOnSet(F, S)
  BY <1>6, <1>7, SumEqual
<1> HIDE DEF T
<1> QED  BY <1>1, <1>2, <1>3, <1>4, <1>5, <1>8 DEF T

LEMMA NothingOutstanding ==
  ASSUME NEW j, j.pc \notin Applying \/ j.fills = << >>, NEW a, NEW asset
  PROVE  Outstanding(j, a, asset) = 0 /\ Outstanding(j, a, asset)' = 0
<1>1. ASSUME NEW who
      PROVE  /\ Coming(j.fills, who, Unsettled(j, who), a, asset) = 0
             /\ Coming(j.fills, who, Unsettled(j, who), a, asset)' = 0
  <2>1. Unsettled(j, who) = {}
    BY DEF Unsettled, Later
  <2> QED  BY <2>1, SumEmpty DEF Coming, Unsettled, Later
<1>2. Outstanding(j, a, asset) = 0
  BY <1>1 DEF Outstanding
<1>3. Outstanding(j, a, asset)' = 0
  BY <1>1 DEF Outstanding, Unsettled, Later
<1> QED  BY <1>2, <1>3

LEMMA OutstandingInteger ==
  ASSUME NEW j \in Job, NEW a, NEW asset PROVE Outstanding(j, a, asset) \in Int
<1>1. j.fills \in Seq(Trade) /\ \A who : Unsettled(j, who) \subseteq DOMAIN j.fills
  BY PendingTyped
<1> QED  BY <1>1, ComingInteger DEF Outstanding

-----------------------------------------------------------------------------
(* What does not change *)

(* An order stays the order it was. *)
Identified ==
  \A o \in Orders : orders[o] # None =>
    /\ orders'[o] # None
    /\ orders'[o].account = orders[o].account
    /\ orders'[o].symbol = orders[o].symbol
    /\ orders'[o].side = orders[o].side

LEMMA HalfStays ==
  ASSUME Identified, NEW fill \in Trade, NEW who \in {"maker", "taker"},
         orders[fill.maker] # None, orders[fill.taker] # None, NEW a, NEW asset
  PROVE  Half(fill, who, a, asset)' = Half(fill, who, a, asset)
<1> DEFINE o == Party(fill, who)
<1>1. o \in Orders /\ orders[o] # None
  BY DEF Party, Trade, Orders
<1>2. /\ orders'[o].account = orders[o].account /\ orders'[o].symbol = orders[o].symbol
      /\ orders'[o].side = orders[o].side
  BY <1>1 DEF Identified
<1>3. Half(fill, who, a, asset) = IF orders[o].account = a THEN Gain(o, fill, asset) ELSE 0
  BY DEF Half
<1>4. Half(fill, who, a, asset)' = IF orders'[o].account = a THEN Gain(o, fill, asset)' ELSE 0
  BY DEF Half, Party
<1> HIDE DEF o
<1>5. Gain(o, fill, asset)' = Gain(o, fill, asset)
  BY <1>2 DEF Gain
<1> QED  BY <1>2, <1>3, <1>4, <1>5

LEMMA OutstandingStays ==
  ASSUME Identified, NEW j \in Job, Known(j.fills), NEW a, NEW asset
  PROVE  Outstanding(j, a, asset)' = Outstanding(j, a, asset)
<1>1. ASSUME NEW who \in {"maker", "taker"}
      PROVE  Coming(j.fills, who, Unsettled(j, who), a, asset)' =
               Coming(j.fills, who, Unsettled(j, who), a, asset)
  <2> DEFINE S == Unsettled(j, who)
  <2>1. j.fills \in Seq(Trade) /\ S \subseteq DOMAIN j.fills
    BY PendingTyped
  <2>2. \A i \in S : Half(j.fills[i], who, a, asset)' = Half(j.fills[i], who, a, asset)
    <3> TAKE i \in S
    <3>1. j.fills[i] \in Trade
      BY <2>1, ComingInteger
    <3>2. PICK fill \in Trade : fill = j.fills[i]
      BY <3>1
    <3>3. orders[fill.maker] # None /\ orders[fill.taker] # None
      BY <2>1, <3>2 DEF Known
    <3>4. Half(fill, who, a, asset)' = Half(fill, who, a, asset)
      BY <3>3, HalfStays
    <3> QED  BY <3>2, <3>4
  <2> HIDE DEF S
  <2>3. [i \in S |-> Half(j.fills[i], who, a, asset)'] = [i \in S |-> Half(j.fills[i], who, a, asset)]
    BY <2>2
  <2>4. Coming(j.fills, who, S, a, asset)' =
          SumFunctionOnSet([i \in S |-> Half(j.fills[i], who, a, asset)'], S)
    BY DEF Coming, S, Unsettled, Later
  <2>5. Coming(j.fills, who, S, a, asset)' = Coming(j.fills, who, S, a, asset)
    BY <2>3, <2>4 DEF Coming
  <2> QED  BY <2>5 DEF S
<1> QED  BY <1>1 DEF Outstanding, Unsettled, Later

(* The deposits the audit log knows of. *)
Credited(q) == <<q, 0>> \in auditLog /\ job[q].input.kind = "deposit"

LEMMA DepositedStays ==
  ASSUME \A q \in Requests : Credited(q)' <=> Credited(q),
         \A q \in Requests : Credited(q) => job'[q].input = job[q].input,
         NEW a, NEW asset
  PROVE  Deposited(a, asset)' = Deposited(a, asset)
<1> DEFINE S == {q \in Requests : Credited(q) /\ job[q].input.account = a /\ job[q].input.asset = asset}
           T == {q \in Requests : Credited(q)' /\ job'[q].input.account = a /\ job'[q].input.asset = asset}
<1>1. T = S
  OBVIOUS
<1>2. \A q \in S : job'[q].input.amount = job[q].input.amount
  OBVIOUS
<1>3. Deposited(a, asset) = SumFunctionOnSet([q \in S |-> job[q].input.amount], S)
  BY DEF Deposited, Credited
<1>4. Deposited(a, asset)' = SumFunctionOnSet([q \in T |-> job'[q].input.amount], T)
  BY DEF Deposited, Credited
<1> HIDE DEF S, T
<1>5. [q \in T |-> job'[q].input.amount] = [q \in S |-> job[q].input.amount]
  BY <1>1, <1>2
<1> QED  BY <1>1, <1>3, <1>4, <1>5

Owner(leg) == Party(tape[leg[1]][leg[2]], leg[3])

LEMMA LegFacts ==
  ASSUME TypeInvariant, Taped
  PROVE  \A leg \in Legs :
           /\ leg[1] \in Symbols /\ leg[2] \in DOMAIN tape[leg[1]] /\ leg[3] \in {"maker", "taker"}
           /\ tape[leg[1]][leg[2]] \in Trade
           /\ Owner(leg) \in Orders /\ orders[Owner(leg)] # None
<1> SUFFICES ASSUME NEW s \in Symbols, NEW i \in DOMAIN tape[s], NEW who \in {"maker", "taker"}
             PROVE  /\ tape[s][i] \in Trade
                    /\ Party(tape[s][i], who) \in Orders /\ orders[Party(tape[s][i], who)] # None
  BY DEF Legs, Owner
<1>1. tape[s] \in Seq(Trade)
  BY DEF TypeInvariant, Typed
<1>2. tape[s][i] \in Trade
  BY <1>1, LenProperties, ElementOfSeq
<1>3. orders[tape[s][i].maker] # None /\ orders[tape[s][i].taker] # None
  BY DEF Taped, Known
<1> QED  BY <1>2, <1>3 DEF Party, Trade, Orders

LEMMA TradedStays ==
  ASSUME TypeInvariant, Taped, Identified, tape' = tape, NEW a, NEW asset
  PROVE  Traded(a, asset)' = Traded(a, asset)
<1> DEFINE S == {leg \in Legs : orders[Owner(leg)].account = a}
           T == {leg \in Legs : orders'[Owner(leg)].account = a}
           F == [leg \in S |-> Gain(Owner(leg), tape[leg[1]][leg[2]], asset)]
           G == [leg \in T |-> Gain(Owner(leg), tape[leg[1]][leg[2]], asset)']
<1>1. \A leg \in Legs : /\ orders'[Owner(leg)].account = orders[Owner(leg)].account
                        /\ orders'[Owner(leg)].symbol = orders[Owner(leg)].symbol
                        /\ orders'[Owner(leg)].side = orders[Owner(leg)].side
  BY SMTT(40), LegFacts DEF Identified
<1>2. \A leg \in Legs : Gain(Owner(leg), tape[leg[1]][leg[2]], asset)'
                          = Gain(Owner(leg), tape[leg[1]][leg[2]], asset)
  BY ZenonT(40), <1>1 DEF Gain, Owner
<1>3. T = S
  BY <1>1
<1>4. F = G
  BY <1>2, <1>3
<1>5. Traded(a, asset) = SumFunctionOnSet(F, S)
  BY DEF Traded, Owner, Party
<1>6. Traded(a, asset)' = SumFunctionOnSet(G, T)
  BY DEF Traded, Owner, Party, Legs
<1> HIDE DEF F, G, S, T
<1> QED  BY <1>3, <1>4, <1>5, <1>6

-----------------------------------------------------------------------------
(* What is explained is a number *)

LEMMA TotalInteger ==
  ASSUME TypeInvariant, NEW a \in Accounts, NEW asset \in Assets
  PROVE  Total(wallet[a], asset) \in Int /\ Total(InitialAccounts[a], asset) \in Int
<1>1. wallet[a] \in Solvent
  BY DEF TypeInvariant, Typed
<1>2. wallet[a].balances[asset].available \in Int /\ wallet[a].balances[asset].locked \in Int
  BY <1>1, BalanceIsAmount, AmountsClosed
<1>3. InitialAccounts[a] \in Account
  BY ExchangeAssumption
<1>4. InitialAccounts[a].balances[asset].available \in Int /\ InitialAccounts[a].balances[asset].locked \in Int
  BY <1>3 DEF Account, Amount
<1> QED  BY <1>2, <1>4 DEF Total

(* A deposit that is credited was a well-formed input. *)
LEMMA CreditedInput ==
  ASSUME LedgerInvariant
  PROVE  \A q \in Requests : Credited(q) =>
           ~At(q, "idle") /\ job[q].input \in Inputs /\ job[q].input.amount \in Int
<1> SUFFICES ASSUME NEW q \in Requests, Credited(q)
             PROVE  ~At(q, "idle") /\ job[q].input \in Inputs /\ job[q].input.amount \in Int
  OBVIOUS
<1>1. ~At(q, "idle")
  BY DEF LedgerInvariant, Noted, Credited
<1>2. job[q].input \in Inputs
  BY <1>1 DEF LedgerInvariant, FundsInvariant, TypeInvariant, Local, Phased
<1>3. job[q].input.amount \in Int
  BY <1>2, ExchangeAssumption DEF WellFormed, Credited
<1> QED  BY <1>1, <1>2, <1>3

LEMMA DepositedInteger ==
  ASSUME Serial, LedgerInvariant, NEW a, NEW asset
  PROVE  Deposited(a, asset) \in Int
<1> DEFINE S == {q \in Requests : Credited(q) /\ job[q].input.account = a /\ job[q].input.asset = asset}
           F == [q \in S |-> job[q].input.amount]
<1>1. IsFiniteSet(S)
  BY FS_Subset DEF Serial
<1>2. \A q \in S : F[q] \in Int
  BY CreditedInput
<1>3. Deposited(a, asset) = SumFunctionOnSet(F, S)
  BY DEF Deposited, Credited
<1> HIDE DEF F, S
<1> QED  BY <1>1, <1>2, <1>3, SumAdds

LEMMA TradedInteger ==
  ASSUME TypeInvariant, Taped, NEW a, NEW asset
  PROVE  Traded(a, asset) \in Int
<1> DEFINE S == {leg \in Legs : orders[Owner(leg)].account = a}
           F == [leg \in S |-> Gain(Owner(leg), tape[leg[1]][leg[2]], asset)]
<1>1. IsFiniteSet(S)
  BY FS_Subset DEF Taped
<1>2. \A leg \in S : F[leg] \in Int
  BY LegFacts, GainIsInteger
<1>3. Traded(a, asset) = SumFunctionOnSet(F, S)
  BY DEF Traded, Owner, Party
<1> HIDE DEF F, S
<1> QED  BY <1>1, <1>2, <1>3, SumAdds

LEMMA ExplainedInteger ==
  ASSUME Serial, LedgerInvariant, NEW a \in Accounts, NEW asset \in Assets
  PROVE  /\ Explained(a, asset) \in Int
         /\ Deposited(a, asset) \in Int /\ Traded(a, asset) \in Int
         /\ Total(InitialAccounts[a], asset) \in Int /\ Total(wallet[a], asset) \in Int
<1>1. TypeInvariant /\ Taped
  BY DEF LedgerInvariant, FundsInvariant
<1>2. Deposited(a, asset) \in Int
  BY DepositedInteger
<1>3. Traded(a, asset) \in Int
  BY <1>1, TradedInteger
<1>4. Total(InitialAccounts[a], asset) \in Int /\ Total(wallet[a], asset) \in Int
  BY <1>1, TotalInteger
<1> QED  BY <1>2, <1>3, <1>4 DEF Explained

LEMMA ExplainedStays ==
  ASSUME TypeInvariant, Taped, Identified, tape' = tape,
         \A q \in Requests : Credited(q)' <=> Credited(q),
         \A q \in Requests : Credited(q) => job'[q].input = job[q].input,
         NEW a, NEW asset
  PROVE  Explained(a, asset)' = Explained(a, asset)
<1>1. Deposited(a, asset)' = Deposited(a, asset)
  BY DepositedStays
<1>2. Traded(a, asset)' = Traded(a, asset)
  BY TradedStays
<1> QED  BY <1>1, <1>2 DEF Explained, Total

(* Whose turn it may be: all else is explained, or will be. *)
LEMMA TurnBalanced ==
  ASSUME Serial, LedgerInvariant, NEW r \in Requests, Busy(r) \/ Quiet
  PROVE  Balanced(r)
<1>1. CASE Busy(r)
  BY <1>1 DEF LedgerInvariant
<1>2. CASE Quiet
  <2> SUFFICES ASSUME NEW a \in Accounts, NEW asset \in Assets
               PROVE  Total(wallet[a], asset) =
                        Explained(a, asset) + Credit(r, a, asset) - Outstanding(job[r], a, asset)
    BY DEF Balanced
  <2>1. job[r].pc \in {"idle", "ok", "failed"}
    BY <1>2 DEF Quiet, Busy
  <2>2. Outstanding(job[r], a, asset) = 0
    BY <2>1, NothingOutstanding DEF Applying
  <2>3. Credit(r, a, asset) = 0
    BY <2>1 DEF Credit
  <2>4. Total(wallet[a], asset) = Explained(a, asset)
    BY <1>2 DEF LedgerInvariant, AllBalanced
  <2>5. Explained(a, asset) \in Int
    BY ExplainedInteger
  <2> QED  BY <2>2, <2>3, <2>4, <2>5
<1> QED  BY <1>1, <1>2

-----------------------------------------------------------------------------
(* A step of the goroutine whose turn it is *)

LEMMA LedgerTurn ==
  ASSUME LedgerInvariant, FundsInvariant', NEW r \in Requests, Solo(r),
         \A q \in Requests \ {r} : job'[q] = job[q],
         \A q \in Requests \ {r} : <<q, 0>> \in auditLog' => <<q, 0>> \in auditLog,
         Taped', Noted(r)', Balanced(r)',
         \A a \in Accounts, asset \in Assets : Explained(a, asset)' \in Int
  PROVE  LedgerInvariant'
<1>1. \A q \in Requests \ {r} : ~Busy(q)'
  BY DEF Solo, Busy
<1>2. \A q \in Requests : Busy(q)' => Balanced(q)'
  BY <1>1
<1>3. \A q \in Requests : Noted(q)'
  <2> SUFFICES ASSUME NEW q \in Requests \ {r} PROVE Noted(q)'
    OBVIOUS
  <2>1. Noted(q)
    BY DEF LedgerInvariant
  <2> QED  BY <2>1 DEF Noted, At
<1>4. ASSUME Quiet', NEW a \in Accounts, NEW asset \in Assets
      PROVE  Total(wallet[a], asset)' = Explained(a, asset)'
  <2>1. job'[r].pc \in {"idle", "ok", "failed"}
    BY <1>4 DEF Quiet, Busy
  <2>2. PICK k : k = job'[r]
    OBVIOUS
  <2>3. Outstanding(k, a, asset)' = 0
    BY <2>1, <2>2, NothingOutstanding DEF Applying
  <2>4. Credit(r, a, asset)' = 0
    BY <2>1 DEF Credit
  <2>5. Total(wallet[a], asset)' = Explained(a, asset)' + Credit(r, a, asset)' - Outstanding(k, a, asset)'
    BY <2>2 DEF Balanced
  <2>6. Explained(a, asset)' \in Int
    OBVIOUS
  <2> QED  BY <2>3, <2>4, <2>5, <2>6
<1> QED  BY <1>1, <1>2, <1>3, <1>4 DEF LedgerInvariant, AllBalanced

LEMMA FillsKnown ==
  ASSUME TypeInvariant, NEW r \in Requests
  PROVE  job[r] \in Job /\ Known(job[r].fills) /\ Known(<< >>)
<1>1. job[r] \in Job
  BY DEF TypeInvariant, Typed
<1>2. \A i \in DOMAIN job[r].fills :
        orders[job[r].fills[i].maker] # None /\ orders[job[r].fills[i].taker] # None
  BY DEF TypeInvariant, Local, Priced
<1> QED  BY <1>1, <1>2 DEF Known

LEMMA TapedStays ==
  ASSUME TypeInvariant, Taped, Identified, tape' = tape PROVE Taped'
<1>1. Legs' = Legs
  BY DEF Legs
<1>2. ASSUME NEW s \in Symbols, NEW i \in DOMAIN tape[s]
      PROVE  orders'[tape[s][i].maker] # None /\ orders'[tape[s][i].taker] # None
  <2>1. tape[s] \in Seq(Trade)
    BY DEF TypeInvariant, Typed
  <2>2. tape[s][i] \in Trade
    BY <2>1, LenProperties, ElementOfSeq
  <2>3. orders[tape[s][i].maker] # None /\ orders[tape[s][i].taker] # None
    BY DEF Taped, Known
  <2> QED  BY <2>2, <2>3 DEF Identified, Trade, Orders
<1> QED  BY <1>1, <1>2 DEF Taped, Known

(* No new fill, and no deposit that becomes known: what the wallet gains   *)
(* is what was outstanding, or is a new credit.                            *)
LEMMA GainStep ==
  ASSUME Serial, LedgerInvariant, FundsInvariant', NEW r \in Requests, Busy(r) \/ Quiet,
         \A q \in Requests \ {r} : job'[q] = job[q],
         Identified, tape' = tape,
         \A q \in Requests \ {r} : <<q, 0>> \in auditLog' <=> <<q, 0>> \in auditLog,
         Credited(r)' <=> Credited(r),
         Credited(r) => job'[r].input = job[r].input,
         Noted(r)',
         NEW k \in Job, k = job'[r], k.fills \in {job[r].fills, << >>},
         \A a \in Accounts, asset \in Assets :
           Total(wallet'[a], asset) =
             Total(wallet[a], asset) + (Credit(r, a, asset)' - Credit(r, a, asset))
               + (Outstanding(job[r], a, asset) - Outstanding(k, a, asset)),
         \A a \in Accounts, asset \in Assets :
           Credit(r, a, asset) \in Int /\ Credit(r, a, asset)' \in Int
  PROVE  LedgerInvariant'
<1>1. TypeInvariant /\ Taped /\ job[r] \in Job /\ Known(k.fills) /\ Balanced(r)
  BY FillsKnown, TurnBalanced DEF LedgerInvariant, FundsInvariant
<1>2. Solo(r)
  BY BusyIsSolo, QuietIsSolo DEF LedgerInvariant
<1>3. ASSUME NEW a \in Accounts, NEW asset \in Assets
      PROVE  /\ Explained(a, asset)' \in Int
             /\ Total(wallet'[a], asset) = Explained(a, asset)' + Credit(r, a, asset)' - Outstanding(k, a, asset)'
  <2>1. Explained(a, asset) \in Int
    BY ExplainedInteger
  <2>2. Explained(a, asset)' = Explained(a, asset)
    <3>1. \A q \in Requests : Credited(q)' <=> Credited(q)
      BY DEF Credited
    <3>2. \A q \in Requests : Credited(q) => job'[q].input = job[q].input
      OBVIOUS
    <3> QED  BY <1>1, <3>1, <3>2, ExplainedStays
  <2>3. Outstanding(k, a, asset)' = Outstanding(k, a, asset)
    BY <1>1, OutstandingStays
  <2>4. Outstanding(k, a, asset) \in Int /\ Outstanding(job[r], a, asset) \in Int
    BY <1>1, OutstandingInteger
  <2>5. Total(wallet[a], asset) = Explained(a, asset) + Credit(r, a, asset) - Outstanding(job[r], a, asset)
    BY <1>1 DEF Balanced
  <2> QED  BY <2>1, <2>2, <2>3, <2>4, <2>5
<1>4. Balanced(r)'
  BY <1>3 DEF Balanced, Total
<1>5. Taped'
  BY <1>1, TapedStays
<1> QED  BY <1>2, <1>3, <1>4, <1>5, LedgerTurn

(* What the goroutine of an order has yet to settle. *)
SameOutstanding(j, k) ==
  /\ k.fills \in {j.fills, << >>}
  /\ \A who \in {"maker", "taker"} :
       \/ k.fills = j.fills /\ Unsettled(k, who) = Unsettled(j, who)
       \/ Unsettled(j, who) = {} /\ Unsettled(k, who) = {}

LEMMA OutstandingSame ==
  ASSUME NEW j, NEW k, SameOutstanding(j, k), NEW a, NEW asset
  PROVE  Outstanding(k, a, asset) = Outstanding(j, a, asset)
<1>1. ASSUME NEW who \in {"maker", "taker"}
      PROVE  Coming(k.fills, who, Unsettled(k, who), a, asset) =
               Coming(j.fills, who, Unsettled(j, who), a, asset)
  <2>1. CASE k.fills = j.fills /\ Unsettled(k, who) = Unsettled(j, who)
    BY <2>1
  <2>2. CASE Unsettled(j, who) = {} /\ Unsettled(k, who) = {}
    BY <2>2, SumEmpty DEF Coming
  <2> QED  BY <2>1, <2>2 DEF SameOutstanding
<1> QED  BY <1>1 DEF Outstanding

(* The goroutine goes on with its request, or answers it. *)
Continues(r) ==
  /\ \A q \in Requests \ {r} : job'[q] = job[q]
  /\ job'[r].input = job[r].input
  /\ job'[r].pc # "idle"
  /\ job'[r].fills \in {job[r].fills, << >>}

(* It neither matches nor makes another request's deposit known.           *)
Aside(r) ==
  /\ Continues(r)
  /\ tape' = tape
  /\ \A q \in Requests \ {r} : <<q, 0>> \in auditLog' <=> <<q, 0>> \in auditLog

Unmoved ==
  /\ Identified
  /\ \A a \in Accounts, asset \in Assets : Total(wallet'[a], asset) = Total(wallet[a], asset)

(* An order's request knows of no deposit: the wallet gains what it had    *)
(* outstanding and has not any longer.                                     *)
LEMMA PayStep ==
  ASSUME Serial, LedgerInvariant, FundsInvariant', NEW r \in Requests, Busy(r),
         job[r].input.kind # "deposit", Aside(r), Identified,
         NEW k \in Job, k = job'[r],
         \A a \in Accounts, asset \in Assets :
           Total(wallet'[a], asset) =
             Total(wallet[a], asset) + (Outstanding(job[r], a, asset) - Outstanding(k, a, asset))
  PROVE  LedgerInvariant'
<1>1. PICK j \in Job : j = job[r]
  BY DEF LedgerInvariant, FundsInvariant, TypeInvariant, Typed
<1>2. /\ tape' = tape /\ k.input = j.input /\ k.pc # "idle" /\ k.fills \in {j.fills, << >>}
      /\ \A q \in Requests \ {r} : job'[q] = job[q]
      /\ \A q \in Requests \ {r} : <<q, 0>> \in auditLog' <=> <<q, 0>> \in auditLog
  BY <1>1 DEF Aside, Continues
<1>3. ~Credited(r) /\ ~Credited(r)'
  BY <1>1, <1>2 DEF Credited
<1>4. Noted(r)'
  BY <1>1, <1>2 DEF Noted, At
<1>5. ASSUME NEW a \in Accounts, NEW asset \in Assets
      PROVE  /\ Credit(r, a, asset) = 0 /\ Credit(r, a, asset)' = 0
             /\ Total(wallet[a], asset) \in Int
             /\ Outstanding(k, a, asset) \in Int /\ Outstanding(j, a, asset) \in Int
  <2>1. Credit(r, a, asset) = 0 /\ Credit(r, a, asset)' = 0
    BY <1>1, <1>2 DEF Credit
  <2>2. Total(wallet[a], asset) \in Int
    BY ExplainedInteger
  <2>3. Outstanding(k, a, asset) \in Int /\ Outstanding(j, a, asset) \in Int
    BY OutstandingInteger
  <2> QED  BY <2>1, <2>2, <2>3
<1>6. \A a \in Accounts, asset \in Assets :
        Total(wallet'[a], asset) =
          Total(wallet[a], asset) + (Credit(r, a, asset)' - Credit(r, a, asset))
            + (Outstanding(job[r], a, asset) - Outstanding(k, a, asset))
  BY <1>1, <1>5
<1>7. \A a \in Accounts, asset \in Assets : Credit(r, a, asset) \in Int /\ Credit(r, a, asset)' \in Int
  BY <1>5
<1> QED  BY <1>1, <1>2, <1>3, <1>4, <1>6, <1>7, GainStep

LEMMA EvenStep ==
  ASSUME Serial, LedgerInvariant, FundsInvariant', NEW r \in Requests, Busy(r),
         job[r].input.kind # "deposit", Aside(r), Unmoved, SameOutstanding(job[r], job'[r])
  PROVE  LedgerInvariant'
<1>1. PICK k \in Job : k = job'[r]
  BY DEF FundsInvariant, TypeInvariant, Typed
<1>2. PICK j \in Job : j = job[r]
  BY DEF LedgerInvariant, FundsInvariant, TypeInvariant, Typed
<1>3. SameOutstanding(j, k) /\ Identified
  BY <1>1, <1>2 DEF Unmoved
<1>4. ASSUME NEW a \in Accounts, NEW asset \in Assets
      PROVE  Total(wallet'[a], asset) =
               Total(wallet[a], asset) + (Outstanding(j, a, asset) - Outstanding(k, a, asset))
  <2>1. Total(wallet'[a], asset) = Total(wallet[a], asset)
    BY DEF Unmoved
  <2>2. Total(wallet[a], asset) \in Int
    BY ExplainedInteger
  <2>3. Outstanding(k, a, asset) = Outstanding(j, a, asset) /\ Outstanding(j, a, asset) \in Int
    BY <1>3, OutstandingSame, OutstandingInteger
  <2> QED  BY <2>1, <2>2, <2>3
<1> QED  BY <1>1, <1>2, <1>3, <1>4, PayStep

(* Outside settlement nothing is outstanding. *)
LEMMA NoneOutstanding ==
  ASSUME NEW j, NEW k, j.pc \notin Applying, k.pc \notin Applying, k.fills \in {j.fills, << >>}
  PROVE  SameOutstanding(j, k)
BY DEF SameOutstanding, Unsettled, Later

(* Moving an amount between available and locked. *)
LEMMA LockingKeepsTotal ==
  ASSUME Serial, NEW account \in Solvent, NEW asset \in Assets, NEW amount \in Int,
         amount <= account.balances[asset].available,
         0 <= account.balances[asset].locked + amount
  PROVE  \A x \in Assets : Total(Locking(account, asset, amount), x) = Total(account, x)
<1> DEFINE left == account.balances[asset].available - amount
           mid == [account EXCEPT !.balances[asset].available = left]
           kept == mid.balances[asset].locked + amount
           next == [mid EXCEPT !.balances[asset].locked = kept]
<1>1. left \in Nat /\ left \in Amounts
  <2>1. left \in Nat  BY BalanceIsNatural
  <2> QED  BY <2>1, AmountsClosed
<1>2. /\ mid \in Solvent /\ mid.balances[asset].locked = account.balances[asset].locked
      /\ \A x \in Assets :
           /\ mid.balances[x].available = IF x = asset THEN left ELSE account.balances[x].available
           /\ mid.balances[x].locked = account.balances[x].locked
  BY <1>1, AvailableSet
<1>3. kept \in Nat /\ kept \in Amounts
  <2>1. kept \in Nat  BY <1>2, BalanceIsNatural
  <2> QED  BY <2>1, AmountsClosed
<1>4. \A x \in Assets :
        /\ next.balances[x].locked = IF x = asset THEN kept ELSE mid.balances[x].locked
        /\ next.balances[x].available = mid.balances[x].available
  <2> HIDE DEF mid, kept
  <2> QED  BY ZenonT(40), <1>2, <1>3, LockedSet
<1>5. Locking(account, asset, amount) = next
  BY DEF Locking
<1>6. kept = account.balances[asset].locked + amount
  BY <1>2
<1> HIDE DEF mid, kept, next
<1> SUFFICES ASSUME NEW x \in Assets PROVE Total(next, x) = Total(account, x)
  BY <1>5
<1>7. account.balances[x].available \in Nat /\ account.balances[x].locked \in Nat
  BY BalanceIsNatural
<1> QED  BY <1>2, <1>4, <1>6, <1>7 DEF Total

-----------------------------------------------------------------------------
(* Steps that move nothing *)

LEMMA GotoContinues ==
  ASSUME TypeInvariant, NEW r \in Requests, NEW label, Goto(r, label), label # "idle"
  PROVE  Continues(r)
<1>1. job \in [Requests -> Job] /\ job[r] \in Job
  BY DEF TypeInvariant, Typed
<1> QED  BY <1>1 DEF Goto, Continues, Job

LEMMA ReturnContinues ==
  ASSUME TypeInvariant, NEW r \in Requests, NEW answer, Return(r, answer), answer # "idle"
  PROVE  Continues(r)
<1>1. job \in [Requests -> Job] /\ job[r] \in Job
  BY DEF TypeInvariant, Typed
<1> QED  BY <1>1 DEF Return, Idle, Continues, Job

LEMMA Lands ==
  ASSUME TypeInvariant, NEW r \in Requests, NEW label
  PROVE  /\ Goto(r, label) => job'[r].pc = label
         /\ Return(r, label) => job'[r].pc = label
<1>1. job \in [Requests -> Job] /\ job[r] \in Job
  BY DEF TypeInvariant, Typed
<1>2. Goto(r, label) => job'[r].pc = label
  BY <1>1 DEF Goto, Job
<1>3. Return(r, label) => job'[r].pc = label
  BY <1>1 DEF Return, Idle
<1> QED  BY <1>2, <1>3

LEMMA AfterEventContinues ==
  ASSUME TypeInvariant, NEW r \in Requests, AfterEvent(r) PROVE Continues(r)
<1>1. job \in [Requests -> Job] /\ job[r] \in Job
  BY DEF TypeInvariant, Typed
<1>2. CASE job[r].at < Len(job[r].fills)
  BY <1>1, <1>2 DEF AfterEvent, Continues, Job
<1>3. CASE ~(job[r].at < Len(job[r].fills))
  BY <1>3, GotoContinues, ReturnContinues DEF AfterEvent
<1> QED  BY <1>2, <1>3

LEMMA AfterAdjustContinues ==
  ASSUME TypeInvariant, NEW r \in Requests, AfterAdjust(r) PROVE Continues(r)
<1>1. job \in [Requests -> Job] /\ job[r] \in Job
  BY DEF TypeInvariant, Typed
<1>2. \E who, label : label # "idle" /\ job' = [job EXCEPT ![r].role = who, ![r].pc = label]
  <2>1. (IF job[r].role = "maker" THEN "loadReserved" ELSE "loadStatus") # "idle"
    OBVIOUS
  <2> QED  BY <2>1 DEF AfterAdjust
<1> QED  BY <1>1, <1>2 DEF Continues, Job

LEMMA ServeIsAside ==
  ASSUME TypeInvariant, NEW r \in Requests, Serve(r), ~Match(r) PROVE Aside(r)
<1>1. job \in [Requests -> Job] /\ job[r] \in Job
  BY DEF TypeInvariant, Typed
<1> USE DEF Aside
<1>2. CASE Reserve(r)
  BY <1>1, <1>2, GotoContinues, ReturnContinues, AfterEventContinues
     DEF Reserve, Fail, Answered, Event, Continues, Job, memory, book
<1>3. CASE GetReserved(r)
  BY <1>1, <1>3, GotoContinues, ReturnContinues, AfterEventContinues
     DEF GetReserved, Fail, Answered, Event, Continues, Job, memory, book
<1>4. CASE PersistAccount(r)
  BY <1>1, <1>4, GotoContinues, ReturnContinues, AfterEventContinues
     DEF PersistAccount, Fail, Answered, Event, Continues, Job, memory, book
<1>5. CASE ReplaceAccount(r)
  BY <1>1, <1>5, GotoContinues, ReturnContinues, AfterEventContinues
     DEF ReplaceAccount, Fail, Answered, Event, Continues, Job, memory, book
<1>6. CASE CacheAccount(r)
  BY <1>1, <1>6, GotoContinues, ReturnContinues, AfterEventContinues
     DEF CacheAccount, Fail, Answered, Event, Continues, Job, memory, book
<1>7. CASE Submit(r)
  BY <1>1, <1>7, GotoContinues, ReturnContinues, AfterEventContinues
     DEF Submit, Fail, Answered, Event, Continues, Job, memory, book
<1>8. CASE Finish(r)
  BY <1>1, <1>8, GotoContinues, ReturnContinues, AfterEventContinues
     DEF Finish, Fail, Answered, Event, Continues, Job, memory, book
<1>9. CASE LoadStatus(r)
  BY <1>1, <1>9, GotoContinues, ReturnContinues, AfterEventContinues
     DEF LoadStatus, Fail, Answered, Event, Continues, Job, memory, book
<1>10. CASE StoreStatus(r)
  BY SMTT(40), <1>1, <1>10, GotoContinues, ReturnContinues, AfterEventContinues
     DEF StoreStatus, Fail, Answered, Event, Continues, Job, memory, book
<1>11. CASE Collect(r)
  BY ZenonT(40), <1>1, <1>11, GotoContinues, ReturnContinues, AfterEventContinues
     DEF Collect, Fail, Answered, Event, Continues, Job, memory, book
<1>12. CASE Settle(r)
  <2>1. \/ job' = [job EXCEPT ![r].role = "taker"]
        \/ job' = [job EXCEPT ![r].role = "maker", ![r].pc = "loadReserved"]
        \/ Return(r, "failed")
    BY <1>12 DEF Settle, Fail
  <2>2. Continues(r)
    BY <1>1, <1>12, <2>1, ReturnContinues DEF Settle, At, Continues, Job
  <2> QED  BY <1>12, <2>2 DEF Settle, book
<1>13. CASE LoadReserved(r)
  BY <1>1, <1>13, GotoContinues, ReturnContinues, AfterEventContinues
     DEF LoadReserved, Fail, Answered, Event, Continues, Job, memory, book
<1>14. CASE StoreReserved(r)
  BY <1>1, <1>14, GotoContinues, ReturnContinues, AfterEventContinues
     DEF StoreReserved, Fail, Answered, Event, Continues, Job, memory, book
<1>40. ASSUME AfterAdjust(r) PROVE Continues(r)
  BY <1>40, AfterAdjustContinues
<1>15. CASE CheckReserved(r) \/ ClampReserved(r)
  BY <1>15, <1>40, GotoContinues DEF CheckReserved, ClampReserved, memory, book
<1>16. CASE ReleaseMaker(r) \/ ReleaseTaker(r)
  BY <1>16, GotoContinues DEF ReleaseMaker, ReleaseTaker, StartRelease, memory, book
<1>41. CASE ClipReserved(r) \/ ClearReserved(r)
  BY <1>41, GotoContinues DEF ClipReserved, ClearReserved, book
<1>42. CASE SubtractReserved(r) \/ AddReserved(r)
  BY <1>1, <1>42 DEF SubtractReserved, AddReserved, Continues, Job, memory, book
<1>17. CASE NextAccount(r)
  <2>1. CASE Goto(r, "orders")
    BY <1>17, <2>1, GotoContinues DEF NextAccount, memory, book
  <2>2. CASE ~Goto(r, "orders")
    <3>1. PICK a \in Accounts :
            job' = [job EXCEPT ![r].pc = "persist", ![r].clone = job[r].accounts[a],
                               ![r].accounts[a] = None]
      BY <1>17, <2>2 DEF NextAccount
    <3>2. Continues(r)
      BY <1>1, <3>1 DEF Continues, Job
    <3> QED  BY <1>17, <3>2 DEF NextAccount, memory, book
  <2> QED  BY <2>1, <2>2
<1>18. CASE NextOrder(r)
  <2>1. CASE Goto(r, "saveTrades")
    BY <1>18, <2>1, GotoContinues DEF NextOrder, memory, book
  <2>2. CASE ~Goto(r, "saveTrades")
    <3>1. PICK o \in job[r].pending :
            job' = [job EXCEPT ![r].pc = "saveOrder", ![r].pending = @ \ {o},
                               ![r].row = [id |-> o, order |-> orders[o]]]
      BY <1>18, <2>2 DEF NextOrder
    <3>2. Continues(r)
      BY <1>1, <3>1 DEF Continues, Job
    <3> QED  BY <1>18, <3>2 DEF NextOrder, memory, book
  <2> QED  BY <2>1, <2>2
<1>19. CASE PersistOrder(r)
  BY <1>1, <1>19, GotoContinues, ReturnContinues, AfterEventContinues
     DEF PersistOrder, Fail, Answered, Event, Continues, Job, memory, book
<1>20. CASE MarshalOrder(r)
  BY <1>1, <1>20, GotoContinues, ReturnContinues, AfterEventContinues
     DEF MarshalOrder, Fail, Answered, Event, Continues, Job, memory, book
<1>21. CASE PublishOrder(r)
  BY <1>1, <1>21, GotoContinues, ReturnContinues, AfterEventContinues
     DEF PublishOrder, Fail, Answered, Event, Continues, Job, memory, book
<1>22. CASE PersistTrades(r)
  BY <1>1, <1>22, GotoContinues, ReturnContinues, AfterEventContinues
     DEF PersistTrades, Fail, Answered, Event, Continues, Job, memory, book
<1>23. CASE Record(r)
  BY <1>1, <1>23, GotoContinues, ReturnContinues, AfterEventContinues
     DEF Record, Fail, Answered, Event, Continues, Job, memory, book
<1>24. CASE RecordAudit(r)
  BY <1>1, <1>24, GotoContinues, ReturnContinues, AfterEventContinues
     DEF RecordAudit, Fail, Answered, Event, Continues, Job, memory, book
<1>25. CASE PersistAudit(r)
  BY <1>1, <1>25, GotoContinues, ReturnContinues, AfterEventContinues
     DEF PersistAudit, Fail, Answered, Event, Continues, Job, memory, book
<1>26. CASE PublishAudit(r)
  BY <1>1, <1>26, GotoContinues, ReturnContinues, AfterEventContinues
     DEF PublishAudit, Fail, Answered, Event, Continues, Job, memory, book
<1>27. CASE PublishTrade(r)
  BY <1>1, <1>27, GotoContinues, ReturnContinues, AfterEventContinues
     DEF PublishTrade, Fail, Answered, Event, Continues, Job, memory, book
<1>28. CASE TakeSnapshot(r)
  BY <1>1, <1>28, GotoContinues, ReturnContinues, AfterEventContinues
     DEF TakeSnapshot, Fail, Answered, Event, Continues, Job, memory, book
<1>29. CASE CacheOrderBook(r)
  BY <1>1, <1>29, GotoContinues, ReturnContinues, AfterEventContinues
     DEF CacheOrderBook, Fail, Answered, Event, Continues, Job, memory, book
<1>30. CASE CopyTrades(r)
  BY <1>1, <1>30, GotoContinues, ReturnContinues, AfterEventContinues
     DEF CopyTrades, Fail, Answered, Event, Continues, Job, memory, book
<1>31. CASE CacheTrades(r)
  BY <1>1, <1>31, GotoContinues, ReturnContinues, AfterEventContinues
     DEF CacheTrades, Fail, Answered, Event, Continues, Job, memory, book
<1>32. CASE CallFails(r)
  BY <1>1, <1>32, GotoContinues, ReturnContinues, AfterEventContinues
     DEF CallFails, Fail, Answered, Event, Continues, Job, memory, book
<1> QED
  BY <1>2, <1>3, <1>4, <1>5, <1>6, <1>7, <1>8, <1>9, <1>10, <1>11, <1>12, <1>13, <1>14,
     <1>15, <1>16, <1>17, <1>18, <1>19, <1>20, <1>21, <1>22, <1>23, <1>24, <1>25, <1>26,
     <1>27, <1>28, <1>29, <1>30, <1>31, <1>32, <1>41, <1>42 DEF Serve

LEMMA SameIsUnmoved ==
  UNCHANGED <<wallet, orders>> => Unmoved
BY DEF Unmoved, Identified

(* A field of one order is set. *)
LEMMA SetIdentifies ==
  ASSUME TypeInvariant, NEW x \in Orders, orders[x] \in Order, NEW next \in Order,
         next.account = orders[x].account, next.symbol = orders[x].symbol,
            next.side = orders[x].side,
         orders' = [orders EXCEPT ![x] = next]
  PROVE  Identified
<1>1. next # None
  BY ExchangeAssumption
<1>2. orders \in [Orders -> Order \cup {None}]
  BY DEF TypeInvariant, Typed
<1> QED  BY <1>1, <1>2 DEF Identified

LEMMA ReserveBalances ==
  ASSUME Serial, LedgerInvariant, FundsInvariant', NEW r \in Requests, Reserve(r)
  PROVE  LedgerInvariant'
<1> DEFINE o == orders[r]
           a == o.account
           asset == LockedAsset(MyPair(r), o)
           cost == Needs(o, o.quantity)
<1>1. At(r, "reserve") /\ Busy(r) /\ TypeInvariant /\ Aside(r) /\ job[r].pc \notin Applying
  BY ServeIsAside DEF Reserve, Match, Serve, At, Busy, LedgerInvariant, FundsInvariant,
     Applying
<1>2. job[r] \in Job /\ r \in Orders /\ o \in Order /\ o # None /\ job[r].input.kind # "deposit"
  BY <1>1, KnownOf DEF At, Unsubmitted, Local, Phased
<1>3. job'[r].pc \in {"clone", "failed"}
  <2>1. Goto(r, "clone") \/ Return(r, "failed")
    BY DEF Reserve, Fail
  <2> QED  BY <1>1, <2>1, Lands
<1>4. SameOutstanding(job[r], job'[r])
  BY <1>1, <1>3, NoneOutstanding DEF Applying, Aside, Continues
<1>5. Unmoved
  <2>1. CASE ~CanReserve(wallet[a], MyPair(r), o)
    BY <2>1, SameIsUnmoved DEF Reserve
  <2>2. CASE CanReserve(wallet[a], MyPair(r), o)
    <3>1. /\ wallet' = [wallet EXCEPT ![a] = Locking(wallet[a], asset, cost)]
          /\ orders' = [orders EXCEPT ![r] = [o EXCEPT !.reserved = cost]]
      BY <2>2 DEF Reserve, Reserved
    <3>2. /\ a \in Accounts /\ wallet \in [Accounts -> Solvent] /\ wallet[a] \in Solvent
          /\ o.symbol \in Symbols /\ asset \in Assets /\ cost \in Nat
      BY <1>1, <1>2, LockedAssetIsAsset, NeedsIsNatural DEF Order, TypeInvariant, Typed,
         MyPair
    <3>3. cost <= wallet[a].balances[asset].available
      BY <2>2, <3>2, BalanceIsNatural DEF CanReserve
    <3>4. 0 <= wallet[a].balances[asset].locked + cost
      BY <3>2, BalanceIsNatural
    <3>5. [o EXCEPT !.reserved = cost] \in Order
      BY <1>2, <3>2 DEF Order
    <3>6. Identified
      <4> DEFINE next == [o EXCEPT !.reserved = cost]
      <4>1. next \in Order /\ next.account = o.account /\ next.symbol = o.symbol /\ next.side = o.side
        BY <1>2, <3>5 DEF Order
      <4> HIDE DEF next
      <4> QED  BY <1>1, <1>2, <3>1, <4>1, SetIdentifies DEF next
    <3> HIDE DEF o, a, asset, cost
    <3>7. \A x \in Assets : Total(wallet'[a], x) = Total(wallet[a], x)
      BY <3>1, <3>2, <3>3, <3>4, LockingKeepsTotal
    <3> QED  BY <3>1, <3>2, <3>6, <3>7 DEF Unmoved
  <2> QED  BY <2>1, <2>2
<1> QED  BY SMTT(40), <1>1, <1>2, <1>4, <1>5, EvenStep

(* The goroutine copies, stores, caches and publishes. *)
LEMMA ReportsBalance ==
  ASSUME Serial, LedgerInvariant, FundsInvariant', NEW r \in Requests,
         job[r].input.kind # "deposit", Reports(r)
  PROVE  LedgerInvariant'
<1>1. TypeInvariant
  BY DEF LedgerInvariant, FundsInvariant
<1>2. Busy(r) /\ job[r].pc \notin Applying /\ job'[r].pc \notin Applying /\ Unmoved
  BY <1>1, ReportsPass, SameIsUnmoved DEF Leaves
<1>3. Aside(r)
  <2>1. Serve(r)
    BY DEF Reports, Serve
  <2>2. ~Match(r)
    BY <1>2 DEF Match, At, Applying
  <2> QED  BY <1>1, <2>1, <2>2, ServeIsAside
<1>4. SameOutstanding(job[r], job'[r])
  BY <1>2, <1>3, NoneOutstanding DEF Aside, Continues
<1> QED  BY <1>2, <1>3, <1>4, EvenStep

LEMMA SyncingBalances ==
  ASSUME Serial, LedgerInvariant, FundsInvariant', NEW r \in Requests,
         job[r].input.kind # "deposit",
         GetReserved(r) \/ PersistAccount(r) \/ CacheAccount(r) \/ NextAccount(r) \/ ReplaceAccount(r)
  PROVE  LedgerInvariant'
<1>1. TypeInvariant /\ job \in [Requests -> Job] /\ job[r] \in Job
  BY SMTT(40) DEF LedgerInvariant, FundsInvariant, TypeInvariant, Typed
<1>2. Busy(r) /\ job[r].pc \in {"clone", "persist", "cacheAccount", "accounts", "replace"}
  BY DEF GetReserved, PersistAccount, CacheAccount, NextAccount, ReplaceAccount, At, Busy
<1>3. Aside(r)
  <2>1. Serve(r)
    BY DEF Serve
  <2>2. ~Match(r)
    BY <1>2 DEF Match, At
  <2> QED  BY <1>1, <2>1, <2>2, ServeIsAside
<1>4. job'[r].pc \notin Applying
  <2>1. CASE GetReserved(r)
    BY <1>1, <2>1 DEF GetReserved, Applying, Job
  <2>2. CASE PersistAccount(r)
    <3>1. \/ Goto(r, "replace") \/ Return(r, "failed")
          \/ \E c : job' = [job EXCEPT ![r].pc = "replace", ![r].clone = c]
      BY <2>2 DEF PersistAccount, Fail
    <3>2. job'[r].pc \in {"replace", "failed"}
      BY <1>1, <3>1, Lands DEF Job
    <3> QED  BY <3>2 DEF Applying
  <2>3. CASE CacheAccount(r)
    BY <1>1, <2>3 DEF CacheAccount, Goto, Applying, Job
  <2>4. CASE NextAccount(r)
    <3>1. CASE Goto(r, "orders")
      BY <1>1, <3>1, Lands DEF Applying
    <3>2. CASE ~Goto(r, "orders")
      <4>1. PICK a \in Accounts :
              job' = [job EXCEPT ![r].pc = "persist", ![r].clone = job[r].accounts[a],
                                 ![r].accounts[a] = None]
        BY <2>4, <3>2 DEF NextAccount
      <4>2. job'[r].pc = "persist"
        BY <1>1, <4>1 DEF Job
      <4> QED  BY SMTT(40), <4>2 DEF Applying
    <3> QED  BY <3>1, <3>2
  <2>5. CASE ReplaceAccount(r)
    BY <1>1, <2>5 DEF ReplaceAccount, Goto, Applying, Job
  <2> QED  BY <2>1, <2>2, <2>3, <2>4, <2>5
<1>5. SameOutstanding(job[r], job'[r])
  BY <1>2, <1>3, <1>4, NoneOutstanding DEF Aside, Continues, Applying
<1>6. Unmoved
  <2>1. CASE ReplaceAccount(r)
    <3>1. At(r, "replace") /\ wallet' = [wallet EXCEPT ![job[r].clone.id] = job[r].clone] /\ orders' = orders
      BY <2>1 DEF ReplaceAccount
    <3>2. Copied(r) /\ wallet \in [Accounts -> Solvent]
      BY <1>2, BusyIsSolo DEF LedgerInvariant, Keeps, FundsInvariant, TypeInvariant, Typed
    <3>3. job[r].clone.id \in Accounts /\ job[r].clone.balances = wallet[job[r].clone.id].balances
      BY SMTT(40), <3>1, <3>2 DEF Copied, At, Syncing
    <3> QED  BY <3>1, <3>2, <3>3 DEF Unmoved, Identified, Total
  <2>2. CASE ~ReplaceAccount(r)
    BY <2>2, SameIsUnmoved DEF GetReserved, PersistAccount, CacheAccount, NextAccount,
       memory
  <2> QED  BY <2>1, <2>2
<1> QED  BY <1>2, <1>3, <1>5, <1>6, EvenStep

-----------------------------------------------------------------------------
(* Steps around settlement *)

LEMMA SameSpot ==
  ASSUME NEW j, NEW k, k.fills = j.fills, k.at = j.at,
         j.pc \in Applying \ {"settle"}, k.pc \in Applying \ {"settle"}
  PROVE  SameOutstanding(j, k)
BY DEF SameOutstanding, Unsettled, Later

LEMMA PastAll ==
  ASSUME NEW j \in Job, j.at > Len(j.fills) PROVE \A who : Unsettled(j, who) = {}
<1>1. DOMAIN j.fills = 1..Len(j.fills) /\ Len(j.fills) \in Nat /\ j.at \in Nat
  BY LenProperties DEF Job
<1> QED  BY <1>1 DEF Unsettled, Later

(* At most one field of one order is set, and none that identifies it.     *)
LEMMA TouchIsUnmoved ==
  ASSUME TypeInvariant, wallet' = wallet, NEW x \in Orders, orders[x] \in Order,
         \/ \E n : orders' = [orders EXCEPT ![x].reserved = n]
         \/ \E v : orders' = [orders EXCEPT ![x].status = v]
         \/ \E n : orders' = [orders EXCEPT ![x].sequence = n,
            ![x].remaining = orders[x].quantity],
         orders'[x] # None
  PROVE  Unmoved
<1>1. orders \in [Orders -> Order \cup {None}]
  BY DEF TypeInvariant, Typed
<1>2. /\ \A o \in Orders \ {x} : orders'[o] = orders[o]
      /\ orders'[x].account = orders[x].account
      /\ orders'[x].symbol = orders[x].symbol
      /\ orders'[x].side = orders[x].side
  <2>1. CASE \E n : orders' = [orders EXCEPT ![x].reserved = n]
    BY ZenonT(40), <1>1, <2>1 DEF Order
  <2>2. CASE \E v : orders' = [orders EXCEPT ![x].status = v]
    BY ZenonT(40), <1>1, <2>2 DEF Order
  <2>3. CASE \E n : orders' = [orders EXCEPT ![x].sequence = n, ![x].remaining = orders[x].quantity]
    <3>1. PICK n : orders' = [orders EXCEPT ![x].sequence = n, ![x].remaining = orders[x].quantity]
      BY <2>3
    <3>2. /\ \A o \in Orders \ {x} : orders'[o] = orders[o]
          /\ orders'[x] = [orders[x] EXCEPT !.sequence = n, !.remaining = orders[x].quantity]
      BY <1>1, <3>1
    <3> QED  BY <3>2 DEF Order
  <2> QED  BY <2>1, <2>2, <2>3
<1>3. Identified
  BY <1>2 DEF Identified
<1> QED  BY <1>3 DEF Unmoved

(* Where the goroutine goes when it does not settle. *)
Spots(r) ==
  \/ Finish(r) \/ LoadStatus(r) \/ StoreStatus(r) \/ LoadReserved(r) \/ StoreReserved(r)
  \/ CheckReserved(r) \/ ClampReserved(r)

LEMMA SpotStep ==
  ASSUME FundsInvariant, NEW r \in Requests, Spots(r)
  PROVE  /\ job[r].pc \in Applying \ {"settle"} /\ job'[r].pc \in Applying \ {"settle"}
         /\ job'[r].fills = job[r].fills /\ job'[r].at = job[r].at
<1>1. job[r].pc \in Applying \ {"settle"}
  BY DEF Spots, Finish, LoadStatus, StoreStatus, LoadReserved, StoreReserved, CheckReserved,
     ClampReserved, At, Applying
<1>2. job \in [Requests -> Job] /\ job[r] \in Job
  BY SMTT(40) DEF FundsInvariant, TypeInvariant, Typed
<1> DEFINE LandsAt(label) == job'[r].pc = label /\ job'[r].fills = job[r].fills /\ job'[r].at = job[r].at
<1>3. ASSUME NEW label, Goto(r, label) PROVE LandsAt(label)
  BY <1>2, <1>3 DEF Goto, Job
<1>4. ASSUME AfterAdjust(r)
      PROVE  LandsAt(IF job[r].role = "maker" THEN "loadReserved" ELSE "loadStatus")
  BY <1>2, <1>4 DEF AfterAdjust, Job
<1>5. CASE Finish(r)
  BY <1>1, <1>3, <1>5 DEF Finish, Applying
<1>6. CASE LoadStatus(r) \/ LoadReserved(r) \/ StoreReserved(r)
  <2>1. \E label \in {"storeStatus", "storeReserved", "checkReserved"} : LandsAt(label)
    BY <1>2, <1>6 DEF LoadStatus, LoadReserved, StoreReserved, Job
  <2> QED  BY <1>1, <2>1 DEF Applying
<1>7. CASE StoreStatus(r)
  <2>1. \E label \in {"collect", "loadStatus", "releaseMaker"} : LandsAt(label)
    BY <1>2, <1>7 DEF StoreStatus, Job
  <2> QED  BY <1>1, <2>1 DEF Applying
<1>8. CASE CheckReserved(r) \/ ClampReserved(r)
  <2>1. Goto(r, "clampReserved") \/ AfterAdjust(r)
    BY <1>8 DEF CheckReserved, ClampReserved
  <2>2. \E label \in {"clampReserved", "loadReserved", "loadStatus"} : LandsAt(label)
    BY <1>3, <1>4, <2>1
  <2> QED  BY <1>1, <2>2 DEF Applying
<1> QED  BY <1>5, <1>6, <1>7, <1>8 DEF Spots

LEMMA StillThere ==
  ASSUME FundsInvariant', NEW r \in Requests, job'[r].pc \in Applying
  PROVE  orders'[r] # None /\ \A i \in DOMAIN job'[r].fills : orders'[job'[r].fills[i].maker] # None
<1>1. Phased(r)' /\ Priced(r)'
  BY DEF FundsInvariant, TypeInvariant, Local
<1>2. Busy(r)' /\ job'[r].pc \notin Syncing \cup Auditing
  BY DEF Busy, Applying, Syncing, Auditing
<1>3. job'[r].input.kind # "deposit"
  BY <1>1, <1>2 DEF Phased
<1>4. orders'[r] # None
  BY <1>1, <1>2, <1>3 DEF Phased
<1>5. \A i \in DOMAIN job'[r].fills : orders'[job'[r].fills[i].maker] # None
  BY <1>1 DEF Priced
<1> QED  BY <1>4, <1>5

LEMMA SettlingSteps ==
  ASSUME Serial, Turns, LedgerInvariant, FundsInvariant', NEW r \in Requests,
         Spots(r) \/ Frees(r) \/ Collect(r)
  PROVE  LedgerInvariant'
<1>1. FundsInvariant /\ job[r].pc \in Applying
  <2>1. FundsInvariant
    BY DEF LedgerInvariant
  <2>2. Frees(r) => job[r].pc \in Applying
    BY <2>1, FreesIsIdle, FreeingKnown
  <2>3. Spots(r) => job[r].pc \in Applying
    BY <2>1, SpotStep
  <2>4. Collect(r) => job[r].pc \in Applying
    BY DEF Collect, At, Applying
  <2> QED  BY <2>1, <2>2, <2>3, <2>4
<1>2. /\ TypeInvariant /\ Busy(r) /\ Keeps(r) /\ job[r] \in Job /\ Local(r) /\ r \in Orders
      /\ orders[r] \in Order /\ orders[r] # None
      /\ DOMAIN job[r].fills = 1..Len(job[r].fills) /\ Len(job[r].fills) \in Nat
      /\ job[r].at \in Nat /\ job[r].role \in {"maker", "taker"}
  BY <1>1, ApplyingKnown
<1>3. job[r].input.kind # "deposit"
  BY <1>1, <1>2 DEF Local, Phased, Applying, Syncing, Auditing
<1>4. Aside(r)
  <2>1. Serve(r)
    BY SMTT(40) DEF Serve, Spots, Frees
  <2>2. At(r, "match") => Finish(r)
    BY DEF Spots, Frees, LoadStatus, StoreStatus, LoadReserved, StoreReserved, CheckReserved,
       ClampReserved, ReleaseMaker, ReleaseTaker, ClipReserved, SubtractReserved, AddReserved,
       ClearReserved, Collect, At
  <2>3. ~Match(r)
    BY ZenonT(40), <2>2 DEF Match, Finish
  <2> QED  BY <1>2, <2>1, <2>3, ServeIsAside
<1>5. ASSUME Spots(r) PROVE SameOutstanding(job[r], job'[r])
  BY <1>1, <1>5, SpotStep, SameSpot
<1>6. CASE Finish(r) \/ LoadStatus(r) \/ LoadReserved(r) \/ CheckReserved(r)
  <2>1. Unmoved
    BY <1>6, SameIsUnmoved DEF Finish, LoadStatus, LoadReserved, CheckReserved, memory
  <2>2. SameOutstanding(job[r], job'[r])
    BY <1>5, <1>6 DEF Spots
  <2> QED  BY <1>2, <1>3, <1>4, <2>1, <2>2, EvenStep
<1>7. CASE StoreStatus(r) \/ StoreReserved(r) \/ ClampReserved(r)
  <2>1. /\ SameOutstanding(job[r], job'[r]) /\ job'[r].pc \in Applying
        /\ job'[r].fills = job[r].fills
    BY <1>1, <1>5, <1>7, SpotStep DEF Spots
  <2>2. job[r].role = "taker" \/ job[r].at \in 1..Len(job[r].fills)
    <3>1. CASE StoreStatus(r)
      BY <1>2, <3>1 DEF StoreStatus, Local, Positioned, At
    <3>2. CASE StoreReserved(r) \/ ClampReserved(r)
      BY <1>2, <3>2 DEF StoreReserved, ClampReserved, Local, Positioned, At, InFill
    <3> QED  BY <1>7, <3>1, <3>2
  <2>3. PICK x : x = Subject(r)
    OBVIOUS
  <2>4. x \in Orders /\ orders[x] \in Order /\ orders'[x] # None
    <3>1. x \in Orders /\ orders[x] \in Order
      BY <1>2, <2>2, <2>3, SubjectTyped
    <3>2. orders'[x] # None
      BY <1>2, <2>1, <2>2, <2>3, StillThere DEF Subject, Fill
    <3> QED  BY <3>1, <3>2
  <2>5. /\ wallet' = wallet
        /\ \/ \E n : orders' = [orders EXCEPT ![x].reserved = n]
           \/ \E v : orders' = [orders EXCEPT ![x].status = v]
    BY <1>7, <2>3 DEF StoreStatus, StoreReserved, ClampReserved
  <2>6. Unmoved
    BY <1>2, <2>4, <2>5, TouchIsUnmoved
  <2> QED  BY <1>2, <1>3, <1>4, <2>1, <2>6, EvenStep
<1>8. CASE Frees(r)
  <2>1. Unmoved
    BY <1>1, <1>8, FreesIsIdle, SameIsUnmoved
  <2>2. PICK label \in {"subtract", "add", "clear", "collect", "accounts"} : \E v :
          /\ job' = [job EXCEPT ![r].pc = label, ![r].seen = v]
          /\ label = "accounts" => At(r, "releaseTaker")
    BY <1>1, <1>8, FreesIsIdle
  <2>3. /\ job'[r].pc = label /\ job'[r].fills = job[r].fills /\ job'[r].at = job[r].at
        /\ job[r].pc \in Applying \ {"settle"}
    <3>1. job \in [Requests -> Job]
      BY <1>2 DEF TypeInvariant, Typed
    <3>2. job[r].pc \in Freeing
      BY <1>1, <1>8, FreesIsIdle
    <3> QED  BY <1>1, <1>2, <2>2, <3>1, <3>2 DEF Job, Freeing
  <2>4. SameOutstanding(job[r], job'[r])
    <3>1. CASE label # "accounts"
      BY <2>3, <3>1, SameSpot DEF Applying
    <3>2. CASE label = "accounts"
      <4>1. job[r].at > Len(job[r].fills)
        BY <1>1, <1>2, <2>2, <3>2 DEF Keeps, Matched, Steady
      <4>2. \A who : Unsettled(job[r], who) = {}
        BY <1>2, <4>1, PastAll
      <4>3. \A who : Unsettled(job'[r], who) = {}
        BY <2>3, <3>2 DEF Unsettled, Later, Applying
      <4> QED  BY <2>3, <4>2, <4>3 DEF SameOutstanding
    <3> QED  BY <3>1, <3>2
  <2> QED  BY <1>2, <1>3, <1>4, <2>1, <2>4, EvenStep
<1>9. CASE Collect(r)
  <2> DEFINE n == Len(job[r].fills)
  <2>1. Unmoved
    BY <1>9, SameIsUnmoved DEF Collect, memory
  <2>2. /\ job'[r].fills = job[r].fills
        /\ job'[r].at = IF job[r].role = "taker" THEN job[r].at + 1 ELSE job[r].at
        /\ job'[r].role = IF job[r].role = "taker" /\ ~(job[r].at >= n) THEN "maker" ELSE "taker"
        /\ job'[r].pc = IF job[r].role = "maker" THEN "collect"
                        ELSE IF ~(job[r].at >= n) THEN "settle"
                        ELSE IF job[r].at = n THEN "releaseTaker" ELSE "accounts"
    BY <1>2, <1>9, CollectFacts
  <2>3. At(r, "collect")
    BY <1>9 DEF Collect
  <2>4. \A who \in {"maker", "taker"} : Unsettled(job'[r], who) = Unsettled(job[r], who)
    <3> TAKE who \in {"maker", "taker"}
    <3>1. CASE job[r].role = "maker"
      BY <2>2, <2>3, <3>1 DEF At, Unsettled, Later, Applying
    <3>2. CASE job[r].role # "maker" /\ ~(job[r].at >= n)
      <4>1. job'[r].pc = "settle" /\ job'[r].role = "maker" /\ job'[r].at = job[r].at + 1
        BY <1>2, <2>2, <3>2
      <4>2. \A i \in 1..n : i > job[r].at + 1 \/ i = job[r].at + 1 <=> i > job[r].at
        BY <1>2
      <4> QED  BY <1>2, <2>2, <2>3, <4>1, <4>2 DEF At, Unsettled, Later, Applying
    <3>3. CASE job[r].role # "maker" /\ job[r].at >= n
      <4>1. job'[r].pc # "settle" /\ job'[r].at = job[r].at + 1
        BY <1>2, <2>2, <3>3
      <4>2. \A i \in 1..n : ~(i > job[r].at + 1) /\ ~(i > job[r].at)
        BY <1>2, <3>3
      <4> QED  BY <1>2, <2>2, <2>3, <4>1, <4>2 DEF At, Unsettled, Later
    <3> QED  BY <3>1, <3>2, <3>3
  <2>5. SameOutstanding(job[r], job'[r])
    BY <2>2, <2>4 DEF SameOutstanding
  <2> QED  BY <1>2, <1>3, <1>4, <2>1, <2>5, EvenStep
<1> QED  BY <1>6, <1>7, <1>8, <1>9 DEF Spots

LEMMA SubmitBalances ==
  ASSUME Serial, LedgerInvariant, FundsInvariant', NEW r \in Requests, Submit(r)
  PROVE  LedgerInvariant'
<1>1. /\ FundsInvariant /\ TypeInvariant /\ At(r, "submit") /\ Busy(r) /\ job[r].pc \notin Applying
      /\ Goto(r, "match") /\ wallet' = wallet
      /\ orders' = [orders EXCEPT ![r].sequence = seq[orders[r].symbol] + 1,
                                  ![r].remaining = orders[r].quantity]
  BY DEF Submit, At, Busy, LedgerInvariant, FundsInvariant, Applying
<1>2. /\ job[r] \in Job /\ r \in Orders /\ orders[r] \in Order
      /\ job[r].input.kind # "deposit" /\ Fresh(r)
  BY <1>1, KnownOf DEF At, Unsubmitted, Local, Phased, TypeInvariant, Typed
<1>3. Aside(r)
  <2>1. Serve(r)
    BY DEF Serve
  <2>2. ~Match(r)
    BY <1>1 DEF Match, At
  <2> QED  BY <1>1, <2>1, <2>2, ServeIsAside
<1>4. job'[r].pc = "match" /\ job'[r].fills = << >> /\ job[r].fills = << >>
  <2>1. job'[r].pc = "match"
    BY <1>1, Lands
  <2>2. job[r].fills = << >>
    BY <1>2 DEF Fresh
  <2> QED  BY <1>3, <2>1, <2>2 DEF Aside, Continues
<1>5. SameOutstanding(job[r], job'[r])
  BY <1>4 DEF SameOutstanding, Unsettled, Later
<1>6. orders'[r] # None
  BY <1>4, StillThere DEF Applying
<1>7. Unmoved
  BY <1>1, <1>2, <1>6, TouchIsUnmoved
<1> QED  BY <1>1, <1>2, <1>3, <1>5, <1>7, EvenStep

-----------------------------------------------------------------------------
(* One half of a fill is settled *)

(* What the buyer has for a fill is its quantity of the base asset, less   *)
(* its cost in the quote asset; the seller the opposite.                   *)
Bought(side, pair, price, n, x) ==
  IF side = "buy"
    THEN IF x = pair.base THEN n ELSE IF x = pair.quote THEN 0 - price * n ELSE 0
    ELSE IF x = pair.base THEN 0 - n ELSE IF x = pair.quote THEN price * n ELSE 0

LEMMA SettledGains ==
  ASSUME Serial, NEW account \in Solvent, NEW s \in Symbols, NEW order \in Order,
         NEW price \in Nat, NEW n \in Nat,
         CanSettle(account, Pair[s], order, n),
         order.side = "buy" => price <= order.price
  PROVE  \A x \in Assets : Total(Settled(account, Pair[s], order, price, n), x) =
           Total(account, x) + Bought(order.side, Pair[s], price, n, x)
<1>1. Pair[s].base \in Assets /\ Pair[s].quote \in Assets  BY ExchangeAssumption
<1>2. order.price \in Nat  BY DEF Order
<1> DEFINE limit == order.price * n
           cost == price * n
<1>3. limit \in Nat /\ cost \in Nat  BY <1>2, ProductIsNatural
<1>4. order.side = "buy" => cost <= limit  BY <1>2, ProductIsMonotone
<1>p. PICK pair : pair = Pair[s]
  OBVIOUS
<1>c. \A x : Bought(order.side, Pair[s], price, n, x) =
        IF order.side = "buy"
          THEN IF x = pair.base THEN n ELSE IF x = pair.quote THEN 0 - cost ELSE 0
          ELSE IF x = pair.base THEN 0 - n ELSE IF x = pair.quote THEN cost ELSE 0
  BY <1>p DEF Bought
<1>5. CASE order.side = "buy"
  <2> DEFINE quote == Pair[s].quote
             base == Pair[s].base
             left == account.balances[quote].locked - limit
             paid == [account EXCEPT !.balances[quote].locked = left]
             back == account.balances[quote].available + (limit - cost)
             refunded == [paid EXCEPT !.balances[quote].available = back]
             gain == account.balances[base].available + n
             next == [refunded EXCEPT !.balances[base].available = gain]
  <2>1. left \in Amounts
    <3>1. left \in Nat
      BY <1>1, <1>3, <1>5, BalanceIsNatural DEF CanSettle, LockedAsset, Needs
    <3> QED  BY <3>1, AmountsClosed
  <2>2. back \in Amounts /\ gain \in Amounts
    <3>1. back \in Nat /\ gain \in Nat
      <4> HIDE DEF limit, cost
      <4> QED  BY <1>1, <1>3, <1>4, <1>5, BalanceIsNatural
    <3> QED  BY <3>1, AmountsClosed
  <2>3. Settled(account, Pair[s], order, price, n) =
          [account EXCEPT !.balances[quote].locked = @ - limit,
                          !.balances[quote].available = @ + (limit - cost),
                          !.balances[base].available = @ + n]
    BY <1>5 DEF Settled
  <2> HIDE DEF limit, cost
  <2>4. quote # base
    BY ExchangeAssumption
  <2>5. Settled(account, Pair[s], order, price, n) = next
    BY <1>1, <2>3, <2>4 DEF Solvent
  <2>q. quote \in Assets /\ base \in Assets
    BY <1>1
  <2> HIDE DEF quote, base, left, back, gain
  <2>6. paid \in Solvent /\ \A x \in Assets :
          /\ paid.balances[x].locked = IF x = quote THEN left ELSE account.balances[x].locked
          /\ paid.balances[x].available = account.balances[x].available
    BY <2>1, <2>q, LockedSet
  <2> HIDE DEF paid
  <2>7. refunded \in Solvent /\ \A x \in Assets :
          /\ refunded.balances[x].available = IF x = quote THEN back ELSE paid.balances[x].available
          /\ refunded.balances[x].locked = paid.balances[x].locked
    BY <2>2, <2>6, <2>q, AvailableSet
  <2> HIDE DEF refunded
  <2>8. \A x \in Assets :
          /\ next.balances[x].available = IF x = base THEN gain ELSE refunded.balances[x].available
          /\ next.balances[x].locked = refunded.balances[x].locked
    BY ZenonT(40), <2>2, <2>7, <2>q, AvailableSet
  <2> HIDE DEF next
  <2> SUFFICES ASSUME NEW x \in Assets
               PROVE  Total(next, x) = Total(account, x) + Bought(order.side, Pair[s], price, n, x)
    BY <2>5
  <2>9. account.balances[x].available \in Nat /\ account.balances[x].locked \in Nat
    BY BalanceIsNatural
  <2>10. Bought(order.side, Pair[s], price, n, x) =
           IF x = base THEN n ELSE IF x = quote THEN 0 - cost ELSE 0
    BY <1>5, <1>c, <1>p DEF base, quote
  <2>11. CASE x = base
    BY <1>3, <2>4, <2>6, <2>7, <2>8, <2>9, <2>10, <2>11 DEF Total, gain
  <2>12. CASE x = quote
    BY <1>3, <2>4, <2>6, <2>7, <2>8, <2>9, <2>10, <2>12 DEF Total, left, back
  <2>13. CASE x # base /\ x # quote
    BY <2>6, <2>7, <2>8, <2>9, <2>10, <2>13 DEF Total
  <2> QED  BY <2>11, <2>12, <2>13
<1>6. CASE order.side # "buy"
  <2> DEFINE quote == Pair[s].quote
             base == Pair[s].base
             left == account.balances[base].locked - n
             paid == [account EXCEPT !.balances[base].locked = left]
             gain == account.balances[quote].available + cost
             next == [paid EXCEPT !.balances[quote].available = gain]
  <2>1. left \in Amounts
    <3>1. left \in Nat
      BY <1>1, <1>6, BalanceIsNatural DEF CanSettle, LockedAsset, Needs
    <3> QED  BY <3>1, AmountsClosed
  <2>2. gain \in Amounts
    <3>1. gain \in Nat
      <4> HIDE DEF cost
      <4> QED  BY <1>1, <1>3, BalanceIsNatural
    <3> QED  BY <3>1, AmountsClosed
  <2>3. Settled(account, Pair[s], order, price, n) =
          [account EXCEPT !.balances[base].locked = @ - n,
                          !.balances[quote].available = @ + cost]
    BY <1>6 DEF Settled
  <2> HIDE DEF cost
  <2>4. quote # base
    BY ExchangeAssumption
  <2>5. Settled(account, Pair[s], order, price, n) = next
    BY <1>1, <2>3, <2>4 DEF Solvent
  <2>q. quote \in Assets /\ base \in Assets
    BY <1>1
  <2> HIDE DEF quote, base, left, gain
  <2>6. paid \in Solvent /\ \A x \in Assets :
          /\ paid.balances[x].locked = IF x = base THEN left ELSE account.balances[x].locked
          /\ paid.balances[x].available = account.balances[x].available
    BY <2>1, <2>q, LockedSet
  <2> HIDE DEF paid
  <2>7. \A x \in Assets :
          /\ next.balances[x].available = IF x = quote THEN gain ELSE paid.balances[x].available
          /\ next.balances[x].locked = paid.balances[x].locked
    BY ZenonT(40), <2>2, <2>6, <2>q, AvailableSet
  <2> HIDE DEF next
  <2> SUFFICES ASSUME NEW x \in Assets
               PROVE  Total(next, x) = Total(account, x) + Bought(order.side, Pair[s], price, n, x)
    BY <2>5
  <2>9. account.balances[x].available \in Nat /\ account.balances[x].locked \in Nat
    BY BalanceIsNatural
  <2>10. Bought(order.side, Pair[s], price, n, x) =
           IF x = base THEN 0 - n ELSE IF x = quote THEN cost ELSE 0
    BY <1>6, <1>c, <1>p DEF base, quote
  <2>11. CASE x = base
    BY <2>4, <2>6, <2>7, <2>9, <2>10, <2>11 DEF Total, left
  <2>12. CASE x = quote
    BY <1>3, <2>4, <2>6, <2>7, <2>9, <2>10, <2>12 DEF Total, gain
  <2>13. CASE x # base /\ x # quote
    BY <2>6, <2>7, <2>9, <2>10, <2>13 DEF Total
  <2> QED  BY <2>11, <2>12, <2>13
<1> QED  BY <1>5, <1>6

LEMMA HalfIsBought ==
  ASSUME NEW fill \in Trade, NEW who \in {"maker", "taker"}, NEW a, NEW x
  PROVE  LET o == orders[Party(fill, who)] IN
         Half(fill, who, a, x) =
           IF o.account = a THEN Bought(o.side, Pair[o.symbol], fill.price, fill.quantity, x) ELSE 0
<1> DEFINE cost == fill.price * fill.quantity
<1>1. fill.price \in Nat /\ fill.quantity \in Nat
  BY DEF Trade
<1>2. cost \in Nat
  BY <1>1, ProductIsNatural
<1>3. PICK o, p : p = Party(fill, who) /\ o = orders[p]
  OBVIOUS
<1>4. PICK pair : pair = Pair[o.symbol]
  OBVIOUS
<1>5. Gain(p, fill, x) =
        LET units == IF x = pair.base THEN fill.quantity ELSE IF x = pair.quote THEN 0 - cost ELSE 0
        IN  IF o.side = "buy" THEN units ELSE 0 - units
  BY <1>3, <1>4 DEF Gain
<1>6. Bought(o.side, pair, fill.price, fill.quantity, x) =
        IF o.side = "buy"
          THEN IF x = pair.base THEN fill.quantity ELSE IF x = pair.quote THEN 0 - cost ELSE 0
          ELSE IF x = pair.base THEN 0 - fill.quantity ELSE IF x = pair.quote THEN cost ELSE 0
  BY DEF Bought
<1> HIDE DEF cost
<1>7. Gain(p, fill, x) = Bought(o.side, pair, fill.price, fill.quantity, x)
  BY <1>1, <1>2, <1>5, <1>6
<1> QED  BY <1>3, <1>4, <1>7 DEF Half

LEMMA OutstandingDrop ==
  ASSUME NEW j \in Job, NEW k \in Job, k.fills = j.fills, k.at = j.at,
     j.at \in DOMAIN j.fills,
         j.pc = "settle",
         \/ j.role = "maker" /\ k.pc = "settle" /\ k.role = "taker"
         \/ j.role = "taker" /\ k.pc = "loadReserved" /\ k.role = "maker",
         NEW a, NEW x
  PROVE  Outstanding(j, a, x) = Half(j.fills[j.at], j.role, a, x) + Outstanding(k, a, x)
<1> DEFINE i == j.at
           M == Unsettled(j, "maker")
           T == Unsettled(j, "taker")
<1>1. /\ j.fills \in Seq(Trade) /\ DOMAIN j.fills = 1..Len(j.fills) /\ Len(j.fills) \in Nat
      /\ j.pc \in Applying /\ k.pc \in Applying
  BY LenProperties DEF Job, Applying
<1>2. /\ Unsettled(k, "maker") = IF j.role = "maker" THEN M \ {i} ELSE M
      /\ Unsettled(k, "taker") = IF j.role = "taker" THEN T \ {i} ELSE T
      /\ i \in IF j.role = "maker" THEN M ELSE T
      /\ M \in SUBSET DOMAIN j.fills /\ T \in SUBSET DOMAIN j.fills
      /\ M \ {i} \in SUBSET DOMAIN j.fills /\ T \ {i} \in SUBSET DOMAIN j.fills
  <2>1. CASE j.role = "maker"
    BY <1>1, <2>1 DEF Unsettled, Later
  <2>2. CASE j.role = "taker"
    BY <1>1, <2>2 DEF Unsettled, Later
  <2> QED  BY <2>1, <2>2
<1>3. Outstanding(j, a, x) = Coming(j.fills, "maker", M, a, x) + Coming(j.fills, "taker", T, a, x)
  BY DEF Outstanding
<1> HIDE DEF M, T, i
<1>4. /\ Coming(j.fills, "maker", M, a, x) \in Int /\ Coming(j.fills, "taker", T, a, x) \in Int
      /\ Coming(j.fills, "maker", M \ {i}, a, x) \in Int
      /\ Coming(j.fills, "taker", T \ {i}, a, x) \in Int
  BY <1>1, <1>2, ComingInteger
<1>5. j.fills[i] \in Trade /\ \A who : Half(j.fills[i], who, a, x) \in Int
  <2>1. j.fills[i] \in Trade
    BY <1>1, ElementOfSeq DEF i
  <2> QED  BY <2>1, HalfIsInteger
<1>6. CASE j.role = "maker"
  <2>1. Coming(j.fills, "maker", M, a, x) =
          Half(j.fills[i], "maker", a, x) + Coming(j.fills, "maker", M \ {i}, a, x)
    BY <1>1, <1>2, <1>6, ComingDrop
  <2>2. Outstanding(k, a, x) =
          Coming(j.fills, "maker", M \ {i}, a, x) + Coming(j.fills, "taker", T, a, x)
    BY <1>2, <1>6 DEF Outstanding
  <2> QED  BY <1>3, <1>4, <1>5, <1>6, <2>1, <2>2 DEF i
<1>7. CASE j.role = "taker"
  <2>1. Coming(j.fills, "taker", T, a, x) =
          Half(j.fills[i], "taker", a, x) + Coming(j.fills, "taker", T \ {i}, a, x)
    BY <1>1, <1>2, <1>7, ComingDrop
  <2>2. Outstanding(k, a, x) =
          Coming(j.fills, "maker", M, a, x) + Coming(j.fills, "taker", T \ {i}, a, x)
    BY <1>2, <1>7 DEF Outstanding
  <2> QED  BY <1>3, <1>4, <1>5, <1>7, <2>1, <2>2 DEF i
<1> QED  BY <1>6, <1>7

LEMMA SettleBalances ==
  ASSUME Serial, Funded, Turns, LedgerInvariant, FundsInvariant', NEW r \in Requests, Settle(r)
  PROVE  LedgerInvariant'
<1> DEFINE x == Subject(r)
           o == orders[x]
           a == o.account
           f == Fill(r)
           next == Settled(wallet[a], MyPair(r), o, f.price, f.quantity)
<1>1. /\ At(r, "settle") /\ job[r].pc \in Applying /\ job[r].pc \in InFill
      /\ orders' = orders /\ FundsInvariant
  BY DEF Settle, At, Applying, InFill, LedgerInvariant
<1>2. /\ TypeInvariant /\ Busy(r) /\ Local(r) /\ job \in [Requests -> Job] /\ job[r] \in Job
      /\ job[r].role \in {"maker", "taker"} /\ wallet \in [Accounts -> Solvent]
  BY <1>1, ApplyingKnown DEF TypeInvariant, Typed
<1>3. /\ job[r].at \in DOMAIN job[r].fills /\ o \in Order /\ a \in Accounts
      /\ o.symbol = orders[r].symbol /\ orders[r].symbol \in Symbols
      /\ Party(job[r].fills[job[r].at], job[r].role) = x
      /\ f.quantity \in Nat /\ f.price \in Nat /\ (o.side = "buy" => f.price <= o.price)
  BY <1>1, SubjectFacts
<1>4. job[r].input.kind # "deposit"
  BY <1>1, <1>2 DEF Local, Phased, Applying, Syncing, Auditing
<1>5. Aside(r)
  <2>1. Serve(r)
    BY DEF Serve
  <2>2. ~Match(r)
    BY <1>1 DEF Match, At
  <2> QED  BY <1>2, <2>1, <2>2, ServeIsAside
<1>6. Identified
  BY <1>1 DEF Identified
<1>7. CanSettle(wallet[a], MyPair(r), o, f.quantity)
  BY <1>1, FillIsFunded, SettlingIsUnpaid
<1> DEFINE to == IF job[r].role = "maker" THEN [job[r] EXCEPT !.role = "taker"]
                 ELSE [job[r] EXCEPT !.role = "maker", !.pc = "loadReserved"]
<1>8. wallet' = [wallet EXCEPT ![a] = next] /\ job' = [job EXCEPT ![r] = to]
  BY <1>2, <1>7 DEF Settle
<1>9. /\ to \in Job /\ to.fills = job[r].fills /\ to.at = job[r].at
      /\ \/ job[r].role = "maker" /\ to.pc = "settle" /\ to.role = "taker"
         \/ job[r].role = "taker" /\ to.pc = "loadReserved" /\ to.role = "maker"
  <2>1. CASE job[r].role = "maker"
    BY <1>1, <1>2, <2>1 DEF Job, At
  <2>2. CASE job[r].role = "taker"
    BY ZenonT(40), <1>1, <1>2, <2>2 DEF Job, Labels, Submitted, InFill
  <2> QED  BY <1>2, <2>1, <2>2
<1> HIDE DEF to
<1>10. PICK k \in Job : k = to /\ k = job'[r]
  BY <1>2, <1>8, <1>9
<1>11. PICK fill \in Trade : fill = f /\ fill = job[r].fills[job[r].at]
  <2>1. job[r].fills \in Seq(Trade)
    BY <1>2 DEF Job
  <2> QED  BY <1>3, <2>1, LenProperties, ElementOfSeq DEF Fill
<1>12. \A z \in Assets : Total(next, z) =
         Total(wallet[a], z) + Bought(o.side, MyPair(r), f.price, f.quantity, z)
  <2>1. wallet[a] \in Solvent
    BY <1>2, <1>3
  <2> HIDE DEF o, a, f, x
  <2> QED  BY <1>3, <1>7, <2>1, SettledGains DEF MyPair
<1> HIDE DEF next
<1>13. ASSUME NEW b \in Accounts, NEW z \in Assets
       PROVE  Total(wallet'[b], z) =
                Total(wallet[b], z) + (Outstanding(job[r], b, z) - Outstanding(k, b, z))
  <2>1. Outstanding(job[r], b, z) = Half(fill, job[r].role, b, z) + Outstanding(k, b, z)
    BY <1>1, <1>2, <1>3, <1>9, <1>10, <1>11, OutstandingDrop DEF At
  <2>2. Outstanding(k, b, z) \in Int /\ Half(fill, job[r].role, b, z) \in Int
    BY OutstandingInteger, HalfIsInteger
  <2>3. Total(wallet[b], z) \in Int
    BY SMTT(40), ExplainedInteger
  <2>4. Half(fill, job[r].role, b, z) =
          IF a = b THEN Bought(o.side, MyPair(r), f.price, f.quantity, z) ELSE 0
    <3>0. PICK who \in {"maker", "taker"} : who = job[r].role
      BY <1>2
    <3>1. PICK p : p = Party(fill, who) /\ p = x
      BY <1>3, <1>11, <3>0
    <3>2. LET y == orders[Party(fill, who)] IN
          Half(fill, who, b, z) =
            IF y.account = b THEN Bought(y.side, Pair[y.symbol], fill.price, fill.quantity, z) ELSE 0
      BY HalfIsBought
    <3> QED  BY <1>3, <1>11, <3>0, <3>1, <3>2 DEF MyPair
  <2>5. Total(wallet'[b], z) = Total(wallet[b], z) + Half(fill, job[r].role, b, z)
    <3>1. CASE b = a
      <4>1. wallet'[b] = next
        BY <1>2, <1>3, <1>8, <3>1
      <4> QED  BY <1>12, <2>4, <3>1, <4>1
    <3>2. CASE b # a
      <4>1. wallet'[b] = wallet[b]
        BY <1>2, <1>8, <3>2
      <4> QED  BY <2>3, <2>4, <3>2, <4>1
    <3> QED  BY <3>1, <3>2
  <2> QED  BY <2>1, <2>2, <2>3, <2>5
<1> QED  BY <1>2, <1>4, <1>5, <1>6, <1>10, <1>13, PayStep

-----------------------------------------------------------------------------
(* A fill is made *)

LEMMA LegIs ==
  \A leg : leg \in Legs <=>
    \E s \in Symbols : \E i \in DOMAIN tape[s], who \in {"maker", "taker"} : leg = <<s, i, who>>
BY DEF Legs

LEMMA LegWillBe ==
  \A leg : leg \in Legs' <=>
    \E s \in Symbols : \E i \in DOMAIN tape'[s], who \in {"maker", "taker"} : leg = <<s, i, who>>
BY DEF Legs

LEMMA TapeGrows ==
  ASSUME TypeInvariant, NEW s \in Symbols, NEW fill \in Trade,
         tape' = [tape EXCEPT ![s] = Append(tape[s], fill)]
  PROVE  LET n == Len(tape[s]) + 1 IN
         /\ Legs' = Legs \cup {<<s, n, "maker">>, <<s, n, "taker">>}
         /\ <<s, n, "maker">> \notin Legs /\ <<s, n, "taker">> \notin Legs
         /\ tape'[s][n] = fill
         /\ \A q \in Symbols : \A i \in DOMAIN tape[q] : i \in DOMAIN tape'[q] /\ tape'[q][i] = tape[q][i]
         /\ \A q \in Symbols : \A i \in DOMAIN tape'[q] : i \in DOMAIN tape[q] \/ (q = s /\ i = n)
<1>1. tape \in [Symbols -> Seq(Trade)]
  BY DEF TypeInvariant, Typed
<1>2. PICK old \in Seq(Trade), L \in Nat : old = tape[s] /\ L = Len(old)
  BY <1>1, LenProperties
<1>3. PICK new \in Seq(Trade) : new = Append(old, fill)
  BY AppendProperties
<1>4. /\ tape'[s] = new /\ DOMAIN old = 1..L /\ DOMAIN new = 1..(L + 1) /\ new[L + 1] = fill
      /\ \A i \in 1..L : new[i] = old[i]
      /\ \A q \in Symbols \ {s} : tape'[q] = tape[q]
  BY <1>1, <1>2, <1>3, LenProperties, AppendProperties
<1>5. L + 1 \notin 1..L /\ L + 1 \in 1..(L + 1) /\ \A i : i \in 1..(L + 1) <=> i \in 1..L \/ i = L + 1
  BY <1>2
<1>6. \A q \in Symbols : \A i \in DOMAIN tape[q] : i \in DOMAIN tape'[q] /\ tape'[q][i] = tape[q][i]
  <2> SUFFICES ASSUME NEW q \in Symbols, NEW i \in DOMAIN tape[q]
               PROVE  i \in DOMAIN tape'[q] /\ tape'[q][i] = tape[q][i]
    OBVIOUS
  <2>1. CASE q = s
    BY <1>2, <1>4, <1>5, <2>1
  <2>2. CASE q # s
    BY <1>4, <2>2
  <2> QED  BY <2>1, <2>2
<1>7. \A q \in Symbols : \A i \in DOMAIN tape'[q] : i \in DOMAIN tape[q] \/ (q = s /\ i = L + 1)
  <2> SUFFICES ASSUME NEW q \in Symbols, NEW i \in DOMAIN tape'[q]
               PROVE  i \in DOMAIN tape[q] \/ (q = s /\ i = L + 1)
    OBVIOUS
  <2>1. CASE q = s
    BY <1>2, <1>4, <1>5, <2>1
  <2>2. CASE q # s
    BY <1>4, <2>2
  <2> QED  BY <2>1, <2>2
<1>8. <<s, L + 1, "maker">> \notin Legs /\ <<s, L + 1, "taker">> \notin Legs
  BY <1>2, <1>4, <1>5, LegIs
<1>9. Legs' = Legs \cup {<<s, L + 1, "maker">>, <<s, L + 1, "taker">>}
  <2>1. ASSUME NEW leg \in Legs' PROVE leg \in Legs \cup {<<s, L + 1, "maker">>, <<s, L + 1, "taker">>}
    <3>q. PICK q \in Symbols : \E i \in DOMAIN tape'[q], who \in {"maker", "taker"} : leg = <<q, i, who>>
      BY LegWillBe
    <3>1. PICK i \in DOMAIN tape'[q], who \in {"maker", "taker"} : leg = <<q, i, who>>
      BY <3>q
    <3>2. CASE i \in DOMAIN tape[q]
      BY <3>1, <3>2, LegIs
    <3>3. CASE q = s /\ i = L + 1
      BY <3>1, <3>3
    <3> QED  BY <1>7, <3>2, <3>3
  <2>2. ASSUME NEW leg \in Legs PROVE leg \in Legs'
    <3>q. PICK q \in Symbols : \E i \in DOMAIN tape[q], who \in {"maker", "taker"} : leg = <<q, i, who>>
      BY LegIs
    <3>1. PICK i \in DOMAIN tape[q], who \in {"maker", "taker"} : leg = <<q, i, who>>
      BY <3>q
    <3> QED  BY <1>6, <3>1, LegWillBe
  <2>3. ASSUME NEW who \in {"maker", "taker"} PROVE <<s, L + 1, who>> \in Legs'
    <3>1. L + 1 \in DOMAIN tape'[s]
      BY <1>4, <1>5
    <3> QED  BY <3>1, LegWillBe
  <2> QED  BY <2>1, <2>2, <2>3
<1> QED  BY <1>2, <1>4, <1>6, <1>7, <1>8, <1>9

(* Half and Traded, of the orders and the tapes they are given. *)
GainIn(ord, o, fill, x) ==
  LET pair == Pair[ord[o].symbol]
      units == IF x = pair.base THEN fill.quantity
               ELSE IF x = pair.quote THEN 0 - fill.price * fill.quantity ELSE 0
  IN  IF ord[o].side = "buy" THEN units ELSE 0 - units

HalfIn(ord, fill, who, a, x) ==
  IF ord[Party(fill, who)].account = a THEN GainIn(ord, Party(fill, who), fill, x) ELSE 0

LegsOf(ord, tapes, S, a) == {leg \in S : ord[Party(tapes[leg[1]][leg[2]], leg[3])].account = a}

TradedIn(ord, tapes, S, a, x) ==
  SumFunctionOnSet([leg \in LegsOf(ord, tapes, S, a) |->
                      GainIn(ord, Party(tapes[leg[1]][leg[2]], leg[3]),
                         tapes[leg[1]][leg[2]], x)],
                   LegsOf(ord, tapes, S, a))

LEMMA NowAndThen ==
  ASSUME NEW a, NEW x
  PROVE  /\ Traded(a, x) = TradedIn(orders, tape, Legs, a, x)
         /\ Traded(a, x)' = TradedIn(orders', tape', Legs', a, x)
         /\ \A fill, who : Half(fill, who, a, x) = HalfIn(orders, fill, who, a, x)
         /\ \A fill, who : Half(fill, who, a, x)' = HalfIn(orders', fill, who, a, x)
<1>1. Traded(a, x) = TradedIn(orders, tape, Legs, a, x)
  BY DEF Traded, TradedIn, LegsOf, GainIn, Gain, Party
<1>2. Traded(a, x)' = TradedIn(orders', tape', Legs', a, x)
  BY DEF Traded, TradedIn, LegsOf, GainIn, Gain, Party
<1>3. ASSUME NEW fill, NEW who PROVE Half(fill, who, a, x) = HalfIn(orders, fill, who, a, x)
  BY DEF Half, HalfIn, Gain, GainIn
<1>4. ASSUME NEW fill, NEW who PROVE Half(fill, who, a, x)' = HalfIn(orders', fill, who, a, x)
  BY DEF Half, HalfIn, Gain, GainIn
<1> QED  BY <1>1, <1>2, <1>3, <1>4

LEMMA TradedIsSum ==
  ASSUME NEW ord, NEW tapes, NEW S, IsFiniteSet(S), NEW a, NEW x,
         \A leg \in S : HalfIn(ord, tapes[leg[1]][leg[2]], leg[3], a, x) \in Int
  PROVE  TradedIn(ord, tapes, S, a, x) =
           SumFunctionOnSet([leg \in S |-> HalfIn(ord, tapes[leg[1]][leg[2]], leg[3], a, x)], S)
<1> DEFINE T == LegsOf(ord, tapes, S, a)
           F == [leg \in T |->
                   GainIn(ord, Party(tapes[leg[1]][leg[2]], leg[3]), tapes[leg[1]][leg[2]], x)]
           G == [leg \in S |-> HalfIn(ord, tapes[leg[1]][leg[2]], leg[3], a, x)]
<1>1. TradedIn(ord, tapes, S, a, x) = SumFunctionOnSet(F, T)
  BY DEF TradedIn
<1>2. T \in SUBSET S
  BY SMTT(40) DEF LegsOf
<1>3. \A leg \in S : G[leg] = IF leg \in T THEN F[leg] ELSE 0
  BY DEF HalfIn, LegsOf
<1>4. \A leg \in S : G[leg] \in Int
  OBVIOUS
<1> HIDE DEF F, G, T
<1>5. \A leg \in T : F[leg] \in Int
  BY <1>2, <1>3, <1>4
<1>6. SumFunctionOnSet(G, S) = SumFunctionOnSet(F, T)
  BY <1>2, <1>3, <1>5, SumWithin
<1> QED  BY <1>1, <1>6 DEF G

LEMMA TradedGrows ==
  ASSUME TypeInvariant, Taped, Identified, NEW s \in Symbols, NEW fill \in Trade,
         orders[fill.maker] # None, orders[fill.taker] # None,
         tape' = [tape EXCEPT ![s] = Append(tape[s], fill)], NEW a, NEW x
  PROVE  /\ Taped'
         /\ Traded(a, x)' = Half(fill, "maker", a, x) + (Half(fill, "taker", a, x) + Traded(a, x))
         /\ Half(fill, "maker", a, x) \in Int /\ Half(fill, "taker", a, x) \in Int
<1>1. PICK n : n = Len(tape[s]) + 1
  OBVIOUS
<1>2. PICK L, M, one, two :
        L = Legs /\ M = Legs' /\ one = <<s, n, "maker">> /\ two = <<s, n, "taker">>
  OBVIOUS
<1>3. /\ M = L \cup {one, two} /\ one \notin L /\ two \notin L
      /\ tape'[s][n] = fill
      /\ \A q \in Symbols : \A i \in DOMAIN tape[q] : i \in DOMAIN tape'[q] /\ tape'[q][i] = tape[q][i]
      /\ \A q \in Symbols : \A i \in DOMAIN tape'[q] : i \in DOMAIN tape[q] \/ (q = s /\ i = n)
  <2>1. LET m == Len(tape[s]) + 1 IN
        /\ Legs' = Legs \cup {<<s, m, "maker">>, <<s, m, "taker">>}
        /\ <<s, m, "maker">> \notin Legs /\ <<s, m, "taker">> \notin Legs
        /\ tape'[s][m] = fill
        /\ \A q \in Symbols : \A i \in DOMAIN tape[q] : i \in DOMAIN tape'[q] /\ tape'[q][i] = tape[q][i]
        /\ \A q \in Symbols : \A i \in DOMAIN tape'[q] : i \in DOMAIN tape[q] \/ (q = s /\ i = m)
    BY TapeGrows
  <2> QED  BY <1>1, <1>2, <2>1
<1>4. one # two /\ one[1] = s /\ one[2] = n /\ one[3] = "maker"
      /\ two[1] = s /\ two[2] = n /\ two[3] = "taker"
  BY <1>2
<1>5. IsFiniteSet(L) /\ IsFiniteSet(M)
  <2>1. IsFiniteSet(L)
    BY <1>2 DEF Taped
  <2>2. IsFiniteSet(L \cup {one})
    BY <2>1, FS_AddElement
  <2>3. IsFiniteSet((L \cup {one}) \cup {two})
    BY <2>2, FS_AddElement
  <2>4. M = (L \cup {one}) \cup {two}
    BY <1>3
  <2> QED  BY <2>1, <2>3, <2>4
<1>6. \A leg \in L :
        /\ leg[1] \in Symbols /\ leg[2] \in DOMAIN tape[leg[1]] /\ leg[3] \in {"maker", "taker"}
        /\ tape[leg[1]][leg[2]] \in Trade /\ tape'[leg[1]][leg[2]] = tape[leg[1]][leg[2]]
        /\ orders[tape[leg[1]][leg[2]].maker] # None /\ orders[tape[leg[1]][leg[2]].taker] # None
  BY <1>2, <1>3, LegFacts DEF Taped, Known
<1>o. PICK ord, later, tapes, longer : ord = orders /\ later = orders' /\ tapes = tape /\ longer = tape'
  OBVIOUS
<1> DEFINE G == [leg \in L |-> HalfIn(ord, tapes[leg[1]][leg[2]], leg[3], a, x)]
           H == [leg \in M |-> HalfIn(later, longer[leg[1]][leg[2]], leg[3], a, x)]
<1>h. ASSUME NEW t \in Trade, NEW who \in {"maker", "taker"},
             orders[t.maker] # None, orders[t.taker] # None
      PROVE  /\ HalfIn(ord, t, who, a, x) = Half(t, who, a, x)
             /\ HalfIn(later, t, who, a, x) = Half(t, who, a, x)
             /\ Half(t, who, a, x) \in Int
  <2>1. Half(t, who, a, x) \in Int
    BY HalfIsInteger, <1>h
  <2>2. Half(t, who, a, x)' = Half(t, who, a, x)
    BY HalfStays, <1>h
  <2>3. HalfIn(ord, t, who, a, x) = Half(t, who, a, x)
    BY <1>o, NowAndThen
  <2>4. HalfIn(later, t, who, a, x) = Half(t, who, a, x)'
    BY <1>o, NowAndThen
  <2> QED  BY <2>1, <2>2, <2>3, <2>4
<1>7. ASSUME NEW leg \in L PROVE G[leg] \in Int /\ H[leg] = G[leg]
  <2>1. PICK t \in Trade, who \in {"maker", "taker"} : t = tape[leg[1]][leg[2]] /\ who = leg[3]
    BY <1>6
  <2>2. /\ HalfIn(ord, t, who, a, x) = Half(t, who, a, x)
        /\ HalfIn(later, t, who, a, x) = Half(t, who, a, x)
        /\ Half(t, who, a, x) \in Int
    BY <1>6, <1>h, <2>1
  <2>3. tapes[leg[1]][leg[2]] = t /\ longer[leg[1]][leg[2]] = t
    BY <1>6, <1>o, <2>1
  <2> QED  BY <1>3, <2>1, <2>2, <2>3
<1>8. /\ H[one] = Half(fill, "maker", a, x) /\ H[two] = Half(fill, "taker", a, x)
      /\ Half(fill, "maker", a, x) \in Int /\ Half(fill, "taker", a, x) \in Int
  <2>1. /\ HalfIn(later, fill, "maker", a, x) = Half(fill, "maker", a, x)
        /\ HalfIn(later, fill, "taker", a, x) = Half(fill, "taker", a, x)
        /\ Half(fill, "maker", a, x) \in Int /\ Half(fill, "taker", a, x) \in Int
    BY <1>h
  <2>2. longer[one[1]][one[2]] = fill /\ longer[two[1]][two[2]] = fill
    BY <1>3, <1>4, <1>o
  <2> QED  BY <1>3, <1>4, <2>1, <2>2
<1>9. \A leg \in M : H[leg] \in Int
  <2> HIDE DEF G, H
  <2> QED  BY <1>3, <1>7, <1>8
<1>10. Traded(a, x) = SumFunctionOnSet(G, L)
  <2>1. Traded(a, x) = TradedIn(ord, tapes, L, a, x)
    BY <1>2, <1>o, NowAndThen
  <2>2. \A leg \in L : HalfIn(ord, tapes[leg[1]][leg[2]], leg[3], a, x) \in Int
    BY <1>7
  <2> QED  BY <1>5, <2>1, <2>2, TradedIsSum
<1>11. Traded(a, x)' = SumFunctionOnSet(H, M)
  <2>1. Traded(a, x)' = TradedIn(later, longer, M, a, x)
    BY <1>2, <1>o, NowAndThen
  <2>2. \A leg \in M : HalfIn(later, longer[leg[1]][leg[2]], leg[3], a, x) \in Int
    BY <1>9
  <2> QED  BY <1>5, <2>1, <2>2, TradedIsSum
<1>12. SumFunctionOnSet(H, L) = SumFunctionOnSet(G, L)
  <2> HIDE DEF G, H
  <2> QED  BY <1>5, <1>7, SumEqual
<1> HIDE DEF G, H
<1>13. SumFunctionOnSet(H, M) = H[one] + (H[two] + SumFunctionOnSet(H, L))
  <2>1. M \ {one} = L \cup {two} /\ (L \cup {two}) \ {two} = L
    BY <1>3, <1>4
  <2>2. IsFiniteSet(L \cup {two})
    BY <1>5, FS_AddElement
  <2>3. SumFunctionOnSet(H, M) = H[one] + SumFunctionOnSet(H, M \ {one})
    <3>1. one \in M
      BY <1>3
    <3> QED  BY <1>5, <1>9, <3>1, SumAdds
  <2>4. PICK K : K = L \cup {two}
    OBVIOUS
  <2>5. SumFunctionOnSet(H, K) = H[two] + SumFunctionOnSet(H, K \ {two})
    <3>1. IsFiniteSet(K) /\ two \in K /\ \A leg \in K : H[leg] \in Int
      BY <1>3, <1>9, <2>2, <2>4
    <3> QED  BY <3>1, SumAdds
  <2> QED  BY <2>1, <2>3, <2>4, <2>5
<1>14. Taped'
  <2>1. ASSUME NEW q \in Symbols, NEW i \in DOMAIN tape'[q]
        PROVE  orders'[tape'[q][i].maker] # None /\ orders'[tape'[q][i].taker] # None
    <3>1. CASE i \in DOMAIN tape[q]
      <4>1. PICK t \in Trade : t = tape[q][i]
        <5>1. tape[q] \in Seq(Trade)
          BY DEF TypeInvariant, Typed
        <5> QED  BY <3>1, <5>1, LenProperties, ElementOfSeq
      <4>2. orders[t.maker] # None /\ orders[t.taker] # None
        BY <3>1, <4>1 DEF Taped, Known
      <4>3. tape'[q][i] = t
        BY <1>3, <3>1, <4>1
      <4> QED  BY <4>2, <4>3 DEF Identified, Trade, Orders
    <3>2. CASE q = s /\ i = n
      BY <1>3, <3>2 DEF Identified, Trade, Orders
    <3> QED  BY <1>3, <3>1, <3>2
  <2> QED  BY <1>2, <1>5, <2>1 DEF Taped, Known
<1> QED  BY <1>8, <1>10, <1>11, <1>12, <1>13, <1>14

(* A new fill is outstanding for both of its orders. *)
LEMMA MatchOutstanding ==
  ASSUME NEW j \in Job, NEW k \in Job, NEW fill \in Trade, k.fills = Append(j.fills, fill),
         j.pc = "match", k.pc = "match", j.at = 0, k.at = 0, NEW a, NEW asset
  PROVE  Outstanding(k, a, asset) =
           (Half(fill, "maker", a, asset) + Half(fill, "taker", a, asset)) + Outstanding(j, a, asset)
<1> DEFINE S == DOMAIN j.fills
           T == DOMAIN k.fills
<1>1. /\ j.fills \in Seq(Trade) /\ S = 1..Len(j.fills) /\ Len(j.fills) \in Nat
      /\ T = 1..(Len(j.fills) + 1) /\ k.fills \in Seq(Trade)
  BY LenProperties, AppendProperties DEF Job
<1>2. T = S \cup {Len(j.fills) + 1}
  BY <1>1
<1>3. \A who : Unsettled(j, who) = S /\ Unsettled(k, who) = T
  <2>1. (\A i \in S : i > 0) /\ (\A i \in T : i > 0)
    BY <1>1
  <2>2. \A now : Later(j, now) = S /\ Later(k, now) = T
    BY <2>1 DEF Later, Applying
  <2> QED  BY <2>2 DEF Unsettled
<1> HIDE DEF T
<1>4. ASSUME NEW who
      PROVE  /\ Coming(k.fills, who, T, a, asset) =
                  Half(fill, who, a, asset) + Coming(j.fills, who, S, a, asset)
             /\ Coming(j.fills, who, S, a, asset) \in Int /\ Half(fill, who, a, asset) \in Int
  <2>1. S \in SUBSET DOMAIN j.fills
    OBVIOUS
  <2>2. Coming(j.fills, who, S, a, asset) \in Int
    BY <1>1, <2>1, ComingInteger
  <2>3. Half(fill, who, a, asset) \in Int
    BY HalfIsInteger
  <2> HIDE DEF S
  <2>4. Coming(Append(j.fills, fill), who, S \cup {Len(j.fills) + 1}, a, asset) =
          Half(fill, who, a, asset) + Coming(j.fills, who, S, a, asset)
    BY <1>1, <2>1, ComingAppend
  <2> QED  BY <1>2, <2>2, <2>3, <2>4
<1> HIDE DEF S
<1>5. /\ Outstanding(j, a, asset) =
           Coming(j.fills, "maker", S, a, asset) + Coming(j.fills, "taker", S, a, asset)
      /\ Outstanding(k, a, asset) =
           Coming(k.fills, "maker", T, a, asset) + Coming(k.fills, "taker", T, a, asset)
  BY <1>3 DEF Outstanding
<1> QED  BY <1>4, <1>5

LEMMA MatchBalances ==
  ASSUME Serial, LedgerInvariant, FundsInvariant', NEW r \in Requests, Match(r)
  PROVE  LedgerInvariant'
<1> DEFINE s == orders[r].symbol
           maker == Head(queue[s][Opposite(orders[r].side)])
           n == FillQuantity(orders, r, maker)
           fill == FillOf(orders, r, maker)
<1>1. /\ At(r, "match") /\ Busy(r) /\ wallet' = wallet /\ auditLog' = auditLog
      /\ tape' = [tape EXCEPT ![s] = Append(tape[s], fill)]
      /\ job' = [job EXCEPT ![r] = [job[r] EXCEPT !.fills = Append(job[r].fills, fill)]]
  BY DEF Match, At, Busy
<1>2. /\ TypeInvariant /\ Taped /\ Local(r) /\ Solo(r) /\ Balanced(r)
      /\ job \in [Requests -> Job] /\ job[r] \in Job /\ job'[r] \in Job
      /\ r \in Orders /\ orders[r] \in Order /\ orders[r] # None /\ job[r].input.kind # "deposit"
  <2>1. TypeInvariant /\ Taped /\ Solo(r) /\ Balanced(r)
    BY <1>1, BusyIsSolo DEF LedgerInvariant, FundsInvariant
  <2>2. Local(r) /\ job \in [Requests -> Job] /\ job[r] \in Job /\ job'[r] \in Job
    BY SMTT(40), <2>1 DEF TypeInvariant, Typed, FundsInvariant
  <2> QED  BY <1>1, <2>1, <2>2, KnownOf DEF At, Submitted, Local, Phased
<1>3. /\ s \in Symbols /\ maker \in Orders /\ maker # r /\ orders[maker] \in Order /\ orders[maker] # None
      /\ fill \in Trade /\ fill.maker = maker /\ fill.taker = r
      /\ \A o \in Orders \ {r, maker} : orders'[o] = orders[o]
      /\ orders'[maker] = [orders[maker] EXCEPT !.remaining = @ - n]
      /\ orders'[r] = [orders[r] EXCEPT !.remaining = @ - n]
      /\ orders'[maker] \in Order /\ orders'[r] \in Order
      /\ n \in Nat
  BY ZenonT(40), <1>2, MatchFacts
<1> HIDE DEF maker, n, fill
<1>4. Identified
  <2> HIDE DEF s
  <2>1. \A o \in {r, maker} : /\ orders'[o] \in Order /\ orders'[o].account = orders[o].account
                              /\ orders'[o].symbol = orders[o].symbol /\ orders'[o].side = orders[o].side
    BY <1>2, <1>3 DEF Order
  <2>2. None \notin Order
    BY ExchangeAssumption
  <2> QED  BY <1>3, <2>1, <2>2 DEF Identified
<1>5. PICK t \in Trade, y \in Symbols :
        /\ t = fill /\ y = s /\ orders[t.maker] # None /\ orders[t.taker] # None
        /\ tape' = [tape EXCEPT ![y] = Append(tape[y], t)]
  BY <1>1, <1>2, <1>3
<1>6. PICK j \in Job, k \in Job :
        /\ j = job[r] /\ k = job'[r] /\ k.fills = Append(j.fills, t) /\ k.input = j.input
        /\ j.pc = "match" /\ k.pc = "match" /\ j.at = 0 /\ k.at = 0
  <2>1. job[r].at = 0
    BY <1>1, <1>2 DEF Local, Positioned
  <2>2. job'[r] = [job[r] EXCEPT !.fills = Append(job[r].fills, t)]
    BY <1>1, <1>2, <1>5
  <2>3. /\ job'[r].fills = Append(job[r].fills, t) /\ job'[r].input = job[r].input
        /\ job'[r].pc = job[r].pc /\ job'[r].at = job[r].at
    BY <1>2, <2>2 DEF Job
  <2> QED  BY <1>1, <1>2, <2>1, <2>3 DEF At
<1>7. \A q \in Requests \ {r} : job'[q] = job[q]
  BY <1>1, <1>2
<1> HIDE DEF s
<1>8. ASSUME NEW a \in Accounts, NEW x \in Assets
      PROVE  /\ Explained(a, x)' \in Int
             /\ Total(wallet[a], x)' = Explained(a, x)' + Credit(r, a, x)' - Outstanding(k, a, x)'
             /\ Taped'
  <2>1. /\ Taped'
        /\ Traded(a, x)' = Half(t, "maker", a, x) + (Half(t, "taker", a, x) + Traded(a, x))
        /\ Half(t, "maker", a, x) \in Int /\ Half(t, "taker", a, x) \in Int
    BY ZenonT(40), <1>2, <1>4, <1>5, TradedGrows
  <2>2. Deposited(a, x)' = Deposited(a, x)
    <3>1. \A q \in Requests : Credited(q)' <=> Credited(q)
      BY <1>1, <1>6, <1>7 DEF Credited
    <3>2. \A q \in Requests : Credited(q) => job'[q].input = job[q].input
      BY <1>6, <1>7
    <3> QED  BY <3>1, <3>2, DepositedStays
  <2>3. /\ Deposited(a, x) \in Int /\ Traded(a, x) \in Int /\ Total(InitialAccounts[a], x) \in Int
        /\ Explained(a, x) = Total(InitialAccounts[a], x) + Deposited(a, x) + Traded(a, x)
        /\ Explained(a, x)' = Total(InitialAccounts[a], x) + Deposited(a, x)' + Traded(a, x)'
    BY ExplainedInteger DEF Explained, Total
  <2>4. Credit(r, a, x) = 0 /\ Credit(r, a, x)' = 0
    BY <1>6 DEF Credit
  <2>5. Outstanding(k, a, x)' = Outstanding(k, a, x)
    <3>1. Known(j.fills)
      BY <1>2, <1>6, FillsKnown
    <3>2. j.fills \in Seq(Trade)
      BY DEF Job
    <3>3. Known(k.fills)
      <4>1. ASSUME NEW i \in DOMAIN k.fills
            PROVE  orders[k.fills[i].maker] # None /\ orders[k.fills[i].taker] # None
        <5>1. CASE i \in DOMAIN j.fills
          <6>1. k.fills[i] = j.fills[i]
            BY <1>6, <3>2, <5>1, LenProperties, AppendProperties
          <6> QED  BY <3>1, <5>1, <6>1 DEF Known
        <5>2. CASE i \notin DOMAIN j.fills
          <6>1. k.fills[i] = t
            BY <1>6, <3>2, <5>2, LenProperties, AppendProperties
          <6> QED  BY <1>5, <6>1
        <5> QED  BY <5>1, <5>2
      <4> QED  BY <4>1 DEF Known
    <3> QED  BY <1>4, <3>3, OutstandingStays
  <2>6. /\ Outstanding(k, a, x) =
             (Half(t, "maker", a, x) + Half(t, "taker", a, x)) + Outstanding(j, a, x)
        /\ Outstanding(j, a, x) \in Int
    BY SMTT(40), <1>6, MatchOutstanding, OutstandingInteger
  <2>7. Total(wallet[a], x) = Explained(a, x) + Credit(r, a, x) - Outstanding(j, a, x)
    BY <1>2, <1>6 DEF Balanced
  <2>8. Total(wallet[a], x)' = Total(wallet[a], x)
    BY <1>1 DEF Total
  <2> QED  BY <2>1, <2>2, <2>3, <2>4, <2>5, <2>6, <2>7, <2>8
<1>9. Balanced(r)'
  BY <1>6, <1>8 DEF Balanced
<1>10. Noted(r)'
  BY <1>2, <1>6 DEF Noted, At, Syncing
<1>11. Taped'
  BY <1>2, <1>4, <1>5, TradedGrows
<1> QED  BY <1>1, <1>2, <1>7, <1>8, <1>9, <1>10, <1>11, LedgerTurn

-----------------------------------------------------------------------------
(* A deposit *)

LEMMA DepositInput ==
  ASSUME LedgerInvariant, NEW r \in Requests, Busy(r), job[r].input.kind = "deposit"
  PROVE  /\ job[r].input \in Inputs /\ job[r].input.account \in Accounts
         /\ job[r].input.asset \in Assets /\ job[r].input.amount \in Int
         /\ Fresh(r) /\ job[r].pc \in Syncing \cup Auditing
<1>1. /\ job[r].input \in Inputs /\ Fresh(r) /\ job[r].pc \in Syncing \cup Auditing
  BY DEF LedgerInvariant, FundsInvariant, TypeInvariant, Local, Phased, Busy, At
<1> QED  BY <1>1, ExchangeAssumption DEF WellFormed

(* Until it is recorded, a deposit is in the wallet as a credit.           *)
LEMMA DepositStep ==
  ASSUME Serial, LedgerInvariant, FundsInvariant', NEW r \in Requests, Busy(r),
         job[r].input.kind = "deposit", Aside(r), auditLog' = auditLog, orders' = orders,
         Noted(r)',
         \A a \in Accounts, asset \in Assets :
           Total(wallet'[a], asset) =
             Total(wallet[a], asset) + (Credit(r, a, asset)' - Credit(r, a, asset))
  PROVE  LedgerInvariant'
<1>1. PICK j \in Job, k \in Job : j = job[r] /\ k = job'[r]
  BY DEF LedgerInvariant, FundsInvariant, TypeInvariant, Typed
<1>2. /\ tape' = tape /\ k.input = j.input /\ k.pc # "idle" /\ k.fills \in {j.fills, << >>}
      /\ \A q \in Requests \ {r} : job'[q] = job[q]
  BY <1>1 DEF Aside, Continues
<1>3. j.fills = << >> /\ j.input.amount \in Int
  BY <1>1, DepositInput DEF Fresh
<1>4. Credited(r)' <=> Credited(r)
  BY <1>1, <1>2 DEF Credited
<1>5. Credited(r) => job'[r].input = job[r].input
  BY <1>1, <1>2
<1>6. Identified
  BY DEF Identified
<1>7. ASSUME NEW a \in Accounts, NEW asset \in Assets
      PROVE  /\ Credit(r, a, asset) \in Int /\ Credit(r, a, asset)' \in Int
             /\ Outstanding(k, a, asset) = 0 /\ Outstanding(j, a, asset) = 0
             /\ Total(wallet[a], asset) \in Int
  <2>1. Credit(r, a, asset) \in Int
    BY <1>1, <1>3 DEF Credit
  <2>2. Credit(r, a, asset)' \in Int
    BY <1>1, <1>2, <1>3 DEF Credit
  <2>3. Outstanding(k, a, asset) = 0 /\ Outstanding(j, a, asset) = 0
    BY <1>2, <1>3, NothingOutstanding
  <2>4. Total(wallet[a], asset) \in Int
    BY ExplainedInteger
  <2> QED  BY <2>1, <2>2, <2>3, <2>4
<1>8. \A a \in Accounts, asset \in Assets :
        Total(wallet'[a], asset) =
          Total(wallet[a], asset) + (Credit(r, a, asset)' - Credit(r, a, asset))
            + (Outstanding(job[r], a, asset) - Outstanding(k, a, asset))
  BY <1>1, <1>7
<1>9. \A a \in Accounts, asset \in Assets : Credit(r, a, asset) \in Int /\ Credit(r, a, asset)' \in Int
  BY <1>7
<1>10. \A q \in Requests \ {r} : <<q, 0>> \in auditLog' <=> <<q, 0>> \in auditLog
  OBVIOUS
<1> QED  BY <1>1, <1>2, <1>4, <1>5, <1>6, <1>8, <1>9, <1>10, GainStep

LEMMA DepositIsAside ==
  ASSUME LedgerInvariant, NEW r \in Requests, Busy(r), job[r].input.kind = "deposit", Serve(r)
  PROVE  Aside(r)
<1>1. TypeInvariant /\ job[r].pc \in Syncing \cup Auditing
  BY DepositInput DEF LedgerInvariant, FundsInvariant
<1>2. ~Match(r)
  BY <1>1 DEF Match, At, Syncing, Auditing
<1> QED  BY <1>1, <1>2, ServeIsAside

LEMMA PersistDeposit ==
  ASSUME Serial, LedgerInvariant, FundsInvariant', NEW r \in Requests,
         job[r].input.kind = "deposit", PersistAccount(r)
  PROVE  LedgerInvariant'
<1> DEFINE c == job[r].clone
           next == [c EXCEPT !.version = @ + 1]
<1>1. /\ At(r, "persist") /\ Busy(r) /\ TypeInvariant
      /\ wallet' = wallet /\ orders' = orders /\ auditLog' = auditLog
  BY DEF PersistAccount, At, Busy, LedgerInvariant, FundsInvariant, memory
<1>2. /\ Aside(r) /\ job \in [Requests -> Job] /\ job[r] \in Job /\ c \in Solvent
  BY <1>1, DepositIsAside DEF Serve, At, TypeInvariant, Typed, Local, Loaded, Syncing
<1>3. <<r, 0>> \notin auditLog /\ c.id = job[r].input.account
  BY <1>1 DEF LedgerInvariant, Noted, At, Syncing
<1>4. job'[r].pc = "failed" \/ (job'[r].pc = "replace" /\ job'[r].clone.id = c.id)
  <2>1. next.id = c.id
    BY <1>2 DEF Solvent
  <2> HIDE DEF next, c
  <2>2. CASE Fail(r)
    BY <1>1, <2>2, Lands DEF Fail
  <2>3. CASE Goto(r, "replace")
    BY <1>2, <2>3 DEF Goto, Job, c
  <2>4. CASE job' = [job EXCEPT ![r].pc = "replace", ![r].clone = next]
    <3>1. job'[r].pc = "replace" /\ job'[r].clone = next
      BY <1>2, <2>4 DEF Job
    <3> QED  BY <2>1, <3>1
  <2>5. Fail(r) \/ Goto(r, "replace") \/ job' = [job EXCEPT ![r].pc = "replace", ![r].clone = next]
    BY DEF PersistAccount, next, c
  <2> QED  BY <2>2, <2>3, <2>4, <2>5
<1>5. Noted(r)'
  BY <1>1, <1>2, <1>3, <1>4 DEF Noted, At, Syncing, Aside, Continues
<1>6. ASSUME NEW a \in Accounts, NEW asset \in Assets
      PROVE  Total(wallet'[a], asset) =
               Total(wallet[a], asset) + (Credit(r, a, asset)' - Credit(r, a, asset))
  <2>1. Credit(r, a, asset) = 0 /\ Credit(r, a, asset)' = 0
    BY <1>1, <1>4 DEF Credit, At
  <2>2. Total(wallet[a], asset) \in Int
    BY ExplainedInteger
  <2> QED  BY <1>1, <2>1, <2>2
<1> QED  BY <1>1, <1>2, <1>5, <1>6, DepositStep

(* The account with the deposit in it takes the wallet's place.            *)
LEMMA ReplaceDeposit ==
  ASSUME Serial, LedgerInvariant, FundsInvariant', NEW r \in Requests,
         job[r].input.kind = "deposit", ReplaceAccount(r)
  PROVE  LedgerInvariant'
<1>1. /\ At(r, "replace") /\ Busy(r) /\ TypeInvariant /\ Goto(r, "cacheAccount")
      /\ wallet' = [wallet EXCEPT ![job[r].clone.id] = job[r].clone]
      /\ orders' = orders /\ auditLog' = auditLog
  BY DEF ReplaceAccount, At, Busy, LedgerInvariant, FundsInvariant
<1>2. PICK in \in Inputs, b \in Accounts, y \in Assets, n \in Int :
        /\ in = job[r].input /\ b = in.account /\ y = in.asset /\ n = in.amount
        /\ in.kind = "deposit"
  BY <1>1, DepositInput
<1>3. /\ Aside(r) /\ job \in [Requests -> Job] /\ job[r] \in Job
      /\ wallet \in [Accounts -> Solvent]
  BY <1>1, DepositIsAside DEF Serve, TypeInvariant, Typed
<1>4. /\ <<r, 0>> \notin auditLog /\ job[r].clone.id = b
  BY <1>1, <1>2 DEF LedgerInvariant, Noted, At, Syncing
<1>5. job[r].clone.balances = Crediting(wallet[b], y, n).balances
  <2>1. Copied(r)
    BY <1>1, BusyIsSolo DEF LedgerInvariant, Keeps
  <2> QED  BY <1>1, <1>2, <1>4, <2>1 DEF Copied, At, Syncing
<1>6. job'[r].pc = "cacheAccount" /\ job'[r].input = in
  BY <1>1, <1>2, <1>3, Lands DEF Aside, Continues
<1>7. Noted(r)'
  BY <1>1, <1>4, <1>6 DEF Noted, At
<1>8. ASSUME NEW a \in Accounts, NEW asset \in Assets
      PROVE  Total(wallet'[a], asset) =
               Total(wallet[a], asset) + (Credit(r, a, asset)' - Credit(r, a, asset))
  <2>1. Credit(r, a, asset) = 0
    BY <1>1 DEF Credit, At
  <2>2. Credit(r, a, asset)' = IF b = a /\ y = asset THEN n ELSE 0
    BY <1>2, <1>6 DEF Credit
  <2>3. Total(wallet[a], asset) \in Int
    BY ExplainedInteger
  <2>4. CASE a # b
    <3>1. wallet'[a] = wallet[a]
      BY <1>1, <1>3, <1>4, <2>4
    <3> QED  BY <2>1, <2>2, <2>3, <2>4, <3>1
  <2>5. CASE a = b
    <3>1. wallet'[a].balances = Crediting(wallet[a], y, n).balances
      BY <1>1, <1>3, <1>4, <1>5, <2>5
    <3>2. wallet[a] \in Solvent
      BY <1>3
    <3>3. /\ Crediting(wallet[a], y, n).balances[asset].locked = wallet[a].balances[asset].locked
          /\ Crediting(wallet[a], y, n).balances[asset].available =
               wallet[a].balances[asset].available + (IF y = asset THEN n ELSE 0)
      BY <3>2, BalanceIsNatural DEF Crediting, Solvent
    <3>4. wallet[a].balances[asset].available \in Nat /\ wallet[a].balances[asset].locked \in Nat
      BY <3>2, BalanceIsNatural
    <3> QED  BY <2>1, <2>2, <2>5, <3>1, <3>3, <3>4 DEF Total
  <2> QED  BY <2>4, <2>5
<1> QED  BY <1>1, <1>2, <1>3, <1>7, <1>8, DepositStep

LEMMA CacheDeposit ==
  ASSUME Serial, LedgerInvariant, FundsInvariant', NEW r \in Requests,
         job[r].input.kind = "deposit", CacheAccount(r)
  PROVE  LedgerInvariant'
<1>1. /\ At(r, "cacheAccount") /\ Busy(r) /\ TypeInvariant /\ Goto(r, "audit")
      /\ wallet' = wallet /\ orders' = orders /\ auditLog' = auditLog
  BY DEF CacheAccount, At, Busy, LedgerInvariant, FundsInvariant, memory
<1>2. Aside(r) /\ <<r, 0>> \notin auditLog
  BY <1>1, DepositIsAside DEF Serve, LedgerInvariant, Noted, At, Syncing
<1>3. job'[r].pc = "audit" /\ job'[r].input = job[r].input
  BY <1>1, <1>2, Lands DEF Aside, Continues
<1>4. Noted(r)'
  BY <1>1, <1>2, <1>3 DEF Noted, At
<1>5. ASSUME NEW a \in Accounts, NEW asset \in Assets
      PROVE  Total(wallet'[a], asset) =
               Total(wallet[a], asset) + (Credit(r, a, asset)' - Credit(r, a, asset))
  <2>1. Credit(r, a, asset)' = Credit(r, a, asset)
    BY <1>1, <1>3 DEF Credit, At
  <2>2. Credit(r, a, asset) \in Int
    BY <1>1, DepositInput DEF Credit
  <2>3. Total(wallet[a], asset) \in Int
    BY ExplainedInteger
  <2> QED  BY <1>1, <2>1, <2>2, <2>3
<1> QED  BY <1>1, <1>2, <1>4, <1>5, DepositStep

(* The audit log learns of a deposit. *)
LEMMA DepositedGrows ==
  ASSUME Serial, LedgerInvariant, NEW r \in Requests, NEW in, in.kind = "deposit",
     in.amount \in Int,
         job[r].input = in, job'[r].input = in, ~Credited(r), <<r, 0>> \in auditLog',
         \A q \in Requests \ {r} : job'[q] = job[q],
         \A q \in Requests \ {r} : <<q, 0>> \in auditLog' <=> <<q, 0>> \in auditLog,
         NEW a, NEW x
  PROVE  Deposited(a, x)' =
           (IF in.account = a /\ in.asset = x THEN in.amount ELSE 0) + Deposited(a, x)
<1> DEFINE mine == in.account = a /\ in.asset = x
           S == {q \in Requests : Credited(q) /\ job[q].input.account = a /\ job[q].input.asset = x}
           T == {q \in Requests : Credited(q)' /\ job'[q].input.account = a /\ job'[q].input.asset = x}
           F == [q \in S |-> job[q].input.amount]
           G == [q \in T |-> job'[q].input.amount]
<1>1. Credited(r)' /\ \A q \in Requests \ {r} : Credited(q)' <=> Credited(q)
  BY DEF Credited
<1>2. T = (IF mine THEN S \cup {r} ELSE S) /\ r \notin S
  BY <1>1
<1>3. IsFiniteSet(S) /\ IsFiniteSet(T)
  <2>1. IsFiniteSet(S)
    BY FS_Subset DEF Serial
  <2>2. IsFiniteSet(T)
    BY FS_Subset DEF Serial
  <2> QED  BY <2>1, <2>2
<1>4. \A q \in S : F[q] \in Int /\ q # r /\ job'[q].input.amount = F[q]
  BY <1>2, CreditedInput
<1>5. Deposited(a, x) = SumFunctionOnSet(F, S)
  BY DEF Deposited, Credited
<1>6. Deposited(a, x)' = SumFunctionOnSet(G, T)
  BY DEF Deposited, Credited
<1>7. /\ \A q \in S : q \in T /\ G[q] = F[q]
      /\ mine => r \in T /\ G[r] = in.amount
  BY <1>2, <1>4
<1> HIDE DEF S, T, F, G, mine
<1>8. SumFunctionOnSet(G, S) = SumFunctionOnSet(F, S) /\ SumFunctionOnSet(F, S) \in Int
  BY <1>3, <1>4, <1>7, SumEqual, SumAdds
<1>9. CASE ~mine
  BY <1>2, <1>5, <1>6, <1>8, <1>9 DEF mine
<1>10. CASE mine
  <2>1. r \in T /\ T \ {r} = S /\ G[r] = in.amount
    BY <1>2, <1>7, <1>10
  <2>2. \A q \in T : G[q] \in Int
    BY <1>2, <1>4, <1>7, <1>10
  <2>3. SumFunctionOnSet(G, T) = G[r] + SumFunctionOnSet(G, T \ {r})
    BY <1>3, <2>1, <2>2, SumAdds
  <2> QED  BY <1>5, <1>6, <1>8, <1>10, <2>1, <2>3 DEF mine
<1> QED  BY <1>9, <1>10

LEMMA RecordDeposit ==
  ASSUME Serial, LedgerInvariant, FundsInvariant', NEW r \in Requests,
         job[r].input.kind = "deposit", RecordAudit(r)
  PROVE  LedgerInvariant'
<1>1. /\ At(r, "audit") /\ Busy(r) /\ TypeInvariant /\ Goto(r, "saveAudit")
      /\ wallet' = wallet /\ orders' = orders /\ auditLog' = auditLog \cup {Event(r)}
  BY DEF RecordAudit, At, Busy, LedgerInvariant, FundsInvariant
<1>2. PICK in \in Inputs :
        /\ in = job[r].input /\ in.kind = "deposit" /\ in.amount \in Int
  BY <1>1, DepositInput
<1>3. PICK j \in Job, k \in Job : j = job[r] /\ k = job'[r]
  BY DEF LedgerInvariant, FundsInvariant, TypeInvariant, Typed
<1>4. /\ tape' = tape /\ k.input = in /\ j.input = in /\ k.fills \in {j.fills, << >>}
      /\ \A q \in Requests \ {r} : job'[q] = job[q]
      /\ \A q \in Requests \ {r} : <<q, 0>> \in auditLog' <=> <<q, 0>> \in auditLog
  BY <1>1, <1>2, <1>3, DepositIsAside DEF Serve, Aside, Continues
<1>5. j.fills = << >> /\ Event(r) = <<r, 0>> /\ j.pc = "audit" /\ k.pc = "saveAudit"
  BY <1>1, <1>3, DepositInput, Lands DEF Fresh, Event, At
<1>6. <<r, 0>> \notin auditLog /\ <<r, 0>> \in auditLog'
  <2>1. <<r, 0>> \notin auditLog
    BY <1>1, <1>2 DEF LedgerInvariant, Noted, At
  <2> QED  BY <1>1, <1>5, <2>1
<1>7. Identified /\ TypeInvariant /\ Taped /\ Solo(r) /\ Balanced(r)
  BY <1>1, BusyIsSolo DEF Identified, LedgerInvariant
<1>8. Taped'
  BY <1>4, <1>7, TapedStays
<1>9. ASSUME NEW a \in Accounts, NEW x \in Assets
      PROVE  /\ Explained(a, x)' \in Int
             /\ Total(wallet[a], x)' = Explained(a, x)' + Credit(r, a, x)' - Outstanding(k, a, x)'
  <2> DEFINE n == IF in.account = a /\ in.asset = x THEN in.amount ELSE 0
  <2>1. Deposited(a, x)' = n + Deposited(a, x)
    <3>1. ~Credited(r)
      BY <1>6 DEF Credited
    <3>2. job[r].input = in /\ job'[r].input = in
      BY <1>3, <1>4
    <3> QED  BY <1>2, <1>4, <1>6, <3>1, <3>2, DepositedGrows
  <2>2. Traded(a, x)' = Traded(a, x)
    BY <1>4, <1>7, TradedStays
  <2>3. Credit(r, a, x) = n /\ Credit(r, a, x)' = 0 /\ n \in Int
    BY <1>2, <1>3, <1>4, <1>5 DEF Credit
  <2>4. Outstanding(k, a, x)' = 0 /\ Outstanding(j, a, x) = 0
    BY <1>4, <1>5, NothingOutstanding
  <2>5. /\ Deposited(a, x) \in Int /\ Traded(a, x) \in Int /\ Total(InitialAccounts[a], x) \in Int
        /\ Explained(a, x) = Total(InitialAccounts[a], x) + Deposited(a, x) + Traded(a, x)
        /\ Explained(a, x)' = Total(InitialAccounts[a], x) + Deposited(a, x)' + Traded(a, x)'
    BY ExplainedInteger DEF Explained, Total
  <2>6. Total(wallet[a], x)' = Total(wallet[a], x)
    BY <1>1 DEF Total
  <2>7. Total(wallet[a], x) = Explained(a, x) + Credit(r, a, x) - Outstanding(j, a, x)
    BY <1>3, <1>7 DEF Balanced
  <2> HIDE DEF n
  <2> QED  BY <2>1, <2>2, <2>3, <2>4, <2>5, <2>6, <2>7
<1>10. Balanced(r)'
  BY <1>3, <1>9 DEF Balanced
<1>11. Noted(r)'
  BY <1>3, <1>5 DEF Noted, At, Syncing
<1> QED  BY <1>4, <1>7, <1>8, <1>9, <1>10, <1>11, LedgerTurn

(* What is left to do with a recorded deposit, and a call that fails.      *)
LEMMA ReportDeposit ==
  ASSUME Serial, LedgerInvariant, FundsInvariant', NEW r \in Requests,
         job[r].input.kind = "deposit", PersistAudit(r) \/ PublishAudit(r) \/ CallFails(r)
  PROVE  LedgerInvariant'
<1>1. /\ Busy(r) /\ TypeInvariant /\ job[r].pc \notin {"cacheAccount", "audit"}
      /\ wallet' = wallet /\ orders' = orders /\ auditLog' = auditLog
  BY DEF PersistAudit, PublishAudit, CallFails, At, Busy, LedgerInvariant,
     FundsInvariant, memory
<1>2. Aside(r) /\ Fresh(r)
  BY <1>1, DepositIsAside, DepositInput DEF Serve
<1>3. job'[r].pc \in {"publishAudit", "ok", "failed"}
  <2>1. CASE PersistAudit(r)
    BY <1>1, <2>1, Lands DEF PersistAudit, Answered, Fail
  <2>2. CASE PublishAudit(r)
    <3>1. job[r].at = 0 /\ Len(job[r].fills) = 0
      BY <1>2, EmptySeq DEF Fresh
    <3>2. Return(r, "ok") \/ Return(r, "failed")
      BY <2>2, <3>1 DEF PublishAudit, AfterEvent, Fail
    <3> QED  BY <1>1, <3>2, Lands
  <2>3. CASE CallFails(r)
    BY <1>1, <2>3, Lands DEF CallFails, Fail
  <2> QED  BY <2>1, <2>2, <2>3
<1>4. Noted(r)'
  BY <1>3 DEF Noted, At, Syncing
<1>5. ASSUME NEW a \in Accounts, NEW asset \in Assets
      PROVE  Total(wallet'[a], asset) =
               Total(wallet[a], asset) + (Credit(r, a, asset)' - Credit(r, a, asset))
  <2>1. Credit(r, a, asset)' = 0 /\ Credit(r, a, asset) = 0
    BY <1>1, <1>3 DEF Credit
  <2>2. Total(wallet[a], asset) \in Int
    BY ExplainedInteger
  <2> QED  BY <1>1, <2>1, <2>2
<1> QED  BY <1>1, <1>2, <1>4, <1>5, DepositStep

-----------------------------------------------------------------------------
(* The first step of a request *)

LEMMA AcceptBalances ==
  ASSUME Serial, LedgerInvariant, FundsInvariant', NEW r \in Requests, Accept(r)
  PROVE  LedgerInvariant'
<1>1. Quiet /\ At(r, "idle") /\ FundsInvariant
  BY AcceptedAlone DEF Accept, LedgerInvariant
<1>2. /\ job \in [Requests -> Job] /\ job[r] = Idle /\ orders[r] = None /\ <<r, 0>> \notin auditLog
      /\ Labelled /\ wallet \in [Accounts -> Solvent] /\ orders \in [Orders -> Order \cup {None}]
      /\ job[r] \in Job /\ job'[r] \in Job
  BY <1>1 DEF FundsInvariant, TypeInvariant, Typed, Local, Phased, LedgerInvariant, Noted
<1>3. PICK in \in Inputs : Deposit(r, in) \/ PlaceOrder(r, in)
  BY DEF Accept
<1>4. wallet' = wallet /\ tape' = tape /\ auditLog' = auditLog
  BY <1>3 DEF Deposit, PlaceOrder, memory, book
<1>5. Identified
  <2>1. orders' = orders \/ orders' = [orders EXCEPT ![r] = NewOrder(in)]
    BY <1>3 DEF Deposit, PlaceOrder, memory
  <2> QED  BY <1>2, <2>1 DEF Identified
<1>6. PICK k \in Job : k = job'[r]
  BY <1>2
<1>7. /\ \A q \in Requests \ {r} : job'[q] = job[q]
      /\ k.fills = << >> /\ k.pc \notin {"idle", "cacheAccount", "audit"}
      /\ k.pc = "persist" => k.clone.id = k.input.account
      /\ k.pc # "replace"
  <2>1. CASE job' = [job EXCEPT ![r].pc = "failed", ![r].input = in]
    BY <1>2, <1>6, <2>1 DEF Idle
  <2>2. CASE job' = [job EXCEPT ![r].pc = "reserve", ![r].input = in]
    BY <1>2, <1>6, <2>2 DEF Idle
  <2>3. CASE /\ in.kind = "deposit"
             /\ job' = [job EXCEPT ![r].pc = "persist", ![r].input = in,
                         ![r].clone = Crediting(wallet[in.account], in.asset, in.amount)]
    <3> DEFINE c == Crediting(wallet[in.account], in.asset, in.amount)
    <3>1. in.account \in Accounts
      BY <2>3, ExchangeAssumption DEF WellFormed
    <3>2. c.id = in.account
      <4>1. wallet[in.account] \in Solvent /\ wallet[in.account].id = in.account
        BY <1>2, <3>1 DEF Labelled
      <4> QED  BY <4>1, CreditingKeepsVersion
    <3>3. job' = [job EXCEPT ![r].pc = "persist", ![r].input = in, ![r].clone = c]
      BY <2>3
    <3> HIDE DEF c
    <3>4. /\ k.fills = << >> /\ k.pc = "persist" /\ k.clone = c /\ k.input = in
          /\ \A q \in Requests \ {r} : job'[q] = job[q]
      BY <1>2, <1>6, <3>3 DEF Idle
    <3> QED  BY <3>2, <3>4
  <2> QED  BY <1>3, <2>1, <2>2, <2>3 DEF Deposit, PlaceOrder
<1>8. Noted(r)'
  BY <1>2, <1>4, <1>6, <1>7 DEF Noted, At, Syncing
<1>9. ~Credited(r) /\ ~Credited(r)'
  BY <1>2, <1>4 DEF Credited
<1>10. ASSUME NEW a \in Accounts, NEW asset \in Assets
       PROVE  /\ Credit(r, a, asset) = 0 /\ Credit(r, a, asset)' = 0
              /\ Outstanding(k, a, asset) = 0 /\ Outstanding(job[r], a, asset) = 0
              /\ Total(wallet[a], asset) \in Int
  <2>1. Credit(r, a, asset) = 0
    BY <1>1 DEF Credit, At
  <2>2. Credit(r, a, asset)' = 0
    BY <1>6, <1>7 DEF Credit
  <2>3. Outstanding(k, a, asset) = 0
    BY <1>7, NothingOutstanding
  <2>4. Outstanding(job[r], a, asset) = 0
    BY <1>1, NothingOutstanding DEF At, Applying
  <2>5. Total(wallet[a], asset) \in Int
    BY ExplainedInteger
  <2> QED  BY <2>1, <2>2, <2>3, <2>4, <2>5
<1>11. \A a \in Accounts, asset \in Assets :
         Total(wallet'[a], asset) =
           Total(wallet[a], asset) + (Credit(r, a, asset)' - Credit(r, a, asset))
             + (Outstanding(job[r], a, asset) - Outstanding(k, a, asset))
  BY <1>4, <1>10
<1>12. \A a \in Accounts, asset \in Assets : Credit(r, a, asset) \in Int /\ Credit(r, a, asset)' \in Int
  BY <1>10
<1>13. \A q \in Requests \ {r} : <<q, 0>> \in auditLog' <=> <<q, 0>> \in auditLog
  BY <1>4
<1>14. k.fills \in {job[r].fills, << >>}
  BY <1>7
<1> QED
  BY <1>1, <1>4, <1>5, <1>6, <1>7, <1>8, <1>9, <1>11, <1>12, <1>13, <1>14, GainStep

-----------------------------------------------------------------------------
(* Every step *)

LEMMA LedgerStutter ==
  ASSUME Serial, LedgerInvariant, FundsInvariant', UNCHANGED vars PROVE LedgerInvariant'
<1>1. UNCHANGED <<wallet, orders, auditLog, tape, job>> /\ TypeInvariant /\ Taped /\ Identified
  BY DEF vars, memory, book, LedgerInvariant, FundsInvariant, Identified
<1>2. ASSUME NEW a \in Accounts, NEW asset \in Assets
      PROVE  /\ Explained(a, asset)' = Explained(a, asset)
             /\ Total(wallet[a], asset)' = Total(wallet[a], asset)
  <2>1. Explained(a, asset)' = Explained(a, asset)
    <3>1. \A q \in Requests : Credited(q)' <=> Credited(q)
      BY <1>1 DEF Credited
    <3>2. \A q \in Requests : Credited(q) => job'[q].input = job[q].input
      BY <1>1
    <3> QED  BY <1>1, <3>1, <3>2, ExplainedStays
  <2> QED  BY <1>1, <2>1 DEF Total
<1>3. Taped'
  BY <1>1, TapedStays
<1>4. ASSUME NEW r \in Requests PROVE Noted(r)'
  <2>1. Noted(r)
    BY DEF LedgerInvariant
  <2> QED  BY <1>1, <2>1 DEF Noted, At
<1>5. ASSUME NEW r \in Requests, Busy(r)' PROVE Balanced(r)'
  <2>1. Balanced(r)
    BY <1>1, <1>5 DEF LedgerInvariant, Busy
  <2>2. PICK j \in Job : j = job[r] /\ j = job'[r] /\ Known(j.fills)
    BY <1>1, FillsKnown
  <2>3. ASSUME NEW a \in Accounts, NEW asset \in Assets
        PROVE  Total(wallet[a], asset)' =
                 Explained(a, asset)' + Credit(r, a, asset)' - Outstanding(j, a, asset)'
    <3>1. Outstanding(j, a, asset)' = Outstanding(j, a, asset)
      BY <1>1, <2>2, OutstandingStays
    <3>2. Credit(r, a, asset)' = Credit(r, a, asset)
      BY <1>1 DEF Credit
    <3>3. Total(wallet[a], asset) =
            Explained(a, asset) + Credit(r, a, asset) - Outstanding(j, a, asset)
      BY <2>1, <2>2 DEF Balanced
    <3> QED  BY <1>2, <3>1, <3>2, <3>3
  <2> QED  BY <2>2, <2>3 DEF Balanced
<1>6. ASSUME Quiet' PROVE AllBalanced'
  <2>1. AllBalanced
    BY <1>1, <1>6 DEF LedgerInvariant, Quiet, Busy
  <2> QED  BY <1>2, <2>1 DEF AllBalanced
<1> QED  BY <1>3, <1>4, <1>5, <1>6 DEF LedgerInvariant

LEMMA ServeBalances ==
  ASSUME Serial, Funded, Turns, LedgerInvariant, FundsInvariant', NEW r \in Requests, Serve(r)
  PROVE  LedgerInvariant'
<1>1. CASE job[r].input.kind # "deposit"
  <2>1. \/ Reserve(r)
        \/ GetReserved(r) \/ PersistAccount(r) \/ CacheAccount(r) \/ NextAccount(r)
           \/ ReplaceAccount(r)
        \/ Submit(r) \/ Match(r) \/ Settle(r)
        \/ Spots(r) \/ Frees(r) \/ Collect(r)
        \/ Reports(r)
    BY DEF Serve, Spots, Frees, Reports
  <2> QED
    BY <1>1, <2>1, ReserveBalances, SyncingBalances, SubmitBalances, MatchBalances,
       SettleBalances, SettlingSteps, ReportsBalance
<1>2. CASE job[r].input.kind = "deposit"
  <2>1. job[r].pc \in Syncing \cup Auditing
    <3>1. Busy(r)
      BY ZenonT(40) DEF Serve, Busy, At, Reserve, GetReserved, PersistAccount,
         ReplaceAccount, CacheAccount,
         Submit, Match, Finish, LoadStatus, StoreStatus, Collect, Settle, LoadReserved,
         StoreReserved, CheckReserved, ClampReserved, ReleaseMaker, ReleaseTaker, ClipReserved,
         SubtractReserved, AddReserved, ClearReserved, NextAccount, NextOrder, PersistOrder,
         MarshalOrder, PublishOrder, PersistTrades, Record, RecordAudit, PersistAudit,
         PublishAudit, PublishTrade, TakeSnapshot, CacheOrderBook, CopyTrades, CacheTrades, CallFails
    <3> QED  BY SMTT(40), <1>2, <3>1, DepositInput
  <2>2. \/ PersistAccount(r) \/ ReplaceAccount(r) \/ CacheAccount(r)
        \/ RecordAudit(r) \/ PersistAudit(r) \/ PublishAudit(r) \/ CallFails(r)
    BY ZenonT(40), <2>1 DEF Serve, Syncing, Auditing, At, Reserve, GetReserved, Submit,
       Match, Finish,
       LoadStatus, StoreStatus, Collect, Settle, LoadReserved, StoreReserved, CheckReserved,
       ClampReserved, ReleaseMaker, ReleaseTaker, ClipReserved, SubtractReserved, AddReserved,
       ClearReserved, NextAccount, NextOrder, PersistOrder, MarshalOrder, PublishOrder,
       PersistTrades, Record, PublishTrade, TakeSnapshot, CacheOrderBook, CopyTrades, CacheTrades
  <2> QED
    BY <1>2, <2>2, PersistDeposit, ReplaceDeposit, CacheDeposit, RecordDeposit, ReportDeposit
<1> QED  BY <1>1, <1>2

LEMMA LedgerStep ==
  ASSUME Serial, Funded, Turns, LedgerInvariant, [Next]_vars PROVE LedgerInvariant'
<1>1. FundsInvariant'
  BY FundsStep DEF LedgerInvariant
<1>2. ASSUME UNCHANGED vars PROVE LedgerInvariant'
  BY <1>1, <1>2, LedgerStutter
<1>3. ASSUME NEW r \in Requests, Accept(r) PROVE LedgerInvariant'
  BY <1>1, <1>3, AcceptBalances
<1>4. ASSUME NEW r \in Requests, Serve(r) PROVE LedgerInvariant'
  BY <1>1, <1>4, ServeBalances
<1> QED  BY <1>2, <1>3, <1>4 DEF Next, AllAnswered

LEMMA LedgerInit ==
  ASSUME Serial, Funded, Init PROVE LedgerInvariant
<1>1. FundsInvariant
  BY FundsInit
<1>2. /\ wallet = InitialAccounts /\ auditLog = {} /\ tape = [s \in Symbols |-> << >>]
      /\ \A r \in Requests : job[r] = Idle
  BY DEF Init, NewExchange
<1>3. Legs = {} /\ \A s \in Symbols : Known(tape[s])
  <2>1. \A s \in Symbols : DOMAIN tape[s] = {}
    BY <1>2, EmptySeq
  <2> QED  BY <2>1 DEF Legs, Known
<1>4. Taped
  BY <1>3, FS_EmptySet DEF Taped
<1>5. ASSUME NEW r \in Requests PROVE Noted(r) /\ ~Busy(r)
  BY <1>2 DEF Noted, Busy, At, Idle, Syncing
<1>6. ASSUME NEW a \in Accounts, NEW asset \in Assets
      PROVE  Total(wallet[a], asset) = Explained(a, asset)
  <2>1. Deposited(a, asset) = 0
    BY <1>2, SumEmpty DEF Deposited
  <2>2. Traded(a, asset) = 0
    BY <1>3, SumEmpty DEF Traded
  <2>3. Total(wallet[a], asset) \in Int /\ wallet[a] = InitialAccounts[a]
    BY <1>1, <1>2, TotalInteger DEF FundsInvariant
  <2> QED  BY <2>1, <2>2, <2>3 DEF Explained
<1> QED  BY <1>1, <1>4, <1>5, <1>6 DEF LedgerInvariant, AllBalanced

(* Every unit is accounted for.  When requests are served one at a time    *)
(* from a start at which every restored order finds its funds, what an     *)
(* account has between requests, available and locked, is what it started  *)
(* with, the deposits of the audit log and the fills of the tapes, both    *)
(* halves of each settled once at the fill's price, whichever call failed  *)
(* (Deposit, Settle and recordAudit together).                             *)
THEOREM UnitsAreAccounted == Serial /\ Funded => (Spec => []BalancesExplained)
<1> SUFFICES ASSUME Serial, Funded PROVE Spec => []BalancesExplained
  OBVIOUS
<1>1. Init => LedgerInvariant
  BY LedgerInit
<1>2. Turns /\ LedgerInvariant /\ [Next]_vars => LedgerInvariant'
  BY LedgerStep
<1>3. LedgerInvariant => BalancesExplained
  BY DEF LedgerInvariant, BalancesExplained, AllBalanced, Explained
<1>4. Spec => []Turns
  BY TakesTurns
<1> QED  BY <1>1, <1>2, <1>3, <1>4, PTL DEF Spec

-----------------------------------------------------------------------------
(* Everybody agrees between requests.  When requests are served one after  *)
(* the other and no call fails, the store, the cache and the topics hold   *)
(* what memory holds: what they lack meanwhile is what the request in turn *)
(* has yet to tell them.                                                   *)

(* No call to the store and no publication fails, and no reply is lost. *)
Dependable == "store" \in Wired /\ {"store", "ack", "bus"} \cap Faults = {}

(* There is a cache, which does not fail, and a bus. *)
Mirrored == {"cache", "bus"} \subseteq Wired /\ "cache" \notin Faults

(* The restored orders have been numbered by the engine and have the right *)
(* status.                                                                 *)
Numbered == \A o \in DOMAIN OpenOrders :
              OpenOrders[o].sequence > 0 /\ OpenOrders[o].status = Status(OpenOrders[o])

Sent(o) == orders[o] # None /\ orders[o].sequence > 0

When(condition, S) == IF condition THEN S ELSE {}

-----------------------------------------------------------------------------
(* Accounts: those about to be copied, those waiting in changedAccounts    *)
(* and the one being persisted.                                            *)
AccountsDue(r) ==
  Dirty(r)
    \cup When(At(r, "clone"), {orders[r].account})
    \cup When(job[r].pc \in {"persist", "replace"}, {job[r].clone.id})
    \cup When(Sent(r) /\ job[r].pc \in Applying \cup Syncing \cup {"accounts"},
              {a \in Accounts : job[r].accounts[a] # None})

AccountsUncached(r) == AccountsDue(r) \cup When(At(r, "cacheAccount"), {job[r].clone.id})

AccountsKnown(due, uncached) ==
  /\ \A a \in Accounts \ due : db.accounts[a] = wallet[a]
  /\ Mirrored => \A a \in Accounts \ uncached :
       cache.accounts[a] = IF wallet[a].version = 0 THEN None ELSE wallet[a]

AccountsAgree(r) ==
  /\ AccountsKnown(AccountsDue(r), AccountsUncached(r))
  /\ At(r, "replace") =>
       job[r].clone = db.accounts[job[r].clone.id] /\ job[r].clone.version > 0
  /\ At(r, "cacheAccount") =>
       job[r].clone = wallet[job[r].clone.id] /\ job[r].clone.version > 0

(* Orders: the taker and its makers, then those left in changedOrders and  *)
(* the one being persisted or published.                                   *)
Makers(r) == {job[r].fills[i].maker : i \in DOMAIN job[r].fills}

OrdersDue(r, rows) ==
  When(job[r].pc \in Applying, {r} \cup Makers(r))
    \cup When(Sent(r) /\ job[r].pc \in Syncing \cup WithRow \cup {"accounts", "orders"},
              job[r].pending)
    \cup When(job[r].pc \in rows, {job[r].row.id})

OrdersKnown(due, unsent) ==
  /\ \A o \in Orders \ due : db.orders[o] = IF Sent(o) THEN orders[o] ELSE None
  /\ Mirrored => \A o \in Orders \ unsent : Sent(o) =>
       IF bus.orders[o] = None THEN o \notin Requests /\ orders[o] = OpenOrders[o]
                               ELSE bus.orders[o] = orders[o]

(* changedOrders has the orders of the fills so far. *)
Gathered(r) ==
  job[r].pc \in Applying =>
    /\ job[r].at > 0 => r \in job[r].pending
    /\ \A i \in DOMAIN job[r].fills :
         i < job[r].at \/ (i = job[r].at /\ At(r, "collect") /\ job[r].role = "taker")
           => job[r].fills[i].maker \in job[r].pending

OrdersAgree(r) ==
  /\ OrdersKnown(OrdersDue(r, {"saveOrder"}), OrdersDue(r, WithRow))
  /\ Gathered(r)
  /\ \A o \in job[r].pending : Sent(o)
  /\ job[r].pc \in WithRow => Sent(job[r].row.id)
  /\ job[r].pc \in {"saveOrder", "publishOrder"} => job[r].row.order = orders[job[r].row.id]

(* Statuses: the taker's until the first update, a maker's until the one   *)
(* of its last fill.                                                       *)
StatusesDue(r) ==
  When(job[r].pc \in {"match", "loadStatus", "storeStatus"} /\ job[r].at = 0, {r})
    \cup {job[r].fills[i].maker : i \in Later(job[r],
            \/ job[r].pc \in {"settle", "loadReserved", "storeReserved",
                              "checkReserved", "clampReserved"}
            \/ job[r].pc \in {"loadStatus", "storeStatus"} /\ job[r].role = "maker")}

StatusesSet(due) == \A o \in Orders \ due : Sent(o) => orders[o].status = Status(orders[o])

StatusesAgree(r) ==
  /\ StatusesSet(StatusesDue(r))
  /\ At(r, "storeStatus") => job[r].status = Status(orders[Subject(r)])

(* Books: the cache lacks the symbol's until syncBookCache. *)
BooksDue(r) == When(Sent(r) /\ Busy(r) /\ job[r].pc \notin {"copyTrades", "cacheTrades"},
                    {orders[r].symbol})

BooksKnown(due) == \A s \in Symbols \ due : cache.books[s] = Snapshot(orders, queue[s])

BooksAgree(r) ==
  Mirrored => /\ BooksKnown(BooksDue(r))
              /\ At(r, "cacheBook") => job[r].view = Snapshot(orders, queue[orders[r].symbol])

(* Trades: the market data lacks the symbol's fills until they are         *)
(* recorded, the cache until the end, and the bus those not yet published. *)
Recorded == Auditing \cup {"publishTrade", "snapshot", "cacheBook", "copyTrades", "cacheTrades"}

TapesDue(r) == When(Sent(r) /\ Busy(r) /\ job[r].pc \notin Recorded, {orders[r].symbol})

TradesUncached(r) == When(Sent(r) /\ job[r].pc \in Recorded, {orders[r].symbol})

TradesUnrecorded(r) == When(At(r, "record"), Range(job[r].fills))

From(fills, first) == {fills[i] : i \in {k \in DOMAIN fills : k >= first}}

TradesUnpublished(r) ==
  TradesUnrecorded(r)
    \cup When(job[r].pc \in Auditing \cup {"publishTrade"}, From(job[r].fills, job[r].at))

TapesKnown(due, fills) ==
  \A s \in Symbols : tape[s] = IF s \in due THEN market[s] \o fills ELSE market[s]

TradesKnown(unrecorded, unpublished, uncached) ==
  /\ db.trades = (UNION {Range(market[s]) : s \in Symbols}) \cup unrecorded
  /\ Mirrored => /\ db.trades = bus.trades \cup unpublished
                 /\ \A s \in Symbols \ uncached : cache.trades[s] = market[s]

TradesAgree(r) ==
  /\ TapesKnown(TapesDue(r), job[r].fills)
  /\ TradesKnown(TradesUnrecorded(r), TradesUnpublished(r), TradesUncached(r))
  /\ At(r, "cacheTrades") => job[r].view = market[orders[r].symbol]

(* Events: the one being stored, the one being published. *)
EventDue(r, label) == When(At(r, label), {Event(r)})

EventsKnown(unstored, unpublished) ==
  /\ auditLog = db.audit \cup unstored
  /\ Mirrored => db.audit = bus.audit \cup unpublished

EventsAgree(r) == EventsKnown(EventDue(r, "saveAudit"), EventDue(r, "publishAudit"))

Agreeing(r) ==
  /\ AccountsAgree(r) /\ OrdersAgree(r) /\ StatusesAgree(r)
  /\ BooksAgree(r) /\ TradesAgree(r) /\ EventsAgree(r)

(* Nothing is due. *)
Agreed ==
  /\ AccountsKnown({}, {}) /\ OrdersKnown({}, {}) /\ StatusesSet({})
  /\ Mirrored => BooksKnown({})
  /\ TapesKnown({}, << >>) /\ TradesKnown({}, {}, {}) /\ EventsKnown({}, {})

AgreeInvariant ==
  /\ LocksInvariant
  /\ \A o \in Orders \ Requests : Sent(o)
  /\ \A r \in Requests : Busy(r) => Agreeing(r)
  /\ Quiet => Agreed

-----------------------------------------------------------------------------
(* A goroutine that has nothing due *)

LEMMA GotoFields ==
  ASSUME TypeInvariant, NEW r \in Requests, NEW label, Goto(r, label)
  PROVE  /\ job'[r] = [job[r] EXCEPT !.pc = label] /\ job'[r].pc = label
         /\ job'[r].input = job[r].input /\ job'[r].fills = job[r].fills /\ job'[r].at = job[r].at
         /\ job'[r].role = job[r].role /\ job'[r].clone = job[r].clone
         /\ job'[r].accounts = job[r].accounts /\ job'[r].pending = job[r].pending
         /\ job'[r].row = job[r].row /\ job'[r].view = job[r].view
         /\ \A q \in Requests \ {r} : job'[q] = job[q]
<1>1. job \in [Requests -> Job] /\ job[r] \in Job
  BY DEF TypeInvariant, Typed
<1>2. job'[r] = [job[r] EXCEPT !.pc = label] /\ \A q \in Requests \ {r} : job'[q] = job[q]
  BY <1>1 DEF Goto
<1> QED  BY <1>1, <1>2 DEF Job

LEMMA ReturnFields ==
  ASSUME TypeInvariant, NEW r \in Requests, NEW answer \in {"ok", "failed"}, Return(r, answer)
  PROVE  /\ job'[r].pc = answer /\ job'[r].pending = {} /\ job'[r].fills = << >>
         /\ \A q \in Requests \ {r} : job'[q] = job[q]
<1>1. job \in [Requests -> Job]
  BY DEF TypeInvariant, Typed
<1> QED  BY <1>1 DEF Return, Idle

LEMMA NothingDue ==
  ASSUME NEW r \in Requests, ~Busy(r)'
  PROVE  /\ AccountsDue(r)' = {} /\ AccountsUncached(r)' = {}
         /\ OrdersDue(r, {"saveOrder"})' = {} /\ OrdersDue(r, WithRow)' = {}
         /\ StatusesDue(r)' = {} /\ BooksDue(r)' = {}
         /\ TapesDue(r)' = {} /\ TradesUncached(r)' = {}
         /\ TradesUnrecorded(r)' = {} /\ TradesUnpublished(r)' = {}
         /\ EventDue(r, "saveAudit")' = {} /\ EventDue(r, "publishAudit")' = {}
<1>1. job'[r].pc \in {"idle", "ok", "failed"}
  BY DEF Busy
<1>2. AccountsDue(r)' = {} /\ AccountsUncached(r)' = {}
  BY <1>1 DEF AccountsDue, AccountsUncached, Dirty, When, At, Applying, Syncing
<1>3. OrdersDue(r, {"saveOrder"})' = {} /\ OrdersDue(r, WithRow)' = {}
  BY <1>1 DEF OrdersDue, When, Applying, Syncing, WithRow
<1>4. StatusesDue(r)' = {}
  BY <1>1 DEF StatusesDue, When, Later, Applying
<1>5. /\ BooksDue(r)' = {} /\ TapesDue(r)' = {} /\ TradesUncached(r)' = {}
      /\ TradesUnrecorded(r)' = {} /\ TradesUnpublished(r)' = {}
  BY <1>1 DEF BooksDue, TapesDue, TradesUncached, TradesUnrecorded, TradesUnpublished, Recorded,
     Auditing, When, At, Busy
<1>6. EventDue(r, "saveAudit")' = {} /\ EventDue(r, "publishAudit")' = {}
  BY <1>1 DEF EventDue, When, At
<1> QED  BY <1>2, <1>3, <1>4, <1>5, <1>6

LEMMA AgreeTurn ==
  ASSUME AgreeInvariant, LocksInvariant', NEW r \in Requests, Solo(r),
         \A q \in Requests \ {r} : job'[q] = job[q],
         \A o \in Orders : Sent(o) => Sent(o)',
         Agreeing(r)'
  PROVE  AgreeInvariant'
<1>1. \A q \in Requests \ {r} : ~Busy(q)'
  BY DEF Solo, Busy
<1>2. ASSUME ~Busy(r)' PROVE Agreed'
  <2>1. /\ AccountsDue(r)' = {} /\ AccountsUncached(r)' = {}
        /\ OrdersDue(r, {"saveOrder"})' = {} /\ OrdersDue(r, WithRow)' = {}
        /\ StatusesDue(r)' = {} /\ BooksDue(r)' = {}
        /\ TapesDue(r)' = {} /\ TradesUncached(r)' = {}
        /\ TradesUnrecorded(r)' = {} /\ TradesUnpublished(r)' = {}
        /\ EventDue(r, "saveAudit")' = {} /\ EventDue(r, "publishAudit")' = {}
    BY <1>2, NothingDue
  <2>2. AccountsKnown({}, {})'
    BY <2>1 DEF Agreeing, AccountsAgree, AccountsKnown
  <2>3. OrdersKnown({}, {})'
    BY <2>1 DEF Agreeing, OrdersAgree, OrdersKnown
  <2>4. StatusesSet({})'
    BY <2>1 DEF Agreeing, StatusesAgree, StatusesSet
  <2>5. Mirrored => BooksKnown({})'
    BY <2>1 DEF Agreeing, BooksAgree, BooksKnown
  <2>6. TapesKnown({}, << >>)' /\ TradesKnown({}, {}, {})'
    BY <2>1 DEF Agreeing, TradesAgree, TapesKnown, TradesKnown
  <2>7. EventsKnown({}, {})'
    BY <2>1 DEF Agreeing, EventsAgree, EventsKnown
  <2> QED  BY <2>2, <2>3, <2>4, <2>5, <2>6, <2>7 DEF Agreed, Mirrored
<1>3. Quiet' => Agreed'
  BY <1>2 DEF Quiet
<1>4. \A q \in Requests : Busy(q)' => Agreeing(q)'
  BY <1>1
<1>5. (\A o \in Orders \ Requests : Sent(o))'
  BY DEF AgreeInvariant
<1> QED  BY <1>3, <1>4, <1>5 DEF AgreeInvariant

-----------------------------------------------------------------------------
(* Steps that are about something else *)

LEMMA AccountsPass ==
  ASSUME NEW r \in Requests, AccountsAgree(r), wallet' = wallet,
         db'.accounts = db.accounts, cache'.accounts = cache.accounts,
         job[r].pc \notin Applying \cup Syncing \cup {"clone", "accounts"},
         job'[r].pc \notin Applying \cup Syncing \cup {"clone", "accounts"}
  PROVE  AccountsAgree(r)'
<1>1. AccountsDue(r) = {} /\ AccountsUncached(r) = {}
  BY DEF AccountsDue, AccountsUncached, Dirty, When, At, Applying, Syncing
<1>2. AccountsDue(r)' = {} /\ AccountsUncached(r)' = {}
  BY DEF AccountsDue, AccountsUncached, Dirty, When, At, Applying, Syncing
<1> QED  BY <1>1, <1>2 DEF AccountsAgree, AccountsKnown, At, Syncing, Mirrored

LEMMA OrdersPass ==
  ASSUME NEW r \in Requests, OrdersAgree(r), orders' = orders,
         db'.orders = db.orders, bus'.orders = bus.orders, job'[r].pending \subseteq job[r].pending,
         job[r].pc \notin Applying \cup Syncing \cup WithRow \cup {"accounts", "orders"},
         job'[r].pc \notin Applying \cup Syncing \cup WithRow \cup {"accounts", "orders"}
  PROVE  OrdersAgree(r)'
<1>1. OrdersDue(r, {"saveOrder"}) = {} /\ OrdersDue(r, WithRow) = {}
  BY DEF OrdersDue, When, WithRow
<1>2. OrdersDue(r, {"saveOrder"})' = {} /\ OrdersDue(r, WithRow)' = {}
  BY DEF OrdersDue, When, WithRow
<1>3. \A o : Sent(o)' <=> Sent(o)
  BY DEF Sent
<1>4. OrdersKnown(OrdersDue(r, {"saveOrder"}), OrdersDue(r, WithRow))'
  BY <1>1, <1>2, <1>3 DEF OrdersAgree, OrdersKnown, Mirrored
<1> QED  BY <1>3, <1>4 DEF OrdersAgree, Gathered, WithRow

LEMMA StatusesPass ==
  ASSUME NEW r \in Requests, StatusesAgree(r), orders' = orders,
         job[r].pc \notin Applying, job'[r].pc \notin Applying
  PROVE  StatusesAgree(r)'
<1>1. StatusesDue(r) = {} /\ StatusesDue(r)' = {}
  BY DEF StatusesDue, When, Later, Applying
<1> QED  BY <1>1 DEF StatusesAgree, StatusesSet, Sent, At, Applying

LEMMA BooksPass ==
  ASSUME NEW r \in Requests, BooksAgree(r), UNCHANGED <<orders, queue>>,
         cache'.books = cache.books, BooksDue(r) \subseteq BooksDue(r)', job'[r].pc # "cacheBook"
  PROVE  BooksAgree(r)'
<1>1. \A s : Snapshot(orders, queue[s])' = Snapshot(orders, queue[s])
  OBVIOUS
<1> QED  BY <1>1 DEF BooksAgree, BooksKnown, Mirrored, At

LEMMA TradesPass ==
  ASSUME NEW r \in Requests, TradesAgree(r), UNCHANGED <<market, tape>>,
         db'.trades = db.trades, bus'.trades = bus.trades, cache'.trades = cache.trades,
         TapesDue(r)' = TapesDue(r), TapesDue(r) # {} => job'[r].fills = job[r].fills,
         TradesUnrecorded(r)' = TradesUnrecorded(r), TradesUnpublished(r)' = TradesUnpublished(r),
         TradesUncached(r) \subseteq TradesUncached(r)', job'[r].pc # "cacheTrades"
  PROVE  TradesAgree(r)'
<1>1. TapesKnown(TapesDue(r), job[r].fills)'
  BY DEF TradesAgree, TapesKnown
<1>2. TradesKnown(TradesUnrecorded(r), TradesUnpublished(r), TradesUncached(r))'
  BY DEF TradesAgree, TradesKnown, Mirrored
<1> QED  BY <1>1, <1>2 DEF TradesAgree, At

LEMMA EventsPass ==
  ASSUME NEW r \in Requests, EventsAgree(r), auditLog' = auditLog,
         db'.audit = db.audit, bus'.audit = bus.audit,
         job[r].pc \notin {"saveAudit", "publishAudit"}, job'[r].pc \notin {"saveAudit", "publishAudit"}
  PROVE  EventsAgree(r)'
BY DEF EventsAgree, EventsKnown, EventDue, When, At, Mirrored

(* Outside recordTrades. *)
LEMMA TradesAside ==
  ASSUME NEW r \in Requests, TradesAgree(r), UNCHANGED <<market, tape>>,
         db'.trades = db.trades, bus'.trades = bus.trades, cache'.trades = cache.trades,
         Sent(r)' <=> Sent(r), Sent(r) => orders'[r].symbol = orders[r].symbol,
         job'[r].fills = job[r].fills, Busy(r), Busy(r)',
         job[r].pc \notin Recorded \cup {"record"}, job'[r].pc \notin Recorded \cup {"record"}
  PROVE  TradesAgree(r)'
<1>1. /\ TapesDue(r)' = TapesDue(r)
      /\ TradesUnrecorded(r)' = TradesUnrecorded(r) /\ TradesUnpublished(r)' = TradesUnpublished(r)
      /\ TradesUncached(r) = {}
  BY DEF TapesDue, TradesUnrecorded, TradesUnpublished, TradesUncached, When, At, Recorded
<1> QED  BY <1>1, TradesPass DEF Recorded

-----------------------------------------------------------------------------
(* Persisting and publishing the orders *)

(* From persistChangedOrders on. *)
LEMMA ReportsFrame ==
  ASSUME Dependable, TypeInvariant, NEW r \in Requests, Agreeing(r), Reports(r),
         job'[r].pc \notin {"clone", "accounts"}
  PROVE  /\ AccountsAgree(r)' /\ StatusesAgree(r)'
         /\ \A q \in Requests \ {r} : job'[q] = job[q]
         /\ job'[r].pc \notin Applying \cup Syncing
         /\ UNCHANGED <<wallet, orders, queue>>
<1>1. job[r].pc \notin Applying /\ job'[r].pc \notin Applying /\ UNCHANGED <<wallet, orders, queue>>
  BY ReportsPass DEF Leaves
<1>2. /\ \A q \in Requests \ {r} : job'[q] = job[q]
      /\ job'[r].pc \notin Syncing
      /\ db'.accounts = db.accounts /\ cache'.accounts = cache.accounts
  BY PlainSteps DEF Reports, Elsewhere, Plain, Departs
<1>3. job[r].pc \in Submitted \cup Auditing
  BY ReportsLate DEF Dependable
<1>4. job[r].pc # "accounts"
  BY ZenonT(40) DEF Reports, NextOrder, PersistOrder, MarshalOrder, PublishOrder, PersistTrades,
     Record, RecordAudit, PersistAudit, PublishAudit, PublishTrade, TakeSnapshot, CacheOrderBook,
     CopyTrades, CacheTrades, CallFails, At
<1>5. job[r].pc \notin Syncing \cup {"clone"}
  BY <1>3 DEF Submitted, Auditing, InFill, WithRow, Syncing
<1>6. AccountsAgree(r)'
  BY <1>1, <1>2, <1>4, <1>5, AccountsPass DEF Agreeing
<1>7. StatusesAgree(r)'
  BY <1>1, StatusesPass DEF Agreeing
<1> QED  BY <1>1, <1>2, <1>6, <1>7

LEMMA SubmittedIsSent ==
  ASSUME TypeInvariant, NEW r \in Requests, job[r].pc \in Submitted
  PROVE  Sent(r) /\ Busy(r) /\ r \in Orders /\ orders[r] \in Order
<1>1. /\ Local(r) /\ job[r].input.kind # "deposit" /\ orders[r] # None
      /\ r \in Orders /\ orders[r] \in Order
  BY KnownOf
<1>2. Busy(r)
  BY DEF Busy, Submitted, InFill, WithRow
<1>3. orders[r].sequence > 0
  BY <1>1, <1>2 DEF Local, Phased
<1> QED  BY <1>1, <1>2, <1>3 DEF Sent

LEMMA OrderRows ==
  ASSUME Dependable, TypeInvariant, NEW r \in Requests, Agreeing(r),
         NextOrder(r) \/ PersistOrder(r) \/ MarshalOrder(r) \/ PublishOrder(r)
  PROVE  Agreeing(r)'
<1>1. /\ job \in [Requests -> Job] /\ job[r] \in Job /\ db \in Database /\ bus \in Topics
      /\ orders \in [Orders -> Order \cup {None}]
      /\ OrdersAgree(r) /\ BooksAgree(r) /\ TradesAgree(r) /\ EventsAgree(r)
  BY DEF TypeInvariant, Typed, Agreeing
<1>2. job[r].pc \in WithRow \cup {"orders"} /\ UNCHANGED <<memory, book, cache>>
  BY DEF NextOrder, PersistOrder, MarshalOrder, PublishOrder, At, WithRow, services
<1>3. Sent(r) /\ Busy(r)
  BY <1>2, SubmittedIsSent DEF Submitted, WithRow
<1>4. (\A o : Sent(o)' <=> Sent(o)) /\ orders' = orders
  BY <1>2 DEF Sent, memory
<1>5. job[r].pc \in WithRow => job[r].row \in Row /\ job[r].row.id \in Orders
  BY KnownOf DEF Local, Loaded, Row

<1> DEFINE id == job[r].row.id
           Meanwhile == /\ job'[r].pc \in WithRow \cup {"orders", "saveTrades"}
                         /\ job'[r].fills = job[r].fills
                         /\ db'.trades = db.trades /\ db'.audit = db.audit
                         /\ bus'.trades = bus.trades /\ bus'.audit = bus.audit
<1>6. ASSUME NextOrder(r), job[r].pending = {} PROVE Meanwhile /\ OrdersAgree(r)'
  <2>1. /\ job'[r].pc = "saveTrades" /\ job'[r].pending = {} /\ job'[r].fills = job[r].fills
        /\ UNCHANGED <<db, bus>> /\ At(r, "orders")
    <3>1. Goto(r, "saveTrades") /\ At(r, "orders") /\ UNCHANGED <<db, bus>>
      BY <1>6 DEF NextOrder, services
    <3> QED  BY <1>6, <3>1, GotoFields
  <2>2. OrdersDue(r, {"saveOrder"}) = {} /\ OrdersDue(r, WithRow) = {}
    BY <1>6, <2>1 DEF OrdersDue, When, WithRow, At, Applying
  <2>3. OrdersAgree(r)'
    BY <1>1, <1>4, <2>1, <2>2 DEF OrdersAgree, OrdersKnown, Mirrored, Gathered, WithRow, Applying
  <2> QED  BY <2>1, <2>3
<1>7. ASSUME NextOrder(r), job[r].pending # {} PROVE Meanwhile /\ OrdersAgree(r)'
  <2>1. PICK o \in job[r].pending :
          job' = [job EXCEPT ![r].pc = "saveOrder", ![r].pending = @ \ {o},
                             ![r].row = [id |-> o, order |-> orders[o]]]
    BY <1>7 DEF NextOrder
  <2>2. /\ job'[r].pc = "saveOrder" /\ job'[r].pending = job[r].pending \ {o}
        /\ job'[r].row = [id |-> o, order |-> orders[o]] /\ job'[r].fills = job[r].fills
        /\ UNCHANGED <<db, bus>> /\ At(r, "orders")
    BY <1>1, <1>7, <2>1 DEF Job, NextOrder, services
  <2>3. Sent(o) /\ job'[r].row.id = o /\ job'[r].row.order = orders[o]
    BY <1>1, <2>2 DEF OrdersAgree
  <2>4. /\ OrdersDue(r, {"saveOrder"}) = job[r].pending /\ OrdersDue(r, WithRow) = job[r].pending
        /\ OrdersDue(r, {"saveOrder"})' = job[r].pending /\ OrdersDue(r, WithRow)' = job[r].pending
    BY <1>3, <1>4, <2>2, <2>3 DEF OrdersDue, When, WithRow, At, Applying
  <2>5. OrdersAgree(r)'
    BY <1>1, <1>4, <2>2, <2>3, <2>4 DEF OrdersAgree, OrdersKnown, Mirrored, Gathered, WithRow, Applying
  <2> QED  BY <2>2, <2>5 DEF WithRow
<1>8. ASSUME PersistOrder(r) PROVE Meanwhile /\ OrdersAgree(r)'
  <2>1. /\ At(r, "saveOrder") /\ Goto(r, "marshalOrder") /\ bus' = bus
        /\ db' = [db EXCEPT !.orders[id] = job[r].row.order]
    BY <1>8 DEF PersistOrder, Save, Answered, Dependable
  <2>2. /\ job'[r].pc = "marshalOrder" /\ job'[r].pending = job[r].pending
        /\ job'[r].row = job[r].row /\ job'[r].fills = job[r].fills
    BY <2>1, GotoFields
  <2>3. /\ db'.orders[id] = orders[id] /\ \A o \in Orders \ {id} : db'.orders[o] = db.orders[o]
        /\ db'.trades = db.trades /\ db'.audit = db.audit /\ Sent(id)
    BY <1>1, <1>5, <2>1 DEF Database, OrdersAgree, At, WithRow
  <2>4. /\ OrdersDue(r, {"saveOrder"}) = job[r].pending \cup {id}
        /\ OrdersDue(r, WithRow) = job[r].pending \cup {id}
        /\ OrdersDue(r, {"saveOrder"})' = job[r].pending
        /\ OrdersDue(r, WithRow)' = job[r].pending \cup {id}
    BY <1>3, <1>4, <2>1, <2>2 DEF OrdersDue, When, WithRow, At, Applying
  <2>5. OrdersAgree(r)'
    BY <1>1, <1>4, <2>1, <2>2, <2>3, <2>4
       DEF OrdersAgree, OrdersKnown, Mirrored, Gathered, WithRow, Applying, At
  <2> QED  BY <2>1, <2>2, <2>3, <2>5 DEF WithRow
<1>9. ASSUME MarshalOrder(r) PROVE Meanwhile /\ OrdersAgree(r)'
  <2> DEFINE row == [job[r].row EXCEPT !.order = orders[id]]
  <2>1. /\ At(r, "marshalOrder") /\ UNCHANGED <<db, bus>>
        /\ job' = [job EXCEPT ![r] = [job[r] EXCEPT !.pc = "publishOrder", !.row = row]]
    BY <1>1, <1>9 DEF MarshalOrder, services, Job
  <2>2. row.id = id /\ row.order = orders[id]
    BY <1>5, <2>1 DEF Row, At, WithRow
  <2> HIDE DEF row
  <2>3. /\ job'[r].pc = "publishOrder" /\ job'[r].pending = job[r].pending
        /\ job'[r].row = row /\ job'[r].fills = job[r].fills
    BY <1>1, <2>1 DEF Job
  <2>4. /\ OrdersDue(r, {"saveOrder"}) = job[r].pending
        /\ OrdersDue(r, WithRow) = job[r].pending \cup {id}
        /\ OrdersDue(r, {"saveOrder"})' = job[r].pending
        /\ OrdersDue(r, WithRow)' = job[r].pending \cup {id}
    BY <1>3, <1>4, <2>1, <2>2, <2>3 DEF OrdersDue, When, WithRow, At, Applying
  <2>5. OrdersAgree(r)'
    BY <1>1, <1>4, <2>1, <2>2, <2>3, <2>4
       DEF OrdersAgree, OrdersKnown, Mirrored, Gathered, WithRow, Applying, At
  <2> QED  BY <2>1, <2>3, <2>5 DEF WithRow
<1>10. ASSUME PublishOrder(r) PROVE Meanwhile /\ OrdersAgree(r)'
  <2>1. /\ At(r, "publishOrder") /\ job' = [job EXCEPT ![r].pc = "orders", ![r].row = None]
        /\ bus' = (IF "bus" \in Wired THEN [bus EXCEPT !.orders[id] = job[r].row.order] ELSE bus)
        /\ db' = db
    BY <1>10 DEF PublishOrder, Send, Dependable
  <2>2. /\ job'[r].pc = "orders" /\ job'[r].pending = job[r].pending /\ job'[r].fills = job[r].fills
    BY <1>1, <2>1 DEF Job
  <2>3. /\ bus'.trades = bus.trades /\ bus'.audit = bus.audit
        /\ Mirrored => /\ bus'.orders[id] = orders[id] /\ orders[id] # None
                       /\ \A o \in Orders \ {id} : bus'.orders[o] = bus.orders[o]
    BY <1>1, <1>5, <2>1 DEF Topics, OrdersAgree, At, WithRow, Mirrored, Sent
  <2>4. /\ OrdersDue(r, {"saveOrder"}) = job[r].pending
        /\ OrdersDue(r, WithRow) = job[r].pending \cup {id}
        /\ OrdersDue(r, {"saveOrder"})' = job[r].pending
        /\ OrdersDue(r, WithRow)' = job[r].pending
    BY <1>3, <1>4, <2>1, <2>2 DEF OrdersDue, When, WithRow, At, Applying
  <2>5. OrdersAgree(r)'
    BY <1>1, <1>4, <2>1, <2>2, <2>3, <2>4
       DEF OrdersAgree, OrdersKnown, Mirrored, Gathered, WithRow, Applying, At
  <2> QED  BY <2>1, <2>2, <2>3, <2>5
<1>11. Meanwhile /\ OrdersAgree(r)'
  BY <1>6, <1>7, <1>8, <1>9, <1>10
<1> HIDE DEF Meanwhile
<1>12. AccountsAgree(r)' /\ StatusesAgree(r)'
  BY <1>11, ReportsFrame DEF Reports, Meanwhile, WithRow
<1>13. Busy(r)' /\ job'[r].pc \notin Recorded \cup {"record"} /\ job[r].pc \notin Recorded \cup {"record"}
  BY <1>2, <1>11 DEF Meanwhile, WithRow, Recorded, Auditing, Busy
<1>14. BooksAgree(r)'
  <2>1. BooksDue(r)' = BooksDue(r)
    BY <1>2, <1>3, <1>4, <1>13 DEF BooksDue, When, Recorded
  <2> QED  BY <1>1, <1>2, <1>13, <2>1, BooksPass DEF Recorded, memory, book
<1>15. TradesAgree(r)'
  BY <1>1, <1>2, <1>3, <1>4, <1>11, <1>13, TradesAside DEF Meanwhile, memory, book
<1>16. EventsAgree(r)'
  BY <1>1, <1>2, <1>11, <1>13, EventsPass DEF Meanwhile, memory, Recorded, Auditing
<1> QED  BY <1>11, <1>12, <1>14, <1>15, <1>16 DEF Agreeing

-----------------------------------------------------------------------------
(* Recording the trades *)

LEMMA RangeJoins ==
  ASSUME NEW S, NEW f \in Seq(S), NEW g \in Seq(S) PROVE Range(f \o g) = Range(f) \cup Range(g)
BY RangeConcatenation, RangeEquality

LEMMA PersistTradesAgrees ==
  ASSUME Dependable, TypeInvariant, NEW r \in Requests, Agreeing(r), PersistTrades(r)
  PROVE  Agreeing(r)'
<1>1. /\ job \in [Requests -> Job] /\ job[r] \in Job /\ db \in Database
      /\ OrdersAgree(r) /\ BooksAgree(r) /\ TradesAgree(r) /\ EventsAgree(r)
  BY DEF TypeInvariant, Typed, Agreeing
<1>2. /\ At(r, "saveTrades") /\ Goto(r, "record") /\ UNCHANGED <<memory, book, cache, bus>>
      /\ db' = [db EXCEPT !.trades = @ \cup Range(job[r].fills)]
  BY DEF PersistTrades, Save, Answered, Dependable
<1>3. /\ job'[r].pc = "record" /\ job'[r].fills = job[r].fills /\ job'[r].pending = job[r].pending
      /\ job[r].pc = "saveTrades" /\ orders' = orders /\ market' = market /\ tape' = tape
  BY <1>2, GotoFields DEF At, memory, book
<1>4. /\ db'.trades = db.trades \cup Range(job[r].fills)
      /\ db'.orders = db.orders /\ db'.audit = db.audit
  BY <1>1, <1>2 DEF Database
<1>5. Sent(r) /\ Sent(r)' /\ Busy(r) /\ Busy(r)'
  BY <1>3, SubmittedIsSent DEF Submitted, Sent, Busy
<1>6. AccountsAgree(r)' /\ StatusesAgree(r)'
  BY <1>3, ReportsFrame DEF Reports
<1>7. OrdersAgree(r)'
  BY <1>1, <1>2, <1>3, <1>4, OrdersPass DEF Applying, Syncing, WithRow
<1>8. BooksAgree(r)'
  <2>1. BooksDue(r)' = BooksDue(r)
    BY <1>3, <1>5 DEF BooksDue, When
  <2> QED  BY <1>1, <1>2, <1>3, <2>1, BooksPass DEF memory, book
<1>9. TradesAgree(r)'
  <2>1. TapesDue(r)' = TapesDue(r) /\ TradesUncached(r) = {} /\ TradesUncached(r)' = {}
    BY <1>3, <1>5 DEF TapesDue, TradesUncached, When, Recorded, Auditing
  <2>2. /\ TradesUnrecorded(r) = {} /\ TradesUnpublished(r) = {}
        /\ TradesUnrecorded(r)' = Range(job[r].fills) /\ TradesUnpublished(r)' = Range(job[r].fills)
    BY <1>3 DEF TradesUnrecorded, TradesUnpublished, When, At, Auditing
  <2>3. TapesKnown(TapesDue(r), job[r].fills)'
    BY <1>1, <1>3, <2>1 DEF TradesAgree, TapesKnown
  <2>4. TradesKnown(TradesUnrecorded(r), TradesUnpublished(r), TradesUncached(r))'
    BY <1>1, <1>2, <1>3, <1>4, <2>1, <2>2 DEF TradesAgree, TradesKnown, Mirrored
  <2> QED  BY <1>3, <2>3, <2>4 DEF TradesAgree, At
<1>10. EventsAgree(r)'
  BY <1>1, <1>2, <1>3, <1>4, EventsPass DEF memory
<1> QED  BY <1>6, <1>7, <1>8, <1>9, <1>10 DEF Agreeing

LEMMA RecordAgrees ==
  ASSUME Dependable, TypeInvariant, NEW r \in Requests, Agreeing(r), Record(r)
  PROVE  Agreeing(r)'
<1>f. PICK f : f = job[r].fills
  OBVIOUS
<1>s. PICK s : s = orders[r].symbol
  OBVIOUS
<1>1. /\ job \in [Requests -> Job] /\ job[r] \in Job /\ market \in [Symbols -> Seq(Trade)]
      /\ f \in Seq(Trade)
      /\ OrdersAgree(r) /\ BooksAgree(r) /\ TradesAgree(r) /\ EventsAgree(r)
  BY <1>f DEF TypeInvariant, Typed, Agreeing, Job
<1>2. /\ At(r, "record") /\ UNCHANGED <<wallet, orders, auditLog, book, services>>
      /\ job' = [job EXCEPT ![r].pc = "audit", ![r].at = 0]
      /\ market' = [market EXCEPT ![s] = market[s] \o f]
  BY <1>f, <1>s DEF Record
<1>3. /\ job'[r].pc = "audit" /\ job'[r].fills = f /\ job'[r].pending = job[r].pending
      /\ job'[r].at = 0 /\ job[r].pc = "record" /\ orders' = orders /\ tape' = tape
      /\ UNCHANGED <<db, bus, cache>>
  BY <1>f, <1>1, <1>2 DEF At, Job, book, services
<1>4. Sent(r) /\ Sent(r)' /\ Busy(r) /\ Busy(r)' /\ s \in Symbols
  BY <1>s, <1>3, SubmittedIsSent DEF Submitted, Sent, Busy, Order
<1>5. AccountsAgree(r)' /\ StatusesAgree(r)'
  BY <1>3, ReportsFrame DEF Reports
<1>6. OrdersAgree(r)'
  BY <1>1, <1>3, OrdersPass DEF Applying, Syncing, WithRow
<1>7. BooksAgree(r)'
  <2>1. BooksDue(r)' = BooksDue(r)
    BY <1>3, <1>4 DEF BooksDue, When
  <2> QED  BY <1>1, <1>2, <1>3, <2>1, BooksPass DEF book
<1>8. EventsAgree(r)'
  BY <1>1, <1>2, <1>3, EventsPass
<1>9. TradesAgree(r)'
  <2>1. /\ TapesDue(r) = {s} /\ TapesDue(r)' = {}
        /\ TradesUncached(r) = {} /\ TradesUncached(r)' = {s}
    BY <1>s, <1>3, <1>4 DEF TapesDue, TradesUncached, When, Recorded, Auditing
  <2>2. /\ TradesUnrecorded(r) = Range(f) /\ TradesUnpublished(r) = Range(f)
        /\ TradesUnrecorded(r)' = {}
    BY <1>f, <1>3 DEF TradesUnrecorded, TradesUnpublished, When, At, Auditing
  <2>3. TradesUnpublished(r)' = Range(f)
    <3>1. \A i \in DOMAIN f : i >= 0
      BY <1>1, LenProperties
    <3>2. {k \in DOMAIN f : k >= 0} = DOMAIN f
      BY <3>1
    <3> QED  BY <1>3, <2>2, <3>2 DEF TradesUnpublished, When, Auditing, Range, From
  <2>4. /\ market'[s] = market[s] \o f /\ \A y \in Symbols \ {s} : market'[y] = market[y]
        /\ Range(market'[s]) = Range(market[s]) \cup Range(f)
    BY <1>1, <1>2, <1>4, RangeJoins
  <2>5. TapesKnown({}, f)'
    BY <1>f, <1>1, <1>3, <2>1, <2>4 DEF TradesAgree, TapesKnown
  <2>6. UNION {Range(market'[y]) : y \in Symbols} = (UNION {Range(market[y]) : y \in Symbols}) \cup Range(f)
    BY <1>4, <2>4
  <2>7. TradesKnown({}, Range(f), {s})'
    BY <1>1, <1>3, <2>1, <2>2, <2>4, <2>6 DEF TradesAgree, TradesKnown, Mirrored
  <2>8. TapesKnown(TapesDue(r), job[r].fills)'
    BY <1>3, <2>1, <2>5 DEF TapesKnown
  <2>9. TradesKnown(TradesUnrecorded(r), TradesUnpublished(r), TradesUncached(r))'
    BY <2>1, <2>2, <2>3, <2>7 DEF TradesKnown
  <2> QED  BY <1>3, <2>8, <2>9 DEF TradesAgree, At
<1> QED  BY <1>5, <1>6, <1>7, <1>8, <1>9 DEF Agreeing

-----------------------------------------------------------------------------
(* The events, and the trades on the bus *)

LEMMA FromDrops ==
  ASSUME NEW S, NEW f \in Seq(S), NEW n \in Nat
  PROVE  /\ n \in 1..Len(f) => From(f, n) = {f[n]} \cup From(f, n + 1)
         /\ n = 0 => From(f, n) = From(f, n + 1)
         /\ n >= Len(f) => From(f, n + 1) = {}
<1>1. DOMAIN f = 1..Len(f) /\ Len(f) \in Nat
  BY LenProperties
<1>2. \A k \in DOMAIN f : k \in Nat /\ (k >= n <=> k = n \/ k >= n + 1)
  BY <1>1
<1>3. ASSUME n \in 1..Len(f) PROVE From(f, n) = {f[n]} \cup From(f, n + 1)
  <2>1. {k \in DOMAIN f : k >= n} = {n} \cup {k \in DOMAIN f : k >= n + 1}
    BY <1>1, <1>2, <1>3
  <2> QED  BY <2>1 DEF From
<1>4. ASSUME n = 0 PROVE From(f, n) = From(f, n + 1)
  <2>1. {k \in DOMAIN f : k >= n} = {k \in DOMAIN f : k >= n + 1}
    BY <1>1, <1>4
  <2> QED  BY <2>1 DEF From
<1>5. ASSUME n >= Len(f) PROVE From(f, n + 1) = {}
  <2>1. {k \in DOMAIN f : k >= n + 1} = {}
    BY <1>1, <1>5
  <2> QED  BY <2>1 DEF From
<1> QED  BY <1>3, <1>4, <1>5

LEMMA AfterEventFields ==
  ASSUME LocksInvariant, NEW r \in Requests, AfterEvent(r),
         job[r].pc \in Auditing \cup {"publishTrade"}
  PROVE  /\ job[r].fills \in Seq(Trade) /\ job[r].at \in 0..Len(job[r].fills)
         /\ \A q \in Requests \ {r} : job'[q] = job[q]
         /\ \/ /\ job'[r].pc = "audit" /\ job'[r].at = job[r].at + 1
               /\ job'[r].fills = job[r].fills /\ job'[r].pending = job[r].pending
            \/ /\ job'[r].pc = "snapshot" /\ job[r].at = Len(job[r].fills)
               /\ job'[r].fills = job[r].fills /\ job'[r].pending = job[r].pending
            \/ /\ job'[r].pc = "ok" /\ orders[r] = None /\ job[r].fills = << >>
               /\ job'[r].pending = {}
<1>1. TypeInvariant /\ job \in [Requests -> Job] /\ job[r] \in Job /\ Local(r)
  BY DEF LocksInvariant, FundsInvariant, TypeInvariant, Typed
<1>2. job[r].fills \in Seq(Trade) /\ job[r].at \in Nat /\ Len(job[r].fills) \in Nat
  BY <1>1, LenProperties DEF Job
<1>3. job[r].at \in 0..Len(job[r].fills)
  BY <1>1, <1>2 DEF Local, Positioned, InFill
<1>4. CASE job[r].at < Len(job[r].fills)
  <2>1. job' = [job EXCEPT ![r].pc = "audit", ![r].at = job[r].at + 1]
    BY <1>4 DEF AfterEvent
  <2>2. /\ job'[r].pc = "audit" /\ job'[r].at = job[r].at + 1
        /\ job'[r].fills = job[r].fills /\ job'[r].pending = job[r].pending
        /\ \A q \in Requests \ {r} : job'[q] = job[q]
    BY <1>1, <2>1 DEF Job
  <2> QED  BY <1>2, <1>3, <2>2
<1>5. CASE ~(job[r].at < Len(job[r].fills)) /\ job[r].input.kind = "deposit"
  <2>1. Return(r, "ok")
    BY <1>5 DEF AfterEvent
  <2>2. Busy(r)
    BY DEF Busy, Auditing
  <2>3. orders[r] = None /\ job[r].fills = << >>
    BY <1>1, <1>5, <2>2 DEF LocksInvariant, NothingKept, Local, Phased, Fresh
  <2> QED  BY <1>1, <1>2, <1>3, <2>1, <2>3, ReturnFields
<1>6. CASE ~(job[r].at < Len(job[r].fills)) /\ job[r].input.kind # "deposit"
  <2>1. Goto(r, "snapshot") /\ job[r].at = Len(job[r].fills)
    BY <1>2, <1>3, <1>6 DEF AfterEvent
  <2> QED  BY <1>1, <1>2, <1>3, <2>1, GotoFields
<1> QED  BY <1>4, <1>5, <1>6

LEMMA EventSteps ==
  ASSUME Dependable, LocksInvariant, NEW r \in Requests, Agreeing(r),
         RecordAudit(r) \/ PersistAudit(r) \/ PublishAudit(r) \/ PublishTrade(r)
  PROVE  Agreeing(r)'
<1>1. /\ TypeInvariant /\ job \in [Requests -> Job] /\ job[r] \in Job /\ db \in Database
      /\ bus \in Topics /\ Local(r)
      /\ OrdersAgree(r) /\ BooksAgree(r) /\ TradesAgree(r) /\ EventsAgree(r)
  BY DEF LocksInvariant, FundsInvariant, TypeInvariant, Typed, Agreeing
<1>2. /\ job[r].pc \in Auditing \cup {"publishTrade"}
      /\ UNCHANGED <<wallet, orders, market, queue, tape, cache>>
  BY DEF RecordAudit, PersistAudit, PublishAudit, PublishTrade, At, Auditing, memory, book, services
<1>3. PICK f : f = job[r].fills
  OBVIOUS
<1>4. PICK n : n = job[r].at
  OBVIOUS
<1>5. f \in Seq(Trade) /\ n \in Nat /\ Event(r) = <<r, n>> /\ Busy(r)
  BY <1>1, <1>2, <1>3, <1>4 DEF Job, Event, Busy, Auditing
<1>6. TradesUnpublished(r) = From(f, n) /\ (Mirrored => db.trades = bus.trades \cup From(f, n))
  <2>1. TradesUnpublished(r) = From(f, n)
    BY <1>2, <1>3, <1>4 DEF TradesUnpublished, TradesUnrecorded, When, At, Auditing
  <2> QED  BY <1>1, <2>1 DEF TradesAgree, TradesKnown
<1>7. ASSUME job'[r].pc \in Auditing \cup {"publishTrade"}
      PROVE  TradesUnpublished(r)' = From(job'[r].fills, job'[r].at)
  BY <1>7 DEF TradesUnpublished, TradesUnrecorded, When, At, Auditing
<1>8. ASSUME job'[r].pc \in {"snapshot", "ok"} PROVE TradesUnpublished(r)' = {}
  BY <1>8 DEF TradesUnpublished, TradesUnrecorded, When, At, Auditing

<1> DEFINE Onward == /\ \/ /\ job'[r].pc \in Auditing \cup {"publishTrade", "snapshot"}
                           /\ job'[r].fills = job[r].fills
                        \/ job'[r].pc = "ok" /\ orders[r] = None
                     /\ job'[r].pending \subseteq job[r].pending
                     /\ db'.trades = db.trades /\ db'.orders = db.orders /\ bus'.orders = bus.orders
                     /\ EventsAgree(r)'
                     /\ Mirrored => db.trades = bus'.trades \cup TradesUnpublished(r)'
<1>9. ASSUME RecordAudit(r) PROVE Onward
  <2>1. /\ At(r, "audit") /\ Goto(r, "saveAudit") /\ UNCHANGED <<db, bus>>
        /\ auditLog' = auditLog \cup {<<r, n>>}
    BY <1>5, <1>9 DEF RecordAudit, services
  <2>2. /\ job'[r].pc = "saveAudit" /\ job'[r].pending = job[r].pending
        /\ job'[r].fills = f /\ job'[r].at = n
    BY <1>1, <1>3, <1>4, <2>1, GotoFields
  <2>3. /\ EventDue(r, "saveAudit") = {} /\ EventDue(r, "publishAudit") = {}
        /\ EventDue(r, "saveAudit")' = {<<r, n>>} /\ EventDue(r, "publishAudit")' = {}
    BY <2>1, <2>2 DEF EventDue, When, At, Event
  <2>4. EventsAgree(r)'
    BY <1>1, <2>1, <2>3 DEF EventsAgree, EventsKnown, Mirrored
  <2> QED  BY <1>3, <1>6, <1>7, <2>1, <2>2, <2>4 DEF Auditing
<1>10. ASSUME PersistAudit(r) PROVE Onward
  <2>1. /\ At(r, "saveAudit") /\ Goto(r, "publishAudit") /\ bus' = bus /\ auditLog' = auditLog
        /\ db' = [db EXCEPT !.audit = @ \cup {<<r, n>>}]
    BY <1>5, <1>10 DEF PersistAudit, Save, Answered, Dependable, memory
  <2>2. /\ job'[r].pc = "publishAudit" /\ job'[r].pending = job[r].pending
        /\ job'[r].fills = f /\ job'[r].at = n
    BY <1>1, <1>3, <1>4, <2>1, GotoFields
  <2>3. /\ db'.trades = db.trades /\ db'.orders = db.orders /\ db'.audit = db.audit \cup {<<r, n>>}
    BY <1>1, <2>1 DEF Database
  <2>4. /\ EventDue(r, "saveAudit") = {<<r, n>>} /\ EventDue(r, "publishAudit") = {}
        /\ EventDue(r, "saveAudit")' = {} /\ EventDue(r, "publishAudit")' = {<<r, n>>}
    BY <1>5, <2>1, <2>2 DEF EventDue, When, At, Event
  <2>5. EventsAgree(r)'
    BY <1>1, <2>1, <2>3, <2>4 DEF EventsAgree, EventsKnown, Mirrored
  <2> QED  BY <1>3, <1>6, <1>7, <2>1, <2>2, <2>3, <2>5 DEF Auditing
<1>11. ASSUME AfterEvent(r), NEW sent, sent \cup From(f, n) = sent \cup From(f, n + 1),
              Mirrored => bus'.trades = sent /\ db.trades = sent \cup From(f, n),
              EventsKnown({}, {})',
              db' = db, bus'.orders = bus.orders
       PROVE  Onward
  <2>1. /\ n \in 0..Len(f)
        /\ \/ /\ job'[r].pc = "audit" /\ job'[r].at = n + 1
              /\ job'[r].fills = f /\ job'[r].pending = job[r].pending
           \/ /\ job'[r].pc = "snapshot" /\ n = Len(f)
              /\ job'[r].fills = f /\ job'[r].pending = job[r].pending
           \/ /\ job'[r].pc = "ok" /\ orders[r] = None /\ f = << >>
              /\ job'[r].pending = {}
    BY <1>2, <1>3, <1>4, <1>11, AfterEventFields
  <2>2. EventDue(r, "saveAudit")' = {} /\ EventDue(r, "publishAudit")' = {}
    BY <2>1 DEF EventDue, When, At
  <2>3. EventsAgree(r)'
    BY <1>11, <2>2 DEF EventsAgree, EventsKnown
  <2>4. Mirrored => db.trades = bus'.trades \cup TradesUnpublished(r)'
    <3>1. CASE job'[r].pc = "audit"
      <4>1. TradesUnpublished(r)' = From(f, n + 1)
        BY <1>7, <2>1, <3>1 DEF Auditing
      <4> QED  BY <1>11, <4>1
    <3>2. CASE job'[r].pc # "audit"
      <4>1. TradesUnpublished(r)' = {} /\ n >= Len(f)
        BY <1>5, <1>8, <2>1, <3>2, LenProperties
      <4>2. From(f, n + 1) = {}
        BY <1>5, <4>1, FromDrops
      <4> QED  BY <1>11, <4>1, <4>2
    <3> QED  BY <3>1, <3>2
  <2> QED  BY <1>3, <1>11, <2>1, <2>3, <2>4 DEF Auditing
<1>12. ASSUME PublishAudit(r) PROVE Onward
  <2>1. /\ At(r, "publishAudit") /\ db' = db /\ auditLog' = auditLog
        /\ bus' = (IF "bus" \in Wired THEN [bus EXCEPT !.audit = @ \cup {<<r, n>>}] ELSE bus)
        /\ IF n > 0 THEN Goto(r, "publishTrade") ELSE AfterEvent(r)
    BY <1>4, <1>5, <1>12 DEF PublishAudit, Send, Dependable, memory
  <2>2. /\ bus'.trades = bus.trades /\ bus'.orders = bus.orders
        /\ Mirrored => bus'.audit = bus.audit \cup {<<r, n>>}
    BY <1>1, <2>1 DEF Topics, Mirrored
  <2>3. EventDue(r, "saveAudit") = {} /\ EventDue(r, "publishAudit") = {<<r, n>>}
    BY <1>5, <2>1 DEF EventDue, When, At
  <2>4. EventsKnown({}, {})'
    BY <1>1, <2>1, <2>2, <2>3 DEF EventsAgree, EventsKnown, Mirrored
  <2>5. CASE n > 0
    <3>1. /\ job'[r].pc = "publishTrade" /\ job'[r].pending = job[r].pending
          /\ job'[r].fills = f /\ job'[r].at = n
      BY <1>1, <1>3, <1>4, <2>1, <2>5, GotoFields
    <3>2. EventDue(r, "saveAudit")' = {} /\ EventDue(r, "publishAudit")' = {}
      BY <3>1 DEF EventDue, When, At
    <3>3. EventsAgree(r)'
      BY <2>4, <3>2 DEF EventsAgree, EventsKnown
    <3> QED  BY <1>3, <1>6, <1>7, <2>1, <2>2, <3>1, <3>3
  <2>6. CASE ~(n > 0)
    <3>1. AfterEvent(r) /\ n = 0
      BY <1>5, <2>1, <2>6
    <3>2. From(f, n) = From(f, n + 1)
      BY <1>5, <3>1, FromDrops
    <3>3. PICK sent : sent = bus'.trades
      OBVIOUS
    <3> HIDE DEF Onward
    <3> QED  BY <1>6, <1>11, <2>1, <2>2, <2>4, <3>1, <3>2, <3>3
  <2> QED  BY <2>5, <2>6
<1>13. ASSUME PublishTrade(r) PROVE Onward
  <2>1. /\ At(r, "publishTrade") /\ db' = db /\ auditLog' = auditLog /\ AfterEvent(r)
        /\ bus' = (IF "bus" \in Wired THEN [bus EXCEPT !.trades = @ \cup {f[n]}] ELSE bus)
    BY <1>3, <1>4, <1>13 DEF PublishTrade, Send, Dependable, memory, Fill
  <2>2. /\ bus'.audit = bus.audit /\ bus'.orders = bus.orders
        /\ Mirrored => bus'.trades = bus.trades \cup {f[n]}
    BY <1>1, <2>1 DEF Topics, Mirrored
  <2>3. EventDue(r, "saveAudit") = {} /\ EventDue(r, "publishAudit") = {}
    BY <1>5, <2>1 DEF EventDue, When, At
  <2>4. EventsKnown({}, {})'
    BY <1>1, <2>1, <2>2, <2>3 DEF EventsAgree, EventsKnown, Mirrored
  <2>5. n \in 1..Len(f)
    BY <1>1, <1>3, <1>4, <2>1 DEF Local, Positioned, InFill, At
  <2>6. From(f, n) = {f[n]} \cup From(f, n + 1)
    BY <1>5, <2>5, FromDrops
  <2>7. PICK sent : sent = bus.trades \cup {f[n]}
    OBVIOUS
  <2>8. /\ sent \cup From(f, n) = sent \cup From(f, n + 1)
        /\ Mirrored => bus'.trades = sent /\ db.trades = sent \cup From(f, n)
    BY <1>6, <2>2, <2>6, <2>7
  <2> HIDE DEF Onward
  <2> QED  BY <1>11, <2>1, <2>2, <2>4, <2>8
<1>14. Onward
  <2> HIDE DEF Onward
  <2> QED  BY <1>9, <1>10, <1>12, <1>13

<1>15. (Sent(r)' <=> Sent(r)) /\ (job'[r].pc = "ok" => ~Sent(r))
  BY <1>2, <1>14 DEF Sent, Auditing
<1>16. AccountsAgree(r)' /\ StatusesAgree(r)'
  BY <1>1, <1>14, ReportsFrame DEF Reports, Auditing
<1>17. OrdersAgree(r)'
  BY <1>1, <1>2, <1>14, OrdersPass DEF Auditing, Applying, Syncing, WithRow
<1>18. BooksAgree(r)'
  <2>1. BooksDue(r) \subseteq BooksDue(r)' /\ job'[r].pc # "cacheBook"
    BY <1>2, <1>14, <1>15 DEF BooksDue, When, Auditing, Busy
  <2> QED  BY <1>1, <1>2, <2>1, BooksPass
<1>19. TradesAgree(r)'
  <2>1. TapesDue(r) = {} /\ TapesDue(r)' = {} /\ TradesUnrecorded(r) = {} /\ TradesUnrecorded(r)' = {}
    BY <1>2, <1>14 DEF TapesDue, TradesUnrecorded, When, At, Recorded, Auditing, Busy
  <2>2. TradesUncached(r)' = TradesUncached(r)
    BY <1>2, <1>14, <1>15 DEF TradesUncached, When, Recorded, Auditing
  <2>3. TapesKnown(TapesDue(r), job[r].fills)'
    BY <1>1, <1>2, <2>1 DEF TradesAgree, TapesKnown
  <2>4. TradesKnown(TradesUnrecorded(r), TradesUnpublished(r), TradesUncached(r))'
    BY <1>1, <1>2, <1>14, <2>1, <2>2 DEF TradesAgree, TradesKnown, Mirrored
  <2> QED  BY <1>14, <2>3, <2>4 DEF TradesAgree, At, Auditing
<1> QED  BY <1>14, <1>16, <1>17, <1>18, <1>19 DEF Agreeing

-----------------------------------------------------------------------------
(* The caches of the book and the trades *)

LEMMA CacheSteps ==
  ASSUME Dependable, TypeInvariant, NEW r \in Requests, Agreeing(r),
         \/ TakeSnapshot(r) \/ CacheOrderBook(r) \/ CopyTrades(r) \/ CacheTrades(r)
         \/ CallFails(r)
  PROVE  Agreeing(r)'
<1>1. /\ job \in [Requests -> Job] /\ job[r] \in Job /\ cache \in Redis
      /\ OrdersAgree(r) /\ BooksAgree(r) /\ TradesAgree(r) /\ EventsAgree(r)
  BY DEF TypeInvariant, Typed, Agreeing
<1>2. /\ job[r].pc \in {"snapshot", "cacheBook", "copyTrades", "cacheTrades"}
      /\ UNCHANGED <<wallet, orders, market, auditLog, queue, tape, db, bus>>
  BY DEF TakeSnapshot, CacheOrderBook, CopyTrades, CacheTrades, CallFails, At, memory, book,
     services, Dependable
<1>3. Sent(r) /\ Busy(r) /\ r \in Orders /\ orders[r] \in Order
  BY <1>2, SubmittedIsSent DEF Submitted
<1>4. PICK s : s = orders[r].symbol
  OBVIOUS
<1>5. s \in Symbols
  BY <1>3, <1>4 DEF Order
<1>6. (Sent(r)' <=> Sent(r)) /\ \A y : Snapshot(orders, queue[y])' = Snapshot(orders, queue[y])
  BY <1>2 DEF Sent
<1>7. /\ TapesDue(r) = {} /\ TradesUnrecorded(r) = {} /\ TradesUnpublished(r) = {}
      /\ TradesUncached(r) = {s}
      /\ BooksDue(r) = IF job[r].pc \in {"copyTrades", "cacheTrades"} THEN {} ELSE {s}
  BY <1>2, <1>3, <1>4 DEF TapesDue, TradesUnrecorded, TradesUnpublished, TradesUncached, BooksDue,
     When, At, Recorded, Auditing

<1> DEFINE Onward == /\ job'[r].pc \in {"cacheBook", "copyTrades", "cacheTrades", "ok", "failed"}
                     /\ job'[r].pending \subseteq job[r].pending
                     /\ BooksAgree(r)'
                     /\ Mirrored => \A y \in Symbols \ TradesUncached(r)' : cache'.trades[y] = market[y]
                     /\ job'[r].pc = "cacheTrades" => job'[r].view = market[s]
<1>8. ASSUME TakeSnapshot(r) PROVE Onward
  <2>1. /\ job'[r].pc = "cacheBook" /\ job'[r].pending = job[r].pending
        /\ job'[r].view = Snapshot(orders, queue[s]) /\ cache' = cache /\ At(r, "snapshot")
    BY <1>1, <1>4, <1>8 DEF TakeSnapshot, Job, services
  <2>2. BooksDue(r)' = {s} /\ TradesUncached(r)' = {s}
    BY <1>2, <1>3, <1>4, <1>6, <2>1 DEF BooksDue, TradesUncached, When, Busy, Recorded
  <2>3. BooksAgree(r)'
    BY <1>1, <1>2, <1>4, <1>6, <1>7, <2>1, <2>2 DEF BooksAgree, BooksKnown, Mirrored, At
  <2> QED  BY <1>1, <1>7, <2>1, <2>2, <2>3 DEF TradesAgree, TradesKnown
<1>9. ASSUME CacheOrderBook(r) PROVE Onward
  <2>1. /\ At(r, "cacheBook") /\ Goto(r, "copyTrades")
        /\ cache' = (IF "cache" \in Wired THEN [cache EXCEPT !.books[s] = job[r].view] ELSE cache)
    BY <1>4, <1>9 DEF CacheOrderBook, Keep, Answered, Dependable
  <2>2. job'[r].pc = "copyTrades" /\ job'[r].pending = job[r].pending
    BY <2>1, GotoFields
  <2>3. BooksDue(r)' = {} /\ TradesUncached(r)' = {s}
    BY <1>2, <1>3, <1>4, <1>6, <2>2 DEF BooksDue, TradesUncached, When, Busy, Recorded
  <2>4. /\ cache'.trades = cache.trades
        /\ Mirrored => /\ cache'.books[s] = job[r].view
                       /\ \A y \in Symbols \ {s} : cache'.books[y] = cache.books[y]
    BY <1>1, <1>5, <2>1 DEF Redis, Mirrored
  <2>5. BooksAgree(r)'
    BY <1>1, <1>2, <1>4, <1>6, <1>7, <2>1, <2>2, <2>3, <2>4
       DEF BooksAgree, BooksKnown, Mirrored, At
  <2> QED  BY <1>1, <1>7, <2>2, <2>3, <2>4, <2>5 DEF TradesAgree, TradesKnown
<1>10. ASSUME CopyTrades(r) PROVE Onward
  <2>1. /\ job'[r].pc = "cacheTrades" /\ job'[r].pending = job[r].pending
        /\ job'[r].view = market[s] /\ cache' = cache /\ At(r, "copyTrades")
    BY <1>1, <1>4, <1>10 DEF CopyTrades, Job, services
  <2>2. BooksDue(r)' = {} /\ TradesUncached(r)' = {s}
    BY <1>2, <1>3, <1>4, <1>6, <2>1 DEF BooksDue, TradesUncached, When, Busy, Recorded
  <2>3. BooksAgree(r)'
    BY <1>1, <1>2, <1>6, <1>7, <2>1, <2>2 DEF BooksAgree, BooksKnown, Mirrored, At
  <2> QED  BY <1>1, <1>7, <2>1, <2>2, <2>3 DEF TradesAgree, TradesKnown
<1>11. ASSUME job'[r].pc \in {"ok", "failed"}
       PROVE  BooksDue(r)' = {} /\ TradesUncached(r)' = {}
  BY <1>11 DEF BooksDue, TradesUncached, When, Busy, Recorded, Auditing
<1>12. ASSUME CacheTrades(r) PROVE Onward
  <2>1. /\ At(r, "cacheTrades") /\ Return(r, "ok")
        /\ cache' = (IF "cache" \in Wired THEN [cache EXCEPT !.trades[s] = job[r].view] ELSE cache)
    BY <1>4, <1>12 DEF CacheTrades, Keep, Dependable
  <2>2. job'[r].pc = "ok" /\ job'[r].pending = {}
    BY <2>1, ReturnFields
  <2>3. /\ cache'.books = cache.books
        /\ Mirrored => /\ cache'.trades[s] = market[s]
                       /\ \A y \in Symbols \ {s} : cache'.trades[y] = cache.trades[y]
    BY <1>1, <1>4, <1>5, <2>1 DEF Redis, Mirrored, TradesAgree
  <2>4. BooksAgree(r)'
    BY <1>1, <1>2, <1>6, <1>7, <1>11, <2>1, <2>2, <2>3 DEF BooksAgree, BooksKnown, Mirrored, At
  <2>5. Mirrored => \A y \in Symbols : cache'.trades[y] = market[y]
    BY <1>1, <1>7, <2>3 DEF TradesAgree, TradesKnown
  <2> QED  BY <1>11, <2>2, <2>4, <2>5
<1>13. ASSUME CallFails(r) PROVE Onward
  <2>1. ~Mirrored /\ Return(r, "failed")
    BY <1>2, <1>13 DEF CallFails, Fail, Dependable, Mirrored
  <2>2. job'[r].pc = "failed" /\ job'[r].pending = {}
    BY <2>1, ReturnFields
  <2>3. BooksAgree(r)'
    BY <2>1 DEF BooksAgree, Mirrored
  <2> QED  BY <2>1, <2>2, <2>3
<1>14. Onward
  <2> HIDE DEF Onward
  <2> QED  BY <1>8, <1>9, <1>10, <1>12, <1>13

<1>15. AccountsAgree(r)' /\ StatusesAgree(r)'
  BY <1>14, ReportsFrame DEF Reports
<1>16. OrdersAgree(r)'
  BY <1>1, <1>2, <1>14, OrdersPass DEF Applying, Syncing, WithRow
<1>17. TradesAgree(r)'
  <2>1. TapesDue(r)' = {} /\ TradesUnrecorded(r)' = {} /\ TradesUnpublished(r)' = {}
    BY <1>14 DEF TapesDue, TradesUnrecorded, TradesUnpublished, When, At, Recorded, Auditing, Busy
  <2>2. TapesKnown(TapesDue(r), job[r].fills)'
    BY <1>1, <1>2, <1>7, <2>1 DEF TradesAgree, TapesKnown
  <2>3. TradesKnown(TradesUnrecorded(r), TradesUnpublished(r), TradesUncached(r))'
    <3>1. db.trades = UNION {Range(market[y]) : y \in Symbols} /\ (Mirrored => db.trades = bus.trades)
      BY <1>1, <1>7 DEF TradesAgree, TradesKnown
    <3>2. /\ db'.trades = UNION {Range(market'[y]) : y \in Symbols}
          /\ Mirrored => db'.trades = bus'.trades
      BY <1>2, <3>1
    <3> QED  BY <1>2, <1>14, <2>1, <3>2 DEF TradesKnown, Mirrored
  <2> QED  BY <1>2, <1>4, <1>14, <2>2, <2>3 DEF TradesAgree, At
<1>18. EventsAgree(r)'
  BY <1>1, <1>2, <1>14, EventsPass
<1> QED  BY <1>14, <1>15, <1>16, <1>17, <1>18 DEF Agreeing

-----------------------------------------------------------------------------
(* Settlement *)

(* The orders a request has to do with, and what applying a fill changes   *)
(* of them: ReservedAmount and Status.                                     *)
Involved(r) == {r} \cup Makers(r)

Edited(r) ==
  \A o \in Orders :
    \/ orders'[o] = orders[o]
    \/ /\ o \in Involved(r) /\ orders[o] # None /\ orders'[o] # None
       /\ orders'[o].account = orders[o].account /\ orders'[o].symbol = orders[o].symbol
       /\ orders'[o].quantity = orders[o].quantity /\ orders'[o].remaining = orders[o].remaining
       /\ orders'[o].sequence = orders[o].sequence

LEMMA TradedKnown ==
  ASSUME AgreeInvariant, NEW r \in Requests, job[r].pc \in Applying
  PROVE  /\ r \in Orders /\ Sent(r) /\ Busy(r) /\ Agreeing(r) /\ Solo(r)
         /\ orders[r].symbol \in Symbols
         /\ \A o \in Involved(r) : /\ o \in Orders /\ orders[o] \in Order /\ Sent(o)
                                 /\ orders[o].symbol = orders[r].symbol
         /\ \A i \in DOMAIN job[r].fills : job[r].fills[i].maker \in Involved(r)
<1>1. FundsInvariant /\ TypeInvariant
  BY DEF AgreeInvariant, LocksInvariant, FundsInvariant
<1>2. /\ Busy(r) /\ Keeps(r) /\ Local(r) /\ r \in Orders /\ orders[r] \in Order /\ orders[r] # None
      /\ job[r].input.kind # "deposit" /\ Solo(r)
  BY <1>1, ApplyingKnown, BusyIsSolo, KnownOf DEF Applying, Submitted, InFill
<1>3. Sent(r) /\ orders[r].symbol \in Symbols
  BY <1>2 DEF Sent, Local, Phased, Applying, Submitted, InFill, Order
<1>4. ASSUME NEW i \in DOMAIN job[r].fills
      PROVE  LET o == job[r].fills[i].maker IN
             o \in Orders /\ orders[o] \in Order /\ Sent(o) /\ orders[o].symbol = orders[r].symbol
  <2> DEFINE o == job[r].fills[i].maker
  <2>1. o \in Orders /\ orders[o] # None
    BY <1>1, MakersExist
  <2>2. orders[o] \in Order
    BY <1>1, <2>1 DEF TypeInvariant, Typed
  <2>3. ~Unsent(o) /\ orders[o].symbol = orders[r].symbol
    BY <1>2 DEF Keeps, Matched
  <2>4. Sent(o)
    <3>1. CASE o \in Requests
      BY <2>1, <2>2, <2>3, <3>1 DEF Unsent, Sent, Order
    <3>2. CASE o \notin Requests
      BY <2>1, <3>2 DEF AgreeInvariant
    <3> QED  BY <3>1, <3>2
  <2> QED  BY <2>1, <2>2, <2>3, <2>4
<1> QED  BY <1>2, <1>3, <1>4 DEF Involved, Makers, AgreeInvariant

(* The other books keep their orders as they are. *)
LEMMA BooksKept ==
  ASSUME TypeInvariant, Labelled, NEW s, \A y \in Symbols \ {s} : queue'[y] = queue[y],
         \A o \in Orders : orders'[o] = orders[o] \/ orders[o].symbol = s
  PROVE  \A y \in Symbols \ {s} : Snapshot(orders, queue[y])' = Snapshot(orders, queue[y])
<1> SUFFICES ASSUME NEW y \in Symbols \ {s}
             PROVE  Snapshot(orders', queue'[y]) = Snapshot(orders, queue[y])
  OBVIOUS
<1>1. ASSUME NEW side \in Sides, NEW i \in DOMAIN queue[y][side]
      PROVE  orders'[queue[y][side][i]] = orders[queue[y][side][i]]
  <2>1. queue[y][side] \in Seq(Orders)
    BY DEF TypeInvariant, Typed
  <2>2. queue[y][side][i] \in Range(queue[y][side]) /\ Range(queue[y][side]) \subseteq Orders
    BY <2>1, RangeProperties
  <2> QED  BY <2>2 DEF Labelled
<1> QED  BY <1>1 DEF Snapshot

LEMMA SettlesTurn ==
  ASSUME AgreeInvariant, NEW r \in Requests,
         job[r].pc \in Applying \ {"match"}, job'[r].pc \in Applying \cup {"accounts"},
         job'[r].pc # "match", job'[r].fills = job[r].fills,
         UNCHANGED <<queue, market, auditLog, tape, db, cache, bus>>, Edited(r),
         \A a \in Accounts : wallet'[a] = wallet[a] \/ a \in AccountsDue(r)',
         AccountsDue(r) \subseteq AccountsDue(r)',
         job'[r].pending \subseteq job[r].pending \cup Involved(r),
         job'[r].pc = "accounts" => Involved(r) \subseteq job'[r].pending,
         Gathered(r)', StatusesAgree(r)'
  PROVE  Agreeing(r)' /\ \A o \in Orders : Sent(o) => Sent(o)'
<1>1. /\ r \in Orders /\ Sent(r) /\ Busy(r) /\ orders[r].symbol \in Symbols
      /\ \A o \in Involved(r) : /\ o \in Orders /\ orders[o] \in Order /\ Sent(o)
                              /\ orders[o].symbol = orders[r].symbol
      /\ AccountsAgree(r) /\ OrdersAgree(r) /\ BooksAgree(r) /\ TradesAgree(r) /\ EventsAgree(r)
      /\ TypeInvariant /\ Labelled
  BY TradedKnown DEF Agreeing, AgreeInvariant, LocksInvariant, FundsInvariant
<1>2. \A o \in Orders : Sent(o)' <=> Sent(o)
  BY <1>1 DEF Edited, Sent
<1>3. orders'[r].symbol = orders[r].symbol /\ Busy(r)' /\ Involved(r)' = Involved(r) /\ job[r].pending \subseteq Orders
  BY <1>1 DEF Edited, Busy, Applying, Involved, Makers, TypeInvariant, Typed, Job
<1>4. AccountsAgree(r)'
  <2>1. AccountsUncached(r) = AccountsDue(r) /\ AccountsUncached(r)' = AccountsDue(r)'
    BY DEF AccountsUncached, When, At, Applying
  <2>2. \A a \in Accounts \ AccountsDue(r)' : a \notin AccountsDue(r) /\ wallet'[a] = wallet[a]
    OBVIOUS
  <2>3. AccountsKnown(AccountsDue(r), AccountsUncached(r))'
    BY <1>1, <2>1, <2>2 DEF AccountsAgree, AccountsKnown, Mirrored
  <2> QED  BY <2>3 DEF AccountsAgree, At, Applying
<1>5. OrdersAgree(r)'
  <2>1. OrdersDue(r, {"saveOrder"}) = Involved(r) /\ OrdersDue(r, WithRow) = Involved(r)
    BY DEF OrdersDue, When, Involved, WithRow, Applying, Syncing
  <2>2. Involved(r) \subseteq OrdersDue(r, {"saveOrder"})' /\ Involved(r) \subseteq OrdersDue(r, WithRow)'
    <3>1. CASE job'[r].pc \in Applying
      BY <1>3, <3>1 DEF OrdersDue, When, Involved
    <3>2. CASE job'[r].pc = "accounts"
      BY <1>1, <1>2, <3>2 DEF OrdersDue, When
    <3> QED  BY <3>1, <3>2
  <2>3. \A o \in Orders \ Involved(r) : orders'[o] = orders[o]
    BY DEF Edited
  <2>4. OrdersKnown(OrdersDue(r, {"saveOrder"}), OrdersDue(r, WithRow))'
    BY <1>1, <1>2, <2>1, <2>2, <2>3 DEF OrdersAgree, OrdersKnown, Mirrored
  <2>5. \A o \in job'[r].pending : Sent(o)'
    BY <1>1, <1>2, <1>3 DEF OrdersAgree
  <2> QED  BY <2>4, <2>5 DEF OrdersAgree, WithRow, Applying
<1>6. BooksAgree(r)'
  <2>1. BooksDue(r) = {orders[r].symbol} /\ BooksDue(r)' = {orders[r].symbol}
    BY <1>1, <1>2, <1>3 DEF BooksDue, When, Applying
  <2>2. \A y \in Symbols \ {orders[r].symbol} :
          Snapshot(orders, queue[y])' = Snapshot(orders, queue[y])
    BY <1>1, BooksKept DEF Edited
  <2> QED  BY <1>1, <2>1, <2>2 DEF BooksAgree, BooksKnown, Mirrored, At, Applying
<1>7. TradesAgree(r)'
  BY <1>1, <1>2, <1>3, TradesAside DEF Recorded, Auditing, Applying
<1>8. EventsAgree(r)'
  BY <1>1, EventsPass DEF Applying
<1> QED  BY <1>2, <1>4, <1>5, <1>6, <1>7, <1>8 DEF Agreeing

(* Between two visits to changedAccounts. *)
LEMMA InnerTurn ==
  ASSUME AgreeInvariant, NEW r \in Requests,
         job[r].pc \in Applying \ {"match", "collect"}, job'[r].pc \in Applying \ {"match"},
         job'[r].fills = job[r].fills, job'[r].at = job[r].at,
         job'[r].accounts = job[r].accounts, job'[r].pending = job[r].pending,
         job'[r].pc = "collect" => job'[r].role = "maker" \/ job[r].at \notin DOMAIN job[r].fills,
         UNCHANGED <<queue, market, auditLog, tape, db, cache, bus>>, Edited(r),
         \A a \in Accounts : wallet'[a] = wallet[a] \/ a \in Dirty(r)',
         StatusesAgree(r)'
  PROVE  Agreeing(r)' /\ \A o \in Orders : Sent(o) => Sent(o)'
<1>1. /\ r \in Orders /\ Sent(r) /\ OrdersAgree(r)
      /\ \A i \in DOMAIN job[r].fills : job[r].fills[i].maker \in Orders
  BY TradedKnown DEF Agreeing
<1>2. /\ Sent(r)' /\ orders'[r].account = orders[r].account
      /\ \A i \in DOMAIN job[r].fills :
           orders'[job[r].fills[i].maker].account = orders[job[r].fills[i].maker].account
  BY <1>1 DEF Edited, Sent
<1>3. Dirty(r) \subseteq Dirty(r)'
  BY <1>2 DEF Dirty, At, Fill
<1>4. /\ AccountsDue(r) = Dirty(r) \cup {a \in Accounts : job[r].accounts[a] # None}
      /\ AccountsDue(r)' = Dirty(r)' \cup {a \in Accounts : job[r].accounts[a] # None}
  BY <1>1, <1>2 DEF AccountsDue, When, At, Applying
<1>5. Gathered(r)'
  BY <1>1 DEF OrdersAgree, Gathered, At
<1>6. /\ AccountsDue(r) \subseteq AccountsDue(r)'
      /\ \A a \in Accounts : wallet'[a] = wallet[a] \/ a \in AccountsDue(r)'
      /\ job'[r].pc \in Applying \cup {"accounts"} /\ job'[r].pc \notin {"match", "accounts"}
      /\ job'[r].pending \subseteq job[r].pending \cup Involved(r)
  BY <1>3, <1>4 DEF Applying
<1> QED  BY <1>5, <1>6, SettlesTurn

LEMMA StatusesStand ==
  ASSUME NEW r \in Requests, StatusesAgree(r), Edited(r),
         \A o \in Orders : orders[o] # None => orders'[o].status = orders[o].status,
         StatusesDue(r) \subseteq StatusesDue(r)', job'[r].pc # "storeStatus"
  PROVE  StatusesAgree(r)'
<1>1. StatusesSet(StatusesDue(r))'
  <2> SUFFICES ASSUME NEW o \in Orders \ StatusesDue(r)', Sent(o)'
               PROVE  orders'[o].status = Status(orders'[o])
    BY DEF StatusesSet, Status
  <2>1. /\ Sent(o) /\ orders'[o].status = orders[o].status
        /\ orders'[o].remaining = orders[o].remaining /\ orders'[o].quantity = orders[o].quantity
    BY DEF Edited, Sent
  <2> QED  BY <2>1 DEF StatusesAgree, StatusesSet, Status
<1> QED  BY <1>1 DEF StatusesAgree, At

LEMMA LoadStatusAgrees ==
  ASSUME AgreeInvariant, NEW r \in Requests, LoadStatus(r)
  PROVE  Agreeing(r)' /\ \A o \in Orders : Sent(o) => Sent(o)'
<1>1. /\ At(r, "loadStatus") /\ UNCHANGED <<wallet, orders, queue, market, auditLog, tape, db, cache, bus>>
      /\ job \in [Requests -> Job] /\ job[r] \in Job
  BY DEF LoadStatus, memory, book, services, AgreeInvariant, LocksInvariant, FundsInvariant,
     TypeInvariant, Typed
<1>2. /\ job'[r].pc = "storeStatus" /\ job'[r].status = Status(orders[Subject(r)])
      /\ job'[r].fills = job[r].fills /\ job'[r].at = job[r].at /\ job'[r].role = job[r].role
      /\ job'[r].accounts = job[r].accounts /\ job'[r].pending = job[r].pending
  BY <1>1 DEF LoadStatus, Job
<1>3. Edited(r)
  BY <1>1 DEF Edited
<1>4. StatusesAgree(r)'
  <2>1. StatusesAgree(r)
    BY <1>1, TradedKnown DEF Applying, At, Agreeing
  <2>2. StatusesDue(r)' = StatusesDue(r)
    BY <1>1, <1>2 DEF StatusesDue, When, Later, Applying, At
  <2>3. Subject(r)' = Subject(r)
    BY <1>2 DEF Subject, Fill
  <2> QED  BY <1>1, <1>2, <2>1, <2>2, <2>3 DEF StatusesAgree, StatusesSet, Sent, Status
<1> QED  BY <1>1, <1>2, <1>3, <1>4, InnerTurn DEF At, Applying

LEMMA LoadReservedAgrees ==
  ASSUME AgreeInvariant, NEW r \in Requests, LoadReserved(r)
  PROVE  Agreeing(r)' /\ \A o \in Orders : Sent(o) => Sent(o)'
<1>1. /\ At(r, "loadReserved") /\ UNCHANGED <<wallet, orders, queue, market, auditLog, tape, db, cache, bus>>
      /\ job \in [Requests -> Job] /\ job[r] \in Job
  BY DEF LoadReserved, memory, book, services, AgreeInvariant, LocksInvariant, FundsInvariant,
     TypeInvariant, Typed
<1>2. /\ job'[r].pc = "storeReserved"
      /\ job'[r].fills = job[r].fills /\ job'[r].at = job[r].at /\ job'[r].role = job[r].role
      /\ job'[r].accounts = job[r].accounts /\ job'[r].pending = job[r].pending
  BY <1>1 DEF LoadReserved, Job
<1>3. Edited(r)
  BY <1>1 DEF Edited
<1>4. StatusesAgree(r)'
  <2>1. StatusesAgree(r)
    BY <1>1, TradedKnown DEF Applying, At, Agreeing
  <2>2. StatusesDue(r)' = StatusesDue(r)
    BY <1>1, <1>2 DEF StatusesDue, When, Later, Applying, At
  <2> QED  BY <1>1, <1>2, <1>3, <2>1, <2>2, StatusesStand
<1> QED  BY <1>1, <1>2, <1>3, <1>4, InnerTurn DEF At, Applying

LEMMA StoreStatusAgrees ==
  ASSUME AgreeInvariant, NEW r \in Requests, StoreStatus(r)
  PROVE  Agreeing(r)' /\ \A o \in Orders : Sent(o) => Sent(o)'
<1>1. /\ At(r, "storeStatus") /\ UNCHANGED <<wallet, queue, market, auditLog, tape, db, cache, bus>>
      /\ job \in [Requests -> Job] /\ job[r] \in Job /\ orders \in [Orders -> Order \cup {None}]
      /\ Local(r) /\ TypeInvariant
  BY DEF StoreStatus, book, services, AgreeInvariant, LocksInvariant, FundsInvariant,
     TypeInvariant, Typed
<1>2. /\ job'[r].pc = IF job[r].at = 0 THEN "collect"
                      ELSE IF job[r].role = "maker" THEN "loadStatus" ELSE "releaseMaker"
      /\ job'[r].role = IF job[r].at = 0 \/ job[r].role = "maker" THEN "taker" ELSE "maker"
      /\ job'[r].fills = job[r].fills /\ job'[r].at = job[r].at
      /\ job'[r].accounts = job[r].accounts /\ job'[r].pending = job[r].pending
  BY <1>1 DEF StoreStatus, Job
<1>3. PICK x : x = Subject(r)
  OBVIOUS
<1>4. /\ job[r].at \in Nat /\ job[r].role \in {"maker", "taker"}
      /\ job[r].role = "maker" => job[r].at \in DOMAIN job[r].fills
      /\ 0 \notin DOMAIN job[r].fills
  <2>1. job[r].fills \in Seq(Trade) /\ job[r].at \in Nat /\ job[r].role \in {"maker", "taker"}
    BY <1>1 DEF Job
  <2>2. DOMAIN job[r].fills = 1..Len(job[r].fills)
    BY <2>1, LenProperties
  <2> QED  BY <1>1, <2>1, <2>2 DEF Local, Positioned, At
<1>5. /\ x = IF job[r].role = "maker" THEN job[r].fills[job[r].at].maker ELSE r
      /\ x \in Involved(r)
  BY <1>3, <1>4 DEF Subject, Fill, Involved, Makers
<1>6. x \in Orders /\ orders[x] \in Order /\ Sent(x) /\ StatusesAgree(r)
  BY <1>1, <1>5, TradedKnown DEF Applying, At, Agreeing
<1>7. /\ orders'[x] = [orders[x] EXCEPT !.status = job[r].status]
      /\ \A o \in Orders \ {x} : orders'[o] = orders[o]
      /\ job[r].status = Status(orders[x]) /\ job[r].status \in Statuses
  BY <1>1, <1>3, <1>6 DEF StoreStatus, StatusesAgree, At, Local, Loaded
<1>8. /\ orders'[x].account = orders[x].account /\ orders'[x].symbol = orders[x].symbol
      /\ orders'[x].quantity = orders[x].quantity /\ orders'[x].remaining = orders[x].remaining
      /\ orders'[x].sequence = orders[x].sequence /\ orders'[x].status = Status(orders[x])
      /\ orders'[x] \in Order
  BY SMTT(40), <1>6, <1>7 DEF Order, Statuses
<1>9. Edited(r)
  <2>1. orders'[x] # None
    BY ONLY <1>8, ExchangeAssumption
  <2> QED  BY ZenonT(40), <1>5, <1>6, <1>7, <1>8, <2>1 DEF Edited, Sent
<1>10. StatusesAgree(r)'
  <2>1. StatusesDue(r) \subseteq StatusesDue(r)' \cup {x}
    <3> SUFFICES ASSUME NEW o \in StatusesDue(r), o # x PROVE o \in StatusesDue(r)'
      OBVIOUS
    <3>1. CASE job[r].role = "maker"
      BY <1>1, <1>2, <1>4, <1>5, <3>1 DEF StatusesDue, When, Later, Applying, At
    <3>2. CASE job[r].role = "taker"
      BY <1>1, <1>2, <1>4, <1>5, <3>2 DEF StatusesDue, When, Later, Applying, At
    <3> QED  BY <1>4, <3>1, <3>2
  <2>2. StatusesSet(StatusesDue(r))'
    <3> SUFFICES ASSUME NEW o \in Orders \ StatusesDue(r)', Sent(o)'
                 PROVE  orders'[o].status = Status(orders'[o])
      BY DEF StatusesSet, Status
    <3>1. CASE o = x
      BY <1>8, <3>1 DEF Status
    <3>2. CASE o # x
      BY <1>6, <1>7, <2>1, <3>2 DEF StatusesAgree, StatusesSet, Status, Sent
    <3> QED  BY <3>1, <3>2
  <2> QED  BY <1>2, <2>2 DEF StatusesAgree, At
<1>11. job'[r].pc = "collect" => job[r].at \notin DOMAIN job[r].fills
  BY <1>2, <1>4
<1> QED  BY <1>1, <1>2, <1>9, <1>10, <1>11, InnerTurn DEF At, Applying

LEMMA ReservedEdits ==
  ASSUME AgreeInvariant, TypeInvariant', NEW r \in Requests, job[r].pc \in Applying, Busy(r)',
         job'[r].input = job[r].input, job'[r].fills = job[r].fills, NEW x \in Involved(r), NEW v,
         orders' = orders \/ orders' = [orders EXCEPT ![x].reserved = v]
  PROVE  Edited(r) /\ \A o \in Orders : orders[o] # None => orders'[o].status = orders[o].status
<1>1. CASE orders' = orders
  BY <1>1 DEF Edited
<1>2. CASE orders' = [orders EXCEPT ![x].reserved = v]
  <2>1. x \in Orders /\ orders[x] \in Order /\ orders[x] # None
    BY TradedKnown DEF Sent
  <2>2. orders \in [Orders -> Order \cup {None}] /\ job[r].input.kind # "deposit"
    <3>1. TypeInvariant /\ job[r].pc \in Submitted
      BY DEF AgreeInvariant, LocksInvariant, FundsInvariant, Applying, Submitted, InFill
    <3> QED  BY <3>1, KnownOf DEF TypeInvariant, Typed
  <2>3. /\ orders'[x] = [orders[x] EXCEPT !.reserved = v]
        /\ \A o \in Orders \ {x} : orders'[o] = orders[o]
    BY <1>2, <2>1, <2>2
  <2>4. orders'[x] # None
    BY <2>2 DEF TypeInvariant, Local, Phased, Priced, Involved, Makers
  <2>5. /\ orders'[x].account = orders[x].account /\ orders'[x].symbol = orders[x].symbol
        /\ orders'[x].quantity = orders[x].quantity /\ orders'[x].remaining = orders[x].remaining
        /\ orders'[x].sequence = orders[x].sequence /\ orders'[x].status = orders[x].status
    BY <2>1, <2>3 DEF Order
  <2> QED  BY <2>1, <2>3, <2>4, <2>5 DEF Edited
<1> QED  BY <1>1, <1>2

LEMMA SettleAgrees ==
  ASSUME Serial, Funded, Turns, AgreeInvariant, NEW r \in Requests, Settle(r)
  PROVE  Agreeing(r)' /\ \A o \in Orders : Sent(o) => Sent(o)'
<1>1. /\ At(r, "settle") /\ UNCHANGED <<orders, queue, market, auditLog, tape, db, cache, bus>>
      /\ FundsInvariant /\ job \in [Requests -> Job] /\ job[r] \in Job
      /\ wallet \in [Accounts -> Solvent]
  BY DEF Settle, book, services, AgreeInvariant, LocksInvariant, FundsInvariant, TypeInvariant, Typed
<1>2. PICK x : x = Subject(r)
  OBVIOUS
<1>3. PICK a : a = orders[x].account
  OBVIOUS
<1>4. /\ job[r].at \in DOMAIN job[r].fills /\ job[r].role \in {"maker", "taker"}
      /\ a \in {orders[Fill(r).maker].account, orders[r].account}
  BY <1>1, <1>2, <1>3, SubjectFacts DEF At, Applying, InFill, Job
<1>5. CanSettle(wallet[a], MyPair(r), orders[x], Fill(r).quantity)
  <2>1. Unpaid(job[r])[Subject(r)] >= Fill(r).quantity
    BY <1>1, SettlingIsUnpaid
  <2> QED  BY <1>1, <1>2, <1>3, <2>1, FillIsFunded
<1>6. /\ \E next : wallet' = [wallet EXCEPT ![a] = next]
      /\ IF job[r].role = "maker"
           THEN job' = [job EXCEPT ![r].role = "taker"]
           ELSE job' = [job EXCEPT ![r].role = "maker", ![r].pc = "loadReserved"]
  BY <1>2, <1>3, <1>5 DEF Settle
<1>7. /\ job'[r].fills = job[r].fills /\ job'[r].at = job[r].at
      /\ job'[r].accounts = job[r].accounts /\ job'[r].pending = job[r].pending
      /\ job'[r].pc \in {"settle", "loadReserved"}
  BY SMTT(40), <1>1, <1>4, <1>6 DEF Job, At
<1>8. Dirty(r)' = {orders[Fill(r).maker].account, orders[r].account}
  BY ZenonT(40), <1>1, <1>4, <1>7 DEF Dirty, At, Applying, Fill
<1>9. Edited(r)
  BY <1>1 DEF Edited
<1>10. StatusesAgree(r)'
  <2>1. StatusesAgree(r)
    BY <1>1, TradedKnown DEF Applying, At, Agreeing
  <2>2. StatusesDue(r)' = StatusesDue(r)
    BY <1>1, <1>7 DEF StatusesDue, When, Later, Applying, At
  <2> QED  BY <1>1, <1>7, <1>9, <2>1, <2>2, StatusesStand
<1>11. \A b \in Accounts : wallet'[b] = wallet[b] \/ b \in Dirty(r)'
  BY <1>1, <1>4, <1>6, <1>8
<1> QED  BY <1>1, <1>7, <1>9, <1>10, <1>11, InnerTurn DEF At, Applying

(* What AdjustRemainingReservation stores is ReservedAmount alone. *)
LEMMA AdjustAgrees ==
  ASSUME AgreeInvariant, TypeInvariant', NEW r \in Requests,
         StoreReserved(r) \/ CheckReserved(r) \/ ClampReserved(r)
  PROVE  Agreeing(r)' /\ \A o \in Orders : Sent(o) => Sent(o)'
<1>1. /\ job[r].pc \in {"storeReserved", "checkReserved", "clampReserved"}
      /\ UNCHANGED <<wallet, queue, market, auditLog, tape, db, cache, bus>>
      /\ FundsInvariant /\ job \in [Requests -> Job] /\ job[r] \in Job
  BY DEF StoreReserved, CheckReserved, ClampReserved, At, memory, book, services, AgreeInvariant,
     LocksInvariant, FundsInvariant, TypeInvariant, Typed
<1>2. /\ job'[r].pc \in {"checkReserved", "clampReserved", "loadReserved", "loadStatus"}
      /\ job'[r].fills = job[r].fills /\ job'[r].at = job[r].at /\ job'[r].input = job[r].input
      /\ job'[r].accounts = job[r].accounts /\ job'[r].pending = job[r].pending
      /\ job'[r].pc = "loadStatus" => job[r].role = "taker" /\ job'[r].role = "maker"
  <2>1. job[r].role \in {"maker", "taker"}
    BY <1>1 DEF Job
  <2>2. CASE AfterAdjust(r)
    BY <1>1, <2>1, <2>2 DEF AfterAdjust, Job
  <2>3. CASE Goto(r, "clampReserved")
    BY <1>1, <2>3 DEF Goto, Job
  <2>4. CASE StoreReserved(r)
    BY <1>1, <2>4 DEF StoreReserved, Job
  <2> QED  BY <2>2, <2>3, <2>4 DEF CheckReserved, ClampReserved
<1>3. PICK x : x = Subject(r)
  OBVIOUS
<1>4. /\ job[r].at \in DOMAIN job[r].fills /\ x \in Involved(r) /\ job[r].at # 0
      /\ job[r].pc \in Applying \ {"match", "collect"}
  <2>1. job[r].at \in DOMAIN job[r].fills /\ job[r].pc \in Applying \ {"match", "collect"}
    BY <1>1, SubjectFacts DEF Applying, InFill, Job
  <2>2. job[r].fills \in Seq(Trade)
    BY <1>1 DEF Job
  <2>3. DOMAIN job[r].fills = 1..Len(job[r].fills)
    BY <2>2, LenProperties
  <2> QED  BY <1>3, <2>1, <2>3 DEF Subject, Fill, Involved, Makers
<1>5. orders' = orders \/ \E v : orders' = [orders EXCEPT ![x].reserved = v]
  BY <1>3 DEF StoreReserved, CheckReserved, ClampReserved, memory
<1>6. Busy(r)' /\ job'[r].pc \in Applying \ {"match"}
  BY <1>2 DEF Busy, Applying
<1>7. Edited(r) /\ \A o \in Orders : orders[o] # None => orders'[o].status = orders[o].status
  <2>1. CASE orders' = orders
    BY <2>1 DEF Edited
  <2>2. CASE \E v : orders' = [orders EXCEPT ![x].reserved = v]
    BY ZenonT(40), <1>1, <1>2, <1>4, <1>6, <2>2, ReservedEdits
  <2> QED  BY <1>5, <2>1, <2>2
<1>8. StatusesAgree(r)'
  <2>1. StatusesAgree(r)
    BY <1>4, TradedKnown DEF Agreeing
  <2>2. StatusesDue(r) \subseteq StatusesDue(r)'
    BY <1>1, <1>2, <1>4 DEF StatusesDue, When, Later, Applying, At
  <2> QED  BY <1>2, <1>7, <2>1, <2>2, StatusesStand
<1> QED  BY <1>1, <1>2, <1>4, <1>6, <1>7, <1>8, InnerTurn

(* A release goes through its steps and changes nothing. *)
LEMMA FreesAgrees ==
  ASSUME Serial, Turns, AgreeInvariant, NEW r \in Requests, Frees(r)
  PROVE  Agreeing(r)' /\ \A o \in Orders : Sent(o) => Sent(o)'
<1>1. FundsInvariant /\ TypeInvariant /\ job \in [Requests -> Job] /\ job[r] \in Job
  BY DEF AgreeInvariant, LocksInvariant, FundsInvariant, TypeInvariant, Typed
<1>2. /\ job[r].pc \in Freeing /\ job[r].pc \in Applying \ {"match", "collect"}
      /\ UNCHANGED <<wallet, orders, queue, market, auditLog, tape, db, cache, bus>>
  BY <1>1, FreesIsIdle DEF Freeing, Applying, book, services
<1>3. PICK label \in {"subtract", "add", "clear", "collect", "accounts"} : \E v :
        /\ job' = [job EXCEPT ![r].pc = label, ![r].seen = v]
        /\ label = "accounts" => At(r, "releaseTaker")
  BY <1>1, FreesIsIdle
<1>4. /\ job'[r].pc = label /\ job'[r].role = job[r].role
      /\ job'[r].fills = job[r].fills /\ job'[r].at = job[r].at
      /\ job'[r].accounts = job[r].accounts /\ job'[r].pending = job[r].pending
  BY <1>1, <1>3 DEF Job
<1>5. /\ \/ job[r].role = "maker" /\ job[r].at \in DOMAIN job[r].fills
         \/ job[r].role = "taker" /\ job[r].at > Len(job[r].fills)
      /\ DOMAIN job[r].fills = 1..Len(job[r].fills) /\ Len(job[r].fills) \in Nat /\ job[r].at \in Nat
  BY <1>1, <1>2, FreeingKnown, ApplyingKnown
<1>6. Edited(r) /\ OrdersAgree(r) /\ StatusesAgree(r) /\ r \in Orders /\ Sent(r)
  BY <1>2, TradedKnown DEF Edited, Agreeing
<1>7. CASE label # "accounts"
  <2>1. StatusesDue(r)' = StatusesDue(r)
    <3>1. job'[r].pc \in Applying /\ job'[r].pc \notin {"match", "loadStatus", "storeStatus", "settle",
            "loadReserved", "storeReserved", "checkReserved", "clampReserved"}
      BY <1>4, <1>7 DEF Applying
    <3> QED  BY <1>2, <1>4, <3>1 DEF StatusesDue, When, Later, Freeing
  <2>2. StatusesAgree(r)'
    BY <1>2, <1>4, <1>6, <2>1, StatusesStand
  <2>3. job'[r].pc \in Applying \ {"match"}
    BY <1>4, <1>7 DEF Applying
  <2>4. job'[r].role = "maker" \/ job[r].at \notin DOMAIN job[r].fills
    BY <1>4, <1>5
  <2> QED  BY <1>2, <1>4, <1>6, <2>2, <2>3, <2>4, InnerTurn
<1>8. CASE label = "accounts"
  <2>1. At(r, "releaseTaker") /\ job[r].role = "taker" /\ job[r].at > Len(job[r].fills)
    <3>1. At(r, "releaseTaker")
      BY <1>3, <1>8
    <3>2. job[r].at > Len(job[r].fills)
      BY <1>1, <1>2, <3>1, ApplyingKnown DEF Keeps, Matched, Steady
    <3> QED  BY <1>5, <3>1, <3>2
  <2>2. \A i \in DOMAIN job[r].fills : i < job[r].at /\ i # job[r].at /\ ~(i > job[r].at)
    BY <1>5, <2>1
  <2>3. Dirty(r) = {} /\ StatusesDue(r) = {}
    <3>1. Dirty(r) = {}
      BY <2>1, <2>2 DEF Dirty, At
    <3>2. StatusesDue(r) = {}
      BY <2>1, <2>2 DEF StatusesDue, When, Later, Applying, At
    <3> QED  BY <3>1, <3>2
  <2>4. AccountsDue(r) \subseteq AccountsDue(r)'
    <3>1. ~At(r, "clone") /\ job[r].pc \notin {"persist", "replace"} /\ Sent(r)'
      BY <1>2, <1>6, <2>1 DEF At, Sent
    <3> QED  BY <1>4, <1>8, <2>3, <3>1 DEF AccountsDue, When
  <2>5. Involved(r) \subseteq job[r].pending
    BY <1>5, <1>6, <2>1, <2>2 DEF OrdersAgree, Gathered, Involved, Makers, At, Applying
  <2>6. Gathered(r)'
    BY <1>4, <1>8 DEF Gathered, Applying
  <2>7. StatusesAgree(r)'
    BY <1>2, <1>4, <1>6, <1>8, <2>3, StatusesStand
  <2>8. job'[r].pc \in Applying \cup {"accounts"} /\ job'[r].pc # "match"
    BY <1>4, <1>8
  <2> QED  BY <1>2, <1>4, <1>6, <1>8, <2>4, <2>5, <2>6, <2>7, <2>8, SettlesTurn
<1> QED  BY <1>7, <1>8

LEMMA CollectAgrees ==
  ASSUME AgreeInvariant, NEW r \in Requests, Collect(r)
  PROVE  Agreeing(r)' /\ \A o \in Orders : Sent(o) => Sent(o)'
<1>1. TypeInvariant /\ FundsInvariant /\ At(r, "collect")
  BY DEF AgreeInvariant, LocksInvariant, FundsInvariant, Collect
<1>2. PICK x : x = Subject(r)
  OBVIOUS
<1>3. PICK a : a = orders[x].account
  OBVIOUS
<1>4. /\ UNCHANGED <<wallet, orders, queue, market, auditLog, tape, db, cache, bus>>
      /\ a \in Accounts /\ wallet[a] \in Solvent
      /\ job'[r].fills = job[r].fills
      /\ job'[r].accounts = [job[r].accounts EXCEPT ![a] = wallet[a]]
      /\ job'[r].pending = job[r].pending \cup {x}
      /\ job'[r].at = IF job[r].role = "taker" THEN job[r].at + 1 ELSE job[r].at
  BY <1>1, <1>2, <1>3, CollectFacts DEF memory, book, services
<1>5. PICK last \in BOOLEAN : last <=> job[r].at >= Len(job[r].fills)
  OBVIOUS
<1>6. /\ job'[r].role = IF job[r].role = "taker" /\ ~last THEN "maker" ELSE "taker"
      /\ job'[r].pc = IF job[r].role = "maker" THEN "collect"
                      ELSE IF ~last THEN "settle"
                      ELSE IF job[r].at = Len(job[r].fills) THEN "releaseTaker" ELSE "accounts"
  BY <1>1, <1>5, CollectFacts
<1>7. /\ DOMAIN job[r].fills = 1..Len(job[r].fills) /\ Len(job[r].fills) \in Nat
      /\ job[r].at \in Nat /\ job[r].role \in {"maker", "taker"}
      /\ job[r].role = "maker" => job[r].at \in DOMAIN job[r].fills
      /\ job[r].accounts \in [Accounts -> Solvent \cup {None}]
  BY <1>1, ApplyingKnown DEF At, Applying, Local, Positioned, Job
<1>8. /\ Sent(r) /\ r \in Orders /\ OrdersAgree(r) /\ StatusesAgree(r)
  BY <1>1, TradedKnown DEF At, Applying, Agreeing
<1>9. /\ x = IF job[r].role = "maker" THEN job[r].fills[job[r].at].maker ELSE r
      /\ x \in Involved(r)
  BY <1>2, <1>7 DEF Subject, Fill, Involved, Makers
<1>10. Edited(r) /\ Sent(r)'
  BY <1>4, <1>8 DEF Edited, Sent
<1>11. AccountsDue(r) \subseteq AccountsDue(r)'
  <2>1. wallet[a] # None
    <3>1. wallet[a] \in Account
      BY <1>4, AmountsClosed DEF Solvent, Account, Amount
    <3> QED  BY <3>1, NoneAssumption
  <2>2. \A b \in Accounts : b = a \/ job[r].accounts[b] # None => job'[r].accounts[b] # None
    BY <1>4, <1>7, <2>1
  <2>3. \A b \in Accounts : b = a \/ job[r].accounts[b] # None => b \in AccountsDue(r)'
    BY <1>6, <1>10, <2>2 DEF AccountsDue, When, Applying
  <2>4. CASE job[r].role = "taker"
    <3>1. AccountsDue(r) = {a} \cup {b \in Accounts : job[r].accounts[b] # None}
      BY <1>1, <1>3, <1>8, <1>9, <2>4 DEF AccountsDue, Dirty, When, At, Applying
    <3> QED  BY <1>4, <2>3, <3>1
  <2>5. CASE job[r].role = "maker"
    <3>1. AccountsDue(r) = {a, orders[r].account} \cup {b \in Accounts : job[r].accounts[b] # None}
      BY <1>1, <1>3, <1>7, <1>8, <1>9, <2>5 DEF AccountsDue, Dirty, When, At, Applying, Fill
    <3>2. orders[r].account \in AccountsDue(r)'
      BY <1>4, <1>6, <2>5 DEF AccountsDue, Dirty, At
    <3> QED  BY <1>4, <2>3, <3>1, <3>2
  <2> QED  BY <1>7, <2>4, <2>5
<1>12. /\ job[r].at > 0 => r \in job[r].pending
       /\ \A i \in DOMAIN job[r].fills :
            i < job[r].at \/ (i = job[r].at /\ job[r].role = "taker") =>
              job[r].fills[i].maker \in job[r].pending
  BY <1>1, <1>8 DEF OrdersAgree, Gathered, At, Applying
<1>13. Gathered(r)'
  BY <1>4, <1>6, <1>7, <1>9, <1>12 DEF Gathered, At
<1>14. job'[r].pc = "accounts" => Involved(r) \subseteq job'[r].pending
  <2> SUFFICES ASSUME job'[r].pc = "accounts" PROVE Involved(r) \subseteq job'[r].pending
    OBVIOUS
  <2>1. job[r].role = "taker" /\ last /\ job[r].at # Len(job[r].fills)
    BY <1>6, <1>7
  <2>2. \A i \in DOMAIN job[r].fills : i < job[r].at
    BY <1>5, <1>7, <2>1
  <2> QED  BY <1>4, <1>9, <1>12, <2>1, <2>2 DEF Involved, Makers
<1>15. StatusesAgree(r)'
  <2> DEFINE after == {job[r].fills[i].maker : i \in {k \in DOMAIN job[r].fills : k > job[r].at}}
  <2>1. StatusesDue(r) = after
    BY <1>1 DEF StatusesDue, When, Later, Applying, At
  <2>2. CASE job[r].role = "maker"
    <3>1. StatusesDue(r)' = after
      BY <1>4, <1>6, <2>2 DEF StatusesDue, When, Later, Applying
    <3> QED  BY <1>4, <1>6, <1>8, <1>10, <2>1, <3>1, StatusesStand
  <2>3. CASE job[r].role = "taker" /\ last
    <3>1. {k \in DOMAIN job[r].fills : k > job[r].at} = {}
      BY <1>5, <1>7, <2>3
    <3>2. StatusesDue(r) = {}
      BY <2>1, <3>1
    <3> QED  BY <1>4, <1>6, <1>8, <1>10, <3>2, StatusesStand
  <2>4. CASE job[r].role = "taker" /\ ~last
    <3>1. StatusesDue(r)' = {job[r].fills[i].maker : i \in {k \in DOMAIN job[r].fills :
                               k > job[r].at + 1 \/ k = job[r].at + 1}}
      BY <1>4, <1>6, <2>4 DEF StatusesDue, When, Later, Applying
    <3>2. {k \in DOMAIN job[r].fills : k > job[r].at} =
            {k \in DOMAIN job[r].fills : k > job[r].at + 1 \/ k = job[r].at + 1}
      BY <1>7
    <3> QED  BY <1>4, <1>6, <1>8, <1>10, <2>1, <3>1, <3>2, StatusesStand
  <2> QED  BY <1>7, <2>2, <2>3, <2>4
<1>16. job'[r].pc \in Applying \cup {"accounts"} /\ job'[r].pc # "match"
  BY <1>6 DEF Applying
<1> QED  BY <1>1, <1>4, <1>9, <1>10, <1>11, <1>13, <1>14, <1>15, <1>16, SettlesTurn DEF At, Applying

-----------------------------------------------------------------------------
(* The accounts *)

(* No book has an order that has not been submitted. *)
LEMMA SnapshotsStay ==
  ASSUME TypeInvariant, NEW r \in Requests, queue' = queue,
         \A o \in Orders : orders'[o] = orders[o] \/ (o = r /\ ~Sent(r))
  PROVE  \A y \in Symbols : Snapshot(orders, queue[y])' = Snapshot(orders, queue[y])
<1> SUFFICES ASSUME NEW y \in Symbols
             PROVE  Snapshot(orders', queue[y]) = Snapshot(orders, queue[y])
  OBVIOUS
<1>1. ASSUME NEW side \in Sides, NEW i \in DOMAIN queue[y][side]
      PROVE  orders'[queue[y][side][i]] = orders[queue[y][side][i]]
  <2>1. queue[y][side] \in Seq(Orders)
    BY DEF TypeInvariant, Typed
  <2>2. queue[y][side][i] \in Range(queue[y][side]) /\ Range(queue[y][side]) \subseteq Orders
    BY <2>1, RangeProperties
  <2>3. queue[y][side][i] = r => Sent(r)
    BY <2>2 DEF TypeInvariant, Resting, Sent
  <2> QED  BY <2>2, <2>3
<1> QED  BY <1>1 DEF Snapshot

(* A step of the wallet's turn, before matching or after settlement. *)
LEMMA AccountTurn ==
  ASSUME AgreeInvariant, NEW r \in Requests,
         job[r].pc \in Syncing \cup {"reserve", "clone", "accounts"},
         job'[r].pc \in Syncing \cup {"clone", "submit", "audit", "accounts", "orders", "failed"},
         UNCHANGED <<queue, market, auditLog, tape, bus>>,
         db'.orders = db.orders, db'.trades = db.trades, db'.audit = db.audit,
         cache'.books = cache.books, cache'.trades = cache.trades,
         \A o \in Orders \ {r} : orders'[o] = orders[o],
         orders'[r] = orders[r] \/ (~Sent(r) /\ ~Sent(r)'),
         job'[r].pending \subseteq job[r].pending,
         Sent(r) => /\ job'[r].pending = job[r].pending /\ job'[r].fills = job[r].fills
                    /\ job[r].pc \in Syncing \cup {"accounts"}
                    /\ job'[r].pc \in Syncing \cup {"accounts", "orders"},
         job'[r].pc = "audit" => job'[r].fills = << >>,
         AccountsAgree(r)'
  PROVE  Agreeing(r)' /\ \A o \in Orders : Sent(o) => Sent(o)'
<1>1. /\ Busy(r) /\ TypeInvariant
      /\ OrdersAgree(r) /\ StatusesAgree(r) /\ BooksAgree(r) /\ TradesAgree(r) /\ EventsAgree(r)
  <2>1. Busy(r)
    BY DEF Busy, Syncing
  <2> QED  BY <2>1 DEF AgreeInvariant, LocksInvariant, FundsInvariant, Agreeing
<1>2. \A o \in Orders : Sent(o)' <=> Sent(o)
  BY DEF Sent
<1>3. \A o \in Orders : Sent(o) => orders'[o] = orders[o]
  BY <1>2
<1>4. r \in Orders /\ job[r].pending \subseteq Orders
  BY <1>1 DEF Orders, TypeInvariant, Typed, Job
<1>5. OrdersAgree(r)'
  <2>1. /\ OrdersDue(r, {"saveOrder"}) = When(Sent(r), job[r].pending)
        /\ OrdersDue(r, WithRow) = When(Sent(r), job[r].pending)
    BY DEF OrdersDue, When, WithRow, Applying, Syncing
  <2>2. /\ OrdersDue(r, {"saveOrder"})' = When(Sent(r), job[r].pending)
        /\ OrdersDue(r, WithRow)' = When(Sent(r), job[r].pending)
    BY <1>2, <1>4 DEF OrdersDue, When, WithRow, Applying, Syncing
  <2>3. OrdersKnown(OrdersDue(r, {"saveOrder"}), OrdersDue(r, WithRow))'
    BY <1>1, <1>2, <1>3, <2>1, <2>2 DEF OrdersAgree, OrdersKnown, Mirrored
  <2>4. \A o \in job'[r].pending : Sent(o)'
    BY <1>1, <1>2, <1>4 DEF OrdersAgree
  <2> QED  BY <2>3, <2>4 DEF OrdersAgree, Gathered, WithRow, Applying, Syncing
<1>6. StatusesAgree(r)'
  <2>1. StatusesDue(r) = {} /\ StatusesDue(r)' = {}
    BY DEF StatusesDue, When, Later, Applying, Syncing
  <2>2. StatusesSet(StatusesDue(r))'
    BY <1>1, <1>2, <1>3, <2>1 DEF StatusesAgree, StatusesSet
  <2> QED  BY <2>2 DEF StatusesAgree, At, Syncing
<1>7. BooksAgree(r)'
  <2>1. \A y \in Symbols : Snapshot(orders, queue[y])' = Snapshot(orders, queue[y])
    BY <1>1, <1>3, SnapshotsStay
  <2>2. BooksDue(r) = When(Sent(r), {orders[r].symbol})
    BY <1>1 DEF BooksDue, When, Syncing
  <2>3. BooksDue(r)' = When(Sent(r), {orders[r].symbol})
    BY <1>2, <1>3, <1>4 DEF BooksDue, When, Busy, Syncing
  <2> QED  BY <1>1, <2>1, <2>2, <2>3 DEF BooksAgree, BooksKnown, Mirrored, At, Syncing
<1>8. TradesAgree(r)'
  <2>1. TapesDue(r) = When(Sent(r), {orders[r].symbol})
    BY <1>1 DEF TapesDue, When, Recorded, Auditing, Syncing
  <2>2. TapesDue(r)' = When(Sent(r), {orders[r].symbol})
    BY <1>2, <1>3, <1>4 DEF TapesDue, When, Busy, Recorded, Auditing, Syncing
  <2>3. TradesUnrecorded(r) = {} /\ TradesUnpublished(r) = {} /\ TradesUncached(r) = {}
    BY DEF TradesUnrecorded, TradesUnpublished, TradesUncached, When, At, Recorded, Auditing, Syncing
  <2>4. TradesUnrecorded(r)' = {} /\ TradesUncached(r)' = {}
    BY <1>2, <1>4 DEF TradesUnrecorded, TradesUncached, When, At, Recorded, Auditing, Syncing
  <2>5. TradesUnpublished(r)' = {}
    BY <2>4 DEF TradesUnpublished, When, Auditing, Syncing, From
  <2>6. TapesDue(r) # {} => job'[r].fills = job[r].fills
    BY <2>1 DEF When
  <2> QED  BY <1>1, <2>1, <2>2, <2>3, <2>4, <2>5, <2>6, TradesPass DEF Syncing
<1>9. EventsAgree(r)'
  BY <1>1, EventsPass DEF Syncing
<1> QED  BY <1>2, <1>5, <1>6, <1>7, <1>8, <1>9 DEF Agreeing

LEMMA ReserveAgrees ==
  ASSUME AgreeInvariant, NEW r \in Requests, Reserve(r)
  PROVE  Agreeing(r)' /\ \A o \in Orders : Sent(o) => Sent(o)'
<1> DEFINE o == orders[r]
           a == o.account
           cost == Needs(o, o.quantity)
           row == Reserved(wallet[a], MyPair(r), o)
<1>1. /\ At(r, "reserve") /\ Busy(r) /\ TypeInvariant /\ Agreeing(r)
      /\ UNCHANGED <<queue, market, auditLog, tape, db, cache, bus>>
  BY DEF Reserve, At, Busy, AgreeInvariant, LocksInvariant, FundsInvariant, book, services
<1>2. /\ job[r] \in Job /\ r \in Orders /\ o \in Order /\ o # None /\ o.sequence = 0
      /\ orders \in [Orders -> Order \cup {None}] /\ wallet \in [Accounts -> Solvent]
  BY <1>1, KnownOf DEF At, Unsubmitted, Local, Phased, TypeInvariant, Typed
<1>3. ~Sent(r)
  BY <1>2 DEF Sent
<1>4. CASE Fail(r) /\ UNCHANGED <<wallet, orders>>
  <2>1. job'[r].pc = "failed" /\ job'[r].pending = {}
    BY <1>1, <1>4, ReturnFields DEF Fail
  <2>2. ~Sent(r)'
    BY <1>3, <1>4 DEF Sent
  <2>3. AccountsAgree(r)'
    BY <1>1, <1>4, <2>1, AccountsPass DEF At, Applying, Syncing, Agreeing
  <2> QED  BY <1>1, <1>3, <1>4, <2>1, <2>2, <2>3, AccountTurn DEF At
<1>5. CASE ~(Fail(r) /\ UNCHANGED <<wallet, orders>>)
  <2>1. /\ orders' = [orders EXCEPT ![r].reserved = cost] /\ Goto(r, "clone")
        /\ wallet' = [wallet EXCEPT ![a] = row]
    BY <1>5 DEF Reserve
  <2>2. /\ job'[r].pc = "clone" /\ job'[r].pending = job[r].pending
    BY <1>1, <2>1, GotoFields
  <2> HIDE DEF cost, row
  <2>3. /\ \A x \in Orders \ {r} : orders'[x] = orders[x]
        /\ orders'[r] = [o EXCEPT !.reserved = cost]
    BY <1>2, <2>1
  <2>4. orders'[r].sequence = 0 /\ orders'[r].account = a /\ a \in Accounts
    BY <1>2, <2>3 DEF Order
  <2>5. ~Sent(r)'
    BY <2>4 DEF Sent
  <2>6. AccountsDue(r) = {} /\ AccountsUncached(r) = {}
    BY <1>1 DEF AccountsDue, AccountsUncached, Dirty, When, At, Applying, Syncing
  <2>7. AccountsDue(r)' = {a} /\ AccountsUncached(r)' = {a}
    BY <2>2, <2>4 DEF AccountsDue, AccountsUncached, Dirty, When, At, Applying, Syncing
  <2>8. \A x \in Accounts \ {a} : wallet'[x] = wallet[x]
    BY <1>2, <2>1
  <2>9. AccountsAgree(r)'
    BY <1>1, <2>2, <2>6, <2>7, <2>8 DEF Agreeing, AccountsAgree, AccountsKnown, Mirrored, At
  <2> QED  BY <1>1, <1>3, <2>2, <2>3, <2>5, <2>9, AccountTurn DEF At
<1> QED  BY <1>4, <1>5

LEMMA GetReservedAgrees ==
  ASSUME AgreeInvariant, NEW r \in Requests, GetReserved(r)
  PROVE  Agreeing(r)' /\ \A o \in Orders : Sent(o) => Sent(o)'
<1> DEFINE c == wallet[orders[r].account]
<1>1. /\ At(r, "clone") /\ Busy(r) /\ TypeInvariant /\ Labelled /\ Agreeing(r)
      /\ UNCHANGED <<wallet, orders, queue, market, auditLog, tape, db, cache, bus>>
      /\ job' = [job EXCEPT ![r].pc = "persist", ![r].clone = c]
  BY DEF GetReserved, At, Busy, AgreeInvariant, LocksInvariant, FundsInvariant, memory, book, services
<1>2. /\ job \in [Requests -> Job] /\ job[r] \in Job /\ r \in Orders /\ orders[r] \in Order
      /\ orders[r].sequence = 0
  BY <1>1, KnownOf DEF At, Unsubmitted, Local, Phased, TypeInvariant, Typed
<1>3. c.id = orders[r].account
  BY <1>1, <1>2 DEF Labelled, Order
<1> HIDE DEF c
<1>4. job'[r].pc = "persist" /\ job'[r].clone = c /\ job'[r].pending = job[r].pending
  BY <1>1, <1>2 DEF Job
<1>5. ~Sent(r) /\ ~Sent(r)'
  BY <1>1, <1>2 DEF Sent
<1>6. AccountsDue(r) = {c.id} /\ AccountsUncached(r) = {c.id}
  BY <1>1, <1>3, <1>5 DEF AccountsDue, AccountsUncached, Dirty, When, At, Applying, Syncing
<1>7. AccountsDue(r)' = {c.id} /\ AccountsUncached(r)' = {c.id}
  BY <1>4, <1>5 DEF AccountsDue, AccountsUncached, Dirty, When, At, Applying, Syncing
<1>8. AccountsAgree(r)'
  BY <1>1, <1>4, <1>6, <1>7 DEF Agreeing, AccountsAgree, AccountsKnown, Mirrored, At
<1> QED  BY <1>1, <1>4, <1>5, <1>8, AccountTurn DEF At, Syncing

LEMMA PersistAccountAgrees ==
  ASSUME Dependable, AgreeInvariant, NEW r \in Requests, PersistAccount(r)
  PROVE  Agreeing(r)' /\ \A o \in Orders : Sent(o) => Sent(o)'
<1> DEFINE c == job[r].clone
           next == [c EXCEPT !.version = @ + 1]
           held == {a \in Accounts : job[r].accounts[a] # None}
<1>1. /\ At(r, "persist") /\ Busy(r) /\ TypeInvariant /\ Agreeing(r) /\ LocksInvariant /\ Keeps(r)
      /\ UNCHANGED <<wallet, orders, queue, market, auditLog, tape, cache, bus>>
      /\ job \in [Requests -> Job] /\ job[r] \in Job
  BY DEF PersistAccount, At, Busy, memory, book, AgreeInvariant, LocksInvariant, FundsInvariant,
     TypeInvariant, Typed
<1>2. db.accounts[c.id].version = c.version
  BY <1>1, RowIsCurrent DEF Dependable, Writable
<1>3. db' = [db EXCEPT !.accounts[c.id] = next] /\ job' = [job EXCEPT ![r].pc = "replace", ![r].clone = next]
  BY <1>2 DEF PersistAccount, Dependable, Save
<1>4. c.id \in Accounts
  BY <1>1 DEF Keeps, Copied, At, Syncing
<1>5. c \in Solvent
  BY <1>1 DEF TypeInvariant, Local, Loaded, At, Syncing
<1>6. next.id = c.id /\ next.version > 0
  BY <1>5 DEF Solvent
<1> HIDE DEF next
<1>7. /\ job'[r].pc = "replace" /\ job'[r].clone = next /\ job'[r].pending = job[r].pending
      /\ job'[r].fills = job[r].fills /\ job'[r].accounts = job[r].accounts
  BY <1>1, <1>3 DEF Job
<1>8. /\ db'.orders = db.orders /\ db'.trades = db.trades /\ db'.audit = db.audit
      /\ db'.accounts[c.id] = next /\ \A a \in Accounts \ {c.id} : db'.accounts[a] = db.accounts[a]
  BY <1>1, <1>3, <1>4 DEF TypeInvariant, Typed, Database
<1>9. Sent(r)' <=> Sent(r)
  BY <1>1 DEF Sent
<1>10. AccountsDue(r) = {c.id} \cup When(Sent(r), held) /\ AccountsUncached(r) = AccountsDue(r)
  BY <1>1 DEF AccountsDue, AccountsUncached, Dirty, When, At, Applying, Syncing
<1>11. AccountsDue(r)' = {c.id} \cup When(Sent(r), held) /\ AccountsUncached(r)' = AccountsDue(r)'
  BY <1>6, <1>7, <1>9 DEF AccountsDue, AccountsUncached, Dirty, When, At, Applying, Syncing
<1> HIDE DEF held
<1>12. AccountsAgree(r)'
  BY <1>1, <1>6, <1>7, <1>8, <1>10, <1>11 DEF Agreeing, AccountsAgree, AccountsKnown, Mirrored, At
<1> QED  BY <1>1, <1>7, <1>8, <1>12, AccountTurn DEF At, Syncing

LEMMA ReplaceAccountAgrees ==
  ASSUME AgreeInvariant, NEW r \in Requests, ReplaceAccount(r)
  PROVE  Agreeing(r)' /\ \A o \in Orders : Sent(o) => Sent(o)'
<1> DEFINE c == job[r].clone
           held == {a \in Accounts : job[r].accounts[a] # None}
<1>1. /\ At(r, "replace") /\ Busy(r) /\ TypeInvariant /\ Agreeing(r) /\ Keeps(r)
      /\ UNCHANGED <<orders, queue, market, auditLog, tape, db, cache, bus>>
      /\ wallet' = [wallet EXCEPT ![c.id] = c] /\ Goto(r, "cacheAccount")
  BY DEF ReplaceAccount, At, Busy, book, services, AgreeInvariant, LocksInvariant, FundsInvariant
<1>2. /\ job'[r].pc = "cacheAccount" /\ job'[r].clone = c /\ job'[r].pending = job[r].pending
      /\ job'[r].fills = job[r].fills /\ job'[r].accounts = job[r].accounts
  BY <1>1, GotoFields
<1>3. c.id \in Accounts
  BY <1>1 DEF Keeps, Copied, At, Syncing
<1>4. wallet'[c.id] = c /\ \A a \in Accounts \ {c.id} : wallet'[a] = wallet[a]
  BY <1>1, <1>3 DEF TypeInvariant, Typed
<1>5. Sent(r)' <=> Sent(r)
  BY <1>1 DEF Sent
<1>6. AccountsDue(r) = {c.id} \cup When(Sent(r), held) /\ AccountsUncached(r) = AccountsDue(r)
  BY <1>1 DEF AccountsDue, AccountsUncached, Dirty, When, At, Applying, Syncing
<1>7. AccountsDue(r)' = When(Sent(r), held) /\ AccountsUncached(r)' = {c.id} \cup When(Sent(r), held)
  BY <1>2, <1>5 DEF AccountsDue, AccountsUncached, Dirty, When, At, Applying, Syncing
<1>8. c = db.accounts[c.id] /\ c.version > 0
  BY <1>1 DEF Agreeing, AccountsAgree
<1> HIDE DEF held
<1>9. AccountsAgree(r)'
  BY <1>1, <1>2, <1>4, <1>6, <1>7, <1>8 DEF Agreeing, AccountsAgree, AccountsKnown, Mirrored, At
<1> QED  BY <1>1, <1>2, <1>9, AccountTurn DEF At, Syncing

LEMMA CacheAccountAgrees ==
  ASSUME AgreeInvariant, NEW r \in Requests, CacheAccount(r)
  PROVE  Agreeing(r)' /\ \A o \in Orders : Sent(o) => Sent(o)'
<1> DEFINE c == job[r].clone
           held == {a \in Accounts : job[r].accounts[a] # None}
           label == IF job[r].input.kind = "deposit" THEN "audit"
                    ELSE IF orders[r].sequence = 0 THEN "submit" ELSE "accounts"
<1>1. /\ At(r, "cacheAccount") /\ Busy(r) /\ TypeInvariant /\ Agreeing(r) /\ Keeps(r)
      /\ UNCHANGED <<wallet, orders, queue, market, auditLog, tape, db, bus>>
      /\ \/ Keep([cache EXCEPT !.accounts[c.id] = c])
         \/ "cache" \in Faults /\ UNCHANGED cache
      /\ Goto(r, label)
  BY DEF CacheAccount, At, Busy, memory, book, AgreeInvariant, LocksInvariant, FundsInvariant
<1>2. IF job[r].input.kind = "deposit" THEN orders[r] = None /\ job[r].fills = << >>
                                       ELSE orders[r] # None
  BY <1>1 DEF AgreeInvariant, LocksInvariant, NothingKept, TypeInvariant, Local, Phased, Fresh
<1>3. IF Sent(r) THEN label = "accounts"
      ELSE label = "submit" \/ (label = "audit" /\ job[r].fills = << >>)
  <2>1. CASE job[r].input.kind = "deposit"
    BY <1>2, <2>1 DEF Sent
  <2>2. CASE job[r].input.kind # "deposit"
    <3>1. orders[r].sequence \in Nat
      BY <1>1, <1>2, <2>2 DEF TypeInvariant, Typed, Order, Orders
    <3> QED  BY <1>2, <2>2, <3>1 DEF Sent
  <2> QED  BY <2>1, <2>2
<1> HIDE DEF label
<1>4. /\ job'[r].pc = label /\ job'[r].clone = c /\ job'[r].pending = job[r].pending
      /\ job'[r].fills = job[r].fills /\ job'[r].accounts = job[r].accounts
  BY <1>1, GotoFields
<1>5. c.id \in Accounts
  BY <1>1 DEF Keeps, Copied, At, Syncing
<1>6. /\ cache'.books = cache.books /\ cache'.trades = cache.trades
      /\ Mirrored => /\ cache'.accounts[c.id] = c
                     /\ \A a \in Accounts \ {c.id} : cache'.accounts[a] = cache.accounts[a]
  BY <1>1, <1>5 DEF Keep, Mirrored, TypeInvariant, Typed, Redis
<1>7. Sent(r)' <=> Sent(r)
  BY <1>1 DEF Sent
<1>8. AccountsDue(r) = When(Sent(r), held) /\ AccountsUncached(r) = {c.id} \cup When(Sent(r), held)
  BY <1>1 DEF AccountsDue, AccountsUncached, Dirty, When, At, Applying, Syncing
<1>9. AccountsDue(r)' = When(Sent(r), held) /\ AccountsUncached(r)' = When(Sent(r), held)
  BY <1>3, <1>4, <1>7 DEF AccountsDue, AccountsUncached, Dirty, When, At, Applying, Syncing
<1>10. c = wallet[c.id] /\ c.version > 0
  BY <1>1 DEF Agreeing, AccountsAgree
<1> HIDE DEF held
<1>11. AccountsAgree(r)'
  <2>1. ASSUME Mirrored, NEW a \in Accounts \ When(Sent(r), held)
        PROVE  cache'.accounts[a] = IF wallet[a].version = 0 THEN None ELSE wallet[a]
    BY <1>1, <1>6, <1>8, <1>10, <2>1 DEF Agreeing, AccountsAgree, AccountsKnown
  <2>2. \A a \in Accounts \ When(Sent(r), held) : db'.accounts[a] = wallet'[a]
    BY <1>1, <1>8 DEF Agreeing, AccountsAgree, AccountsKnown
  <2>3. AccountsKnown(AccountsDue(r), AccountsUncached(r))'
    BY <1>1, <1>9, <2>1, <2>2 DEF AccountsKnown, Mirrored
  <2> QED  BY <1>3, <1>4, <2>3 DEF AccountsAgree, At
<1> QED  BY <1>1, <1>3, <1>4, <1>6, <1>7, <1>11, AccountTurn DEF At, Syncing

LEMMA NextAccountAgrees ==
  ASSUME AgreeInvariant, NEW r \in Requests, NextAccount(r)
  PROVE  Agreeing(r)' /\ \A o \in Orders : Sent(o) => Sent(o)'
<1> DEFINE held == {a \in Accounts : job[r].accounts[a] # None}
<1>1. /\ At(r, "accounts") /\ Busy(r) /\ TypeInvariant /\ Agreeing(r) /\ Keeps(r) /\ Labelled
      /\ UNCHANGED <<wallet, orders, queue, market, auditLog, tape, db, cache, bus>>
      /\ job \in [Requests -> Job] /\ job[r] \in Job
  BY DEF NextAccount, At, Busy, memory, book, services, AgreeInvariant, LocksInvariant,
     FundsInvariant, TypeInvariant, Typed
<1>2. Sent(r) /\ (Sent(r)' <=> Sent(r))
  BY <1>1, SubmittedIsSent DEF At, Submitted, Sent
<1>3. AccountsDue(r) = held /\ AccountsUncached(r) = held
  BY <1>1, <1>2 DEF AccountsDue, AccountsUncached, Dirty, When, At, Applying, Syncing
<1>4. CASE held = {}
  <2>1. Goto(r, "orders")
    BY <1>4 DEF NextAccount
  <2>2. job'[r].pc = "orders" /\ job'[r].pending = job[r].pending /\ job'[r].fills = job[r].fills
    BY <1>1, <2>1, GotoFields
  <2>3. AccountsDue(r)' = {} /\ AccountsUncached(r)' = {}
    BY <2>2 DEF AccountsDue, AccountsUncached, Dirty, When, At, Applying, Syncing
  <2>4. AccountsAgree(r)'
    BY <1>1, <1>3, <1>4, <2>2, <2>3 DEF Agreeing, AccountsAgree, AccountsKnown, Mirrored, At
  <2> QED  BY <1>1, <2>2, <2>4, AccountTurn DEF At, Syncing
<1>5. CASE held # {}
  <2>1. PICK a \in held :
          job' = [job EXCEPT ![r].pc = "persist", ![r].clone = job[r].accounts[a],
                             ![r].accounts[a] = None]
    BY <1>5 DEF NextAccount
  <2>2. a \in Accounts /\ job[r].accounts[a] # None
    OBVIOUS
  <2>3. job[r].accounts[a] = wallet[a]
    <3>1. Dirty(r) = {}
      BY <1>1 DEF Dirty, At, Applying
    <3> QED  BY <1>1, <2>2, <3>1 DEF Keeps, Copied
  <2>4. /\ job'[r].pc = "persist" /\ job'[r].clone = job[r].accounts[a]
        /\ job'[r].pending = job[r].pending /\ job'[r].fills = job[r].fills
        /\ job'[r].accounts = [job[r].accounts EXCEPT ![a] = None]
    BY <1>1, <2>1 DEF Job
  <2>5. job'[r].clone.id = a
    BY <1>1, <2>2, <2>3, <2>4 DEF Labelled
  <2>6. {x \in Accounts : job'[r].accounts[x] # None} = held \ {a}
    BY <1>1, <2>2, <2>4 DEF Job
  <2>7. AccountsDue(r)' = held /\ AccountsUncached(r)' = held
    BY <1>2, <2>2, <2>4, <2>5, <2>6 DEF AccountsDue, AccountsUncached, Dirty, When, At, Applying, Syncing
  <2> HIDE DEF held
  <2>8. AccountsAgree(r)'
    BY <1>1, <1>3, <2>4, <2>7 DEF Agreeing, AccountsAgree, AccountsKnown, Mirrored, At
  <2> QED  BY <1>1, <2>4, <2>8, AccountTurn DEF At, Syncing
<1> QED  BY <1>4, <1>5

-----------------------------------------------------------------------------
(* The book *)

LEMMA BookTurn ==
  ASSUME AgreeInvariant, TypeInvariant', NEW r \in Requests, NEW s \in Symbols,
         job[r].pc \in {"submit", "match"}, job'[r].pc \in {"match", "loadStatus"},
         job[r].at = 0, job'[r].at = 0, job'[r].accounts = job[r].accounts,
         job'[r].pending = job[r].pending, Involved(r) \subseteq Involved(r)',
         orders[r].symbol = s, orders'[r].symbol = s, Sent(r)',
         \A o \in Orders \ Involved(r)' : orders'[o] = orders[o],
         \A o \in Orders : Sent(o) => Sent(o)', \A o \in Orders \ {r} : Sent(o)' => Sent(o),
         UNCHANGED <<wallet, market, auditLog, db, cache, bus>>,
         \A y \in Symbols \ {s} : Snapshot(orders, queue[y])' = Snapshot(orders, queue[y]),
         \A y \in Symbols \ {s} : tape'[y] = tape[y],
         tape'[s] = market[s] \o job'[r].fills
  PROVE  Agreeing(r)' /\ \A o \in Orders : Sent(o) => Sent(o)'
<1>1. /\ Busy(r) /\ Busy(r)' /\ TypeInvariant /\ AccountsAgree(r)
      /\ OrdersAgree(r) /\ StatusesAgree(r) /\ BooksAgree(r) /\ TradesAgree(r) /\ EventsAgree(r)
  <2>1. Busy(r) /\ Busy(r)'
    BY DEF Busy
  <2> QED  BY <2>1 DEF AgreeInvariant, LocksInvariant, FundsInvariant, Agreeing
<1>2. /\ job[r].fills \in Seq(Trade) /\ job'[r].fills \in Seq(Trade) /\ r \in Orders
      /\ job[r].pending \subseteq Orders
  BY <1>1 DEF TypeInvariant, Typed, Job, Orders
<1>3. (\A i \in DOMAIN job[r].fills : i > 0) /\ \A i \in DOMAIN job'[r].fills : i > 0
  <2>1. DOMAIN job[r].fills = 1..Len(job[r].fills) /\ DOMAIN job'[r].fills = 1..Len(job'[r].fills)
    BY <1>2, LenProperties
  <2> QED  BY <2>1
<1>4. AccountsAgree(r)'
  <2>1. AccountsDue(r) \subseteq AccountsDue(r)' /\ AccountsUncached(r) \subseteq AccountsUncached(r)'
    <3>1. Dirty(r) = {}
      BY <1>3 DEF Dirty, At
    <3> QED  BY <3>1 DEF AccountsDue, AccountsUncached, When, At, Applying, Syncing
  <2>2. AccountsKnown(AccountsDue(r), AccountsUncached(r))'
    BY <1>1, <2>1 DEF AccountsAgree, AccountsKnown, Mirrored
  <2> QED  BY <2>2 DEF AccountsAgree, At
<1>5. OrdersAgree(r)'
  <2>1. /\ OrdersDue(r, {"saveOrder"}) \subseteq Involved(r)
        /\ OrdersDue(r, WithRow) \subseteq Involved(r)
    BY DEF OrdersDue, When, Involved, WithRow, Applying, Syncing
  <2>2. OrdersDue(r, {"saveOrder"})' = Involved(r)' /\ OrdersDue(r, WithRow)' = Involved(r)'
    BY DEF OrdersDue, When, Involved, WithRow, Applying, Syncing
  <2>3. r \in Involved(r)'
    BY DEF Involved
  <2>4. OrdersKnown(OrdersDue(r, {"saveOrder"}), OrdersDue(r, WithRow))'
    BY <1>1, <2>1, <2>2, <2>3 DEF OrdersAgree, OrdersKnown, Mirrored
  <2>5. \A o \in job'[r].pending : Sent(o)'
    BY <1>1, <1>2 DEF OrdersAgree
  <2>6. Gathered(r)'
    BY <1>3 DEF Gathered, At
  <2> QED  BY <2>4, <2>5, <2>6 DEF OrdersAgree, WithRow
<1>6. StatusesAgree(r)'
  <2>1. StatusesDue(r) \subseteq Involved(r)
    BY DEF StatusesDue, When, Later, Involved, Makers
  <2>2. StatusesDue(r)' = Involved(r)'
    BY <1>3 DEF StatusesDue, When, Later, Involved, Makers, Applying
  <2>3. r \in Involved(r)'
    BY DEF Involved
  <2>4. StatusesSet(StatusesDue(r))'
    BY <1>1, <2>1, <2>2, <2>3 DEF StatusesAgree, StatusesSet
  <2> QED  BY <2>4 DEF StatusesAgree, At
<1>7. BooksAgree(r)'
  <2>1. BooksDue(r) \subseteq {s} /\ BooksDue(r)' = {s}
    BY <1>1 DEF BooksDue, When
  <2> QED  BY <1>1, <2>1 DEF BooksAgree, BooksKnown, Mirrored, At
<1>8. TradesAgree(r)'
  <2>1. /\ TapesDue(r) \subseteq {s} /\ TradesUnrecorded(r) = {}
        /\ TradesUnpublished(r) = {} /\ TradesUncached(r) = {}
    BY DEF TapesDue, TradesUnrecorded, TradesUnpublished, TradesUncached, When, At, Recorded, Auditing
  <2>2. /\ TapesDue(r)' = {s} /\ TradesUnrecorded(r)' = {}
        /\ TradesUnpublished(r)' = {} /\ TradesUncached(r)' = {}
    BY <1>1 DEF TapesDue, TradesUnrecorded, TradesUnpublished, TradesUncached, When, At, Recorded, Auditing
  <2>3. TapesKnown(TapesDue(r), job[r].fills)'
    BY <1>1, <2>1, <2>2 DEF TradesAgree, TapesKnown
  <2>4. TradesKnown(TradesUnrecorded(r), TradesUnpublished(r), TradesUncached(r))'
    BY <1>1, <2>1, <2>2 DEF TradesAgree, TradesKnown, Mirrored
  <2> QED  BY <2>3, <2>4 DEF TradesAgree, At
<1>9. EventsAgree(r)'
  BY <1>1, EventsPass
<1> QED  BY <1>4, <1>5, <1>6, <1>7, <1>8, <1>9 DEF Agreeing

LEMMA SubmitAgrees ==
  ASSUME AgreeInvariant, TypeInvariant', NEW r \in Requests, Submit(r)
  PROVE  Agreeing(r)' /\ \A o \in Orders : Sent(o) => Sent(o)'
<1> DEFINE o == orders[r]
           s == o.symbol
           n == seq[s] + 1
<1>1. /\ At(r, "submit") /\ Busy(r) /\ TypeInvariant /\ Goto(r, "match")
      /\ orders' = [orders EXCEPT ![r].sequence = n, ![r].remaining = o.quantity]
      /\ UNCHANGED <<wallet, market, auditLog, queue, tape, db, cache, bus>>
      /\ TradesAgree(r)
  BY DEF Submit, At, Busy, AgreeInvariant, LocksInvariant, FundsInvariant, services, Agreeing
<1>2. /\ r \in Orders /\ o \in Order /\ o # None /\ o.sequence = 0 /\ s \in Symbols
      /\ orders \in [Orders -> Order \cup {None}] /\ seq[s] \in Nat /\ market[s] \in Seq(Trade)
      /\ job[r].fills = << >> /\ job[r].at = 0
  BY <1>1, KnownOf DEF At, Unsubmitted, Local, Phased, Fresh, TypeInvariant, Typed, Order
<1>3. n \in Nat /\ n > 0
  BY <1>2
<1> HIDE DEF n
<1>4. /\ job'[r].pc = "match" /\ job'[r].at = 0 /\ job'[r].fills = << >>
      /\ job'[r].accounts = job[r].accounts /\ job'[r].pending = job[r].pending
  BY <1>1, <1>2, GotoFields
<1>5. /\ \A x \in Orders \ {r} : orders'[x] = orders[x]
      /\ orders'[r] = [o EXCEPT !.sequence = n, !.remaining = o.quantity]
  BY <1>1, <1>2
<1>6. orders'[r].sequence = n /\ orders'[r].symbol = s /\ orders'[r] # None
  <2>1. orders'[r] \in Order
    BY <1>2, <1>3, <1>5 DEF Order
  <2>2. orders'[r].sequence = n /\ orders'[r].symbol = s
    BY <1>2, <1>5 DEF Order
  <2>3. None \notin Order
    BY ExchangeAssumption
  <2> QED  BY <2>1, <2>2, <2>3
<1>7. Sent(r)' /\ ~Sent(r)
  BY <1>2, <1>3, <1>6 DEF Sent
<1>8. \A x \in Orders \ {r} : Sent(x)' <=> Sent(x)
  BY <1>5 DEF Sent
<1>9. Involved(r) = {r} /\ Involved(r)' = {r}
  BY <1>2, <1>4 DEF Involved, Makers
<1>10. \A y \in Symbols : Snapshot(orders, queue[y])' = Snapshot(orders, queue[y])
  BY <1>1, <1>5, <1>7, SnapshotsStay
<1>11. tape'[s] = market[s] \o job'[r].fills
  <2>1. TapesDue(r) = {}
    BY <1>7 DEF TapesDue, When
  <2>2. tape[s] = market[s]
    BY <1>1, <1>2, <2>1 DEF TradesAgree, TapesKnown
  <2>3. market[s] \o << >> = market[s]
    BY <1>2, ConcatEmptySeq
  <2> QED  BY <1>1, <1>4, <2>2, <2>3
<1>12. \A x \in Orders : Sent(x) => Sent(x)'
  BY <1>7, <1>8
<1>13. PICK y \in Symbols : y = s
  BY <1>2
<1>14. /\ orders[r].symbol = y /\ orders'[r].symbol = y
       /\ tape'[y] = market[y] \o job'[r].fills /\ \A x \in Symbols \ {y} : tape'[x] = tape[x]
  BY <1>1, <1>6, <1>11, <1>13
<1> QED  BY ZenonT(40), <1>1, <1>2, <1>4, <1>5, <1>7, <1>8, <1>9, <1>10, <1>12, <1>13, <1>14,
            BookTurn DEF At

LEMMA MatchAgrees ==
  ASSUME AgreeInvariant, TypeInvariant', NEW r \in Requests, Match(r)
  PROVE  Agreeing(r)' /\ \A o \in Orders : Sent(o) => Sent(o)'
<1> DEFINE s == orders[r].symbol
           away == Opposite(orders[r].side)
           q == queue[s][away]
           maker == Head(q)
           n == FillQuantity(orders, r, maker)
           fill == FillOf(orders, r, maker)
<1>1. /\ At(r, "match") /\ Busy(r) /\ TypeInvariant /\ Labelled /\ FundsInvariant
      /\ queue' = [queue EXCEPT ![s] = AfterFill(orders, queue[s], r, maker)]
      /\ tape' = [tape EXCEPT ![s] = Append(tape[s], fill)]
      /\ job' = [job EXCEPT ![r] = [job[r] EXCEPT !.fills = Append(job[r].fills, fill)]]
      /\ UNCHANGED <<wallet, market, auditLog, db, cache, bus>>
      /\ TradesAgree(r)
  BY SMTT(40) DEF Match, At, Busy, AgreeInvariant, LocksInvariant, FundsInvariant, services,
     Agreeing
<1>2. /\ job \in [Requests -> Job] /\ job[r] \in Job /\ r \in Orders /\ orders[r] \in Order
      /\ orders[r] # None /\ job[r].at = 0 /\ Sent(r)
      /\ queue \in [Symbols -> [Sides -> Seq(Orders)]] /\ tape \in [Symbols -> Seq(Trade)]
      /\ market \in [Symbols -> Seq(Trade)]
  BY ZenonT(40), <1>1, KnownOf, SubmittedIsSent DEF At, Submitted, TypeInvariant, Typed, Local,
     Positioned
<1>3. /\ s \in Symbols /\ away \in Sides /\ maker \in Range(q)
      /\ maker \in Orders /\ maker # r /\ orders[maker] \in Order /\ orders[maker] # None
      /\ \A o \in Orders \ {r, maker} : orders'[o] = orders[o]
      /\ orders'[maker] = [orders[maker] EXCEPT !.remaining = @ - n]
      /\ orders'[r] = [orders[r] EXCEPT !.remaining = @ - n]
      /\ orders'[maker] \in Order /\ orders'[r] \in Order
      /\ fill \in Trade /\ fill.maker = maker
  BY ZenonT(40), <1>1, MatchFacts
<1>4. orders[maker].symbol = s
  BY ZenonT(40), <1>1, <1>3 DEF Labelled
<1>5. Sent(maker)
  <2>1. maker \in Requests => orders[maker].sequence > 0
    BY ZenonT(40), <1>1, <1>3 DEF TypeInvariant, Resting
  <2> QED  BY ZenonT(40), <1>3, <2>1 DEF Sent, AgreeInvariant
<1> HIDE DEF maker, n, fill, q, away
<1>6. /\ job'[r].pc = "match" /\ job'[r].at = 0 /\ job'[r].fills = Append(job[r].fills, fill)
      /\ job'[r].accounts = job[r].accounts /\ job'[r].pending = job[r].pending
  <2>1. job'[r] = [job[r] EXCEPT !.fills = Append(job[r].fills, fill)]
    BY <1>1, <1>2
  <2> QED  BY <1>1, <1>2, <2>1 DEF Job, At
<1>7. \A o \in Orders : orders'[o] = orders[o] \/ o \in {r, maker}
  BY <1>3
<1>8. \A o \in {r, maker} :
        /\ orders'[o].symbol = s /\ orders'[o].sequence = orders[o].sequence /\ orders'[o] # None
        /\ Sent(o) /\ Sent(o)'
  <2>1. /\ orders'[maker].sequence = orders[maker].sequence /\ orders'[maker].symbol = s
        /\ orders'[r].sequence = orders[r].sequence /\ orders'[r].symbol = s
    BY <1>2, <1>3, <1>4 DEF Order
  <2>2. orders'[maker] # None /\ orders'[r] # None
    BY <1>3, ExchangeAssumption
  <2> QED  BY <1>2, <1>5, <2>1, <2>2 DEF Sent
<1>9. \A o \in Orders : Sent(o)' <=> Sent(o)
  BY <1>7, <1>8 DEF Sent
<1>10. Involved(r)' = Involved(r) \cup {maker}
  <2>1. job[r].fills \in Seq(Trade)
    BY <1>2 DEF Job
  <2>2. /\ DOMAIN job'[r].fills = 1..(Len(job[r].fills) + 1) /\ DOMAIN job[r].fills = 1..Len(job[r].fills)
        /\ \A i \in 1..Len(job[r].fills) : job'[r].fills[i] = job[r].fills[i]
        /\ job'[r].fills[Len(job[r].fills) + 1] = fill
        /\ Len(job[r].fills) \in Nat
    BY <1>3, <1>6, <2>1, AppendProperties, LenProperties
  <2>3. \A i \in 1..(Len(job[r].fills) + 1) : i \in 1..Len(job[r].fills) \/ i = Len(job[r].fills) + 1
    BY <2>2
  <2>4. Len(job[r].fills) + 1 \in 1..(Len(job[r].fills) + 1) /\ 1..Len(job[r].fills) \subseteq 1..(Len(job[r].fills) + 1)
    BY <2>2
  <2>5. \A x : x \in Makers(r)' <=> x \in Makers(r) \/ x = maker
    <3>1. \A i \in DOMAIN job'[r].fills :
            job'[r].fills[i].maker \in Makers(r) \/ job'[r].fills[i].maker = maker
      BY <1>3, <2>2, <2>3 DEF Makers
    <3>2. \A i \in DOMAIN job[r].fills : job[r].fills[i].maker \in Makers(r)'
      BY <2>2, <2>4 DEF Makers
    <3>3. maker \in Makers(r)'
      BY <1>3, <2>2, <2>4 DEF Makers
    <3> QED  BY <3>1, <3>2, <3>3 DEF Makers
  <2> QED  BY <2>5 DEF Involved
<1>11. \A y \in Symbols \ {s} : Snapshot(orders, queue[y])' = Snapshot(orders, queue[y])
  <2>1. \A y \in Symbols \ {s} : queue'[y] = queue[y]
    BY <1>1, <1>2
  <2>2. \A o \in Orders : orders'[o] = orders[o] \/ orders[o].symbol = s
    BY SMTT(40), <1>4, <1>7
  <2> HIDE DEF s
  <2> QED  BY <1>1, <2>1, <2>2, BooksKept
<1>12. tape'[s] = market[s] \o job'[r].fills /\ \A y \in Symbols \ {s} : tape'[y] = tape[y]
  <2>1. TapesDue(r) = {s}
    BY <1>1, <1>2 DEF TapesDue, When, At, Recorded, Auditing
  <2>2. tape[s] = market[s] \o job[r].fills
    BY <1>1, <1>3, <2>1 DEF TradesAgree, TapesKnown
  <2>3. job[r].fills \in Seq(Trade) /\ market[s] \in Seq(Trade)
    BY <1>2, <1>3 DEF Job
  <2>4. Append(market[s] \o job[r].fills, fill) = market[s] \o Append(job[r].fills, fill)
    <3> DEFINE m == market[s]
               f == job[r].fills
    <3>1. fill \in Trade /\ m \in Seq(Trade) /\ f \in Seq(Trade)
      BY <1>3, <2>3
    <3> HIDE DEF m, f
    <3>2. <<fill>> \in Seq(Trade) /\ m \o f \in Seq(Trade)
      BY ONLY <3>1, SMT, ConcatProperties
    <3>3. (m \o f) \o <<fill>> = m \o (f \o <<fill>>)
      BY ONLY <3>1, <3>2, ConcatAssociative
    <3>4. Append(f, fill) = f \o <<fill>> /\ Append(m \o f, fill) = (m \o f) \o <<fill>>
      BY ONLY <3>1, <3>2, AppendIsConcat
    <3> QED  BY ZenonT(40), <3>3, <3>4 DEF m, f
  <2> QED  BY ZenonT(40), <1>1, <1>2, <1>3, <1>6, <2>2, <2>4
<1>13. \A o \in Orders \ Involved(r)' : orders'[o] = orders[o]
  BY <1>7, <1>10 DEF Involved
<1>14. Sent(r)' /\ orders'[r].symbol = s
  BY <1>8
<1>15. PICK t \in Symbols : t = s
  BY <1>3
<1> QED  BY <1>1, <1>2, <1>6, <1>9, <1>10, <1>11, <1>12, <1>13, <1>14, <1>15, BookTurn DEF At

LEMMA FinishAgrees ==
  ASSUME AgreeInvariant, TypeInvariant', NEW r \in Requests, Finish(r)
  PROVE  Agreeing(r)' /\ \A o \in Orders : Sent(o) => Sent(o)'
<1> DEFINE s == orders[r].symbol
<1>1. /\ At(r, "match") /\ Busy(r) /\ TypeInvariant /\ Labelled /\ Goto(r, "loadStatus")
      /\ UNCHANGED <<wallet, orders, market, auditLog, tape, db, cache, bus>>
      /\ TradesAgree(r)
  BY DEF Finish, At, Busy, AgreeInvariant, LocksInvariant, FundsInvariant, memory, services, Agreeing
<1>2. /\ r \in Orders /\ orders[r] \in Order /\ job[r].at = 0 /\ Sent(r) /\ s \in Symbols
      /\ queue \in [Symbols -> [Sides -> Seq(Orders)]]
  BY <1>1, KnownOf, SubmittedIsSent DEF At, Submitted, TypeInvariant, Typed, Local, Positioned, Order
<1>3. /\ job'[r].pc = "loadStatus" /\ job'[r].at = 0 /\ job'[r].fills = job[r].fills
      /\ job'[r].accounts = job[r].accounts /\ job'[r].pending = job[r].pending
  BY <1>1, <1>2, GotoFields
<1>4. \A y \in Symbols \ {s} : queue'[y] = queue[y]
  <2>1. CASE ~(orders[r].remaining > 0)
    BY <2>1 DEF Finish
  <2>2. CASE orders[r].remaining > 0
    <3>1. PICK k : queue' = [queue EXCEPT ![s] = Joined(queue[s], orders[r].side, r, k)]
      BY <2>2 DEF Finish
    <3> QED  BY <1>2, <3>1
  <2> QED  BY <2>1, <2>2
<1>5. \A o \in Orders : Sent(o)' <=> Sent(o)
  BY <1>1 DEF Sent
<1>6. Involved(r)' = Involved(r)
  BY <1>3 DEF Involved, Makers
<1>7. tape'[s] = market[s] \o job'[r].fills
  <2>1. TapesDue(r) = {s}
    BY <1>1, <1>2 DEF TapesDue, When, At, Recorded, Auditing
  <2> QED  BY <1>1, <1>2, <1>3, <2>1 DEF TradesAgree, TapesKnown
<1> HIDE DEF s
<1>8. \A y \in Symbols \ {s} : Snapshot(orders, queue[y])' = Snapshot(orders, queue[y])
  BY <1>1, <1>4, BooksKept
<1> QED  BY <1>1, <1>2, <1>3, <1>5, <1>6, <1>7, <1>8, BookTurn DEF At, s

-----------------------------------------------------------------------------
(* A request comes in *)

LEMMA AcceptAgrees ==
  ASSUME Serial, AgreeInvariant, NEW r \in Requests, Accept(r)
  PROVE  Agreeing(r)' /\ \A o \in Orders : Sent(o) => Sent(o)'
<1>1. TypeInvariant /\ Quiet /\ Agreed /\ At(r, "idle")
  BY AcceptedAlone DEF AgreeInvariant, LocksInvariant, FundsInvariant, Accept
<1>2. /\ job \in [Requests -> Job] /\ job[r] = Idle /\ job[r] \in Job /\ orders[r] = None /\ r \in Orders
      /\ orders \in [Orders -> Order \cup {None}]
  BY <1>1, IdleTyped DEF TypeInvariant, Typed, Local, Phased, Orders
<1>3. PICK in \in Inputs : Deposit(r, in) \/ PlaceOrder(r, in)
  BY DEF Accept
<1>4. UNCHANGED <<wallet, queue, market, auditLog, tape, db, cache, bus>>
  BY <1>3 DEF Deposit, PlaceOrder, memory, book, services
<1>5. job'[r].pc \in {"reserve", "persist", "failed"} /\ job'[r].pending = {} /\ job'[r].fills = << >>
  <2>1. CASE job' = [job EXCEPT ![r].pc = "failed", ![r].input = in]
    BY <1>2, <2>1 DEF Idle
  <2>2. CASE job' = [job EXCEPT ![r].pc = "reserve", ![r].input = in]
    BY <1>2, <2>2 DEF Idle
  <2>3. CASE job' = [job EXCEPT ![r].pc = "persist", ![r].input = in,
                       ![r].clone = Crediting(wallet[in.account], in.asset, in.amount)]
    <3> DEFINE c == Crediting(wallet[in.account], in.asset, in.amount)
    <3>1. job' = [job EXCEPT ![r].pc = "persist", ![r].input = in, ![r].clone = c]
      BY <2>3
    <3> HIDE DEF c
    <3> QED  BY <1>2, <3>1 DEF Idle
  <2> QED  BY <1>3, <2>1, <2>2, <2>3 DEF Deposit, PlaceOrder
<1>6. /\ \A o \in Orders \ {r} : orders'[o] = orders[o]
      /\ orders'[r] # None => orders'[r].sequence = 0
  BY <1>2, <1>3 DEF Deposit, PlaceOrder, NewOrder, memory
<1>7. ~Sent(r) /\ ~Sent(r)' /\ \A o \in Orders : Sent(o)' <=> Sent(o)
  BY <1>2, <1>6 DEF Sent
<1>8. AccountsAgree(r)'
  BY <1>1, <1>4, <1>5 DEF Agreed, AccountsAgree, AccountsKnown, Mirrored, At
<1>9. OrdersAgree(r)'
  <2>1. OrdersKnown(OrdersDue(r, {"saveOrder"}), OrdersDue(r, WithRow))'
    <3>1. \A o \in Orders : Sent(o) => orders'[o] = orders[o]
      BY <1>6, <1>7
    <3> QED  BY <1>1, <1>4, <1>7, <3>1 DEF Agreed, OrdersKnown, Mirrored
  <2> QED  BY <1>5, <2>1 DEF OrdersAgree, Gathered, Applying, WithRow
<1>10. StatusesAgree(r)'
  <2>1. StatusesSet(StatusesDue(r))'
    BY <1>1, <1>6, <1>7 DEF Agreed, StatusesSet
  <2> QED  BY <1>5, <2>1 DEF StatusesAgree, At
<1>11. BooksAgree(r)'
  <2>1. \A y \in Symbols : Snapshot(orders, queue[y])' = Snapshot(orders, queue[y])
    BY <1>1, <1>4, <1>6, <1>7, SnapshotsStay
  <2> QED  BY <1>1, <1>4, <1>5, <2>1 DEF Agreed, BooksAgree, BooksKnown, Mirrored, At
<1>12. TradesAgree(r)'
  <2>1. /\ TapesDue(r)' = {} /\ TradesUnrecorded(r)' = {} /\ TradesUnpublished(r)' = {}
    BY <1>5, <1>7 DEF TapesDue, TradesUnrecorded, TradesUnpublished, When, At, Auditing
  <2>2. TapesKnown(TapesDue(r), job[r].fills)'
    BY <1>1, <1>4, <2>1 DEF Agreed, TapesKnown
  <2>3. TradesKnown(TradesUnrecorded(r), TradesUnpublished(r), TradesUncached(r))'
    BY <1>1, <1>4, <2>1 DEF Agreed, TradesKnown, Mirrored
  <2> QED  BY <1>5, <2>2, <2>3 DEF TradesAgree, At
<1>13. EventsAgree(r)'
  <2>1. EventDue(r, "saveAudit")' = {} /\ EventDue(r, "publishAudit")' = {}
    BY <1>5 DEF EventDue, When, At
  <2> QED  BY <1>1, <1>4, <2>1 DEF Agreed, EventsAgree, EventsKnown, Mirrored
<1> QED  BY <1>7, <1>8, <1>9, <1>10, <1>11, <1>12, <1>13 DEF Agreeing

-----------------------------------------------------------------------------
(* Everybody agrees *)

LEMMA AgreeInit ==
  ASSUME Serial, Funded, Numbered, Init PROVE AgreeInvariant
<1>1. LocksInvariant
  BY LocksInit
<1>2. /\ wallet = InitialAccounts
      /\ orders = [o \in Orders |-> IF o \in Requests THEN None ELSE OpenOrders[o]]
      /\ market = [s \in Symbols |-> << >>] /\ tape = [s \in Symbols |-> << >>]
      /\ auditLog = {}
      /\ db = [accounts |-> InitialAccounts, orders |-> orders, trades |-> {}, audit |-> {}]
      /\ cache = IF "cache" \notin Wired THEN ColdCache ELSE
           [accounts |-> [a \in Accounts |-> IF InitialAccounts[a].version = 0
                                              THEN None ELSE InitialAccounts[a]],
            books |-> [s \in Symbols |-> Snapshot(orders, queue[s])],
            trades |-> [s \in Symbols |-> << >>]]
      /\ bus = [orders |-> [o \in Orders |-> None], trades |-> {}, audit |-> {}]
      /\ job = [r \in Requests |-> Idle]
  BY DEF Init, NewExchange
<1>3. \A o \in Orders \ Requests : Sent(o) /\ orders[o] = OpenOrders[o]
  <2> SUFFICES ASSUME NEW o \in Orders \ Requests PROVE Sent(o) /\ orders[o] = OpenOrders[o]
    OBVIOUS
  <2>1. o \in DOMAIN OpenOrders /\ orders[o] = OpenOrders[o]
    BY <1>2 DEF Orders
  <2>2. OpenOrders[o] # None
    BY <2>1, ExchangeAssumption
  <2> QED  BY <2>1, <2>2 DEF Numbered, Sent
<1>4. \A r \in Requests : orders[r] = None /\ ~Sent(r) /\ ~Busy(r)
  BY <1>2 DEF Sent, Busy, Idle, Orders
<1>5. AccountsKnown({}, {})
  BY <1>2 DEF AccountsKnown, Mirrored
<1>6. OrdersKnown({}, {})
  <2>1. \A o \in Orders : db.orders[o] = IF Sent(o) THEN orders[o] ELSE None
    BY <1>2, <1>3, <1>4
  <2>2. \A o \in Orders : Sent(o) => bus.orders[o] = None /\ o \notin Requests /\ orders[o] = OpenOrders[o]
    BY <1>2, <1>3, <1>4
  <2> QED  BY <2>1, <2>2 DEF OrdersKnown
<1>7. StatusesSet({})
  <2> SUFFICES ASSUME NEW o \in Orders, Sent(o) PROVE orders[o].status = Status(orders[o])
    BY DEF StatusesSet
  <2>1. o \in DOMAIN OpenOrders /\ orders[o] = OpenOrders[o]
    BY <1>3, <1>4 DEF Orders
  <2> QED  BY <2>1 DEF Numbered
<1>8. Mirrored => BooksKnown({})
  BY <1>2 DEF Mirrored, BooksKnown
<1>9. TapesKnown({}, << >>) /\ TradesKnown({}, {}, {})
  <2>1. \A s \in Symbols : Range(market[s]) = {}
    BY <1>2 DEF Range
  <2>2. UNION {Range(market[s]) : s \in Symbols} = {}
    BY <2>1
  <2> QED  BY <1>2, <2>2 DEF TapesKnown, TradesKnown, Mirrored
<1>10. EventsKnown({}, {})
  BY <1>2 DEF EventsKnown
<1> QED  BY <1>1, <1>3, <1>4, <1>5, <1>6, <1>7, <1>8, <1>9, <1>10 DEF AgreeInvariant, Agreed

(* A goroutine's step moves that goroutine only. *)
LEMMA OthersStand ==
  ASSUME TypeInvariant, NEW r \in Requests, Accept(r) \/ Serve(r)
  PROVE  \A q \in Requests \ {r} : job'[q] = job[q]
<1>1. job \in [Requests -> Job]
  BY DEF TypeInvariant, Typed
<1>2. CASE Accept(r)
  BY <1>1, <1>2 DEF Accept, Deposit, PlaceOrder
<1>3. CASE Elsewhere(r)
  BY <1>3, PlainSteps DEF Plain, Departs
<1>4. CASE GetReserved(r) \/ ReplaceAccount(r) \/ CacheAccount(r)
  BY <1>1, <1>4 DEF GetReserved, ReplaceAccount, CacheAccount, Goto
<1>5. CASE PersistAccount(r)
  BY <1>1, <1>5 DEF PersistAccount, Goto, Fail, Return
<1>6. CASE Collect(r)
  BY <1>6, CollectFacts
<1>7. CASE NextAccount(r)
  BY <1>1, <1>7 DEF NextAccount, Goto
<1> QED  BY <1>2, <1>3, <1>4, <1>5, <1>6, <1>7 DEF Serve, Elsewhere

LEMMA AgreeServe ==
  ASSUME Serial, Funded, Dependable, Turns, AgreeInvariant, TypeInvariant', NEW r \in Requests, Serve(r)
  PROVE  Solo(r) /\ Agreeing(r)' /\ \A o \in Orders : Sent(o) => Sent(o)'
<1>1. TypeInvariant /\ FundsInvariant /\ LocksInvariant
  BY DEF AgreeInvariant, LocksInvariant, FundsInvariant
<1>2. CASE Reserve(r) \/ GetReserved(r) \/ PersistAccount(r) \/ ReplaceAccount(r) \/ CacheAccount(r)
             \/ NextAccount(r)
  <2>1. Busy(r)
    BY ZenonT(40), <1>2 DEF Reserve, GetReserved, PersistAccount, ReplaceAccount, CacheAccount,
       NextAccount, At,
       Busy
  <2> QED  BY <1>1, <1>2, <2>1, BusyIsSolo, ReserveAgrees, GetReservedAgrees, PersistAccountAgrees,
           ReplaceAccountAgrees, CacheAccountAgrees, NextAccountAgrees
<1>3. CASE Submit(r) \/ Match(r) \/ Finish(r)
  <2>1. Busy(r)
    BY <1>3 DEF Submit, Match, Finish, At, Busy
  <2> QED  BY SMTT(40), <1>1, <1>3, <2>1, BusyIsSolo, SubmitAgrees, MatchAgrees, FinishAgrees
<1>4. CASE Settles(r)
  <2>1. Busy(r)
    BY <1>1, <1>4, SettlesFrame DEF Applying, Busy
  <2> QED  BY <1>1, <1>4, <2>1, BusyIsSolo, LoadStatusAgrees, StoreStatusAgrees, CollectAgrees,
           SettleAgrees, LoadReservedAgrees, AdjustAgrees, FreesAgrees DEF Settles, Frees
<1>5. CASE Reports(r)
  <2>1. Busy(r) /\ Solo(r) /\ orders' = orders
    BY <1>1, <1>5, ReportsPass, BusyIsSolo
  <2>2. Agreeing(r)
    BY <2>1 DEF AgreeInvariant
  <2>3. Agreeing(r)'
    BY <1>1, <1>5, <2>2, OrderRows, PersistTradesAgrees, RecordAgrees, EventSteps, CacheSteps
       DEF Reports
  <2> QED  BY <2>1, <2>3 DEF Sent
<1> QED  BY <1>2, <1>3, <1>4, <1>5 DEF Serve, Settles, Reports

LEMMA AgreeStutter ==
  ASSUME AgreeInvariant, LocksInvariant', UNCHANGED vars PROVE AgreeInvariant'
<1>1. UNCHANGED <<wallet, orders, market, auditLog, queue, tape, db, cache, bus, job>>
  BY DEF vars, memory, book, services
<1>2. \A o : Sent(o)' <=> Sent(o)
  BY <1>1 DEF Sent
<1>3. ASSUME NEW r \in Requests, Busy(r) PROVE Agreeing(r)'
  <2>1. Agreeing(r)
    BY SMTT(40), <1>3 DEF AgreeInvariant
  <2>2. AccountsAgree(r)'
    BY <1>1, <2>1 DEF Agreeing, AccountsAgree, AccountsKnown, AccountsDue, AccountsUncached, Dirty,
       When, At, Fill, Sent, Mirrored
  <2>3. OrdersAgree(r)'
    <3>1. OrdersAgree(r) /\ Makers(r)' = Makers(r)
      BY <1>1, <2>1 DEF Agreeing, Makers
    <3>2. \A rows : OrdersDue(r, rows)' = OrdersDue(r, rows)
      BY <1>1, <1>2, <3>1 DEF OrdersDue, When
    <3>3. OrdersKnown(OrdersDue(r, {"saveOrder"}), OrdersDue(r, WithRow))'
      BY <1>1, <1>2, <3>1, <3>2 DEF OrdersAgree, OrdersKnown, Mirrored
    <3>4. Gathered(r)'
      BY <1>1, <3>1 DEF OrdersAgree, Gathered, At
    <3> QED  BY <1>1, <1>2, <3>1, <3>3, <3>4 DEF OrdersAgree
  <2>4. StatusesAgree(r)'
    BY ZenonT(40), <1>1, <2>1 DEF Agreeing, StatusesAgree, StatusesSet, StatusesDue, When, At,
       Sent, Subject, Fill
  <2>5. BooksAgree(r)'
    BY <1>1, <2>1 DEF Agreeing, BooksAgree, BooksKnown, BooksDue, When, At, Sent, Busy, Mirrored
  <2>6. TradesAgree(r)'
    BY <1>1, <2>1 DEF Agreeing, TradesAgree, TapesKnown, TapesDue, TradesKnown, TradesUnrecorded,
       TradesUnpublished, TradesUncached, When, At, Sent, Busy, Mirrored
  <2>7. EventsAgree(r)'
    BY <1>1, <2>1 DEF Agreeing, EventsAgree, EventsKnown, EventDue, Event, When, At, Mirrored
  <2> QED  BY <2>2, <2>3, <2>4, <2>5, <2>6, <2>7 DEF Agreeing
<1>4. ASSUME Quiet PROVE Agreed'
  <2>1. Agreed
    BY <1>4 DEF AgreeInvariant
  <2>2. AccountsKnown({}, {})' /\ OrdersKnown({}, {})' /\ StatusesSet({})'
    BY <1>1, <1>2, <2>1 DEF Agreed, AccountsKnown, OrdersKnown, StatusesSet, Mirrored
  <2>3. Mirrored => BooksKnown({})'
    BY <1>1, <2>1 DEF Agreed, BooksKnown
  <2>4. TapesKnown({}, << >>)' /\ TradesKnown({}, {}, {})' /\ EventsKnown({}, {})'
    BY <1>1, <2>1 DEF Agreed, TapesKnown, TradesKnown, EventsKnown, Mirrored
  <2> QED  BY <2>2, <2>3, <2>4 DEF Agreed, Mirrored
<1>5. (Quiet' => Quiet) /\ \A r \in Requests : Busy(r)' => Busy(r)
  BY <1>1 DEF Quiet, Busy
<1> QED  BY <1>2, <1>3, <1>4, <1>5 DEF AgreeInvariant

LEMMA AgreeStep ==
  ASSUME Serial, Funded, Dependable, Turns, AgreeInvariant, [Next]_vars PROVE AgreeInvariant'
<1>1. LocksInvariant' /\ TypeInvariant'
  BY LocksStep DEF Dependable, Writable, AgreeInvariant, LocksInvariant, FundsInvariant
<1>2. ASSUME UNCHANGED vars PROVE AgreeInvariant'
  BY <1>1, <1>2, AgreeStutter
<1>3. ASSUME NEW r \in Requests, Accept(r) PROVE AgreeInvariant'
  <2>1. TypeInvariant /\ Solo(r)
    BY <1>3, AcceptedAlone, QuietIsSolo DEF AgreeInvariant, LocksInvariant, FundsInvariant
  <2>2. \A q \in Requests \ {r} : job'[q] = job[q]
    BY <1>3, <2>1, OthersStand
  <2> QED  BY <1>1, <1>3, <2>1, <2>2, AcceptAgrees, AgreeTurn
<1>4. ASSUME NEW r \in Requests, Serve(r) PROVE AgreeInvariant'
  <2>1. TypeInvariant
    BY DEF AgreeInvariant, LocksInvariant, FundsInvariant
  <2>2. \A q \in Requests \ {r} : job'[q] = job[q]
    BY <1>4, <2>1, OthersStand
  <2> QED  BY <1>1, <1>4, <2>2, AgreeServe, AgreeTurn
<1> QED  BY <1>2, <1>3, <1>4 DEF Next, AllAnswered

(* Between requests the store holds what memory holds: every account, the  *)
(* last version of every order, every trade and every event; and the       *)
(* orders of the books have the status of what is left of them.            *)
THEOREM StoreHoldsMemory == Serial /\ Funded /\ Dependable /\ Numbered => (Spec => []StoreAgrees)
<1> SUFFICES ASSUME Serial, Funded, Dependable, Numbered PROVE Spec => []StoreAgrees
  OBVIOUS
<1>1. Init => AgreeInvariant
  BY AgreeInit
<1>2. Turns /\ AgreeInvariant /\ [Next]_vars => AgreeInvariant'
  BY AgreeStep
<1>3. AgreeInvariant => StoreAgrees
  <2> SUFFICES ASSUME AgreeInvariant, Quiet PROVE StoreAgrees
    BY DEF StoreAgrees
  <2>1. Agreed /\ TypeInvariant
    BY DEF AgreeInvariant, LocksInvariant, FundsInvariant
  <2>2. db.accounts \in [Accounts -> Solvent] /\ wallet \in [Accounts -> Solvent]
    BY <2>1 DEF TypeInvariant, Typed, Database
  <2>3. db.accounts = wallet
    BY <2>1, <2>2 DEF Agreed, AccountsKnown
  <2>4. \A o \in Orders :
          db.orders[o] = IF orders[o] # None /\ orders[o].sequence > 0 THEN orders[o] ELSE None
    BY <2>1 DEF Agreed, OrdersKnown, Sent
  <2>5. ASSUME NEW o \in Orders, InBook(o) PROVE orders[o].status = Status(orders[o])
    <3>1. orders[o] # None /\ (o \in Requests => orders[o].sequence > 0)
      BY <2>1, <2>5 DEF InBook, TypeInvariant, Resting
    <3>2. Sent(o)
      BY <3>1 DEF Sent, AgreeInvariant
    <3> QED  BY <2>1, <3>2 DEF Agreed, StatusesSet
  <2>6. market = tape
    BY <2>1 DEF Agreed, TapesKnown, TypeInvariant, Typed
  <2>7. db.trades = UNION {Range(market[s]) : s \in Symbols} /\ db.audit = auditLog
    BY <2>1 DEF Agreed, TradesKnown, EventsKnown
  <2> QED  BY <2>3, <2>4, <2>5, <2>6, <2>7 DEF StoreAgrees
<1>4. Spec => []Turns
  BY TakesTurns
<1> QED  BY <1>1, <1>2, <1>3, <1>4, PTL DEF Spec

(* Between requests a reader of the cache sees the accounts, the books and *)
(* the trades of the exchange, and a consumer of the topics has received   *)
(* the last version of every order, every trade and every event.           *)
THEOREM ReadersSeeMemory ==
  Serial /\ Funded /\ Dependable /\ Mirrored /\ Numbered => (Spec => []ReadersAgree)
<1> SUFFICES ASSUME Serial, Funded, Dependable, Mirrored, Numbered PROVE Spec => []ReadersAgree
  OBVIOUS
<1>1. Init => AgreeInvariant
  BY AgreeInit
<1>2. Turns /\ AgreeInvariant /\ [Next]_vars => AgreeInvariant'
  BY AgreeStep
<1>3. AgreeInvariant => ReadersAgree
  <2> SUFFICES ASSUME AgreeInvariant, Quiet PROVE ReadersAgree
    BY DEF ReadersAgree
  <2>1. Agreed
    BY DEF AgreeInvariant
  <2>2. \A a \in Accounts : cache.accounts[a] = IF wallet[a].version = 0 THEN None ELSE wallet[a]
    BY <2>1 DEF Agreed, AccountsKnown
  <2>3. \A s \in Symbols : cache.books[s] = Snapshot(orders, queue[s]) /\ cache.trades[s] = market[s]
    BY <2>1 DEF Agreed, BooksKnown, TradesKnown
  <2>4. \A o \in Orders : db.orders[o] # None =>
          IF bus.orders[o] = None THEN o \notin Requests /\ orders[o] = OpenOrders[o]
                                  ELSE bus.orders[o] = orders[o]
    BY <2>1 DEF Agreed, OrdersKnown
  <2>5. bus.trades = db.trades /\ bus.audit = db.audit
    BY <2>1 DEF Agreed, TradesKnown, EventsKnown
  <2> QED  BY <2>2, <2>3, <2>4, <2>5 DEF ReadersAgree
<1>4. Spec => []Turns
  BY TakesTurns
<1> QED  BY <1>1, <1>2, <1>3, <1>4, PTL DEF Spec

=============================================================================
