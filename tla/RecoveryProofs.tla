--------------------------- MODULE RecoveryProofs ---------------------------
(***************************************************************************)
(* What every start gives back, however often and wherever the process     *)
(* was stopped: typed memory that agrees with the store, and no negative   *)
(* balance as long as requests take turns.                                 *)
(***************************************************************************)
EXTENDS RecoveryProperties, ExchangeTypes

-----------------------------------------------------------------------------
(* RebuildReservations goes through the open orders one by one *)

(* iter of the fold in Rebuilt. *)
IsRelocking(g, base, ids) ==
  g = [s \in SUBSET DOMAIN ids |->
         IF s = {} THEN base ELSE Relocked(g[s \ {Max(s)}], ids[Max(s)])]

LEMMA RelockingExists ==
  ASSUME NEW D, NEW ids \in Seq(D), NEW base
  PROVE  \E g : IsRelocking(g, base, ids)
<1> DEFINE S == DOMAIN ids
           Next1(g) == [s \in SUBSET S |->
             IF s = {} THEN base ELSE Relocked(g[s \ {Max(s)}], ids[Max(s)])]
           Upto(g, n) == \A s \in SUBSET S : Cardinality(s) <= n => g[s] = Next1(g)[s]
           Good == {n \in Nat : \E g : Upto(g, n)}
<1>1. S \subseteq Nat /\ IsFiniteSet(S)
  BY FS_Interval
<1>2. \A s \in SUBSET S : IsFiniteSet(s) /\ Cardinality(s) \in Nat
  BY <1>1, FS_Subset, FS_CardinalityType
<1>3. \A s \in SUBSET S : s # {} => Max(s) \in s
  BY <1>1, <1>2, LargestNatural
<1>4. \A s \in SUBSET S : s # {} => Cardinality(s \ {Max(s)}) = Cardinality(s) - 1
  BY <1>2, <1>3, FS_RemoveElement
<1>5. 0 \in Good
  <2> DEFINE g == [s \in SUBSET S |-> base]
  <2>1. \A s \in SUBSET S : Cardinality(s) <= 0 => s = {}
    BY <1>2, FS_EmptySet
  <2>2. Upto(g, 0)
    BY <2>1
  <2> QED  BY <2>2
<1>6. ASSUME NEW n \in Nat, n \in Good PROVE n + 1 \in Good
  <2>1. PICK g : Upto(g, n)
    BY <1>6
  <2>2. ASSUME NEW s \in SUBSET S, Cardinality(s) <= n + 1
        PROVE  Next1(g)[s] = Next1(Next1(g))[s]
    <3>1. CASE s = {}
      BY <3>1
    <3>2. CASE s # {}
      <4> DEFINE t == s \ {Max(s)}
      <4>1. t \in SUBSET S /\ Cardinality(t) <= n
        BY <1>2, <1>4, <2>2, <3>2
      <4>2. g[t] = Next1(g)[t]
        BY <2>1, <4>1
      <4> QED  BY <3>2, <4>1, <4>2
    <3> QED  BY <3>1, <3>2
  <2>3. Upto(Next1(g), n + 1)
    BY <2>2
  <2> HIDE DEF Next1, Upto
  <2> QED  BY <2>3
<1>7. Cardinality(S) \in Good
  <2> HIDE DEF Good
  <2>1. Nat \subseteq Good  BY <1>5, <1>6, NaturalInduction
  <2> QED  BY <1>2, <2>1
<1>8. PICK g : Upto(g, Cardinality(S))
  BY <1>7
<1>9. \A s \in SUBSET S : Cardinality(s) <= Cardinality(S)
  BY <1>1, FS_Subset
<1>10. \A s \in SUBSET S : g[s] = Next1(g)[s]
  BY <1>8, <1>9
<1>11. Next1(g) = Next1(Next1(g))
  <2> SUFFICES ASSUME NEW s \in SUBSET S PROVE Next1(g)[s] = Next1(Next1(g))[s]
    OBVIOUS
  <2>1. CASE s = {}
    BY <2>1
  <2>2. CASE s # {}
    <3>1. s \ {Max(s)} \in SUBSET S
      OBVIOUS
    <3>2. g[s \ {Max(s)}] = Next1(g)[s \ {Max(s)}]
      BY <1>10, <3>1
    <3> QED  BY <2>2, <3>1, <3>2
  <2> QED  BY <2>1, <2>2
<1> QED  BY <1>11 DEF IsRelocking

(* So that what follows is an induction on how many are relocked. *)
LEMMA RelockedInTurn ==
  ASSUME NEW D, NEW ids \in Seq(D), NEW base
  PROVE  \E f : /\ f[0] = base
                /\ \A i \in 1..Len(ids) : f[i] = Relocked(f[i - 1], ids[i])
                /\ f[Len(ids)] = FoldLeft(Relocked, base, ids)
<1> DEFINE S == DOMAIN ids
           iter == CHOOSE g : IsRelocking(g, base, ids)
           f == [i \in 0..Len(ids) |-> iter[1..i]]
<1>1. S = 1..Len(ids) /\ Len(ids) \in Nat
  OBVIOUS
<1>2. IsRelocking(iter, base, ids)
  BY RelockingExists
<1>3. FoldLeft(Relocked, base, ids) = iter[S]
  BY DEF FoldLeft, MapThenFoldSet, IsRelocking
<1> HIDE DEF iter
<1>4. f[0] = base
  <2>1. 1..0 = {} /\ {} \in SUBSET S
    OBVIOUS
  <2>2. iter[{}] = base
    BY <1>2, <2>1 DEF IsRelocking
  <2> QED  BY <1>1, <2>1, <2>2
<1>5. ASSUME NEW i \in 1..Len(ids) PROVE f[i] = Relocked(f[i - 1], ids[i])
  <2>1. 1..i \in SUBSET S /\ 1..i # {} /\ 1..i \in SUBSET Nat /\ IsFiniteSet(1..i)
    <3>1. i \in Int /\ 1 \in Int
      OBVIOUS
    <3>2. IsFiniteSet(1..i)
      BY <3>1, FS_Interval
    <3>3. i \in 1..i /\ \A k \in 1..i : k \in 1..Len(ids) /\ k \in Nat
      BY <1>1
    <3> QED  BY <1>1, <3>2, <3>3
  <2>2. Max(1..i) = i
    <3> DEFINE m == Max(1..i)
    <3>1. m \in 1..i /\ \A n \in 1..i : m >= n
      BY <2>1, LargestNatural
    <3> HIDE DEF m
    <3>2. m = i
      BY <3>1
    <3> QED  BY <3>2 DEF m
  <2>3. (1..i) \ {i} = 1..(i - 1)
    OBVIOUS
  <2>4. iter[1..i] = Relocked(iter[(1..i) \ {Max(1..i)}], ids[Max(1..i)])
    BY <1>2, <2>1 DEF IsRelocking
  <2>5. iter[1..i] = Relocked(iter[1..(i - 1)], ids[i])
    BY <2>2, <2>3, <2>4
  <2> QED  BY <2>5
<1>6. f[Len(ids)] = iter[S]
  BY <1>1
<1> HIDE DEF f
<1> QED  BY <1>3, <1>4, <1>5, <1>6

(* One order is locked again, as far as its account allows. *)
Relocks(D, state, next, o) ==
  LET accounts == state.accounts
      row == state.orders[o]
      a == row.account
      x == LockOf(row)[2]
      amount == Granted(accounts, row)
  IN  /\ next.accounts \in [Accounts -> Solvent] /\ next.orders \in [D -> Order]
      /\ a \in Accounts /\ x \in Assets /\ LockOf(row) = <<a, x>>
      /\ amount \in Int /\ amount <= accounts[a].balances[x].available
      /\ amount = Wanted(row) \/ amount = accounts[a].balances[x].available
      /\ Wanted(row) \in Nat /\ (Serial => amount >= 0)
      /\ next.accounts[a].balances[x].available = accounts[a].balances[x].available - amount
      /\ next.accounts[a].balances[x].locked = accounts[a].balances[x].locked + amount
      /\ \A y \in Assets \ {x} : next.accounts[a].balances[y] = accounts[a].balances[y]
      /\ next.accounts[a].id = accounts[a].id /\ next.accounts[a].version = accounts[a].version
      /\ \A b \in Accounts \ {a} : next.accounts[b] = accounts[b]
      /\ next.orders[o] = [row EXCEPT !.reserved = amount]
      /\ \A p \in D \ {o} : next.orders[p] = state.orders[p]

LEMMA RelockedFacts ==
  ASSUME NEW D, NEW state, NEW o \in D,
         state.accounts \in [Accounts -> Solvent], state.orders \in [D -> Order]
  PROVE  Relocks(D, state, Relocked(state, o), o)
<1> DEFINE next == Relocked(state, o)
           accounts == state.accounts
           rows == state.orders
           row == rows[o]
           a == row.account
           x == LockOf(row)[2]
           amount == Granted(accounts, row)
           account == Locking(accounts[a], x, amount)
<1>1. row \in Order /\ a \in Accounts /\ row.symbol \in Symbols /\ accounts[a] \in Solvent
  BY DEF Order
<1>2. x \in Assets /\ LockOf(row) = <<a, x>>
  BY <1>1, LockedAssetIsAsset DEF LockOf
<1>3. Wanted(row) \in Nat
  <2>1. Needs(row, row.remaining) \in Nat /\ row.reserved \in Int
    BY <1>1, NeedsIsNatural DEF Order
  <2> QED  BY <2>1 DEF Wanted
<1>4. /\ accounts[a].balances[x].available \in Int /\ accounts[a].balances[x].locked \in Int
      /\ Serial => /\ accounts[a].balances[x].available \in Nat
                   /\ accounts[a].balances[x].locked \in Nat
  BY ZenonT(40), <1>1, <1>2, BalanceIsAmount, BalanceIsNatural
<1>5. /\ amount \in Int /\ amount <= accounts[a].balances[x].available
      /\ amount = Wanted(row) \/ amount = accounts[a].balances[x].available
      /\ Serial => amount \in Nat
  <2>1. amount = Lesser(Wanted(row), accounts[a].balances[x].available)
    BY DEF Granted
  <2> HIDE DEF amount, x, a, row
  <2> QED  BY <1>3, <1>4, <2>1 DEF Lesser
<1>6. next = [accounts |-> [accounts EXCEPT ![a] = account],
              orders |-> [rows EXCEPT ![o].reserved = amount]]
  BY DEF Relocked
<1>a. accounts \in [Accounts -> Solvent] /\ rows \in [D -> Order]
  OBVIOUS
<1> HIDE DEF next, amount, x, accounts, rows
<1>7. account \in Solvent
  <2>1. /\ accounts[a].balances[x].available - amount \in Amounts
        /\ accounts[a].balances[x].locked + amount \in Amounts
    <3>1. /\ accounts[a].balances[x].available - amount \in Int
          /\ accounts[a].balances[x].locked + amount \in Int
          /\ Serial => /\ accounts[a].balances[x].available - amount \in Nat
                       /\ accounts[a].balances[x].locked + amount \in Nat
      BY <1>4, <1>5
    <3> QED  BY <3>1 DEF Amounts
  <2> QED  BY <1>1, <1>2, <2>1, LockingKeepsSolvent
<1>8. account.id = accounts[a].id /\ account.version = accounts[a].version
  BY SMTT(40), <1>1, LockingKeepsVersion
<1>9. /\ account.balances[x].available = accounts[a].balances[x].available - amount
      /\ account.balances[x].locked = accounts[a].balances[x].locked + amount
      /\ \A y \in Assets \ {x} : account.balances[y] = accounts[a].balances[y]
  <2>1. PICK v : v = accounts[a]
    OBVIOUS
  <2>2. account = Locking(v, x, amount) /\ v \in Solvent
    BY <1>1, <2>1
  <2>3. /\ account.balances[x].available = v.balances[x].available - amount
        /\ account.balances[x].locked = v.balances[x].locked + amount
        /\ \A y \in Assets \ {x} : account.balances[y] = v.balances[y]
    <3> HIDE DEF account, a
    <3> QED  BY SMTT(40), <1>2, <2>2 DEF Locking, Solvent
  <2> QED  BY <2>1, <2>3
<1> HIDE DEF account, a
<1>10. [row EXCEPT !.reserved = amount] \in Order
  BY <1>1, <1>5 DEF Order
<1>11. /\ next.accounts = [accounts EXCEPT ![a] = account]
       /\ next.orders = [rows EXCEPT ![o] = [row EXCEPT !.reserved = amount]]
  BY <1>6
<1>14. Wanted(row) \in Nat /\ (Serial => amount >= 0)
  BY <1>3, <1>5
<1> HIDE DEF row
<1>12. /\ next.accounts[a] = account /\ \A b \in Accounts \ {a} : next.accounts[b] = accounts[b]
       /\ next.accounts \in [Accounts -> Solvent]
  BY <1>a, <1>1, <1>7, <1>11
<1>13. /\ next.orders[o] = [row EXCEPT !.reserved = amount]
       /\ \A p \in D \ {o} : next.orders[p] = rows[p]
       /\ next.orders \in [D -> Order]
  BY <1>a, <1>10, <1>11
<1> QED  BY ZenonT(40), <1>1, <1>2, <1>5, <1>8, <1>9, <1>12, <1>13, <1>14
         DEF Relocks, next, amount, x, a, row, account, accounts, rows

(* Before an order is relocked, whatever its account had locked in its     *)
(* asset is available again.                                               *)
LEMMA FreedFacts ==
  ASSUME NEW accounts \in [Accounts -> Solvent]
  PROVE  /\ Freed(accounts) \in [Accounts -> Solvent]
         /\ \A a \in Accounts :
              /\ Freed(accounts)[a].id = accounts[a].id
              /\ Freed(accounts)[a].version = accounts[a].version
              /\ (\A o \in OpenRows : LockOf(Rows[o])[1] # a) => Freed(accounts)[a] = accounts[a]
              /\ \A x \in Assets :
                   /\ Total(Freed(accounts)[a], x) = Total(accounts[a], x)
                   /\ (\E o \in OpenRows : LockOf(Rows[o]) = <<a, x>>) =>
                        Freed(accounts)[a].balances[x].locked = 0
<1> DEFINE freed(a) == [asset \in Assets |->
             IF \E o \in OpenRows : LockOf(Rows[o]) = <<a, asset>>
               THEN [available |-> Total(accounts[a], asset), locked |-> 0]
               ELSE accounts[a].balances[asset]]
           after(a) == [accounts[a] EXCEPT !.balances = freed(a)]
<1>1. Freed(accounts) = [a \in Accounts |-> after(a)]
  BY DEF Freed
<1> HIDE DEF after
<1>0. /\ \A a \in Accounts : Freed(accounts)[a] = after(a)
      /\ (\A a \in Accounts : after(a) \in Solvent) => Freed(accounts) \in [Accounts -> Solvent]
  BY <1>1
<1> SUFFICES ASSUME NEW a \in Accounts
             PROVE  /\ after(a) \in Solvent
                    /\ after(a).id = accounts[a].id /\ after(a).version = accounts[a].version
                    /\ (\A o \in OpenRows : LockOf(Rows[o])[1] # a) => after(a) = accounts[a]
                    /\ \A x \in Assets :
                         /\ Total(after(a), x) = Total(accounts[a], x)
                         /\ (\E o \in OpenRows : LockOf(Rows[o]) = <<a, x>>) =>
                              after(a).balances[x].locked = 0
  BY <1>0
<1> DEFINE next == after(a)
<1> USE DEF after
<1>2. accounts[a] \in Solvent
  OBVIOUS
<1>3. \A x \in Assets : /\ accounts[a].balances[x] \in [available : Amounts, locked : Amounts]
                        /\ Total(accounts[a], x) \in Amounts
                        /\ Total(accounts[a], x) \in Int
  <2>1. \A x \in Assets : Total(accounts[a], x) \in Amounts /\ Total(accounts[a], x) \in Int
    BY <1>2, BalanceIsAmount, BalanceIsNatural DEF Total, Amounts
  <2> QED  BY <1>2, <2>1 DEF Solvent
<1>4. freed(a) \in [Assets -> [available : Amounts, locked : Amounts]]
  BY <1>3, AmountsClosed
<1>5. /\ next \in Solvent /\ next.id = accounts[a].id /\ next.version = accounts[a].version
      /\ next.balances = freed(a)
  BY <1>2, <1>4 DEF Solvent
<1>6. ASSUME NEW x \in Assets
      PROVE  /\ Total(next, x) = Total(accounts[a], x)
             /\ (\E o \in OpenRows : LockOf(Rows[o]) = <<a, x>>) => next.balances[x].locked = 0
  BY <1>3, <1>5 DEF Total
<1>7. ASSUME \A o \in OpenRows : LockOf(Rows[o])[1] # a PROVE next = accounts[a]
  <2>1. \A x \in Assets : ~ \E o \in OpenRows : LockOf(Rows[o]) = <<a, x>>
    BY <1>7
  <2>2. freed(a) = [x \in Assets |-> accounts[a].balances[x]]
    BY <2>1
  <2>3. freed(a) = accounts[a].balances
    BY <1>2, <2>2 DEF Solvent
  <2> QED  BY <1>2, <2>3 DEF Solvent
<1> QED  BY <1>5, <1>6, <1>7

(* What a lock consists of, once the orders in `done' are relocked. *)
Parts(state, done, lock) ==
  [o \in OpenRows |-> IF o \in done /\ LockOf(Rows[o]) = lock THEN state.orders[o].reserved ELSE 0]

(* RebuildReservations moves funds of the accounts that have an open order *)
(* and nobody else's, and gives an order what its row asks for as long as  *)
(* anything is left.                                                       *)
Relocking(state, done) ==
  /\ state.accounts \in [Accounts -> Solvent]
  /\ state.orders \in [OpenRows -> Order]
  /\ \A a \in Accounts :
       /\ state.accounts[a].id = db.accounts[a].id
       /\ state.accounts[a].version = db.accounts[a].version
       /\ \A x \in Assets : Total(state.accounts[a], x) = Total(db.accounts[a], x)
       /\ (\A o \in OpenRows : LockOf(Rows[o])[1] # a) => state.accounts[a] = db.accounts[a]
  /\ \A o \in OpenRows :
       IF o \in done THEN state.orders[o] = [Rows[o] EXCEPT !.reserved = state.orders[o].reserved]
                     ELSE state.orders[o] = Rows[o]
  /\ Serial => \A o \in done : state.orders[o].reserved >= 0
  /\ \A o \in OpenRows :
       LET lock == LockOf(Rows[o])  balance == state.accounts[lock[1]].balances[lock[2]] IN
       /\ balance.locked = SumFunctionOnSet(Parts(state, done, lock), OpenRows)
       /\ o \in done /\ balance.available > 0 => state.orders[o].reserved = Wanted(Rows[o])

LEMMA RowsTyped ==
  ASSUME db \in Database
  PROVE  /\ OpenRows \in SUBSET Orders /\ Rows \in [OpenRows -> Order]
         /\ LoadedAccounts \in [Accounts -> Solvent]
         /\ \A o \in OpenRows : /\ LockOf(Rows[o])[1] \in Accounts
                                /\ LockOf(Rows[o])[2] \in Assets
                                /\ LockOf(Rows[o]) = <<LockOf(Rows[o])[1], LockOf(Rows[o])[2]>>
<1>1. OpenRows \in SUBSET Orders /\ Rows \in [OpenRows -> Order]
  BY DEF Database, OpenRows, Rows
<1>2. LoadedAccounts \in [Accounts -> Solvent]
  BY DEF Database, LoadedAccounts
<1> SUFFICES ASSUME NEW o \in OpenRows
             PROVE  /\ LockOf(Rows[o])[1] \in Accounts
                    /\ LockOf(Rows[o])[2] \in Assets
                    /\ LockOf(Rows[o]) = <<LockOf(Rows[o])[1], LockOf(Rows[o])[2]>>
  BY <1>1, <1>2
<1>3. Rows[o].account \in Accounts /\ Rows[o].symbol \in Symbols
  BY <1>1 DEF Order
<1> QED  BY <1>3, LockedAssetIsAsset DEF LockOf

LEMMA RelockingStarts ==
  ASSUME db \in Database, IsFiniteSet(OpenRows)
  PROVE  Relocking([accounts |-> Freed(LoadedAccounts), orders |-> Rows], {})
<1> DEFINE state == [accounts |-> Freed(LoadedAccounts), orders |-> Rows]
<1>1. /\ OpenRows \in SUBSET Orders /\ Rows \in [OpenRows -> Order]
      /\ LoadedAccounts \in [Accounts -> Solvent] /\ LoadedAccounts = db.accounts
      /\ \A o \in OpenRows : /\ LockOf(Rows[o])[1] \in Accounts
                             /\ LockOf(Rows[o])[2] \in Assets
                             /\ LockOf(Rows[o]) = <<LockOf(Rows[o])[1], LockOf(Rows[o])[2]>>
  BY RowsTyped DEF LoadedAccounts
<1>2. /\ state.accounts \in [Accounts -> Solvent] /\ state.orders = Rows
      /\ \A a \in Accounts :
           /\ state.accounts[a].id = db.accounts[a].id
           /\ state.accounts[a].version = db.accounts[a].version
           /\ (\A o \in OpenRows : LockOf(Rows[o])[1] # a) => state.accounts[a] = db.accounts[a]
           /\ \A x \in Assets :
                /\ Total(state.accounts[a], x) = Total(db.accounts[a], x)
                /\ (\E o \in OpenRows : LockOf(Rows[o]) = <<a, x>>) =>
                     state.accounts[a].balances[x].locked = 0
  BY <1>1, FreedFacts
<1> HIDE DEF state
<1>3. ASSUME NEW o \in OpenRows
      PROVE  LET lock == LockOf(Rows[o]) IN
             state.accounts[lock[1]].balances[lock[2]].locked
               = SumFunctionOnSet(Parts(state, {}, lock), OpenRows)
  <2>1. PICK a \in Accounts, x \in Assets : LockOf(Rows[o]) = <<a, x>>
    BY <1>1
  <2>2. state.accounts[a].balances[x].locked = 0
    BY <1>2, <2>1
  <2>3. \A p \in OpenRows : Parts(state, {}, LockOf(Rows[o]))[p] = 0
    BY DEF Parts
  <2>4. SumFunctionOnSet(Parts(state, {}, LockOf(Rows[o])), OpenRows) = 0
    BY <2>3, SumZero
  <2> QED  BY <2>1, <2>2, <2>4
<1>4. Relocking(state, {})
  BY <1>1, <1>2, <1>3 DEF Relocking
<1> QED  BY <1>4 DEF state

LEMMA RelockingStep ==
  ASSUME db \in Database, IsFiniteSet(OpenRows), NEW state, NEW done \in SUBSET OpenRows,
         Relocking(state, done), NEW o \in OpenRows \ done
  PROVE  Relocking(Relocked(state, o), done \cup {o})
<1> DEFINE next == Relocked(state, o)
           a == Rows[o].account
           x == LockOf(Rows[o])[2]
           amount == Granted(state.accounts, Rows[o])
<1>1. /\ OpenRows \in SUBSET Orders /\ Rows \in [OpenRows -> Order]
      /\ \A p \in OpenRows : /\ LockOf(Rows[p])[1] \in Accounts
                             /\ LockOf(Rows[p])[2] \in Assets
                             /\ LockOf(Rows[p]) = <<LockOf(Rows[p])[1], LockOf(Rows[p])[2]>>
  BY RowsTyped
<1>2. /\ state.accounts \in [Accounts -> Solvent] /\ state.orders \in [OpenRows -> Order]
      /\ state.orders[o] = Rows[o]
  BY DEF Relocking
<1>3. /\ next.accounts \in [Accounts -> Solvent] /\ next.orders \in [OpenRows -> Order]
      /\ a \in Accounts /\ x \in Assets /\ LockOf(Rows[o]) = <<a, x>>
      /\ amount \in Int /\ amount <= state.accounts[a].balances[x].available
      /\ amount = Wanted(Rows[o]) \/ amount = state.accounts[a].balances[x].available
      /\ Wanted(Rows[o]) \in Nat /\ (Serial => amount >= 0)
      /\ next.accounts[a].balances[x].available = state.accounts[a].balances[x].available - amount
      /\ next.accounts[a].balances[x].locked = state.accounts[a].balances[x].locked + amount
      /\ \A y \in Assets \ {x} : next.accounts[a].balances[y] = state.accounts[a].balances[y]
      /\ next.accounts[a].id = state.accounts[a].id
      /\ next.accounts[a].version = state.accounts[a].version
      /\ \A b \in Accounts \ {a} : next.accounts[b] = state.accounts[b]
      /\ next.orders[o] = [Rows[o] EXCEPT !.reserved = amount]
      /\ \A p \in OpenRows \ {o} : next.orders[p] = state.orders[p]
  <2>1. Relocks(OpenRows, state, next, o)
    BY <1>2, RelockedFacts
  <2> HIDE DEF next
  <2> QED  BY ZenonT(40), <1>2, <2>1 DEF Relocks
<1> HIDE DEF next, amount, x, a
<1>4. /\ state.accounts[a].balances[x].available \in Int
      /\ state.accounts[a].balances[x].locked \in Int
  BY <1>2, <1>3, BalanceIsAmount
<1>5. ASSUME NEW b \in Accounts, NEW y \in Assets, <<b, y>> # <<a, x>>
      PROVE  next.accounts[b].balances[y] = state.accounts[b].balances[y]
  BY <1>3, <1>5
<1>6. ASSUME NEW b \in Accounts
      PROVE  /\ next.accounts[b].id = db.accounts[b].id
             /\ next.accounts[b].version = db.accounts[b].version
             /\ \A y \in Assets : Total(next.accounts[b], y) = Total(db.accounts[b], y)
             /\ (\A p \in OpenRows : LockOf(Rows[p])[1] # b) => next.accounts[b] = db.accounts[b]
  <2>1. /\ state.accounts[b].id = db.accounts[b].id
        /\ state.accounts[b].version = db.accounts[b].version
        /\ \A y \in Assets : Total(state.accounts[b], y) = Total(db.accounts[b], y)
        /\ (\A p \in OpenRows : LockOf(Rows[p])[1] # b) => state.accounts[b] = db.accounts[b]
    BY DEF Relocking
  <2>2. ASSUME NEW y \in Assets PROVE Total(next.accounts[b], y) = Total(state.accounts[b], y)
    <3>1. CASE <<b, y>> # <<a, x>>
      BY <1>5, <3>1 DEF Total
    <3>2. CASE b = a /\ y = x
      BY <1>3, <1>4, <3>2 DEF Total
    <3> QED  BY <3>1, <3>2
  <2>3. /\ next.accounts[b].id = state.accounts[b].id
        /\ next.accounts[b].version = state.accounts[b].version
        /\ b # a => next.accounts[b] = state.accounts[b]
    BY <1>3
  <2>4. b = a => LockOf(Rows[o])[1] = b
    BY <1>3
  <2> QED  BY <2>1, <2>2, <2>3, <2>4
<1>7. ASSUME NEW p \in OpenRows
      PROVE  IF p \in done \cup {o}
               THEN next.orders[p] = [Rows[p] EXCEPT !.reserved = next.orders[p].reserved]
               ELSE next.orders[p] = Rows[p]
  <2>1. CASE p = o
    <3>1. next.orders[o].reserved = amount
      BY SMTT(40), <1>1, <1>3 DEF Order
    <3> QED  BY <1>3, <2>1, <3>1
  <2>2. CASE p # o
    BY ZenonT(40), <1>3, <2>2 DEF Relocking
  <2> QED  BY <2>1, <2>2
<1>8. ASSUME NEW p \in OpenRows
      PROVE  LET lock == LockOf(Rows[p])
                 balance == next.accounts[lock[1]].balances[lock[2]]
             IN /\ balance.locked = SumFunctionOnSet(Parts(next, done \cup {o}, lock), OpenRows)
                /\ p \in done \cup {o} /\ balance.available > 0 =>
                     next.orders[p].reserved = Wanted(Rows[p])
  <2>1. PICK b \in Accounts, y \in Assets : LockOf(Rows[p]) = <<b, y>>
    BY <1>1
  <2> DEFINE F == Parts(state, done, <<b, y>>)
             G == Parts(next, done \cup {o}, <<b, y>>)
  <2>2. /\ state.accounts[b].balances[y].locked = SumFunctionOnSet(F, OpenRows)
        /\ p \in done /\ state.accounts[b].balances[y].available > 0 =>
             state.orders[p].reserved = Wanted(Rows[p])
    <3>1. LET lock == LockOf(Rows[p])  balance == state.accounts[lock[1]].balances[lock[2]] IN
          /\ balance.locked = SumFunctionOnSet(Parts(state, done, lock), OpenRows)
          /\ p \in done /\ balance.available > 0 => state.orders[p].reserved = Wanted(Rows[p])
      BY DEF Relocking
    <3> QED  BY SMTT(40), <2>1, <3>1
  <2>3. \A q \in OpenRows : F[q] \in Int /\ G[q] \in Int
    <3>1. \A q \in OpenRows : state.orders[q].reserved \in Int /\ next.orders[q].reserved \in Int
      BY <1>2, <1>3 DEF Order
    <3> QED  BY <3>1 DEF Parts
  <2>4. \A q \in OpenRows : q # o => G[q] = F[q]
    BY <1>3 DEF Parts
  <2>5. next.orders[o].reserved = amount
    BY <1>1, <1>3 DEF Order
  <2>6. F[o] = 0 /\ G[o] = IF <<b, y>> = <<a, x>> THEN amount ELSE 0
    BY <1>3, <2>5 DEF Parts
  <2> HIDE DEF F, G
  <2>7. SumFunctionOnSet(G, OpenRows) = SumFunctionOnSet(F, OpenRows) - F[o] + G[o]
    <3>1. \A q \in OpenRows : F[q] \in Int
      BY <2>3
    <3> QED  BY <2>3, <2>4, <3>1, SumChanges
  <2>8. SumFunctionOnSet(F, OpenRows) \in Int
    BY <2>3, SumAdds
  <2>9. next.accounts[b].balances[y].locked = SumFunctionOnSet(G, OpenRows)
    <3>1. CASE <<b, y>> # <<a, x>>
      BY <1>5, <2>2, <2>6, <2>7, <2>8, <3>1
    <3>2. CASE b = a /\ y = x
      BY <1>3, <1>4, <2>2, <2>6, <2>7, <2>8, <3>2
    <3> QED  BY <3>1, <3>2
  <2>10. ASSUME p \in done \cup {o}, next.accounts[b].balances[y].available > 0
         PROVE  next.orders[p].reserved = Wanted(Rows[p])
    <3>1. CASE p = o
      <4>1. b = a /\ y = x
        BY <1>3, <2>1, <3>1
      <4>2. amount # state.accounts[a].balances[x].available
        BY <1>3, <1>4, <2>10, <4>1
      <4> QED  BY <1>3, <2>5, <3>1, <4>2
    <3>2. CASE p # o
      <4>1. state.accounts[b].balances[y].available > 0
        <5>1. CASE <<b, y>> # <<a, x>>
          BY <1>5, <2>10, <5>1
        <5>2. CASE b = a /\ y = x
          BY SMTT(40), <1>3, <1>4, <2>10, <5>2
        <5> QED  BY <5>1, <5>2
      <4> QED  BY <1>3, <2>2, <2>10, <3>2, <4>1
    <3> QED  BY <3>1, <3>2
  <2> QED  BY <2>1, <2>9, <2>10 DEF G
<1>10. Serial => \A p \in done \cup {o} : next.orders[p].reserved >= 0
  <2> SUFFICES ASSUME Serial, NEW p \in done \cup {o} PROVE next.orders[p].reserved >= 0
    OBVIOUS
  <2>1. next.orders[o].reserved = amount
    BY <1>1, <1>3 DEF Order
  <2> QED  BY <1>3, <2>1 DEF Relocking
<1>9. Relocking(next, done \cup {o})
  BY ZenonT(40), <1>3, <1>6, <1>7, <1>8, <1>10 DEF Relocking
<1> QED  BY <1>9 DEF next

(* In whatever order the rows come, all of them are relocked in the end.   *)
LEMMA RebuiltFacts ==
  ASSUME db \in Database, IsFiniteSet(OpenRows), NEW ids \in SetToSeqs(OpenRows)
  PROVE  Relocking(Rebuilt(ids), OpenRows)
<1> DEFINE n == Cardinality(OpenRows)
           base == [accounts |-> Freed(LoadedAccounts), orders |-> Rows]
           done(i) == {ids[k] : k \in 1..i}
<1>1. n \in Nat
  BY FS_CardinalityType
<1>2. /\ ids \in [1..n -> OpenRows] /\ \A i, j \in 1..n : i # j => ids[i] # ids[j]
      /\ ids \in Seq(OpenRows) /\ Len(ids) = n
  BY <1>1 DEF SetToSeqs
<1>3. PICK f : /\ f[0] = base
               /\ \A i \in 1..n : f[i] = Relocked(f[i - 1], ids[i])
               /\ f[n] = FoldLeft(Relocked, base, ids)
  <2> HIDE DEF base, n
  <2>1. PICK g : /\ g[0] = base
                 /\ \A i \in 1..Len(ids) : g[i] = Relocked(g[i - 1], ids[i])
                 /\ g[Len(ids)] = FoldLeft(Relocked, base, ids)
    BY <1>2, RelockedInTurn
  <2> QED  BY ZenonT(40), <1>2, <2>1
<1> DEFINE Good == {i \in Nat : i <= n => Relocking(f[i], done(i))}
<1>4. 0 \in Good
  <2>1. done(0) = {}
    OBVIOUS
  <2>2. Relocking(base, {})
    BY RelockingStarts
  <2> HIDE DEF done, base
  <2> QED  BY <1>3, <2>1, <2>2
<1>5. ASSUME NEW i \in Nat, i \in Good PROVE i + 1 \in Good
  <2> SUFFICES ASSUME i + 1 <= n PROVE Relocking(f[i + 1], done(i + 1))
    OBVIOUS
  <2>1. i + 1 \in 1..n /\ (i + 1) - 1 = i /\ i <= n
    BY <1>1
  <2>2. f[i + 1] = Relocked(f[i], ids[i + 1])
    BY <1>3, <2>1
  <2>3. Relocking(f[i], done(i))
    BY <1>5, <2>1
  <2>4. /\ done(i) \in SUBSET OpenRows /\ ids[i + 1] \in OpenRows \ done(i)
        /\ done(i + 1) = done(i) \cup {ids[i + 1]}
    <3>1. \A k \in 1..i : k \in 1..n /\ k # i + 1
      BY <1>1, <2>1
    <3>2. 1..(i + 1) = (1..i) \cup {i + 1}
      BY <2>1
    <3> QED  BY <1>2, <2>1, <3>1, <3>2
  <2> HIDE DEF done
  <2>5. Relocking(Relocked(f[i], ids[i + 1]), done(i) \cup {ids[i + 1]})
    BY <2>3, <2>4, RelockingStep
  <2> QED  BY <2>2, <2>4, <2>5
<1>6. n \in Good
  <2> HIDE DEF Good
  <2>1. Nat \subseteq Good
    BY <1>4, <1>5, NaturalInduction
  <2> QED  BY <1>1, <2>1
<1>7. done(n) = OpenRows
  <2>1. \A o \in OpenRows : \E i \in DOMAIN ids : ids[i] = o
    BY EnumerationIsComplete
  <2> QED  BY <1>2, <2>1
<1>8. Relocking(f[n], OpenRows)
  BY <1>1, <1>6, <1>7
<1>9. f[n] = Rebuilt(ids)
  BY <1>3 DEF Rebuilt
<1> QED  BY <1>8, <1>9

-----------------------------------------------------------------------------
(* The invariant *)

(* An order some book has taken: only these are ever matched or persisted. *)
Sent(o) == orders[o] # None /\ (o \in Requests => orders[o].sequence > 0)

(* A goroutine fills and persists such orders only, and forgets them.      *)
Sending(r) ==
  /\ ~Busy(r) => job[r].fills = << >> /\ job[r].pending = {}
  /\ \A o \in job[r].pending : Sent(o)
  /\ \A i \in 1..Len(job[r].fills) : Sent(job[r].fills[i].maker)
  /\ job[r].pc \in WithRow =>
       /\ Sent(job[r].row.id)
       /\ job[r].row.id \in Requests => job[r].row.order.sequence > 0

RowsSent ==
  \A r \in Requests : db.orders[r] # None => db.orders[r].sequence > 0 /\ ~At(r, "idle")

SendInvariant == TypeInvariant /\ RowsSent /\ \A r \in Requests : Sending(r)

-----------------------------------------------------------------------------
(* What a goroutine does keeps it *)

KeepsSent == \A o \in Orders : Sent(o) => Sent(o)'

LEMMA UpdateKeepsSent ==
  ASSUME TypeInvariant, NEW o \in Orders, orders[o] \in Order,
         \/ \E x \in Statuses : orders' = [orders EXCEPT ![o].status = x]
         \/ \E n \in Int : orders' = [orders EXCEPT ![o].reserved = n]
  PROVE  KeepsSent
<1>1. orders \in [Orders -> Order \cup {None}]
  BY DEF TypeInvariant, Typed
<1>2. PICK next \in Order : /\ orders' = [orders EXCEPT ![o] = next]
                            /\ next.sequence = orders[o].sequence
  <2>1. CASE \E x \in Statuses : orders' = [orders EXCEPT ![o].status = x]
    <3>1. PICK x \in Statuses : orders' = [orders EXCEPT ![o].status = x]
      BY <2>1
    <3>2. /\ [orders[o] EXCEPT !.status = x] \in Order
          /\ [orders[o] EXCEPT !.status = x].sequence = orders[o].sequence
      BY <3>1 DEF Order, Statuses
    <3> QED  BY <1>1, <3>1, <3>2
  <2>2. CASE \E n \in Int : orders' = [orders EXCEPT ![o].reserved = n]
    <3>1. PICK n \in Int : orders' = [orders EXCEPT ![o].reserved = n]
      BY <2>2
    <3>2. /\ [orders[o] EXCEPT !.reserved = n] \in Order
          /\ [orders[o] EXCEPT !.reserved = n].sequence = orders[o].sequence
      BY <3>1 DEF Order
    <3> QED  BY <1>1, <3>1, <3>2
  <2> QED  BY <2>1, <2>2
<1>3. orders'[o] = next /\ next # None /\ \A p \in Orders \ {o} : orders'[p] = orders[p]
  BY <1>1, <1>2, ExchangeAssumption
<1> QED  BY <1>2, <1>3 DEF KeepsSent, Sent

LEMMA SentStays ==
  ASSUME TypeInvariant, NEW r \in Requests, Accept(r) \/ Serve(r)
  PROVE  KeepsSent
<1>1. /\ orders \in [Orders -> Order \cup {None}] /\ r \in Orders
      /\ job[r].pc \in Unsubmitted \cup Submitted => orders[r] \in Order
  BY KnownOf DEF TypeInvariant, Typed
<1>2. CASE orders' = orders
  BY <1>2 DEF KeepsSent, Sent
<1>3. CASE Accept(r)
  <2>1. orders[r] = None
    BY SMTT(40), <1>3 DEF Accept, TypeInvariant, Local, Phased
  <2>2. \A o \in Orders : o # r => orders'[o] = orders[o]
    BY <1>1, <1>3 DEF Accept, Deposit, PlaceOrder, memory
  <2> QED  BY <2>1, <2>2 DEF KeepsSent, Sent
<1>4. CASE Reserve(r) /\ orders' # orders
  <2>1. orders[r] \in Order
    BY <1>1, <1>4 DEF Reserve, At, Unsubmitted
  <2> DEFINE n == Needs(orders[r], orders[r].quantity)
  <2>2. n \in Int
    BY <2>1, NeedsIsNatural DEF Order
  <2>3. orders' = [orders EXCEPT ![r].reserved = n]
    BY <1>4 DEF Reserve
  <2> HIDE DEF n
  <2> QED  BY <1>1, <2>1, <2>2, <2>3, UpdateKeepsSent
<1>5. CASE Submit(r)
  <2>1. orders[r] \in Order
    BY <1>1, <1>5 DEF Submit, At, Unsubmitted
  <2> DEFINE n == seq[orders[r].symbol] + 1
             next == [orders[r] EXCEPT !.sequence = n, !.remaining = orders[r].quantity]
  <2>2. n \in Nat /\ n > 0
    BY SMTT(40), <2>1 DEF TypeInvariant, Typed, Order
  <2>3. orders' = [orders EXCEPT ![r] = next]
    BY <1>1, <1>5, <2>1 DEF Submit, Order
  <2> HIDE DEF n
  <2>4. next \in Order /\ next.sequence = n
    BY <2>1, <2>2 DEF Order
  <2> HIDE DEF next
  <2>5. orders'[r] = next /\ next # None /\ \A o \in Orders \ {r} : orders'[o] = orders[o]
    BY <1>1, <2>3, <2>4, ExchangeAssumption
  <2> QED  BY <2>2, <2>4, <2>5 DEF KeepsSent, Sent
<1>6. CASE Match(r)
  <2> DEFINE maker == Head(queue[orders[r].symbol][Opposite(orders[r].side)])
             n == FillQuantity(orders, r, maker)
  <2>1. /\ maker \in Orders /\ orders[maker] \in Order /\ orders[r] \in Order
        /\ \A o \in Orders \ {r, maker} : orders'[o] = orders[o]
        /\ orders'[maker] = [orders[maker] EXCEPT !.remaining = @ - n]
        /\ orders'[r] = [orders[r] EXCEPT !.remaining = @ - n]
        /\ orders'[maker] \in Order /\ orders'[r] \in Order
    BY ZenonT(40), <1>1, <1>6, MatchFacts DEF Match, At, Submitted
  <2> HIDE DEF maker, n
  <2>2. /\ orders'[maker].sequence = orders[maker].sequence
        /\ orders'[r].sequence = orders[r].sequence
    BY <2>1 DEF Order
  <2>3. orders'[maker] # None /\ orders'[r] # None
    BY <2>1, ExchangeAssumption
  <2> QED  BY ZenonT(40), <2>1, <2>2, <2>3 DEF KeepsSent, Sent
<1>7. CASE StoreStatus(r)
  <2>1. job[r].pc = "storeStatus" /\ Local(r)
    BY <1>7 DEF StoreStatus, At, TypeInvariant
  <2>2. Subject(r) \in Orders /\ orders[Subject(r)] \in Order
    <3>1. job[r].role = "taker" \/ job[r].at \in 1..Len(job[r].fills)
      BY <2>1 DEF Local, Positioned, InFill
    <3>2. orders[r] \in Order /\ orders[r] # None
      BY <1>1, <2>1, KnownOf DEF Submitted, InFill
    <3> QED  BY <3>1, <3>2, SubjectTyped
  <2>3. job[r].status \in Statuses
    BY <1>7, <2>1 DEF StoreStatus, Local, Loaded
  <2> QED  BY <1>7, <2>2, <2>3, UpdateKeepsSent DEF StoreStatus
<1>8. CASE StoreReserved(r) \/ ClampReserved(r) \/ ClipReserved(r) \/ ClearReserved(r)
  <2>1. /\ Subject(r) \in Orders /\ orders[Subject(r)] \in Order /\ job[r] \in Job
        /\ LockedBy(r) \in Int
        /\ At(r, "storeReserved") => job[r].at \in 1..Len(job[r].fills)
    BY <1>8, SettlingKnown DEF StoreReserved, ClampReserved, ClipReserved, ClearReserved, At,
       Settling
  <2>2. \E n \in Int : orders' = [orders EXCEPT ![Subject(r)].reserved = n]
    <3>1. CASE StoreReserved(r)
      <4> DEFINE n == Adjusted(job[r].seen, Needs(orders[Subject(r)], Fill(r).quantity))
      <4>1. Fill(r).quantity \in Nat
        BY <2>1, <3>1, FillTyped DEF Trade, StoreReserved
      <4>2. Needs(orders[Subject(r)], Fill(r).quantity) \in Nat
        BY <2>1, <4>1, NeedsIsNatural
      <4>3. n \in Int
        BY <2>1, <4>2 DEF Adjusted, Job
      <4>4. orders' = [orders EXCEPT ![Subject(r)].reserved = n]
        BY <3>1 DEF StoreReserved
      <4> HIDE DEF n
      <4> QED  BY <4>3, <4>4
    <3>2. CASE ClampReserved(r) \/ ClearReserved(r)
      BY <3>2, ZeroIsInteger DEF ClampReserved, ClearReserved
    <3>3. CASE ClipReserved(r)
      BY <2>1, <3>3 DEF ClipReserved, LockedBy
    <3> QED  BY <1>8, <3>1, <3>2, <3>3
  <2> QED  BY <2>1, <2>2, UpdateKeepsSent
<1>9. orders' = orders \/ \/ Accept(r) \/ Reserve(r) \/ Submit(r) \/ Match(r)
                         \/ StoreStatus(r) \/ StoreReserved(r) \/ ClampReserved(r)
                         \/ ClipReserved(r) \/ ClearReserved(r)
  BY ZenonT(40) DEF Serve, GetReserved, PersistAccount, ReplaceAccount, CacheAccount, Finish,
     LoadStatus, CheckReserved, ReleaseMaker, ReleaseTaker, StartRelease, SubtractReserved,
     AddReserved,
     Collect, Settle, LoadReserved, NextAccount, NextOrder, PersistOrder, MarshalOrder,
     PublishOrder, PersistTrades, Record, RecordAudit, PersistAudit, PublishAudit,
     PublishTrade, TakeSnapshot, CacheOrderBook, CopyTrades, CacheTrades, CallFails, memory
<1> QED  BY <1>2, <1>3, <1>4, <1>5, <1>6, <1>7, <1>8, <1>9

(* Most steps of a goroutine take up no fill and no order, and write no    *)
(* order row; when it returns it forgets its fills.                        *)
Leaves(r) ==
  /\ \A q \in Requests \ {r} : job'[q] = job[q]
  /\ job'[r].pc \notin WithRow \cup {"idle"}
  /\ job'[r].pending \subseteq job[r].pending
  /\ IF job'[r].pc \in {"ok", "failed"} THEN job'[r].fills = << >> /\ job'[r].pending = {}
                                        ELSE job'[r].fills = job[r].fills

Passing(r) == Leaves(r) /\ db'.orders = db.orders /\ tape' = tape

LEMMA GotoLeaves ==
  ASSUME TypeInvariant, NEW r \in Requests, NEW label,
         label \notin WithRow \cup {"idle", "ok", "failed"}, Goto(r, label)
  PROVE  Leaves(r) /\ job'[r].pc = label
<1>1. job \in [Requests -> Job] /\ job[r] \in Job
  BY DEF TypeInvariant, Typed
<1> QED  BY <1>1 DEF Goto, Leaves, Job

LEMMA ReturnLeaves ==
  ASSUME TypeInvariant, NEW r \in Requests, NEW answer \in {"ok", "failed"}, Return(r, answer)
  PROVE  Leaves(r) /\ job'[r].pc = answer
<1>1. job \in [Requests -> Job]
  BY DEF TypeInvariant, Typed
<1>2. job'[r] = [Idle EXCEPT !.pc = answer, !.input = job[r].input]
  BY <1>1 DEF Return
<1>3. job'[r].pc = answer /\ job'[r].fills = << >> /\ job'[r].pending = {}
  BY <1>2 DEF Idle
<1>4. \A q \in Requests \ {r} : job'[q] = job[q]
  BY <1>1 DEF Return
<1> QED  BY <1>3, <1>4 DEF Leaves, WithRow

LEMMA AfterEventLeaves ==
  ASSUME TypeInvariant, NEW r \in Requests, AfterEvent(r) PROVE Leaves(r)
<1>1. job \in [Requests -> Job] /\ job[r] \in Job
  BY DEF TypeInvariant, Typed
<1>2. CASE job[r].at < Len(job[r].fills)
  <2>1. job' = [job EXCEPT ![r].pc = "audit", ![r].at = job[r].at + 1]
    BY <1>2 DEF AfterEvent
  <2> QED  BY <1>1, <2>1 DEF Leaves, Job, WithRow
<1>3. CASE ~(job[r].at < Len(job[r].fills))
  BY <1>3, GotoLeaves, ReturnLeaves DEF AfterEvent, WithRow
<1> QED  BY <1>2, <1>3

(* Where a goroutine's trades are in the store. *)
Stored == {"record", "publishTrade", "snapshot", "cacheBook", "copyTrades", "cacheTrades", "ok"}
            \cup Auditing

LEMMA AcceptLeaves ==
  ASSUME TypeInvariant, NEW r \in Requests, Accept(r)
  PROVE  /\ Passing(r) /\ job'[r].fills = << >> /\ job'[r].pending = {}
         /\ job'[r].pc \notin Stored
<1>1. job \in [Requests -> Job] /\ job[r] \in Job /\ job[r] = Idle
  BY DEF TypeInvariant, Typed, Accept, Local, Phased
<1>2. PICK in \in Inputs : Deposit(r, in) \/ PlaceOrder(r, in)
  BY DEF Accept
<1>3. db' = db /\ tape' = tape
  BY <1>2 DEF Deposit, PlaceOrder, services, book
<1>5. /\ job'[r].pc \in {"failed", "persist", "reserve"}
      /\ job'[r].fills = job[r].fills /\ job'[r].pending = job[r].pending
      /\ \A q \in Requests \ {r} : job'[q] = job[q]
  <2>1. CASE Deposit(r, in) /\ ~(in.amount <= 0)
    <3>1. PICK clone : job' = [job EXCEPT ![r].pc = "persist", ![r].input = in, ![r].clone = clone]
      BY <2>1 DEF Deposit
    <3> QED  BY <1>1, <3>1 DEF Job
  <2>2. CASE ~(Deposit(r, in) /\ ~(in.amount <= 0))
    <3>1. PICK label \in {"failed", "reserve"} : job' = [job EXCEPT ![r].pc = label, ![r].input = in]
      BY <1>2, <2>2 DEF Deposit, PlaceOrder
    <3> QED  BY <1>1, <3>1 DEF Job
  <2> QED  BY <2>1, <2>2
<1>6. job[r].fills = << >> /\ job[r].pending = {}
  BY <1>1 DEF Idle
<1> QED  BY <1>3, <1>5, <1>6 DEF Passing, Leaves, WithRow, Stored, Auditing

(* AdjustRemainingReservation and ReleaseRemaining. *)
Adjusting(r) == LoadReserved(r) \/ StoreReserved(r) \/ CheckReserved(r) \/ ClampReserved(r)

Release(r) ==
  \/ ReleaseMaker(r) \/ ReleaseTaker(r)
  \/ ClipReserved(r) \/ SubtractReserved(r) \/ AddReserved(r) \/ ClearReserved(r)

(* What it does before its trades are stored. *)
Early(r) ==
  \/ Reserve(r) \/ GetReserved(r)
  \/ PersistAccount(r) \/ ReplaceAccount(r)
  \/ Submit(r) \/ Finish(r) \/ LoadStatus(r) \/ StoreStatus(r)
  \/ Settle(r) \/ Adjusting(r) \/ Release(r)
  \/ NextAccount(r) \/ CallFails(r)

LEMMA EarlyPasses ==
  ASSUME TypeInvariant, NEW r \in Requests, Early(r)
  PROVE  Passing(r) /\ job'[r].pc \notin Stored
<1>1. job \in [Requests -> Job] /\ job[r] \in Job /\ db \in Database
  BY DEF TypeInvariant, Typed
<1>2. ASSUME NEW label \in {"clone", "cacheAccount", "replace", "match", "loadStatus", "collect",
                             "accounts", "orders", "clip", "subtract", "clampReserved"},
             Goto(r, label)
      PROVE  Leaves(r) /\ job'[r].pc \notin Stored
  BY <1>2, GotoLeaves DEF WithRow, Stored, Auditing
<1>3. ASSUME Fail(r) PROVE Leaves(r) /\ job'[r].pc \notin Stored
  BY <1>3, ReturnLeaves DEF Fail, Stored, Auditing
<1>4. ASSUME NEW label \in {"persist", "replace", "storeStatus", "loadStatus", "settle",
                             "storeReserved", "checkReserved", "loadReserved", "releaseMaker",
                             "collect", "add", "clear"},
             job'[r].pc = label, job'[r].fills = job[r].fills, job'[r].pending = job[r].pending,
             \A q \in Requests \ {r} : job'[q] = job[q]
      PROVE  Leaves(r) /\ job'[r].pc \notin Stored
  BY <1>4 DEF Leaves, WithRow, Stored, Auditing
<1>5. CASE \/ Reserve(r) \/ ReplaceAccount(r) \/ Submit(r) \/ Finish(r)
           \/ ReleaseMaker(r) \/ ReleaseTaker(r) \/ ClipReserved(r) \/ ClearReserved(r)
           \/ CallFails(r)
  <2>1. Leaves(r) /\ job'[r].pc \notin Stored
    BY <1>2, <1>3, <1>5 DEF Reserve, ReplaceAccount, Submit, Finish, ReleaseMaker, ReleaseTaker,
       StartRelease, ClipReserved, ClearReserved, CallFails
  <2>2. db' = db /\ tape' = tape
    BY <1>5 DEF Reserve, ReplaceAccount, Submit, Finish, ReleaseMaker, ReleaseTaker,
       StartRelease, ClipReserved, ClearReserved, CallFails, services, book
  <2> QED  BY <2>1, <2>2 DEF Passing
<1>14. CASE SubtractReserved(r) \/ AddReserved(r)
  <2>1. Leaves(r) /\ job'[r].pc \notin Stored
    BY <1>1, <1>4, <1>14 DEF SubtractReserved, AddReserved, Job
  <2>2. db' = db /\ tape' = tape
    BY <1>14 DEF SubtractReserved, AddReserved, services, book
  <2> QED  BY <2>1, <2>2 DEF Passing
<1>15. CASE CheckReserved(r) \/ ClampReserved(r)
  <2>1. Leaves(r) /\ job'[r].pc \notin Stored
    <3>1. CASE Goto(r, "clampReserved")
      BY <1>2, <3>1
    <3>2. CASE AfterAdjust(r)
      BY <1>1, <1>4, <3>2 DEF AfterAdjust, Job
    <3> QED  BY <1>15, <3>1, <3>2 DEF CheckReserved, ClampReserved
  <2>2. db' = db /\ tape' = tape
    BY <1>15 DEF CheckReserved, ClampReserved, services, book
  <2> QED  BY <2>1, <2>2 DEF Passing
<1>6. CASE GetReserved(r)
  <2>1. Leaves(r) /\ job'[r].pc \notin Stored
    BY <1>1, <1>4, <1>6 DEF GetReserved, Job
  <2> QED  BY <1>6, <2>1 DEF Passing, GetReserved, services, book
<1>7. CASE LoadStatus(r)
  <2>1. Leaves(r) /\ job'[r].pc \notin Stored
    BY <1>1, <1>4, <1>7 DEF LoadStatus, Job
  <2> QED  BY <1>7, <2>1 DEF Passing, LoadStatus, services, book
<1>8. CASE StoreStatus(r)
  <2>1. Leaves(r) /\ job'[r].pc \notin Stored
    BY <1>1, <1>4, <1>8 DEF StoreStatus, Job
  <2> QED  BY <1>8, <2>1 DEF Passing, StoreStatus, services, book
<1>9. CASE LoadReserved(r)
  <2>1. Leaves(r) /\ job'[r].pc \notin Stored
    BY <1>1, <1>4, <1>9 DEF LoadReserved, Job
  <2> QED  BY <1>9, <2>1 DEF Passing, LoadReserved, services, book
<1>10. CASE StoreReserved(r)
  <2>1. Leaves(r) /\ job'[r].pc \notin Stored
    BY <1>1, <1>4, <1>10 DEF StoreReserved, Job
  <2> QED  BY <1>10, <2>1 DEF Passing, StoreReserved, services, book
<1>11. CASE Settle(r)
  <2>1. Leaves(r) /\ job'[r].pc \notin Stored
    <3>1. CASE Fail(r)
      BY <1>3, <3>1
    <3>2. CASE ~Fail(r)
      BY <1>1, <1>4, <1>11, <3>2 DEF Settle, Job, At
    <3> QED  BY <3>1, <3>2
  <2> QED  BY <1>11, <2>1 DEF Passing, Settle, services, book
<1>12. CASE NextAccount(r)
  <2>1. Leaves(r) /\ job'[r].pc \notin Stored
    <3>1. CASE Goto(r, "orders")
      BY <1>2, <3>1
    <3>2. CASE ~Goto(r, "orders")
      <4>1. PICK a \in Accounts :
              job' = [job EXCEPT ![r].pc = "persist", ![r].clone = job[r].accounts[a],
                                 ![r].accounts[a] = None]
        BY <1>12, <3>2 DEF NextAccount
      <4> QED  BY <1>1, <1>4, <4>1 DEF Job
    <3> QED  BY <3>1, <3>2
  <2> QED  BY <1>12, <2>1 DEF Passing, NextAccount, services, book
<1>13. CASE PersistAccount(r)
  <2>1. Leaves(r) /\ job'[r].pc \notin Stored
    <3>1. CASE Fail(r) \/ Goto(r, "replace")
      BY <1>2, <1>3, <3>1
    <3>2. CASE ~(Fail(r) \/ Goto(r, "replace"))
      <4>1. PICK next : job' = [job EXCEPT ![r].pc = "replace", ![r].clone = next]
        BY <1>13, <3>2 DEF PersistAccount
      <4> QED  BY <1>1, <1>4, <4>1 DEF Job
    <3> QED  BY <3>1, <3>2
  <2>2. db'.orders = db.orders
    BY <1>1, <1>13 DEF PersistAccount, Save, Database
  <2> QED  BY <1>13, <2>1, <2>2 DEF Passing, PersistAccount, book
<1> QED
  BY <1>5, <1>6, <1>7, <1>8, <1>9, <1>10, <1>11, <1>12, <1>13, <1>14, <1>15
  DEF Early, Adjusting, Release

(* What it does when its trades are stored: it publishes. *)
Late(r) ==
  \/ PersistTrades(r) \/ Record(r)
  \/ RecordAudit(r) \/ PersistAudit(r) \/ PublishAudit(r) \/ PublishTrade(r)
  \/ TakeSnapshot(r) \/ CacheOrderBook(r) \/ CopyTrades(r) \/ CacheTrades(r)
  \/ CacheAccount(r)

LEMMA LatePasses ==
  ASSUME TypeInvariant, NEW r \in Requests, Late(r) PROVE Passing(r)
<1>1. job \in [Requests -> Job] /\ job[r] \in Job /\ db \in Database
  BY DEF TypeInvariant, Typed
<1>2. ASSUME NEW label \in {"record", "saveAudit", "publishAudit", "publishTrade", "copyTrades",
                             "audit", "submit", "accounts"}, Goto(r, label)
      PROVE  Leaves(r)
  BY <1>2, GotoLeaves DEF WithRow
<1>3. ASSUME NEW label \in {"record", "publishAudit", "copyTrades"}, Answered(r, label)
      PROVE  Leaves(r)
  BY <1>2, <1>3, ReturnLeaves DEF Answered, Fail
<1>4. CASE \/ PersistTrades(r) \/ PersistAudit(r)
  <2>1. Leaves(r) /\ tape' = tape
    BY <1>3, <1>4 DEF PersistTrades, PersistAudit, book
  <2>2. db'.orders = db.orders
    BY <1>1, <1>4 DEF PersistTrades, PersistAudit, Save, Database
  <2> QED  BY <2>1, <2>2 DEF Passing
<1>5. CASE Record(r)
  <2>1. Leaves(r)
    BY <1>1, <1>5 DEF Record, Job, Leaves, WithRow
  <2> QED  BY <1>5, <2>1 DEF Passing, Record, services, book
<1>6. CASE TakeSnapshot(r)
  <2>1. Leaves(r)
    BY <1>1, <1>6 DEF TakeSnapshot, Job, Leaves, WithRow
  <2> QED  BY <1>6, <2>1 DEF Passing, TakeSnapshot, services, book
<1>7. CASE CopyTrades(r)
  <2>1. Leaves(r)
    BY <1>1, <1>7 DEF CopyTrades, Job, Leaves, WithRow
  <2> QED  BY <1>7, <2>1 DEF Passing, CopyTrades, services, book
<1>8. CASE RecordAudit(r) \/ CacheAccount(r)
  <2>1. Leaves(r)
    BY <1>2, <1>8 DEF RecordAudit, CacheAccount
  <2> QED  BY <1>8, <2>1 DEF Passing, RecordAudit, CacheAccount, services, book
<1>9. CASE PublishAudit(r) \/ PublishTrade(r)
  <2>1. Leaves(r)
    BY <1>2, <1>9, AfterEventLeaves, ReturnLeaves DEF PublishAudit, PublishTrade, Fail
  <2> QED  BY <1>9, <2>1 DEF Passing, PublishAudit, PublishTrade, book
<1>10. CASE CacheOrderBook(r) \/ CacheTrades(r)
  <2>1. Leaves(r)
    BY <1>3, <1>10, ReturnLeaves DEF CacheOrderBook, CacheTrades, Fail
  <2> QED  BY <1>10, <2>1 DEF Passing, CacheOrderBook, CacheTrades, book
<1> QED  BY <1>4, <1>5, <1>6, <1>7, <1>8, <1>9, <1>10 DEF Late

(* What a goroutine holds stays sent. *)
LEMMA HeldStaysSent ==
  ASSUME SendInvariant, KeepsSent, NEW q \in Requests
  PROVE  /\ \A o \in job[q].pending : Sent(o)'
         /\ \A i \in 1..Len(job[q].fills) : \A o : o = job[q].fills[i].maker => Sent(o)'
         /\ job[q].pc \in WithRow => \A o : o = job[q].row.id => Sent(o)'
<1>1. job[q] \in Job /\ Local(q) /\ Sending(q)
  BY KnownOf DEF SendInvariant
<1>2. \A o \in job[q].pending : Sent(o)'
  <2>1. job[q].pending \subseteq Orders
    BY <1>1 DEF Job
  <2> QED  BY <1>1, <2>1 DEF Sending, KeepsSent
<1>3. \A i \in 1..Len(job[q].fills) : \A o : o = job[q].fills[i].maker => Sent(o)'
  <2> SUFFICES ASSUME NEW i \in 1..Len(job[q].fills), NEW o, o = job[q].fills[i].maker
               PROVE  Sent(o)'
    OBVIOUS
  <2>1. job[q].fills \in Seq(Trade)
    BY <1>1 DEF Job
  <2>2. job[q].fills[i] \in Trade
    BY <2>1, ElementOfSeq
  <2>3. o \in Orders /\ Sent(o)
    BY <1>1, <2>2 DEF Sending, Trade
  <2> QED  BY <2>3 DEF KeepsSent
<1>4. ASSUME job[q].pc \in WithRow, NEW o, o = job[q].row.id PROVE Sent(o)'
  <2>1. o \in Orders /\ Sent(o)
    BY <1>1, <1>4 DEF Local, Loaded, Row, Sending
  <2> QED  BY <2>1 DEF KeepsSent
<1> QED  BY <1>2, <1>3, <1>4

LEMMA OthersSend ==
  ASSUME SendInvariant, KeepsSent, NEW q \in Requests, job'[q] = job[q] PROVE Sending(q)'
<1>1. Sending(q)
  BY DEF SendInvariant
<1> QED  BY <1>1, HeldStaysSent DEF Sending, Busy, Sent

LEMMA RowsStaySent ==
  ASSUME RowsSent, NEW r \in Requests, db'.orders = db.orders, job'[r].pc # "idle",
         \A q \in Requests \ {r} : job'[q] = job[q]
  PROVE  RowsSent'
BY DEF RowsSent, At

LEMMA PassingSends ==
  ASSUME SendInvariant, KeepsSent, NEW r \in Requests, Passing(r)
  PROVE  RowsSent' /\ \A q \in Requests : Sending(q)'
<1>1. RowsSent'
  BY RowsStaySent DEF SendInvariant, Passing, Leaves
<1>2. Sending(r)'
  <2>1. Sending(r) /\ job[r] \in Job
    BY KnownOf DEF SendInvariant
  <2>2. CASE job'[r].pc \in {"ok", "failed"}
    BY <2>2 DEF Passing, Leaves, Sending, WithRow
  <2>3. CASE job'[r].pc \notin {"ok", "failed"}
    BY <2>3, HeldStaysSent DEF Passing, Leaves, Sending, Busy, Sent
  <2> QED  BY <2>2, <2>3
<1> QED  BY <1>1, <1>2, OthersSend DEF Passing, Leaves

(* The steps that take up a fill, or an order. *)
LEMMA MatchSends ==
  ASSUME SendInvariant, KeepsSent, NEW r \in Requests, Match(r)
  PROVE  RowsSent' /\ \A q \in Requests : Sending(q)'
<1> DEFINE s == orders[r].symbol
           maker == Head(queue[s][Opposite(orders[r].side)])
           fill == FillOf(orders, r, maker)
<1>1. TypeInvariant /\ job \in [Requests -> Job] /\ job[r] \in Job /\ Sending(r)
  BY DEF SendInvariant, TypeInvariant, Typed
<1>2. /\ s \in Symbols /\ Opposite(orders[r].side) \in Sides
      /\ maker \in Range(queue[s][Opposite(orders[r].side)])
      /\ maker \in Orders /\ fill \in Trade /\ fill.maker = maker
  BY ZenonT(40), <1>1, MatchFacts
<1>3. Sent(maker)
  BY <1>1, <1>2 DEF TypeInvariant, Resting, Sent
<1>4. /\ job' = [job EXCEPT ![r].fills = Append(job[r].fills, fill)]
      /\ UNCHANGED services /\ At(r, "match")
  BY DEF Match
<1> HIDE DEF fill, maker
<1>5. /\ job'[r].fills = Append(job[r].fills, fill) /\ job'[r].pending = job[r].pending
      /\ job'[r].pc = "match" /\ \A q \in Requests \ {r} : job'[q] = job[q]
  BY <1>1, <1>4 DEF Job, At
<1>6. RowsSent'
  BY <1>4, <1>5, RowsStaySent DEF SendInvariant, services
<1>7. Sending(r)'
  <2>1. job[r].fills \in Seq(Trade)
    BY <1>1 DEF Job
  <2> HIDE DEF Trade
  <2>2. /\ Len(job'[r].fills) = Len(job[r].fills) + 1 /\ Len(job[r].fills) \in Nat
        /\ \A i \in 1..Len(job[r].fills) : job'[r].fills[i] = job[r].fills[i]
        /\ job'[r].fills[Len(job[r].fills) + 1] = fill
    BY <1>2, <1>5, <2>1, AppendProperties
  <2>3. \A o : o = maker => Sent(o)'
    BY <1>2, <1>3 DEF KeepsSent
  <2>4. ASSUME NEW i \in 1..Len(job'[r].fills), NEW o, o = job'[r].fills[i].maker
        PROVE  Sent(o)'
    <3>1. CASE i = Len(job[r].fills) + 1
      BY <1>2, <2>2, <2>3, <2>4, <3>1
    <3>2. CASE i # Len(job[r].fills) + 1
      <4>1. i \in 1..Len(job[r].fills)
        BY <2>2, <3>2
      <4> QED  BY <2>2, <2>4, <4>1, HeldStaysSent
    <3> QED  BY <3>1, <3>2
  <2>5. \A o \in job[r].pending : Sent(o)'
    BY HeldStaysSent
  <2> QED  BY <1>5, <2>4, <2>5 DEF Sending, Busy, WithRow, Sent
<1> QED  BY <1>5, <1>6, <1>7, OthersSend

LEMMA CollectSends ==
  ASSUME SendInvariant, KeepsSent, NEW r \in Requests, Collect(r)
  PROVE  RowsSent' /\ \A q \in Requests : Sending(q)'
<1>1. TypeInvariant /\ job[r] \in Job /\ Local(r) /\ Sending(r)
  BY KnownOf DEF SendInvariant
<1>2. /\ At(r, "collect") /\ UNCHANGED <<memory, book, services>>
      /\ \A q \in Requests \ {r} : job'[q] = job[q]
      /\ job'[r].fills = job[r].fills /\ Subject(r) \in Orders
      /\ job'[r].pending = job[r].pending \cup {Subject(r)}
      /\ job'[r].pc \in {"collect", "settle", "releaseTaker", "accounts"}
  BY ZenonT(40), <1>1, CollectFacts
<1>3. Sent(Subject(r))
  <2>1. CASE job[r].role = "maker"
    <3>1. job[r].at \in 1..Len(job[r].fills)
      BY <1>1, <1>2, <2>1 DEF Local, Positioned, At
    <3> QED  BY <1>1, <2>1, <3>1 DEF Sending, Subject, Fill
  <2>2. CASE job[r].role # "maker"
    <3>1. Busy(r) /\ job[r].input.kind # "deposit" /\ job[r].pc \in Submitted
      BY <1>1, <1>2, KnownOf DEF At, Busy, Submitted
    <3>2. orders[r] # None /\ orders[r].sequence > 0
      BY <1>1, <3>1 DEF Local, Phased
    <3> QED  BY <2>2, <3>2 DEF Subject, Sent
  <2> QED  BY <2>1, <2>2
<1>4. RowsSent'
  BY <1>2, RowsStaySent DEF SendInvariant, services
<1>5. Sending(r)'
  <2>1. \A o : o = Subject(r) => Sent(o)'
    BY <1>2, <1>3 DEF KeepsSent
  <2> QED  BY <1>2, <2>1, HeldStaysSent DEF Sending, Busy, WithRow, Sent
<1> QED  BY <1>2, <1>4, <1>5, OthersSend

(* The steps with a row. *)
LEMMA RowSends ==
  ASSUME SendInvariant, TypeInvariant', KeepsSent, NEW r \in Requests,
         NextOrder(r) \/ PersistOrder(r) \/ MarshalOrder(r) \/ PublishOrder(r)
  PROVE  RowsSent' /\ \A q \in Requests : Sending(q)'
<1>1. /\ TypeInvariant /\ job \in [Requests -> Job] /\ job[r] \in Job /\ Local(r) /\ Sending(r)
      /\ db \in Database /\ RowsSent
  BY KnownOf DEF SendInvariant, TypeInvariant, Typed
<1>2. CASE NextOrder(r)
  <2>0. db' = db /\ tape' = tape
    BY <1>2 DEF NextOrder, services, book
  <2>1. CASE job[r].pending = {}
    <3>1. Passing(r)
      BY <1>1, <1>2, <2>0, <2>1, GotoLeaves DEF NextOrder, Passing, WithRow
    <3> QED  BY <3>1, PassingSends
  <2>2. CASE job[r].pending # {}
    <3>1. PICK o \in job[r].pending :
            job' = [job EXCEPT ![r].pc = "saveOrder", ![r].pending = @ \ {o},
                               ![r].row = [id |-> o, order |-> orders[o]]]
      BY <1>2, <2>2 DEF NextOrder
    <3>2. /\ job'[r].pc = "saveOrder" /\ job'[r].pending \subseteq job[r].pending
          /\ job'[r].fills = job[r].fills /\ job'[r].row = [id |-> o, order |-> orders[o]]
          /\ \A q \in Requests \ {r} : job'[q] = job[q]
      BY <1>1, <3>1 DEF Job
    <3>3. job'[r].row.id = o /\ job'[r].row.order = orders[o]
      BY <3>2
    <3>4. Sent(o) /\ Sent(o)'
      BY <1>1, HeldStaysSent DEF Sending
    <3>5. Sending(r)'
      BY <3>2, <3>3, <3>4, HeldStaysSent DEF Sending, Busy, Sent
    <3>6. RowsSent'
      BY <1>1, <2>0, <3>2, RowsStaySent
    <3> QED  BY <3>2, <3>5, <3>6, OthersSend
  <2> QED  BY <2>1, <2>2
<1>3. CASE PersistOrder(r)
  <2>1. At(r, "saveOrder") /\ (Goto(r, "marshalOrder") \/ Fail(r))
    BY <1>3 DEF PersistOrder, Answered
  <2>2. /\ job[r].row.id \in Orders /\ job[r].row.order \in Order /\ Sent(job[r].row.id)
        /\ job[r].row.id \in Requests => job[r].row.order.sequence > 0
    BY <1>1, <2>1 DEF Local, Loaded, Row, Sending, At, WithRow
  <2>3. /\ \A o \in Orders : o # job[r].row.id => db'.orders[o] = db.orders[o]
        /\ db'.orders[job[r].row.id] \in {db.orders[job[r].row.id], job[r].row.order}
    BY <1>1, <1>3, <2>2 DEF PersistOrder, Save, Database
  <2>4. \/ /\ job'[r].fills = job[r].fills /\ job'[r].pending = job[r].pending
           /\ job'[r].row = job[r].row /\ job'[r].pc = "marshalOrder"
           /\ \A q \in Requests \ {r} : job'[q] = job[q]
        \/ (Leaves(r) /\ job'[r].pc = "failed")
    BY <1>1, <2>1, ReturnLeaves DEF Goto, Fail, Job
  <2>5. Sending(r)'
    <3>1. CASE Leaves(r) /\ job'[r].pc = "failed"
      BY <3>1 DEF Sending, WithRow, Leaves
    <3>2. CASE ~(Leaves(r) /\ job'[r].pc = "failed")
      <4>1. job[r].pc \in WithRow
        BY <2>1 DEF At, WithRow
      <4> QED  BY <2>2, <2>4, <3>2, <4>1, HeldStaysSent DEF Sending, Busy, Sent
    <3> QED  BY <3>1, <3>2
  <2>6. RowsSent'
    <3> SUFFICES ASSUME NEW q \in Requests, db'.orders[q] # None
                 PROVE  db'.orders[q].sequence > 0 /\ job'[q].pc # "idle"
      BY DEF RowsSent, At
    <3>1. q \in Orders /\ (job[q].pc # "idle" => job'[q].pc # "idle")
      BY <2>4 DEF Leaves, Orders
    <3>2. CASE db'.orders[q] = db.orders[q]
      BY <1>1, <3>1, <3>2 DEF RowsSent, At
    <3>3. CASE q = job[r].row.id /\ db'.orders[q] = job[r].row.order
      <4>1. orders[q] # None
        BY <2>2, <3>3 DEF Sent
      <4>2. job[q].pc # "idle"
        BY <1>1, <4>1 DEF TypeInvariant, Local, Phased, At
      <4> QED  BY <2>2, <3>1, <3>3, <4>2
    <3> QED  BY <2>3, <3>1, <3>2, <3>3
  <2>7. \A q \in Requests \ {r} : job'[q] = job[q]
    BY <2>4 DEF Leaves
  <2> QED  BY <2>5, <2>6, <2>7, OthersSend
<1>4. CASE MarshalOrder(r)
  <2>1. /\ At(r, "marshalOrder") /\ db' = db
        /\ job' = [job EXCEPT ![r].pc = "publishOrder",
                              ![r].row.order = orders[job[r].row.id]]
    BY <1>4 DEF MarshalOrder, services
  <2>2. job[r].row \in Row /\ Sent(job[r].row.id)
    BY <1>1, <2>1 DEF Local, Loaded, Sending, At, WithRow
  <2>3. /\ job'[r].fills = job[r].fills /\ job'[r].pending = job[r].pending
        /\ job'[r].row = [job[r].row EXCEPT !.order = orders[job[r].row.id]]
        /\ job'[r].pc = "publishOrder"
        /\ \A q \in Requests \ {r} : job'[q] = job[q]
    BY <1>1, <2>1 DEF Job
  <2>4. job'[r].row.id = job[r].row.id /\ job'[r].row.order = orders[job[r].row.id]
    BY <2>2, <2>3 DEF Row
  <2>5. job[r].pc \in WithRow
    BY <2>1 DEF At, WithRow
  <2>6. Sending(r)'
    BY <2>2, <2>3, <2>4, <2>5, HeldStaysSent DEF Sending, Busy, Sent
  <2>7. RowsSent'
    BY <1>1, <2>1, <2>3, RowsStaySent
  <2> QED  BY <2>3, <2>6, <2>7, OthersSend
<1>5. CASE PublishOrder(r)
  <2>1. db' = db /\ tape' = tape
    BY <1>5 DEF PublishOrder, book
  <2>2. Leaves(r)
    <3>1. CASE Fail(r)
      BY <1>1, <3>1, ReturnLeaves DEF Fail
    <3>2. CASE ~Fail(r)
      <4>1. job' = [job EXCEPT ![r].pc = "orders", ![r].row = None]
        BY <1>5, <3>2 DEF PublishOrder
      <4> QED  BY <1>1, <4>1 DEF Leaves, Job, WithRow
    <3> QED  BY <3>1, <3>2
  <2> QED  BY <2>1, <2>2, PassingSends DEF Passing
<1> QED  BY <1>2, <1>3, <1>4, <1>5

LEMMA SendStep ==
  ASSUME SendInvariant, Serial => Turns, [Next]_vars PROVE SendInvariant'
<1>1. TypeInvariant /\ TypeInvariant'
  BY TypeStep DEF SendInvariant
<1>2. CASE UNCHANGED vars
  BY <1>1, <1>2 DEF SendInvariant, RowsSent, Sending, Sent, At, Busy, vars, memory, services
<1>3. ASSUME NEW r \in Requests, Accept(r) \/ Serve(r) PROVE SendInvariant'
  <2>1. KeepsSent
    BY <1>1, <1>3, SentStays
  <2>2. CASE Accept(r) \/ Early(r) \/ Late(r)
    BY <1>1, <2>1, <2>2, AcceptLeaves, EarlyPasses, LatePasses, PassingSends DEF SendInvariant
  <2>3. CASE Match(r) \/ Collect(r)
    BY <1>1, <2>1, <2>3, MatchSends, CollectSends DEF SendInvariant
  <2>4. CASE NextOrder(r) \/ PersistOrder(r) \/ MarshalOrder(r) \/ PublishOrder(r)
    BY <1>1, <2>1, <2>4, RowSends DEF SendInvariant
  <2> QED  BY <1>3, <2>2, <2>3, <2>4 DEF Serve, Early, Adjusting, Release, Late
<1> QED  BY <1>2, <1>3 DEF Next, AllAnswered

-----------------------------------------------------------------------------
(* The invariant of a start *)

Starting == {"rebuild", "cacheAccount", "warmTrades"}

(* Nobody is served before everything is back. *)
Booted ==
  /\ boot \in [pc : {"serving", "down"} \cup Starting, accounts : SUBSET Accounts,
               symbols : SUBSET Symbols, at : Accounts \cup Symbols \cup {None}]
  /\ boot.pc = "cacheAccount" => boot.at \in Accounts
  /\ boot.pc = "warmTrades" => boot.at \in Symbols /\ boot.accounts = {}
  /\ ~Serving => Quiet

Recovered == [accounts |-> wallet, orders |-> [o \in OpenRows |-> orders[o]]]

(* Memory is what RebuildReservations made of the rows; what is no longer  *)
(* left to do is in the store and in Redis.                                *)
Restored ==
  boot.pc \in Starting =>
    /\ Relocking(Recovered, OpenRows)
    /\ \A a \in Accounts \ boot.accounts : wallet[a] = db.accounts[a]
    /\ "cache" \in Wired => \A s \in Symbols \ boot.symbols :
         /\ cache.books[s] = Snapshot(orders, queue[s])
         /\ cache.trades[s] = market[s] \/ (boot.pc = "warmTrades" /\ boot.at = s)

(* When requests take turns, no order is in debt once it is restored. *)
Balanced ==
  Serial => /\ Serving => Turns
            /\ boot.pc \in Starting => NoDebt

RecoveryInvariant == SendInvariant /\ Booted /\ Restored /\ Balanced

-----------------------------------------------------------------------------
(* What the store returns is typed *)

LEMMA InOrderTyped ==
  ASSUME NEW S, NEW q \in Seq(S), NEW kept PROVE InOrder(q, kept) \in Seq(S)
<1> DEFINE I == {i \in DOMAIN q : q[i] \in kept}
           n == Cardinality(I)
           R == {p \in I \X I : p[1] < p[2]}
           at == CHOOSE e \in SetToSeqs(I) : \A i, j \in DOMAIN e : i < j => e[i] < e[j]
<1>1. I \in SUBSET Nat /\ IsFiniteSet(I) /\ n \in Nat /\ \A i \in I : i \in 1..Len(q)
  <2>1. DOMAIN q = 1..Len(q) /\ Len(q) \in Nat /\ IsFiniteSet(1..Len(q))
    BY LenProperties, FS_Interval
  <2> QED  BY <2>1, FS_Subset, FS_CardinalityType
<1>2. SetToSeqs(I) \subseteq {e \in [1..n -> I] : \A i, j \in 1..n : i # j => e[i] # e[j]}
  BY DEF SetToSeqs
<1>3. \A a, b : <<a, b>> \in R <=> (a \in I /\ b \in I /\ a < b)
  OBVIOUS
<1> HIDE DEF I, n, R
<1>4. at \in SetToSeqs(I)
  <2>1. PICK e \in SetToSeqs(I) : \A i, j \in DOMAIN e : i < j => <<e[j], e[i]>> \notin R
    <3>1. /\ \A a, b, c \in I : <<a, b>> \in R /\ <<b, c>> \in R => <<a, c>> \in R
          /\ \A a \in I : <<a, a>> \notin R
      BY <1>1, <1>3
    <3> QED  BY <1>1, <3>1, SortedEnumeration
  <2>2. e \in [1..n -> I] /\ \A i, j \in 1..n : i # j => e[i] # e[j]
    BY <1>2
  <2>3. ASSUME NEW i \in DOMAIN e, NEW j \in DOMAIN e, i < j PROVE e[i] < e[j]
    <3>1. e[i] \in I /\ e[j] \in I /\ e[i] # e[j]
      BY <1>1, <2>2, <2>3
    <3>2. <<e[j], e[i]>> \notin R
      BY <2>1, <2>3
    <3>3. ~(e[j] < e[i]) /\ e[i] \in Nat /\ e[j] \in Nat
      BY <1>1, <1>3, <3>1, <3>2
    <3> QED  BY <3>1, <3>3
  <2> QED  BY <2>3
<1> HIDE DEF at
<1>5. at \in [1..n -> I]
  BY <1>2, <1>4
<1>6. [k \in 1..n |-> q[at[k]]] \in Seq(S)
  <2>1. \A k \in 1..n : q[at[k]] \in S
    BY <1>1, <1>5, ElementOfSeq
  <2> QED  BY <1>1, <2>1
<1>7. InOrder(q, kept) = [k \in DOMAIN at |-> q[at[k]]]
  BY DEF InOrder, at, I
<1> QED  BY <1>5, <1>6, <1>7

LEMMA RowsFinite == IsFiniteSet(Requests) => IsFiniteSet(OpenRows)
<1> SUFFICES ASSUME IsFiniteSet(Requests) PROVE IsFiniteSet(OpenRows)
  OBVIOUS
<1>1. IsFiniteSet(Orders)
  BY ExchangeAssumption, FS_Union DEF Orders
<1> QED  BY <1>1, FS_Subset DEF OpenRows

-----------------------------------------------------------------------------
(* A stop *)

(* A goroutine that has returned says nothing of the state. *)
LEMMA ResetIsLocal ==
  ASSUME NEW r \in Requests, job'[r].pc \in {"idle", "ok", "failed"},
         job'[r].pc = "idle" => job'[r] = Idle /\ orders'[r] = None,
         job'[r].pc # "idle" => job'[r].input \in Inputs,
         job'[r].fills = << >>, job'[r].pending = {}
  PROVE  Local(r)'
<1>1. job'[r].pc \notin Syncing \cup Auditing \cup InFill \cup WithRow
  BY DEF Syncing, Auditing, InFill, WithRow
<1>2. Phased(r)'
  BY DEF Phased, At, Busy
<1>3. Positioned(r)'
  BY <1>1 DEF Positioned, At
<1>4. Priced(r)'
  BY DEF Priced
<1>5. Loaded(r)'
  BY <1>1 DEF Loaded, At
<1> QED  BY <1>2, <1>3, <1>4, <1>5 DEF Local

(* Nobody holds anything of a process that is gone. *)
LEMMA StopKeeps == RecoveryInvariant /\ Stop => RecoveryInvariant'
<1> SUFFICES ASSUME RecoveryInvariant, Stop PROVE RecoveryInvariant'
  OBVIOUS
<1>1. TypeInvariant /\ Typed /\ job \in [Requests -> Job]
  BY DEF RecoveryInvariant, SendInvariant, TypeInvariant, Typed
<1>2. /\ UNCHANGED <<memory, book, services>> /\ boot' = Phase("down")
      /\ job' = [r \in Requests |->
           IF Busy(r) THEN [Idle EXCEPT !.pc = "failed", !.input = job[r].input] ELSE job[r]]
  BY DEF Stop
<1>3. ASSUME NEW r \in Requests
      PROVE  /\ job'[r] \in Job /\ job'[r].pc \in {"idle", "ok", "failed"}
             /\ job'[r].pc = "idle" => job'[r] = job[r]
             /\ job'[r].pc # "idle" => job'[r].input \in Inputs
             /\ job'[r].fills = << >> /\ job'[r].pending = {}
  <2>1. Local(r) /\ Sending(r) /\ job[r] \in Job
    BY KnownOf DEF RecoveryInvariant, SendInvariant
  <2>2. CASE Busy(r)
    <3> DEFINE j == [Idle EXCEPT !.pc = "failed", !.input = job[r].input]
    <3>1. job'[r] = j /\ job[r].input \in Inputs
      BY <1>2, <2>1, <2>2 DEF Local, Phased, Busy, At
    <3>2. j.pc = "failed" /\ j.input = job[r].input /\ j.fills = << >> /\ j.pending = {}
      BY DEF Idle
    <3>3. j \in Job
      BY <3>1, IdleTyped DEF Job, Labels
    <3> HIDE DEF j
    <3> QED  BY <3>1, <3>2, <3>3
  <2>3. CASE ~Busy(r)
    <3>1. job'[r] = job[r]
      BY ZenonT(40), <1>2, <2>3
    <3> QED  BY <2>1, <2>3, <3>1 DEF Local, Phased, Busy, At, Sending
  <2> QED  BY <2>2, <2>3
<1>4. job' \in [Requests -> Job]
  BY <1>2, <1>3
<1>5. Typed'
  BY <1>1, <1>2, <1>4 DEF Typed, memory, book, services
<1>6. \A r \in Requests : Local(r)'
  <2> TAKE r \in Requests
  <2>1. job'[r].pc = "idle" => job'[r] = Idle /\ orders'[r] = None
    <3>1. Local(r) /\ orders' = orders
      BY <1>1, <1>2 DEF TypeInvariant, memory
    <3> QED  BY <1>3, <3>1 DEF Local, Phased, At
  <2> QED  BY <1>3, <2>1, ResetIsLocal
<1>7. Resting'
  BY ZenonT(40), <1>1, <1>2, <1>3 DEF TypeInvariant, Resting, At, memory, book
<1>8. RowsSent' /\ \A r \in Requests : Sending(r)'
  <2>1. RowsSent'
    BY ZenonT(40), <1>2, <1>3 DEF RecoveryInvariant, SendInvariant, RowsSent, At, services
  <2>2. \A r \in Requests : Sending(r)'
    BY <1>3 DEF Sending, WithRow
  <2> QED  BY <2>1, <2>2
<1>9. Booted' /\ Restored' /\ Balanced'
  <2>1. boot'.pc = "down" /\ boot' = [pc |-> "down", accounts |-> {}, symbols |-> {}, at |-> None]
    BY <1>2 DEF Phase
  <2>2. Quiet'
    BY <1>3 DEF Quiet, Busy
  <2> QED  BY <2>1, <2>2 DEF Booted, Restored, Balanced, Serving, Starting
<1> QED  BY <1>5, <1>6, <1>7, <1>8, <1>9 DEF RecoveryInvariant, SendInvariant, TypeInvariant

-----------------------------------------------------------------------------
(* A start *)

LEMMA RecoveredRelocks ==
  ASSUME OpenRows' = OpenRows, Rows' = Rows, NEW D, D = OpenRows,
         NEW again, again = Recovered', Relocking(again, D)'
  PROVE  Relocking(Recovered, OpenRows)'
<1>1. \A lock : Parts(Recovered, OpenRows, lock)' = Parts(again, D, lock)'
  BY DEF Parts
<1> QED  BY <1>1 DEF Relocking

LEMMA RelockingStays ==
  ASSUME db' = db, NEW state, Relocking(state, OpenRows),
         wallet' = state.accounts, \A o \in OpenRows : orders'[o] = state.orders[o]
  PROVE  Relocking(Recovered, OpenRows)'
<1>1. OpenRows' = OpenRows /\ Rows' = Rows
  BY DEF OpenRows, Rows
<1>2. PICK D, rows, accounts, again :
        /\ D = OpenRows /\ rows = Rows /\ accounts = db.accounts
        /\ again = [accounts |-> state.accounts, orders |-> state.orders]
  OBVIOUS
<1>3. Recovered' = again
  <2>1. state.orders = [o \in OpenRows |-> state.orders[o]]
    BY DEF Relocking
  <2>2. again = [accounts |-> state.accounts, orders |-> [o \in OpenRows |-> state.orders[o]]]
    BY SMTT(40), <1>2, <2>1
  <2> QED  BY <1>1, <2>2 DEF Recovered
<1>4. Relocking(again, D)
  <2>1. again.accounts = state.accounts /\ again.orders = state.orders
    BY <1>2
  <2>2. \A lock : Parts(again, D, lock) = Parts(state, D, lock)
    BY <2>1 DEF Parts
  <2> HIDE DEF Parts
  <2> QED  BY <1>2, <2>1, <2>2 DEF Relocking
<1>5. Relocking(again, D)'
  <2>1. \A lock : Parts(again, D, lock)' = Parts(again, D, lock)
    BY <1>1 DEF Parts
  <2> QED  BY SMTT(60), <1>1, <1>4, <2>1 DEF Relocking
<1> QED  BY <1>1, <1>2, <1>3, <1>5, RecoveredRelocks

LEMMA BootstrapKeeps ==
  ASSUME IsFiniteSet(Requests), RecoveryInvariant, Bootstrap PROVE RecoveryInvariant'
<1>1. /\ TypeInvariant /\ Typed /\ db \in Database /\ Quiet /\ RowsSent
      /\ tape \in [Symbols -> Seq(Trade)]
  BY DEF RecoveryInvariant, SendInvariant, TypeInvariant, Typed, Booted, Bootstrap, Serving
<1>2. PICK ids \in SetToSeqs(OpenRows) :
        /\ wallet' = Rebuilt(ids).accounts
        /\ orders' = [o \in Orders |-> IF o \in OpenRows THEN Rebuilt(ids).orders[o] ELSE None]
  BY DEF Bootstrap
<1>3. PICK kept : market' = [s \in Symbols |-> InOrder(tape[s], kept)]
  BY DEF Bootstrap
<1>4. /\ auditLog' \in OldestEvents
      /\ queue' = [s \in Symbols |-> RestoredBook(Rows, s)]
      /\ seq' = [s \in Symbols |-> RestoredSeq(Rows, s)]
      /\ holder' = [s \in Symbols |-> None]
      /\ UNCHANGED <<tape, db, cache, bus, job>>
  BY DEF Bootstrap, services
<1>5. /\ IsFiniteSet(OpenRows) /\ OpenRows \in SUBSET Orders
      /\ Rows \in [OpenRows -> Order] /\ DOMAIN Rows = OpenRows
  BY <1>1, RowsFinite, RowsTyped
<1>6. Relocking(Rebuilt(ids), OpenRows)
  BY <1>1, <1>5, RebuiltFacts
<1>7. PICK state : state = Rebuilt(ids)
  OBVIOUS
<1>8. /\ wallet' = state.accounts /\ Relocking(state, OpenRows)
      /\ \A o \in OpenRows : orders'[o] = state.orders[o]
      /\ \A o \in Orders \ OpenRows : orders'[o] = None
  BY <1>2, <1>5, <1>6, <1>7
<1>9. /\ wallet' \in [Accounts -> Solvent] /\ state.orders \in [OpenRows -> Order]
      /\ \A a \in Accounts : (\A o \in OpenRows : LockOf(Rows[o])[1] # a) =>
           wallet'[a] = db.accounts[a]
      /\ \A o \in OpenRows : orders'[o] = [Rows[o] EXCEPT !.reserved = orders'[o].reserved]
  BY <1>8 DEF Relocking
<1>10. ASSUME NEW o \in OpenRows
       PROVE  /\ orders'[o] \in Order /\ orders'[o] # None /\ Rows[o] \in Order
              /\ orders'[o].sequence = Rows[o].sequence
              /\ o \in Requests => Rows[o].sequence > 0 /\ ~At(o, "idle")
  <2>1. orders'[o] \in Order /\ orders'[o] # None
    <3>1. orders'[o] = state.orders[o]
      BY <1>8
    <3>2. state.orders[o] \in Order
      BY <1>9
    <3> QED  BY <3>1, <3>2, ExchangeAssumption
  <2>2. orders'[o].sequence = Rows[o].sequence
    <3>1. PICK n : orders'[o] = [Rows[o] EXCEPT !.reserved = n]
      BY <1>9
    <3>2. Rows[o] \in Order
      BY <1>5
    <3> QED  BY <3>1, <3>2 DEF Order
  <2>3. o \in Requests => Rows[o].sequence > 0 /\ ~At(o, "idle")
    BY <1>1 DEF RowsSent, OpenRows, Rows
  <2> QED  BY <1>5, <2>1, <2>2, <2>3
<1>11. orders' \in [Orders -> Order \cup {None}]
  <2>1. \A o \in Orders : orders'[o] \in Order \cup {None}
    BY <1>8, <1>10
  <2> QED  BY <1>2, <2>1
<1>12. \A s \in Symbols : /\ RestoredBook(Rows, s) \in [Sides -> Seq(Orders)]
                          /\ \A side \in Sides : Range(RestoredBook(Rows, s)[side]) \subseteq OpenRows
  BY <1>5, RestoredBookTyped
<1>13. \A s \in Symbols : RestoredSeq(Rows, s) \in Nat
  BY <1>5, RestoredSeqTyped
<1>14. \A s \in Symbols : InOrder(tape[s], kept) \in Seq(Trade)
  BY <1>1, InOrderTyped
<1>15. auditLog' \in SUBSET (Requests \X Nat)
  BY <1>1, <1>4 DEF OldestEvents, kSubset, Database
<1>16. Typed'
  <2>1. /\ queue' \in [Symbols -> [Sides -> Seq(Orders)]] /\ seq' \in [Symbols -> Nat]
        /\ market' \in [Symbols -> Seq(Trade)] /\ holder' \in [Symbols -> Requests \cup {None}]
    BY <1>3, <1>4, <1>12, <1>13, <1>14
  <2> QED  BY <1>1, <1>4, <1>9, <1>11, <1>15, <2>1 DEF Typed
<1>17. ASSUME NEW r \in Requests
       PROVE  /\ job'[r] = job[r] /\ job[r].pc \in {"idle", "ok", "failed"}
              /\ job[r].pc = "idle" => job[r] = Idle
              /\ job[r].pc # "idle" => job[r].input \in Inputs
              /\ job[r].fills = << >> /\ job[r].pending = {}
  <2>1. Local(r) /\ Sending(r)
    BY DEF RecoveryInvariant, SendInvariant, TypeInvariant
  <2> QED  BY <1>1, <1>4, <2>1 DEF Quiet, Busy, Local, Phased, At, Sending
<1>18. \A r \in Requests : Local(r)'
  <2> TAKE r \in Requests
  <2>1. job[r].pc = "idle" => orders'[r] = None
    BY <1>8, <1>10 DEF Orders, At
  <2> QED  BY <1>17, <2>1, ResetIsLocal
<1>19. Resting'
  <2> SUFFICES ASSUME NEW s \in Symbols, NEW side \in Sides, NEW o \in Range(queue'[s][side])
               PROVE  /\ orders'[o] # None
                      /\ o \in Requests => orders'[o].sequence > 0 /\ job'[o].pc # "match"
    BY DEF Resting, At
  <2>1. o \in OpenRows
    BY <1>4, <1>12
  <2> QED  BY <1>10, <1>17, <2>1
<1>20. RowsSent' /\ \A r \in Requests : Sending(r)'
  <2>1. RowsSent'
    BY <1>1, <1>4 DEF RowsSent, At
  <2>2. \A r \in Requests : Sending(r)'
    BY <1>17 DEF Sending, WithRow
  <2> QED  BY <2>1, <2>2
<1> DEFINE left == IF OpenRows # {} THEN {Rows[o].account : o \in OpenRows}
                   ELSE {a \in Accounts : db.accounts[a].version > 0}
<1>21. left \in SUBSET Accounts
  BY <1>5 DEF Order
<1>22. boot' = [pc |-> "rebuild", accounts |-> left, symbols |-> Symbols, at |-> None]
  BY DEF Bootstrap, Phase
<1>23. Booted'
  <2>1. Quiet'
    BY <1>17 DEF Quiet, Busy
  <2> HIDE DEF left
  <2> QED  BY <1>21, <1>22, <2>1 DEF Booted, Starting
<1>24. Restored'
  <2>1. Relocking(Recovered, OpenRows)'
    BY <1>4, <1>8, RelockingStays
  <2>2. ASSUME NEW a \in Accounts \ left PROVE wallet'[a] = db'.accounts[a]
    <3>1. \A o \in OpenRows : LockOf(Rows[o])[1] # a
      <4>1. \A o \in OpenRows : LockOf(Rows[o])[1] = Rows[o].account
        BY DEF LockOf
      <4> QED  BY <2>2, <4>1
    <3> QED  BY <1>4, <1>9, <3>1
  <2> HIDE DEF left
  <2> QED  BY <1>22, <2>1, <2>2 DEF Restored
<1>25. Balanced'
  <2>1. ASSUME Serial, NEW o \in Orders, orders'[o] # None PROVE orders'[o].reserved >= 0
    BY <1>8, <2>1 DEF Relocking
  <2> HIDE DEF left
  <2> QED  BY <1>22, <2>1 DEF Balanced, NoDebt, Serving, Serial, InCredit
<1> QED
  BY <1>16, <1>18, <1>19, <1>20, <1>23, <1>24, <1>25
  DEF RecoveryInvariant, SendInvariant, TypeInvariant

(* The other steps of a start are about accounts, or Redis. *)
LEMMA StartingSends ==
  ASSUME SendInvariant, Typed', UNCHANGED <<orders, queue, job>>, db'.orders = db.orders
  PROVE  SendInvariant'
<1>1. Resting' /\ \A r \in Requests : Local(r)'
  BY DEF SendInvariant, TypeInvariant, Resting, Local, Phased, Positioned, Priced, Loaded, Fresh,
     At, Busy, Crosses
<1>2. RowsSent' /\ \A r \in Requests : Sending(r)'
  BY DEF SendInvariant, RowsSent, Sending, Sent, At, Busy
<1> QED  BY <1>1, <1>2 DEF SendInvariant, TypeInvariant

LEMMA SyncKeepsRelocking ==
  ASSUME db \in Database, wallet \in [Accounts -> Solvent], Relocking(Recovered, OpenRows),
         NEW a \in Accounts, NEW next, next = [wallet[a] EXCEPT !.version = @ + 1],
         db' = [db EXCEPT !.accounts[a] = next], wallet' = [wallet EXCEPT ![a] = next],
         orders' = orders
  PROVE  Relocking(Recovered, OpenRows)'
<1>1. db'.orders = db.orders /\ db'.accounts = [db.accounts EXCEPT ![a] = next]
  BY DEF Database
<1>2. OpenRows' = OpenRows /\ Rows' = Rows
  BY <1>1 DEF OpenRows, Rows
<1>3. /\ next.id = wallet[a].id /\ next.version = wallet[a].version + 1
      /\ next.balances = wallet[a].balances /\ next \in Solvent
  <2>1. wallet[a] \in Solvent
    OBVIOUS
  <2> QED  BY <2>1 DEF Solvent
<1>4. /\ wallet'[a] = next /\ db'.accounts[a] = next
      /\ \A b \in Accounts \ {a} : wallet'[b] = wallet[b] /\ db'.accounts[b] = db.accounts[b]
      /\ wallet' \in [Accounts -> Solvent]
  BY <1>1, <1>3 DEF Database
<1>5. \A b \in Accounts : wallet'[b].balances = wallet[b].balances
  BY <1>3, <1>4
<1>6. Recovered'.accounts = wallet' /\ Recovered.accounts = wallet
      /\ Recovered'.orders = Recovered.orders
  BY <1>2 DEF Recovered
<1>7. \A lock : Parts(Recovered, OpenRows, lock)' = Parts(Recovered, OpenRows, lock)
  BY <1>2, <1>6 DEF Parts
<1>8. \A o \in OpenRows : LockOf(Rows[o])[1] \in Accounts
  BY RowsTyped
<1> HIDE DEF Recovered
<1>9. ASSUME NEW b \in Accounts
      PROVE  /\ wallet'[b].id = db'.accounts[b].id
             /\ wallet'[b].version = db'.accounts[b].version
             /\ \A x \in Assets : Total(wallet'[b], x) = Total(db'.accounts[b], x)
             /\ (\A o \in OpenRows : LockOf(Rows[o])[1] # b) => wallet'[b] = db'.accounts[b]
  <2>1. CASE b = a
    BY <1>4, <2>1
  <2>2. CASE b # a
    <3>1. wallet'[b] = wallet[b] /\ db'.accounts[b] = db.accounts[b]
      BY <1>4, <2>2
    <3>2. /\ wallet[b].id = db.accounts[b].id /\ wallet[b].version = db.accounts[b].version
          /\ \A x \in Assets : Total(wallet[b], x) = Total(db.accounts[b], x)
          /\ (\A o \in OpenRows : LockOf(Rows[o])[1] # b) => wallet[b] = db.accounts[b]
      BY <1>6 DEF Relocking
    <3> QED  BY <3>1, <3>2
  <2> QED  BY <2>1, <2>2
<1>10. ASSUME NEW o \in OpenRows
       PROVE  LET lock == LockOf(Rows[o])  balance == wallet'[lock[1]].balances[lock[2]] IN
              /\ balance.locked = SumFunctionOnSet(Parts(Recovered, OpenRows, lock), OpenRows)
              /\ o \in OpenRows /\ balance.available > 0 =>
                   Recovered.orders[o].reserved = Wanted(Rows[o])
  <2>1. wallet'[LockOf(Rows[o])[1]].balances = wallet[LockOf(Rows[o])[1]].balances
    BY SMTT(40), <1>5, <1>8
  <2>2. LET lock == LockOf(Rows[o])  balance == wallet[lock[1]].balances[lock[2]] IN
        /\ balance.locked = SumFunctionOnSet(Parts(Recovered, OpenRows, lock), OpenRows)
        /\ balance.available > 0 => Recovered.orders[o].reserved = Wanted(Rows[o])
    BY SMTT(40), <1>6 DEF Relocking
  <2> QED  BY <2>1, <2>2
<1>11. /\ Recovered.orders \in [OpenRows -> Order]
       /\ \A o \in OpenRows :
            Recovered.orders[o] = [Rows[o] EXCEPT !.reserved = Recovered.orders[o].reserved]
  BY DEF Relocking
<1>12. PICK D, again : D = OpenRows /\ again = Recovered'
  OBVIOUS
<1>13. \A lock : Parts(again, D, lock)' = Parts(Recovered, OpenRows, lock)
  BY SMTT(40), <1>2, <1>6, <1>12 DEF Parts
<1> HIDE DEF Parts
<1>14. Relocking(again, D)'
  <2>1. again.accounts = wallet' /\ again.orders = Recovered.orders
    BY SMTT(40), <1>6, <1>12
  <2>2. (\A o \in OpenRows :
           LET lock == LockOf(Rows[o])  balance == again.accounts[lock[1]].balances[lock[2]] IN
           /\ balance.locked = SumFunctionOnSet(Parts(again, D, lock), OpenRows)
           /\ o \in D /\ balance.available > 0 => again.orders[o].reserved = Wanted(Rows[o]))'
    BY <1>2, <1>10, <1>12, <1>13, <2>1
  <2>3. (\A b \in Accounts :
           /\ again.accounts[b].id = db.accounts[b].id
           /\ again.accounts[b].version = db.accounts[b].version
           /\ \A x \in Assets : Total(again.accounts[b], x) = Total(db.accounts[b], x)
           /\ (\A o \in OpenRows : LockOf(Rows[o])[1] # b) => again.accounts[b] = db.accounts[b])'
    BY <1>2, <1>9, <2>1
  <2>4. (/\ again.accounts \in [Accounts -> Solvent]
         /\ again.orders \in [OpenRows -> Order]
         /\ \A o \in OpenRows :
              IF o \in D THEN again.orders[o] = [Rows[o] EXCEPT !.reserved = again.orders[o].reserved]
                         ELSE again.orders[o] = Rows[o])'
    BY <1>2, <1>4, <1>11, <1>12, <2>1
  <2>5. (Serial => \A o \in D : again.orders[o].reserved >= 0)'
    <3>1. Serial => \A o \in OpenRows : Recovered.orders[o].reserved >= 0
      BY DEF Relocking
    <3> QED  BY <1>12, <2>1, <3>1 DEF Serial, InCredit
  <2> QED  BY ZenonT(40), <2>2, <2>3, <2>4, <2>5 DEF Relocking
<1> QED  BY <1>2, <1>12, <1>14, RecoveredRelocks

LEMMA SyncAccountKeeps ==
  ASSUME RecoveryInvariant, NEW a \in Accounts, SyncAccount(a) PROVE RecoveryInvariant'
<1> DEFINE next == [wallet[a] EXCEPT !.version = @ + 1]
<1>1. /\ SendInvariant /\ Typed /\ db \in Database /\ wallet \in [Accounts -> Solvent]
      /\ Quiet /\ boot.pc = "rebuild" /\ Restored
      /\ boot \in [pc : {"serving", "down"} \cup Starting, accounts : SUBSET Accounts,
                   symbols : SUBSET Symbols, at : Accounts \cup Symbols \cup {None}]
  BY DEF RecoveryInvariant, SendInvariant, TypeInvariant, Typed, Booted, SyncAccount, Serving
<1>2. UNCHANGED <<orders, market, auditLog, book, cache, bus, job>>
  BY DEF SyncAccount
<1>3. CASE db.accounts[a].version = wallet[a].version
  <2>1. /\ db' = [db EXCEPT !.accounts[a] = next] /\ wallet' = [wallet EXCEPT ![a] = next]
        /\ boot' = [boot EXCEPT !.pc = "cacheAccount", !.at = a, !.accounts = boot.accounts \ {a}]
    BY <1>3 DEF SyncAccount
  <2>2. next \in Solvent
    <3>1. wallet[a] \in Solvent
      BY <1>1
    <3> QED  BY <3>1 DEF Solvent
  <2>3. Relocking(Recovered, OpenRows)'
    BY <1>1, <1>2, <2>1, SyncKeepsRelocking DEF Restored, Starting
  <2> HIDE DEF next
  <2>4. db' \in Database /\ wallet' \in [Accounts -> Solvent] /\ db'.orders = db.orders
    BY <1>1, <2>1, <2>2 DEF Database
  <2>5. SendInvariant'
    <3>1. Typed'
      BY <1>1, <1>2, <2>4 DEF Typed, book
    <3> QED  BY <1>1, <1>2, <2>4, <3>1, StartingSends DEF book
  <2>6. /\ boot'.pc = "cacheAccount" /\ boot'.at = a /\ boot'.accounts = boot.accounts \ {a}
        /\ boot'.symbols = boot.symbols
        /\ boot' \in [pc : {"serving", "down"} \cup Starting, accounts : SUBSET Accounts,
                      symbols : SUBSET Symbols, at : Accounts \cup Symbols \cup {None}]
    BY <1>1, <2>1 DEF Starting
  <2>7. Booted'
    BY <1>1, <1>2, <2>6 DEF Booted, Quiet, Busy
  <2>8. \A b \in Accounts \ boot'.accounts : wallet'[b] = db'.accounts[b]
    <3>1. \A b \in Accounts \ boot.accounts : wallet[b] = db.accounts[b]
      BY <1>1 DEF Restored, Starting
    <3>2. /\ wallet'[a] = next /\ db'.accounts[a] = next
          /\ \A b \in Accounts \ {a} : wallet'[b] = wallet[b] /\ db'.accounts[b] = db.accounts[b]
      BY <1>1, <2>1 DEF Database
    <3> QED  BY <2>6, <3>1, <3>2
  <2>9. "cache" \in Wired => \A s \in Symbols \ boot'.symbols :
          /\ cache'.books[s] = Snapshot(orders', queue'[s])
          /\ cache'.trades[s] = market'[s]
    BY <1>1, <1>2, <2>6 DEF Restored, Starting, book
  <2>10. Restored'
    BY <2>3, <2>8, <2>9 DEF Restored
  <2>11. Balanced'
    <3>1. Serial => NoDebt
      BY <1>1 DEF RecoveryInvariant, Balanced, Starting
    <3> QED  BY <1>2, <2>6, <3>1 DEF Balanced, NoDebt, Serving, Serial, InCredit
  <2> QED  BY <2>5, <2>7, <2>10, <2>11 DEF RecoveryInvariant
<1>4. CASE db.accounts[a].version # wallet[a].version
  <2>1. UNCHANGED <<db, wallet>> /\ boot' = Phase("down")
    BY <1>4 DEF SyncAccount
  <2>2. boot' = [pc |-> "down", accounts |-> {}, symbols |-> {}, at |-> None]
    BY <2>1 DEF Phase
  <2>3. SendInvariant'
    <3>1. Typed'
      BY <1>1, <1>2, <2>1 DEF Typed, book
    <3> QED  BY <1>1, <1>2, <2>1, <3>1, StartingSends DEF book
  <2>4. Booted' /\ Restored' /\ Balanced'
    BY <1>1, <1>2, <2>2 DEF Booted, Restored, Balanced, Serving, Starting, Quiet, Busy
  <2> QED  BY <2>3, <2>4 DEF RecoveryInvariant
<1> QED  BY <1>3, <1>4

(* Redis is filled from memory. *)
LEMMA WarmingKeeps ==
  ASSUME RecoveryInvariant, UNCHANGED <<memory, book, db, bus, job>>, cache' \in Redis,
         boot.pc \in Starting, boot'.pc \in Starting, Booted', Restored'
  PROVE  RecoveryInvariant'
<1>1. SendInvariant /\ Typed
  BY DEF RecoveryInvariant, SendInvariant, TypeInvariant
<1>2. Typed'
  BY <1>1 DEF Typed, memory, book
<1>3. SendInvariant'
  BY <1>1, <1>2, StartingSends DEF memory, book
<1>4. Balanced'
  <2>1. Serial => NoDebt
    BY DEF RecoveryInvariant, Balanced
  <2> QED  BY <2>1 DEF Balanced, NoDebt, Serving, Starting, Serial, InCredit, memory
<1> QED  BY <1>3, <1>4 DEF RecoveryInvariant

LEMMA CachingKeeps ==
  ASSUME RecoveryInvariant, BootCache \/ WarmTrades \/ \E s \in Symbols : WarmBook(s)
  PROVE  RecoveryInvariant'
<1>1. /\ SendInvariant /\ Typed /\ cache \in Redis /\ wallet \in [Accounts -> Solvent]
      /\ orders \in [Orders -> Order \cup {None}] /\ Resting
      /\ queue \in [Symbols -> [Sides -> Seq(Orders)]] /\ market \in [Symbols -> Seq(Trade)]
      /\ Quiet /\ Restored /\ boot.pc \in Starting
      /\ boot \in [pc : {"serving", "down"} \cup Starting, accounts : SUBSET Accounts,
                   symbols : SUBSET Symbols, at : Accounts \cup Symbols \cup {None}]
  BY DEF RecoveryInvariant, SendInvariant, TypeInvariant, Typed, Booted, BootCache, WarmBook,
     WarmTrades, Serving, Starting
<1>2. /\ UNCHANGED <<memory, book, db, bus, job>>
      /\ UNCHANGED <<wallet, orders, market, queue, tape>>
  BY DEF BootCache, WarmBook, WarmTrades, memory, book
<1>3. /\ Relocking(Recovered, OpenRows)
      /\ \A a \in Accounts \ boot.accounts : wallet[a] = db.accounts[a]
      /\ "cache" \in Wired => \A s \in Symbols \ boot.symbols :
           /\ cache.books[s] = Snapshot(orders, queue[s])
           /\ cache.trades[s] = market[s] \/ (boot.pc = "warmTrades" /\ boot.at = s)
  BY <1>1 DEF Restored
<1>4. Relocking(Recovered, OpenRows)'
  BY <1>2, <1>3, RelockingStays DEF Recovered
<1>5. Quiet'
  BY <1>1, <1>2 DEF Quiet, Busy
<1>6. CASE BootCache
  <2>1. boot.at \in Accounts /\ boot.pc = "cacheAccount"
    BY <1>6 DEF BootCache, RecoveryInvariant, Booted
  <2>2. /\ boot'.pc = "rebuild" /\ boot'.accounts = boot.accounts /\ boot'.symbols = boot.symbols
        /\ boot' \in [pc : {"serving", "down"} \cup Starting, accounts : SUBSET Accounts,
                      symbols : SUBSET Symbols, at : Accounts \cup Symbols \cup {None}]
    BY <1>1, <1>6 DEF BootCache, Starting
  <2>3. cache' \in Redis /\ cache'.books = cache.books /\ cache'.trades = cache.trades
    <3>1. CASE cache' = cache
      BY <1>1, <3>1
    <3>2. CASE cache' # cache
      <4>1. cache' = [cache EXCEPT !.accounts = [cache.accounts EXCEPT ![boot.at] = wallet[boot.at]]]
        BY <1>6, <3>2 DEF BootCache, Keep
      <4>2. [cache.accounts EXCEPT ![boot.at] = wallet[boot.at]] \in [Accounts -> Solvent \cup {None}]
        BY <1>1, <2>1 DEF Redis
      <4> QED  BY <1>1, <4>1, <4>2 DEF Redis
    <3> QED  BY <3>1, <3>2
  <2>4. Booted'
    BY <1>5, <2>2 DEF Booted
  <2>5. Restored'
    BY <1>2, <1>3, <1>4, <2>1, <2>2, <2>3 DEF Restored
  <2> QED  BY <1>1, <1>2, <2>2, <2>3, <2>4, <2>5, WarmingKeeps DEF Starting
<1>7. CASE WarmTrades
  <2>1. boot.at \in Symbols /\ boot.pc = "warmTrades"
    BY <1>7 DEF WarmTrades, RecoveryInvariant, Booted
  <2>2. /\ boot'.pc = "rebuild" /\ boot'.accounts = boot.accounts /\ boot'.symbols = boot.symbols
        /\ boot' \in [pc : {"serving", "down"} \cup Starting, accounts : SUBSET Accounts,
                      symbols : SUBSET Symbols, at : Accounts \cup Symbols \cup {None}]
    BY <1>1, <1>7 DEF WarmTrades, Starting
  <2>3. /\ cache' \in Redis /\ cache'.books = cache.books
        /\ "cache" \in Wired => cache'.trades[boot.at] = market[boot.at]
        /\ \A s \in Symbols : s # boot.at => cache'.trades[s] = cache.trades[s]
    <3>1. market[boot.at] \in Seq(Trade)
      BY <1>1, <2>1
    <3> HIDE DEF Trade
    <3> QED  BY <1>1, <1>7, <2>1, <3>1 DEF WarmTrades, Keep, Redis
  <2>4. Booted'
    BY <1>5, <2>2 DEF Booted
  <2>5. Restored'
    BY <1>2, <1>3, <1>4, <2>2, <2>3 DEF Restored
  <2> QED  BY <1>1, <1>2, <2>2, <2>3, <2>4, <2>5, WarmingKeeps DEF Starting
<1>8. CASE \E s \in Symbols : WarmBook(s)
  <2>1. PICK s \in Symbols : WarmBook(s)
    BY <1>8
  <2> DEFINE view == Snapshot(orders, queue[s])
  <2>2. view \in Book
    <3>1. \A side \in Sides : \A o \in Range(queue[s][side]) : orders[o] \in Order
      <4>1. \A side \in Sides : Range(queue[s][side]) \subseteq Orders
        BY <1>1, RangeProperties
      <4> QED  BY <1>1, <4>1 DEF Resting
    <3> QED  BY <1>1, <3>1, SnapshotTyped
  <2> HIDE DEF view
  <2>3. /\ boot.pc = "rebuild" /\ boot.accounts = {}
        /\ cache' = IF "cache" \in Wired THEN [cache EXCEPT !.books[s] = view] ELSE cache
        /\ boot' = [boot EXCEPT !.pc = "warmTrades", !.at = s, !.symbols = boot.symbols \ {s}]
    BY <2>1 DEF WarmBook, Keep, view
  <2>4. /\ boot'.pc = "warmTrades" /\ boot'.accounts = {} /\ boot'.symbols = boot.symbols \ {s}
        /\ boot'.at = s
        /\ boot' \in [pc : {"serving", "down"} \cup Starting, accounts : SUBSET Accounts,
                      symbols : SUBSET Symbols, at : Accounts \cup Symbols \cup {None}]
    BY <1>1, <2>3 DEF Starting
  <2>5. /\ cache' \in Redis /\ cache'.trades = cache.trades
        /\ "cache" \in Wired => cache'.books[s] = view
        /\ \A x \in Symbols : x # s => cache'.books[x] = cache.books[x]
    <3>1. CASE "cache" \in Wired
      <4>1. cache' = [cache EXCEPT !.books = [cache.books EXCEPT ![s] = view]]
        BY <2>3, <3>1
      <4>2. [cache.books EXCEPT ![s] = view] \in [Symbols -> Book \cup {None}]
        BY <1>1, <2>2 DEF Redis
      <4>3. cache'.books = [cache.books EXCEPT ![s] = view] /\ cache' \in Redis
            /\ cache'.trades = cache.trades
        BY <1>1, <4>1, <4>2 DEF Redis
      <4> QED  BY <1>1, <4>3 DEF Redis
    <3>2. CASE "cache" \notin Wired
      BY <1>1, <2>3, <3>2
    <3> QED  BY <3>1, <3>2
  <2>6. Booted'
    BY <1>5, <2>4 DEF Booted
  <2>7. Restored'
    <3>1. "cache" \in Wired => \A x \in Symbols \ boot'.symbols :
            /\ cache'.books[x] = Snapshot(orders, queue[x])
            /\ cache'.trades[x] = market[x] \/ x = s
      BY <1>3, <2>3, <2>4, <2>5 DEF view
    <3>2. \A a \in Accounts \ boot'.accounts : wallet'[a] = db'.accounts[a]
      BY <1>2, <1>3, <2>3
    <3> QED  BY <1>2, <1>4, <2>4, <3>1, <3>2 DEF Restored
  <2> QED  BY <1>1, <1>2, <2>4, <2>5, <2>6, <2>7, WarmingKeeps DEF Starting
<1> QED  BY <1>6, <1>7, <1>8

LEMMA ListenKeeps == RecoveryInvariant /\ Listen => RecoveryInvariant'
<1> SUFFICES ASSUME RecoveryInvariant, Listen PROVE RecoveryInvariant'
  OBVIOUS
<1>1. SendInvariant /\ Typed /\ UNCHANGED vars
  BY DEF RecoveryInvariant, SendInvariant, TypeInvariant, Listen
<1>2. SendInvariant'
  <2>1. Typed'
    BY <1>1 DEF Typed, vars, memory, book, services
  <2> QED  BY <1>1, <2>1, StartingSends DEF vars, memory, book, services
<1>3. boot' = [pc |-> "serving", accounts |-> {}, symbols |-> {}, at |-> None]
  BY DEF Listen, Phase
<1>4. Balanced'
  <2>1. Quiet /\ (Serial => NoDebt)
    BY DEF RecoveryInvariant, Booted, Balanced, Listen, Started, Serving, Starting
  <2>2. job' = job /\ orders' = orders
    BY <1>1 DEF vars, memory
  <2>3. Serial => Turns'
    <3>1. \A r \in Requests : ~Busy(r)' /\ job'[r].pc \notin {"subtract", "add"}
      BY <2>1, <2>2 DEF Quiet, Busy
    <3>2. Serial => \A o \in Orders : orders'[o] # None => ~(orders'[o].reserved < 0)
      BY <1>1, <2>1, <2>2 DEF NoDebt, Typed, Order
    <3> QED  BY <3>1, <3>2 DEF Turns, InTurn, At
  <2> QED  BY <1>3, <2>3 DEF Balanced, Starting, Serial, InCredit
<1> QED  BY <1>2, <1>3, <1>4 DEF RecoveryInvariant, Booted, Restored, Starting, Serving

LEMMA RecoveryStep ==
  ASSUME IsFiniteSet(Requests), RecoveryInvariant, [RecoveryNext]_allVars
  PROVE  RecoveryInvariant'
<1>1. CASE UNCHANGED allVars
  <2>1. SendInvariant'
    <3>1. Typed'
      BY <1>1 DEF RecoveryInvariant, SendInvariant, TypeInvariant, Typed, allVars, vars, memory,
         book, services
    <3> QED  BY <1>1, <3>1, StartingSends DEF RecoveryInvariant, allVars, vars, memory, book,
                services
  <2>2. Booted'
    BY <1>1 DEF RecoveryInvariant, Booted, Quiet, Busy, Serving, allVars, recoveryVars, vars
  <2>3. Restored'
    <3>1. /\ boot' = boot /\ db' = db /\ UNCHANGED <<wallet, orders, market, queue, cache>>
      BY <1>1 DEF allVars, recoveryVars, vars, memory, book, services
    <3>2. boot.pc \in Starting => Relocking(Recovered, OpenRows)'
      BY <3>1, RelockingStays DEF Recovered, RecoveryInvariant, Restored
    <3> QED  BY <3>1, <3>2 DEF RecoveryInvariant, Restored
  <2>4. Balanced'
    <3>1. boot' = boot /\ UNCHANGED <<wallet, orders, job>>
      BY <1>1 DEF allVars, recoveryVars, vars, memory
    <3>2. Serial /\ Turns => Turns'
      BY <1>1, <2>1, TurnsStep DEF RecoveryInvariant, SendInvariant, allVars
    <3> QED  BY <3>1, <3>2 DEF RecoveryInvariant, Balanced, Serving, NoDebt, Serial, InCredit
  <2> QED  BY <2>1, <2>2, <2>3, <2>4 DEF RecoveryInvariant
<1>2. CASE Serving /\ Next /\ UNCHANGED recoveryVars
  <2>0. SendInvariant /\ (Serial => Turns)
    BY <1>2 DEF RecoveryInvariant, Balanced
  <2>1. SendInvariant'
    BY <1>2, <2>0, SendStep
  <2>2. boot' = boot /\ boot.pc = "serving"
    BY <1>2 DEF recoveryVars, Serving
  <2>3. Balanced'
    <3>1. Serial => Turns'
      BY <1>2, <2>0, <2>1, TurnsStep DEF SendInvariant
    <3> QED  BY <2>2, <3>1 DEF Balanced, Starting, Serial, InCredit
  <2> QED  BY <2>1, <2>2, <2>3 DEF RecoveryInvariant, Booted, Restored, Serving, Starting
<1>3. CASE Stop
  BY <1>3, StopKeeps
<1>4. CASE Start
  BY <1>4, BootstrapKeeps, SyncAccountKeeps, CachingKeeps, ListenKeeps DEF Start
<1> QED  BY <1>1, <1>2, <1>3, <1>4 DEF RecoveryNext

LEMMA RecoveryStarts == RecoveryInit => RecoveryInvariant
<1> SUFFICES ASSUME RecoveryInit PROVE RecoveryInvariant
  OBVIOUS
<1>1. TypeInvariant /\ \A r \in Requests : job[r] = Idle
  BY TypeInit DEF RecoveryInit, Init
<1>2. \A r \in Requests : Sending(r) /\ ~Busy(r)
  <2>1. Idle.pc = "idle" /\ Idle.fills = << >> /\ Idle.pending = {}
    BY DEF Idle
  <2> QED  BY <1>1, <2>1 DEF Sending, Busy, WithRow
<1>3. RowsSent
  <2>1. db.orders = orders /\ \A r \in Requests : orders[r] = None
    BY DEF RecoveryInit, Init, NewExchange, Orders
  <2> QED  BY <2>1 DEF RowsSent
<1>4. boot = [pc |-> "serving", accounts |-> {}, symbols |-> {}, at |-> None]
  BY DEF RecoveryInit, Phase
<1>5. Balanced
  BY <1>4, TurnsInit DEF Balanced, Starting, RecoveryInit
<1> QED
  BY <1>1, <1>2, <1>3, <1>4, <1>5 DEF RecoveryInvariant, SendInvariant, Booted, Restored, Starting,
     Serving

LEMMA RecoveryInvariance ==
  ASSUME IsFiniteSet(Requests) PROVE RecoverySpec => []RecoveryInvariant
BY RecoveryStarts, RecoveryStep, PTL DEF RecoverySpec

-----------------------------------------------------------------------------
(* What an answered client was told is kept: the invariant *)

Tapes == UNION {Range(tape[s]) : s \in Symbols}

MadeBy(r) == {t \in Tapes : t.taker = r}

(* The first n events of request r, and the trades they announce.          *)
Published(r, n) == \A i \in 0..(n - 1) :
  <<r, i>> \in db.audit \cap bus.audit /\ (i > 0 => job[r].fills[i] \in bus.trades)

Recorded(r) ==
  /\ MadeBy(r) \subseteq db.trades \cap bus.trades
  /\ \A i \in 0..Cardinality(MadeBy(r)) : <<r, i>> \in db.audit \cap bus.audit

(* Until it is answered, a request knows every fill made for it; what it   *)
(* has stored and published follows from where it is.                      *)
Durable(r) ==
  LET pc == job[r].pc  fills == job[r].fills  event == <<r, job[r].at>> IN
  /\ pc \notin {"ok", "failed"} => MadeBy(r) = Range(fills)
  /\ pc \in Stored \ {"ok"} => Range(fills) \subseteq db.trades
  /\ pc \in Auditing \cup {"publishTrade"} => Published(r, job[r].at)
  /\ pc \in {"publishAudit", "publishTrade"} => event \in db.audit
  /\ pc = "publishTrade" => event \in bus.audit
  /\ pc \in {"snapshot", "cacheBook", "copyTrades", "cacheTrades"} =>
       Published(r, Len(fills) + 1)
  /\ pc = "ok" => Recorded(r)

Grows ==
  /\ db.trades \subseteq db'.trades /\ db.audit \subseteq db'.audit
  /\ bus.trades \subseteq bus'.trades /\ bus.audit \subseteq bus'.audit

LEMMA RecordsGrow ==
  ASSUME TypeInvariant, NEW r \in Requests, Accept(r) \/ Serve(r) PROVE Grows
<1>1. db \in Database /\ bus \in Topics
  BY DEF TypeInvariant, Typed
<1>2. CASE PersistAccount(r) \/ PersistOrder(r) \/ PersistTrades(r) \/ PersistAudit(r)
  BY <1>1, <1>2 DEF PersistAccount, PersistOrder, PersistTrades, PersistAudit, Save, Database, Grows
<1>3. CASE PublishOrder(r) \/ PublishAudit(r) \/ PublishTrade(r)
  BY <1>1, <1>3 DEF PublishOrder, PublishAudit, PublishTrade, Send, Topics, Grows
<1>4. CASE db' = db /\ bus' = bus
  BY SMTT(40), <1>4 DEF Grows
<1>5. CASE Accept(r)
  BY <1>4, <1>5 DEF Accept, Deposit, PlaceOrder, services
<1>6. CASE Serve(r)
  BY ZenonT(40), <1>2, <1>3, <1>4, <1>6 DEF Serve, Reserve, GetReserved, ReplaceAccount,
     CacheAccount, Submit, Match, Finish, LoadStatus, StoreStatus, Collect, Settle, LoadReserved,
     StoreReserved, CheckReserved, ClampReserved, ReleaseMaker, ReleaseTaker, StartRelease,
     ClipReserved, SubtractReserved, AddReserved, ClearReserved, NextAccount, NextOrder,
     MarshalOrder, Record, RecordAudit, TakeSnapshot, CacheOrderBook, CopyTrades, CacheTrades, CallFails, services
<1> QED  BY <1>5, <1>6

(* A request whose own record has not changed loses nothing. *)
LEMMA OthersStayDurable ==
  ASSUME NEW q \in Requests, Durable(q), Grows, job'[q] = job[q],
         MadeBy(q)' = MadeBy(q) \/ job[q].pc = "failed"
  PROVE  Durable(q)'
BY DEF Durable, Grows, Published, Recorded, Stored, Auditing

(* Before its trades are stored, or when it fails, nothing is promised.    *)
LEMMA EarlyIsDurable ==
  ASSUME NEW r \in Requests, Durable(r), job[r].pc \notin {"ok", "failed"},
         job'[r].pc \notin Stored,
         job'[r].pc = "failed" \/ (job'[r].fills = job[r].fills /\ MadeBy(r)' = MadeBy(r))
  PROVE  Durable(r)'
BY DEF Durable, Stored, Auditing

(* A match makes one trade for the request it is made by, and it has it.   *)
LEMMA MatchIsDurable ==
  ASSUME TypeInvariant, NEW r \in Requests, Match(r), \A q \in Requests : Durable(q)
  PROVE  /\ Durable(r)' /\ \A q \in Requests \ {r} : MadeBy(q)' = MadeBy(q)
         /\ \A q \in Requests \ {r} : job'[q] = job[q]
<1> DEFINE s == orders[r].symbol
           maker == Head(queue[s][Opposite(orders[r].side)])
           fill == FillOf(orders, r, maker)
<1>1. job \in [Requests -> Job] /\ job[r] \in Job /\ tape \in [Symbols -> Seq(Trade)]
  BY DEF TypeInvariant, Typed
<1>2. s \in Symbols /\ fill \in Trade /\ fill.taker = r
  BY ZenonT(40), MatchFacts
<1>3. /\ job' = [job EXCEPT ![r].fills = Append(job[r].fills, fill)]
      /\ tape' = [tape EXCEPT ![s] = Append(tape[s], fill)] /\ At(r, "match")
  BY DEF Match
<1> HIDE DEF fill, s
<1>4. /\ job'[r].fills = Append(job[r].fills, fill) /\ job'[r].pc = "match"
      /\ \A q \in Requests \ {r} : job'[q] = job[q]
  BY <1>1, <1>3 DEF Job, At
<1>5. ASSUME NEW t \in Seq(Trade)
      PROVE  \A x : x \in Range(Append(t, fill)) <=> x \in Range(t) \/ x = fill
  <2>1. /\ DOMAIN t = 1..Len(t) /\ DOMAIN Append(t, fill) = 1..(Len(t) + 1) /\ Len(t) \in Nat
        /\ \A i \in 1..Len(t) : Append(t, fill)[i] = t[i]
        /\ Append(t, fill)[Len(t) + 1] = fill
    BY <1>2, <1>5, LenProperties, AppendProperties
  <2> QED  BY <2>1 DEF Range
<1>6. \A x : x \in Tapes' <=> x \in Tapes \/ x = fill
  <2>1. /\ tape'[s] = Append(tape[s], fill)
        /\ \A x : x \in Range(tape'[s]) <=> x \in Range(tape[s]) \/ x = fill
        /\ \A z \in Symbols \ {s} : tape'[z] = tape[z]
    BY <1>1, <1>2, <1>3, <1>5
  <2>2. \A x : x \in Tapes <=> \E z \in Symbols : x \in Range(tape[z])
    BY DEF Tapes
  <2>3. \A x : x \in Tapes' <=> \E z \in Symbols : x \in Range(tape'[z])
    BY DEF Tapes
  <2> QED  BY <1>2, <2>1, <2>2, <2>3
<1>7. \A q \in Requests \ {r} : MadeBy(q)' = MadeBy(q)
  BY <1>2, <1>6 DEF MadeBy
<1>8. MadeBy(r)' = Range(job'[r].fills)
  <2>1. MadeBy(r) = Range(job[r].fills) /\ job[r].fills \in Seq(Trade)
    BY <1>1, <1>3 DEF Durable, At, Job
  <2>2. \A x : x \in Range(job'[r].fills) <=> x \in Range(job[r].fills) \/ x = fill
    BY <1>4, <1>5, <2>1
  <2>3. /\ \A x : x \in MadeBy(r) <=> x \in Tapes /\ x.taker = r
        /\ \A x : x \in MadeBy(r)' <=> x \in Tapes' /\ x.taker = r
    BY DEF MadeBy
  <2> QED  BY <1>2, <1>6, <2>1, <2>2, <2>3
<1> QED  BY <1>4, <1>7, <1>8 DEF Durable, Stored, Auditing

(* What a late step changes of what the request remembers.                 *)
Reaches(r, label, at) ==
  /\ job'[r].pc = label /\ job'[r].fills = job[r].fills /\ job'[r].at = at
  /\ MadeBy(r)' = MadeBy(r)

LEMMA GotoReaches ==
  ASSUME TypeInvariant, NEW r \in Requests, NEW label, Goto(r, label), tape' = tape
  PROVE  Reaches(r, label, job[r].at)
<1>1. job \in [Requests -> Job] /\ job[r] \in Job
  BY DEF TypeInvariant, Typed
<1> QED  BY <1>1 DEF Goto, Reaches, MadeBy, Tapes, Job

(* The answer: all its trades are stored and published, with its events.   *)
LEMMA AnswerIsDurable ==
  ASSUME TypeInvariant, NEW r \in Requests, MadeBy(r) = Range(job[r].fills),
         Range(job[r].fills) \subseteq db'.trades, tape' = tape, Return(r, "ok"),
         \A i \in 0..Len(job[r].fills) :
           <<r, i>> \in db'.audit \cap bus'.audit /\ (i > 0 => job[r].fills[i] \in bus'.trades)
  PROVE  Durable(r)'
<1> DEFINE fills == job[r].fills
           n == Cardinality(MadeBy(r))
<1>1. job'[r].pc = "ok" /\ MadeBy(r)' = MadeBy(r)
  BY ReturnLeaves DEF MadeBy, Tapes
<1>2. fills \in Seq(Trade)
  <2>1. job[r] \in Job
    BY KnownOf
  <2> QED  BY ONLY <2>1 DEF Job
<1>3. DOMAIN fills = 1..Len(fills) /\ Len(fills) \in Nat
  BY ONLY <1>2, LenProperties
<1>4. n \in Nat /\ n <= Len(fills)
  <2> HIDE DEF fills
  <2>1. IsFiniteSet(1..Len(fills)) /\ Cardinality(1..Len(fills)) = Len(fills)
    <3>1. \A k \in Nat : IsFiniteSet(1..k) /\ Cardinality(1..k) = k
      BY FS_Interval
    <3> QED  BY <1>3, <3>1
  <2>2. fills \in Surjection(1..Len(fills), Range(fills))
    BY ONLY <1>2, <1>3 DEF Range, Surjection
  <2>3. IsFiniteSet(Range(fills)) /\ Cardinality(Range(fills)) <= Len(fills)
    BY ONLY <2>1, <2>2, FS_Surjection
  <2>4. Cardinality(Range(fills)) \in Nat
    BY ONLY <2>3, FS_CardinalityType
  <2> QED  BY <2>3, <2>4 DEF fills
<1>5. MadeBy(r) \subseteq db'.trades \cap bus'.trades
  <2>1. ASSUME NEW i \in 1..Len(fills) PROVE fills[i] \in bus'.trades
    <3>1. i \in 0..Len(fills) /\ i > 0
      BY ONLY <1>3
    <3> QED  BY Zenon, <3>1
  <2>2. \A t \in Range(fills) : \E i \in 1..Len(fills) : t = fills[i]
    BY <1>3 DEF Range
  <2> QED  BY <2>1, <2>2
<1>6. \A i \in 0..n : <<r, i>> \in db'.audit \cap bus'.audit
  BY <1>3, <1>4
<1> HIDE DEF n
<1>7. Recorded(r)'
  BY <1>1, <1>5, <1>6 DEF Recorded, n
<1> QED  BY <1>1, <1>7 DEF Durable, Stored, Auditing

(* After the last event comes the answer to a deposit, or the snapshot.    *)
LEMMA AfterEventIsDurable ==
  ASSUME TypeInvariant, NEW r \in Requests, Durable(r), Grows, tape' = tape, AfterEvent(r),
         job[r].pc \in {"publishAudit", "publishTrade"},
         <<r, job[r].at>> \in db'.audit \cap bus'.audit,
         job[r].at > 0 => Fill(r) \in bus'.trades
  PROVE  Durable(r)'
<1> DEFINE fills == job[r].fills
           at == job[r].at
<1>1. job \in [Requests -> Job] /\ job[r] \in Job /\ at \in 0..Len(fills)
  <2>1. Local(r) /\ job[r] \in Job /\ job \in [Requests -> Job]
    BY KnownOf DEF TypeInvariant, Typed
  <2>2. fills \in Seq(Trade)
    BY ONLY <2>1 DEF Job
  <2>3. Len(fills) \in Nat
    BY ONLY <2>2, LenProperties
  <2> QED  BY <2>1, <2>3 DEF Local, Positioned, Auditing, InFill
<1>2. ASSUME NEW i \in 0..at
      PROVE  <<r, i>> \in db'.audit \cap bus'.audit /\ (i > 0 => fills[i] \in bus'.trades)
  <2>1. CASE i = at
    BY <2>1 DEF Fill
  <2>2. CASE i # at
    <3>1. i \in 0..(at - 1) /\ Published(r, at)
      BY <1>1, <2>2 DEF Durable, Auditing
    <3> QED  BY <3>1 DEF Published, Grows
  <2> QED  BY <2>1, <2>2
<1>3. MadeBy(r) = Range(fills) /\ Range(fills) \subseteq db'.trades /\ MadeBy(r)' = MadeBy(r)
  BY DEF Durable, Stored, Auditing, Grows, MadeBy, Tapes
<1>4. CASE at < Len(fills)
  <2>1. job' = [job EXCEPT ![r].pc = "audit", ![r].at = at + 1]
    BY <1>4 DEF AfterEvent
  <2>2. job'[r].pc = "audit" /\ job'[r].at = at + 1 /\ job'[r].fills = fills
    BY <1>1, <2>1 DEF Job
  <2>3. PICK n : n = at + 1
    OBVIOUS
  <2>4. Published(r, n)'
    <3>1. 0..(n - 1) = 0..at
      BY <1>1, <2>3
    <3> QED  BY <1>2, <2>2, <3>1 DEF Published
  <2> QED  BY <1>3, <2>2, <2>3, <2>4 DEF Durable, Stored, Auditing
<1>5. CASE ~(at < Len(fills))
  <2>1. at = Len(fills)
    BY <1>1, <1>5
  <2>2. CASE job[r].input.kind = "deposit"
    BY <1>2, <1>3, <1>5, <2>1, <2>2, AnswerIsDurable DEF AfterEvent
  <2>3. CASE job[r].input.kind # "deposit"
    <3>1. job'[r].pc = "snapshot" /\ job'[r].fills = fills
      BY <1>5, <2>3, GotoReaches DEF AfterEvent, Reaches
    <3>2. PICK n : n = Len(fills) + 1
      OBVIOUS
    <3>3. Published(r, n)'
      <4>1. 0..(n - 1) = 0..at
        BY <1>1, <2>1, <3>2
      <4> QED  BY <1>2, <3>1, <4>1 DEF Published
    <3> QED  BY <1>3, <3>1, <3>2, <3>3 DEF Durable, Stored, Auditing
  <2> QED  BY <2>2, <2>3
<1> QED  BY <1>4, <1>5

LEMMA LateIsDurable ==
  ASSUME TypeInvariant, "bus" \in Wired, NEW r \in Requests, Durable(r), Grows, Late(r)
  PROVE  Durable(r)'
<1>1. /\ job \in [Requests -> Job] /\ job[r] \in Job /\ Local(r)
      /\ db \in Database /\ bus \in Topics
  BY KnownOf DEF TypeInvariant, Typed
<1>2. tape' = tape /\ MadeBy(r)' = MadeBy(r)
  BY LatePasses DEF Passing, MadeBy, Tapes
<1>3. ASSUME Fail(r) PROVE Durable(r)'
  <2>1. job'[r].pc = "failed"
    BY <1>3, ReturnLeaves DEF Fail
  <2> QED  BY <2>1 DEF Durable, Stored, Auditing
<1>4. ASSUME NEW label, Goto(r, label) PROVE Reaches(r, label, job[r].at)
  BY <1>2, <1>4, GotoReaches
<1>5. CASE CacheAccount(r)
  <2>1. CASE job[r].input.kind = "deposit"
    <3>1. job[r].fills = << >> /\ job[r].at = 0
      BY <1>1, <1>5, <2>1 DEF CacheAccount, Local, Phased, Fresh, Busy, At
    <3>2. Reaches(r, "audit", 0)
      BY <1>4, <1>5, <2>1, <3>1 DEF CacheAccount
    <3>3. Range(job[r].fills) = {} /\ MadeBy(r) = Range(job[r].fills)
      BY <1>5, <3>1 DEF Durable, CacheAccount, At, Range
    <3>4. Published(r, 0)'
      BY DEF Published
    <3> QED  BY <3>2, <3>3, <3>4 DEF Durable, Reaches, Stored, Auditing
  <2>2. CASE job[r].input.kind # "deposit"
    <3>1. PICK label \in {"submit", "accounts"} : Goto(r, label)
      BY <1>5, <2>2 DEF CacheAccount
    <3>2. Reaches(r, label, job[r].at) /\ At(r, "cacheAccount")
      BY <1>4, <1>5, <3>1 DEF CacheAccount
    <3> QED  BY <3>1, <3>2, EarlyIsDurable DEF Reaches, Stored, Auditing, At
  <2> QED  BY <2>1, <2>2
<1>6. CASE PersistTrades(r) /\ ~Fail(r)
  <2>1. Reaches(r, "record", job[r].at) /\ At(r, "saveTrades")
    BY <1>4, <1>6 DEF PersistTrades, Answered
  <2>2. Range(job[r].fills) \subseteq db'.trades
    BY <1>1, <1>6, RecoveryAssumption DEF PersistTrades, Save, Database
  <2> QED  BY <2>1, <2>2 DEF Durable, Reaches, Stored, Auditing, At
<1>7. CASE Record(r)
  <2>1. /\ job'[r].pc = "audit" /\ job'[r].at = 0 /\ job'[r].fills = job[r].fills
        /\ At(r, "record")
    BY <1>1, <1>7 DEF Record, Job
  <2>2. Published(r, 0)'
    BY DEF Published
  <2> QED  BY <1>2, <2>1, <2>2 DEF Durable, Stored, Auditing, At, Grows
<1>8. CASE RecordAudit(r)
  <2>1. Reaches(r, "saveAudit", job[r].at) /\ At(r, "audit")
    BY <1>4, <1>8 DEF RecordAudit
  <2> QED  BY <2>1 DEF Durable, Reaches, Stored, Auditing, At, Published, Grows
<1>9. CASE PersistAudit(r) /\ ~Fail(r)
  <2>1. Reaches(r, "publishAudit", job[r].at) /\ At(r, "saveAudit")
    BY <1>4, <1>9 DEF PersistAudit, Answered
  <2>2. <<r, job[r].at>> \in db'.audit
    BY <1>1, <1>9, RecoveryAssumption DEF PersistAudit, Save, Database, Event
  <2> QED  BY <2>1, <2>2 DEF Durable, Reaches, Stored, Auditing, At, Published, Grows
<1>10. CASE PublishAudit(r) /\ ~Fail(r)
  <2>1. At(r, "publishAudit") /\ <<r, job[r].at>> \in db'.audit
    BY <1>10 DEF PublishAudit, Durable, At, Grows
  <2>2. <<r, job[r].at>> \in bus'.audit
    BY <1>1, <1>10 DEF PublishAudit, Send, Topics, Event
  <2>3. CASE job[r].at > 0
    <3>1. Reaches(r, "publishTrade", job[r].at)
      BY <1>4, <1>10, <2>3 DEF PublishAudit
    <3> QED  BY <2>1, <2>2, <3>1 DEF Durable, Reaches, Stored, Auditing, At, Published, Grows
  <2>4. CASE ~(job[r].at > 0)
    BY <1>2, <1>10, <2>1, <2>2, <2>4, AfterEventIsDurable DEF PublishAudit, At
  <2> QED  BY <2>3, <2>4
<1>11. CASE PublishTrade(r) /\ ~Fail(r)
  <2>1. At(r, "publishTrade") /\ <<r, job[r].at>> \in db'.audit \cap bus'.audit
    BY <1>11 DEF PublishTrade, Durable, At, Grows
  <2>2. Fill(r) \in bus'.trades
    BY <1>1, <1>11 DEF PublishTrade, Send, Topics
  <2> QED  BY <1>2, <1>11, <2>1, <2>2, AfterEventIsDurable DEF PublishTrade, At
<1>12. CASE TakeSnapshot(r) \/ CopyTrades(r) \/ (CacheOrderBook(r) /\ ~Fail(r))
  <2>1. /\ job[r].pc \in {"snapshot", "copyTrades", "cacheBook"}
        /\ job'[r].pc \in {"cacheBook", "cacheTrades", "copyTrades"}
        /\ job'[r].fills = job[r].fills
    <3>1. CASE TakeSnapshot(r)
      BY <1>1, <3>1 DEF TakeSnapshot, At, Job
    <3>2. CASE CopyTrades(r)
      BY <1>1, <3>2 DEF CopyTrades, At, Job
    <3>3. CASE CacheOrderBook(r) /\ ~Fail(r)
      BY <1>4, <3>3 DEF CacheOrderBook, Answered, At, Reaches
    <3> QED  BY <1>12, <3>1, <3>2, <3>3
  <2> QED  BY <1>2, <2>1 DEF Durable, Stored, Auditing, Published, Grows
<1>13. CASE CacheTrades(r) /\ ~Fail(r)
  <2> DEFINE fills == job[r].fills
  <2>1. At(r, "cacheTrades") /\ Return(r, "ok")
    BY <1>13 DEF CacheTrades
  <2>2. /\ MadeBy(r) = Range(fills) /\ Range(fills) \subseteq db'.trades
        /\ Published(r, Len(fills) + 1)
    BY <2>1 DEF Durable, At, Stored, Grows
  <2>3. 0..(Len(fills) + 1 - 1) = 0..Len(fills)
    <3>1. fills \in Seq(Trade)
      BY ONLY <1>1 DEF Job
    <3>2. Len(fills) \in Nat
      BY ONLY <3>1, LenProperties
    <3> QED  BY ONLY <3>2
  <2>4. \A i \in 0..Len(fills) :
          <<r, i>> \in db'.audit \cap bus'.audit /\ (i > 0 => fills[i] \in bus'.trades)
    BY <2>2, <2>3 DEF Published, Grows
  <2> QED  BY <1>2, <2>1, <2>2, <2>4, AnswerIsDurable
<1> QED
  BY <1>3, <1>5, <1>6, <1>7, <1>8, <1>9, <1>10, <1>11, <1>12, <1>13 DEF Late

LEMMA DurableStep ==
  ASSUME SendInvariant, "bus" \in Wired, NEW r \in Requests, Accept(r) \/ Serve(r),
         \A q \in Requests : Durable(q)
  PROVE  \A q \in Requests : Durable(q)'
<1>1. /\ TypeInvariant /\ Grows /\ Durable(r) /\ Local(r)
      /\ job \in [Requests -> Job] /\ job[r] \in Job
  BY RecordsGrow, KnownOf DEF SendInvariant, TypeInvariant, Typed
<1>2. CASE Match(r)
  <2>1. /\ Durable(r)' /\ \A q \in Requests \ {r} : MadeBy(q)' = MadeBy(q)
        /\ \A q \in Requests \ {r} : job'[q] = job[q]
    BY <1>1, <1>2, MatchIsDurable
  <2> QED  BY <1>1, <2>1, OthersStayDurable
<1>3. ASSUME Durable(r)', tape' = tape, \A q \in Requests \ {r} : job'[q] = job[q]
      PROVE  \A q \in Requests : Durable(q)'
  <2>1. \A q \in Requests : MadeBy(q)' = MadeBy(q)
    BY <1>3 DEF MadeBy, Tapes
  <2> QED  BY <1>1, <1>3, <2>1, OthersStayDurable
<1>4. CASE Accept(r) \/ Early(r)
  <2>1. Passing(r) /\ job'[r].pc \notin Stored
    BY SMTT(40), <1>1, <1>4, AcceptLeaves, EarlyPasses
  <2>2. job[r].pc \notin {"ok", "failed"}
    BY ZenonT(40), <1>4 DEF Accept, Early, At, Reserve, GetReserved, PersistAccount, ReplaceAccount,
       Submit, Finish, LoadStatus, StoreStatus, Settle, Adjusting, LoadReserved, StoreReserved,
       CheckReserved, ClampReserved, Release, ReleaseMaker, ReleaseTaker, ClipReserved,
       SubtractReserved, AddReserved, ClearReserved, NextAccount, CallFails
  <2>3. MadeBy(r)' = MadeBy(r)
    BY <2>1 DEF MadeBy, Tapes, Passing
  <2>4. job'[r].pc = "failed" \/ job'[r].fills = job[r].fills
    BY <2>1 DEF Passing, Leaves, Stored
  <2>5. Durable(r)'
    BY <1>1, <2>1, <2>2, <2>3, <2>4, EarlyIsDurable
  <2> QED  BY <1>3, <2>1, <2>5 DEF Passing, Leaves
<1>5. CASE Late(r)
  BY <1>1, <1>3, <1>5, LateIsDurable, LatePasses DEF Passing, Leaves
<1>6. CASE Collect(r) \/ NextOrder(r) \/ PersistOrder(r) \/ MarshalOrder(r) \/ PublishOrder(r)
  <2>1. /\ job[r].pc \in WithRow \cup {"collect", "orders"} /\ tape' = tape
        /\ \A q \in Requests \ {r} : job'[q] = job[q]
    BY <1>1, <1>6 DEF Collect, NextOrder, PersistOrder, MarshalOrder, PublishOrder, At, WithRow,
       Answered, Goto, Fail, Return, book
  <2>2. job'[r].pc = "failed" \/ (job'[r].pc \notin Stored /\ job'[r].fills = job[r].fills)
    <3>1. CASE Fail(r)
      BY <1>1, <3>1, ReturnLeaves DEF Fail
    <3>2. ASSUME NEW label \in {"saveTrades", "marshalOrder"}, Goto(r, label)
          PROVE  job'[r].pc \notin Stored /\ job'[r].fills = job[r].fills
      BY <1>1, <3>2 DEF Goto, Job, Stored, Auditing
    <3>3. CASE Collect(r)
      BY <1>1, <3>3, CollectFacts DEF Stored, Auditing
    <3>4. CASE NextOrder(r)
      <4>1. CASE Goto(r, "saveTrades")
        BY <3>2, <4>1
      <4>2. CASE ~Goto(r, "saveTrades")
        <5>1. PICK o \in job[r].pending :
                job' = [job EXCEPT ![r].pc = "saveOrder", ![r].pending = @ \ {o},
                                   ![r].row = [id |-> o, order |-> orders[o]]]
          BY <3>4, <4>2 DEF NextOrder
        <5> QED  BY <1>1, <5>1 DEF Job, Stored, Auditing
      <4> QED  BY <4>1, <4>2
    <3>5. CASE PersistOrder(r)
      BY <3>1, <3>2, <3>5 DEF PersistOrder, Answered
    <3>6. CASE MarshalOrder(r)
      BY <1>1, <3>6 DEF MarshalOrder, Job, Stored, Auditing
    <3>7. CASE PublishOrder(r)
      BY <1>1, <3>1, <3>7 DEF PublishOrder, Job, Stored, Auditing
    <3> QED  BY <1>6, <3>3, <3>4, <3>5, <3>6, <3>7
  <2>3. Durable(r)'
    <3>1. /\ job[r].pc \notin {"ok", "failed"} /\ MadeBy(r)' = MadeBy(r)
          /\ job'[r].pc \notin Stored
      BY <2>1, <2>2 DEF WithRow, MadeBy, Tapes, Stored, Auditing
    <3> QED  BY <1>1, <2>2, <3>1, EarlyIsDurable
  <2> QED  BY SMTT(40), <1>3, <2>1, <2>3
<1> QED
  <2>1. Serve(r) => \/ Match(r) \/ Early(r) \/ Late(r)
                    \/ Collect(r) \/ NextOrder(r) \/ PersistOrder(r) \/ MarshalOrder(r)
                    \/ PublishOrder(r)
    BY DEF Serve, Early, Adjusting, Release, Late
  <2> QED  BY <1>2, <1>4, <1>5, <1>6, <2>1

AnswersInvariant == RecoveryInvariant /\ \A r \in Requests : Durable(r)

LEMMA AnswersStep ==
  ASSUME IsFiniteSet(Requests), "bus" \in Wired, AnswersInvariant, [RecoveryNext]_allVars
  PROVE  AnswersInvariant'
<1>1. RecoveryInvariant' /\ RecoveryInvariant /\ SendInvariant /\ Typed
      /\ \A r \in Requests : Durable(r)
  BY RecoveryStep DEF AnswersInvariant, RecoveryInvariant, SendInvariant, TypeInvariant
<1>2. ASSUME tape' = tape, db'.trades = db.trades, db'.audit = db.audit, bus' = bus,
             NEW r \in Requests, job'[r] = job[r] \/ job'[r].pc = "failed"
      PROVE  Durable(r)'
  <2>1. Grows /\ MadeBy(r)' = MadeBy(r)
    BY <1>2 DEF Grows, MadeBy, Tapes
  <2>2. CASE job'[r] = job[r]
    BY <1>1, <2>1, <2>2, OthersStayDurable
  <2>3. CASE job'[r].pc = "failed"
    BY <2>3 DEF Durable, Stored, Auditing
  <2> QED  BY <1>2, <2>2, <2>3
<1>3. CASE \E r \in Requests : Accept(r) \/ Serve(r)
  BY <1>1, <1>3, DurableStep DEF AnswersInvariant
<1>4. CASE UNCHANGED vars
  BY <1>1, <1>2, <1>4 DEF AnswersInvariant, vars, services, book
<1>5. CASE Stop
  <2>1. UNCHANGED <<book, services>> /\ job' = [r \in Requests |->
          IF Busy(r) THEN [Idle EXCEPT !.pc = "failed", !.input = job[r].input] ELSE job[r]]
    BY <1>5 DEF Stop
  <2>2. \A r \in Requests : job'[r] = job[r] \/ job'[r].pc = "failed"
    <3> TAKE r \in Requests
    <3>1. CASE Busy(r)
      <4>1. job'[r] = [Idle EXCEPT !.pc = "failed", !.input = job[r].input]
        BY <2>1, <3>1
      <4> QED  BY <4>1 DEF Idle
    <3> QED  BY <2>1, <3>1
  <2> QED  BY <1>1, <1>2, <2>1, <2>2 DEF AnswersInvariant, services, book
<1>6. CASE Start
  <2>1. tape' = tape /\ bus' = bus /\ job' = job
    BY ZenonT(40), <1>6 DEF Start, Bootstrap, SyncAccount, BootCache, WarmBook, WarmTrades, Listen,
       services, book, vars
  <2>2. db'.trades = db.trades /\ db'.audit = db.audit
    <3>1. CASE \E a \in Accounts : SyncAccount(a)
      BY <1>1, <3>1 DEF SyncAccount, Typed, Database
    <3>2. CASE ~\E a \in Accounts : SyncAccount(a)
      BY <1>6, <3>2 DEF Start, Bootstrap, BootCache, WarmBook, WarmTrades, Listen, services, vars
    <3> QED  BY <3>1, <3>2
  <2> QED  BY SMTT(40), <1>1, <1>2, <2>1, <2>2 DEF AnswersInvariant
<1> QED  BY <1>3, <1>4, <1>5, <1>6 DEF RecoveryNext, Next, AllAnswered, allVars

LEMMA AnswersInvariance ==
  ASSUME IsFiniteSet(Requests), "bus" \in Wired PROVE RecoverySpec => []AnswersInvariant
<1>1. RecoveryInit => AnswersInvariant
  <2> SUFFICES ASSUME RecoveryInit, NEW r \in Requests PROVE Durable(r)
    BY RecoveryStarts DEF AnswersInvariant
  <2>1. job[r] = Idle /\ tape = [s \in Symbols |-> << >>]
    BY DEF RecoveryInit, Init, NewExchange
  <2>2. job[r].pc = "idle" /\ Range(job[r].fills) = {}
    BY <2>1 DEF Idle, Range
  <2>3. MadeBy(r) = {}
    BY <2>1 DEF MadeBy, Tapes, Range
  <2> QED  BY <2>2, <2>3 DEF Durable, Stored, Auditing
<1> QED  BY <1>1, AnswersStep, PTL DEF RecoverySpec

-----------------------------------------------------------------------------
(* The theorems: a finite number of requests, any number of stops *)

(* One request at a time, however often and wherever the process stops,    *)
(* and whatever a start finds, no balance becomes negative, in memory or   *)
(* in the store.                                                           *)
THEOREM RestartsStaySolvent == Serial => (RecoverySpec => []BalancesNeverNegative)
<1> SUFFICES ASSUME Serial PROVE RecoverySpec => []BalancesNeverNegative
  OBVIOUS
<1>1. IsFiniteSet(Requests)
  BY DEF Serial
<1>2. RecoveryInvariant => BalancesNeverNegative
  BY TypeInvariantIsSolvent DEF RecoveryInvariant, SendInvariant
<1> QED  BY <1>1, <1>2, RecoveryInvariance, PTL

(* No start ends in a version conflict (exchange.go:433): an account that  *)
(* is still to be synced has the version of its row.                       *)
THEOREM NoStartMeetsAConflict ==
  IsFiniteSet(Requests) => (RecoverySpec => []StartsMeetNoConflict)
<1> SUFFICES ASSUME IsFiniteSet(Requests) PROVE RecoverySpec => []StartsMeetNoConflict
  OBVIOUS
<1>1. RecoveryInvariant => StartsMeetNoConflict
  <2> SUFFICES ASSUME RecoveryInvariant, boot.pc = "rebuild", NEW a \in boot.accounts
               PROVE  db.accounts[a].version = wallet[a].version
    BY DEF StartsMeetNoConflict
  <2>1. a \in Accounts /\ Relocking(Recovered, OpenRows)
    BY DEF RecoveryInvariant, Booted, Restored, Starting
  <2>2. Recovered.accounts = wallet
    BY DEF Recovered
  <2> QED  BY <2>1, <2>2 DEF Relocking
<1> QED  BY <1>1, RecoveryInvariance, PTL

(* With Redis wired, what a start serves is what is stored, and what Redis *)
(* shows: the wallet is the stored one, and the cached books and trades    *)
(* are those of memory.                                                    *)
THEOREM StartsServeTheStore ==
  IsFiniteSet(Requests) /\ "cache" \in Wired => (RecoverySpec => []StartsFromStore)
<1> SUFFICES ASSUME IsFiniteSet(Requests), "cache" \in Wired PROVE RecoverySpec => []StartsFromStore
  OBVIOUS
<1>1. RecoveryInvariant => StartsFromStore
  <2> SUFFICES ASSUME RecoveryInvariant, Started PROVE StartsFromStore
    BY DEF StartsFromStore
  <2>1. /\ boot.pc = "rebuild" /\ boot.accounts = {} /\ boot.symbols = {}
        /\ wallet \in [Accounts -> Solvent] /\ db \in Database
    BY DEF Started, RecoveryInvariant, SendInvariant, TypeInvariant, Typed
  <2>2. /\ \A a \in Accounts : wallet[a] = db.accounts[a]
        /\ \A s \in Symbols : /\ cache.books[s] = Snapshot(orders, queue[s])
                              /\ cache.trades[s] = market[s]
    BY <2>1 DEF RecoveryInvariant, Restored, Starting
  <2>3. wallet = db.accounts
    BY <2>1, <2>2 DEF Database
  <2> QED  BY <2>2, <2>3 DEF StartsFromStore
<1> QED  BY <1>1, RecoveryInvariance, PTL

(* After every start the locks are those of the open orders, and an order  *)
(* reserves less than its row asks for only where nothing is left.         *)
THEOREM RestartsRebuildLocks ==
  IsFiniteSet(Requests) => (RecoverySpec => []LocksAreRebuilt)
<1> SUFFICES ASSUME IsFiniteSet(Requests) PROVE RecoverySpec => []LocksAreRebuilt
  OBVIOUS
<1>1. RecoveryInvariant => LocksAreRebuilt
  <2> SUFFICES ASSUME RecoveryInvariant, Started, NEW p \in OpenRows
               PROVE  LET lock == LockOf(orders[p])
                          mine == {o \in OpenRows : LockOf(orders[o]) = lock}
                          balance == wallet[lock[1]].balances[lock[2]]
                      IN  /\ balance.locked =
                               SumFunctionOnSet([o \in mine |-> orders[o].reserved], mine)
                          /\ balance.available > 0 =>
                               \A o \in mine : orders[o].reserved = Wanted(db.orders[o])
    BY DEF LocksAreRebuilt
  <2> DEFINE lock == LockOf(Rows[p])
             mine == {o \in OpenRows : LockOf(Rows[o]) = lock}
             part == Parts(Recovered, OpenRows, lock)
             own == [o \in mine |-> orders[o].reserved]
             balance == wallet[lock[1]].balances[lock[2]]
  <2>1. /\ Relocking(Recovered, OpenRows) /\ db \in Database /\ IsFiniteSet(OpenRows)
        /\ Recovered.accounts = wallet /\ \A o \in OpenRows : Recovered.orders[o] = orders[o]
    BY RowsFinite DEF Started, RecoveryInvariant, Restored, Starting, Recovered, SendInvariant,
       TypeInvariant, Typed
  <2>2. ASSUME NEW o \in OpenRows
        PROVE  /\ orders[o] \in Order /\ LockOf(orders[o]) = LockOf(Rows[o])
               /\ Rows[o] = db.orders[o]
    <3>1. Recovered.orders[o] \in Order /\ Rows[o] \in Order
      BY <2>1, RowsTyped DEF Relocking
    <3>2. \E n : orders[o] = [Rows[o] EXCEPT !.reserved = n]
      <4>1. Recovered.orders[o] = [Rows[o] EXCEPT !.reserved = Recovered.orders[o].reserved]
        BY <2>1 DEF Relocking
      <4>2. Recovered.orders[o] = orders[o]
        BY <2>1
      <4> QED  BY <4>1, <4>2
    <3>3. /\ orders[o].account = Rows[o].account /\ orders[o].symbol = Rows[o].symbol
          /\ orders[o].side = Rows[o].side
      BY <3>1, <3>2 DEF Order
    <3> QED  BY <2>1, <3>1, <3>3 DEF LockOf, LockedAsset, Rows
  <2>3. /\ balance.locked = SumFunctionOnSet(part, OpenRows)
        /\ \A o \in mine : balance.available > 0 => orders[o].reserved = Wanted(Rows[o])
    BY <2>1 DEF Relocking
  <2>4. SumFunctionOnSet(part, OpenRows) = SumFunctionOnSet(own, mine)
    <3>1. /\ mine \in SUBSET OpenRows /\ \A o \in mine : own[o] \in Int
          /\ \A o \in OpenRows : part[o] = IF o \in mine THEN own[o] ELSE 0
      <4>1. \A o \in OpenRows : orders[o].reserved \in Int
        BY <2>2 DEF Order
      <4> QED  BY <2>1, <4>1 DEF Parts
    <3> HIDE DEF part, own, mine
    <3> QED  BY <2>1, <3>1, SumWithin
  <2>5. mine = {o \in OpenRows : LockOf(orders[o]) = LockOf(orders[p])} /\ LockOf(orders[p]) = lock
    BY <2>2
  <2> QED  BY <2>2, <2>3, <2>4, <2>5
<1> QED  BY <1>1, RecoveryInvariance, PTL

(* A start moves funds between available and locked, and no row holds more *)
(* or less afterwards.                                                     *)
THEOREM StartsMoveNoFunds ==
  IsFiniteSet(Requests) => (RecoverySpec => RecoveryMovesNoFunds)
<1> SUFFICES ASSUME IsFiniteSet(Requests) PROVE RecoverySpec => RecoveryMovesNoFunds
  OBVIOUS
<1> DEFINE Kept == ~Serving => \A a \in Accounts, asset \in Assets :
                     Total(db'.accounts[a], asset) = Total(db.accounts[a], asset)
<1>1. RecoveryInvariant /\ [RecoveryNext]_allVars => [Kept]_allVars
  <2> SUFFICES ASSUME RecoveryInvariant, RecoveryNext, ~Serving, NEW b \in Accounts,
                      NEW asset \in Assets
               PROVE  Total(db'.accounts[b], asset) = Total(db.accounts[b], asset)
    BY DEF Kept
  <2>1. CASE db' = db
    BY <2>1
  <2>2. CASE db' # db
    <3>1. PICK a \in Accounts : SyncAccount(a)
      BY <2>2 DEF RecoveryNext, Stop, Start, Bootstrap, BootCache, WarmBook, WarmTrades, Listen,
         services, vars
    <3> DEFINE next == [wallet[a] EXCEPT !.version = @ + 1]
    <3>2. db' = [db EXCEPT !.accounts[a] = next]
      BY <2>2, <3>1 DEF SyncAccount
    <3>3. /\ wallet[a] \in Solvent /\ db \in Database
          /\ Total(wallet[a], asset) = Total(db.accounts[a], asset)
      <4>1. /\ wallet \in [Accounts -> Solvent] /\ db \in Database
            /\ Relocking(Recovered, OpenRows) /\ Recovered.accounts = wallet
        BY <3>1 DEF RecoveryInvariant, SendInvariant, TypeInvariant, Typed, Restored, Starting,
           SyncAccount, Recovered
      <4> QED  BY <4>1 DEF Relocking
    <3>4. Total(next, asset) = Total(wallet[a], asset)
      BY <3>3 DEF Total, Solvent
    <3> HIDE DEF next
    <3> QED  BY SMTT(40), <3>2, <3>3, <3>4 DEF Database
  <2> QED  BY <2>1, <2>2
<1>2. RecoverySpec => [][Kept]_allVars
  <2> HIDE DEF Kept
  <2> QED  BY <1>1, RecoveryInvariance, PTL DEF RecoverySpec
<1> QED  BY <1>2 DEF RecoveryMovesNoFunds

(* With Redpanda wired, whatever crashes: what a client was told happened  *)
(* is in the store and on the topics, every trade of its order and every   *)
(* event up to the last.  (The store is wired by RecoveryAssumption.)      *)
THEOREM AnswersAreDurable ==
  IsFiniteSet(Requests) /\ "bus" \in Wired => (RecoverySpec => []AnsweredIsDurable)
<1> SUFFICES ASSUME IsFiniteSet(Requests), "bus" \in Wired
             PROVE  RecoverySpec => []AnsweredIsDurable
  OBVIOUS
<1>1. AnswersInvariant => AnsweredIsDurable
  BY DEF AnswersInvariant, AnsweredIsDurable, Durable, Recorded, MadeBy, Tapes, At
<1> QED  BY <1>1, AnswersInvariance, PTL
=============================================================================
