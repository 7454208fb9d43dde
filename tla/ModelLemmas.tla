---------------------------- MODULE ModelLemmas ----------------------------
(***************************************************************************)
(* Lemmas about the operators the modules are built from, which the proofs *)
(* about several modules need: induction, finite sets, sequences.          *)
(***************************************************************************)
EXTENDS BookOps, Integers, SequenceTheorems, FiniteSetTheorems, TLAPS

-----------------------------------------------------------------------------
(* Induction, stated with sets of good cases instead of predicates, so     *)
(* that first-order provers can use it.                                    *)

(* What holds of the empty set, and of a set with one element more than a  *)
(* set it holds of, holds of every finite set.                             *)
LEMMA FiniteInduction ==
  ASSUME NEW S, IsFiniteSet(S), NEW Good, {} \in Good,
         \A T \in SUBSET S : \A x \in S \ T : T \in Good => T \cup {x} \in Good
  PROVE  S \in Good
<1> SUFFICES ASSUME S \notin Good PROVE FALSE
  OBVIOUS
<1> DEFINE Bad == {T \in SUBSET S : T \notin Good}
<1>1. IsWellFoundedOn(StrictSubsetOrdering(S), SUBSET S)
  BY FS_StrictSubsetOrderingWellFounded, FS_FiniteSubsetsOfFinite
<1>2. PICK T \in Bad : \A U \in Bad : <<U, T>> \notin StrictSubsetOrdering(S)
  <2>1. Bad \subseteq SUBSET S /\ Bad # {}
    OBVIOUS
  <2> HIDE DEF Bad
  <2> QED  BY <1>1, <2>1, WFMin
<1>3. PICK x \in T : TRUE
  OBVIOUS
<1>4. T \ {x} \notin Bad
  <2>1. <<T \ {x}, T>> \in StrictSubsetOrdering(S)
    BY <1>3 DEF StrictSubsetOrdering
  <2> QED  BY <1>2, <2>1
<1>5. T \ {x} \in Good /\ (T \ {x}) \cup {x} = T
  BY <1>3, <1>4
<1> QED  BY <1>3, <1>5

(* A set of naturals that is not empty has a least element. *)
LEMMA LeastNatural ==
  ASSUME NEW N \in SUBSET Nat, N # {}
  PROVE  \E n \in N : \A m \in N : n <= m
<1>1. IsWellFoundedOn(OpToRel(<, Nat), Nat)
  BY NatLessThanWellFounded
<1>2. PICK n \in N : \A m \in N : <<m, n>> \notin OpToRel(<, Nat)
  BY <1>1, WFMin
<1>3. \A m \in N : ~(m < n)
  BY <1>2 DEF OpToRel
<1> QED  BY <1>3

(* Induction over the naturals. *)
LEMMA NaturalInduction ==
  ASSUME NEW Good, 0 \in Good, \A n \in Nat : n \in Good => n + 1 \in Good
  PROVE  Nat \subseteq Good
<1> SUFFICES ASSUME Nat \ Good # {} PROVE FALSE
  OBVIOUS
<1>1. PICK n \in Nat \ Good : \A m \in Nat \ Good : n <= m
  BY LeastNatural
<1>2. n - 1 \in Nat /\ n - 1 \in Good /\ (n - 1) + 1 = n
  BY <1>1
<1> QED  BY <1>1, <1>2

-----------------------------------------------------------------------------
(* Sequences: what inserting at a slot and dropping the head do.           *)

(* Inserting into a sequence moves nothing in front of the slot and shifts *)
(* everything behind it by one.                                            *)
LEMMA PlacedProperties ==
  ASSUME NEW S, NEW q \in Seq(S), NEW o \in S, NEW k \in 1..(Len(q) + 1)
  PROVE  /\ Placed(q, o, k) \in Seq(S)
         /\ Len(Placed(q, o, k)) = Len(q) + 1
         /\ \A i \in 1..Len(q) : i < k => Placed(q, o, k)[i] = q[i]
         /\ Placed(q, o, k)[k] = o
         /\ \A i \in 1..Len(q) : ~(i < k) => Placed(q, o, k)[i + 1] = q[i]
<1> DEFINE front == SubSeq(q, 1, k - 1)
           back == SubSeq(q, k, Len(q))
<1>1. /\ front \in Seq(S) /\ Len(front) = k - 1
      /\ \A i \in 1..(k - 1) : front[i] = q[i]
  BY SubSeqProperties, ElementOfSeq
<1>2. /\ back \in Seq(S) /\ Len(back) = Len(q) - k + 1
      /\ \A i \in 1..(Len(q) - k + 1) : back[i] = q[k + i - 1]
  BY SubSeqProperties, ElementOfSeq
<1>3. <<o>> \in Seq(S) /\ Len(<<o>>) = 1 /\ <<o>>[1] = o
  OBVIOUS
<1> HIDE DEF front, back
<1> DEFINE prefix == front \o <<o>>
<1>4. /\ prefix \in Seq(S)
      /\ Len(prefix) = k
      /\ \A i \in 1..k : prefix[i] = IF i < k THEN q[i] ELSE o
  BY <1>1, <1>3, ConcatProperties
<1>5. Placed(q, o, k) = prefix \o back
  BY DEF Placed, InsertAt, front, back
<1> HIDE DEF prefix
<1>6. /\ prefix \o back \in Seq(S)
      /\ Len(prefix \o back) = Len(q) + 1
      /\ \A i \in 1..(Len(q) + 1) : (prefix \o back)[i] =
           IF i <= k THEN prefix[i] ELSE back[i - k]
  <2>1. Len(q) \in Nat  BY LenProperties
  <2>2. Len(prefix) + Len(back) = Len(q) + 1  BY <1>2, <1>4, <2>1
  <2>3. prefix \in Seq(S) /\ back \in Seq(S)  BY <1>2, <1>4
  <2>4. /\ prefix \o back \in Seq(S)
        /\ Len(prefix \o back) = Len(prefix) + Len(back)
        /\ \A i \in 1..(Len(prefix) + Len(back)) : (prefix \o back)[i] =
             IF i <= Len(prefix) THEN prefix[i] ELSE back[i - Len(prefix)]
    BY ONLY <2>3, ConcatProperties
  <2>5. Len(prefix) = k  BY <1>4
  <2> QED  BY <2>2, <2>4, <2>5
<1>7. Len(q) \in Nat  BY LenProperties
<1> DEFINE p == prefix \o back
<1> HIDE DEF p
<1>8. ASSUME NEW i \in 1..Len(q), i < k PROVE p[i] = q[i]
  <2>1. i \in 1..k /\ i \in 1..(Len(q) + 1) /\ i <= k  BY <1>7, <1>8
  <2>2. p[i] = prefix[i]  BY <1>6, <2>1 DEF p
  <2>3. prefix[i] = q[i]  BY <1>4, <1>8, <2>1
  <2> QED  BY <2>2, <2>3
<1>9. p[k] = o
  <2>1. p[k] = prefix[k]  BY <1>6, <1>7 DEF p
  <2>2. prefix[k] = o  BY <1>4, <1>7
  <2> QED  BY <2>1, <2>2
<1>10. ASSUME NEW i \in 1..Len(q), ~(i < k) PROVE p[i + 1] = q[i]
  <2>1. i + 1 \in 1..(Len(q) + 1) /\ ~(i + 1 <= k) /\ (i + 1) - k \in 1..(Len(q) - k + 1)
    BY <1>7, <1>10
  <2>2. p[i + 1] = back[(i + 1) - k]  BY <1>6, <2>1 DEF p
  <2>3. back[(i + 1) - k] = q[k + ((i + 1) - k) - 1]  BY <1>2, <2>1
  <2>4. k + ((i + 1) - k) - 1 = i  BY <1>7
  <2> QED  BY <2>2, <2>3, <2>4
<1>11. Placed(q, o, k) = p  BY <1>5 DEF p
<1>12. p \in Seq(S) /\ Len(p) = Len(q) + 1  BY <1>6 DEF p
<1> QED  BY <1>8, <1>9, <1>10, <1>11, <1>12

(* The elements after an insertion. *)
LEMMA PlacedRange ==
  ASSUME NEW S, NEW q \in Seq(S), NEW o \in S, NEW k \in 1..(Len(q) + 1)
  PROVE  Range(Placed(q, o, k)) = Range(q) \cup {o}
<1> DEFINE p == Placed(q, o, k)
<1>1. /\ p \in Seq(S)
      /\ Len(p) = Len(q) + 1
      /\ \A i \in 1..Len(q) : i < k => p[i] = q[i]
      /\ p[k] = o
      /\ \A i \in 1..Len(q) : ~(i < k) => p[i + 1] = q[i]
  BY ONLY q \in Seq(S), o \in S, k \in 1..(Len(q) + 1), PlacedProperties
<1> HIDE DEF p
<1>2. DOMAIN p = 1..(Len(q) + 1) /\ DOMAIN q = 1..Len(q) /\ Len(q) \in Nat
  BY <1>1, LenProperties
<1>3. ASSUME NEW x \in Range(p) PROVE x \in Range(q) \cup {o}
  <2>1. PICK i \in 1..(Len(q) + 1) : x = p[i]  BY <1>2 DEF Range
  <2>2. CASE i < k
    <3>1. i \in 1..Len(q)  BY <1>2, <2>2
    <3> QED  BY <1>1, <1>2, <2>1, <2>2, <3>1 DEF Range
  <2>3. CASE i = k
    BY <1>1, <2>1, <2>3
  <2>4. CASE k < i
    <3>1. i - 1 \in 1..Len(q) /\ ~(i - 1 < k) /\ (i - 1) + 1 = i  BY <1>2, <2>4
    <3>2. p[i] = q[i - 1]  BY <1>1, <3>1
    <3> QED  BY <1>2, <2>1, <3>1, <3>2 DEF Range
  <2> QED  BY <1>2, <2>2, <2>3, <2>4
<1>4. o \in Range(p)
  BY <1>1, <1>2 DEF Range
<1>5. ASSUME NEW x \in Range(q) PROVE x \in Range(p)
  <2>1. PICK i \in 1..Len(q) : x = q[i]  BY <1>2 DEF Range
  <2>2. i \in 1..(Len(q) + 1) /\ i + 1 \in 1..(Len(q) + 1)  BY <1>2
  <2>3. p[i] = q[i] \/ p[i + 1] = q[i]  BY <1>1
  <2> QED  BY <1>2, <2>1, <2>2, <2>3 DEF Range
<1> QED  BY <1>3, <1>4, <1>5 DEF p

(* The elements of a sequence, and those left when its head is dropped, if *)
(* the sequence repeats nothing.                                           *)
LEMMA RangeProperties ==
  ASSUME NEW S, NEW q \in Seq(S)
  PROVE  /\ Range(q) \subseteq S
         /\ \A x : x \in Range(q) <=> \E i \in 1..Len(q) : q[i] = x
  BY LenProperties, ElementOfSeq DEF Range

(* Dropping the head of a sequence that repeats nothing drops one element. *)
LEMMA TailRange ==
  ASSUME NEW S, NEW q \in Seq(S), q # << >>,
         \A i, j \in 1..Len(q) : i < j => q[i] # q[j]
  PROVE  /\ Head(q) \in Range(q)
         /\ Head(q) = q[1]
         /\ Range(Tail(q)) = Range(q) \ {Head(q)}
<1>1. Len(q) \in Nat \ {0} /\ Head(q) = q[1]
  BY EmptySeq, HeadTailProperties
<1>2. /\ Tail(q) \in Seq(S) /\ Len(Tail(q)) = Len(q) - 1
      /\ \A i \in 1..Len(Tail(q)) : Tail(q)[i] = q[i + 1]
  BY HeadTailProperties
<1>3. DOMAIN q = 1..Len(q) /\ DOMAIN Tail(q) = 1..(Len(q) - 1)
  BY <1>2, LenProperties
<1>4. Head(q) \in Range(q)
  BY <1>1, <1>3 DEF Range
<1>5. ASSUME NEW x \in Range(Tail(q)) PROVE x \in Range(q) \ {Head(q)}
  <2>1. PICK i \in 1..(Len(q) - 1) : x = Tail(q)[i]  BY <1>3 DEF Range
  <2>2. x = q[i + 1] /\ i + 1 \in 1..Len(q) /\ 1 \in 1..Len(q) /\ 1 < i + 1
    BY <1>1, <1>2, <2>1
  <2> QED  BY <1>1, <1>3, <2>2 DEF Range
<1>6. ASSUME NEW x \in Range(q) \ {Head(q)} PROVE x \in Range(Tail(q))
  <2>1. PICK i \in 1..Len(q) : x = q[i]  BY <1>3 DEF Range
  <2>2. i # 1 /\ i - 1 \in 1..(Len(q) - 1) /\ (i - 1) + 1 = i  BY <1>1, <2>1
  <2>3. Tail(q)[i - 1] = q[i]  BY <1>2, <2>2
  <2> QED  BY <1>3, <2>1, <2>2, <2>3 DEF Range
<1> QED  BY <1>1, <1>4, <1>5, <1>6

-----------------------------------------------------------------------------
(* Finite sets: a largest number, an enumeration in a given order. *)

LEMMA LargestNatural ==
  ASSUME NEW N \in SUBSET Nat, IsFiniteSet(N), N # {}
  PROVE  Max(N) \in N /\ \A n \in N : Max(N) >= n
<1> DEFINE Good == {T \in SUBSET N : T # {} => \E m \in T : \A n \in T : m >= n}
<1>1. {} \in Good
  OBVIOUS
<1>2. ASSUME NEW T \in SUBSET N, NEW x \in N \ T, T \in Good PROVE T \cup {x} \in Good
  <2>1. CASE T = {}
    BY <2>1
  <2>2. CASE T # {}
    <3>1. PICK m \in T : \A n \in T : m >= n  BY <1>2, <2>2
    <3>2. CASE m >= x
      BY <3>1, <3>2
    <3>3. CASE ~(m >= x)
      <4>1. \A n \in T \cup {x} : x >= n  BY <3>1, <3>3
      <4> QED  BY <4>1
    <3> QED  BY <3>2, <3>3
  <2> QED  BY <2>1, <2>2
<1> HIDE DEF Good
<1>3. N \in Good
  BY <1>1, <1>2, FiniteInduction
<1> QED  BY <1>3 DEF Good, Max

LEMMA ImageIsFinite ==
  ASSUME NEW S, IsFiniteSet(S), NEW f
  PROVE  IsFiniteSet({f[x] : x \in S})
<1> DEFINE Image(T) == {f[x] : x \in T}
           Good == {T \in SUBSET S : IsFiniteSet(Image(T))}
<1>1. {} \in Good
  <2>1. Image({}) = {}  OBVIOUS
  <2> QED  BY <2>1, FS_EmptySet
<1>2. ASSUME NEW T \in SUBSET S, NEW x \in S \ T, T \in Good PROVE T \cup {x} \in Good
  <2>1. Image(T \cup {x}) = Image(T) \cup {f[x]}  OBVIOUS
  <2>2. IsFiniteSet(Image(T))  BY <1>2
  <2> HIDE DEF Image
  <2>3. IsFiniteSet(Image(T) \cup {f[x]})  BY <2>2, FS_AddElement
  <2> QED  BY <2>1, <2>3
<1> HIDE DEF Good
<1>3. S \in Good
  BY <1>1, <1>2, FiniteInduction
<1> QED  BY <1>3 DEF Good

(* Where an element belongs in a sequence sorted by a transitive relation. *)
LEMMA SlotExists ==
  ASSUME NEW S, NEW q \in Seq(S), NEW x, NEW R
  PROVE  \E k \in 1..(Len(q) + 1) :
           /\ \A i \in 1..Len(q) : i < k => <<x, q[i]>> \notin R
           /\ k <= Len(q) => <<x, q[k]>> \in R
<1> DEFINE K == {i \in 1..Len(q) : <<x, q[i]>> \in R}
<1>1. Len(q) \in Nat  BY LenProperties
<1>2. CASE K = {}
  <2>1. Len(q) + 1 \in 1..(Len(q) + 1) /\ ~(Len(q) + 1 <= Len(q))  BY <1>1
  <2>2. \A i \in 1..Len(q) : <<x, q[i]>> \notin R  BY <1>2
  <2> QED  BY <2>1, <2>2
<1>3. CASE K # {}
  <2>1. K \subseteq Nat  BY <1>1
  <2>2. PICK k \in K : \A i \in K : k <= i
    <3> HIDE DEF K
    <3> QED  BY <1>3, <2>1, LeastNatural
  <2>3. k \in 1..Len(q) /\ <<x, q[k]>> \in R  BY <2>2
  <2>4. k \in 1..(Len(q) + 1)  BY <1>1, <2>3
  <2>5. \A i \in 1..Len(q) : i < k => i \notin K
    <3> HIDE DEF K
    <3> QED  BY <1>1, <2>2, <2>3
  <2>6. \A i \in 1..Len(q) : i < k => <<x, q[i]>> \notin R  BY <2>5
  <2> QED  BY <2>3, <2>4, <2>6
<1> QED  BY <1>2, <1>3

(* A finite set can be listed without repetition in the order of any       *)
(* relation that is a strict weak order of it.                             *)
LEMMA SortedEnumeration ==
  ASSUME NEW S, IsFiniteSet(S), NEW R,
         \A a, b, c \in S : <<a, b>> \in R /\ <<b, c>> \in R => <<a, c>> \in R,
         \A a \in S : <<a, a>> \notin R
  PROVE  \E q \in SetToSeqs(S) : \A i, j \in DOMAIN q : i < j => <<q[j], q[i]>> \notin R
<1> DEFINE Listed(T, q) ==
             /\ q \in Seq(T)
             /\ Len(q) = Cardinality(T)
             /\ \A i, j \in 1..Len(q) : i # j => q[i] # q[j]
             /\ \A i, j \in 1..Len(q) : i < j => <<q[j], q[i]>> \notin R
           Good == {T \in SUBSET S : \E q : Listed(T, q)}
<1>1. {} \in Good
  <2>1. Listed({}, << >>)  BY FS_EmptySet
  <2> QED  BY <2>1
<1>2. ASSUME NEW T \in SUBSET S, NEW x \in S \ T, T \in Good PROVE T \cup {x} \in Good
  <2>1. PICK q : Listed(T, q)  BY <1>2
  <2>2. Len(q) \in Nat /\ q \in Seq(T)  BY <2>1, LenProperties
  <2>3. PICK k \in 1..(Len(q) + 1) :
          /\ \A i \in 1..Len(q) : i < k => <<x, q[i]>> \notin R
          /\ k <= Len(q) => <<x, q[k]>> \in R
    BY <2>2, SlotExists
  <2> DEFINE p == Placed(q, x, k)
             U == T \cup {x}
  <2>4. q \in Seq(U)
    BY <2>2
  <2>5. /\ p \in Seq(U)
        /\ Len(p) = Len(q) + 1
        /\ \A i \in 1..Len(q) : i < k => p[i] = q[i]
        /\ p[k] = x
        /\ \A i \in 1..Len(q) : ~(i < k) => p[i + 1] = q[i]
    <3>1. x \in U  OBVIOUS
    <3> HIDE DEF U
    <3> QED  BY <2>3, <2>4, <3>1, PlacedProperties
  <2> HIDE DEF p
  <2>6. \A i \in 1..Len(q) : q[i] \in T /\ q[i] \in S /\ q[i] # x
    BY <1>2, <2>2, ElementOfSeq
  <2>7. \A i \in 1..Len(q) : ~(i < k) => <<q[i], x>> \notin R
    <3> SUFFICES ASSUME NEW i \in 1..Len(q), ~(i < k), <<q[i], x>> \in R PROVE FALSE
      OBVIOUS
    <3>1. k \in 1..Len(q) /\ <<x, q[k]>> \in R  BY <2>2, <2>3
    <3>2. <<q[i], q[k]>> \in R  BY <2>6, <3>1
    <3>3. i = k \/ k < i  BY <2>2
    <3>4. CASE i = k
      BY <2>6, <3>2, <3>4
    <3>5. CASE k < i
      BY <2>1, <3>1, <3>2, <3>5
    <3> QED  BY <3>3, <3>4, <3>5
  (* Where an element of p comes from. *)
  <2>8. \A i \in 1..Len(p) :
          \/ i < k /\ i \in 1..Len(q) /\ p[i] = q[i]
          \/ i = k /\ p[i] = x
          \/ k < i /\ i - 1 \in 1..Len(q) /\ p[i] = q[i - 1]
    <3> TAKE i \in 1..Len(p)
    <3>1. i \in 1..(Len(q) + 1) /\ i \in Nat /\ k \in Nat  BY <2>2, <2>5
    <3>2. CASE i < k
      <4>1. i \in 1..Len(q)  BY <2>2, <3>1, <3>2
      <4> QED  BY <2>5, <3>2, <4>1
    <3>3. CASE i = k
      BY <2>5, <3>3
    <3>4. CASE k < i
      <4>1. i - 1 \in 1..Len(q) /\ ~(i - 1 < k) /\ (i - 1) + 1 = i
        BY <2>2, <3>1, <3>4
      <4>2. p[(i - 1) + 1] = q[i - 1]  BY <2>5, <4>1
      <4> QED  BY <3>4, <4>1, <4>2
    <3> QED  BY <3>1, <3>2, <3>3, <3>4
  <2>9. ASSUME NEW i \in 1..Len(p), NEW j \in 1..Len(p), i < j
        PROVE  p[i] # p[j] /\ <<p[j], p[i]>> \notin R
    <3>1. i \in Nat /\ j \in Nat /\ k \in Nat  BY <2>2, <2>5
    <3>2. CASE j < k
      <4>1. /\ i \in 1..Len(q) /\ p[i] = q[i]
            /\ j \in 1..Len(q) /\ p[j] = q[j]  BY <2>8, <2>9, <3>1, <3>2
      <4> QED  BY <2>1, <2>9, <3>1, <4>1
    <3>3. CASE j = k
      <4>1. i \in 1..Len(q) /\ p[i] = q[i] /\ p[j] = x /\ i < k  BY <2>8, <2>9, <3>1, <3>3
      <4> QED  BY <2>3, <2>6, <4>1
    <3>4. CASE k < j
      <4>1. j - 1 \in 1..Len(q) /\ p[j] = q[j - 1] /\ ~(j - 1 < k)  BY <2>8, <3>1, <3>4
      <4>2. CASE i < k
        <5>1. i \in 1..Len(q) /\ p[i] = q[i] /\ i < j - 1  BY <2>8, <3>1, <3>4, <4>2
        <5> QED  BY <2>1, <4>1, <5>1
      <4>3. CASE i = k
        <5>1. p[i] = x  BY <2>5, <4>3
        <5> QED  BY <2>6, <2>7, <4>1, <5>1
      <4>4. CASE k < i
        <5>1. i - 1 \in 1..Len(q) /\ p[i] = q[i - 1] /\ i - 1 < j - 1
          BY <2>8, <2>9, <3>1, <4>4
        <5> QED  BY <2>1, <4>1, <5>1
      <4> QED  BY <3>1, <4>2, <4>3, <4>4
    <3> QED  BY <3>1, <3>2, <3>3, <3>4
  <2>10. Len(p) = Cardinality(U)
    <3>1. IsFiniteSet(T)  BY FS_Subset
    <3> QED  BY <1>2, <2>1, <2>5, <3>1, FS_AddElement
  <2>11. Len(p) \in Nat  BY <2>2, <2>5
  <2>12. \A i, j \in 1..Len(p) : i # j => p[i] # p[j]
    <3> SUFFICES ASSUME NEW i \in 1..Len(p), NEW j \in 1..Len(p), i # j PROVE p[i] # p[j]
      OBVIOUS
    <3>1. i < j \/ j < i  BY <2>11
    <3> QED  BY <2>9, <3>1
  <2>13. Listed(U, p)
    BY <2>5, <2>9, <2>10, <2>12
  <2> QED  BY <2>13
<1> HIDE DEF Good
<1>3. S \in Good
  BY <1>1, <1>2, FiniteInduction
<1>4. PICK q : Listed(S, q)
  BY <1>3 DEF Good
<1>5. DOMAIN q = 1..Cardinality(S) /\ q \in [1..Cardinality(S) -> S]
  BY <1>4, LenProperties
<1>6. q \in SetToSeqs(S)
  BY <1>4, <1>5 DEF SetToSeqs
<1> QED  BY <1>4, <1>5, <1>6

(* A list of a set without repetition has every element of the set. *)
LEMMA EnumerationIsComplete ==
  ASSUME NEW S, IsFiniteSet(S), NEW q \in SetToSeqs(S)
  PROVE  \A x \in S : \E i \in DOMAIN q : q[i] = x
<1> DEFINE n == Cardinality(S)
<1>1. n \in Nat
  BY FS_CardinalityType
<1>2. q \in [1..n -> S] /\ \A i, j \in 1..n : i # j => q[i] # q[j]
  BY DEF SetToSeqs
<1>3. IsFiniteSet(1..n) /\ Cardinality(1..n) = n
  BY <1>1, FS_Interval
<1> SUFFICES ASSUME NEW x \in S, \A i \in 1..n : q[i] # x PROVE FALSE
  BY <1>2
<1>4. IsFiniteSet(S \ {x}) /\ Cardinality(S \ {x}) = n - 1
  BY FS_RemoveElement
<1>5. q \in [1..n -> S \ {x}]
  BY <1>2
<1> HIDE DEF n
<1>6. Cardinality(S \ {x}) < Cardinality(1..n)
  BY <1>1, <1>3, <1>4
<1>7. \E i, j \in 1..n : i # j /\ q[i] = q[j]
  <2> DEFINE D == 1..n
             R == S \ {x}
  <2>1. IsFiniteSet(D) /\ IsFiniteSet(R) /\ Cardinality(R) < Cardinality(D) /\ q \in [D -> R]
    BY <1>3, <1>4, <1>5, <1>6
  <2> HIDE DEF D, R
  <2>2. \E i, j \in D : i # j /\ q[i] = q[j]
    BY <2>1, FS_PigeonHole
  <2> QED  BY <2>2 DEF D
<1> QED  BY <1>2, <1>7

-----------------------------------------------------------------------------
(* Sums over a finite set, SumFunctionOnSet of the community modules: it   *)
(* folds over the elements in an order that CHOOSE fixes, and the lemmas   *)
(* say that the order does not matter.                                     *)
Picked(s) == CHOOSE x \in s : TRUE

(* g[s] is the sum of F over s, for every subset s of S. *)
IsTable(g, F, S) ==
  g = [s \in SUBSET S |-> IF s = {} THEN 0 ELSE F[Picked(s)] + g[s \ {Picked(s)}]]

LEMMA TableExists ==
  ASSUME NEW S, IsFiniteSet(S), NEW F \in [S -> Int]
  PROVE  \E g \in [SUBSET S -> Int] : IsTable(g, F, S)
<1> DEFINE Next(g) == [s \in SUBSET S |->
             IF s = {} THEN 0 ELSE F[Picked(s)] + g[s \ {Picked(s)}]]
           Upto(g, n) == \A s \in SUBSET S : Cardinality(s) <= n => g[s] = Next(g)[s]
           Good == {n \in Nat : \E g \in [SUBSET S -> Int] : Upto(g, n)}
<1>1. \A s \in SUBSET S : s # {} => Picked(s) \in s
  BY DEF Picked
<1>2. ASSUME NEW g \in [SUBSET S -> Int] PROVE Next(g) \in [SUBSET S -> Int]
  BY <1>1
<1>3. \A s \in SUBSET S : IsFiniteSet(s) /\ Cardinality(s) \in Nat
  BY FS_Subset, FS_CardinalityType
<1>4. \A s \in SUBSET S : s # {} => Cardinality(s \ {Picked(s)}) = Cardinality(s) - 1
  BY <1>1, <1>3, FS_RemoveElement
<1>5. 0 \in Good
  <2> DEFINE g == [s \in SUBSET S |-> 0]
  <2>1. \A s \in SUBSET S : Cardinality(s) <= 0 => s = {}
    BY <1>3, FS_EmptySet
  <2>2. g \in [SUBSET S -> Int] /\ Upto(g, 0)
    BY <2>1
  <2> QED  BY <2>2
<1>6. ASSUME NEW n \in Nat, n \in Good PROVE n + 1 \in Good
  <2>1. PICK g \in [SUBSET S -> Int] : Upto(g, n)
    BY <1>6
  <2>2. ASSUME NEW s \in SUBSET S, Cardinality(s) <= n + 1
        PROVE  Next(g)[s] = Next(Next(g))[s]
    <3>1. CASE s = {}
      BY <3>1
    <3>2. CASE s # {}
      <4> DEFINE t == s \ {Picked(s)}
      <4>1. t \in SUBSET S /\ Cardinality(t) <= n
        BY <1>3, <1>4, <2>2, <3>2
      <4>2. g[t] = Next(g)[t]
        BY <2>1, <4>1
      <4> QED  BY <3>2, <4>1, <4>2
    <3> QED  BY <3>1, <3>2
  <2>3. Next(g) \in [SUBSET S -> Int] /\ Upto(Next(g), n + 1)
    BY <1>2, <2>2
  <2> HIDE DEF Next, Upto
  <2> QED  BY <2>3
<1>7. Cardinality(S) \in Good
  <2> HIDE DEF Good
  <2>1. Nat \subseteq Good  BY <1>5, <1>6, NaturalInduction
  <2> QED  BY <1>3, <2>1
<1>8. PICK g \in [SUBSET S -> Int] : Upto(g, Cardinality(S))
  BY <1>7
<1>9. \A s \in SUBSET S : Cardinality(s) <= Cardinality(S)
  BY FS_Subset
<1>10. \A s \in SUBSET S : g[s] = Next(g)[s]
  BY <1>8, <1>9
<1>11. g = Next(g)
  BY <1>10
<1> QED  BY <1>8, <1>11 DEF IsTable

(* Which element comes first does not matter. *)
Splits(g, F, S) ==
  \A s \in SUBSET S : \A x \in s : g[s] = F[x] + g[s \ {x}]

LEMMA TableCommutes ==
  ASSUME NEW S, IsFiniteSet(S), NEW F \in [S -> Int],
         NEW g \in [SUBSET S -> Int], IsTable(g, F, S)
  PROVE  Splits(g, F, S)
<1> DEFINE Holds(s) == \A x \in s : g[s] = F[x] + g[s \ {x}]
           Good == {n \in Nat : \A s \in SUBSET S : Cardinality(s) <= n => Holds(s)}
<1>1. \A s \in SUBSET S : s # {} => Picked(s) \in s /\ g[s] = F[Picked(s)] + g[s \ {Picked(s)}]
  BY DEF Picked, IsTable
<1>2. \A s \in SUBSET S : IsFiniteSet(s) /\ Cardinality(s) \in Nat
  BY FS_Subset, FS_CardinalityType
<1>3. \A s \in SUBSET S : \A x \in s : Cardinality(s \ {x}) = Cardinality(s) - 1
  BY <1>2, FS_RemoveElement
<1>4. 0 \in Good
  <2>1. \A s \in SUBSET S : Cardinality(s) <= 0 => s = {}
    BY <1>2, FS_EmptySet
  <2> QED  BY <2>1
<1>5. ASSUME NEW n \in Nat, n \in Good PROVE n + 1 \in Good
  <2> SUFFICES ASSUME NEW s \in SUBSET S, Cardinality(s) <= n + 1, NEW x \in s
               PROVE  g[s] = F[x] + g[s \ {x}]
    OBVIOUS
  <2> DEFINE c == Picked(s)
  <2>1. c \in s /\ g[s] = F[c] + g[s \ {c}]
    BY <1>1
  <2>2. CASE x = c
    BY <2>1, <2>2
  <2>3. CASE x # c
    <3>1. /\ s \ {c} \in SUBSET S /\ Cardinality(s \ {c}) <= n /\ x \in s \ {c}
          /\ s \ {x} \in SUBSET S /\ Cardinality(s \ {x}) <= n /\ c \in s \ {x}
      BY <1>2, <1>3, <2>1, <2>3
    <3> HIDE DEF c
    <3>2. g[s \ {c}] = F[x] + g[(s \ {c}) \ {x}] /\ g[s \ {x}] = F[c] + g[(s \ {x}) \ {c}]
      BY <1>5, <3>1
    <3>3. (s \ {c}) \ {x} = (s \ {x}) \ {c} /\ (s \ {x}) \ {c} \in SUBSET S
      OBVIOUS
    <3> DEFINE rest == g[(s \ {x}) \ {c}]
    <3>4. rest \in Int /\ F[c] \in Int /\ F[x] \in Int
      BY <2>1, <3>3
    <3>5. g[s \ {c}] = F[x] + rest /\ g[s \ {x}] = F[c] + rest
      BY <3>2, <3>3
    <3> HIDE DEF rest
    <3> QED  BY <2>1, <3>4, <3>5
  <2> QED  BY <2>2, <2>3
<1>6. ASSUME NEW s \in SUBSET S PROVE Holds(s)
  <2> HIDE DEF Good, Holds
  <2>1. Nat \subseteq Good  BY <1>4, <1>5, NaturalInduction
  <2>2. Cardinality(s) \in Good  BY <1>2, <2>1
  <2> QED  BY <1>2, <2>2 DEF Good
<1> QED  BY <1>6 DEF Splits

(* The recursion that a table solves leaves no choice. *)
Recurses(g, F, S) ==
  \A s \in SUBSET S : g[s] = IF s = {} THEN 0 ELSE F[Picked(s)] + g[s \ {Picked(s)}]

LEMMA TableUnique ==
  ASSUME NEW S, IsFiniteSet(S), NEW F, NEW H, \A x \in S : H[x] = F[x],
         NEW g, Recurses(g, F, S), NEW h, Recurses(h, H, S)
  PROVE  g[S] = h[S]
<1> DEFINE Good == {n \in Nat : \A s \in SUBSET S : Cardinality(s) <= n => g[s] = h[s]}
<1>1. \A s \in SUBSET S : IsFiniteSet(s) /\ Cardinality(s) \in Nat
  BY FS_Subset, FS_CardinalityType
<1>2. 0 \in Good
  <2>1. \A s \in SUBSET S : Cardinality(s) <= 0 => s = {}
    BY <1>1, FS_EmptySet
  <2>2. g[{}] = 0 /\ h[{}] = 0
    BY DEF Recurses
  <2> QED  BY <2>1, <2>2
<1>3. ASSUME NEW n \in Nat, n \in Good PROVE n + 1 \in Good
  <2>1. ASSUME NEW s \in SUBSET S, Cardinality(s) <= n + 1 PROVE g[s] = h[s]
    <3>1. CASE s = {}
      BY <3>1 DEF Recurses
    <3>2. CASE s # {}
      <4> DEFINE c == Picked(s)
                 t == s \ {c}
      <4>1. c \in s
        BY <3>2 DEF Picked
      <4>2. g[s] = F[c] + g[t] /\ h[s] = H[c] + h[t]
        BY <3>2 DEF Recurses
      <4> HIDE DEF c
      <4>3. Cardinality(t) = Cardinality(s) - 1 /\ t \in SUBSET S
        BY <1>1, <4>1, FS_RemoveElement
      <4>4. Cardinality(t) <= n
        BY <1>1, <2>1, <4>3
      <4>5. g[t] = h[t]
        BY <1>3, <4>3, <4>4
      <4>6. F[c] = H[c]
        BY <4>1
      <4> HIDE DEF t
      <4> QED  BY <4>2, <4>5, <4>6
    <3> QED  BY <3>1, <3>2
  <2> QED  BY <2>1
<1> HIDE DEF Good
<1>4. Nat \subseteq Good
  BY <1>2, <1>3, NaturalInduction
<1>5. Cardinality(S) \in Good
  BY <1>1, <1>4
<1> QED  BY <1>1, <1>5 DEF Good

(* A sum is the entry of any table over a set that contains its own. *)
LEMMA SumIsEntry ==
  ASSUME NEW S, IsFiniteSet(S), NEW F \in [S -> Int], NEW H, \A x \in S : H[x] = F[x],
         NEW g \in [SUBSET S -> Int], IsTable(g, F, S), NEW T \in SUBSET S
  PROVE  SumFunctionOnSet(H, T) = g[T]
<1> DEFINE f == [x \in T |-> F[x]]
           t == CHOOSE k : IsTable(k, H, T)
<1>1. SumFunctionOnSet(H, T) = t[T]
  BY DEF SumFunctionOnSet, FoldFunctionOnSet, MapThenFoldSet, IsTable, Picked
<1>2. IsFiniteSet(T)
  BY FS_Subset
<1>3. f \in [T -> Int] /\ \A x \in T : H[x] = f[x] /\ f[x] = F[x]
  OBVIOUS
<1> HIDE DEF f
<1>4. PICK k : IsTable(k, f, T)
  BY <1>2, <1>3, TableExists
<1>5. IsTable(k, H, T)
  <2>1. [s \in SUBSET T |-> IF s = {} THEN 0 ELSE f[Picked(s)] + k[s \ {Picked(s)}]]
        = [s \in SUBSET T |-> IF s = {} THEN 0 ELSE H[Picked(s)] + k[s \ {Picked(s)}]]
    <3>1. \A s \in SUBSET T : s # {} => f[Picked(s)] = H[Picked(s)]
      BY <1>3 DEF Picked
    <3> QED  BY <3>1
  <2> QED  BY <1>4, <2>1 DEF IsTable
<1>6. IsTable(t, H, T)
  BY <1>5
<1> HIDE DEF t
<1>7. Recurses(t, H, T)
  BY <1>6 DEF IsTable, Recurses
<1>8. Recurses(g, F, T)
  BY DEF IsTable, Recurses
<1>9. \A x \in T : H[x] = F[x]
  OBVIOUS
<1>10. t[T] = g[T]
  BY <1>2, <1>7, <1>8, <1>9, TableUnique
<1> QED  BY <1>1, <1>10

(* The laws of sums. *)
LEMMA SumEmpty ==
  ASSUME NEW S, S = {}, NEW F
  PROVE  SumFunctionOnSet(F, S) = 0
<1> DEFINE f == [x \in S |-> 0]
<1>1. IsFiniteSet(S) /\ f \in [S -> Int] /\ \A x \in S : F[x] = f[x]
  BY FS_EmptySet
<1> HIDE DEF f
<1>2. PICK g \in [SUBSET S -> Int] : IsTable(g, f, S)
  BY <1>1, TableExists
<1>3. S \in SUBSET S
  OBVIOUS
<1>4. SumFunctionOnSet(F, S) = g[S]
  BY ONLY <1>1, <1>2, <1>3, SumIsEntry
<1> QED  BY <1>2, <1>3, <1>4 DEF IsTable

LEMMA SumAdds ==
  ASSUME NEW S, IsFiniteSet(S), NEW F, \A x \in S : F[x] \in Int
  PROVE  /\ SumFunctionOnSet(F, S) \in Int
         /\ \A x \in S : SumFunctionOnSet(F, S) = F[x] + SumFunctionOnSet(F, S \ {x})
<1> DEFINE f == [x \in S |-> F[x]]
<1>1. f \in [S -> Int] /\ \A x \in S : F[x] = f[x]
  OBVIOUS
<1> HIDE DEF f
<1>2. PICK g \in [SUBSET S -> Int] : IsTable(g, f, S)
  BY <1>1, TableExists
<1>3. \A T \in SUBSET S : SumFunctionOnSet(F, T) = g[T]
  BY <1>1, <1>2, SumIsEntry
<1>4. S \in SUBSET S /\ \A x \in S : S \ {x} \in SUBSET S
  OBVIOUS
<1>5. Splits(g, f, S)
  BY <1>1, <1>2, TableCommutes
<1>6. \A x \in S : g[S] = f[x] + g[S \ {x}]
  BY <1>4, <1>5 DEF Splits
<1> QED  BY <1>1, <1>2, <1>3, <1>4, <1>6

(* Equal terms have equal sums. *)
LEMMA SumEqual ==
  ASSUME NEW S, IsFiniteSet(S), NEW F, NEW G, \A x \in S : F[x] \in Int /\ G[x] = F[x]
  PROVE  SumFunctionOnSet(G, S) = SumFunctionOnSet(F, S)
<1> DEFINE f == [x \in S |-> F[x]]
<1>1. f \in [S -> Int] /\ (\A x \in S : F[x] = f[x]) /\ \A x \in S : G[x] = f[x]
  OBVIOUS
<1> HIDE DEF f
<1>2. PICK g \in [SUBSET S -> Int] : IsTable(g, f, S)
  BY <1>1, TableExists
<1>3. S \in SUBSET S
  OBVIOUS
<1>4. SumFunctionOnSet(F, S) = g[S]
  BY <1>1, <1>2, <1>3, SumIsEntry
<1>5. SumFunctionOnSet(G, S) = g[S]
  BY <1>1, <1>2, <1>3, SumIsEntry
<1> QED  BY <1>4, <1>5

(* Changing one term changes the sum by as much. *)
LEMMA SumChanges ==
  ASSUME NEW S, IsFiniteSet(S), NEW x \in S,
         NEW F, \A y \in S : F[y] \in Int,
         NEW G, G[x] \in Int, \A y \in S : y # x => G[y] = F[y]
  PROVE  SumFunctionOnSet(G, S) = SumFunctionOnSet(F, S) - F[x] + G[x]
<1> DEFINE T == S \ {x}
<1>1. IsFiniteSet(T) /\ \A y \in T : F[y] \in Int /\ G[y] = F[y]
  BY FS_Subset
<1>2. \A y \in S : G[y] \in Int
  OBVIOUS
<1>3. SumFunctionOnSet(F, S) = F[x] + SumFunctionOnSet(F, T)
  BY SumAdds
<1>4. SumFunctionOnSet(G, S) = G[x] + SumFunctionOnSet(G, T)
  BY <1>2, SumAdds
<1> HIDE DEF T
<1>5. SumFunctionOnSet(G, T) = SumFunctionOnSet(F, T) /\ SumFunctionOnSet(F, T) \in Int
  BY <1>1, SumEqual, SumAdds
<1>6. F[x] \in Int
  OBVIOUS
<1> QED  BY <1>3, <1>4, <1>5, <1>6

(* What is nowhere more sums up to no more; what is nowhere negative is no *)
(* more than its sum.                                                      *)
LEMMA SumZero ==
  ASSUME NEW S, IsFiniteSet(S), NEW F, \A x \in S : F[x] = 0
  PROVE  SumFunctionOnSet(F, S) = 0
<1> DEFINE Good == {T \in SUBSET S : SumFunctionOnSet(F, T) = 0}
<1>1. {} \in Good
  BY SumEmpty
<1>2. ASSUME NEW T \in SUBSET S, NEW x \in S \ T, T \in Good PROVE T \cup {x} \in Good
  <2> DEFINE U == T \cup {x}
  <2>1. IsFiniteSet(U) /\ (\A y \in U : F[y] \in Int) /\ U \ {x} = T /\ x \in U
    BY FS_Subset
  <2> HIDE DEF U
  <2>2. SumFunctionOnSet(F, U) = F[x] + SumFunctionOnSet(F, T)
    BY <2>1, SumAdds
  <2>3. F[x] = 0 /\ SumFunctionOnSet(F, T) = 0
    BY <1>2
  <2> QED  BY <2>2, <2>3 DEF U
<1> HIDE DEF Good
<1>3. S \in Good
  BY <1>1, <1>2, FiniteInduction
<1> QED  BY <1>3 DEF Good

LEMMA SumMonotone ==
  ASSUME NEW S, IsFiniteSet(S), NEW F, NEW G,
         \A x \in S : F[x] \in Int /\ G[x] \in Int /\ F[x] <= G[x]
  PROVE  SumFunctionOnSet(F, S) <= SumFunctionOnSet(G, S)
<1> DEFINE Good == {T \in SUBSET S : SumFunctionOnSet(F, T) <= SumFunctionOnSet(G, T)}
<1>1. {} \in Good
  <2>1. SumFunctionOnSet(F, {}) = 0 /\ SumFunctionOnSet(G, {}) = 0
    BY SumEmpty
  <2> QED  BY <2>1
<1>2. ASSUME NEW T \in SUBSET S, NEW x \in S \ T, T \in Good PROVE T \cup {x} \in Good
  <2> DEFINE U == T \cup {x}
  <2>1. IsFiniteSet(U) /\ (\A y \in U : F[y] \in Int /\ G[y] \in Int) /\ U \ {x} = T /\ x \in U
    BY FS_Subset
  <2>2. IsFiniteSet(T) /\ \A y \in T : F[y] \in Int /\ G[y] \in Int
    BY FS_Subset
  <2> HIDE DEF U
  <2>3. SumFunctionOnSet(F, U) = F[x] + SumFunctionOnSet(F, T)
    BY <2>1, SumAdds
  <2>4. SumFunctionOnSet(G, U) = G[x] + SumFunctionOnSet(G, T)
    BY <2>1, SumAdds
  <2>5. SumFunctionOnSet(F, T) \in Int /\ SumFunctionOnSet(G, T) \in Int
    BY <2>2, SumAdds
  <2>6. SumFunctionOnSet(F, T) <= SumFunctionOnSet(G, T)
    BY <1>2
  <2>7. SumFunctionOnSet(F, U) <= SumFunctionOnSet(G, U)
    BY <2>1, <2>3, <2>4, <2>5, <2>6
  <2> QED  BY <2>7 DEF U
<1> HIDE DEF Good
<1>3. S \in Good
  BY <1>1, <1>2, FiniteInduction
<1> QED  BY <1>3 DEF Good

LEMMA SumNatural ==
  ASSUME NEW S, IsFiniteSet(S), NEW F, \A x \in S : F[x] \in Nat
  PROVE  /\ SumFunctionOnSet(F, S) \in Nat
         /\ \A x \in S : F[x] <= SumFunctionOnSet(F, S)
<1> DEFINE zero == [x \in S |-> 0]
<1>1. \A T \in SUBSET S : SumFunctionOnSet(F, T) \in Nat
  <2> SUFFICES ASSUME NEW T \in SUBSET S PROVE SumFunctionOnSet(F, T) \in Nat
    OBVIOUS
  <2>1. IsFiniteSet(T)
    BY FS_Subset
  <2>2. \A x \in T : zero[x] = 0 /\ zero[x] \in Int /\ F[x] \in Int /\ zero[x] <= F[x]
    OBVIOUS
  <2> HIDE DEF zero
  <2>3. SumFunctionOnSet(zero, T) <= SumFunctionOnSet(F, T)
    BY <2>1, <2>2, SumMonotone
  <2>4. SumFunctionOnSet(zero, T) = 0
    BY <2>1, <2>2, SumZero
  <2>5. SumFunctionOnSet(F, T) \in Int
    BY <2>1, <2>2, SumAdds
  <2> QED  BY <2>3, <2>4, <2>5
<1>2. ASSUME NEW x \in S PROVE F[x] <= SumFunctionOnSet(F, S)
  <2>1. \A y \in S : F[y] \in Int
    OBVIOUS
  <2>2. SumFunctionOnSet(F, S) = F[x] + SumFunctionOnSet(F, S \ {x})
    BY <2>1, SumAdds
  <2>3. SumFunctionOnSet(F, S \ {x}) \in Nat
    BY <1>1
  <2> QED  BY <2>2, <2>3
<1>3. SumFunctionOnSet(F, S) \in Nat
  BY <1>1
<1> QED  BY <1>2, <1>3

(* Terms that are zero can be left out. *)
LEMMA SumWithin ==
  ASSUME NEW S, IsFiniteSet(S), NEW T \in SUBSET S, NEW F, \A x \in T : F[x] \in Int,
         NEW G, \A x \in S : G[x] = IF x \in T THEN F[x] ELSE 0
  PROVE  SumFunctionOnSet(G, S) = SumFunctionOnSet(F, T)
<1> DEFINE Good == {U \in SUBSET S : SumFunctionOnSet(G, U) = SumFunctionOnSet(F, U \cap T)}
<1>1. {} \in Good
  <2>1. SumFunctionOnSet(G, {}) = 0 /\ SumFunctionOnSet(F, {} \cap T) = 0
    BY SumEmpty
  <2> QED  BY <2>1
<1>2. ASSUME NEW U \in SUBSET S, NEW x \in S \ U, U \in Good PROVE U \cup {x} \in Good
  <2> DEFINE V == U \cup {x}
  <2>1. IsFiniteSet(V) /\ (\A y \in V : G[y] \in Int) /\ V \ {x} = U /\ x \in V
    BY FS_Subset
  <2>2. V \in SUBSET S
    OBVIOUS
  <2>3. SumFunctionOnSet(G, V) = G[x] + SumFunctionOnSet(G, U)
    BY ONLY <2>1, SumAdds
  <2>4. SumFunctionOnSet(G, U) = SumFunctionOnSet(F, U \cap T)
    BY <1>2
  <2>5. IsFiniteSet(U \cap T) /\ \A y \in U \cap T : F[y] \in Int
    BY FS_Subset
  <2>6. SumFunctionOnSet(F, U \cap T) \in Int
    BY <2>5, SumAdds
  <2>7. CASE x \in T
    <3> DEFINE W == V \cap T
    <3>1. IsFiniteSet(W) /\ (\A y \in W : F[y] \in Int) /\ W \ {x} = U \cap T /\ x \in W
      BY <2>7, FS_Subset
    <3> HIDE DEF W, V
    <3>2. SumFunctionOnSet(F, W) = F[x] + SumFunctionOnSet(F, U \cap T)
      BY <3>1, SumAdds
    <3> QED  BY <2>2, <2>3, <2>4, <2>7, <3>2 DEF W, V
  <2>8. CASE x \notin T
    <3>1. V \cap T = U \cap T /\ G[x] = 0
      BY <2>8
    <3>2. SumFunctionOnSet(G, V) = SumFunctionOnSet(F, U \cap T)
      BY <2>3, <2>4, <2>6, <3>1
    <3> HIDE DEF V
    <3>3. SumFunctionOnSet(G, V) = SumFunctionOnSet(F, V \cap T)
      BY <3>1, <3>2
    <3> QED  BY <2>2, <3>3 DEF V
  <2> QED  BY <2>7, <2>8
<1>3. S \in Good
  <2> HIDE DEF Good
  <2> QED  BY <1>1, <1>2, FiniteInduction
<1>4. S \cap T = T
  OBVIOUS
<1> QED  BY <1>3, <1>4

=============================================================================
