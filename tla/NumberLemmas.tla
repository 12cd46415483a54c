---------------------------- MODULE NumberLemmas ----------------------------
(***************************************************************************)
(* Induction over the natural numbers, in a form the provers can use: the  *)
(* library's induction theorems take the property as an operator, these    *)
(* take the set of the numbers that have it.  They follow from the         *)
(* library's proof that the finite sets of numbers are well-founded under  *)
(* inclusion.  And what they give for sets of numbers written in order.    *)
(***************************************************************************)
EXTENDS Integers, FiniteSetTheorems, TLAPS

(* A set of natural numbers that is not empty has a least element.         *)
LEMMA LeastNumber ==
    ASSUME NEW T \in SUBSET Nat, T # {}
    PROVE  \E x \in T : \A y \in T : x <= y
<1> DEFINE R == StrictSubsetOrdering(Nat)
           F == FiniteSubsetsOf(Nat)
           U == {1 .. n : n \in T}
<1>1. IsWellFoundedOn(R, F)
  BY FS_StrictSubsetOrderingWellFounded
<1>2. U \subseteq F /\ U # {}
  <2>1. \A n \in T : 1 .. n \in SUBSET Nat /\ IsFiniteSet(1 .. n)
    BY FS_Interval
  <2> QED BY <2>1 DEF FiniteSubsetsOf
<1>3. \E x \in U : \A y \in U : ~(<<y, x>> \in R)
  <2> HIDE DEF R, F, U
  <2> QED BY <1>1, <1>2, WFMin
<1>4. PICK n \in T : \A y \in U : ~(<<y, 1 .. n>> \in R)
  BY <1>3
<1>5. ASSUME NEW m \in T, m < n
      PROVE  <<1 .. m, 1 .. n>> \in R
  <2>1. 1 .. m \in SUBSET Nat /\ 1 .. n \in SUBSET Nat /\ 1 .. m \subseteq 1 .. n
    BY <1>5
  <2>2. n \in 1 .. n /\ n \notin 1 .. m
    BY <1>5
  <2> QED BY <2>1, <2>2 DEF StrictSubsetOrdering
<1>6. ASSUME NEW m \in T
      PROVE  n <= m
  <2>1. 1 .. m \in U
    OBVIOUS
  <2>2. ~(m < n)
    <3> HIDE DEF U, R
    <3> QED BY <1>4, <1>5, <2>1
  <2> QED BY <2>2
<1> QED BY <1>6

(* A set of numbers with 0 in it, and with every number the next one, has  *)
(* them all.                                                               *)
LEMMA NatSetInduction ==
    ASSUME NEW S, 0 \in S, \A n \in Nat : n \in S => n + 1 \in S
    PROVE  \A n \in Nat : n \in S
<1> SUFFICES ASSUME Nat \ S # {} PROVE FALSE
  OBVIOUS
<1>1. PICK x \in Nat \ S : \A y \in Nat \ S : x <= y
  BY LeastNumber
<1>2. x # 0 /\ x - 1 \in Nat
  BY <1>1
<1>3. x - 1 \in S
  BY <1>1, <1>2
<1> QED BY <1>1, <1>2, <1>3

-----------------------------------------------------------------------------
(* The members of a set of numbers in increasing order.                    *)

Enumerates(q, n, S) ==
    /\ q \in [1 .. n -> S]
    /\ \A k, l \in 1 .. n : k < l => q[k] < q[l]
    /\ \A x \in S : \E k \in 1 .. n : q[k] = x

LEMMA EnumerationExists ==
    ASSUME NEW m \in Nat, NEW S \in SUBSET (1 .. m)
    PROVE  \E n \in Nat : \E q : Enumerates(q, n, S)
<1> DEFINE Good == {j \in Nat : \A U \in SUBSET (1 .. j) : \E n \in Nat : \E q : Enumerates(q, n, U)}
<1>1. 0 \in Good
  <2> SUFFICES ASSUME NEW U \in SUBSET (1 .. 0)
               PROVE  \E n \in Nat : \E q : Enumerates(q, n, U)
    OBVIOUS
  <2>1. U = {} /\ 1 .. 0 = {}
    OBVIOUS
  <2>2. Enumerates([k \in 1 .. 0 |-> k], 0, U)
    BY <2>1 DEF Enumerates
  <2> QED BY <2>2
<1>2. ASSUME NEW j \in Nat, j \in Good
      PROVE  j + 1 \in Good
  <2> SUFFICES ASSUME NEW U \in SUBSET (1 .. j + 1)
               PROVE  \E n \in Nat : \E q : Enumerates(q, n, U)
    OBVIOUS
  <2> DEFINE V == U \cap (1 .. j)
  <2>0. PICK n \in Nat : \E q : Enumerates(q, n, V)
    BY <1>2
  <2>1. PICK q : Enumerates(q, n, V)
    BY <2>0
  <2>2. /\ q \in [1 .. n -> V] /\ \A k \in 1 .. n : q[k] \in U /\ q[k] \in Nat /\ q[k] < j + 1
        /\ \A k, l \in 1 .. n : k < l => q[k] < q[l]
        /\ \A x \in V : \E k \in 1 .. n : q[k] = x
    BY <2>1 DEF Enumerates
  <2>3. CASE j + 1 \notin U
    <3>1. \A x \in U : x \in 1 .. j
      BY <2>3
    <3>2. V = U
      BY <3>1
    <3> QED BY <2>1, <3>2
  <2>4. CASE j + 1 \in U
    <3> DEFINE r == [k \in 1 .. n + 1 |-> IF k = n + 1 THEN j + 1 ELSE q[k]]
    <3>1. /\ \A k \in 1 .. n + 1 : k # n + 1 => k \in 1 .. n
          /\ \A k \in 1 .. n : k \in 1 .. n + 1 /\ k # n + 1
          /\ n + 1 \in 1 .. n + 1
      OBVIOUS
    <3>2. r \in [1 .. n + 1 -> U] /\ r[n + 1] = j + 1 /\ \A k \in 1 .. n : r[k] = q[k]
      BY <2>2, <2>4, <3>1
    <3> HIDE DEF r
    <3>3. ASSUME NEW k \in 1 .. n + 1, NEW l \in 1 .. n + 1, k < l
          PROVE  r[k] < r[l]
      <4>1. k \in 1 .. n
        BY <3>3
      <4>2. CASE l = n + 1
        BY <2>2, <3>2, <4>1, <4>2
      <4>3. CASE l # n + 1
        BY <2>2, <3>1, <3>2, <3>3, <4>1, <4>3
      <4> QED BY <4>2, <4>3
    <3>4. ASSUME NEW x \in U
          PROVE  \E k \in 1 .. n + 1 : r[k] = x
      <4>1. CASE x = j + 1
        BY <3>1, <3>2, <4>1
      <4>2. CASE x # j + 1
        <5>1. x \in V
          BY <4>2
        <5>2. PICK k \in 1 .. n : q[k] = x
          BY <2>2, <5>1
        <5> QED BY <3>1, <3>2, <5>2
      <4> QED BY <4>1, <4>2
    <3>5. Enumerates(r, n + 1, U)
      BY <3>2, <3>3, <3>4 DEF Enumerates
    <3> QED BY <3>5
  <2> QED BY <2>3, <2>4
<1>3. \A j \in Nat : j \in Good
  <2> HIDE DEF Good
  <2> QED BY <1>1, <1>2, NatSetInduction
<1> QED BY <1>3

LEMMA EnumerationInjective ==
    ASSUME NEW n \in Nat, NEW S \in SUBSET Nat, NEW q \in [1 .. n -> S],
           \A k, l \in 1 .. n : k < l => q[k] < q[l]
    PROVE  q \in Injection(1 .. n, S)
<1>1. ASSUME NEW k \in 1 .. n, NEW l \in 1 .. n, q[k] = q[l]
      PROVE  k = l
  <2>0. q[k] \in S /\ \A x \in Nat : ~(x < x)
    OBVIOUS
  <2>1. q[k] \in Nat /\ ~(q[k] < q[k])
    BY <2>0, Zenon
  <2>2. ~(q[k] < q[l]) /\ ~(q[l] < q[k])
    BY <1>1, <2>1
  <2>3. ~(k < l) /\ ~(l < k)
    BY <2>2
  <2> QED BY <2>3
<1> QED BY <1>1 DEF Injection, IsInjective

LEMMA EnumerationCounts ==
    ASSUME NEW n \in Nat, NEW S \in SUBSET Nat, NEW q, Enumerates(q, n, S)
    PROVE  IsFiniteSet(S) /\ Cardinality(S) = n
<1>1. q \in Injection(1 .. n, S)
  BY EnumerationInjective DEF Enumerates
<1>2. q \in Bijection(1 .. n, S)
  BY <1>1 DEF Enumerates, Bijection, Surjection
<1>3. ExistsBijection(1 .. n, S)
  BY <1>2 DEF ExistsBijection
<1>4. IsFiniteSet(1 .. n) /\ Cardinality(1 .. n) = n
  BY FS_Interval
<1> QED BY <1>3, <1>4, FS_Bijection

(* Two enumerations of a set never part: at the first place where one were *)
(* smaller, its member would be missing from the other.                    *)
LEMMA EnumerationFirst ==
    ASSUME NEW n \in Nat, NEW S \in SUBSET Nat, NEW q, NEW r,
           Enumerates(q, n, S), Enumerates(r, n, S),
           NEW k \in 1 .. n, \A j \in 1 .. n : j < k => q[j] = r[j]
    PROVE  ~(q[k] < r[k])
<1> SUFFICES ASSUME q[k] < r[k] PROVE FALSE
  OBVIOUS
<1>1. /\ \A j \in 1 .. n : q[j] \in S /\ q[j] \in Nat /\ r[j] \in Nat
      /\ \A j, l \in 1 .. n : j < l => q[j] < q[l] /\ r[j] < r[l]
      /\ \A x \in S : \E j \in 1 .. n : r[j] = x
  BY DEF Enumerates
<1>2. PICK j \in 1 .. n : r[j] = q[k]
  BY <1>1
<1>3. j < k
  <2>1. ~(k < j) /\ k # j
    BY <1>1, <1>2
  <2> QED BY <2>1
<1>4. q[j] = q[k] /\ q[j] < q[k]
  BY <1>1, <1>2, <1>3
<1> QED BY <1>1, <1>4

LEMMA EnumerationUnique ==
    ASSUME NEW n \in Nat, NEW S \in SUBSET Nat, NEW q, NEW r,
           Enumerates(q, n, S), Enumerates(r, n, S)
    PROVE  q = r
<1> DEFINE T == {k \in 1 .. n : q[k] # r[k]}
<1>1. T = {}
  <2> SUFFICES ASSUME T # {} PROVE FALSE
    OBVIOUS
  <2>1. T \in SUBSET Nat
    OBVIOUS
  <2>2. PICK k \in T : \A j \in T : k <= j
    BY <2>1, LeastNumber
  <2>3. k \in 1 .. n /\ \A j \in 1 .. n : j < k => q[j] = r[j]
    BY <2>2
  <2>4. ~(q[k] < r[k]) /\ ~(r[k] < q[k])
    BY <2>3, EnumerationFirst
  <2>5. q[k] \in Nat /\ r[k] \in Nat /\ q[k] # r[k]
    BY <2>2, <2>3 DEF Enumerates
  <2> QED BY <2>4, <2>5
<1> QED BY <1>1 DEF Enumerates

(* A set's numbers in order: the k-th has k of them up to itself.          *)
InOrder(S) ==
    [k \in 1 .. Cardinality(S) |-> CHOOSE n \in S : Cardinality({x \in S : x <= n}) = k]

LEMMA InOrderEnumerates ==
    ASSUME NEW m \in Nat, NEW S \in SUBSET (1 .. m)
    PROVE  Cardinality(S) \in Nat /\ Enumerates(InOrder(S), Cardinality(S), S)
<1>1. PICK c \in Nat : \E q : Enumerates(q, c, S)
  BY EnumerationExists
<1>2. PICK q : Enumerates(q, c, S)
  BY <1>1
<1>3. S \in SUBSET Nat
  OBVIOUS
<1>4. Cardinality(S) = c
  BY <1>2, <1>3, EnumerationCounts
<1>5. /\ q \in [1 .. c -> S] /\ \A k, l \in 1 .. c : k < l => q[k] < q[l]
      /\ \A x \in S : \E k \in 1 .. c : q[k] = x
  BY <1>2 DEF Enumerates
<1>6. ASSUME NEW k \in 1 .. c
      PROVE  Cardinality({x \in S : x <= q[k]}) = k
  <2> DEFINE U == {x \in S : x <= q[k]}
             r == [j \in 1 .. k |-> q[j]]
  <2>1. \A j \in 1 .. c : q[j] \in S /\ q[j] \in Nat
    BY <1>3, <1>5
  <2>2. \A j \in 1 .. k : j \in 1 .. c /\ (j < k \/ j = k)
    OBVIOUS
  <2>3. \A j \in 1 .. k : q[j] \in U
    BY <1>5, <2>1, <2>2
  <2>4. ASSUME NEW x \in U
        PROVE  \E j \in 1 .. k : r[j] = x
    <3>1. PICK j \in 1 .. c : q[j] = x
      BY <1>5
    <3>2. ~(k < j)
      BY <1>5, <2>1, <3>1
    <3>3. j \in 1 .. k
      BY <3>2
    <3> QED BY <3>1, <3>3
  <2>5. U \in SUBSET Nat /\ k \in Nat
    <3>1. U \in SUBSET Nat
      BY <1>3, Zenon
    <3>2. k \in Nat
      OBVIOUS
    <3> QED BY <3>1, <3>2
  <2> HIDE DEF U
  <2>6. Enumerates(r, k, U)
    BY <1>5, <2>2, <2>3, <2>4 DEF Enumerates
  <2>7. Cardinality(U) = k
    BY <2>5, <2>6, EnumerationCounts
  <2> QED BY <2>7 DEF U
<1>7. ASSUME NEW k \in 1 .. c
      PROVE  InOrder(S)[k] = q[k]
  <2> DEFINE Is(n) == Cardinality({x \in S : x <= n}) = k
  <2>1. q[k] \in S /\ Is(q[k])
    BY <1>5, <1>6
  <2>2. ASSUME NEW n \in S, Is(n)
        PROVE  n = q[k]
    <3>1. PICK l \in 1 .. c : q[l] = n
      BY <1>5
    <3>2. Cardinality({x \in S : x <= q[l]}) = l
      BY <1>6
    <3> QED BY <2>2, <3>1, <3>2
  <2>3. InOrder(S)[k] = CHOOSE n \in S : Is(n)
    BY <1>4 DEF InOrder
  <2> HIDE DEF Is
  <2> QED BY <2>1, <2>2, <2>3
<1>8. InOrder(S) = q
  <2>1. InOrder(S) = [k \in 1 .. c |-> InOrder(S)[k]]
    BY <1>4 DEF InOrder
  <2>2. q = [k \in 1 .. c |-> q[k]]
    BY <1>5
  <2> HIDE DEF InOrder
  <2> QED BY <1>7, <2>1, <2>2
<1> QED BY <1>2, <1>4, <1>8

LEMMA InOrderIs ==
    ASSUME NEW m \in Nat, NEW S \in SUBSET (1 .. m), NEW n \in Nat, NEW q, Enumerates(q, n, S)
    PROVE  n = Cardinality(S) /\ q = InOrder(S)
<1>1. S \in SUBSET Nat
  OBVIOUS
<1>2. Cardinality(S) = n
  BY <1>1, EnumerationCounts
<1> QED BY <1>1, <1>2, InOrderEnumerates, EnumerationUnique
=============================================================================
