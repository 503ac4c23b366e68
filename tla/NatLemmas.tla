------------------------------- MODULE NatLemmas -------------------------------
(***************************************************************************)
(* What the proofs of several components need about the naturals: the      *)
(* least of a set of them, the greatest of a bounded one, and induction.   *)
(* The induction theorems of the library take a predicate as a parameter,  *)
(* which no prover instantiates; here the predicate is a set.              *)
(***************************************************************************)
EXTENDS Integers, TLAPS, FiniteSetTheorems

(* A set of naturals has a least element: strict inclusion of finite sets is well
   founded, and 0..m is part of 0..n when m is less than n. *)
LEMMA LeastOf ==
    ASSUME NEW S \in SUBSET Nat, S # {}
    PROVE  \E x \in S : \A y \in S : x <= y
<1> DEFINE Below == {0 .. n : n \in S}
<1>1. \A n \in S : IsFiniteSet(0 .. n) /\ 0 .. n \in SUBSET Nat
  BY FS_Interval
<1>2. Below \subseteq FiniteSubsetsOf(Nat) /\ Below # {}
  BY <1>1 DEF FiniteSubsetsOf
<1>3. PICK T \in Below : \A U \in Below : ~(<<U, T>> \in StrictSubsetOrdering(Nat))
  <2> HIDE DEF Below
  <2> QED BY <1>2, FS_StrictSubsetOrderingWellFounded, WFMin
<1>4. PICK x \in S : T = 0 .. x
  OBVIOUS
<1>5. ASSUME NEW y \in S, ~(x <= y)
      PROVE  FALSE
  <2>1. x \in Nat /\ y \in Nat /\ y < x
    BY <1>5
  <2>2. 0 .. y \subseteq 0 .. x /\ x \in 0 .. x /\ x \notin 0 .. y
    BY <2>1
  <2>3. <<0 .. y, 0 .. x>> \in StrictSubsetOrdering(Nat)
    <3>1. 0 .. y \in SUBSET Nat /\ 0 .. x \in SUBSET Nat
      BY <2>1
    <3> QED BY <2>2, <3>1 DEF StrictSubsetOrdering
  <2>4. 0 .. y \in Below
    OBVIOUS
  <2> QED BY <1>3, <1>4, <2>3, <2>4
<1> QED BY <1>5

(* Induction over the naturals, for a set that is given as a set. *)
LEMMA InductionOverNat ==
    ASSUME NEW S, 0 \in S, \A n \in Nat : n \in S => n + 1 \in S
    PROVE  \A n \in Nat : n \in S
<1> SUFFICES ASSUME NEW m \in Nat, m \notin S
             PROVE  FALSE
  OBVIOUS
<1> DEFINE Out == {n \in Nat : n \notin S}
<1>1. PICK x \in Out : \A y \in Out : x <= y
  <2>1. Out \in SUBSET Nat /\ Out # {}
    OBVIOUS
  <2> HIDE DEF Out
  <2> QED BY <2>1, LeastOf
<1>2. x \in Nat /\ x # 0 /\ x - 1 \in Nat
  OBVIOUS
<1>3. x - 1 \in S
  BY <1>1, <1>2
<1> QED BY <1>2, <1>3

(* A bounded set of naturals has a greatest element. *)
LEMMA GreatestOf ==
    ASSUME NEW n \in Nat, NEW S \in SUBSET (0 .. n), S # {}
    PROVE  \E x \in S : \A y \in S : y <= x
<1>1. \A x \in S : x \in Int /\ x <= n
  OBVIOUS
<1> DEFINE Mirror == {n - x : x \in S}
<1>2. Mirror \in SUBSET Nat /\ Mirror # {}
  <2>1. ASSUME NEW x \in S PROVE n - x \in Nat
    BY <1>1
  <2> QED BY <2>1
<1>3. PICK m \in Mirror : \A k \in Mirror : m <= k
  <2> HIDE DEF Mirror
  <2> QED BY <1>2, LeastOf
<1>4. PICK x \in S : m = n - x
  BY <1>3
<1>5. ASSUME NEW y \in S PROVE y <= x
  <2>1. PICK k \in Mirror : k = n - y
    OBVIOUS
  <2> HIDE DEF Mirror
  <2>2. m <= k
    BY <1>3
  <2> QED BY <1>1, <1>4, <2>1, <2>2
<1> QED BY <1>5

(* A set of bounded naturals can be put in order. *)
LEMMA Enumeration ==
    ASSUME NEW k \in Nat
    PROVE  \A n \in Nat : \A ss \in SUBSET (0 .. k) : Cardinality(ss) = n =>
              \E q \in [1 .. n -> ss] : \A i, j \in 1 .. n : i < j => q[i] < q[j]
<1> DEFINE Ordered(n, ss) ==
             \E q \in [1 .. n -> ss] : \A i, j \in 1 .. n : i < j => q[i] < q[j]
           S == {n \in Nat : \A ss \in SUBSET (0 .. k) : Cardinality(ss) = n => Ordered(n, ss)}
<1>1. \A ss \in SUBSET (0 .. k) : IsFiniteSet(ss) /\ Cardinality(ss) \in Nat
  <2>1. IsFiniteSet(0 .. k)
    BY FS_Interval
  <2> QED BY <2>1, FS_Subset, FS_CardinalityType
<1>2. 0 \in S
  <2> SUFFICES ASSUME NEW ss \in SUBSET (0 .. k) PROVE Ordered(0, ss)
    OBVIOUS
  <2>1. [i \in 1 .. 0 |-> i] \in [1 .. 0 -> ss]
    OBVIOUS
  <2> QED BY <2>1
<1>3. ASSUME NEW n \in Nat, n \in S PROVE n + 1 \in S
  <2> SUFFICES ASSUME NEW ss \in SUBSET (0 .. k), Cardinality(ss) = n + 1
               PROVE  Ordered(n + 1, ss)
    OBVIOUS
  <2>0. \A x \in ss : x \in Int
    OBVIOUS
  <2>1. ss # {}
    BY <1>3, FS_EmptySet
  <2>2. PICK m \in ss : \A x \in ss : x <= m
    BY <2>1, GreatestOf
  <2>3. Cardinality(ss \ {m}) = n /\ ss \ {m} \in SUBSET (0 .. k)
    BY <1>1, <1>3, FS_RemoveElement
  <2>4. PICK q \in [1 .. n -> ss \ {m}] : \A i, j \in 1 .. n : i < j => q[i] < q[j]
    BY <1>3, <2>3
  <2> DEFINE more == [i \in 1 .. n + 1 |-> IF i = n + 1 THEN m ELSE q[i]]
  <2>5. \A i \in 1 .. n + 1 : i = n + 1 \/ i \in 1 .. n
    BY <1>3
  <2>6. more \in [1 .. n + 1 -> ss]
    BY <2>4, <2>5
  <2>7. ASSUME NEW i \in 1 .. n + 1, NEW j \in 1 .. n + 1, i < j PROVE more[i] < more[j]
    <3>1. i \in 1 .. n /\ i # n + 1 /\ more[i] = q[i]
      BY <1>3, <2>7
    <3>2. CASE j = n + 1
      <4>1. q[i] \in ss \ {m} /\ m \in Int /\ q[i] \in Int
        BY <2>0, <2>4, <3>1
      <4>2. q[i] <= m /\ q[i] # m
        BY <2>2, <4>1
      <4> QED BY <3>1, <3>2, <4>1, <4>2
    <3>3. CASE j \in 1 .. n
      BY <1>3, <2>4, <2>7, <3>1, <3>3
    <3> QED BY <2>5, <3>2, <3>3
  <2> HIDE DEF more
  <2> QED BY <2>6, <2>7
<1> HIDE DEF S
<1>4. \A n \in Nat : n \in S
  BY <1>2, <1>3, InductionOverNat
<1> QED BY <1>4 DEF S

===============================================================================
