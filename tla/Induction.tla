-------------------------------- MODULE Induction --------------------------------
(***************************************************************************)
(* Induction over the naturals, stated of sets: the library's theorems     *)
(* state it of an operator, and so cannot be cited where the provers have  *)
(* to find the operator.  It rests on the finite subsets of a set being    *)
(* well-founded.                                                           *)
(***************************************************************************)
EXTENDS Integers, FiniteSetsExt, FiniteSetTheorems, WellFoundedInduction, TLAPS

(* The numbers of T up to k. *)
UpTo(T, k) == {j \in T : j <= k}

LEMMA LeastNatural ==
  ASSUME NEW T, T \subseteq Nat, T # {}
  PROVE  \E m \in T : \A k \in T : m <= k
<1> DEFINE All == {UpTo(T, k) : k \in T}
<1>1. All # {}
  OBVIOUS
<1>2. ASSUME NEW k \in T PROVE UpTo(T, k) \in FiniteSubsetsOf(Nat)
  <2>1. UpTo(T, k) \in SUBSET Nat /\ k \in Nat /\ \A j \in UpTo(T, k) : j <= k
    BY DEF UpTo
  <2>2. IsFiniteSet(UpTo(T, k))
    BY <2>1, FS_BoundedSetOfNaturals
  <2> QED BY <2>1, <2>2 DEF FiniteSubsetsOf
<1>3. All \subseteq FiniteSubsetsOf(Nat)
  BY <1>2
<1>4. PICK U \in All : \A V \in All : <<V, U>> \notin StrictSubsetOrdering(Nat)
  <2> HIDE DEF All
  <2> QED BY <1>1, <1>3, FS_StrictSubsetOrderingWellFounded, WFMin
<1>5. PICK m \in T : U = UpTo(T, m)
  BY <1>4
<1>6. ASSUME NEW k \in T, ~(m <= k) PROVE FALSE
  <2>1. UpTo(T, k) \in All
    OBVIOUS
  <2>2. m \in Nat /\ k \in Nat /\ k < m
    BY <1>6
  <2>3. m \in UpTo(T, m) /\ m \notin UpTo(T, k)
    BY <2>2 DEF UpTo
  <2>4. ASSUME NEW j \in UpTo(T, k) PROVE j \in UpTo(T, m)
    <3>1. j \in T /\ j \in Nat /\ j <= k
      BY DEF UpTo
    <3>2. j <= m
      BY <2>2, <3>1
    <3> QED BY <3>1, <3>2 DEF UpTo
  <2>5. UpTo(T, k) \in SUBSET Nat /\ UpTo(T, m) \in SUBSET Nat
    BY DEF UpTo
  <2>6. <<UpTo(T, k), UpTo(T, m)>> \in StrictSubsetOrdering(Nat)
    BY <2>3, <2>4, <2>5 DEF StrictSubsetOrdering
  <2> QED BY <1>4, <1>5, <2>1, <2>6
<1> QED BY <1>6

LEMMA SetInduction ==
  ASSUME NEW S, 0 \in S, \A n \in Nat : n \in S => n + 1 \in S
  PROVE  Nat \subseteq S
<1> SUFFICES ASSUME Nat \ S # {} PROVE FALSE
  OBVIOUS
<1>1. PICK m \in Nat \ S : \A k \in Nat \ S : m <= k
  BY LeastNatural
<1>2. m # 0 /\ m - 1 \in Nat /\ ~(m <= m - 1)
  BY <1>1
<1> QED BY <1>1, <1>2

(* A nonempty set of numbers up to n has a largest, which is what Max chooses. *)
LEMMA GreatestNatural ==
  ASSUME NEW n \in Nat, NEW T, T \subseteq 0..n, T # {}
  PROVE  \E m \in T : \A k \in T : m >= k
<1> DEFINE R == {r \in 0..n : n - r \in T}
<1>1. PICK k \in T : k \in 0..n
  OBVIOUS
<1>2. n - k \in R /\ R \subseteq Nat
  BY <1>1
<1>3. PICK r \in R : \A q \in R : r <= q
  <2> HIDE DEF R
  <2> QED BY <1>2, LeastNatural
<1>4. ASSUME NEW j \in T PROVE n - r >= j
  <2>1. j \in 0..n /\ n - j \in R /\ r \in 0..n
    OBVIOUS
  <2>2. r <= n - j
    BY <1>3, <2>1
  <2> HIDE DEF R
  <2> QED BY <2>1, <2>2
<1> QED BY <1>4

(* Max, of numbers up to n. *)
LEMMA MaxFacts ==
  ASSUME NEW n \in Nat, NEW T \in SUBSET (1..n), T # {}
  PROVE  Max(T) \in T /\ \A k \in T : k <= Max(T)
<1>1. \E m \in T : \A k \in T : m >= k
  <2>1. T \subseteq 0..n
    OBVIOUS
  <2> QED BY <2>1, GreatestNatural
<1>2. Max(T) = CHOOSE m \in T : \A k \in T : m >= k
  BY Zenon DEF Max
<1>3. Max(T) \in T /\ \A k \in T : Max(T) >= k
  BY <1>1, <1>2, Zenon
<1> QED BY <1>3

LEMMA MaxIsTop ==
  ASSUME NEW n \in Nat, NEW T \in SUBSET (1..n), n \in T
  PROVE  Max(T) = n
<1>1. Max(T) \in T /\ \A k \in T : k <= Max(T)
  BY MaxFacts
<1>2. Max(T) \in 1..n /\ n <= Max(T)
  BY <1>1
<1> QED BY <1>2
==================================================================================
