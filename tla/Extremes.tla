------------------------------ MODULE Extremes ------------------------------
(***************************************************************************)
(* Least and greatest elements, for the proofs about what is chosen for    *)
(* being the first or the nearest.                                         *)
(***************************************************************************)
EXTENDS Integers, FiniteSetTheorems, TLAPS

\* Of finitely many there is one with the least number.
LEMMA LeastExists ==
  ASSUME NEW S, IsFiniteSet(S), S # {}, NEW f \in [S -> Int]
  PROVE  \E x \in S : \A y \in S : f[x] <= f[y]
<1> DEFINE below(x) == {y \in S : f[y] < f[x]}
           T == {below(x) : x \in S}
<1>1. \A x \in S : f[x] \in Int
  OBVIOUS
<1>2. \A x \in S : below(x) \in FiniteSubsetsOf(S)
  <2>1. \A A \in SUBSET S : IsFiniteSet(A)
    BY FS_Subset
  <2> QED
    BY <2>1 DEF FiniteSubsetsOf
<1>3. T \subseteq FiniteSubsetsOf(S) /\ T # {}
  <2>1. PICK x : x \in S
    OBVIOUS
  <2>2. below(x) \in T
    BY <2>1
  <2>3. ASSUME NEW A \in T
        PROVE  A \in FiniteSubsetsOf(S)
    <3>1. PICK y \in S : A = below(y)
      BY <2>3
    <3> HIDE DEF below
    <3> QED
      BY <1>2, <3>1
  <2> HIDE DEF T
  <2> QED
    BY <2>2, <2>3
<1>4. PICK A \in T : \A B \in T : <<B, A>> \notin StrictSubsetOrdering(S)
  <2>1. IsWellFoundedOn(StrictSubsetOrdering(S), FiniteSubsetsOf(S))
    BY FS_StrictSubsetOrderingWellFounded
  <2> HIDE DEF T
  <2> QED
    BY <1>3, <2>1, WFMin
<1>5. PICK x \in S : A = below(x)
  BY <1>4
<1>6. ASSUME NEW y \in S, f[y] < f[x] PROVE FALSE
  <2>1. below(y) \subseteq below(x) /\ y \in below(x) /\ y \notin below(y)
    BY <1>1, <1>6
  <2>2. below(y) \in T /\ <<below(y), A>> \in StrictSubsetOrdering(S)
    BY <1>5, <2>1 DEF StrictSubsetOrdering
  <2> QED
    BY <1>4, <2>2
<1> QED
  BY <1>1, <1>6

\* A set of whole numbers within bounds has a least and a greatest element.
LEMMA ExtremesExist ==
  ASSUME NEW m \in Int, NEW n \in Int, NEW S \in SUBSET (m .. n), S # {}
  PROVE  /\ \E x \in S : \A y \in S : x <= y
         /\ \E x \in S : \A y \in S : y <= x
<1>1. IsFiniteSet(S)
  BY FS_Interval, FS_Subset
<1> DEFINE f == [x \in S |-> x]
           g == [x \in S |-> 0 - x]
<1>2. f \in [S -> Int] /\ g \in [S -> Int]
  OBVIOUS
<1>3. \A x \in S : x \in Int /\ f[x] = x /\ g[x] = 0 - x
  OBVIOUS
<1> HIDE DEF f, g
<1>4. PICK x \in S : \A y \in S : f[x] <= f[y]
  BY <1>1, <1>2, LeastExists
<1>5. PICK z \in S : \A y \in S : g[z] <= g[y]
  BY <1>1, <1>2, LeastExists
<1> QED
  BY <1>3, <1>4, <1>5
==============================================================================
