------------------------------ MODULE KeyOrder ------------------------------
(***************************************************************************)
(* Sets of keys, which S3 and the key service list in order and in pages:  *)
(* keys are natural numbers here, in that order.  What the proofs about    *)
(* S3Client and ApplicationKeys need to know of a first key and of the     *)
(* number of keys before a key.                                            *)
(***************************************************************************)
EXTENDS Naturals, FiniteSets, FiniteSetTheorems, TLAPS

\* The keys of S that are listed before k.
Before(S, k) == {j \in S : j < k}

\* There are finitely many keys before a key.
LEMMA FinitelyManyBefore ==
    ASSUME NEW S \in SUBSET Nat, NEW k \in Nat
    PROVE  /\ IsFiniteSet(Before(S, k))
           /\ Cardinality(Before(S, k)) \in Nat
<1>1. Before(S, k) \in SUBSET Nat
  BY DEF Before
<1>2. \A j \in Before(S, k) : j <= k
  BY DEF Before
<1>3. IsFiniteSet(Before(S, k))
  BY <1>1, <1>2, FS_BoundedSetOfNaturals
<1> QED
  BY <1>3, FS_CardinalityType

\* A later key has no fewer before it.
LEMMA LaterHasMoreBefore ==
    ASSUME NEW S \in SUBSET Nat, NEW k \in Nat, NEW l \in Nat, k <= l
    PROVE  Cardinality(Before(S, k)) <= Cardinality(Before(S, l))
<1>1. \A j \in S : j < k => j < l
  OBVIOUS
<1>2. Before(S, k) \in SUBSET Before(S, l)
  BY <1>1, Zenon DEF Before
<1> QED
  BY <1>2, FinitelyManyBefore, FS_Subset

\* A set of keys that is not empty has a first one.
LEMMA FirstKey ==
    ASSUME NEW S \in SUBSET Nat, S # {}
    PROVE  \E k \in S : /\ \A j \in S : k <= j
                        /\ Before(S, k) = {}
<1> DEFINE UpTo(k) == {j \in S : j <= k}
           Segments == {UpTo(k) : k \in S}
           Smaller == StrictSubsetOrdering(S)
<1>1. ASSUME NEW k \in S PROVE UpTo(k) \in FiniteSubsetsOf(S)
  <2>1. UpTo(k) \in SUBSET Nat
    OBVIOUS
  <2>2. \A j \in UpTo(k) : j <= k
    OBVIOUS
  <2>3. IsFiniteSet(UpTo(k))
    BY <2>1, <2>2, FS_BoundedSetOfNaturals
  <2> QED
    BY <2>3 DEF FiniteSubsetsOf
<1>2. Segments \subseteq FiniteSubsetsOf(S) /\ Segments # {}
  BY <1>1
<1>3. IsWellFoundedOn(Smaller, FiniteSubsetsOf(S))
  BY FS_StrictSubsetOrderingWellFounded
<1> HIDE DEF Smaller, Segments
<1>4. PICK s \in Segments : \A t \in Segments : <<t, s>> \notin Smaller
  BY <1>2, <1>3, WFMin
<1>5. PICK k \in S : s = UpTo(k)
  BY DEF Segments
<1>6. ASSUME NEW j \in S, j < k PROVE FALSE
  <2>1. (\A i \in S : i <= j => i <= k) /\ k <= k /\ ~(k <= j)
    BY <1>6
  <2>2. UpTo(j) \subseteq UpTo(k) /\ k \in UpTo(k) /\ k \notin UpTo(j)
    BY <2>1, Zenon
  <2>3. UpTo(j) \in Segments
    BY Zenon DEF Segments
  <2>4. <<UpTo(j), UpTo(k)>> \in Smaller
    BY <2>2, Zenon DEF Smaller, StrictSubsetOrdering
  <2> QED
    BY <1>4, <1>5, <2>3, <2>4
<1>7. \A j \in S : ~(j < k)
  BY <1>6
<1>8. \A j \in S : k <= j
  BY <1>7
<1> QED
  BY <1>7, <1>8, Zenon DEF Before

\* Of keys before a key, those before another and those from there on.
LEMMA BeforeInTwoParts ==
    ASSUME NEW S \in SUBSET Nat, NEW T \in SUBSET S,
           NEW k \in Nat, NEW l \in Nat, k <= l, \A j \in T : k <= j
    PROVE  Cardinality(Before(S, k)) + Cardinality(Before(T, l))
           <= Cardinality(Before(S, l))
<1>1. /\ IsFiniteSet(Before(S, k)) /\ IsFiniteSet(Before(T, l))
      /\ IsFiniteSet(Before(S, l))
  BY FinitelyManyBefore
<1>2. /\ \A j \in S : j < k => j < l
      /\ \A j \in T : ~(j < k)
  OBVIOUS
<1>3. Before(S, k) \cap Before(T, l) = {}
  BY <1>2, Zenon DEF Before
<1>4. Before(S, k) \cup Before(T, l) \in SUBSET Before(S, l)
  BY <1>2, Zenon DEF Before
<1>5. Cardinality(Before(S, k) \cup Before(T, l))
      = Cardinality(Before(S, k)) + Cardinality(Before(T, l)) - 0
  BY <1>1, <1>3, FS_Union, FS_EmptySet
<1>6. Cardinality(Before(S, k) \cup Before(T, l)) <= Cardinality(Before(S, l))
  BY <1>1, <1>4, FS_Subset
<1>7. /\ Cardinality(Before(S, k)) \in Nat /\ Cardinality(Before(T, l)) \in Nat
      /\ Cardinality(Before(S, l)) \in Nat
  BY FinitelyManyBefore
<1> QED
  BY <1>5, <1>6, <1>7
=============================================================================
