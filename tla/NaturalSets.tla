----------------------------- MODULE NaturalSets ------------------------------
(***************************************************************************)
(* Facts about sets of naturals that the deadlock theorems rest on, and    *)
(* the arithmetic of the calendar.                                         *)
(***************************************************************************)
EXTENDS Naturals, FiniteSets, FiniteSetTheorems, WellFoundedInduction, TLAPS

\* A set of naturals has a least element.
LEMMA LeastNatural ==
  ASSUME NEW S \in SUBSET Nat, S # {}
  PROVE  \E n \in S : \A k \in S : n <= k
<1>1. PICK n \in S : \A k \in S : <<k, n>> \notin OpToRel(<, Nat)
  BY WFMin, NatLessThanWellFounded
<1>2. \A k \in S : k \in Nat /\ n \in Nat /\ ~(k < n)
  BY <1>1 DEF OpToRel
<1> QED BY <1>2

\* What makes a set of naturals bounded.
Bound(S) == \E b \in Nat : \A n \in S : n <= b

\* A finite set of naturals is bounded: induction on its size, by the least
\* size of an unbounded subset.
LEMMA Bounded ==
  ASSUME NEW S \in SUBSET Nat, IsFiniteSet(S)
  PROVE  Bound(S)
<1> DEFINE sizes == {Cardinality(T) : T \in {U \in SUBSET S : ~Bound(U)}}
<1>1. ASSUME NEW T \in SUBSET S
      PROVE  IsFiniteSet(T) /\ Cardinality(T) \in Nat
  BY FS_Subset, FS_CardinalityType
<1>2. SUFFICES ASSUME ~Bound(S) PROVE FALSE
  OBVIOUS
<1>3. sizes \in SUBSET Nat /\ sizes # {}
  BY <1>1, <1>2
<1>4. PICK T \in SUBSET S : ~Bound(T) /\ \A k \in sizes : Cardinality(T) <= k
  BY <1>3, LeastNatural
<1>5. PICK x \in T : TRUE
  BY <1>4 DEF Bound
<1>6. Cardinality(T \ {x}) = Cardinality(T) - 1
  BY <1>1, FS_RemoveElement
<1>7. Bound(T \ {x})
  <2>1. T \ {x} \in SUBSET S
    OBVIOUS
  <2>2. Cardinality(T \ {x}) \in Nat /\ Cardinality(T) \in Nat
    BY <1>1, <2>1
  <2>3. ~(Cardinality(T) <= Cardinality(T \ {x}))
    BY <1>6, <2>2
  <2> QED BY <1>4, <2>1, <2>3
<1>8. Bound(T)
  <2>1. PICK b \in Nat : \A n \in T \ {x} : n <= b
    BY <1>7 DEF Bound
  <2>2. x \in Nat /\ \A n \in T : n \in Nat
    OBVIOUS
  <2>3. b + x \in Nat /\ \A n \in T : n <= b + x
    BY <2>1, <2>2
  <2> QED BY <2>1, <2>2, <2>3 DEF Bound
<1> QED BY <1>4, <1>8

\* A finite set of naturals has a greatest element.
LEMMA GreatestNatural ==
  ASSUME NEW S \in SUBSET Nat, S # {}, IsFiniteSet(S)
  PROVE  \E n \in S : \A k \in S : ~(n < k)
<1>1. PICK b \in Nat : \A n \in S : n <= b
  BY Bounded DEF Bound
<1> DEFINE gaps == {b - n : n \in S}
<1>2. gaps \in SUBSET Nat /\ gaps # {}
  <2>1. \A n \in S : b - n \in Nat
    BY <1>1
  <2> QED BY <2>1
<1>3. PICK g \in gaps : \A k \in gaps : g <= k
  BY ONLY <1>2, LeastNatural
<1>4. PICK n \in S : g = b - n
  OBVIOUS
<1>5. \A k \in S : b - k \in gaps
  OBVIOUS
<1> HIDE DEF gaps
<1>6. \A k \in S : b - n <= b - k
  BY ONLY <1>3, <1>4, <1>5
<1>7. \A k \in S : ~(n < k)
  BY ONLY <1>6, S \in SUBSET Nat, n \in S, b \in Nat
<1> QED BY <1>7
=============================================================================
