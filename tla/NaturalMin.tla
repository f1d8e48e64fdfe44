------------------------------ MODULE NaturalMin ------------------------------
(* The least element of a set of natural numbers, which the community module *)
(* FiniteSetsExt only defines.                                               *)
EXTENDS Naturals, FiniteSetsExt, FiniteSetTheorems, TLAPS

\* A non-empty set of natural numbers has a minimum, such as the slowest client
\* of a group or the next lock of a request.
LEMMA MinNat ==
    ASSUME NEW S, S \subseteq Nat, S # {}
    PROVE  Min(S) \in S /\ \A x \in S : Min(S) <= x
<1>. DEFINE below == {0 .. n : n \in S}
<1>1. below \subseteq FiniteSubsetsOf(Nat) /\ below # {}
  <2>1. \A n \in S : 0 .. n \in SUBSET Nat /\ IsFiniteSet(0 .. n)
    BY FS_Interval
  <2>. QED BY <2>1 DEF FiniteSubsetsOf
<1>2. PICK b \in below : \A d \in below : ~ (<<d, b>> \in StrictSubsetOrdering(Nat))
    <2>. HIDE DEF below
    <2>. QED BY <1>1, FS_StrictSubsetOrderingWellFounded, WFMin
<1>3. PICK m \in S : b = 0 .. m
    OBVIOUS
<1>4. \A x \in S : m <= x
  <2>1. SUFFICES ASSUME NEW x \in S, x < m PROVE FALSE
    OBVIOUS
  <2>2. 0 .. x \subseteq 0 .. m /\ 0 .. x # 0 .. m
    <3>1. m \in 0 .. m /\ m \notin 0 .. x
      BY <2>1
    <3>. QED BY <2>1, <3>1
  <2>3. <<0 .. x, 0 .. m>> \in StrictSubsetOrdering(Nat)
    <3>1. 0 .. x \in SUBSET Nat /\ 0 .. m \in SUBSET Nat
      OBVIOUS
    <3>. QED BY <2>2, <3>1 DEF StrictSubsetOrdering
  <2>4. 0 .. x \in below
    OBVIOUS
  <2>5. <<0 .. x, b>> \notin StrictSubsetOrdering(Nat)
    BY <1>2, <2>4
  <2>. QED BY <1>3, <2>3, <2>5
<1>. QED BY <1>4 DEF Min

=============================================================================
