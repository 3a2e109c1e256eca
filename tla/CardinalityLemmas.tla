-------------------------- MODULE CardinalityLemmas ---------------------------
(* How the size of a finite set changes when a member leaves or joins; and      *)
(* induction on the naturals, for sets where the library has it for predicates. *)
EXTENDS FiniteSets, Integers, FiniteSetTheorems, WellFoundedInduction, TLAPS

\* A member that leaves a set changes its size by one ...
LEMMA Shrink ==
    ASSUME NEW S, IsFiniteSet(S), NEW T, NEW w, T = S \ {w}
    PROVE  Cardinality(T) = IF w \in S THEN Cardinality(S) - 1 ELSE Cardinality(S)
  BY FS_RemoveElement

\* ... a subset is no larger ...
LEMMA ShrinkAtMost ==
    ASSUME NEW S, IsFiniteSet(S), NEW T, T \in SUBSET S
    PROVE  Cardinality(T) <= Cardinality(S) /\ Cardinality(T) \in Nat
  BY FS_Subset, FS_CardinalityType

\* ... and a member that joins counts.
LEMMA Grow ==
    ASSUME NEW S, IsFiniteSet(S), NEW T, NEW w, T = S \cup {w}, w \notin S
    PROVE  Cardinality(T) = Cardinality(S) + 1
  BY FS_AddElement

\* ... whether or not it was one before.
LEMMA GrowAtMost ==
    ASSUME NEW S, IsFiniteSet(S), NEW w
    PROVE  /\ IsFiniteSet(S \cup {w}) /\ Cardinality(S \cup {w}) \in Nat
           /\ Cardinality(S \cup {w}) <= Cardinality(S) + 1
<1>1. IsFiniteSet(S \cup {w}) /\ Cardinality(S) \in Nat /\ Cardinality(S \cup {w}) \in Nat
  BY FS_AddElement, FS_CardinalityType
<1>2. CASE w \in S
  <2>1. S \cup {w} = S
    BY <1>2
  <2>2. Cardinality(S \cup {w}) = Cardinality(S)
    BY <2>1
  <2> QED
    BY <1>1, <2>2
<1>3. CASE w \notin S
  BY <1>1, <1>3, FS_AddElement
<1> QED
  BY <1>2, <1>3

-----------------------------------------------------------------------------
\* A set of naturals has a least member ...
LEMMA LeastMember ==
    ASSUME NEW T, T \subseteq Nat, T # {}
    PROVE  \E n \in T : \A m \in T : n <= m
<1> DEFINE R == OpToRel(<, Nat)
<1>1. \A m, n \in Nat : m < n => <<m, n>> \in R
  BY DEF OpToRel
<1>2. IsWellFoundedOn(R, Nat)
  BY NatLessThanWellFounded
<1> HIDE DEF R
<1>3. PICK n \in T : \A m \in T : <<m, n>> \notin R
  BY <1>2, WFMin
<1>4. ASSUME NEW m \in T PROVE n <= m
  <2>1. m \in Nat /\ n \in Nat /\ ~(m < n)
    BY <1>1, <1>3
  <2> QED
    BY <2>1
<1> QED
  BY <1>4

\* ... so that a set closed under successor, with 0 in it, has them all.
LEMMA SetInduction ==
    ASSUME NEW T, 0 \in T, \A n \in Nat : n \in T => n + 1 \in T
    PROVE  Nat \subseteq T
<1> SUFFICES ASSUME Nat \ T # {} PROVE FALSE
  OBVIOUS
<1>1. PICK n \in Nat \ T : \A m \in Nat \ T : n <= m
  BY LeastMember
<1>2. n # 0 /\ n - 1 \in Nat
  BY <1>1
<1>3. n - 1 \in T
  BY <1>1, <1>2
<1> QED
  BY <1>1, <1>2, <1>3

=============================================================================
