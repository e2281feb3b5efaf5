----------------------------- MODULE FiniteFolds -----------------------------
(***************************************************************************)
(* Induction over finite sets, and what the folds of the community modules *)
(* give, stated with sets and functions: a property is the set of all that *)
(* have it, a step of a fold is a function.                                *)
(***************************************************************************)
EXTENDS Integers, FiniteSets, FiniteSetTheorems, WellFoundedInduction, TLAPS

-----------------------------------------------------------------------------
(* Induction. *)

\* A set with 0 and with the successors of its elements has all numbers.
LEMMA NaturalsByStep ==
  ASSUME NEW T, T \subseteq Nat, 0 \in T, \A n \in T : n + 1 \in T
  PROVE  T = Nat
<1> SUFFICES ASSUME Nat \ T # {} PROVE FALSE
  OBVIOUS
<1>1. PICK n \in Nat \ T : \A m \in Nat \ T : ~ (<<m, n>> \in OpToRel(<, Nat))
  <2>1. Nat \ T \subseteq Nat
    OBVIOUS
  <2> QED BY <2>1, NatLessThanWellFounded, WFMin
<1>2. n # 0 /\ n \in Nat
  BY <1>1
<1>3. n - 1 \in Nat /\ n - 1 < n /\ n = (n - 1) + 1
  BY <1>2
<1>4. <<n - 1, n>> \in OpToRel(<, Nat)
  BY <1>2, <1>3 DEF OpToRel
<1>5. n - 1 \in T
  BY <1>1, <1>3, <1>4
<1>6. n \in T
  BY <1>3, <1>5
<1> QED BY <1>1, <1>6

\* A set of natural numbers has a least one.
LEMMA LeastOf ==
  ASSUME NEW A, A \subseteq Nat, A # {}
  PROVE  \E a \in A : \A b \in A : a <= b
<1>1. PICK a \in A : \A b \in A : ~ (<<b, a>> \in OpToRel(<, Nat))
  BY NatLessThanWellFounded, WFMin
<1>2. \A b \in A : ~(b < a)
  BY <1>1 DEF OpToRel
<1> QED BY <1>2

\* T has each set of which it has all that lack one element.
Grows(T, S) == \A s \in SUBSET S : (\A x \in s : s \ {x} \in T) => s \in T

\* Then it has all sets.
LEMMA SubsetsByElement ==
  ASSUME NEW S, IsFiniteSet(S), NEW T, T \subseteq SUBSET S, Grows(T, S)
  PROVE  T = SUBSET S
<1> DEFINE Good == {n \in Nat : \A s \in SUBSET S : Cardinality(s) = n => s \in T}
<1>1. \A s \in SUBSET S : IsFiniteSet(s) /\ Cardinality(s) \in Nat
  BY FS_Subset, FS_CardinalityType
<1>2. 0 \in Good
  <2> SUFFICES ASSUME NEW s \in SUBSET S, Cardinality(s) = 0 PROVE s \in T
    OBVIOUS
  <2>1. s = {}
    BY <1>1, FS_EmptySet
  <2> QED BY <2>1 DEF Grows
<1>3. ASSUME NEW n \in Good PROVE n + 1 \in Good
  <2> SUFFICES ASSUME NEW s \in SUBSET S, Cardinality(s) = n + 1 PROVE s \in T
    OBVIOUS
  <2>1. ASSUME NEW x \in s PROVE s \ {x} \in T
    <3>1. IsFiniteSet(s)
      BY <1>1
    <3>2. Cardinality(s \ {x}) = Cardinality(s) - 1
      BY <3>1, FS_RemoveElement, Zenon
    <3>3. s \ {x} \in SUBSET S /\ Cardinality(s \ {x}) = n
      BY <3>2
    <3> QED BY <3>3
  <2> QED BY <2>1 DEF Grows
<1>4. Good = Nat
  <2> HIDE DEF Good
  <2>1. Good \subseteq Nat
    BY DEF Good
  <2> QED BY <1>2, <1>3, <2>1, NaturalsByStep
<1> QED BY <1>1, <1>4

-----------------------------------------------------------------------------
(* Folds. *)

\* c chooses an element of each subset.
Picks(c, S) == \A s \in SUBSET S : s # {} => c[s] \in s

\* h is defined by the step G, one element after the other.
Folds(h, G, base, c, S) ==
  \A s \in SUBSET S : h[s] = IF s = {} THEN base ELSE G[s][h[s \ {c[s]}]]
Steps(G, S, V) == \A s \in SUBSET S, v \in V : s # {} => G[s][v] \in V

\* There is such an h.
LEMMA FoldExists ==
  ASSUME NEW S, IsFiniteSet(S), NEW V, NEW base \in V,
         NEW c, Picks(c, S), NEW G, Steps(G, S, V)
  PROVE  \E h \in [SUBSET S -> V] : Folds(h, G, base, c, S)
<1> DEFINE Fits(h, s) == h[s] = IF s = {} THEN base ELSE G[s][h[s \ {c[s]}]]
           Good == {n \in Nat : \E h \in [SUBSET S -> V] :
                      \A s \in SUBSET S : Cardinality(s) <= n => Fits(h, s)}
<1>1. \A s \in SUBSET S : IsFiniteSet(s) /\ Cardinality(s) \in Nat
  BY FS_Subset, FS_CardinalityType
<1>2. 0 \in Good
  <2> DEFINE h == [s \in SUBSET S |-> base]
  <2>1. h \in [SUBSET S -> V]
    OBVIOUS
  <2>2. ASSUME NEW s \in SUBSET S, Cardinality(s) <= 0 PROVE Fits(h, s)
    <3>1. s = {}
      <4>1. IsFiniteSet(s) /\ Cardinality(s) = 0
        BY <1>1, <2>2
      <4> QED BY <4>1, FS_EmptySet
    <3> QED BY <3>1
  <2> HIDE DEF h, Fits
  <2> QED BY <2>1, <2>2
<1>3. ASSUME NEW n \in Good PROVE n + 1 \in Good
  <2>1. PICK h \in [SUBSET S -> V] : \A s \in SUBSET S : Cardinality(s) <= n => Fits(h, s)
    OBVIOUS
  <2> DEFINE g == [s \in SUBSET S |-> IF s = {} THEN base ELSE G[s][h[s \ {c[s]}]]]
  <2>2. g \in [SUBSET S -> V]
    <3>1. \A s \in SUBSET S : s \ {c[s]} \in SUBSET S
      OBVIOUS
    <3> QED BY <3>1 DEF Steps
  <2>3. ASSUME NEW s \in SUBSET S, Cardinality(s) <= n + 1 PROVE Fits(g, s)
    <3>1. CASE s = {}
      BY <3>1
    <3>2. CASE s # {}
      <4> DEFINE t == s \ {c[s]}
      <4>1. t \in SUBSET S /\ c[s] \in s
        BY <3>2 DEF Picks
      <4>2. Cardinality(t) <= n
        <5>1. IsFiniteSet(s) /\ Cardinality(s) \in Nat
          BY <1>1
        <5>2. Cardinality(s \ {c[s]}) = Cardinality(s) - 1
          <6>1. c[s] \in s
            BY <4>1
          <6> HIDE DEF t
          <6> QED BY <5>1, <6>1, FS_RemoveElement, Zenon
        <5> QED BY <2>3, <5>1, <5>2
      <4>3. g[t] = h[t]
        BY <2>1, <4>1, <4>2
      <4>4. g[s] = G[s][h[t]]
        BY <3>2
      <4> QED BY <3>2, <4>3, <4>4
    <3> QED BY <3>1, <3>2
  <2> HIDE DEF g, Fits
  <2> QED BY <2>2, <2>3
<1>4. Good = Nat
  <2> HIDE DEF Good
  <2>1. Good \subseteq Nat
    BY DEF Good
  <2> QED BY <1>2, <1>3, <2>1, NaturalsByStep
<1>5. Cardinality(S) \in Good
  BY <1>1, <1>4
<1>6. PICK h \in [SUBSET S -> V] :
        \A s \in SUBSET S : Cardinality(s) <= Cardinality(S) => Fits(h, s)
  BY <1>5
<1>7. \A s \in SUBSET S : Cardinality(s) <= Cardinality(S)
  BY FS_Subset
<1> QED BY <1>6, <1>7 DEF Folds

Foldable(G, base, c, S, V) ==
  IsFiniteSet(S) /\ base \in V /\ Picks(c, S) /\ Steps(G, S, V)

\* The same, with the hypotheses under one name.
LEMMA FoldOf ==
  ASSUME NEW G, NEW base, NEW c, NEW S, NEW V, Foldable(G, base, c, S, V)
  PROVE  \E h \in [SUBSET S -> V] : Folds(h, G, base, c, S)
<1>1. IsFiniteSet(S) /\ base \in V /\ Picks(c, S) /\ Steps(G, S, V)
  BY DEF Foldable
<1> QED BY <1>1, FoldExists
=============================================================================
