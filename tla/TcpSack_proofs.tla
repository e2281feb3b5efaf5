---------------------------- MODULE TcpSack_proofs ----------------------------
(***************************************************************************)
(* The SACK blocks of a receiver, for any stream, buffer, window scale and *)
(* number of blocks: they lie apart and claim only what waits or was       *)
(* refused.                                                                *)
(*                                                                         *)
(* The two loops of sack.go are folds from the left.  MergedWell and       *)
(* TrimmedWell say what they have made of the blocks at some positions;    *)
(* they hold of no position and of one more at each step (AbsorbWell,      *)
(* ShrinkWell), so of all (LeftFoldKeeps).  That a block that was kept     *)
(* still does not meet the new one when that has grown needs that the      *)
(* blocks were apart before (HullIs).  Then there is one lemma for each    *)
(* kind of step of the receiver, which take from RcvInv what is in the     *)
(* heap and where the delivered bytes end.                                 *)
(***************************************************************************)
EXTENDS TcpSack, TcpReceiverAnyPeer_proofs, FiniteFolds

-----------------------------------------------------------------------------
(* A fold from the left, over the positions of a sequence. *)

\* The last of some positions.
LEMMA MaxIsIn ==
  ASSUME NEW n \in Nat, NEW s \in SUBSET (1..n), s # {}
  PROVE  Max(s) \in s
<1> DEFINE A == {n - i : i \in s}
<1>1. A \subseteq Nat /\ A # {}
  <2>1. \A i \in s : n - i \in Nat
    OBVIOUS
  <2> QED BY <2>1
<1>2. PICK a \in A : \A b \in A : a <= b
  <2> HIDE DEF A
  <2> QED BY <1>1, LeastOf
<1>3. PICK i \in s : n - i = a
  OBVIOUS
<1>4. \A j \in s : i >= j
  <2> SUFFICES ASSUME NEW j \in s PROVE i >= j
    OBVIOUS
  <2>1. a <= n - j
    BY <1>2
  <2> QED BY <1>3, <2>1
<1> HIDE DEF A
<1> QED BY <1>3, <1>4, Zenon DEF Max

\* A is the step of the fold, h what it makes of each part.
LeftFold(h, A, base, n) ==
  \A s \in SUBSET (1..n) : h[s] = IF s = {} THEN base ELSE A[h[s \ {Max(s)}]][Max(s)]

\* There is such an h.
LEMMA LeftFoldExists ==
  ASSUME NEW n \in Nat, NEW V, NEW base \in V, NEW A,
         \A v \in V, i \in 1..n : A[v][i] \in V
  PROVE  \E h \in [SUBSET (1..n) -> V] : LeftFold(h, A, base, n)
<1> DEFINE S == 1..n
           c == [s \in SUBSET S |-> Max(s)]
           G == [s \in SUBSET S |-> [v \in V |-> A[v][Max(s)]]]
<1>1. Picks(c, S)
  BY MaxIsIn DEF Picks
<1>2. Steps(G, S, V)
  <2> SUFFICES ASSUME NEW s \in SUBSET S, NEW v \in V, s # {} PROVE G[s][v] \in V
    BY DEF Steps
  <2>1. Max(s) \in S
    BY MaxIsIn
  <2> QED BY <2>1
<1>3. IsFiniteSet(S)
  BY FS_Interval
<1>4. PICK h \in [SUBSET S -> V] : Folds(h, G, base, c, S)
  <2> HIDE DEF S, c, G
  <2>1. Foldable(G, base, c, S, V)
    BY <1>1, <1>2, <1>3 DEF Foldable
  <2> QED BY <2>1, FoldOf
<1>5. ASSUME NEW s \in SUBSET S
      PROVE  h[s] = IF s = {} THEN base ELSE A[h[s \ {Max(s)}]][Max(s)]
  <2>1. h[s] = IF s = {} THEN base ELSE G[s][h[s \ {c[s]}]]
    BY <1>4 DEF Folds
  <2>2. s \ {Max(s)} \in SUBSET S /\ c[s] = Max(s)
    OBVIOUS
  <2>3. h[s \ {Max(s)}] \in V
    BY <1>4, <2>2
  <2>4. G[s][h[s \ {Max(s)}]] = A[h[s \ {Max(s)}]][Max(s)]
    BY <2>3
  <2> QED BY <2>1, <2>2, <2>4, Zenon
<1> QED BY <1>4, <1>5 DEF LeftFold

\* What holds before the first step and is kept by each holds after the last.
LeftKept(R, n, h) ==
  \A s \in SUBSET (1..n) : s # {} =>
    (<<s \ {Max(s)}, h[s \ {Max(s)}]>> \in R => <<s, h[s]>> \in R)

\* R is the set of the parts and values of which it holds.
LEMMA LeftFoldKeeps ==
  ASSUME NEW n \in Nat, NEW R, NEW h, <<{}, h[{}]>> \in R, LeftKept(R, n, h)
  PROVE  <<1..n, h[1..n]>> \in R
<1> DEFINE S == 1..n
           T == {s \in SUBSET S : <<s, h[s]>> \in R}
<1>1. Grows(T, S)
  <2> SUFFICES ASSUME NEW s \in SUBSET S, \A x \in s : s \ {x} \in T PROVE s \in T
    BY DEF Grows
  <2>1. CASE s = {}
    BY <2>1
  <2>2. CASE s # {}
    <3>1. Max(s) \in s
      BY <2>2, MaxIsIn
    <3>2. <<s \ {Max(s)}, h[s \ {Max(s)}]>> \in R
      BY <3>1
    <3> QED BY <2>2, <3>2 DEF LeftKept
  <2> QED BY <2>1, <2>2
<1>2. IsFiniteSet(S)
  BY FS_Interval
<1>3. T = SUBSET S
  <2>1. T \subseteq SUBSET S
    OBVIOUS
  <2> HIDE DEF T, S
  <2> QED BY <1>1, <1>2, <2>1, SubsetsByElement
<1> QED BY <1>3

-----------------------------------------------------------------------------
(* The loops of sack.go. *)

Block == {b \in Nat \X Nat : b[1] <= b[2]}
Span(b) == b[1]..(b[2] - 1)
Apart(q) == \A i, j \in DOMAIN q : i # j => ~Meet(q[i], q[j])

\* What UpdateSACKBlocks makes of some of the blocks.
Absorbed(old, new, nxt) ==
  CHOOSE h : h = [s \in SUBSET DOMAIN old |->
                    IF s = {} THEN <<new, <<>> >>
                    ELSE Absorb(h[s \ {Max(s)}], old[Max(s)], nxt)]

\* It is a fold over the positions.
LEMMA MergedIs ==
  ASSUME NEW old, NEW new, NEW nxt
  PROVE  Merged(old, new, nxt) = Absorbed(old, new, nxt)[DOMAIN old]
BY Zenon DEF Merged, FoldLeft, MapThenFoldSet, Absorbed

\* What TrimSACKBlockList makes of some of the blocks.
Shrunk(old, nxt) ==
  CHOOSE h : h = [s \in SUBSET DOMAIN old |->
                    IF s = {} THEN <<>> ELSE Shrink(h[s \ {Max(s)}], old[Max(s)], nxt)]

\* It is one too.
LEMMA TrimIs ==
  ASSUME NEW old, NEW nxt
  PROVE  TrimSACKBlockList(old, nxt) = Shrunk(old, nxt)[DOMAIN old]
BY Zenon DEF TrimSACKBlockList, FoldLeft, MapThenFoldSet, Shrunk

\* A step keeps the types ...
LEMMA AbsorbFits ==
  ASSUME NEW acc \in Block \X Seq(Block), NEW b \in Block, NEW nxt
  PROVE  Absorb(acc, b, nxt) \in Block \X Seq(Block)
<1>1. acc[1] \in Block /\ acc[2] \in Seq(Block)
  OBVIOUS
<1>2. Hull(acc[1], b) \in Block
  <2>1. /\ acc[1][1] \in Nat /\ acc[1][2] \in Nat /\ acc[1][1] <= acc[1][2]
        /\ b[1] \in Nat /\ b[2] \in Nat /\ b[1] <= b[2]
    BY <1>1 DEF Block
  <2> QED BY <2>1 DEF Hull, MaxOf, Block
<1>3. Append(acc[2], b) \in Seq(Block)
  BY <1>1
<1> HIDE DEF Block
<1> QED BY <1>1, <1>2, <1>3 DEF Absorb

\* ... and so the fold is defined, one position after the other.
LEMMA AbsorbedFits ==
  ASSUME NEW old \in Seq(Block), NEW new \in Block, NEW nxt
  PROVE  LET h == Absorbed(old, new, nxt)
         IN  \A s \in SUBSET (1..Len(old)) :
               /\ h[s] \in Block \X Seq(Block)
               /\ h[s] = IF s = {} THEN <<new, <<>> >>
                         ELSE Absorb(h[s \ {Max(s)}], old[Max(s)], nxt)
<1> DEFINE V == Block \X Seq(Block)
           n == Len(old)
           A == [v \in V |-> [i \in 1..n |-> Absorb(v, old[i], nxt)]]
           base == <<new, <<>> >>
<1>1. base \in V /\ n \in Nat /\ DOMAIN old = 1..n
  <2>1. <<>> \in Seq(Block)
    BY EmptySeq
  <2>2. base \in V
    BY <2>1
  <2>3. n \in Nat /\ DOMAIN old = 1..n
    OBVIOUS
  <2> QED BY <2>2, <2>3
<1>2. \A v \in V, i \in 1..n : A[v][i] \in V
  <2> SUFFICES ASSUME NEW v \in V, NEW i \in 1..n PROVE A[v][i] \in V
    OBVIOUS
  <2>1. old[i] \in Block
    OBVIOUS
  <2> QED BY <2>1, AbsorbFits
<1>3. PICK h \in [SUBSET (1..n) -> V] : LeftFold(h, A, base, n)
  <2> HIDE DEF V, A, base, n
  <2> QED BY <1>1, <1>2, LeftFoldExists
<1>4. ASSUME NEW s \in SUBSET (1..n)
      PROVE  h[s] = IF s = {} THEN base ELSE Absorb(h[s \ {Max(s)}], old[Max(s)], nxt)
  <2>1. CASE s = {}
    BY <1>3, <2>1 DEF LeftFold
  <2>2. CASE s # {}
    <3>1. Max(s) \in 1..n /\ s \ {Max(s)} \in SUBSET (1..n)
      BY <1>1, <2>2, MaxIsIn
    <3>2. h[s \ {Max(s)}] \in V
      BY <1>3, <3>1
    <3>3. h[s] = A[h[s \ {Max(s)}]][Max(s)]
      BY <1>3, <2>2 DEF LeftFold
    <3> HIDE DEF V, base
    <3> QED BY <2>2, <3>1, <3>2, <3>3
  <2> QED BY <2>1, <2>2
<1> HIDE DEF V, A, base
<1>5. h = [s \in SUBSET DOMAIN old |->
             IF s = {} THEN base ELSE Absorb(h[s \ {Max(s)}], old[Max(s)], nxt)]
  BY <1>1, <1>3, <1>4
<1>6. h = [s \in SUBSET DOMAIN old |->
             IF s = {} THEN <<new, <<>> >> ELSE Absorb(h[s \ {Max(s)}], old[Max(s)], nxt)]
  BY <1>5, Zenon DEF base
<1>7. PICK g : g = Absorbed(old, new, nxt)
  OBVIOUS
<1>8. g = [s \in SUBSET DOMAIN old |->
             IF s = {} THEN <<new, <<>> >> ELSE Absorb(g[s \ {Max(s)}], old[Max(s)], nxt)]
  BY <1>6, <1>7, Zenon DEF Absorbed
<1>9. \A s \in SUBSET (1..n) :
        g[s] = IF s = {} THEN base ELSE Absorb(g[s \ {Max(s)}], old[Max(s)], nxt)
  BY <1>1, <1>8, Zenon DEF base
<1>10. \A s \in SUBSET (1..n) : g[s] \in V
  <2> DEFINE R == (SUBSET (1..n)) \X V
             T == {s \in SUBSET (1..n) : g[s] \in V}
  <2>1. Grows(T, 1..n)
    <3> SUFFICES ASSUME NEW s \in SUBSET (1..n), \A x \in s : s \ {x} \in T
                 PROVE  s \in T
      BY DEF Grows
    <3>1. CASE s = {}
      BY <1>1, <1>9, <3>1
    <3>2. CASE s # {}
      <4>1. Max(s) \in s /\ Max(s) \in 1..n
        BY <1>1, <3>2, MaxIsIn
      <4>2. g[s \ {Max(s)}] \in V /\ old[Max(s)] \in Block
        <5>1. g[s \ {Max(s)}] \in V
          BY <4>1
        <5>2. old[Max(s)] \in Block
          BY <4>1, ElementOfSeq
        <5> QED BY <5>1, <5>2
      <4>3. Absorb(g[s \ {Max(s)}], old[Max(s)], nxt) \in V
        BY <4>2, AbsorbFits DEF V
      <4> QED BY <1>9, <3>2, <4>3
    <3> QED BY <3>1, <3>2
  <2>2. IsFiniteSet(1..n)
    BY <1>1, FS_Interval
  <2>3. T \subseteq SUBSET (1..n)
    OBVIOUS
  <2> HIDE DEF T
  <2>4. T = SUBSET (1..n)
    BY <2>1, <2>2, <2>3, SubsetsByElement
  <2> QED BY <2>4 DEF T
<1> QED BY <1>7, <1>9, <1>10 DEF V, base

\* Blocks that meet become one without a byte that neither had, and a block
\* that meets neither of them does not meet it.
LEMMA HullIs ==
  ASSUME NEW a \in Block, NEW b \in Block, Meet(a, b)
  PROVE  /\ Hull(a, b) \in Block
         /\ Span(Hull(a, b)) \subseteq Span(a) \cup Span(b)
         /\ \A c \in Block : ~Meet(a, c) /\ ~Meet(c, b) => ~Meet(Hull(a, b), c)
<1>1. /\ a[1] \in Nat /\ a[2] \in Nat /\ a[1] <= a[2]
      /\ b[1] \in Nat /\ b[2] \in Nat /\ b[1] <= b[2]
      /\ a[1] <= b[2] /\ b[1] <= a[2]
  BY DEF Block, Meet
<1> DEFINE h == Hull(a, b)
<1>2. /\ h[1] = IF b[1] < a[1] THEN b[1] ELSE a[1]
      /\ h[2] = IF a[2] >= b[2] THEN a[2] ELSE b[2]
      /\ h = <<h[1], h[2]>>
  BY DEF Hull, MaxOf
<1> HIDE DEF h
<1>3. h[1] \in Nat /\ h[2] \in Nat /\ h[1] <= h[2]
  BY <1>1, <1>2
<1>4. h \in Block
  BY <1>2, <1>3 DEF Block
<1>5. ASSUME NEW k \in Span(h) PROVE k \in Span(a) \/ k \in Span(b)
  BY <1>1, <1>2, <1>3 DEF Span
<1>6. ASSUME NEW c \in Block, ~Meet(a, c), ~Meet(c, b) PROVE ~Meet(h, c)
  <2>1. c[1] \in Nat /\ c[2] \in Nat /\ c[1] <= c[2]
    BY DEF Block
  <2> QED BY <1>1, <1>2, <1>3, <1>6, <2>1 DEF Meet
<1> QED BY <1>4, <1>5, <1>6 DEF h

\* What is known after the positions s: the new block is made of bytes of X,
\* and the blocks kept are of s, apart, and meet neither each other nor it.
MergedWell(s, acc, old, X) ==
  /\ acc[1] \in Block /\ acc[2] \in Seq(Block)
  /\ Span(acc[1]) \subseteq X
  /\ Len(acc[2]) <= Cardinality(s)
  /\ \A k \in DOMAIN acc[2] : \E i \in s : acc[2][k] = old[i]
  /\ Apart(acc[2])
  /\ \A k \in DOMAIN acc[2] : ~Meet(acc[1], acc[2][k])

\* It is still known after one more position.
LEMMA AbsorbWell ==
  ASSUME NEW old \in Seq(Block), Apart(old), NEW X,
         \A i \in DOMAIN old : Span(old[i]) \subseteq X,
         NEW t \in SUBSET DOMAIN old, NEW i \in DOMAIN old \ t,
         NEW acc, MergedWell(t, acc, old, X), NEW nxt
  PROVE  MergedWell(t \cup {i}, Absorb(acc, old[i], nxt), old, X)
<1> DEFINE b == old[i]
           q == acc[2]
<1>1. b \in Block /\ Span(b) \subseteq X /\ q \in Seq(Block) /\ acc[1] \in Block
  <2>1. i \in 1..Len(old)
    OBVIOUS
  <2> QED BY <2>1, ElementOfSeq DEF MergedWell
<1>2. /\ IsFiniteSet(t) /\ Cardinality(t) \in Nat
      /\ Cardinality(t \cup {i}) = Cardinality(t) + 1
  <2>1. IsFiniteSet(DOMAIN old)
    <3>1. DOMAIN old = 1..Len(old) /\ Len(old) \in Nat
      OBVIOUS
    <3> QED BY <3>1, FS_Interval
  <2>2. IsFiniteSet(t)
    BY <2>1, FS_Subset
  <2> QED BY <2>2, FS_CardinalityType, FS_AddElement
<1>3. Len(q) \in Nat /\ Len(q) <= Cardinality(t) /\ DOMAIN q = 1..Len(q)
  BY <1>1 DEF MergedWell
<1>4. \A k \in DOMAIN q : ~Meet(q[k], b) /\ ~Meet(b, q[k])
  <2> SUFFICES ASSUME NEW k \in DOMAIN q PROVE ~Meet(q[k], b) /\ ~Meet(b, q[k])
    OBVIOUS
  <2>1. PICK j \in t : q[k] = old[j]
    BY DEF MergedWell
  <2> QED BY <2>1 DEF Apart
<1>5. MergedWell(t \cup {i}, acc, old, X)
  <2>1. Len(q) <= Cardinality(t \cup {i})
    BY <1>2, <1>3
  <2> QED BY <2>1 DEF MergedWell
<1>6. ASSUME Meet(acc[1], b)
      PROVE  MergedWell(t \cup {i}, <<Hull(acc[1], b), q>>, old, X)
  <2> DEFINE h == Hull(acc[1], b)
  <2>1. h \in Block /\ Span(h) \subseteq Span(acc[1]) \cup Span(b)
    BY <1>1, <1>6, HullIs
  <2>2. ASSUME NEW k \in DOMAIN q PROVE ~Meet(h, q[k])
    <3>1. q[k] \in Block
      BY <1>1, <1>3, ElementOfSeq
    <3>2. ~Meet(acc[1], q[k]) /\ ~Meet(q[k], b)
      BY <1>4 DEF MergedWell
    <3> HIDE DEF b, q
    <3> QED BY <1>1, <1>6, <3>1, <3>2, HullIs
  <2>3. Span(h) \subseteq X
    BY <1>1, <2>1 DEF MergedWell
  <2>4. Len(q) <= Cardinality(t \cup {i})
    BY <1>2, <1>3
  <2> HIDE DEF h, b
  <2> QED BY <2>1, <2>2, <2>3, <2>4 DEF MergedWell, h
<1>7. ASSUME ~Meet(acc[1], b)
      PROVE  MergedWell(t \cup {i}, <<acc[1], Append(q, b)>>, old, X)
  <2> DEFINE r == Append(q, b)
  <2>1. /\ r \in Seq(Block) /\ Len(r) = Len(q) + 1 /\ DOMAIN r = 1..(Len(q) + 1)
        /\ r[Len(q) + 1] = b /\ \A k \in 1..Len(q) : r[k] = q[k]
    <3> HIDE DEF q, b
    <3> QED BY <1>1, AppendSeq
  <2> HIDE DEF r
  <2>2. Len(r) <= Cardinality(t \cup {i})
    BY <1>2, <1>3, <2>1
  <2>3. ASSUME NEW k \in DOMAIN r
        PROVE  \/ k \in DOMAIN q /\ r[k] = q[k]
               \/ k = Len(q) + 1 /\ r[k] = b
    BY <1>3, <2>1
  <2>4. \A k \in DOMAIN r : \E j \in t \cup {i} : r[k] = old[j]
    BY <2>3 DEF MergedWell
  <2>5. Apart(r)
    <3> SUFFICES ASSUME NEW k \in DOMAIN r, NEW l \in DOMAIN r, k # l
                 PROVE  ~Meet(r[k], r[l])
      BY DEF Apart
    <3>1. Apart(q)
      BY DEF MergedWell
    <3> HIDE DEF q, b
    <3> QED BY <2>3, <3>1, <1>4 DEF Apart
  <2>6. \A k \in DOMAIN r : ~Meet(acc[1], r[k])
    BY <1>7, <2>3 DEF MergedWell
  <2>7. acc[1] \in Block /\ Span(acc[1]) \subseteq X
    BY DEF MergedWell
  <2> HIDE DEF b, q
  <2> QED BY <2>1, <2>2, <2>4, <2>5, <2>6, <2>7 DEF MergedWell, r
<1> HIDE DEF b
<1> QED BY <1>5, <1>6, <1>7 DEF Absorb, b

\* The loop of UpdateSACKBlocks.
LEMMA MergedIsWell ==
  ASSUME NEW old \in Seq(Block), Apart(old), NEW X,
         \A i \in DOMAIN old : Span(old[i]) \subseteq X,
         NEW new \in Block, Span(new) \subseteq X, NEW nxt
  PROVE  MergedWell(DOMAIN old, Merged(old, new, nxt), old, X)
<1> DEFINE n == Len(old)
           R == {p \in (SUBSET (1..n)) \X (Block \X Seq(Block)) :
                   MergedWell(p[1], p[2], old, X)}
<1>1. PICK h : h = Absorbed(old, new, nxt)
  OBVIOUS
<1>2. \A s \in SUBSET (1..n) :
        /\ h[s] \in Block \X Seq(Block)
        /\ h[s] = IF s = {} THEN <<new, <<>> >>
                  ELSE Absorb(h[s \ {Max(s)}], old[Max(s)], nxt)
  BY <1>1, AbsorbedFits
<1>3. n \in Nat /\ DOMAIN old = 1..n
  OBVIOUS
<1>4. MergedWell({}, <<new, <<>> >>, old, X)
  <2>1. <<>> \in Seq(Block) /\ Len(<<>>) = 0 /\ DOMAIN <<>> = {}
    BY EmptySeq
  <2>2. Cardinality({}) = 0
    BY FS_EmptySet
  <2> QED BY <2>1, <2>2 DEF MergedWell, Apart
<1>5. ASSUME NEW s \in SUBSET (1..n), s # {},
             MergedWell(s \ {Max(s)}, h[s \ {Max(s)}], old, X)
      PROVE  MergedWell(s, h[s], old, X)
  <2>1. PICK x, t : x = Max(s) /\ t = s \ {x}
    OBVIOUS
  <2>2. x \in s /\ x \in DOMAIN old \ t /\ t \in SUBSET DOMAIN old /\ s = t \cup {x}
    BY <1>3, <1>5, <2>1, MaxIsIn
  <2>3. h[s] = Absorb(h[t], old[x], nxt)
    BY <1>2, <1>5, <2>1
  <2>4. MergedWell(t, h[t], old, X)
    BY <1>5, <2>1
  <2>5. MergedWell(t \cup {x}, Absorb(h[t], old[x], nxt), old, X)
    BY <2>2, <2>4, AbsorbWell
  <2> QED BY <2>2, <2>3, <2>5
<1>6. <<{}, h[{}]>> \in R
  <2>1. h[{}] = <<new, <<>> >> /\ h[{}] \in Block \X Seq(Block)
    BY <1>2
  <2> QED BY <1>4, <2>1
<1>7. LeftKept(R, n, h)
  <2> SUFFICES ASSUME NEW s \in SUBSET (1..n), s # {},
                      <<s \ {Max(s)}, h[s \ {Max(s)}]>> \in R
               PROVE  <<s, h[s]>> \in R
    BY DEF LeftKept
  <2>1. MergedWell(s \ {Max(s)}, h[s \ {Max(s)}], old, X)
    OBVIOUS
  <2> QED BY <1>2, <1>5, <2>1
<1>8. <<1..n, h[1..n]>> \in R
  <2> HIDE DEF R, n
  <2> QED BY <1>3, <1>6, <1>7, LeftFoldKeeps
<1>9. MergedWell(1..n, h[1..n], old, X)
  BY <1>8
<1> QED BY <1>1, <1>3, <1>9, MergedIs

\* UpdateSACKBlocks keeps the blocks apart, few, and within X.
LEMMA UpdateKeeps ==
  ASSUME NEW old \in Seq(Block), Apart(old), NEW X,
         MaxSACKBlocks \in Nat \ {0}, Len(old) <= MaxSACKBlocks,
         \A i \in DOMAIN old : Span(old[i]) \subseteq X,
         NEW new \in Block, Span(new) \subseteq X, NEW nxt,
         NEW q, q = UpdateSACKBlocks(old, new, nxt)
  PROVE  /\ q \in Seq(Block) /\ Len(q) <= MaxSACKBlocks /\ Apart(q)
         /\ \A i \in DOMAIN q : Span(q[i]) \subseteq X
<1>1. PICK a, b : a = Merged(old, new, nxt)[1] /\ b = Merged(old, new, nxt)[2]
  OBVIOUS
<1>2. /\ a \in Block /\ b \in Seq(Block) /\ Span(a) \subseteq X
      /\ Len(b) <= Cardinality(DOMAIN old)
      /\ \A k \in DOMAIN b : \E i \in DOMAIN old : b[k] = old[i]
      /\ Apart(b)
      /\ \A k \in DOMAIN b : ~Meet(a, b[k])
  <2>1. PICK m : m = Merged(old, new, nxt)
    OBVIOUS
  <2>2. MergedWell(DOMAIN old, m, old, X)
    BY <2>1, MergedIsWell
  <2> QED BY <1>1, <2>1, <2>2 DEF MergedWell
<1>3. Len(old) \in Nat /\ Len(b) \in Nat /\ Len(b) <= MaxSACKBlocks
  <2>1. Len(old) \in Nat /\ DOMAIN old = 1..Len(old) /\ Len(b) \in Nat
    BY <1>2
  <2>2. Cardinality(1..Len(old)) = Len(old)
    <3>1. PICK n \in Nat : n = Len(old)
      BY <2>1
    <3>2. Cardinality(1..n) = n
      <4>1. Cardinality(1..n) = IF 1 > n THEN 0 ELSE n - 1 + 1
        BY FS_Interval
      <4> QED BY <4>1
    <3> QED BY <3>1, <3>2
  <2>3. Len(b) <= Len(old)
    BY <1>2, <2>1, <2>2
  <2> QED BY <2>1, <2>3
<1>4. \A k \in DOMAIN b : Span(b[k]) \subseteq X
  BY <1>2
<1>5. CASE old = <<>>
  <2>1. q = <<new>>
    BY <1>5 DEF UpdateSACKBlocks
  <2>2. q \in Seq(Block) /\ Len(q) = 1 /\ DOMAIN q = {1} /\ q[1] = new
    BY <2>1
  <2> QED BY <2>2 DEF Apart
<1>6. CASE old # <<>> /\ a[1] <= nxt
  <2>1. q = b
    BY <1>1, <1>6 DEF UpdateSACKBlocks
  <2> QED BY <1>2, <1>3, <1>4, <2>1
<1>7. CASE old # <<>> /\ ~(a[1] <= nxt)
  <2> DEFINE kept == IF Len(b) = MaxSACKBlocks THEN Front(b) ELSE b
  <2>1. q = <<a>> \o kept
    BY <1>1, <1>7 DEF UpdateSACKBlocks
  <2>2. /\ kept \in Seq(Block) /\ Len(kept) < MaxSACKBlocks /\ Len(kept) <= Len(b)
        /\ \A k \in 1..Len(kept) : kept[k] = b[k]
    <3>1. CASE Len(b) = MaxSACKBlocks
      <4>1. Len(b) - 1 \in Nat /\ Len(b) - 1 <= Len(b)
        BY <1>3, <3>1
      <4>2. kept = SubSeq(b, 1, Len(b) - 1)
        BY <3>1 DEF Front
      <4>3. /\ SubSeq(b, 1, Len(b) - 1) \in Seq(Block)
            /\ Len(SubSeq(b, 1, Len(b) - 1)) = Len(b) - 1
            /\ \A k \in 1..(Len(b) - 1) : SubSeq(b, 1, Len(b) - 1)[k] = b[k]
        <5>1. PICK m \in Nat : m = Len(b) - 1
          BY <4>1
        <5>2. \A k \in 1..m : k \in 1..Len(b) /\ b[k] \in Block
          <6>1. \A k \in 1..m : k \in 1..Len(b)
            BY <1>3, <5>1
          <6> QED BY <1>2, <6>1, ElementOfSeq
        <5>3. /\ SubSeq(b, 1, m) \in Seq(Block)
              /\ Len(SubSeq(b, 1, m)) = IF 1 <= m THEN m - 1 + 1 ELSE 0
              /\ \A k \in 1..(m - 1 + 1) : SubSeq(b, 1, m)[k] = b[1 + k - 1]
          BY <5>2, SubSeqProperties
        <5>4. m - 1 + 1 = m /\ \A k \in 1..m : 1 + k - 1 = k
          OBVIOUS
        <5>5. Len(SubSeq(b, 1, m)) = m
          BY <5>3
        <5> QED BY <5>1, <5>3, <5>4, <5>5
      <4> HIDE DEF kept
      <4> QED BY <1>3, <3>1, <4>2, <4>3
    <3>2. CASE Len(b) # MaxSACKBlocks
      BY <1>2, <1>3, <3>2
    <3> QED BY <3>1, <3>2
  <2> HIDE DEF kept
  <2>3. /\ q \in Seq(Block) /\ Len(q) = Len(kept) + 1 /\ DOMAIN q = 1..(Len(kept) + 1)
        /\ q[1] = a /\ \A k \in 1..Len(kept) : q[k + 1] = kept[k]
    <3>1. <<a>> \in Seq(Block) /\ Len(<<a>>) = 1
      BY <1>2
    <3> QED BY <2>1, <2>2, <3>1, ConcatProperties
  <2>4. ASSUME NEW k \in DOMAIN q
        PROVE  \/ k = 1 /\ q[k] = a
               \/ k # 1 /\ k - 1 \in DOMAIN b /\ q[k] = b[k - 1]
    <3>1. Len(kept) \in Nat
      BY <2>2
    <3>2. k = 1 \/ (k # 1 /\ k - 1 \in 1..Len(kept) /\ (k - 1) + 1 = k)
      BY <2>3, <3>1
    <3>3. ASSUME k # 1 PROVE k - 1 \in DOMAIN b /\ q[k] = b[k - 1]
      <4>1. q[k] = kept[k - 1] /\ kept[k - 1] = b[k - 1]
        BY <2>2, <2>3, <3>2, <3>3
      <4>2. k - 1 \in 1..Len(b)
        BY <1>3, <2>2, <3>1, <3>2, <3>3
      <4> QED BY <1>2, <4>1, <4>2
    <3> QED BY <2>3, <3>2, <3>3
  <2>5. \A k \in DOMAIN q : Span(q[k]) \subseteq X
    BY <1>2, <1>4, <2>4
  <2>6. Apart(q)
    <3> SUFFICES ASSUME NEW k \in DOMAIN q, NEW l \in DOMAIN q, k # l
                 PROVE  ~Meet(q[k], q[l])
      BY DEF Apart
    <3>0. k \in Int /\ l \in Int
      BY <2>3
    <3>1. CASE k = 1
      BY <1>2, <2>4, <3>1
    <3>2. CASE l = 1
      <4>1. ~Meet(q[l], q[k])
        BY <1>2, <2>4, <3>2
      <4> QED BY <4>1 DEF Meet
    <3>3. CASE k # 1 /\ l # 1
      <4>1. /\ k - 1 \in DOMAIN b /\ q[k] = b[k - 1]
            /\ l - 1 \in DOMAIN b /\ q[l] = b[l - 1]
        BY <2>4, <3>3
      <4>2. k - 1 # l - 1
        BY <3>0
      <4> QED BY <1>2, <4>1, <4>2 DEF Apart
    <3> QED BY <3>1, <3>2, <3>3
  <2>7. Len(q) <= MaxSACKBlocks
    <3>1. Len(kept) \in Nat
      BY <2>2
    <3> QED BY <2>2, <2>3, <3>1
  <2> QED BY <2>3, <2>5, <2>6, <2>7
<1> QED BY <1>5, <1>6, <1>7

\* What TrimSACKBlockList leaves of a block.
Cut(b, nxt) == <<MaxOf(b[1], nxt), b[2]>>

\* It is part of the block, beyond nxt, and no nearer to another one.
LEMMA CutIs ==
  ASSUME NEW b \in Block, NEW nxt \in Nat, b[2] > nxt
  PROVE  /\ Cut(b, nxt) \in Block
         /\ \A k \in Span(Cut(b, nxt)) : k \in Span(b) /\ k >= nxt
         /\ Cut(b, nxt)[1] >= nxt
         /\ \A c \in Block : c[2] > nxt /\ ~Meet(b, c) => ~Meet(Cut(b, nxt), Cut(c, nxt))
<1>1. b[1] \in Nat /\ b[2] \in Nat /\ b[1] <= b[2]
  BY DEF Block
<1> DEFINE d == Cut(b, nxt)
<1>2. d[1] = (IF b[1] >= nxt THEN b[1] ELSE nxt) /\ d[2] = b[2] /\ d = <<d[1], d[2]>>
  BY DEF Cut, MaxOf
<1> HIDE DEF d
<1>3. d[1] \in Nat /\ d[2] \in Nat /\ d[1] <= d[2] /\ d[1] >= nxt /\ d[1] >= b[1]
  BY <1>1, <1>2
<1>4. d \in Block
  BY <1>2, <1>3 DEF Block
<1>5. \A k \in Span(d) : k \in Span(b) /\ k >= nxt
  BY <1>1, <1>2, <1>3 DEF Span
<1>6. ASSUME NEW c \in Block, c[2] > nxt, ~Meet(b, c) PROVE ~Meet(d, Cut(c, nxt))
  <2>1. c[1] \in Nat /\ c[2] \in Nat /\ c[1] <= c[2]
    BY DEF Block
  <2>2. PICK e : e = Cut(c, nxt)
    OBVIOUS
  <2>3. e[1] = (IF c[1] >= nxt THEN c[1] ELSE nxt) /\ e[2] = c[2]
    BY <2>2 DEF Cut, MaxOf
  <2>4. ~Meet(d, e)
    BY <1>1, <1>2, <1>3, <1>6, <2>1, <2>3 DEF Meet
  <2> QED BY <2>2, <2>4
<1> QED BY <1>3, <1>4, <1>5, <1>6 DEF d

\* A step keeps the types ...
LEMMA ShrinkFits ==
  ASSUME NEW acc \in Seq(Block), NEW b \in Block, NEW nxt \in Nat
  PROVE  Shrink(acc, b, nxt) \in Seq(Block)
<1>1. CASE b[2] <= nxt
  BY <1>1 DEF Shrink
<1>2. CASE ~(b[2] <= nxt)
  <2>1. b[2] > nxt
    BY <1>2 DEF Block
  <2>2. Cut(b, nxt) \in Block
    BY <2>1, CutIs
  <2>3. Append(acc, Cut(b, nxt)) \in Seq(Block)
    BY <2>2, AppendSeq
  <2> QED BY <1>2, <2>3 DEF Shrink, Cut
<1> QED BY <1>1, <1>2

\* ... and so the fold is defined.
LEMMA ShrunkFits ==
  ASSUME NEW old \in Seq(Block), NEW nxt \in Nat
  PROVE  LET h == Shrunk(old, nxt)
         IN  \A s \in SUBSET (1..Len(old)) :
               h[s] = IF s = {} THEN <<>> ELSE Shrink(h[s \ {Max(s)}], old[Max(s)], nxt)
<1> DEFINE V == Seq(Block)
           n == Len(old)
           A == [v \in V |-> [i \in 1..n |-> Shrink(v, old[i], nxt)]]
<1>1. <<>> \in V /\ n \in Nat /\ DOMAIN old = 1..n
  <2>1. <<>> \in V
    BY EmptySeq
  <2>2. n \in Nat /\ DOMAIN old = 1..n
    OBVIOUS
  <2> QED BY <2>1, <2>2
<1>2. \A v \in V, i \in 1..n : A[v][i] \in V
  <2> SUFFICES ASSUME NEW v \in V, NEW i \in 1..n PROVE A[v][i] \in V
    OBVIOUS
  <2>1. old[i] \in Block
    OBVIOUS
  <2> QED BY <2>1, ShrinkFits
<1>3. PICK h \in [SUBSET (1..n) -> V] : LeftFold(h, A, <<>>, n)
  <2> HIDE DEF V, A, n
  <2> QED BY <1>1, <1>2, LeftFoldExists
<1>4. ASSUME NEW s \in SUBSET (1..n)
      PROVE  h[s] = IF s = {} THEN <<>> ELSE Shrink(h[s \ {Max(s)}], old[Max(s)], nxt)
  <2>1. CASE s = {}
    BY <1>3, <2>1 DEF LeftFold
  <2>2. CASE s # {}
    <3>1. Max(s) \in 1..n /\ s \ {Max(s)} \in SUBSET (1..n)
      BY <1>1, <2>2, MaxIsIn
    <3>2. h[s \ {Max(s)}] \in V
      BY <1>3, <3>1
    <3>3. h[s] = A[h[s \ {Max(s)}]][Max(s)]
      BY <1>3, <2>2 DEF LeftFold
    <3> HIDE DEF V
    <3> QED BY <2>2, <3>1, <3>2, <3>3
  <2> QED BY <2>1, <2>2
<1> HIDE DEF V, A
<1>5. h = [s \in SUBSET DOMAIN old |->
             IF s = {} THEN <<>> ELSE Shrink(h[s \ {Max(s)}], old[Max(s)], nxt)]
  BY <1>1, <1>3, <1>4
<1>6. PICK g : g = Shrunk(old, nxt)
  OBVIOUS
<1>7. g = [s \in SUBSET DOMAIN old |->
             IF s = {} THEN <<>> ELSE Shrink(g[s \ {Max(s)}], old[Max(s)], nxt)]
  BY <1>5, <1>6, Zenon DEF Shrunk
<1>8. \A s \in SUBSET (1..n) :
        g[s] = IF s = {} THEN <<>> ELSE Shrink(g[s \ {Max(s)}], old[Max(s)], nxt)
  BY <1>1, <1>7, Zenon
<1> QED BY <1>6, <1>8

\* What is known after the positions s: each block left is what is beyond nxt
\* of one of s, and they are apart.
TrimmedWell(s, q, old, nxt) ==
  /\ q \in Seq(Block) /\ Len(q) <= Cardinality(s)
  /\ \A k \in DOMAIN q : \E i \in s : old[i][2] > nxt /\ q[k] = Cut(old[i], nxt)
  /\ Apart(q)

\* It is still known after one more position.
LEMMA ShrinkWell ==
  ASSUME NEW old \in Seq(Block), Apart(old), NEW nxt \in Nat,
         NEW t \in SUBSET DOMAIN old, NEW i \in DOMAIN old \ t,
         NEW q, TrimmedWell(t, q, old, nxt)
  PROVE  TrimmedWell(t \cup {i}, Shrink(q, old[i], nxt), old, nxt)
<1> DEFINE b == old[i]
<1>1. b \in Block /\ q \in Seq(Block) /\ b[2] \in Nat
  <2>1. i \in 1..Len(old)
    OBVIOUS
  <2>2. b \in Block
    BY <2>1, ElementOfSeq
  <2> QED BY <2>2 DEF TrimmedWell, Block
<1>2. /\ IsFiniteSet(t) /\ Cardinality(t) \in Nat
      /\ Cardinality(t \cup {i}) = Cardinality(t) + 1
  <2>1. IsFiniteSet(DOMAIN old)
    <3>1. DOMAIN old = 1..Len(old) /\ Len(old) \in Nat
      OBVIOUS
    <3> QED BY <3>1, FS_Interval
  <2>2. IsFiniteSet(t)
    BY <2>1, FS_Subset
  <2> QED BY <2>2, FS_CardinalityType, FS_AddElement
<1>3. Len(q) \in Nat /\ Len(q) <= Cardinality(t) /\ DOMAIN q = 1..Len(q)
  BY <1>1 DEF TrimmedWell
<1>4. CASE b[2] <= nxt
  <2>1. Len(q) <= Cardinality(t \cup {i})
    BY <1>2, <1>3
  <2>2. Shrink(q, b, nxt) = q
    BY <1>4 DEF Shrink
  <2>3. TrimmedWell(t \cup {i}, q, old, nxt)
    BY <2>1 DEF TrimmedWell
  <2> QED BY <2>2, <2>3
<1>5. CASE ~(b[2] <= nxt)
  <2> DEFINE e == Cut(b, nxt)
             r == Append(q, e)
  <2>1. b[2] > nxt /\ e \in Block
    <3>1. b[2] > nxt
      BY <1>1, <1>5
    <3> HIDE DEF b
    <3> QED BY <1>1, <3>1, CutIs
  <2>2. /\ r \in Seq(Block) /\ Len(r) = Len(q) + 1 /\ DOMAIN r = 1..(Len(q) + 1)
        /\ r[Len(q) + 1] = e /\ \A k \in 1..Len(q) : r[k] = q[k]
    <3> HIDE DEF e
    <3> QED BY <1>1, <2>1, AppendSeq
  <2>3. Shrink(q, b, nxt) = r
    BY <1>5 DEF Shrink, Cut
  <2> HIDE DEF r
  <2>4. Len(r) <= Cardinality(t \cup {i})
    BY <1>2, <1>3, <2>2
  <2>5. ASSUME NEW k \in DOMAIN r
        PROVE  \/ k \in DOMAIN q /\ r[k] = q[k]
               \/ k = Len(q) + 1 /\ r[k] = e
    BY <1>3, <2>2
  <2>6. \A k \in DOMAIN r : \E j \in t \cup {i} :
          old[j][2] > nxt /\ r[k] = Cut(old[j], nxt)
    BY <2>1, <2>5 DEF TrimmedWell
  <2>7. ASSUME NEW k \in DOMAIN q PROVE ~Meet(q[k], e) /\ ~Meet(e, q[k])
    <3>1. PICK j \in t : old[j][2] > nxt /\ q[k] = Cut(old[j], nxt)
      BY DEF TrimmedWell
    <3>2. old[j] \in Block
      <4>1. j \in 1..Len(old)
        OBVIOUS
      <4> QED BY <4>1, ElementOfSeq
    <3>3. ~Meet(old[j], b) /\ ~Meet(b, old[j])
      BY DEF Apart
    <3>4. PICK c : c = old[j]
      OBVIOUS
    <3> HIDE DEF b
    <3>5. ~Meet(Cut(c, nxt), e) /\ ~Meet(e, Cut(c, nxt))
      BY <1>1, <2>1, <3>1, <3>2, <3>3, <3>4, CutIs
    <3> QED BY <3>1, <3>4, <3>5
  <2>8. Apart(r)
    <3> SUFFICES ASSUME NEW k \in DOMAIN r, NEW l \in DOMAIN r, k # l
                 PROVE  ~Meet(r[k], r[l])
      BY DEF Apart
    <3>1. Apart(q)
      BY DEF TrimmedWell
    <3> HIDE DEF e
    <3> QED BY <2>5, <2>7, <3>1 DEF Apart
  <2>9. TrimmedWell(t \cup {i}, r, old, nxt)
    BY <2>2, <2>4, <2>6, <2>8 DEF TrimmedWell
  <2> QED BY <2>3, <2>9
<1> QED BY <1>4, <1>5

\* TrimSACKBlockList keeps the blocks apart and few, and leaves of them what
\* is beyond nxt.
LEMMA TrimKeeps ==
  ASSUME NEW old \in Seq(Block), Apart(old), NEW nxt \in Nat,
         NEW q, q = TrimSACKBlockList(old, nxt)
  PROVE  /\ q \in Seq(Block) /\ Len(q) <= Len(old) /\ Apart(q)
         /\ \A k \in DOMAIN q :
              /\ q[k][1] >= nxt
              /\ \E i \in DOMAIN old : \A x \in Span(q[k]) : x \in Span(old[i]) /\ x >= nxt
<1> DEFINE n == Len(old)
           R == {p \in (SUBSET (1..n)) \X Seq(Block) : TrimmedWell(p[1], p[2], old, nxt)}
<1>1. PICK h : h = Shrunk(old, nxt)
  OBVIOUS
<1>2. \A s \in SUBSET (1..n) :
        h[s] = IF s = {} THEN <<>> ELSE Shrink(h[s \ {Max(s)}], old[Max(s)], nxt)
  BY <1>1, ShrunkFits
<1>3. n \in Nat /\ DOMAIN old = 1..n
  OBVIOUS
<1>4. TrimmedWell({}, <<>>, old, nxt)
  <2>1. <<>> \in Seq(Block) /\ Len(<<>>) = 0 /\ DOMAIN <<>> = {}
    BY EmptySeq
  <2>2. Cardinality({}) = 0
    BY FS_EmptySet
  <2> QED BY <2>1, <2>2 DEF TrimmedWell, Apart
<1>5. ASSUME NEW s \in SUBSET (1..n), s # {},
             TrimmedWell(s \ {Max(s)}, h[s \ {Max(s)}], old, nxt)
      PROVE  TrimmedWell(s, h[s], old, nxt)
  <2>1. PICK x, t : x = Max(s) /\ t = s \ {x}
    OBVIOUS
  <2>2. x \in s /\ x \in DOMAIN old \ t /\ t \in SUBSET DOMAIN old /\ s = t \cup {x}
    BY <1>3, <1>5, <2>1, MaxIsIn
  <2>3. h[s] = Shrink(h[t], old[x], nxt)
    BY <1>2, <1>5, <2>1
  <2>4. TrimmedWell(t, h[t], old, nxt)
    BY <1>5, <2>1
  <2>5. TrimmedWell(t \cup {x}, Shrink(h[t], old[x], nxt), old, nxt)
    BY <2>2, <2>4, ShrinkWell
  <2> QED BY <2>2, <2>3, <2>5
<1>6. <<{}, h[{}]>> \in R
  <2>1. h[{}] = <<>> /\ h[{}] \in Seq(Block)
    BY <1>2, <1>4 DEF TrimmedWell
  <2> QED BY <1>4, <2>1
<1>7. LeftKept(R, n, h)
  <2> SUFFICES ASSUME NEW s \in SUBSET (1..n), s # {},
                      <<s \ {Max(s)}, h[s \ {Max(s)}]>> \in R
               PROVE  <<s, h[s]>> \in R
    BY DEF LeftKept
  <2>1. TrimmedWell(s \ {Max(s)}, h[s \ {Max(s)}], old, nxt)
    OBVIOUS
  <2>2. TrimmedWell(s, h[s], old, nxt) /\ h[s] \in Seq(Block)
    BY <1>5, <2>1 DEF TrimmedWell
  <2> QED BY <2>2
<1>8. <<1..n, h[1..n]>> \in R
  <2> HIDE DEF R, n
  <2> QED BY <1>3, <1>6, <1>7, LeftFoldKeeps
<1>9. TrimmedWell(1..n, q, old, nxt)
  <2>1. TrimmedWell(1..n, h[1..n], old, nxt)
    BY <1>8
  <2> QED BY <1>1, <1>3, <2>1, TrimIs
<1>10. Len(q) <= n
  <2>1. PICK m \in Nat : m = n
    BY <1>3
  <2>2. Cardinality(1..m) = IF 1 > m THEN 0 ELSE m - 1 + 1
    BY FS_Interval
  <2>3. Cardinality(1..m) = m
    BY <2>2
  <2>4. Len(q) <= Cardinality(1..m)
    BY <1>9, <2>1 DEF TrimmedWell
  <2> QED BY <2>1, <2>3, <2>4
<1>11. ASSUME NEW k \in DOMAIN q
       PROVE  /\ q[k][1] >= nxt
              /\ \E i \in DOMAIN old : \A x \in Span(q[k]) : x \in Span(old[i]) /\ x >= nxt
  <2>1. PICK i \in DOMAIN old : old[i][2] > nxt /\ q[k] = Cut(old[i], nxt)
    BY <1>3, <1>9 DEF TrimmedWell
  <2>2. PICK b : b = old[i]
    OBVIOUS
  <2>3. b \in Block
    BY <1>3, <2>2, ElementOfSeq
  <2>4. /\ \A x \in Span(Cut(b, nxt)) : x \in Span(b) /\ x >= nxt
        /\ Cut(b, nxt)[1] >= nxt
    BY <2>1, <2>2, <2>3, CutIs
  <2> QED BY <2>1, <2>2, <2>4
<1>12. q \in Seq(Block) /\ Apart(q)
  BY <1>9 DEF TrimmedWell
<1> QED BY <1>10, <1>11, <1>12

-----------------------------------------------------------------------------
(* The blocks are sound. *)

\* While the heap is drained the blocks lie beyond what was consumed, so that
\* what leaves the heap without being consumed is in none of them.
SackInv ==
  /\ MaxSACKBlocks \in Nat \ {0}
  /\ blocks \in Seq(Block)
  /\ refused \subseteq 1..StreamLen
  /\ SackIsSound
  /\ rcvPc = "drain" => \A i \in DOMAIN blocks : blocks[i][1] > Len(rcvd)

\* The properties, in the terms of the loops.
LEMMA SackIsApart == BlocksApart <=> Len(blocks) <= MaxSACKBlocks /\ Apart(blocks)
BY DEF BlocksApart, Apart

LEMMA SackIsCovered ==
  SackIsHonest <=> \A i \in DOMAIN blocks : Span(blocks[i]) \subseteq Held \cup refused
BY DEF SackIsHonest, Span

\* A byte is held if it is in a segment of the heap.
LEMMA HeldIs ==
  \A k : k \in Held <=>
    \E i \in DOMAIN pending : k \in pending[i].seq..(pending[i].seq + pending[i].len - 1)
BY DEF Held

\* Nothing waits that is not of the stream.
LEMMA HeldInStream ==
  ASSUME NEW n \in Nat, RcvInv(n)
  PROVE  Held \subseteq 1..n
<1> SUFFICES ASSUME NEW k \in Held PROVE k \in 1..n
  OBVIOUS
<1>1. PICK i \in DOMAIN pending : k \in pending[i].seq..(pending[i].seq + pending[i].len - 1)
  BY HeldIs
<1>2. OfStream(pending[i], n)
  BY DEF RcvInv, PendingOfStream
<1> QED BY <1>1, <1>2 DEF OfStream, Segment

\* An element that is not the one removed is still there.
LEMMA WithoutKeeps ==
  ASSUME NEW S, NEW q \in Seq(S), NEW i \in DOMAIN q, NEW j \in DOMAIN q, j # i
  PROVE  \E k \in DOMAIN Without(q, i) : Without(q, i)[k] = q[j]
<1>1. i \in 1..Len(q) /\ j \in 1..Len(q) /\ Len(q) \in Nat
  OBVIOUS
<1>2. /\ Len(Without(q, i)) = Len(q) - 1
      /\ \A k \in 1..(Len(q) - 1) :
           Without(q, i)[k] = IF k < i THEN q[k] ELSE q[k + 1]
  BY <1>1, WithoutAt
<1>3. DOMAIN Without(q, i) = 1..(Len(q) - 1)
  <2>1. Without(q, i) \in Seq(S)
    BY WithoutSeq
  <2> QED BY <1>2, <2>1
<1> HIDE DEF Without
<1>4. CASE j < i
  <2>1. j \in 1..(Len(q) - 1)
    BY <1>1, <1>4
  <2> QED BY <1>2, <1>3, <1>4, <2>1
<1>5. CASE ~(j < i)
  <2>1. j - 1 \in 1..(Len(q) - 1) /\ ~(j - 1 < i) /\ (j - 1) + 1 = j
    BY <1>1, <1>5
  <2> QED BY <1>2, <1>3, <2>1
<1> QED BY <1>4, <1>5

\* What was delivered ends where the segment that was consumed ends.
LEMMA ConsumedUpTo ==
  ASSUME NEW n \in Nat, RcvInv(n), RcvInv(n)',
         NEW s, OfStream(s, n), Consumable(s), Consume(s)
  PROVE  Len(rcvd') + 1 = s.seq + s.len
<1>1. rcvNxt' = SegEnd(s)
  BY TrimmedOfStream DEF Consume, RcvInv
<1>2. rcvClosed' = (s.flags = "fin")
  BY DEF Consume
<1>3. rcvNxt' = Len(rcvd') + 1 + (IF rcvClosed' THEN 1 ELSE 0)
  BY DEF RcvInv, AckMatchesData
<1>4. s.seq \in Int /\ s.len \in Nat
  BY DEF OfStream, Segment
<1>5. Len(rcvd') \in Nat
  BY DEF RcvInv, RcvTypeOK
<1>6. SegEnd(s) = s.seq + (s.len + (IF s.flags = "fin" THEN 1 ELSE 0))
  BY DEF SegEnd, LogicalLen
<1>7. PICK d \in Nat, f \in Int : d = Len(rcvd') /\ f = IF s.flags = "fin" THEN 1 ELSE 0
  BY <1>5
<1>8. SegEnd(s) = d + 1 + f
  BY <1>1, <1>2, <1>3, <1>7, Zenon
<1>9. SegEnd(s) = s.seq + (s.len + f)
  BY <1>6, <1>7, Zenon
<1>10. d + 1 = s.seq + s.len
  BY <1>4, <1>7, <1>8, <1>9
<1> QED BY <1>7, <1>10

\* A segment is consumed: what the heap loses is delivered, and the blocks are
\* trimmed to what is not.
LEMMA SackTrim ==
  ASSUME RcvInv(StreamLen), RcvInv(StreamLen)', SackInv, Trims,
         \A k \in Held : k > Len(rcvd') => k \in Held'
  PROVE  SackInv'
<1> DEFINE nxt == Len(rcvd') + 1
<1>1. /\ blocks \in Seq(Block) /\ Len(blocks) <= MaxSACKBlocks /\ Apart(blocks)
      /\ \A i \in DOMAIN blocks : Span(blocks[i]) \subseteq Held \cup refused
      /\ refused \subseteq 1..StreamLen /\ MaxSACKBlocks \in Nat \ {0}
  BY SackIsApart, SackIsCovered DEF SackInv, SackIsSound
<1>2. Len(rcvd') \in Nat /\ nxt \in Nat
  BY DEF RcvInv, RcvTypeOK
<1>3. /\ blocks' = TrimSACKBlockList(blocks, nxt)
      /\ refused' = {k \in refused : k > Len(rcvd')}
      /\ MaxSACKBlocks' = MaxSACKBlocks
  BY DEF Trims
<1>4. PICK q : q = blocks'
  OBVIOUS
<1>5. PICK m \in Nat : m = Len(rcvd') /\ nxt = m + 1
  BY <1>2
<1>6. /\ q \in Seq(Block) /\ Len(q) <= Len(blocks) /\ Apart(q)
      /\ \A k \in DOMAIN q :
           /\ q[k][1] >= m + 1
           /\ \E i \in DOMAIN blocks :
                \A x \in Span(q[k]) : x \in Span(blocks[i]) /\ x >= m + 1
  <2> HIDE DEF nxt
  <2> QED BY <1>1, <1>2, <1>3, <1>4, <1>5, TrimKeeps
<1>7. Len(q) <= MaxSACKBlocks
  <2>1. Len(q) \in Nat /\ Len(blocks) \in Nat
    BY <1>1, <1>6
  <2> QED BY <1>1, <1>6, <2>1
<1>8. ASSUME NEW k \in DOMAIN q, NEW x \in Span(q[k]) PROVE x \in Held' \cup refused'
  <2>1. PICK i \in DOMAIN blocks : x \in Span(blocks[i]) /\ x >= m + 1
    BY <1>6
  <2>2. x \in Int
    <3>1. blocks[i] \in Block
      BY <1>1, ElementOfSeq
    <3> QED BY <2>1, <3>1 DEF Span, Block
  <2>3. x > m
    BY <2>1, <2>2
  <2>4. x \in Held \/ x \in refused
    BY <1>1, <2>1
  <2> QED BY <1>3, <1>5, <2>3, <2>4
<1>9. ASSUME NEW k \in DOMAIN q PROVE q[k][1] > m
  <2>1. q[k] \in Block
    BY <1>6, ElementOfSeq
  <2>2. q[k][1] \in Nat /\ q[k][1] >= m + 1
    BY <1>6, <2>1 DEF Block
  <2> QED BY <2>2
<1>10. BlocksApart'
  BY <1>3, <1>4, <1>6, <1>7 DEF BlocksApart, Apart
<1>11. SackIsHonest'
  BY <1>4, <1>8 DEF SackIsHonest, Span
<1>12. refused' \subseteq 1..StreamLen
  BY <1>1, <1>3
<1> QED BY <1>1, <1>3, <1>4, <1>5, <1>6, <1>9, <1>10, <1>11, <1>12 DEF SackInv, SackIsSound

\* A segment that is next in the stream; a FIN empties the heap, but then the
\* whole stream is delivered.
LEMMA SackInOrderKeeps ==
  ASSUME RcvInv(StreamLen), RcvInv(StreamLen)', SackInv,
         NEW m, SackInOrder(m)
  PROVE  SackInv'
<1>1. /\ Trims /\ pending' = IF rcvClosed' THEN <<>> ELSE pending
  BY DEF SackInOrder, HandleInOrder
<1>2. ASSUME NEW k \in Held, k > Len(rcvd') PROVE k \in Held'
  <2>1. k \in 1..StreamLen
    BY HeldInStream, StreamAssumption
  <2>2. ~rcvClosed'
    <3>1. rcvClosed' => Len(rcvd') = StreamLen
      BY DEF RcvInv, Within
    <3> QED BY <1>2, <2>1, <3>1, StreamAssumption
  <2> QED BY <1>1, <2>2 DEF Held
<1> QED BY <1>1, <1>2, SackTrim

\* A segment of the heap.
LEMMA SackDrainConsumeKeeps ==
  ASSUME RcvInv(StreamLen), RcvInv(StreamLen)', SackInv, SackDrainConsume
  PROVE  SackInv'
<1>1. Trims
  BY DEF SackDrainConsume
<1>2. PICK i \in DOMAIN pending :
        /\ Consumable(pending[i]) /\ Consume(pending[i])
        /\ pending' = IF rcvClosed' THEN <<>> ELSE Without(pending, i)
  BY DEF SackDrainConsume, DrainConsume
<1>3. OfStream(pending[i], StreamLen) /\ pending \in Seq(Segment)
  BY DEF RcvInv, PendingOfStream, RcvTypeOK
<1>4. Len(rcvd') + 1 = pending[i].seq + pending[i].len
  BY <1>2, <1>3, ConsumedUpTo, StreamAssumption
<1>5. ASSUME NEW k \in Held, k > Len(rcvd') PROVE k \in Held'
  <2>1. k \in 1..StreamLen
    BY HeldInStream, StreamAssumption
  <2>2. ~rcvClosed'
    <3>1. rcvClosed' => Len(rcvd') = StreamLen
      BY DEF RcvInv, Within
    <3> QED BY <1>5, <2>1, <3>1, StreamAssumption
  <2>3. PICK j \in DOMAIN pending :
          k \in pending[j].seq..(pending[j].seq + pending[j].len - 1)
    BY HeldIs
  <2>4. j # i
    <3> SUFFICES ASSUME j = i PROVE FALSE
      OBVIOUS
    <3>1. Len(rcvd') \in Nat
      BY DEF RcvInv, RcvTypeOK
    <3>2. k <= pending[i].seq + pending[i].len - 1
      BY <2>1, <2>3
    <3>3. PICK d \in Nat : d = Len(rcvd')
      BY <3>1
    <3>4. pending[i].seq \in Int /\ pending[i].len \in Nat
      BY <1>3 DEF OfStream, Segment
    <3>5. k > d /\ d + 1 = pending[i].seq + pending[i].len
      BY <1>4, <1>5, <3>3
    <3> QED BY <2>1, <3>2, <3>4, <3>5
  <2>5. PICK l \in DOMAIN Without(pending, i) : Without(pending, i)[l] = pending[j]
    BY <1>3, <2>4, WithoutKeeps
  <2>6. l \in DOMAIN pending' /\ pending'[l] = pending[j]
    BY <1>2, <2>2, <2>5
  <2> QED BY <2>3, <2>6 DEF Held
<1> QED BY <1>1, <1>5, SackTrim

\* A segment beyond a gap: its bytes are in the heap from now on, or refused.
LEMMA SackOutOfOrderKeeps ==
  ASSUME RcvInv(StreamLen), SackInv,
         NEW m, OfStream(m, StreamLen), SackOutOfOrder(m)
  PROVE  SackInv'
<1> DEFINE new == <<m.seq, m.seq + m.len>>
<1>1. /\ blocks \in Seq(Block) /\ Len(blocks) <= MaxSACKBlocks /\ Apart(blocks)
      /\ \A i \in DOMAIN blocks : Span(blocks[i]) \subseteq Held \cup refused
      /\ refused \subseteq 1..StreamLen /\ MaxSACKBlocks \in Nat \ {0}
  BY SackIsApart, SackIsCovered DEF SackInv, SackIsSound
<1>2. /\ pending' = pending \/ pending' = Append(pending, m)
      /\ rcvPc' = "batch" /\ rcvd' = rcvd /\ MaxSACKBlocks' = MaxSACKBlocks
  BY DEF SackOutOfOrder, HandleOutOfOrder, readVars
<1>3. m.seq \in Nat /\ m.len \in Nat /\ 1 <= m.seq /\ m.seq + m.len <= StreamLen + 1
  BY DEF OfStream, Segment
<1>4. pending \in Seq(Segment) /\ m \in Segment
  BY DEF RcvInv, RcvTypeOK, OfStream
<1>5. Held \subseteq Held'
  <2>1. CASE pending' = pending
    BY <2>1 DEF Held
  <2>2. CASE pending' = Append(pending, m)
    <3>1. /\ DOMAIN pending' = 1..(Len(pending) + 1)
          /\ \A i \in 1..Len(pending) : pending'[i] = pending[i]
      BY <1>4, <2>2, AppendSeq
    <3>2. ASSUME NEW i \in DOMAIN pending
          PROVE  i \in DOMAIN pending' /\ pending'[i] = pending[i]
      BY <1>4, <3>1
    <3> QED BY <3>2 DEF Held
  <2> QED BY <1>2, <2>1, <2>2
<1>6. CASE m.len > 0 \/ m.flags = "fin"
  <2>1. /\ blocks' = UpdateSACKBlocks(blocks, new, rcvNxt)
        /\ refused' = IF pending' = pending
                      THEN refused \cup (m.seq..(m.seq + m.len - 1)) ELSE refused
    BY <1>6 DEF SackOutOfOrder
  <2>2. Span(new) = m.seq..(m.seq + m.len - 1)
    <3>1. new[1] = m.seq /\ new[2] = m.seq + m.len
      OBVIOUS
    <3> HIDE DEF new
    <3> QED BY <1>3, <3>1 DEF Span
  <2>3. new \in Block
    BY <1>3 DEF Block
  <2>4. Span(new) \subseteq Held' \cup refused'
    <3>1. CASE pending' = pending
      BY <2>1, <2>2, <3>1
    <3>2. CASE pending' # pending
      <4>1. pending' = Append(pending, m)
        BY <1>2, <3>2
      <4>2. /\ Len(pending) + 1 \in DOMAIN pending'
            /\ pending'[Len(pending) + 1] = m
        <5>1. Len(pending) \in Nat
          BY <1>4
        <5> QED BY <1>4, <4>1, <5>1, AppendSeq
      <4> QED BY <2>2, <4>2 DEF Held
    <3> QED BY <3>1, <3>2
  <2>5. PICK X : X = Held' \cup refused'
    OBVIOUS
  <2>6. \A i \in DOMAIN blocks : Span(blocks[i]) \subseteq X
    <3>1. refused \subseteq refused'
      BY <2>1
    <3> QED BY <1>1, <1>5, <2>5, <3>1
  <2>7. PICK q : q = blocks'
    OBVIOUS
  <2>8. /\ q \in Seq(Block) /\ Len(q) <= MaxSACKBlocks /\ Apart(q)
        /\ \A i \in DOMAIN q : Span(q[i]) \subseteq X
    <3> HIDE DEF new
    <3> QED BY <1>1, <2>1, <2>3, <2>4, <2>5, <2>6, <2>7, UpdateKeeps
  <2>9. refused' \subseteq 1..StreamLen
    <3>1. m.seq..(m.seq + m.len - 1) \subseteq 1..StreamLen
      BY <1>3, StreamAssumption
    <3> QED BY <1>1, <2>1, <3>1
  <2>10. BlocksApart'
    BY <1>2, <2>7, <2>8 DEF BlocksApart, Apart
  <2>11. SackIsHonest'
    BY <2>5, <2>7, <2>8 DEF SackIsHonest, Span
  <2> QED BY <1>1, <1>2, <2>7, <2>8, <2>9, <2>10, <2>11 DEF SackInv, SackIsSound
<1>7. CASE ~(m.len > 0 \/ m.flags = "fin")
  <2>1. blocks' = blocks /\ refused' = refused
    BY <1>7 DEF SackOutOfOrder
  <2>2. BlocksApart'
    BY <1>2, <2>1 DEF BlocksApart, SackInv, SackIsSound
  <2>3. SackIsHonest'
    <3>1. \A i \in DOMAIN blocks : Span(blocks[i]) \subseteq Held' \cup refused'
      BY <1>1, <1>5, <2>1
    <3> QED BY <2>1, <3>1 DEF SackIsHonest, Span
  <2> QED BY <1>1, <1>2, <2>1, <2>2, <2>3 DEF SackInv, SackIsSound
<1> QED BY <1>6, <1>7

\* What leaves the heap without being consumed was passed before.
LEMMA SackSkipKeeps ==
  ASSUME RcvInv(StreamLen), SackInv, DrainSkip, UNCHANGED sackVars
  PROVE  SackInv'
<1>1. PICK i \in DOMAIN pending :
        Skipped(pending[i]) /\ pending' = Without(pending, i)
  BY DEF DrainSkip
<1>2. /\ rcvPc = "drain" /\ ~rcvClosed /\ rcvPc' = rcvPc /\ rcvd' = rcvd
      /\ blocks' = blocks /\ refused' = refused /\ MaxSACKBlocks' = MaxSACKBlocks
  BY DEF DrainSkip, loopVars, readVars, sackVars
<1>3. OfStream(pending[i], StreamLen) /\ pending \in Seq(Segment)
  BY DEF RcvInv, PendingOfStream, RcvTypeOK
<1>4. rcvNxt = Len(rcvd) + 1 /\ Len(rcvd) \in Nat
  BY <1>2 DEF RcvInv, AckMatchesData, RcvTypeOK
<1>5. ASSUME NEW k \in Held, k > Len(rcvd) PROVE k \in Held'
  <2>1. k \in 1..StreamLen
    BY HeldInStream, StreamAssumption
  <2>2. PICK j \in DOMAIN pending :
          k \in pending[j].seq..(pending[j].seq + pending[j].len - 1)
    BY HeldIs
  <2>3. j # i
    <3> SUFFICES ASSUME j = i PROVE FALSE
      OBVIOUS
    <3>1. k <= pending[i].seq + pending[i].len - 1
      BY <2>1, <2>2
    <3>2. pending[i].seq + pending[i].len - 1 < rcvNxt
      BY <1>1 DEF Skipped
    <3>3. pending[i].seq \in Int /\ pending[i].len \in Nat
      BY <1>3 DEF OfStream, Segment
    <3> QED BY <1>4, <1>5, <2>1, <3>1, <3>2, <3>3
  <2>4. PICK l \in DOMAIN Without(pending, i) : Without(pending, i)[l] = pending[j]
    BY <1>3, <2>3, WithoutKeeps
  <2>5. l \in DOMAIN pending' /\ pending'[l] = pending[j]
    BY <1>1, <2>4
  <2> QED BY <2>2, <2>5 DEF Held
<1>6. ASSUME NEW j \in DOMAIN blocks, NEW k \in Span(blocks[j])
      PROVE  k \in Held' \cup refused
  <2>1. blocks[j] \in Block /\ blocks[j][1] > Len(rcvd)
    BY <1>2, ElementOfSeq DEF SackInv
  <2>2. k > Len(rcvd)
    BY <1>4, <2>1 DEF Span, Block
  <2>3. k \in Held \/ k \in refused
    BY SackIsCovered DEF SackInv, SackIsSound
  <2> QED BY <1>5, <2>2, <2>3
<1>7. SackIsHonest'
  BY <1>2, <1>6 DEF SackIsHonest, Span
<1>8. BlocksApart'
  BY <1>2 DEF BlocksApart, SackInv, SackIsSound
<1> QED BY <1>2, <1>7, <1>8 DEF SackInv, SackIsSound

\* Nothing that the blocks speak of changes, and no draining begins.
LEMMA SackSame ==
  ASSUME SackInv, UNCHANGED sackVars, pending' = pending,
         rcvPc' = "drain" => rcvPc = "drain" /\ rcvd' = rcvd
  PROVE  SackInv'
<1>1. blocks' = blocks /\ refused' = refused /\ MaxSACKBlocks' = MaxSACKBlocks
  BY DEF sackVars
<1>2. SackIsSound'
  BY <1>1 DEF SackInv, SackIsSound, BlocksApart, SackIsHonest, Held
<1> QED BY <1>1, <1>2 DEF SackInv

\* Every step keeps the invariant.
LEMMA SackNextKeeps ==
  RcvInv(StreamLen) /\ RcvInv(StreamLen)' /\ SackInv /\ [SackNext]_<<rcvVars, sackVars>>
    => SackInv'
<1> SUFFICES ASSUME RcvInv(StreamLen), RcvInv(StreamLen)', SackInv,
                    [SackNext]_<<rcvVars, sackVars>>
             PROVE  SackInv'
  OBVIOUS
<1>1. ASSUME NEW m, m.flags = "rst" \/ OfStream(m, StreamLen), SackHandleSegment(m)
      PROVE  SackInv'
  <2>1. CASE SackInOrder(m)
    BY <2>1, SackInOrderKeeps
  <2>2. CASE SackOutOfOrder(m)
    <3>1. m.flags # "rst"
      BY <2>2 DEF SackOutOfOrder, HandleOutOfOrder
    <3> QED BY <1>1, <2>2, <3>1, SackOutOfOrderKeeps
  <2>3. CASE SackOther(m)
    <3>1. UNCHANGED sackVars /\ pending' = pending /\ rcvPc' \in {"batch", "dead"}
      BY <2>3 DEF SackOther, HandleIgnored, HandleReset, HandleUnacceptable, segVars
    <3> QED BY <3>1, SackSame
  <2> QED BY <1>1, <2>1, <2>2, <2>3 DEF SackHandleSegment
<1>2. CASE \E m \in DataSegments : SackHandleSegment(m)
  BY <1>1, <1>2, PeerSendsStream
<1>3. CASE \E m \in ResetSegments : SackHandleSegment(m)
  BY <1>1, <1>3 DEF ResetSegments
<1>4. CASE SackDrainConsume
  BY <1>4, SackDrainConsumeKeeps
<1>5. CASE SackElse
  <2>1. CASE DrainSkip
    BY <1>5, <2>1, SackSkipKeeps DEF SackElse
  <2>2. CASE DrainStop \/ EndBatch \/ NonZeroWindow \/ Read
    <3>1. /\ UNCHANGED sackVars /\ pending' = pending
          /\ rcvPc' = "drain" => rcvPc = "drain" /\ rcvd' = rcvd
      BY <1>5, <2>2 DEF SackElse, DrainStop, EndBatch, NonZeroWindow, Read,
                        segVars, loopVars, readVars
    <3> QED BY <3>1, SackSame
  <2> QED BY <1>5, <2>1, <2>2 DEF SackElse
<1>6. CASE UNCHANGED <<rcvVars, sackVars>>
  <2>1. UNCHANGED sackVars /\ pending' = pending /\ rcvPc' = rcvPc /\ rcvd' = rcvd
    BY <1>6 DEF rcvVars, segVars, loopVars, readVars
  <2> QED BY <2>1, SackSame
<1> QED BY <1>2, <1>3, <1>4, <1>5, <1>6 DEF SackNext

\* With its blocks the receiver takes the steps that it takes without.
LEMMA SackRefines == SackSpec => AnyStreamSpec
<1>1. SackInit => RcvInit
  BY DEF SackInit
<1>2. [SackNext]_<<rcvVars, sackVars>> => [AnyStreamNext]_rcvVars
  <2>1. ASSUME NEW m, SackHandleSegment(m) PROVE RcvHandleSegment(m)
    BY <2>1 DEF SackHandleSegment, SackInOrder, SackOutOfOrder, SackOther, RcvHandleSegment
  <2>2. SackDrainConsume \/ SackElse => ReceiverWork \/ Read
    BY DEF SackDrainConsume, SackElse, ReceiverWork
  <2>3. SackNext => AnyStreamNext
    BY <2>1, <2>2 DEF SackNext, AnyStreamNext, PeerSends, PeerResets
  <2> QED BY <2>3
<1> QED BY <1>1, <1>2, PTL DEF SackSpec, AnyStreamSpec

\* A fresh receiver has no blocks.
LEMMA SackInvInit == SackInit => SackInv
<1> SUFFICES ASSUME SackInit PROVE SackInv
  OBVIOUS
<1>1. blocks = <<>> /\ refused = {} /\ rcvPc = "idle" /\ MaxSACKBlocks \in Nat \ {0}
  BY SackAssumption DEF SackInit, RcvInit
<1>2. blocks \in Seq(Block) /\ Len(blocks) = 0 /\ DOMAIN blocks = {}
  BY <1>1, EmptySeq
<1> QED BY <1>1, <1>2 DEF SackInv, SackIsSound, BlocksApart, SackIsHonest

\* The blocks that are reported are apart, and claim nothing that is consumed
\* and nothing that did not arrive, in whatever order the segments come and
\* gaps close (sack.go).
THEOREM ReceiverSackIsSound == SackSpec => []SackIsSound
<1>1. AnyStreamInv => RcvInv(StreamLen)
  BY DEF AnyStreamInv
<1>2. SackInv => SackIsSound
  BY DEF SackInv
<1> QED BY <1>1, <1>2, SackInvInit, SackNextKeeps, SackRefines, AnyStreamInvariant, PTL
        DEF SackSpec

=============================================================================
