---------------------------- MODULE Network_proofs ----------------------------
(***************************************************************************)
(* The network layer, for any number of addresses, endpoints, datagrams    *)
(* and goroutines.                                                         *)
(*                                                                         *)
(* Addresses.  References to network endpoints are sound, and an address   *)
(* that was added is served, as long as only who has added an address      *)
(* removes it (OwnerOnly).  The count of an endpoint is a sum over sets of *)
(* goroutines, so that StepCount and UsesCount say how the cardinality of  *)
(* such a set changes when one goroutine moves.  Then there is a lemma for *)
(* each kind of step: one changes a count (CountStep), hands the reference *)
(* of the insertion over (HandsOver), inserts an endpoint (InsertKeeps),   *)
(* removes one (RemoveKeeps), or changes nothing but a goroutine           *)
(* (Wanders).                                                              *)
(*                                                                         *)
(* Fragments.  A datagram that is delivered is the one that was sent, each *)
(* reassembler is released once, and the memory they hold is bounded.  The *)
(* size of a reassembler is summed over a finite set and reassemble is a   *)
(* fold over one.  What such an operator gives is shown by induction over  *)
(* the subsets of the set (FiniteFolds): how a sum changes (SumStep,       *)
(* SumOfPart), what a heap without gaps gives (ReassembledDense).  Of each *)
(* step it is shown what it does to the books (BooksStep: map, list, marks *)
(* and the account of the memory) and to the data (DataStep: holes, heaps  *)
(* and results).                                                           *)
(*                                                                         *)
(* The link address cache: no change of state panics, whoever waits is     *)
(* told or waits for an entry that a goroutine resolves, and what the      *)
(* cache answers is what was said last.  The invariant ties three things   *)
(* together.  An entry that is "incomplete" with an address is the one the *)
(* map has for that address, and a goroutine holds its open channel        *)
(* (LiveInv).  A goroutine's open channel is that of such an entry, still  *)
(* for the address it works on (ResolverInv): this is what makes it safe   *)
(* to fail an entry found by address, although entries are used again for  *)
(* other addresses.  A client's open channel is that of such an entry too, *)
(* already before it removes its waker (ClientInv).                        *)
(***************************************************************************)
EXTENDS NicAddress, Fragmentation, LinkAddrCache, FiniteFolds, FiniteSetTheorems, TLAPS

-----------------------------------------------------------------------------
(* The invariant. *)

Record == [addr : Locals \cup {None}, refs : Nat, holdsInsertRef : BOOLEAN,
           open : BOOLEAN]

\* What is known of a goroutine's record in each of its steps.
ThreadOK(r) ==
  /\ r.pc \in {"holding", "dropping", "zero", "made", "forwarding"} => r.obj \in Objects
  /\ r.pc \in {"receiving", "finding"} => r.addr \in Locals

NicTypeOK ==
  /\ ref \in [Objects -> Record]
  /\ map \in [Locals -> Objects \cup {None}]
  /\ primary \in Seq(Objects)
  /\ echo \in [Objects -> Nat]
  /\ replier \in [Objects -> {"wait", "reply", "zero"}]
  /\ DOMAIN thread = Threads /\ \A t \in Threads : ThreadOK(thread[t])
  /\ owned \subseteq Locals

\* The map, the list and the endpoints that are open tell the same.
MapInv ==
  /\ \A o \in Objects : ref[o].open => ref[o].addr \in Locals /\ map[ref[o].addr] = o
  /\ \A a \in Locals : map[a] # None => ref[map[a]].open /\ ref[map[a]].addr = a
ListInv ==
  /\ \A o \in Objects : ref[o].open <=> o \in ToSet(primary)
  /\ \A i, j \in DOMAIN primary : primary[i] = primary[j] => i = j
  /\ IsFiniteSet(ToSet(primary)) /\ Len(primary) = Cardinality(ToSet(primary))

\* Somebody is about to remove o.
Doomed(o) == replier[o] = "zero" \/ At(o, "zero") # {}

\* An endpoint with references is open; one without is closed, or is about to
\* be removed.
LifeInv ==
  \A o \in Objects :
    /\ ref[o].refs > 0 => ref[o].open
    /\ Doomed(o) => ref[o].refs = 0
    /\ ref[o].open /\ ref[o].refs = 0 => Doomed(o)

\* An endpoint that getRef has made, and for which the reference of the
\* insertion is not taken back yet, is its maker's only.
MadeInv ==
  /\ \A t \in Threads : thread[t].pc = "made" =>
       ref[thread[t].obj].holdsInsertRef /\ ref[thread[t].obj].addr \notin owned
  /\ \A t, u \in Threads :
       thread[t].pc = "made" /\ thread[u].pc = "made" /\ thread[t].obj = thread[u].obj
         => t = u

\* The count of an endpoint, with the references of the goroutines in one.
Uses(o) == Cardinality(Holding(o)) + Cardinality(At(o, "dropping"))
Others(o) == (IF replier[o] = "reply" THEN 1 ELSE 0)
           + (IF ref[o].holdsInsertRef THEN 1 ELSE 0)
RefsInv == \A o \in Objects : ref[o].refs = Uses(o) + echo[o] + Others(o)

\* The inductive invariant.
NicInv ==
  /\ NicTypeOK /\ RefsInv /\ MapInv /\ ListInv /\ LifeInv /\ MadeInv
  /\ OwnedIsServed /\ NicNoPanic

-----------------------------------------------------------------------------
(* The list: entries leave it and enter it. *)

OnceEach(s) == \A i, j \in DOMAIN s : s[i] = s[j] => i = j

\* What is left of a list without its entry k (RemoveAt, for the remove of
\* ilist.List).
LEMMA EntryLeaves ==
  ASSUME NEW S, NEW s \in Seq(S), NEW k \in DOMAIN s
  PROVE  /\ RemoveAt(s, k) \in Seq(S)
         /\ Len(RemoveAt(s, k)) = Len(s) - 1
         /\ \A i \in 1..(Len(s) - 1) :
              RemoveAt(s, k)[i] = IF i < k THEN s[i] ELSE s[i + 1]
<1> DEFINE front == SubSeq(s, 1, k - 1)
           back  == SubSeq(s, k + 1, Len(s))
<1>1. k \in 1..Len(s) /\ Len(s) \in Nat
  OBVIOUS
<1>2. front \in Seq(S) /\ Len(front) = k - 1
  <2>1. \A i \in 1..(k - 1) : s[i] \in S
    BY <1>1
  <2> QED BY <1>1, <2>1
<1>3. back \in Seq(S) /\ Len(back) = Len(s) - k
  <2>1. \A i \in (k + 1)..Len(s) : s[i] \in S
    BY <1>1
  <2> QED BY <1>1, <2>1
<1>4. \A i \in 1..(k - 1) : front[i] = s[i]
  BY <1>1
<1>5. \A i \in 1..(Len(s) - k) : back[i] = s[i + k]
  BY <1>1
<1>6. RemoveAt(s, k) = front \o back
  BY DEF RemoveAt
<1> HIDE DEF front, back
<1>7. front \o back \in Seq(S) /\ Len(front \o back) = Len(s) - 1
  BY <1>1, <1>2, <1>3
<1>8. ASSUME NEW i \in 1..(Len(s) - 1)
      PROVE  (front \o back)[i] = IF i < k THEN s[i] ELSE s[i + 1]
  <2>1. CASE i < k
    <3>1. (front \o back)[i] = front[i]
      BY <1>1, <1>2, <1>3, <2>1
    <3> QED BY <1>1, <1>4, <2>1, <3>1
  <2>2. CASE ~(i < k)
    <3>1. (front \o back)[i] = back[i - (k - 1)]
      BY <1>1, <1>2, <1>3, <2>2
    <3>2. i - (k - 1) \in 1..(Len(s) - k) /\ i - (k - 1) + k = i + 1
      BY <1>1, <2>2
    <3>3. back[i - (k - 1)] = s[i + 1]
      BY <1>5, <3>2
    <3> QED BY <2>2, <3>1, <3>3
  <2> QED BY <2>1, <2>2
<1> QED BY <1>6, <1>7, <1>8

\* Without its k-th entry a list has the others, once.
LEMMA EntryRemoved ==
  ASSUME NEW S, NEW s \in Seq(S), OnceEach(s), NEW k \in DOMAIN s
  PROVE  /\ RemoveAt(s, k) \in Seq(S) /\ OnceEach(RemoveAt(s, k))
         /\ ToSet(RemoveAt(s, k)) = ToSet(s) \ {s[k]}
         /\ Len(RemoveAt(s, k)) = Len(s) - 1
<1> DEFINE w == RemoveAt(s, k)
           of(i) == IF i < k THEN i ELSE i + 1
<1>1. /\ w \in Seq(S) /\ Len(w) = Len(s) - 1
      /\ \A i \in 1..(Len(s) - 1) : w[i] = IF i < k THEN s[i] ELSE s[i + 1]
  BY EntryLeaves, Zenon
<1> HIDE DEF w
<1>2. DOMAIN w = 1..(Len(s) - 1) /\ DOMAIN s = 1..Len(s) /\ Len(s) \in Nat /\ k \in 1..Len(s)
  BY <1>1
<1>3. \A i \in DOMAIN w : of(i) \in DOMAIN s /\ of(i) # k /\ w[i] = s[of(i)]
  <2> SUFFICES ASSUME NEW i \in DOMAIN w
               PROVE  of(i) \in DOMAIN s /\ of(i) # k /\ w[i] = s[of(i)]
    OBVIOUS
  <2>1. of(i) \in DOMAIN s /\ of(i) # k
    BY <1>2
  <2>2. w[i] = IF i < k THEN s[i] ELSE s[i + 1]
    BY <1>1, <1>2
  <2> QED BY <2>1, <2>2
<1>4. \A i, j \in DOMAIN w : of(i) = of(j) => i = j
  BY <1>2
<1>5. \A m \in DOMAIN s : m # k => \E i \in DOMAIN w : of(i) = m
  <2> SUFFICES ASSUME NEW m \in DOMAIN s, m # k PROVE \E i \in DOMAIN w : of(i) = m
    OBVIOUS
  <2>1. CASE m < k
    <3>1. m \in DOMAIN w /\ of(m) = m
      BY <1>2, <2>1
    <3> QED BY <3>1
  <2>2. CASE ~(m < k)
    <3>1. m - 1 \in DOMAIN w /\ of(m - 1) = m
      BY <1>2, <2>2
    <3> QED BY <3>1
  <2> QED BY <2>1, <2>2
<1> HIDE DEF of
<1>6. OnceEach(w)
  BY <1>3, <1>4 DEF OnceEach
<1>7. ToSet(w) = ToSet(s) \ {s[k]}
  <2>1. ASSUME NEW x \in ToSet(w) PROVE x \in ToSet(s) \ {s[k]}
    <3>1. PICK i \in DOMAIN w : x = w[i]
      BY DEF ToSet
    <3>2. of(i) \in DOMAIN s /\ x = s[of(i)] /\ x # s[k]
      BY <1>3, <3>1 DEF OnceEach
    <3> QED BY <3>2 DEF ToSet
  <2>2. ASSUME NEW x \in ToSet(s), x # s[k] PROVE x \in ToSet(w)
    <3>1. PICK m \in DOMAIN s : x = s[m]
      BY DEF ToSet
    <3>2. PICK i \in DOMAIN w : of(i) = m
      BY <1>5, <2>2, <3>1
    <3> QED BY <1>3, <3>1, <3>2 DEF ToSet
  <2> QED BY <2>1, <2>2
<1> QED BY <1>1, <1>6, <1>7 DEF w

\* Removing an endpoint from a list without doubles: the others stay, once.
LEMMA ListWithout ==
  ASSUME NEW S, NEW s \in Seq(S), OnceEach(s), NEW o,
         NEW w, w = IF o \in ToSet(s)
                    THEN RemoveAt(s, CHOOSE i \in DOMAIN s : s[i] = o) ELSE s
  PROVE  /\ w \in Seq(S) /\ OnceEach(w) /\ ToSet(w) = ToSet(s) \ {o}
         /\ Len(w) = IF o \in ToSet(s) THEN Len(s) - 1 ELSE Len(s)
<1>1. CASE o \notin ToSet(s)
  BY <1>1
<1>2. CASE o \in ToSet(s)
  <2> DEFINE k == CHOOSE i \in DOMAIN s : s[i] = o
  <2>1. k \in DOMAIN s /\ s[k] = o
    BY <1>2, Zenon DEF ToSet
  <2> HIDE DEF k
  <2>2. w = RemoveAt(s, k)
    BY <1>2, Zenon DEF k
  <2> QED BY <1>2, <2>1, <2>2, EntryRemoved
<1> QED BY <1>1, <1>2

\* A new endpoint enters the list at an end.
LEMMA ListWith ==
  ASSUME NEW S, NEW w \in Seq(S), OnceEach(w), NEW o \in S, o \notin ToSet(w),
         NEW l, l = <<o>> \o w \/ l = Append(w, o)
  PROVE  /\ l \in Seq(S) /\ OnceEach(l) /\ ToSet(l) = ToSet(w) \cup {o}
         /\ Len(l) = Len(w) + 1
<1>0. DOMAIN w = 1..Len(w) /\ Len(w) \in Nat
  OBVIOUS
<1>n. \A i \in DOMAIN w : w[i] # o
  BY Zenon DEF ToSet
<1>1. CASE l = <<o>> \o w
  <2>1. /\ l \in Seq(S) /\ Len(l) = Len(w) + 1
        /\ DOMAIN l = 1..(Len(w) + 1) /\ l[1] = o
    BY <1>1
  <2>2. \A i \in DOMAIN w : l[i + 1] = w[i] /\ i + 1 \in DOMAIN l
    BY <1>1, <1>0
  <2>3. \A i \in DOMAIN l : i # 1 => i - 1 \in DOMAIN w /\ l[i] = w[i - 1]
    BY <1>1, <1>0, <2>1
  <2>4. OnceEach(l)
    <3> SUFFICES ASSUME NEW i \in DOMAIN l, NEW j \in DOMAIN l, l[i] = l[j]
                 PROVE  i = j
      BY DEF OnceEach
    <3>1. CASE i = 1 \/ j = 1
      BY <1>n, <2>1, <2>3, <3>1, Zenon
    <3>2. CASE i # 1 /\ j # 1
      <4>1. i - 1 = j - 1
        BY <2>3, <3>2, Zenon DEF OnceEach
      <4> QED BY <2>1, <4>1
    <3> QED BY <3>1, <3>2
  <2>5. ToSet(l) = ToSet(w) \cup {o}
    <3>1. ASSUME NEW x \in ToSet(l)
          PROVE  x \in ToSet(w) \cup {o}
      <4>1. PICK i \in DOMAIN l : x = l[i]
        BY <3>1, Zenon DEF ToSet
      <4>2. CASE i = 1
        BY <2>1, <4>1, <4>2
      <4>3. CASE i # 1
        <5>1. i - 1 \in DOMAIN w /\ x = w[i - 1]
          BY <2>3, <4>1, <4>3, Zenon
        <5>2. x \in ToSet(w)
          BY <5>1, Zenon DEF ToSet
        <5> QED BY <5>2
      <4> QED BY <4>2, <4>3
    <3>2. o \in ToSet(l)
      <4>1. 1 \in DOMAIN l /\ l[1] = o
        BY <2>1, <1>0
      <4> QED BY <4>1, Zenon DEF ToSet
    <3>3. ASSUME NEW x \in ToSet(w)
          PROVE  x \in ToSet(l)
      <4>1. PICK i \in DOMAIN w : x = w[i]
        BY <3>3, Zenon DEF ToSet
      <4>2. i + 1 \in DOMAIN l /\ x = l[i + 1]
        BY <2>2, <4>1, Zenon
      <4> QED BY <4>2, Zenon DEF ToSet
    <3> QED BY <3>1, <3>2, <3>3
  <2> QED BY <2>1, <2>4, <2>5
<1>2. CASE l = Append(w, o)
  <2>1. /\ l \in Seq(S) /\ Len(l) = Len(w) + 1
        /\ DOMAIN l = 1..(Len(w) + 1) /\ l[Len(w) + 1] = o
    BY <1>2
  <2>2. \A i \in DOMAIN w : l[i] = w[i] /\ i \in DOMAIN l
    BY <1>2, <1>0
  <2>3. \A i \in DOMAIN l : i # Len(w) + 1 => i \in DOMAIN w /\ l[i] = w[i]
    BY <1>2, <1>0, <2>1
  <2>4. OnceEach(l)
    BY <1>n, <2>1, <2>3, Zenon DEF OnceEach
  <2>5. ToSet(l) = ToSet(w) \cup {o}
    <3>1. \A x \in ToSet(l) : x \in ToSet(w) \cup {o}
      BY <2>1, <2>3, Zenon DEF ToSet
    <3>2. Len(w) + 1 \in DOMAIN l
      BY <2>1, <1>0
    <3>3. \A x \in ToSet(w) \cup {o} : x \in ToSet(l)
      BY <2>1, <2>2, <3>2, Zenon DEF ToSet
    <3> QED BY <3>1, <3>3
  <2> QED BY <2>1, <2>4, <2>5
<1> QED BY <1>1, <1>2

-----------------------------------------------------------------------------
(* The goroutines, and how many of them have a reference. *)

\* The steps in which a goroutine has a reference, and those in which the
\* invariants do not speak of it.
Relies(r, o) == r.obj = o /\ r.pc \in {"holding", "dropping"}
Bystander(r) == r.pc \in {"idle", "receiving", "finding", "forwarding"}

\* Goroutine t goes on to r, and no other moves.
Moved(t, r) == thread' = [thread EXCEPT ![t] = r]

\* The goroutine that moves has its new record, the others keep theirs.
LEMMA ThreadMoves ==
  ASSUME NEW t \in Threads, NEW r, DOMAIN thread = Threads, Moved(t, r)
  PROVE  /\ DOMAIN thread' = Threads /\ thread'[t] = r
         /\ \A u \in Threads : u # t => thread'[u] = thread[u]
  BY DEF Moved

\* A subset of the goroutines that gains or loses t at most.
LEMMA SetMoves ==
  ASSUME NEW t \in Threads, NEW A \in SUBSET Threads, NEW B \in SUBSET Threads,
         \A u \in Threads : u # t => (u \in A <=> u \in B)
  PROVE  /\ Cardinality(A) \in Nat /\ Cardinality(B) \in Nat
         /\ t \in A /\ t \notin B => Cardinality(B) = Cardinality(A) - 1
         /\ t \notin A /\ t \in B => Cardinality(B) = Cardinality(A) + 1
         /\ (t \in A <=> t \in B) => B = A
<1>1. IsFiniteSet(A) /\ IsFiniteSet(B)
  BY FS_Subset, NicAssumption, Zenon
<1>2. Cardinality(A) \in Nat /\ Cardinality(B) \in Nat
  BY <1>1, FS_CardinalityType, Zenon
<1>3. ASSUME t \in A, t \notin B
      PROVE  Cardinality(B) = Cardinality(A) - 1
  <2>1. B = A \ {t}
    BY <1>3
  <2> QED BY <1>1, <1>3, <2>1, FS_RemoveElement, Zenon
<1>4. ASSUME t \notin A, t \in B
      PROVE  Cardinality(B) = Cardinality(A) + 1
  <2>1. B = A \cup {t}
    BY <1>4
  <2> QED BY <1>1, <1>4, <2>1, FS_AddElement, Zenon
<1>5. ASSUME t \in A <=> t \in B
      PROVE  B = A
  BY <1>5
<1> QED BY <1>2, <1>3, <1>4, <1>5, Zenon

\* When t moves on, the goroutines in one step with o lose or gain t.
LEMMA StepCount ==
  ASSUME NEW t \in Threads, NEW r, NEW o, NEW pc, DOMAIN thread = Threads, Moved(t, r)
  PROVE  LET was == thread[t].obj = o /\ thread[t].pc = pc
             is  == r.obj = o /\ r.pc = pc
         IN  /\ Cardinality(At(o, pc)) \in Nat /\ Cardinality(At(o, pc)') \in Nat
             /\ was /\ ~is => Cardinality(At(o, pc)') = Cardinality(At(o, pc)) - 1
             /\ ~was /\ is => Cardinality(At(o, pc)') = Cardinality(At(o, pc)) + 1
             /\ (was <=> is) => At(o, pc)' = At(o, pc)
<1> DEFINE A == At(o, pc)
           B == {u \in Threads : thread'[u].obj = o /\ thread'[u].pc = pc}
<1>0. At(o, pc)' = B
  BY DEF At
<1>1. A \in SUBSET Threads /\ B \in SUBSET Threads
  BY DEF At
<1>2. thread'[t] = r /\ \A u \in Threads : u # t => thread'[u] = thread[u]
  BY ThreadMoves
<1>3. \A u \in Threads : u # t => (u \in A <=> u \in B)
  BY <1>2 DEF At
<1>4. /\ t \in A <=> thread[t].obj = o /\ thread[t].pc = pc
      /\ t \in B <=> r.obj = o /\ r.pc = pc
  BY <1>2 DEF At
<1> HIDE DEF A, B
<1>5. /\ Cardinality(A) \in Nat /\ Cardinality(B) \in Nat
      /\ t \in A /\ t \notin B => Cardinality(B) = Cardinality(A) - 1
      /\ t \notin A /\ t \in B => Cardinality(B) = Cardinality(A) + 1
      /\ (t \in A <=> t \in B) => B = A
  BY <1>1, <1>3, SetMoves, Zenon
<1> QED BY <1>0, <1>4, <1>5, Zenon DEF A

\* The references of the goroutines to o are one more, one less or the same.
LEMMA UsesCount ==
  ASSUME NEW t \in Threads, NEW r, NEW o, DOMAIN thread = Threads, Moved(t, r)
  PROVE  /\ Uses(o) \in Nat /\ Uses(o)' \in Nat
         /\ Relies(thread[t], o) /\ ~Relies(r, o) => Uses(o)' = Uses(o) - 1
         /\ ~Relies(thread[t], o) /\ Relies(r, o) => Uses(o)' = Uses(o) + 1
         /\ (Relies(thread[t], o) <=> Relies(r, o)) => Uses(o)' = Uses(o)
<1> DEFINE was(pc) == thread[t].obj = o /\ thread[t].pc = pc
           is(pc)  == r.obj = o /\ r.pc = pc
           n(pc)   == Cardinality(At(o, pc))
           m(pc)   == Cardinality(At(o, pc)')
<1>1. \A pc : /\ n(pc) \in Nat /\ m(pc) \in Nat
              /\ was(pc) /\ ~is(pc) => m(pc) = n(pc) - 1
              /\ ~was(pc) /\ is(pc) => m(pc) = n(pc) + 1
              /\ (was(pc) <=> is(pc)) => m(pc) = n(pc)
  <2> SUFFICES ASSUME NEW pc
               PROVE  /\ n(pc) \in Nat /\ m(pc) \in Nat
                      /\ was(pc) /\ ~is(pc) => m(pc) = n(pc) - 1
                      /\ ~was(pc) /\ is(pc) => m(pc) = n(pc) + 1
                      /\ (was(pc) <=> is(pc)) => m(pc) = n(pc)
    OBVIOUS
  <2> QED BY StepCount
<1>2. Uses(o) = n("holding") + n("dropping") /\ Uses(o)' = m("holding") + m("dropping")
  BY DEF Uses, Holding, At
<1>3. /\ Relies(thread[t], o) <=> was("holding") \/ was("dropping")
      /\ Relies(r, o) <=> is("holding") \/ is("dropping")
      /\ ~(was("holding") /\ was("dropping")) /\ ~(is("holding") /\ is("dropping"))
  BY DEF Relies
<1> HIDE DEF was, is, n, m
<1>4. /\ n("holding") \in Nat /\ m("holding") \in Nat
      /\ was("holding") /\ ~is("holding") => m("holding") = n("holding") - 1
      /\ ~was("holding") /\ is("holding") => m("holding") = n("holding") + 1
      /\ (was("holding") <=> is("holding")) => m("holding") = n("holding")
  BY <1>1, Zenon
<1>5. /\ n("dropping") \in Nat /\ m("dropping") \in Nat
      /\ was("dropping") /\ ~is("dropping") => m("dropping") = n("dropping") - 1
      /\ ~was("dropping") /\ is("dropping") => m("dropping") = n("dropping") + 1
      /\ (was("dropping") <=> is("dropping")) => m("dropping") = n("dropping")
  BY <1>1, Zenon
<1> QED BY <1>2, <1>3, <1>4, <1>5

\* When nobody moves, nothing changes.
LEMMA NobodyMoves ==
  ASSUME UNCHANGED thread
  PROVE  \A o, pc : At(o, pc)' = At(o, pc) /\ Uses(o)' = Uses(o)
  BY DEF At, Uses, Holding

\* The references of goroutines are counted, and there are some if somebody
\* has one.
LEMMA UsesIsNat ==
  ASSUME NEW o
  PROVE  Uses(o) \in Nat /\ (Holding(o) # {} => Uses(o) > 0)
                         /\ (At(o, "dropping") # {} => Uses(o) > 0)
<1>1. Holding(o) \in SUBSET Threads /\ At(o, "dropping") \in SUBSET Threads
  BY DEF Holding, At
<1>2. IsFiniteSet(Holding(o)) /\ IsFiniteSet(At(o, "dropping"))
  BY <1>1, FS_Subset, NicAssumption, Zenon
<1>3. Cardinality(Holding(o)) \in Nat /\ Cardinality(At(o, "dropping")) \in Nat
  BY <1>2, FS_CardinalityType, Zenon
<1>4. /\ Cardinality(Holding(o)) = 0 <=> Holding(o) = {}
      /\ Cardinality(At(o, "dropping")) = 0 <=> At(o, "dropping") = {}
  BY <1>2, FS_EmptySet, Zenon
<1> QED BY <1>3, <1>4 DEF Uses


-----------------------------------------------------------------------------
(* What the invariant says of one endpoint. *)

\* Who relies on an endpoint is in its count: it is not zero.
LEMMA RefsNeeded ==
  ASSUME NicInv, NEW o \in Objects
  PROVE  /\ ref[o].refs \in Nat /\ ref[o].holdsInsertRef \in BOOLEAN
         /\ ref[o].open \in BOOLEAN /\ Others(o) \in Nat
         /\ ref[o].refs = Uses(o) + echo[o] + Others(o)
         /\ ref[o].holdsInsertRef => ref[o].refs # 0
         /\ replier[o] = "reply" => ref[o].refs # 0
         /\ echo[o] # 0 => ref[o].refs # 0
         /\ \A t \in Threads : Relies(thread[t], o) => ref[o].refs # 0
<1>1. ref[o] \in Record /\ echo[o] \in Nat
  BY Zenon DEF NicInv, NicTypeOK
<1>2. ref[o].refs \in Nat /\ ref[o].holdsInsertRef \in BOOLEAN /\ ref[o].open \in BOOLEAN
  BY <1>1 DEF Record
<1>3. /\ Others(o) \in Nat
      /\ ref[o].holdsInsertRef => Others(o) > 0
      /\ replier[o] = "reply" => Others(o) > 0
  <2> DEFINE y == IF replier[o] = "reply" THEN 1 ELSE 0
             z == IF ref[o].holdsInsertRef THEN 1 ELSE 0
  <2>1. /\ y = 0 \/ y = 1
        /\ z = 0 \/ z = 1
        /\ replier[o] = "reply" => y = 1
        /\ ref[o].holdsInsertRef => z = 1
    BY Zenon
  <2>2. Others(o) = y + z
    BY DEF Others
  <2> HIDE DEF y, z
  <2>3. /\ Others(o) \in Nat
        /\ z = 1 => Others(o) > 0
        /\ y = 1 => Others(o) > 0
    BY <2>1, <2>2
  <2> QED BY <2>1, <2>3, Zenon
<1>4. Uses(o) \in Nat /\ (Holding(o) # {} => Uses(o) > 0)
                      /\ (At(o, "dropping") # {} => Uses(o) > 0)
  BY UsesIsNat, Zenon
<1>5. ref[o].refs = Uses(o) + echo[o] + Others(o)
  BY Zenon DEF NicInv, RefsInv
<1>6. ASSUME NEW t \in Threads, Relies(thread[t], o)
      PROVE  Uses(o) > 0
  BY <1>4, <1>6 DEF Relies, Holding, At
<1>7. /\ Others(o) > 0 => ref[o].refs # 0
      /\ echo[o] # 0 => ref[o].refs # 0
      /\ Uses(o) > 0 => ref[o].refs # 0
  BY <1>1, <1>2, <1>3, <1>4, <1>5
<1> QED BY <1>2, <1>3, <1>5, <1>6, <1>7, Zenon

\* Whether somebody is about to remove an endpoint does not change when the
\* goroutine that moves neither comes from nor goes to a removal.
LEMMA LeavingStays ==
  ASSUME NEW t \in Threads, NEW r, DOMAIN thread = Threads, Moved(t, r), NEW o,
         thread[t].pc # "zero", r.pc # "zero", replier'[o] = replier[o]
  PROVE  Doomed(o)' <=> Doomed(o)
<1>1. At(o, "zero")' = At(o, "zero")
  BY StepCount
<1> QED BY <1>1 DEF Doomed

-----------------------------------------------------------------------------
(* The parts of the invariant that a step leaves alone. *)

\* The map and the list stay, and no endpoint opens, closes or moves.
LEMMA SameEndpoints ==
  ASSUME MapInv, ListInv, UNCHANGED <<map, primary>>,
         \A o \in Objects : ref'[o].open = ref[o].open /\ ref'[o].addr = ref[o].addr,
         map \in [Locals -> Objects \cup {None}]
  PROVE  MapInv' /\ ListInv'
<1>1. MapInv'
  BY DEF MapInv
<1>2. ListInv'
  BY DEF ListInv
<1> QED BY <1>1, <1>2

\* Nobody newly waits to take a reference of an insertion back.
LEMMA SameMade ==
  ASSUME MadeInv, owned' \subseteq owned,
         \A u \in Threads : thread'[u].pc = "made" =>
            /\ thread'[u] = thread[u]
            /\ ref[thread[u].obj].holdsInsertRef => ref'[thread[u].obj].holdsInsertRef
            /\ ref'[thread[u].obj].addr = ref[thread[u].obj].addr
  PROVE  MadeInv'
<1>1. \A u \in Threads : thread'[u].pc = "made" =>
         ref'[thread'[u].obj].holdsInsertRef /\ ref'[thread'[u].obj].addr \notin owned'
  BY DEF MadeInv
<1>2. \A t, u \in Threads :
         thread'[t].pc = "made" /\ thread'[u].pc = "made" /\ thread'[t].obj = thread'[u].obj
           => t = u
  <2> SUFFICES ASSUME NEW t \in Threads, NEW u \in Threads, thread'[t].pc = "made",
                      thread'[u].pc = "made", thread'[t].obj = thread'[u].obj
               PROVE  t = u
    OBVIOUS
  <2>1. thread'[t] = thread[t] /\ thread'[u] = thread[u]
    BY Zenon
  <2>2. thread[t].pc = "made" /\ thread[u].pc = "made" /\ thread[t].obj = thread[u].obj
    BY <2>1
  <2> QED BY <2>2 DEF MadeInv
<1> QED BY <1>1, <1>2, Zenon DEF MadeInv

\* A goroutine's record is replaced by another that is in order.
LEMMA ThreadsStayOK ==
  ASSUME NicTypeOK, NEW t \in Threads, NEW r, ThreadOK(r), Moved(t, r)
  PROVE  DOMAIN thread' = Threads /\ \A u \in Threads : ThreadOK(thread'[u])
<1>1. DOMAIN thread = Threads /\ \A u \in Threads : ThreadOK(thread[u])
  BY Zenon DEF NicTypeOK
<1>2. /\ DOMAIN thread' = Threads /\ thread'[t] = r
      /\ \A u \in Threads : u # t => thread'[u] = thread[u]
  BY <1>1, ThreadMoves, Zenon
<1>3. ASSUME NEW u \in Threads
      PROVE  ThreadOK(thread'[u])
  BY <1>1, <1>2, Zenon
<1> QED BY <1>2, <1>3

\* A step that changes the count of one endpoint keeps the invariant, if the
\* count is still right and whoever takes it to zero is about to remove the
\* endpoint.
LEMMA CountStep ==
  ASSUME NicInv, NEW o \in Objects, NEW n \in Nat,
         ref' = [ref EXCEPT ![o].refs = n], UNCHANGED <<map, primary, owned>>,
         DOMAIN thread' = Threads, \A u \in Threads : ThreadOK(thread'[u]),
         \A u \in Threads : thread'[u].pc = "made" => thread'[u] = thread[u],
         echo' \in [Objects -> Nat], replier' \in [Objects -> {"wait", "reply", "zero"}],
         RefsInv', nicPanic' = FALSE,
         n # 0 => ref[o].open /\ ~Doomed(o)',
         n = 0 => Doomed(o)',
         \A x \in Objects : x # o => (Doomed(x)' <=> Doomed(x))
  PROVE  NicInv'
<1>0. ref \in [Objects -> Record] /\ ref[o] \in Record
  BY Zenon DEF NicInv, NicTypeOK
<1>1. /\ ref' \in [Objects -> Record] /\ ref'[o].refs = n
      /\ \A x \in Objects : x # o => ref'[x] = ref[x]
      /\ \A x \in Objects : /\ ref'[x].open = ref[x].open /\ ref'[x].addr = ref[x].addr
                            /\ ref'[x].holdsInsertRef = ref[x].holdsInsertRef
  BY <1>0 DEF Record
<1>2. NicTypeOK'
  BY <1>1 DEF NicInv, NicTypeOK
<1>3. MapInv' /\ ListInv'
  BY <1>1, SameEndpoints DEF NicInv, NicTypeOK
<1>4. LifeInv'
  <2> SUFFICES ASSUME NEW x \in Objects
               PROVE  /\ ref'[x].refs > 0 => ref'[x].open
                      /\ Doomed(x)' => ref'[x].refs = 0
                      /\ ref'[x].open /\ ref'[x].refs = 0 => Doomed(x)'
    BY DEF LifeInv
  <2>1. CASE x = o
    <3>1. (n > 0 => n # 0) /\ ref'[o].refs = n /\ ref'[o].open = ref[o].open
      BY <1>1
    <3>2. /\ ref'[o].refs > 0 => ref'[o].open
          /\ Doomed(o)' => ref'[o].refs = 0
          /\ ref'[o].open /\ ref'[o].refs = 0 => Doomed(o)'
      BY <3>1
    <3> QED BY <2>1, <3>2
  <2>2. CASE x # o
    <3>1. ref'[x] = ref[x] /\ (Doomed(x)' <=> Doomed(x))
      BY <1>1, <2>2, Zenon
    <3>2. /\ ref[x].refs > 0 => ref[x].open
          /\ Doomed(x) => ref[x].refs = 0
          /\ ref[x].open /\ ref[x].refs = 0 => Doomed(x)
      BY Zenon DEF NicInv, LifeInv
    <3> QED BY <3>1, <3>2, Zenon
  <2> QED BY <2>1, <2>2
<1>5. MadeInv'
  <2>1. MadeInv /\ owned' \subseteq owned
    BY DEF NicInv
  <2>2. ASSUME NEW u \in Threads, thread'[u].pc = "made"
        PROVE  /\ thread'[u] = thread[u]
               /\ ref[thread[u].obj].holdsInsertRef => ref'[thread[u].obj].holdsInsertRef
               /\ ref'[thread[u].obj].addr = ref[thread[u].obj].addr
    <3>1. thread'[u] = thread[u]
      BY <2>2, Zenon
    <3>2. thread[u].obj \in Objects
      BY <2>2, <3>1 DEF ThreadOK
    <3> QED BY <1>1, <3>1, <3>2
  <2> QED BY <2>1, <2>2, SameMade, Zenon
<1>6. OwnedIsServed'
  <2> SUFFICES ASSUME NEW a \in owned'
               PROVE  map'[a] # None /\ ref'[map'[a]].open /\ ref'[map'[a]].holdsInsertRef
    BY DEF OwnedIsServed
  <2>1. map[a] # None /\ ref[map[a]].open /\ ref[map[a]].holdsInsertRef
    BY Zenon DEF NicInv, OwnedIsServed
  <2>2. map[a] \in Objects
    BY <2>1 DEF NicInv, NicTypeOK
  <2>3. /\ ref'[map[a]].open = ref[map[a]].open /\ map'[a] = map[a]
        /\ ref'[map[a]].holdsInsertRef = ref[map[a]].holdsInsertRef
    BY <1>1, <2>2
  <2> QED BY <2>1, <2>3
<1> QED BY <1>2, <1>3, <1>4, <1>5, <1>6 DEF NicInv, NicNoPanic

-----------------------------------------------------------------------------
(* References are taken and given back. *)

\* A reference is taken of an endpoint whose count is not zero.
LEMMA TakesRef ==
  ASSUME NicInv, NEW t \in Threads, NEW o \in Objects, NEW a,
         ref[o].refs # 0, Bystander(thread[t]),
         ref' = [ref EXCEPT ![o].refs = @ + 1], Goto(t, "holding", a, o),
         UNCHANGED <<map, primary, echo, replier, owned, nicPanic>>
  PROVE  NicInv'
<1> DEFINE r == [pc |-> "holding", addr |-> a, obj |-> o]
           n == ref[o].refs + 1
<1>1. /\ DOMAIN thread = Threads /\ NicTypeOK /\ ref \in [Objects -> Record]
      /\ Moved(t, r)
  BY DEF NicInv, NicTypeOK, Goto, Moved
<1>2. r.pc = "holding" /\ r.obj = o /\ ThreadOK(r)
  BY DEF ThreadOK
<1>3. thread[t].pc \in {"idle", "receiving", "finding", "forwarding"}
  BY DEF Bystander
<1> HIDE DEF r
<1>4. ref[o].refs \in Nat /\ ref[o].open
  BY RefsNeeded DEF NicInv, LifeInv
<1>5. n \in Nat /\ n # 0 /\ ref' = [ref EXCEPT ![o].refs = n]
  BY <1>4
<1>6. DOMAIN thread' = Threads /\ \A u \in Threads : ThreadOK(thread'[u])
  BY <1>1, <1>2, ThreadsStayOK, Zenon
<1>7. \A u \in Threads : thread'[u].pc = "made" => thread'[u] = thread[u]
  BY <1>1, <1>2, ThreadMoves
<1>8. \A x : Doomed(x)' <=> Doomed(x)
  <2> SUFFICES ASSUME NEW x
               PROVE  Doomed(x)' <=> Doomed(x)
    OBVIOUS
  <2> QED BY <1>1, <1>2, <1>3, LeavingStays
<1>9. ~Doomed(o)
  BY Zenon DEF NicInv, LifeInv
<1>10. RefsInv'
  <2> SUFFICES ASSUME NEW x \in Objects
               PROVE  ref'[x].refs = Uses(x)' + echo'[x] + Others(x)'
    BY DEF RefsInv
  <2>1. ref[x] \in Record /\ Others(x)' = Others(x) /\ echo'[x] = echo[x]
    BY <1>1 DEF Others, Record
  <2>2. /\ ref[x].refs \in Nat /\ Others(x) \in Nat
        /\ ref[x].refs = Uses(x) + echo[x] + Others(x)
    BY RefsNeeded
  <2>3. echo[x] \in Nat
    BY <1>1 DEF NicTypeOK
  <2>4. /\ Uses(x) \in Nat /\ Uses(x)' \in Nat
        /\ ~Relies(thread[t], x) /\ Relies(r, x) => Uses(x)' = Uses(x) + 1
        /\ (Relies(thread[t], x) <=> Relies(r, x)) => Uses(x)' = Uses(x)
    BY <1>1, UsesCount, Zenon
  <2>5. ~Relies(thread[t], x) /\ (Relies(r, x) <=> x = o)
    BY <1>2, <1>3 DEF Relies
  <2>6. ref'[x].refs = IF x = o THEN ref[x].refs + 1 ELSE ref[x].refs
    BY <1>1, <2>1 DEF Record
  <2> QED BY <2>1, <2>2, <2>3, <2>4, <2>5, <2>6
<1>11. /\ echo' \in [Objects -> Nat] /\ replier' \in [Objects -> {"wait", "reply", "zero"}]
       /\ nicPanic' = FALSE
  BY DEF NicInv, NicTypeOK, NicNoPanic
<1> HIDE DEF n
<1> QED BY <1>4, <1>5, <1>6, <1>7, <1>8, <1>9, <1>10, <1>11, CountStep

\* An echo request takes a reference along with its route.
LEMMA EchoStep ==
  ASSUME NicInv, NEW t \in Threads, Echo(t)
  PROVE  NicInv'
<1>1. PICK o : o = thread[t].obj
  OBVIOUS
<1>2. o \in Objects /\ Relies(thread[t], o)
  BY <1>1 DEF Echo, Relies, NicInv, NicTypeOK, ThreadOK
<1> DEFINE n == ref[o].refs + 1
<1>3. ref[o].refs \in Nat /\ ref[o].refs # 0 /\ ref[o].open
  BY <1>2, RefsNeeded DEF NicInv, LifeInv
<1>4. /\ DOMAIN thread = Threads /\ NicTypeOK /\ ref \in [Objects -> Record]
      /\ echo \in [Objects -> Nat] /\ UNCHANGED <<thread, map, primary, replier, owned>>
  BY DEF NicInv, NicTypeOK, Echo
<1>5. n \in Nat /\ n # 0 /\ ref' = [ref EXCEPT ![o].refs = n]
  BY <1>1, <1>3 DEF Echo
<1>6. echo' = [echo EXCEPT ![o] = @ + 1] /\ nicPanic' = FALSE
  BY <1>1, <1>3 DEF Echo, NicInv, NicNoPanic
<1>7. \A x, pc : At(x, pc)' = At(x, pc) /\ Uses(x)' = Uses(x)
  BY <1>4, NobodyMoves
<1>8. \A x : Doomed(x)' <=> Doomed(x)
  BY <1>4, <1>7 DEF Doomed
<1>9. ~Doomed(o)
  BY <1>2, <1>3, Zenon DEF NicInv, LifeInv
<1>10. RefsInv'
  <2> SUFFICES ASSUME NEW x \in Objects
               PROVE  ref'[x].refs = Uses(x)' + echo'[x] + Others(x)'
    BY DEF RefsInv
  <2>1. Uses(x)' = Uses(x) /\ Uses(x) \in Nat /\ echo[x] \in Nat
    BY <1>4, <1>7, UsesIsNat
  <2>2. /\ ref[x].refs \in Nat /\ Others(x) \in Nat
        /\ ref[x].refs = Uses(x) + echo[x] + Others(x)
    BY RefsNeeded
  <2>3. /\ ref'[x].refs = IF x = o THEN ref[x].refs + 1 ELSE ref[x].refs
        /\ echo'[x] = IF x = o THEN echo[x] + 1 ELSE echo[x]
        /\ ref'[x].holdsInsertRef = ref[x].holdsInsertRef
    BY <1>2, <1>4, <1>5, <1>6 DEF Record
  <2>4. Others(x)' = Others(x)
    BY <1>4, <2>3 DEF Others
  <2> QED BY <2>1, <2>2, <2>3, <2>4
<1>11. /\ echo' \in [Objects -> Nat] /\ replier' \in [Objects -> {"wait", "reply", "zero"}]
       /\ DOMAIN thread' = Threads /\ \A u \in Threads : ThreadOK(thread'[u])
       /\ \A u \in Threads : thread'[u].pc = "made" => thread'[u] = thread[u]
  <2>0. echo \in [Objects -> Nat] /\ echo' = [echo EXCEPT ![o] = echo[o] + 1]
    BY <1>4, <1>6, Zenon
  <2>1. echo' \in [Objects -> Nat]
    <3>1. \A x \in Objects : echo[x] \in Nat /\ echo[x] + 1 \in Nat
      BY <2>0
    <3> QED BY <2>0, <3>1, Zenon
  <2>2. replier' \in [Objects -> {"wait", "reply", "zero"}]
    BY <1>4 DEF NicTypeOK
  <2>3. /\ DOMAIN thread' = Threads /\ \A u \in Threads : ThreadOK(thread'[u])
        /\ \A u \in Threads : thread'[u].pc = "made" => thread'[u] = thread[u]
    BY <1>4 DEF NicTypeOK
  <2> QED BY <2>1, <2>2, <2>3
<1> HIDE DEF n
<1> QED BY <1>2, <1>3, <1>4, <1>5, <1>6, <1>8, <1>9, <1>10, <1>11, CountStep

\* A goroutine gives a reference back, and goes on to remove the endpoint if
\* it was the last.
LEMMA DecRefStep ==
  ASSUME NicInv, NEW t \in Threads, DecRef(t)
  PROVE  NicInv'
<1>1. PICK o : o = thread[t].obj
  OBVIOUS
<1>2. PICK r : r = IF ref[o].refs = 1 THEN [pc |-> "zero", addr |-> thread[t].addr, obj |-> o]
                                      ELSE Resting
  OBVIOUS
<1> DEFINE n == ref[o].refs - 1
<1>3. o \in Objects /\ Relies(thread[t], o) /\ thread[t].pc # "zero"
  BY <1>1 DEF DecRef, Relies, NicInv, NicTypeOK, ThreadOK
<1>4. ref[o].refs \in Nat /\ ref[o].refs # 0 /\ ref[o].open
  BY <1>3, RefsNeeded DEF NicInv, LifeInv
<1>5. /\ DOMAIN thread = Threads /\ NicTypeOK /\ ref \in [Objects -> Record]
      /\ echo \in [Objects -> Nat]
      /\ UNCHANGED <<map, primary, echo, replier, owned, nicPanic>>
  BY DEF NicInv, NicTypeOK, DecRef
<1>6. n \in Nat /\ ref' = [ref EXCEPT ![o].refs = n] /\ Moved(t, r)
  BY <1>1, <1>2, <1>4 DEF DecRef, Drops, Moved, Goto
<1>7. /\ n = 0 => r.pc = "zero" /\ r.obj = o
      /\ n # 0 => r.pc = "idle"
      /\ ThreadOK(r) /\ r.pc # "made" /\ \A x : ~Relies(r, x)
  BY <1>2, <1>3, <1>4 DEF Resting, ThreadOK, Relies
<1>8. DOMAIN thread' = Threads /\ \A u \in Threads : ThreadOK(thread'[u])
  BY <1>5, <1>6, <1>7, ThreadsStayOK, Zenon
<1>9. \A u \in Threads : thread'[u].pc = "made" => thread'[u] = thread[u]
  BY <1>5, <1>6, <1>7, ThreadMoves
<1>10. n # 0 => \A x : Doomed(x)' <=> Doomed(x)
  <2> SUFFICES ASSUME NEW x, n # 0
               PROVE  Doomed(x)' <=> Doomed(x)
    OBVIOUS
  <2>1. r.pc # "zero" /\ replier'[x] = replier[x]
    BY <1>5, <1>7
  <2> QED BY <1>3, <1>5, <1>6, <2>1, LeavingStays, Zenon
<1>11. n = 0 => Doomed(o)'
  <2> SUFFICES ASSUME n = 0
               PROVE  Doomed(o)'
    OBVIOUS
  <2>1. thread'[t] = r
    BY <1>5, <1>6, ThreadMoves, Zenon
  <2> QED BY <1>7, <2>1 DEF Doomed, At
<1>12. \A x \in Objects : x # o => (Doomed(x)' <=> Doomed(x))
  <2> SUFFICES ASSUME NEW x \in Objects, x # o
               PROVE  Doomed(x)' <=> Doomed(x)
    OBVIOUS
  <2>1. CASE n = 0
    <3>1. /\ thread'[t] = r
          /\ \A u \in Threads : u # t => thread'[u] = thread[u]
      BY <1>5, <1>6, ThreadMoves, Zenon
    <3>2. At(x, "zero")' = At(x, "zero")
      BY <1>1, <1>7, <2>1, <3>1 DEF At
    <3> QED BY <1>5, <3>2 DEF Doomed
  <2> QED BY <1>10, <2>1
<1>13. ~Doomed(o)
  BY <1>3, <1>4, Zenon DEF NicInv, LifeInv
<1>14. RefsInv'
  <2> SUFFICES ASSUME NEW x \in Objects
               PROVE  ref'[x].refs = Uses(x)' + echo'[x] + Others(x)'
    BY DEF RefsInv
  <2>1. echo'[x] = echo[x] /\ echo[x] \in Nat
    BY <1>5
  <2>2. /\ ref[x].refs \in Nat /\ Others(x) \in Nat
        /\ ref[x].refs = Uses(x) + echo[x] + Others(x)
    BY RefsNeeded
  <2>3. /\ ref'[x].refs = IF x = o THEN ref[x].refs - 1 ELSE ref[x].refs
        /\ ref'[x].holdsInsertRef = ref[x].holdsInsertRef
    BY <1>3, <1>5, <1>6 DEF Record
  <2>4. Others(x)' = Others(x)
    BY <1>5, <2>3 DEF Others
  <2>5. /\ Uses(x) \in Nat /\ Uses(x)' \in Nat
        /\ Relies(thread[t], x) /\ ~Relies(r, x) => Uses(x)' = Uses(x) - 1
        /\ (Relies(thread[t], x) <=> Relies(r, x)) => Uses(x)' = Uses(x)
    BY <1>5, <1>6, UsesCount, Zenon
  <2>6. ~Relies(r, x) /\ (Relies(thread[t], x) <=> x = o)
    BY <1>1, <1>3, <1>7 DEF Relies
  <2> QED BY <2>1, <2>2, <2>3, <2>4, <2>5, <2>6
<1>15. /\ echo' \in [Objects -> Nat] /\ replier' \in [Objects -> {"wait", "reply", "zero"}]
       /\ nicPanic' = FALSE /\ UNCHANGED <<map, primary, owned>>
       /\ (n # 0 => ref[o].open /\ ~Doomed(o)')
  BY <1>4, <1>5, <1>10, <1>13 DEF NicTypeOK, NicInv, NicNoPanic
<1> HIDE DEF n
<1> QED BY <1>3, <1>6, <1>8, <1>9, <1>11, <1>12, <1>14, <1>15, CountStep

\* The replier releases the route of the request it has answered.
LEMMA ReplierReleasesStep ==
  ASSUME NicInv, NEW o \in Objects, ReplierReleases(o)
  PROVE  NicInv'
<1> DEFINE n == ref[o].refs - 1
           s == IF ref[o].refs = 1 THEN "zero" ELSE "wait"
<1>1. replier[o] = "reply" /\ ref[o].refs \in Nat /\ ref[o].refs # 0 /\ ref[o].open
  BY RefsNeeded DEF ReplierReleases, NicInv, LifeInv
<1>2. /\ DOMAIN thread = Threads /\ NicTypeOK /\ ref \in [Objects -> Record]
      /\ echo \in [Objects -> Nat] /\ replier \in [Objects -> {"wait", "reply", "zero"}]
      /\ UNCHANGED <<thread, map, primary, echo, owned, nicPanic>>
  BY DEF NicInv, NicTypeOK, ReplierReleases
<1>3. /\ n \in Nat /\ ref' = [ref EXCEPT ![o].refs = n]
      /\ replier' = [replier EXCEPT ![o] = s]
      /\ s = IF n = 0 THEN "zero" ELSE "wait"
  BY <1>1 DEF ReplierReleases, Drops
<1>4. \A x, pc : At(x, pc)' = At(x, pc) /\ Uses(x)' = Uses(x)
  BY <1>2, NobodyMoves
<1>5. ~Doomed(o)
  BY <1>1, Zenon DEF NicInv, LifeInv
<1>6. n = 0 => Doomed(o)'
  BY <1>2, <1>3 DEF Doomed
<1>7. n # 0 => ~Doomed(o)'
  BY <1>2, <1>3, <1>4, <1>5 DEF Doomed
<1>8. \A x \in Objects : x # o => (Doomed(x)' <=> Doomed(x))
  BY <1>2, <1>3, <1>4 DEF Doomed
<1>9. RefsInv'
  <2> SUFFICES ASSUME NEW x \in Objects
               PROVE  ref'[x].refs = Uses(x)' + echo'[x] + Others(x)'
    BY DEF RefsInv
  <2>1. /\ echo'[x] = echo[x] /\ echo[x] \in Nat
        /\ Uses(x)' = Uses(x) /\ Uses(x) \in Nat
    BY <1>2, <1>4, UsesIsNat
  <2>2. /\ ref[x].refs \in Nat /\ Others(x) \in Nat
        /\ ref[x].refs = Uses(x) + echo[x] + Others(x)
    BY RefsNeeded
  <2>3. /\ ref'[x].refs = IF x = o THEN ref[x].refs - 1 ELSE ref[x].refs
        /\ ref'[x].holdsInsertRef = ref[x].holdsInsertRef
        /\ replier'[x] = IF x = o THEN s ELSE replier[x]
    BY <1>2, <1>3 DEF Record
  <2>4. Others(x)' = IF x = o THEN Others(x) - 1 ELSE Others(x)
    <3> DEFINE z == IF ref[x].holdsInsertRef THEN 1 ELSE 0
    <3>1. z \in Nat
      BY Zenon
    <3>2. Others(x) = (IF replier[x] = "reply" THEN 1 ELSE 0) + z
      BY DEF Others
    <3>3. Others(x)' = (IF replier'[x] = "reply" THEN 1 ELSE 0) + z
      BY <2>3 DEF Others
    <3> HIDE DEF z
    <3>4. s # "reply"
      BY Zenon
    <3> HIDE DEF s
    <3> QED BY <1>1, <2>3, <3>1, <3>2, <3>3, <3>4
  <2> QED BY <2>1, <2>2, <2>3, <2>4
<1>10. /\ echo' \in [Objects -> Nat] /\ replier' \in [Objects -> {"wait", "reply", "zero"}]
       /\ nicPanic' = FALSE /\ UNCHANGED <<map, primary, owned>>
       /\ DOMAIN thread' = Threads /\ \A u \in Threads : ThreadOK(thread'[u])
       /\ \A u \in Threads : thread'[u].pc = "made" => thread'[u] = thread[u]
  BY <1>2, <1>3 DEF NicTypeOK, NicInv, NicNoPanic
<1> HIDE DEF n, s
<1> QED BY <1>1, <1>3, <1>6, <1>7, <1>8, <1>9, <1>10, CountStep

\* The replier takes a request from the queue: its reference goes with it.
LEMMA ReplierTakesStep ==
  ASSUME NicInv, NEW o \in Objects, ReplierTakes(o)
  PROVE  NicInv'
<1> DEFINE n == ref[o].refs
<1>1. replier[o] = "wait" /\ echo[o] > 0
  BY DEF ReplierTakes
<1>2. /\ DOMAIN thread = Threads /\ NicTypeOK /\ ref \in [Objects -> Record]
      /\ echo \in [Objects -> Nat] /\ replier \in [Objects -> {"wait", "reply", "zero"}]
      /\ UNCHANGED <<thread, ref, map, primary, owned, nicPanic>>
  BY DEF NicInv, NicTypeOK, ReplierTakes
<1>3. n \in Nat /\ n # 0 /\ ref[o].open
  <2>1. echo[o] # 0
    BY <1>1, <1>2
  <2> QED BY <2>1, RefsNeeded DEF NicInv, LifeInv
<1>4. /\ ref' = [ref EXCEPT ![o].refs = n]
      /\ echo' = [echo EXCEPT ![o] = echo[o] - 1]
      /\ replier' = [replier EXCEPT ![o] = "reply"]
  BY <1>2 DEF ReplierTakes, Record
<1>5. \A x, pc : At(x, pc)' = At(x, pc) /\ Uses(x)' = Uses(x)
  BY <1>2, NobodyMoves
<1>6. ~Doomed(o)
  BY <1>3, Zenon DEF NicInv, LifeInv
<1>7. ~Doomed(o)' /\ \A x \in Objects : x # o => (Doomed(x)' <=> Doomed(x))
  BY <1>2, <1>4, <1>5, <1>6 DEF Doomed
<1>8. RefsInv'
  <2> SUFFICES ASSUME NEW x \in Objects
               PROVE  ref'[x].refs = Uses(x)' + echo'[x] + Others(x)'
    BY DEF RefsInv
  <2>1. /\ echo'[x] = (IF x = o THEN echo[x] - 1 ELSE echo[x]) /\ echo[x] \in Nat
        /\ replier'[x] = (IF x = o THEN "reply" ELSE replier[x])
        /\ ref'[x] = ref[x]
    BY <1>2, <1>4
  <2>2. /\ ref[x].refs \in Nat /\ Others(x) \in Nat
        /\ ref[x].refs = Uses(x) + echo[x] + Others(x)
    BY RefsNeeded
  <2>3. Uses(x)' = Uses(x) /\ Uses(x) \in Nat
    BY <1>5, UsesIsNat
  <2>4. Others(x)' = IF x = o THEN Others(x) + 1 ELSE Others(x)
    <3> DEFINE z == IF ref[x].holdsInsertRef THEN 1 ELSE 0
    <3>1. z \in Nat
      BY Zenon
    <3>2. Others(x) = (IF replier[x] = "reply" THEN 1 ELSE 0) + z
      BY DEF Others
    <3>3. Others(x)' = (IF replier'[x] = "reply" THEN 1 ELSE 0) + z
      BY <2>1 DEF Others
    <3> HIDE DEF z
    <3> QED BY <1>1, <2>1, <3>1, <3>2, <3>3
  <2> QED BY <2>1, <2>2, <2>3, <2>4
<1>9. echo' \in [Objects -> Nat]
  <2>1. echo[o] - 1 \in Nat
    BY <1>1, <1>2
  <2> QED BY <1>2, <1>4, <2>1
<1>10. replier' \in [Objects -> {"wait", "reply", "zero"}]
  BY <1>2, <1>4
<1>11. /\ nicPanic' = FALSE /\ UNCHANGED <<map, primary, owned>>
       /\ DOMAIN thread' = Threads /\ \A u \in Threads : ThreadOK(thread'[u])
       /\ \A u \in Threads : thread'[u].pc = "made" => thread'[u] = thread[u]
  BY <1>2 DEF NicTypeOK, NicInv, NicNoPanic
<1>12. (n # 0 => ref[o].open /\ ~Doomed(o)') /\ (n = 0 => Doomed(o)')
  BY <1>3, <1>7, Zenon
<1>13. n \in Nat /\ ref' = [ref EXCEPT ![o].refs = n]
  BY <1>3, <1>4, Zenon
<1>14. \A x \in Objects : x # o => (Doomed(x)' <=> Doomed(x))
  BY <1>7, Zenon
<1> HIDE DEF n
<1> QED BY <1>8, <1>9, <1>10, <1>11, <1>12, <1>13, <1>14, CountStep

\* A goroutine looks an endpoint up, or fails to, and takes nothing.
LEMMA Wanders ==
  ASSUME NicInv, NEW t \in Threads, NEW r, Bystander(thread[t]), Bystander(r),
         ThreadOK(r), Moved(t, r),
         UNCHANGED <<ref, map, primary, echo, replier, owned, nicPanic>>
  PROVE  NicInv'
<1>1. DOMAIN thread = Threads /\ NicTypeOK /\ ref \in [Objects -> Record]
  BY DEF NicInv, NicTypeOK
<1>2. /\ thread[t].pc \in {"idle", "receiving", "finding", "forwarding"}
      /\ r.pc \in {"idle", "receiving", "finding", "forwarding"}
  BY DEF Bystander
<1>3. DOMAIN thread' = Threads /\ \A u \in Threads : ThreadOK(thread'[u])
  BY <1>1, ThreadsStayOK, Zenon
<1>4. \A u \in Threads : thread'[u].pc = "made" => thread'[u] = thread[u]
  BY <1>1, <1>2, ThreadMoves
<1>5. \A x \in Objects : Doomed(x)' <=> Doomed(x)
  <2> SUFFICES ASSUME NEW x \in Objects
               PROVE  Doomed(x)' <=> Doomed(x)
    OBVIOUS
  <2>1. thread[t].pc # "zero" /\ r.pc # "zero" /\ replier'[x] = replier[x]
    BY <1>2
  <2> QED BY <1>1, <2>1, LeavingStays, Zenon
<1>6. \A x \in Objects : Uses(x)' = Uses(x)
  <2> SUFFICES ASSUME NEW x \in Objects
               PROVE  Uses(x)' = Uses(x)
    OBVIOUS
  <2>1. ~Relies(thread[t], x) /\ ~Relies(r, x)
    BY <1>2 DEF Relies
  <2> QED BY <1>1, <2>1, UsesCount, Zenon
<1>7. NicTypeOK'
  BY <1>1, <1>3 DEF NicTypeOK
<1>8. RefsInv'
  <2>1. \A x \in Objects : ref[x].refs = Uses(x) + echo[x] + Others(x)
    BY Zenon DEF NicInv, RefsInv
  <2>2. \A x \in Objects : Others(x)' = Others(x)
    BY DEF Others
  <2> QED BY <1>6, <2>1, <2>2 DEF RefsInv
<1>9. MapInv' /\ ListInv'
  BY SameEndpoints DEF NicInv, NicTypeOK
<1>10. LifeInv'
  <2> SUFFICES ASSUME NEW x \in Objects
               PROVE  /\ ref'[x].refs > 0 => ref'[x].open
                      /\ Doomed(x)' => ref'[x].refs = 0
                      /\ ref'[x].open /\ ref'[x].refs = 0 => Doomed(x)'
    BY DEF LifeInv
  <2>1. /\ ref[x].refs > 0 => ref[x].open
        /\ Doomed(x) => ref[x].refs = 0
        /\ ref[x].open /\ ref[x].refs = 0 => Doomed(x)
    BY Zenon DEF NicInv, LifeInv
  <2> QED BY <1>5, <2>1
<1>11. MadeInv'
  BY <1>4, SameMade DEF NicInv
<1>12. OwnedIsServed' /\ NicNoPanic'
  BY DEF OwnedIsServed, NicNoPanic, NicInv
<1> QED BY <1>7, <1>8, <1>9, <1>10, <1>11, <1>12 DEF NicInv

\* The reference of the insertion goes over to the goroutine that gives it up
\* or takes it back.
LEMMA HandsOver ==
  ASSUME NicInv, NEW t \in Threads, NEW o \in Objects, NEW r,
         ref[o].holdsInsertRef, thread[t].pc \in {"idle", "made"},
         r.pc \in {"holding", "dropping"}, r.obj = o, Moved(t, r),
         ref' = [ref EXCEPT ![o].holdsInsertRef = FALSE],
         UNCHANGED <<map, primary, echo, replier, nicPanic>>, owned' \subseteq owned,
         \A b \in owned' : map[b] # o,
         \A u \in Threads : u # t /\ thread[u].pc = "made" => thread[u].obj # o
  PROVE  NicInv'
<1>1. /\ DOMAIN thread = Threads /\ NicTypeOK /\ ref \in [Objects -> Record]
      /\ echo \in [Objects -> Nat] /\ map \in [Locals -> Objects \cup {None}]
  BY DEF NicInv, NicTypeOK
<1>2. /\ ref' \in [Objects -> Record]
      /\ \A x \in Objects : /\ ref'[x].open = ref[x].open /\ ref'[x].addr = ref[x].addr
                            /\ ref'[x].refs = ref[x].refs
      /\ \A x \in Objects : x # o => ref'[x] = ref[x]
      /\ ~ref'[o].holdsInsertRef
  BY <1>1 DEF Record
<1>3. ThreadOK(r)
  BY DEF ThreadOK
<1>4. DOMAIN thread' = Threads /\ \A u \in Threads : ThreadOK(thread'[u])
  BY <1>1, <1>3, ThreadsStayOK, Zenon
<1>5. /\ thread'[t] = r
      /\ \A u \in Threads : u # t => thread'[u] = thread[u]
  BY <1>1, ThreadMoves, Zenon
<1>6. \A x \in Objects : Doomed(x)' <=> Doomed(x)
  <2> SUFFICES ASSUME NEW x \in Objects
               PROVE  Doomed(x)' <=> Doomed(x)
    OBVIOUS
  <2>1. thread[t].pc # "zero" /\ r.pc # "zero" /\ replier'[x] = replier[x]
    OBVIOUS
  <2> QED BY <1>1, <2>1, LeavingStays, Zenon
<1>7. NicTypeOK'
  BY <1>1, <1>2, <1>4 DEF NicTypeOK
<1>8. RefsInv'
  <2> SUFFICES ASSUME NEW x \in Objects
               PROVE  ref'[x].refs = Uses(x)' + echo'[x] + Others(x)'
    BY DEF RefsInv
  <2>1. /\ echo'[x] = echo[x] /\ echo[x] \in Nat /\ ref'[x].refs = ref[x].refs
        /\ replier'[x] = replier[x]
    BY <1>1, <1>2
  <2>2. /\ ref[x].refs \in Nat /\ Others(x) \in Nat
        /\ ref[x].refs = Uses(x) + echo[x] + Others(x)
    BY RefsNeeded
  <2>3. /\ Uses(x) \in Nat /\ Uses(x)' \in Nat
        /\ ~Relies(thread[t], x) /\ Relies(r, x) => Uses(x)' = Uses(x) + 1
        /\ (Relies(thread[t], x) <=> Relies(r, x)) => Uses(x)' = Uses(x)
    BY <1>1, UsesCount, Zenon
  <2>4. ~Relies(thread[t], x) /\ (Relies(r, x) <=> x = o)
    BY DEF Relies
  <2>5. Others(x)' = IF x = o THEN Others(x) - 1 ELSE Others(x)
    <3> DEFINE y == IF replier[x] = "reply" THEN 1 ELSE 0
    <3>1. y \in Nat
      BY Zenon
    <3>2. Others(x) = y + (IF ref[x].holdsInsertRef THEN 1 ELSE 0)
      BY DEF Others
    <3>3. Others(x)' = y + (IF ref'[x].holdsInsertRef THEN 1 ELSE 0)
      BY <2>1 DEF Others
    <3> HIDE DEF y
    <3>4. CASE x = o
      <4>1. Others(x) = y + 1 /\ Others(x)' = y + 0
        BY <1>2, <3>2, <3>3, <3>4
      <4> QED BY <3>1, <3>4, <4>1
    <3>5. CASE x # o
      BY <1>2, <3>2, <3>3, <3>5
    <3> QED BY <3>4, <3>5
  <2> QED BY <2>1, <2>2, <2>3, <2>4, <2>5
<1>9. MapInv' /\ ListInv'
  BY <1>1, <1>2, SameEndpoints DEF NicInv
<1>10. LifeInv'
  <2> SUFFICES ASSUME NEW x \in Objects
               PROVE  /\ ref'[x].refs > 0 => ref'[x].open
                      /\ Doomed(x)' => ref'[x].refs = 0
                      /\ ref'[x].open /\ ref'[x].refs = 0 => Doomed(x)'
    BY DEF LifeInv
  <2>1. /\ ref[x].refs > 0 => ref[x].open
        /\ Doomed(x) => ref[x].refs = 0
        /\ ref[x].open /\ ref[x].refs = 0 => Doomed(x)
    BY Zenon DEF NicInv, LifeInv
  <2> QED BY <1>2, <1>6, <2>1
<1>11. MadeInv'
  <2>1. ASSUME NEW u \in Threads, thread'[u].pc = "made"
        PROVE  /\ thread'[u] = thread[u]
               /\ ref[thread[u].obj].holdsInsertRef => ref'[thread[u].obj].holdsInsertRef
               /\ ref'[thread[u].obj].addr = ref[thread[u].obj].addr
    <3>1. u # t /\ thread'[u] = thread[u]
      BY <1>5, <2>1
    <3>2. thread[u].obj \in Objects /\ thread[u].obj # o
      BY <1>4, <2>1, <3>1 DEF ThreadOK
    <3> QED BY <1>2, <3>1, <3>2
  <2> QED BY <2>1, SameMade, Zenon DEF NicInv
<1>12. OwnedIsServed'
  <2> SUFFICES ASSUME NEW b \in owned'
               PROVE  map'[b] # None /\ ref'[map'[b]].open /\ ref'[map'[b]].holdsInsertRef
    BY DEF OwnedIsServed
  <2>1. map[b] # None /\ ref[map[b]].open /\ ref[map[b]].holdsInsertRef /\ map[b] # o
    BY Zenon DEF NicInv, OwnedIsServed
  <2>2. b \in Locals
    BY <1>1 DEF NicTypeOK
  <2>3. map[b] \in Objects /\ map'[b] = map[b]
    BY <1>1, <2>1, <2>2
  <2> QED BY <1>2, <2>1, <2>3
<1>13. NicNoPanic'
  BY DEF NicNoPanic, NicInv
<1> QED BY <1>7, <1>8, <1>9, <1>10, <1>11, <1>12, <1>13 DEF NicInv

\* RemoveAddress takes the reference of an insertion that AddAddress made.
LEMMA RemoveAddressStep ==
  ASSUME NicInv, OwnerOnly, NEW t \in Threads, NEW a \in Locals, RemoveAddress(t, a)
  PROVE  NicInv'
<1>1. PICK o : o = map[a]
  OBVIOUS
<1>2. PICK r : r = [pc |-> "dropping", addr |-> a, obj |-> o]
  OBVIOUS
<1>3. /\ o \in Objects /\ ref[o].holdsInsertRef /\ thread[t].pc = "idle" /\ Moved(t, r)
      /\ ref' = [ref EXCEPT ![o].holdsInsertRef = FALSE]
      /\ UNCHANGED <<map, primary, echo, replier, nicPanic>>
      /\ a \in owned /\ owned' = owned \ {a}
  BY <1>1, <1>2 DEF RemoveAddress, Goto, Moved, NicInv, NicTypeOK
<1>4. ref[o].addr = a
  BY <1>1 DEF RemoveAddress, NicInv, MapInv
<1>5. \A b \in owned' : map[b] # o
  <2> SUFFICES ASSUME NEW b \in owned', map[b] = o
               PROVE  FALSE
    OBVIOUS
  <2>1. b \in Locals /\ b # a /\ map[b] # None
    BY <1>1, <1>3 DEF RemoveAddress, NicInv, NicTypeOK
  <2>2. ref[o].addr = b
    BY <2>1 DEF NicInv, MapInv
  <2> QED BY <1>4, <2>1, <2>2
<1>6. \A u \in Threads : u # t /\ thread[u].pc = "made" => thread[u].obj # o
  BY <1>3, <1>4 DEF NicInv, MadeInv
<1>7. r.pc = "dropping" /\ r.obj = o
  BY <1>2
<1> QED BY <1>3, <1>5, <1>6, <1>7, HandsOver

\* getRef takes the reference of its own insertion back.
LEMMA TakeTemporaryStep ==
  ASSUME NicInv, NEW t \in Threads, TakeTemporary(t)
  PROVE  NicInv'
<1>1. PICK o : o = thread[t].obj
  OBVIOUS
<1>2. PICK r : r = [pc |-> "holding", addr |-> thread[t].addr, obj |-> o]
  OBVIOUS
<1>3. /\ thread[t].pc = "made" /\ Moved(t, r)
      /\ ref' = [ref EXCEPT ![o].holdsInsertRef = FALSE]
      /\ UNCHANGED <<map, primary, echo, replier, owned, nicPanic>>
  BY <1>1, <1>2 DEF TakeTemporary, Goto, Moved
<1>4. o \in Objects
  BY <1>1, <1>3 DEF NicInv, NicTypeOK, ThreadOK
<1>5. ref[o].holdsInsertRef /\ ref[o].addr \notin owned
  BY <1>1, <1>3 DEF NicInv, MadeInv
<1>6. \A b \in owned' : map[b] # o
  <2> SUFFICES ASSUME NEW b \in owned, map[b] = o
               PROVE  FALSE
    BY <1>3
  <2>1. b \in Locals /\ map[b] # None
    BY DEF NicInv, NicTypeOK, OwnedIsServed
  <2>2. ref[o].addr = b
    BY <2>1 DEF NicInv, MapInv
  <2> QED BY <1>5, <2>2
<1>7. \A u \in Threads : u # t /\ thread[u].pc = "made" => thread[u].obj # o
  BY <1>1, <1>3, Zenon DEF NicInv, MadeInv
<1>8. r.pc = "holding" /\ r.obj = o
  BY <1>2
<1> QED BY <1>3, <1>4, <1>5, <1>6, <1>7, <1>8, HandsOver

-----------------------------------------------------------------------------
(* An endpoint is inserted. *)

\* The object that is used is nobody's.
LEMMA FreshIsUnused ==
  ASSUME NicInv, CanCreate, NEW f, f = Fresh
  PROVE  /\ f \in Objects /\ ~ref[f].open /\ ref[f].refs = 0
         /\ echo[f] = 0 /\ replier[f] = "wait" /\ Uses(f) = 0 /\ ~Doomed(f)
         /\ f \notin ToSet(primary) /\ \A b \in Locals : map[b] # f
         /\ \A u \in Threads : thread[u].obj # f
<1>1. f \in Objects /\ Unused(f)
  BY DEF Fresh, CanCreate
<1>2. /\ ~ref[f].open /\ echo[f] = 0 /\ replier[f] = "wait"
      /\ \A u \in Threads : thread[u].obj # f
  BY <1>1 DEF Unused
<1>3. \A pc : At(f, pc) = {}
  BY <1>2 DEF At
<1>4. Uses(f) = 0
  BY <1>3, FS_EmptySet DEF Uses, Holding
<1>5. ref[f].refs = 0
  <2>1. ref[f].refs \in Nat
    BY <1>1, RefsNeeded
  <2> QED BY <1>1, <1>2, <2>1 DEF NicInv, LifeInv
<1>6. ~Doomed(f)
  BY <1>2, <1>3 DEF Doomed
<1>7. f \notin ToSet(primary)
  BY <1>1, <1>2, Zenon DEF NicInv, ListInv
<1>8. ASSUME NEW b \in Locals, map[b] = f
      PROVE  FALSE
  <2>1. map[b] # None
    BY <1>1, <1>8, NicAssumption DEF None
  <2> QED BY <1>2, <1>8, <2>1 DEF NicInv, MapInv
<1> QED BY <1>1, <1>2, <1>4, <1>5, <1>6, <1>7, <1>8

\* What an endpoint in the way leaves behind: it has no references, and so no
\* reference of an insertion, neither an owner's nor a maker's.
LEMMA DeadIsNobodys ==
  ASSUME NicInv, NEW a \in Locals, ~Alive(map[a])
  PROVE  /\ map[a] # None => /\ map[a] \in Objects /\ ref[map[a]].refs = 0
                             /\ ~ref[map[a]].holdsInsertRef
         /\ a \notin owned
         /\ \A u \in Threads : thread[u].pc = "made" =>
              thread[u].obj # map[a] /\ ref[thread[u].obj].addr # a
<1>1. map[a] # None => /\ map[a] \in Objects /\ ref[map[a]].refs = 0
                       /\ ~ref[map[a]].holdsInsertRef
  <2> SUFFICES ASSUME map[a] # None
               PROVE  /\ map[a] \in Objects /\ ref[map[a]].refs = 0
                      /\ ~ref[map[a]].holdsInsertRef
    OBVIOUS
  <2>1. map[a] \in Objects
    BY DEF NicInv, NicTypeOK
  <2>2. ref[map[a]].refs = 0
    BY DEF Alive
  <2> QED BY <2>1, <2>2, RefsNeeded
<1>2. a \notin owned
  BY <1>1 DEF NicInv, OwnedIsServed
<1>3. ASSUME NEW u \in Threads, thread[u].pc = "made"
      PROVE  thread[u].obj # map[a] /\ ref[thread[u].obj].addr # a
  <2>1. PICK o : o = thread[u].obj
    OBVIOUS
  <2>2. o \in Objects /\ ref[o].holdsInsertRef
    BY <1>3, <2>1 DEF NicInv, NicTypeOK, ThreadOK, MadeInv
  <2>3. ref[o].refs \in Nat /\ ref[o].refs # 0
    BY <2>2, RefsNeeded
  <2>4. ref[o].open
    BY <2>2, <2>3 DEF NicInv, LifeInv
  <2>5. o # None
    BY <2>2, NicAssumption DEF None
  <2>6. ref[o].addr = a => map[a] = o
    BY <2>2, <2>4, Zenon DEF NicInv, MapInv
  <2>7. o # map[a]
    BY <1>1, <2>2, <2>5
  <2> QED BY <2>1, <2>6, <2>7
<1> QED BY <1>1, <1>2, <1>3

\* After the insertion of f for a: what the endpoints are, and the map and
\* the list agree with them.
Entered(a, biased, f) ==
  /\ ref' \in [Objects -> Record] /\ map' = [map EXCEPT ![a] = f]
  /\ primary' \in Seq(Objects)
  /\ ref'[f] = [addr |-> a, refs |-> 1, holdsInsertRef |-> biased, open |-> TRUE]
  /\ \A x \in Objects : x # f =>
       /\ ref'[x].addr = ref[x].addr /\ ref'[x].refs = ref[x].refs
       /\ ref'[x].holdsInsertRef = ref[x].holdsInsertRef
       /\ ref'[x].open = (ref[x].open /\ x # map[a])
  /\ MapInv' /\ ListInv' /\ nicPanic' = FALSE

\* An insertion does this, if nothing that is alive is in its way.
LEMMA InsertedAgrees ==
  ASSUME NicInv, NEW a \in Locals, NEW biased \in BOOLEAN, CanCreate, ~Alive(map[a]),
         Inserted(a, biased), NEW f, f = Fresh
  PROVE  Entered(a, biased, f)
<1>1. PICK old : old = map[a]
  OBVIOUS
<1>2. /\ f \in Objects /\ ~ref[f].open /\ f \notin ToSet(primary)
      /\ \A b \in Locals : map[b] # f
  BY FreshIsUnused
<1>3. ref \in [Objects -> Record] /\ map \in [Locals -> Objects \cup {None}]
      /\ primary \in Seq(Objects)
  BY DEF NicInv, NicTypeOK
<1>4. old # None => /\ old \in Objects /\ ref[old].refs = 0 /\ ~ref[old].holdsInsertRef
  BY <1>1, DeadIsNobodys
<1>5. old # f
  BY <1>1, <1>2
<1>6. /\ ref' = [x \in Objects |->
           IF x = f THEN [addr |-> a, refs |-> 1, holdsInsertRef |-> biased, open |-> TRUE]
           ELSE IF x = old THEN [ref[x] EXCEPT !.open = FALSE] ELSE ref[x]]
      /\ map' = [map EXCEPT ![a] = f]
      /\ primary' = <<f>> \o Unlisted(old) \/ primary' = Append(Unlisted(old), f)
      /\ nicPanic' = (nicPanic \/ (old # None /\ ref[old].holdsInsertRef))
  BY <1>1 DEF Inserted
<1>7. nicPanic' = FALSE
  BY <1>4, <1>6 DEF NicInv, NicNoPanic
<1>8. ref'[f] = [addr |-> a, refs |-> 1, holdsInsertRef |-> biased, open |-> TRUE]
  BY <1>2, <1>6
<1>9. ASSUME NEW x \in Objects, x # f
      PROVE  /\ ref'[x].addr = ref[x].addr /\ ref'[x].refs = ref[x].refs
             /\ ref'[x].holdsInsertRef = ref[x].holdsInsertRef
             /\ ref'[x].open = (ref[x].open /\ x # old)
             /\ ref'[x] \in Record
  <2>1. ref[x] \in Record
    BY <1>3
  <2>2. ref'[x] = IF x = old THEN [ref[x] EXCEPT !.open = FALSE] ELSE ref[x]
    BY <1>6, <1>9
  <2> QED BY <2>1, <2>2 DEF Record
<1>10. ref'[f] \in Record
  BY <1>8 DEF Record
<1>11. ref' \in [Objects -> Record]
  <2>1. \A x \in Objects : ref'[x] \in Record
    BY <1>9, <1>10
  <2> QED BY <1>6, <2>1
<1>12. MapInv'
  <2>1. ASSUME NEW x \in Objects, ref'[x].open
        PROVE  ref'[x].addr \in Locals /\ map'[ref'[x].addr] = x
    <3>1. CASE x = f
      BY <1>3, <1>6, <1>8, <3>1
    <3>2. CASE x # f
      <4>1. ref[x].open /\ x # old /\ ref'[x].addr = ref[x].addr
        BY <1>9, <2>1, <3>2
      <4>2. ref[x].addr \in Locals /\ map[ref[x].addr] = x
        BY <4>1, Zenon DEF NicInv, MapInv
      <4>3. ref[x].addr # a
        BY <1>1, <4>1, <4>2
      <4> QED BY <1>3, <1>6, <4>1, <4>2, <4>3
    <3> QED BY <3>1, <3>2
  <2>2. ASSUME NEW b \in Locals, map'[b] # None
        PROVE  ref'[map'[b]].open /\ ref'[map'[b]].addr = b
    <3>1. CASE b = a
      BY <1>3, <1>6, <1>8, <3>1
    <3>2. CASE b # a
      <4>1. map'[b] = map[b] /\ map[b] # f /\ map[b] \in Objects
        BY <1>2, <1>3, <1>6, <2>2, <3>2
      <4>2. ref[map[b]].open /\ ref[map[b]].addr = b
        BY <2>2, <4>1, Zenon DEF NicInv, MapInv
      <4>3. map[b] # old
        <5> SUFFICES ASSUME map[b] = old
                     PROVE  FALSE
          OBVIOUS
        <5>1. ref[old].addr = a
          BY <1>1, <2>2, <4>1, Zenon DEF NicInv, MapInv
        <5> QED BY <3>2, <4>2, <5>1
      <4> QED BY <1>9, <4>1, <4>2, <4>3
    <3> QED BY <3>1, <3>2
  <2> QED BY <2>1, <2>2 DEF MapInv
<1>13. primary' \in Seq(Objects) /\ ListInv'
  <2>1. PICK w : w = Unlisted(old)
    OBVIOUS
  <2>2. OnceEach(primary) /\ IsFiniteSet(ToSet(primary))
        /\ Len(primary) = Cardinality(ToSet(primary))
    BY DEF NicInv, ListInv, OnceEach
  <2>3. /\ w \in Seq(Objects) /\ OnceEach(w) /\ ToSet(w) = ToSet(primary) \ {old}
        /\ Len(w) = IF old \in ToSet(primary) THEN Len(primary) - 1 ELSE Len(primary)
    <3>1. w = IF old \in ToSet(primary)
              THEN RemoveAt(primary, CHOOSE i \in DOMAIN primary : primary[i] = old)
              ELSE primary
      BY <2>1 DEF Unlisted
    <3> QED BY <1>3, <2>2, <3>1, ListWithout
  <2>4. f \notin ToSet(w)
    BY <1>2, <2>3
  <2>5. primary' = <<f>> \o w \/ primary' = Append(w, f)
    BY <1>6, <2>1, Zenon
  <2>6. /\ primary' \in Seq(Objects) /\ OnceEach(primary')
        /\ ToSet(primary') = ToSet(w) \cup {f} /\ Len(primary') = Len(w) + 1
    BY <1>2, <2>3, <2>4, <2>5, ListWith
  <2>7. IsFiniteSet(ToSet(w)) /\ Cardinality(ToSet(w)) = Len(w)
    <3>1. /\ IsFiniteSet(ToSet(primary) \ {old})
          /\ Cardinality(ToSet(primary) \ {old}) =
               IF old \in ToSet(primary) THEN Cardinality(ToSet(primary)) - 1
                                         ELSE Cardinality(ToSet(primary))
      BY <2>2, FS_RemoveElement, Zenon
    <3> QED BY <2>2, <2>3, <3>1, Zenon
  <2>8. IsFiniteSet(ToSet(primary')) /\ Cardinality(ToSet(primary')) = Len(primary')
    <3>1. /\ IsFiniteSet(ToSet(w) \cup {f})
          /\ Cardinality(ToSet(w) \cup {f}) = Cardinality(ToSet(w)) + 1
      BY <2>4, <2>7, FS_AddElement, Zenon
    <3> QED BY <2>6, <2>7, <3>1, Zenon
  <2>9. ASSUME NEW x \in Objects
        PROVE  ref'[x].open <=> x \in ToSet(primary')
    <3>1. x \in ToSet(primary') <=> (x \in ToSet(primary) /\ x # old) \/ x = f
      BY <2>3, <2>6
    <3>2. ref[x].open <=> x \in ToSet(primary)
      BY Zenon DEF NicInv, ListInv
    <3>3. CASE x = f
      BY <1>8, <3>1, <3>3
    <3>4. CASE x # f
      BY <1>9, <3>1, <3>2, <3>4
    <3> QED BY <3>3, <3>4
  <2>10. \A i, j \in DOMAIN primary' : primary'[i] = primary'[j] => i = j
    BY <2>6 DEF OnceEach
  <2>11. /\ \A x \in Objects : ref'[x].open <=> x \in ToSet(primary)'
         /\ \A i, j \in DOMAIN primary' : primary'[i] = primary'[j] => i = j
         /\ IsFiniteSet(ToSet(primary)') /\ Len(primary)' = Cardinality(ToSet(primary))'
    BY <2>8, <2>9, <2>10
  <2> QED BY <2>6, <2>11 DEF ListInv
<1>14. map' = [map EXCEPT ![a] = f]
  BY <1>6
<1> QED BY <1>1, <1>7, <1>8, <1>9, <1>11, <1>12, <1>13, <1>14, Zenon DEF Entered

\* The insertion keeps the invariant, whoever does it: AddAddress, or the
\* goroutine t that is to rely on the new endpoint, or to take the reference of
\* the insertion back.
LEMMA InsertKeeps ==
  ASSUME NicInv, NEW a \in Locals, NEW biased \in BOOLEAN, CanCreate, ~Alive(map[a]),
         Inserted(a, biased), NEW f, f = Fresh, NEW t,
         UNCHANGED <<echo, replier>>,
         DOMAIN thread' = Threads, \A u \in Threads : ThreadOK(thread'[u]),
         \A x \in Objects : x # f => /\ Uses(x)' = Uses(x)
                                     /\ Doomed(x)' <=> Doomed(x),
         Uses(f)' = (IF biased THEN 0 ELSE 1), ~Doomed(f)',
         \A u \in Threads : thread'[u].pc = "made" =>
           \/ thread'[u] = thread[u]
           \/ u = t /\ thread'[u].obj = f /\ biased /\ owned' = owned,
         owned' = owned \/ (biased /\ owned' = owned \cup {a})
  PROVE  NicInv'
<1>0. Entered(a, biased, f)
  BY InsertedAgrees
<1>1. /\ ref' \in [Objects -> Record] /\ map' = [map EXCEPT ![a] = f]
      /\ primary' \in Seq(Objects)
      /\ ref'[f] = [addr |-> a, refs |-> 1, holdsInsertRef |-> biased, open |-> TRUE]
      /\ \A x \in Objects : x # f =>
           /\ ref'[x].addr = ref[x].addr /\ ref'[x].refs = ref[x].refs
           /\ ref'[x].holdsInsertRef = ref[x].holdsInsertRef
           /\ ref'[x].open = (ref[x].open /\ x # map[a])
      /\ MapInv' /\ ListInv' /\ nicPanic' = FALSE
  BY <1>0, Zenon DEF Entered
<1>2. /\ f \in Objects /\ ~ref[f].open /\ ref[f].refs = 0
      /\ echo[f] = 0 /\ replier[f] = "wait"
      /\ \A b \in Locals : map[b] # f
      /\ \A u \in Threads : thread[u].obj # f
  BY FreshIsUnused
<1>3. /\ map[a] # None => /\ map[a] \in Objects /\ ref[map[a]].refs = 0
                          /\ ~ref[map[a]].holdsInsertRef
      /\ a \notin owned
      /\ \A u \in Threads : thread[u].pc = "made" =>
           thread[u].obj # map[a] /\ ref[thread[u].obj].addr # a
  BY DeadIsNobodys
<1>4. /\ map \in [Locals -> Objects \cup {None}] /\ owned \subseteq Locals
      /\ echo \in [Objects -> Nat] /\ replier \in [Objects -> {"wait", "reply", "zero"}]
  BY DEF NicInv, NicTypeOK
<1>5. NicTypeOK'
  <2>1. map' \in [Locals -> Objects \cup {None}]
    BY <1>1, <1>2, <1>4
  <2>2. owned' \subseteq Locals
    BY <1>4
  <2> QED BY <1>1, <1>4, <2>1, <2>2 DEF NicTypeOK
<1>6. RefsInv'
  <2> SUFFICES ASSUME NEW x \in Objects
               PROVE  ref'[x].refs = Uses(x)' + echo'[x] + Others(x)'
    BY DEF RefsInv
  <2>1. CASE x # f
    <3>1. /\ ref'[x].refs = ref[x].refs /\ ref'[x].holdsInsertRef = ref[x].holdsInsertRef
          /\ Uses(x)' = Uses(x) /\ echo'[x] = echo[x] /\ replier'[x] = replier[x]
      BY <1>1, <2>1
    <3>2. Others(x)' = Others(x)
      BY <3>1 DEF Others
    <3>3. ref[x].refs = Uses(x) + echo[x] + Others(x)
      BY RefsNeeded
    <3> QED BY <3>1, <3>2, <3>3
  <2>2. CASE x = f
    <3>1. /\ ref'[f].refs = 1 /\ ref'[f].holdsInsertRef = biased
          /\ echo'[f] = 0 /\ replier'[f] = "wait"
      BY <1>1, <1>2
    <3>2. Others(f)' = IF biased THEN 1 ELSE 0
      BY <3>1 DEF Others
    <3>3. CASE biased
      <4>1. Uses(f)' = 0 /\ Others(f)' = 1
        BY <3>2, <3>3, Zenon
      <4> QED BY <2>2, <3>1, <4>1
    <3>4. CASE ~biased
      <4>1. Uses(f)' = 1 /\ Others(f)' = 0
        BY <3>2, <3>4, Zenon
      <4> QED BY <2>2, <3>1, <4>1
    <3> QED BY <3>3, <3>4
  <2> QED BY <2>1, <2>2
<1>7. LifeInv'
  <2> SUFFICES ASSUME NEW x \in Objects
               PROVE  /\ ref'[x].refs > 0 => ref'[x].open
                      /\ Doomed(x)' => ref'[x].refs = 0
                      /\ ref'[x].open /\ ref'[x].refs = 0 => Doomed(x)'
    BY DEF LifeInv
  <2>1. CASE x # f
    <3>1. /\ ref[x].refs > 0 => ref[x].open
          /\ Doomed(x) => ref[x].refs = 0
          /\ ref[x].open /\ ref[x].refs = 0 => Doomed(x)
      BY Zenon DEF NicInv, LifeInv
    <3>2. /\ ref'[x].refs = ref[x].refs /\ ref'[x].open = (ref[x].open /\ x # map[a])
          /\ Doomed(x)' <=> Doomed(x)
      BY <1>1, <2>1
    <3>3. ref[x].refs > 0 => x # map[a]
      <4>1. x # None
        BY NicAssumption DEF None
      <4> QED BY <1>3, <4>1
    <3> QED BY <3>1, <3>2, <3>3
  <2>2. CASE x = f
    <3>1. ref'[f].refs = 1 /\ ref'[f].open /\ ~Doomed(f)'
      BY <1>1
    <3> QED BY <2>2, <3>1
  <2> QED BY <2>1, <2>2
<1>8. MadeInv'
  <2> DEFINE known(u) == thread'[u] = thread[u] /\ thread[u].obj # f
             new(u)   == u = t /\ thread'[u].obj = f /\ biased /\ owned' = owned
  <2>1. \A u \in Threads : thread'[u].pc = "made" => known(u) \/ new(u)
    BY <1>2, Zenon
  <2>2. ASSUME NEW u \in Threads, thread'[u].pc = "made"
        PROVE  ref'[thread'[u].obj].holdsInsertRef /\ ref'[thread'[u].obj].addr \notin owned'
    <3>1. CASE known(u)
      <4>1. PICK x : x = thread[u].obj
        OBVIOUS
      <4>2. x \in Objects /\ x # f /\ thread'[u].obj = x /\ thread[u].pc = "made"
        BY <2>2, <3>1, <4>1 DEF ThreadOK
      <4>3. ref[x].holdsInsertRef /\ ref[x].addr \notin owned /\ ref[x].addr # a
        BY <1>3, <4>1, <4>2 DEF NicInv, MadeInv
      <4>4. ref'[x].holdsInsertRef = ref[x].holdsInsertRef /\ ref'[x].addr = ref[x].addr
        BY <1>1, <4>2
      <4>5. ref'[x].holdsInsertRef /\ ref'[x].addr \notin owned'
        BY <4>3, <4>4
      <4> QED BY <4>2, <4>5
    <3>2. CASE new(u)
      <4>1. ref'[f].holdsInsertRef /\ ref'[f].addr = a /\ owned' = owned /\ thread'[u].obj = f
        BY <1>1, <3>2
      <4> QED BY <1>3, <4>1
    <3> QED BY <2>1, <2>2, <3>1, <3>2
  <2>3. ASSUME NEW u \in Threads, NEW v \in Threads, thread'[u].pc = "made",
               thread'[v].pc = "made", thread'[u].obj = thread'[v].obj
        PROVE  u = v
    <3>1. CASE new(u) \/ new(v)
      BY <2>1, <2>3, <3>1, Zenon
    <3>2. CASE known(u) /\ known(v)
      <4>1. thread[u].pc = "made" /\ thread[v].pc = "made" /\ thread[u].obj = thread[v].obj
        BY <2>3, <3>2
      <4> QED BY <4>1 DEF NicInv, MadeInv
    <3> QED BY <2>1, <2>3, <3>1, <3>2, Zenon
  <2> QED BY <2>2, <2>3, Zenon DEF MadeInv
<1>9. OwnedIsServed'
  <2> SUFFICES ASSUME NEW c \in owned'
               PROVE  map'[c] # None /\ ref'[map'[c]].open /\ ref'[map'[c]].holdsInsertRef
    BY DEF OwnedIsServed
  <2>1. CASE c = a
    <3>1. biased
      BY <1>3, <2>1
    <3>2. map'[c] = f /\ f # None
      BY <1>1, <1>2, <1>4, <2>1, NicAssumption DEF None
    <3> QED BY <1>1, <3>1, <3>2
  <2>2. CASE c # a
    <3>1. c \in owned /\ c \in Locals
      BY <1>4, <2>2
    <3>2. map[c] # None /\ ref[map[c]].open /\ ref[map[c]].holdsInsertRef
      BY <3>1, Zenon DEF NicInv, OwnedIsServed
    <3>3. PICK x : x = map[c]
      OBVIOUS
    <3>4. x \in Objects /\ x # f /\ map'[c] = x
      BY <1>1, <1>2, <1>4, <2>2, <3>1, <3>2, <3>3
    <3>5. x # map[a]
      <4> SUFFICES ASSUME map[c] = map[a]
                   PROVE  FALSE
        BY <3>3
      <4>1. ref[map[c]].addr = c /\ ref[map[a]].addr = a
        BY <3>1, <3>2 DEF NicInv, MapInv
      <4> QED BY <2>2, <4>1
    <3>6. ref'[x].open /\ ref'[x].holdsInsertRef
      BY <1>1, <3>2, <3>3, <3>4, <3>5
    <3> QED BY <3>2, <3>3, <3>4, <3>6
  <2> QED BY <2>1, <2>2
<1> QED BY <1>1, <1>5, <1>6, <1>7, <1>8, <1>9 DEF NicInv, NicNoPanic

\* AddAddress inserts an endpoint with the reference of the insertion.
LEMMA AddAddressStep ==
  ASSUME NicInv, NEW a \in Locals, AddAddress(a)
  PROVE  NicInv'
<1>1. PICK f : f = Fresh
  OBVIOUS
<1>2. /\ CanCreate /\ Inserted(a, TRUE) /\ owned' = owned \cup {a}
      /\ UNCHANGED <<echo, replier, thread>>
  BY DEF AddAddress
<1>3. ~Alive(map[a])
  BY DEF AddAddress, Alive
<1>4. \A x, pc : At(x, pc)' = At(x, pc) /\ Uses(x)' = Uses(x)
  BY <1>2, NobodyMoves
<1>5. \A x : Doomed(x)' <=> Doomed(x)
  BY <1>2, <1>4 DEF Doomed
<1>6. Uses(f) = 0 /\ ~Doomed(f)
  BY <1>1, <1>2, FreshIsUnused
<1>7. Uses(f)' = (IF TRUE THEN 0 ELSE 1) /\ ~Doomed(f)'
  BY <1>4, <1>5, <1>6
<1>8. /\ DOMAIN thread' = Threads /\ \A u \in Threads : ThreadOK(thread'[u])
      /\ \A u \in Threads : thread'[u].pc = "made" => thread'[u] = thread[u]
  BY <1>2 DEF NicInv, NicTypeOK
<1> QED BY <1>1, <1>2, <1>3, <1>4, <1>5, <1>7, <1>8, InsertKeeps

\* The goroutine that makes an endpoint because no other serves the address.
LEMMA MakeStep ==
  ASSUME NicInv, NEW t \in Threads, NEW a \in Locals, NEW biased \in BOOLEAN,
         thread[t].pc \in {"receiving", "finding"}, ~Alive(map[a]), CanCreate,
         Inserted(a, biased),
         Goto(t, IF biased THEN "made" ELSE "holding", a, Fresh),
         UNCHANGED <<echo, replier, owned>>
  PROVE  NicInv'
<1>1. PICK f : f = Fresh
  OBVIOUS
<1>2. PICK r : r = [pc |-> IF biased THEN "made" ELSE "holding", addr |-> a, obj |-> f]
  OBVIOUS
<1>3. /\ f \in Objects /\ Uses(f) = 0 /\ ~Doomed(f)
      /\ \A u \in Threads : thread[u].obj # f
  BY <1>1, FreshIsUnused
<1>4. /\ r.obj = f /\ r.pc # "zero" /\ r.pc # "dropping"
      /\ r.pc = "made" <=> biased
      /\ r.pc = "holding" <=> ~biased
  BY <1>2
<1>5. DOMAIN thread = Threads /\ NicTypeOK /\ Moved(t, r) /\ ThreadOK(r)
  BY <1>1, <1>2, <1>3 DEF Goto, Moved, NicInv, NicTypeOK, ThreadOK
<1>6. DOMAIN thread' = Threads /\ \A u \in Threads : ThreadOK(thread'[u])
  BY <1>5, ThreadsStayOK, Zenon
<1>7. thread'[t] = r /\ \A u \in Threads : u # t => thread'[u] = thread[u]
  BY <1>5, ThreadMoves, Zenon
<1>8. \A x : Doomed(x)' <=> Doomed(x)
  <2> SUFFICES ASSUME NEW x
               PROVE  Doomed(x)' <=> Doomed(x)
    OBVIOUS
  <2>1. thread[t].pc # "zero" /\ replier'[x] = replier[x]
    OBVIOUS
  <2> QED BY <1>4, <1>5, <2>1, LeavingStays, Zenon
<1>9. \A x : /\ Uses(x) \in Nat /\ Uses(x)' \in Nat
             /\ ~Relies(thread[t], x) /\ Relies(r, x) => Uses(x)' = Uses(x) + 1
             /\ (Relies(thread[t], x) <=> Relies(r, x)) => Uses(x)' = Uses(x)
  BY <1>5, UsesCount, Zenon
<1>10. \A x : ~Relies(thread[t], x) /\ (Relies(r, x) <=> x = f /\ ~biased)
  BY <1>4 DEF Relies
<1>11. \A x \in Objects : x # f => Uses(x)' = Uses(x) /\ (Doomed(x)' <=> Doomed(x))
  BY <1>8, <1>9, <1>10, Zenon
<1>12. Uses(f)' = (IF biased THEN 0 ELSE 1) /\ ~Doomed(f)'
  <2>1. /\ ~biased => Uses(f)' = Uses(f) + 1
        /\ biased => Uses(f)' = Uses(f)
    BY <1>9, <1>10, Zenon
  <2>2. CASE biased
    BY <1>3, <1>8, <2>1, <2>2
  <2>3. CASE ~biased
    <3>1. Uses(f)' = 1
      BY <1>3, <2>1, <2>3
    <3> QED BY <1>3, <1>8, <2>3, <3>1
  <2> QED BY <2>2, <2>3
<1>13. \A u \in Threads : thread'[u].pc = "made" =>
         \/ thread'[u] = thread[u]
         \/ u = t /\ thread'[u].obj = f /\ biased /\ owned' = owned
  BY <1>4, <1>7
<1> QED BY <1>1, <1>6, <1>11, <1>12, <1>13, InsertKeeps

\* findEndpoint makes an endpoint and takes the reference that it is made with.
LEMMA MakeSpoofedStep ==
  ASSUME NicInv, NEW t \in Threads, MakeSpoofed(t)
  PROVE  NicInv'
<1>1. PICK a : a = thread[t].addr
  OBVIOUS
<1>2. /\ thread[t].pc = "finding" /\ ~Alive(map[a]) /\ CanCreate /\ Inserted(a, FALSE)
      /\ Goto(t, "holding", a, Fresh) /\ UNCHANGED <<echo, replier, owned>>
  BY <1>1 DEF MakeSpoofed
<1>3. a \in Locals
  BY <1>1, <1>2 DEF NicInv, NicTypeOK, ThreadOK
<1>4. Goto(t, IF FALSE THEN "made" ELSE "holding", a, Fresh)
  BY <1>2
<1> QED BY <1>2, <1>3, <1>4, MakeStep

\* getRef makes an endpoint, with the reference of the insertion.
LEMMA MakeTemporaryStep ==
  ASSUME NicInv, NEW t \in Threads, MakeTemporary(t)
  PROVE  NicInv'
<1>1. PICK a : a = thread[t].addr
  OBVIOUS
<1>2. /\ thread[t].pc = "receiving" /\ ~Alive(map[a]) /\ CanCreate /\ Inserted(a, TRUE)
      /\ Goto(t, "made", a, Fresh) /\ UNCHANGED <<echo, replier, owned>>
  BY <1>1 DEF MakeTemporary
<1>3. a \in Locals
  BY <1>1, <1>2 DEF NicInv, NicTypeOK, ThreadOK
<1>4. Goto(t, IF TRUE THEN "made" ELSE "holding", a, Fresh)
  BY <1>2
<1> QED BY <1>2, <1>3, <1>4, MakeStep

-----------------------------------------------------------------------------
(* An endpoint is removed. *)

\* After the removal of o, which has no references: it is closed, and the map
\* and the list agree with the endpoints, whether o was still in them or had
\* been replaced.
LEMMA RemovedAgrees ==
  ASSUME NicInv, NEW o \in Objects, ref[o].refs = 0, Removed(o)
  PROVE  /\ ref' \in [Objects -> Record] /\ map' \in [Locals -> Objects \cup {None}]
         /\ primary' \in Seq(Objects)
         /\ \A x \in Objects :
              /\ ref'[x].addr = ref[x].addr /\ ref'[x].refs = ref[x].refs
              /\ ref'[x].holdsInsertRef = ref[x].holdsInsertRef
              /\ ref'[x].open = (ref[x].open /\ x # o)
         /\ \A b \in Locals : map[b] # o => map'[b] = map[b]
         /\ MapInv' /\ ListInv' /\ nicPanic' = FALSE
<1>1. /\ ref \in [Objects -> Record] /\ map \in [Locals -> Objects \cup {None}]
      /\ primary \in Seq(Objects) /\ ref[o] \in Record
  BY DEF NicInv, NicTypeOK
<1>2. ~ref[o].holdsInsertRef
  BY RefsNeeded
<1>3. nicPanic' = FALSE
  BY <1>2 DEF Removed, NicInv, NicNoPanic
<1>4. ref[o].open => ref[o].addr \in Locals /\ Removes(o)
  BY DEF NicInv, MapInv, Removes
<1>5. /\ ref' \in [Objects -> Record]
      /\ \A x \in Objects :
           /\ ref'[x].addr = ref[x].addr /\ ref'[x].refs = ref[x].refs
           /\ ref'[x].holdsInsertRef = ref[x].holdsInsertRef
           /\ ref'[x].open = (ref[x].open /\ x # o)
  <2>1. CASE Removes(o)
    <3>1. ref' = [ref EXCEPT ![o].open = FALSE]
      BY <2>1 DEF Removed
    <3>2. ref' \in [Objects -> Record]
      BY <1>1, <3>1 DEF Record
    <3>3. ASSUME NEW x \in Objects
          PROVE  /\ ref'[x].addr = ref[x].addr /\ ref'[x].refs = ref[x].refs
                 /\ ref'[x].holdsInsertRef = ref[x].holdsInsertRef
                 /\ ref'[x].open = (ref[x].open /\ x # o)
      <4>1. ref[x] \in Record
        BY <1>1
      <4> QED BY <1>1, <3>1, <4>1 DEF Record
    <3> QED BY <3>2, <3>3
  <2>2. CASE ~Removes(o)
    <3>1. ref' = ref /\ ~ref[o].open
      BY <1>4, <2>2 DEF Removed
    <3>2. \A x \in Objects : ref[x].open \in BOOLEAN
      BY <1>1 DEF Record
    <3> QED BY <1>1, <3>1, <3>2
  <2> QED BY <2>1, <2>2
<1>6. map' = IF Removes(o) THEN [map EXCEPT ![ref[o].addr] = None] ELSE map
  BY DEF Removed
<1>7. map' \in [Locals -> Objects \cup {None}]
  BY <1>1, <1>6
<1>8. ASSUME NEW b \in Locals, map[b] # o
      PROVE  map'[b] = map[b]
  BY <1>1, <1>6, <1>8 DEF Removes
<1>9. ASSUME NEW b \in Locals, map[b] = o
      PROVE  map'[b] = None
  <2>1. map[b] # None
    BY <1>9, NicAssumption DEF None
  <2>2. ref[o].open /\ ref[o].addr = b
    BY <1>9, <2>1, Zenon DEF NicInv, MapInv
  <2> QED BY <1>1, <1>4, <1>6, <2>2
<1>10. MapInv'
  <2>1. ASSUME NEW x \in Objects, ref'[x].open
        PROVE  ref'[x].addr \in Locals /\ map'[ref'[x].addr] = x
    <3>1. ref[x].open /\ x # o /\ ref'[x].addr = ref[x].addr
      BY <1>5, <2>1
    <3>2. ref[x].addr \in Locals /\ map[ref[x].addr] = x
      BY <3>1, Zenon DEF NicInv, MapInv
    <3> QED BY <1>8, <3>1, <3>2
  <2>2. ASSUME NEW b \in Locals, map'[b] # None
        PROVE  ref'[map'[b]].open /\ ref'[map'[b]].addr = b
    <3>1. map[b] # o /\ map'[b] = map[b]
      BY <1>8, <1>9, <2>2, Zenon
    <3>2. map[b] \in Objects
      BY <1>1, <2>2, <3>1
    <3>3. ref[map[b]].open /\ ref[map[b]].addr = b
      BY <2>2, <3>1, Zenon DEF NicInv, MapInv
    <3> QED BY <1>5, <3>1, <3>2, <3>3
  <2> QED BY <2>1, <2>2 DEF MapInv
<1>11. primary' \in Seq(Objects) /\ ListInv'
  <2>1. PICK w : w = Unlisted(o)
    OBVIOUS
  <2>2. OnceEach(primary) /\ IsFiniteSet(ToSet(primary))
        /\ Len(primary) = Cardinality(ToSet(primary))
    BY DEF NicInv, ListInv, OnceEach
  <2>3. /\ w \in Seq(Objects) /\ OnceEach(w) /\ ToSet(w) = ToSet(primary) \ {o}
        /\ Len(w) = IF o \in ToSet(primary) THEN Len(primary) - 1 ELSE Len(primary)
    <3>1. w = IF o \in ToSet(primary)
              THEN RemoveAt(primary, CHOOSE i \in DOMAIN primary : primary[i] = o)
              ELSE primary
      BY <2>1 DEF Unlisted
    <3> QED BY <1>1, <2>2, <3>1, ListWithout
  <2>4. IsFiniteSet(ToSet(w)) /\ Cardinality(ToSet(w)) = Len(w)
    <3>1. /\ IsFiniteSet(ToSet(primary) \ {o})
          /\ Cardinality(ToSet(primary) \ {o}) =
               IF o \in ToSet(primary) THEN Cardinality(ToSet(primary)) - 1
                                       ELSE Cardinality(ToSet(primary))
      BY <2>2, FS_RemoveElement, Zenon
    <3> QED BY <2>2, <2>3, <3>1, Zenon
  <2>5. \A x \in Objects : ref[x].open <=> x \in ToSet(primary)
    BY Zenon DEF NicInv, ListInv
  <2>6. primary' = IF Removes(o) THEN w ELSE primary
    BY <2>1 DEF Removed
  <2>7. /\ primary' \in Seq(Objects) /\ OnceEach(primary')
        /\ ToSet(primary') = ToSet(primary) \ {o}
        /\ IsFiniteSet(ToSet(primary')) /\ Cardinality(ToSet(primary')) = Len(primary')
    <3>1. CASE Removes(o)
      BY <2>3, <2>4, <2>6, <3>1, Zenon
    <3>2. CASE ~Removes(o)
      <4>1. o \notin ToSet(primary) /\ primary' = primary
        BY <1>4, <2>5, <2>6, <3>2
      <4>2. ToSet(primary) = ToSet(primary) \ {o}
        BY <4>1
      <4> QED BY <1>1, <2>2, <4>1, <4>2, Zenon
    <3> QED BY <3>1, <3>2
  <2>8. \A x \in Objects : ref'[x].open <=> x \in ToSet(primary')
    BY <1>5, <2>5, <2>7
  <2>9. \A i, j \in DOMAIN primary' : primary'[i] = primary'[j] => i = j
    BY <2>7 DEF OnceEach
  <2>10. /\ \A x \in Objects : ref'[x].open <=> x \in ToSet(primary)'
         /\ \A i, j \in DOMAIN primary' : primary'[i] = primary'[j] => i = j
         /\ IsFiniteSet(ToSet(primary)') /\ Len(primary)' = Cardinality(ToSet(primary))'
    BY <2>7, <2>8, <2>9
  <2> QED BY <2>7, <2>10 DEF ListInv
<1> QED BY <1>3, <1>5, <1>7, <1>8, <1>10, <1>11

\* The removal keeps the invariant, whoever has taken the count to zero.
LEMMA RemoveKeeps ==
  ASSUME NicInv, NEW o \in Objects, ref[o].refs = 0, Removed(o),
         UNCHANGED <<echo, owned>>,
         replier' \in [Objects -> {"wait", "reply", "zero"}],
         \A x \in Objects : replier'[x] = "reply" <=> replier[x] = "reply",
         DOMAIN thread' = Threads, \A u \in Threads : ThreadOK(thread'[u]),
         \A u \in Threads : thread'[u].pc = "made" => thread'[u] = thread[u],
         \A x \in Objects : Uses(x)' = Uses(x),
         \A x \in Objects : x # o => (Doomed(x)' <=> Doomed(x))
  PROVE  NicInv'
<1>1. /\ ref' \in [Objects -> Record] /\ map' \in [Locals -> Objects \cup {None}]
      /\ primary' \in Seq(Objects)
      /\ \A x \in Objects :
           /\ ref'[x].addr = ref[x].addr /\ ref'[x].refs = ref[x].refs
           /\ ref'[x].holdsInsertRef = ref[x].holdsInsertRef
           /\ ref'[x].open = (ref[x].open /\ x # o)
      /\ \A b \in Locals : map[b] # o => map'[b] = map[b]
      /\ MapInv' /\ ListInv' /\ nicPanic' = FALSE
  BY RemovedAgrees, Zenon
<1>2. ~ref[o].holdsInsertRef
  BY RefsNeeded
<1>3. NicTypeOK'
  BY <1>1 DEF NicInv, NicTypeOK
<1>4. RefsInv'
  <2> SUFFICES ASSUME NEW x \in Objects
               PROVE  ref'[x].refs = Uses(x)' + echo'[x] + Others(x)'
    BY DEF RefsInv
  <2>1. ref'[x].refs = ref[x].refs /\ ref'[x].holdsInsertRef = ref[x].holdsInsertRef
    BY <1>1, Zenon
  <2>2. Others(x)' = Others(x)
    BY <2>1 DEF Others
  <2>3. ref[x].refs = Uses(x) + echo[x] + Others(x)
    BY RefsNeeded
  <2> QED BY <2>1, <2>2, <2>3
<1>5. LifeInv'
  <2> SUFFICES ASSUME NEW x \in Objects
               PROVE  /\ ref'[x].refs > 0 => ref'[x].open
                      /\ Doomed(x)' => ref'[x].refs = 0
                      /\ ref'[x].open /\ ref'[x].refs = 0 => Doomed(x)'
    BY DEF LifeInv
  <2>1. ref'[x].refs = ref[x].refs /\ ref'[x].open = (ref[x].open /\ x # o)
    BY <1>1, Zenon
  <2>2. /\ ref[x].refs > 0 => ref[x].open
        /\ Doomed(x) => ref[x].refs = 0
        /\ ref[x].open /\ ref[x].refs = 0 => Doomed(x)
    BY Zenon DEF NicInv, LifeInv
  <2>3. CASE x = o
    <3>1. ref'[x].refs = 0 /\ ~ref'[x].open
      BY <2>1, <2>3
    <3> QED BY <3>1
  <2>4. CASE x # o
    BY <2>1, <2>2, <2>4
  <2> QED BY <2>3, <2>4
<1>6. MadeInv'
  <2>1. ASSUME NEW u \in Threads, thread'[u].pc = "made"
        PROVE  /\ thread'[u] = thread[u]
               /\ ref[thread[u].obj].holdsInsertRef => ref'[thread[u].obj].holdsInsertRef
               /\ ref'[thread[u].obj].addr = ref[thread[u].obj].addr
    <3>1. thread'[u] = thread[u]
      BY <2>1, Zenon
    <3>2. thread[u].obj \in Objects
      BY <2>1, <3>1 DEF ThreadOK
    <3> QED BY <1>1, <3>1, <3>2
  <2>2. owned' \subseteq owned
    OBVIOUS
  <2> QED BY <2>1, <2>2, SameMade, Zenon DEF NicInv
<1>7. OwnedIsServed'
  <2> SUFFICES ASSUME NEW c \in owned'
               PROVE  map'[c] # None /\ ref'[map'[c]].open /\ ref'[map'[c]].holdsInsertRef
    BY DEF OwnedIsServed
  <2>1. map[c] # None /\ ref[map[c]].open /\ ref[map[c]].holdsInsertRef
    BY Zenon DEF NicInv, OwnedIsServed
  <2>2. c \in Locals
    BY DEF NicInv, NicTypeOK
  <2>3. map[c] \in Objects /\ map[c] # o
    BY <1>2, <2>1, <2>2 DEF NicInv, NicTypeOK
  <2>4. map'[c] = map[c]
    BY <1>1, <2>2, <2>3, Zenon
  <2>5. ref'[map[c]].open = ref[map[c]].open
        /\ ref'[map[c]].holdsInsertRef = ref[map[c]].holdsInsertRef
    BY <1>1, <2>1, <2>3
  <2> QED BY <2>1, <2>4, <2>5
<1> QED BY <1>1, <1>3, <1>4, <1>5, <1>6, <1>7 DEF NicInv, NicNoPanic

\* The goroutine that took the count to zero removes the endpoint.
LEMMA RemoveEndpointStep ==
  ASSUME NicInv, NEW t \in Threads, RemoveEndpoint(t)
  PROVE  NicInv'
<1>1. PICK o : o = thread[t].obj
  OBVIOUS
<1>2. /\ thread[t].pc = "zero" /\ Removed(o) /\ Moved(t, Resting)
      /\ UNCHANGED <<echo, replier, owned>>
  BY <1>1 DEF RemoveEndpoint, Moved
<1>3. o \in Objects /\ Doomed(o)
  BY <1>1, <1>2 DEF NicInv, NicTypeOK, ThreadOK, Doomed, At
<1>4. ref[o].refs = 0
  BY <1>3, Zenon DEF NicInv, LifeInv
<1>5. /\ DOMAIN thread = Threads /\ NicTypeOK /\ ThreadOK(Resting)
      /\ Resting.pc = "idle" /\ replier' \in [Objects -> {"wait", "reply", "zero"}]
  BY <1>2 DEF NicInv, NicTypeOK, ThreadOK, Resting
<1>6. DOMAIN thread' = Threads /\ \A u \in Threads : ThreadOK(thread'[u])
  BY <1>2, <1>5, ThreadsStayOK, Zenon
<1>7. thread'[t] = Resting /\ \A u \in Threads : u # t => thread'[u] = thread[u]
  BY <1>2, <1>5, ThreadMoves, Zenon
<1>8. \A u \in Threads : thread'[u].pc = "made" => thread'[u] = thread[u]
  BY <1>5, <1>7
<1>9. \A x \in Objects : Uses(x)' = Uses(x)
  <2> SUFFICES ASSUME NEW x \in Objects
               PROVE  Uses(x)' = Uses(x)
    OBVIOUS
  <2>1. ~Relies(thread[t], x) /\ ~Relies(Resting, x)
    BY <1>2, <1>5 DEF Relies
  <2> QED BY <1>2, <1>5, <2>1, UsesCount, Zenon
<1>10. \A x \in Objects : x # o => (Doomed(x)' <=> Doomed(x))
  <2> SUFFICES ASSUME NEW x \in Objects, x # o
               PROVE  Doomed(x)' <=> Doomed(x)
    OBVIOUS
  <2>1. At(x, "zero")' = At(x, "zero")
    BY <1>1, <1>5, <1>7 DEF At
  <2> QED BY <1>2, <2>1 DEF Doomed
<1>11. \A x \in Objects : replier'[x] = "reply" <=> replier[x] = "reply"
  BY <1>2
<1> QED BY <1>2, <1>3, <1>4, <1>5, <1>6, <1>8, <1>9, <1>10, <1>11, RemoveKeeps

\* And so does the replier.
LEMMA ReplierRemovesStep ==
  ASSUME NicInv, NEW o \in Objects, ReplierRemoves(o)
  PROVE  NicInv'
<1>1. /\ replier[o] = "zero" /\ Removed(o) /\ replier' = [replier EXCEPT ![o] = "wait"]
      /\ UNCHANGED <<echo, thread, owned>>
  BY DEF ReplierRemoves
<1>2. ref[o].refs = 0
  BY <1>1 DEF NicInv, LifeInv, Doomed
<1>3. replier \in [Objects -> {"wait", "reply", "zero"}]
  BY DEF NicInv, NicTypeOK
<1>4. /\ replier' \in [Objects -> {"wait", "reply", "zero"}]
      /\ \A x \in Objects : replier'[x] = "reply" <=> replier[x] = "reply"
  BY <1>1, <1>3
<1>5. \A x, pc : At(x, pc)' = At(x, pc) /\ Uses(x)' = Uses(x)
  BY <1>1, NobodyMoves
<1>6. \A x \in Objects : x # o => (Doomed(x)' <=> Doomed(x))
  BY <1>1, <1>3, <1>5 DEF Doomed
<1>7. /\ DOMAIN thread' = Threads /\ \A u \in Threads : ThreadOK(thread'[u])
      /\ \A u \in Threads : thread'[u].pc = "made" => thread'[u] = thread[u]
  BY <1>1 DEF NicInv, NicTypeOK
<1> QED BY <1>1, <1>2, <1>4, <1>5, <1>6, <1>7, RemoveKeeps

-----------------------------------------------------------------------------
(* The steps in which goroutines look endpoints up. *)

\* getRef and findEndpoint, under the read lock.
LEMMA LookupStep ==
  ASSUME NicInv, NEW t \in Threads, NEW a \in Locals, NEW after \in {"receiving", "finding"},
         Lookup(t, a, after)
  PROVE  NicInv'
<1>1. Bystander(thread[t])
  BY DEF Lookup, Bystander
<1>2. PICK o : o = map[a]
  OBVIOUS
<1>3. o \in Objects \cup {None}
  BY <1>2 DEF NicInv, NicTypeOK
<1>4. CASE Alive(o)
  <2>1. o \in Objects /\ ref[o].refs # 0
    BY <1>3, <1>4 DEF Alive
  <2>2. /\ ref' = [ref EXCEPT ![o].refs = @ + 1] /\ Goto(t, "holding", a, o)
        /\ UNCHANGED <<map, primary, echo, replier, owned, nicPanic>>
    BY <1>2, <1>4 DEF Lookup
  <2> QED BY <1>1, <2>1, <2>2, TakesRef
<1>5. CASE ~Alive(o)
  <2>1. PICK r : r = [pc |-> after, addr |-> a, obj |-> None]
    OBVIOUS
  <2>2. /\ Moved(t, r) /\ UNCHANGED ref
        /\ UNCHANGED <<map, primary, echo, replier, owned, nicPanic>>
    BY <1>2, <1>5, <2>1 DEF Lookup, Goto, Moved
  <2>3. Bystander(r) /\ ThreadOK(r)
    BY <2>1 DEF Bystander, ThreadOK
  <2> QED BY <1>1, <2>2, <2>3, Wanders
<1> QED BY <1>4, <1>5

\* Both, when somebody else has made the endpoint meanwhile.
LEMMA LookupAgainStep ==
  ASSUME NicInv, NEW t \in Threads, LookupAgain(t)
  PROVE  NicInv'
<1>1. PICK a : a = thread[t].addr
  OBVIOUS
<1>2. PICK o : o = map[a]
  OBVIOUS
<1>3. /\ thread[t].pc \in {"receiving", "finding"} /\ Alive(o)
      /\ ref' = [ref EXCEPT ![o].refs = @ + 1] /\ Goto(t, "holding", a, o)
      /\ UNCHANGED <<map, primary, echo, replier, owned, nicPanic>>
  BY <1>1, <1>2 DEF LookupAgain
<1>4. o \in Objects /\ ref[o].refs # 0 /\ Bystander(thread[t])
  BY <1>1, <1>2, <1>3 DEF NicInv, NicTypeOK, ThreadOK, Alive, Bystander
<1> QED BY <1>3, <1>4, TakesRef

\* primaryEndpoint takes the first that is alive.
LEMMA FindPrimaryStep ==
  ASSUME NicInv, NEW t \in Threads, FindPrimary(t)
  PROVE  NicInv'
<1>1. PICK i \in DOMAIN primary :
        /\ Alive(primary[i])
        /\ ref' = [ref EXCEPT ![primary[i]].refs = @ + 1]
        /\ Goto(t, "holding", ref[primary[i]].addr, primary[i])
  BY DEF FindPrimary
<1>2. PICK o : o = primary[i]
  OBVIOUS
<1>3. PICK a : a = ref[o].addr
  OBVIOUS
<1>4. o \in Objects
  <2>1. primary \in Seq(Objects)
    BY DEF NicInv, NicTypeOK
  <2> QED BY <1>2, <2>1
<1>5. ref[o].refs # 0 /\ Bystander(thread[t])
  BY <1>1, <1>2 DEF Alive, FindPrimary, Bystander
<1>6. /\ ref' = [ref EXCEPT ![o].refs = @ + 1] /\ Goto(t, "holding", a, o)
      /\ UNCHANGED <<map, primary, echo, replier, owned, nicPanic>>
  BY <1>1, <1>2, <1>3 DEF FindPrimary
<1> QED BY <1>4, <1>5, <1>6, TakesRef

\* A forwarded packet finds an endpoint and takes nothing yet.
LEMMA ForwardStep ==
  ASSUME NicInv, NEW t \in Threads, NEW a \in Locals, Forward(t, a)
  PROVE  NicInv'
<1>1. PICK r : r = [pc |-> "forwarding", addr |-> a, obj |-> map[a]]
  OBVIOUS
<1>2. Moved(t, r) /\ UNCHANGED <<ref, map, primary, echo, replier, owned, nicPanic>>
  BY <1>1 DEF Forward, Goto, Moved
<1>3. Bystander(r) /\ Bystander(thread[t]) /\ ThreadOK(r)
  BY <1>1 DEF Bystander, ThreadOK, Forward, NicInv, NicTypeOK
<1> QED BY <1>2, <1>3, Wanders

\* It takes the reference, or passes over an endpoint that has died.
LEMMA ForwardDeliversStep ==
  ASSUME NicInv, NEW t \in Threads, ForwardDelivers(t)
  PROVE  NicInv'
<1>1. PICK o : o = thread[t].obj
  OBVIOUS
<1>2. thread[t].pc = "forwarding" /\ Bystander(thread[t])
      /\ UNCHANGED <<map, primary, echo, replier, owned, nicPanic>>
  BY DEF ForwardDelivers, Bystander
<1>3. o \in Objects
  BY <1>1, <1>2 DEF NicInv, NicTypeOK, ThreadOK
<1>4. CASE Alive(o)
  <2>1. PICK a : a = thread[t].addr
    OBVIOUS
  <2>2. ref' = [ref EXCEPT ![o].refs = @ + 1] /\ Goto(t, "holding", a, o)
    BY <1>1, <1>4, <2>1 DEF ForwardDelivers
  <2>3. ref[o].refs # 0
    BY <1>4 DEF Alive
  <2> QED BY <1>2, <1>3, <2>2, <2>3, TakesRef
<1>5. CASE ~Alive(o)
  <2>1. Moved(t, Resting) /\ UNCHANGED ref
    BY <1>1, <1>5 DEF ForwardDelivers, Moved
  <2>2. Bystander(Resting) /\ ThreadOK(Resting)
    BY DEF Bystander, ThreadOK, Resting
  <2> QED BY <1>2, <2>1, <2>2, Wanders
<1> QED BY <1>4, <1>5

-----------------------------------------------------------------------------
(* The invariant holds, and the properties follow. *)

\* A NIC without endpoints.
LEMMA NicInvInit ==
  ASSUME NicInit
  PROVE  NicInv
<1>1. /\ ref = [o \in Objects |-> [addr |-> None, refs |-> 0, holdsInsertRef |-> FALSE,
                                   open |-> FALSE]]
      /\ map = [a \in Locals |-> None] /\ primary = <<>>
      /\ echo = [o \in Objects |-> 0] /\ replier = [o \in Objects |-> "wait"]
      /\ thread = [t \in Threads |-> Resting]
      /\ owned = {} /\ nicPanic = FALSE
  BY DEF NicInit
<1>2. Resting.pc = "idle" /\ ThreadOK(Resting)
  BY DEF Resting, ThreadOK
<1>3. \A o : At(o, "holding") = {} /\ At(o, "dropping") = {} /\ At(o, "zero") = {}
  BY <1>1, <1>2 DEF At
<1>4. NicTypeOK
  BY <1>1, <1>2 DEF NicTypeOK, Record
<1>5. RefsInv
  <2> SUFFICES ASSUME NEW o \in Objects
               PROVE  ref[o].refs = Uses(o) + echo[o] + Others(o)
    BY DEF RefsInv
  <2>1. Uses(o) = 0
    BY <1>3, FS_EmptySet DEF Uses, Holding
  <2>2. Others(o) = 0
    BY <1>1 DEF Others
  <2> QED BY <1>1, <2>1, <2>2
<1>6. MapInv
  BY <1>1 DEF MapInv
<1>7. ListInv
  <2>1. ToSet(primary) = {} /\ DOMAIN primary = {} /\ Len(primary) = 0
    BY <1>1 DEF ToSet
  <2> QED BY <1>1, <2>1, FS_EmptySet DEF ListInv
<1>8. LifeInv
  BY <1>1, <1>3 DEF LifeInv, Doomed
<1>9. MadeInv
  BY <1>1, <1>2 DEF MadeInv
<1> QED BY <1>1, <1>4, <1>5, <1>6, <1>7, <1>8, <1>9 DEF NicInv, OwnedIsServed, NicNoPanic

\* Every step of the NIC keeps the invariant.
LEMMA NicInvStep ==
  ASSUME OwnerOnly, NicInv, [NicNext]_nicVars
  PROVE  NicInv'
<1>1. ASSUME NEW a \in Locals, AddAddress(a)
      PROVE  NicInv'
  BY <1>1, AddAddressStep
<1>2. ASSUME NEW t \in Threads, NEW a \in Locals,
             RemoveAddress(t, a) \/ Receive(t, a) \/ FindLocal(t, a) \/ Forward(t, a)
      PROVE  NicInv'
  <2>1. CASE RemoveAddress(t, a)
    BY <2>1, RemoveAddressStep
  <2>2. CASE Receive(t, a)
    BY <2>2, LookupStep DEF Receive
  <2>3. CASE FindLocal(t, a)
    BY <2>3, LookupStep DEF FindLocal
  <2>4. CASE Forward(t, a)
    BY <2>4, ForwardStep
  <2> QED BY <1>2, <2>1, <2>2, <2>3, <2>4
<1>3. ASSUME NEW t \in Threads,
             \/ LookupAgain(t) \/ MakeSpoofed(t) \/ MakeTemporary(t) \/ TakeTemporary(t)
             \/ FindPrimary(t) \/ ForwardDelivers(t)
             \/ DecRef(t) \/ RemoveEndpoint(t) \/ Echo(t)
      PROVE  NicInv'
  BY <1>3, LookupAgainStep, MakeSpoofedStep, MakeTemporaryStep, TakeTemporaryStep,
     FindPrimaryStep, ForwardDeliversStep, DecRefStep, RemoveEndpointStep, EchoStep, Zenon
<1>4. ASSUME NEW o \in Objects, ReplierTakes(o) \/ ReplierReleases(o) \/ ReplierRemoves(o)
      PROVE  NicInv'
  BY <1>4, ReplierTakesStep, ReplierReleasesStep, ReplierRemovesStep, Zenon
<1>5. ASSUME UNCHANGED nicVars
      PROVE  NicInv'
  <2>1. UNCHANGED <<ref, map, primary, echo, replier, thread, owned, nicPanic>>
    BY <1>5 DEF nicVars
  <2>2. \A x, pc : At(x, pc)' = At(x, pc) /\ Uses(x)' = Uses(x)
    BY <2>1, NobodyMoves
  <2>3. \A x : (Doomed(x)' <=> Doomed(x)) /\ Others(x)' = Others(x)
    BY <2>1, <2>2 DEF Doomed, Others
  <2>4. RefsInv' /\ LifeInv'
    BY <2>1, <2>2, <2>3 DEF NicInv, RefsInv, LifeInv
  <2>5. NicTypeOK' /\ MapInv' /\ ListInv' /\ MadeInv' /\ OwnedIsServed' /\ NicNoPanic'
    BY <2>1 DEF NicInv, NicTypeOK, MapInv, ListInv, MadeInv, OwnedIsServed, NicNoPanic
  <2> QED BY <2>4, <2>5 DEF NicInv
<1> QED BY <1>1, <1>2, <1>3, <1>4, <1>5 DEF NicNext

\* The count with its parts apart, as RefsAreHolders has them.
LEMMA RefsFromInv ==
  ASSUME NicInv
  PROVE  RefsAreHolders
<1> SUFFICES ASSUME NEW o \in Objects
             PROVE  ref[o].refs = Cardinality(Holding(o)) + echo[o]
                      + Cardinality(At(o, "dropping"))
                      + (IF replier[o] = "reply" THEN 1 ELSE 0)
                      + (IF ref[o].holdsInsertRef THEN 1 ELSE 0)
  BY DEF RefsAreHolders
<1> DEFINE h == Cardinality(Holding(o))
           d == Cardinality(At(o, "dropping"))
           y == IF replier[o] = "reply" THEN 1 ELSE 0
           z == IF ref[o].holdsInsertRef THEN 1 ELSE 0
<1>1. h \in Nat /\ d \in Nat
  <2>1. Holding(o) \in SUBSET Threads /\ At(o, "dropping") \in SUBSET Threads
    BY DEF Holding, At
  <2>2. IsFiniteSet(Holding(o)) /\ IsFiniteSet(At(o, "dropping"))
    BY <2>1, FS_Subset, NicAssumption, Zenon
  <2> QED BY <2>2, FS_CardinalityType, Zenon
<1>2. y \in Nat /\ z \in Nat
  <2>1. (y = 0 \/ y = 1) /\ (z = 0 \/ z = 1)
    BY Zenon
  <2> QED BY <2>1
<1>3. echo[o] \in Nat
  BY DEF NicInv, NicTypeOK
<1>4. ref[o].refs = Uses(o) + echo[o] + Others(o)
  BY RefsNeeded
<1>5. Uses(o) = h + d /\ Others(o) = y + z
  BY DEF Uses, Others
<1> HIDE DEF h, d, y, z
<1>6. ref[o].refs = h + echo[o] + d + y + z
  BY <1>1, <1>2, <1>3, <1>4, <1>5
<1> QED BY <1>6, Zenon DEF h, d, y, z

\* HeldIsOpen follows: a holder is in the count, so the endpoint is open.
LEMMA HeldFromInv ==
  ASSUME NicInv
  PROVE  HeldIsOpen
<1> SUFFICES ASSUME NEW o \in Objects, Holding(o) # {} \/ echo[o] > 0 \/ replier[o] = "reply"
             PROVE  ref[o].open /\ map[ref[o].addr] = o
  BY DEF HeldIsOpen
<1>1. ref[o].refs \in Nat /\ ref[o].refs # 0
  <2>1. CASE Holding(o) # {}
    <3>1. PICK t \in Threads : Relies(thread[t], o)
      BY <2>1 DEF Holding, At, Relies
    <3> QED BY <3>1, RefsNeeded
  <2>2. CASE echo[o] > 0
    <3>1. echo[o] # 0
      BY <2>2 DEF NicInv, NicTypeOK
    <3> QED BY <3>1, RefsNeeded
  <2>3. CASE replier[o] = "reply"
    BY <2>3, RefsNeeded
  <2> QED BY <2>1, <2>2, <2>3
<1>2. ref[o].open
  BY <1>1 DEF NicInv, LifeInv
<1> QED BY <1>2 DEF NicInv, MapInv

\* And OpenIsFound: the map, the list and the open endpoints agree.
LEMMA OpenFromInv ==
  ASSUME NicInv
  PROVE  OpenIsFound
<1>1. primary \in Seq(Objects) /\ map \in [Locals -> Objects \cup {None}]
  BY DEF NicInv, NicTypeOK
<1>2. {o \in Objects : ref[o].open} = {map[a] : a \in Locals} \ {None}
  <2>1. ASSUME NEW o \in Objects, ref[o].open
        PROVE  o \in {map[a] : a \in Locals} /\ o # None
    <3>1. ref[o].addr \in Locals /\ map[ref[o].addr] = o
      BY <2>1, Zenon DEF NicInv, MapInv
    <3> QED BY <3>1, NicAssumption DEF None
  <2>2. ASSUME NEW a \in Locals, map[a] # None
        PROVE  map[a] \in Objects /\ ref[map[a]].open
    BY <1>1, <2>2 DEF NicInv, MapInv
  <2> QED BY <2>1, <2>2
<1>3. ToSet(primary) = {o \in Objects : ref[o].open}
  <2>1. ToSet(primary) \subseteq Objects
    BY <1>1 DEF ToSet
  <2>2. \A o \in Objects : ref[o].open <=> o \in ToSet(primary)
    BY Zenon DEF NicInv, ListInv
  <2> QED BY <2>1, <2>2
<1>4. Len(primary) = Cardinality(ToSet(primary))
  BY DEF NicInv, ListInv
<1>5. ASSUME NEW o \in Objects, ref[o].open
      PROVE  ref[o].refs > 0 \/ replier[o] = "zero" \/ At(o, "zero") # {}
  <2>1. ref[o].refs \in Nat
    BY RefsNeeded
  <2>2. ref[o].refs = 0 => Doomed(o)
    BY <1>5, Zenon DEF NicInv, LifeInv
  <2>3. ref[o].refs = 0 \/ ref[o].refs > 0
    BY <2>1
  <2> QED BY <2>2, <2>3, Zenon DEF Doomed
<1> QED BY <1>2, <1>3, <1>4, <1>5 DEF OpenIsFound

\* For any number of addresses, endpoints and goroutines, and a queue of any
\* length: when only who has added an address removes it, the count of every
\* endpoint is right, nobody's endpoint is closed under it, no endpoint is
\* forgotten, and the NIC does not panic (nic.go).
THEOREM NicReferencesAreSound ==
  ASSUME OwnerOnly
  PROVE  NicSpec => []ReferencesAreSound
<1>1. NicInit => NicInv
  BY NicInvInit
<1>2. NicInv /\ [NicNext]_nicVars => NicInv'
  BY NicInvStep
<1>3. NicInv => ReferencesAreSound
  BY RefsFromInv, HeldFromInv, OpenFromInv DEF ReferencesAreSound, NicInv
<1> QED BY <1>1, <1>2, <1>3, PTL DEF NicSpec

\* And an address that the application has added and not removed is served,
\* however late the endpoints that had it before are removed.
THEOREM NicOwnedIsServed ==
  ASSUME OwnerOnly
  PROVE  NicSpec => []OwnedIsServed
<1>1. NicInit => NicInv
  BY NicInvInit
<1>2. NicInv /\ [NicNext]_nicVars => NicInv'
  BY NicInvStep
<1>3. NicInv => OwnedIsServed
  BY DEF NicInv
<1> QED BY <1>1, <1>2, <1>3, PTL DEF NicSpec

-----------------------------------------------------------------------------
(* Sums. *)

OneOf(s) == CHOOSE x \in s : TRUE

SumsOf(f, S) ==
  CHOOSE h : h = [s \in SUBSET S |-> IF s = {} THEN 0 ELSE f[OneOf(s)] + h[s \ {OneOf(s)}]]

LEMMA SumIsLast ==
  ASSUME NEW f, NEW S
  PROVE  SumFunctionOnSet(f, S) = SumsOf(f, S)[S]
BY Zenon DEF SumFunctionOnSet, FoldFunctionOnSet, MapThenFoldSet, SumsOf, OneOf

LEMMA OneOfIsIn ==
  ASSUME NEW s, s # {}
  PROVE  OneOf(s) \in s
BY DEF OneOf

LEMMA SumsFit ==
  ASSUME NEW f, NEW S, IsFiniteSet(S), \A x \in S : f[x] \in Nat
  PROVE  /\ SumsOf(f, S) \in [SUBSET S -> Nat]
         /\ \A s \in SUBSET S :
              SumsOf(f, S)[s] = IF s = {} THEN 0
                                ELSE f[OneOf(s)] + SumsOf(f, S)[s \ {OneOf(s)}]
<1> DEFINE c == [s \in SUBSET S |-> OneOf(s)]
           G == [s \in SUBSET S |-> [v \in Nat |-> f[OneOf(s)] + v]]
<1>1. \A s \in SUBSET S : s # {} => OneOf(s) \in s
  BY OneOfIsIn
<1>2. PICK h \in [SUBSET S -> Nat] : Folds(h, G, 0, c, S)
  <2>1. Picks(c, S)
    BY <1>1 DEF Picks
  <2>2. Steps(G, S, Nat)
    BY <1>1 DEF Steps
  <2>3. 0 \in Nat
    OBVIOUS
  <2> HIDE DEF c, G
  <2> QED BY <2>1, <2>2, <2>3, FoldExists
<1>3. \A s \in SUBSET S : h[s] = IF s = {} THEN 0 ELSE f[OneOf(s)] + h[s \ {OneOf(s)}]
  <2> SUFFICES ASSUME NEW s \in SUBSET S, s # {}
               PROVE  h[s] = f[OneOf(s)] + h[s \ {OneOf(s)}]
    BY <1>2 DEF Folds
  <2>1. s \ {OneOf(s)} \in SUBSET S /\ c[s] = OneOf(s)
    OBVIOUS
  <2>2. h[s \ {OneOf(s)}] \in Nat
    BY <2>1
  <2> QED BY <1>2, <2>1, <2>2 DEF Folds
<1>4. h = [s \in SUBSET S |-> IF s = {} THEN 0 ELSE f[OneOf(s)] + h[s \ {OneOf(s)}]]
  BY <1>3
<1>5. SumsOf(f, S) =
        [s \in SUBSET S |-> IF s = {} THEN 0
                            ELSE f[OneOf(s)] + SumsOf(f, S)[s \ {OneOf(s)}]]
  BY <1>4, Zenon DEF SumsOf
<1>6. \A s \in SUBSET S :
        SumsOf(f, S)[s] = IF s = {} THEN 0 ELSE f[OneOf(s)] + SumsOf(f, S)[s \ {OneOf(s)}]
  BY <1>5, Zenon
<1> DEFINE g == SumsOf(f, S)
<1>7. {s \in SUBSET S : g[s] \in Nat} = SUBSET S
  <2> DEFINE T == {s \in SUBSET S : g[s] \in Nat}
  <2>2. Grows(T, S)
    <3> SUFFICES ASSUME NEW s \in SUBSET S, \A x \in s : s \ {x} \in T PROVE s \in T
      BY DEF Grows
    <3>1. CASE s = {}
      BY <1>6, <3>1
    <3>2. CASE s # {}
      <4>1. g[s] = f[OneOf(s)] + g[s \ {OneOf(s)}] /\ OneOf(s) \in s
        BY <1>1, <1>6, <3>2
      <4> HIDE DEF g
      <4> QED BY <4>1
    <3> QED BY <3>1, <3>2
  <2>4. T \subseteq SUBSET S
    OBVIOUS
  <2> HIDE DEF T, g
  <2>5. T = SUBSET S
    BY <2>2, <2>4, SubsetsByElement
  <2> QED BY <2>5 DEF T
<1>8. g = [s \in SUBSET S |-> g[s]]
  BY <1>5, Zenon
<1>9. g \in [SUBSET S -> Nat]
  BY <1>7, <1>8
<1> QED BY <1>6, <1>9

\* The sum of a set is that of the set without one of its elements, and that one.
LEMMA SumsAgree ==
  ASSUME NEW f, NEW S, IsFiniteSet(S), \A x \in S : f[x] \in Nat, NEW R \in SUBSET S
  PROVE  SumsOf(f, S)[R] = SumFunctionOnSet(f, R)
<1> DEFINE g == SumsOf(f, S)
           h == SumsOf(f, R)
           T == {s \in SUBSET R : g[s] = h[s]}
<1>1. IsFiniteSet(R) /\ \A x \in R : f[x] \in Nat
  BY FS_Subset
<1>2. \A s \in SUBSET S : g[s] = IF s = {} THEN 0 ELSE f[OneOf(s)] + g[s \ {OneOf(s)}]
  BY SumsFit
<1>3. \A s \in SUBSET R : h[s] = IF s = {} THEN 0 ELSE f[OneOf(s)] + h[s \ {OneOf(s)}]
  BY <1>1, SumsFit
<1> HIDE DEF g, h
<1>4. Grows(T, R)
  <2> SUFFICES ASSUME NEW s \in SUBSET R, \A x \in s : s \ {x} \in T PROVE s \in T
    BY DEF Grows
  <2>1. CASE s = {}
    BY <1>2, <1>3, <2>1
  <2>2. CASE s # {}
    <3>1. OneOf(s) \in s
      BY <2>2, OneOfIsIn
    <3>2. g[s \ {OneOf(s)}] = h[s \ {OneOf(s)}]
      BY <3>1
    <3>3. g[s] = f[OneOf(s)] + g[s \ {OneOf(s)}] /\ h[s] = f[OneOf(s)] + h[s \ {OneOf(s)}]
      BY <1>2, <1>3, <2>2
    <3> QED BY <3>2, <3>3
  <2> QED BY <2>1, <2>2
<1>7. T \subseteq SUBSET R
  OBVIOUS
<1>8. T = SUBSET R
  <2> HIDE DEF T
  <2> QED BY <1>1, <1>4, <1>7, SubsetsByElement
<1>9. g[R] = h[R]
  BY <1>8
<1> QED BY <1>9, SumIsLast DEF g, h

LEMMA SumOfAny ==
  ASSUME NEW f, NEW S, IsFiniteSet(S), \A x \in S : f[x] \in Nat
  PROVE  /\ SumFunctionOnSet(f, S) \in Nat
         /\ SumFunctionOnSet(f, S) =
              IF S = {} THEN 0
              ELSE f[OneOf(S)] + SumFunctionOnSet(f, S \ {OneOf(S)})
<1>1. SumFunctionOnSet(f, S) = SumsOf(f, S)[S]
  BY SumIsLast
<1>2. SumsOf(f, S)[S \ {OneOf(S)}] = SumFunctionOnSet(f, S \ {OneOf(S)})
  <2>1. S \ {OneOf(S)} \in SUBSET S
    OBVIOUS
  <2> QED BY <2>1, SumsAgree, Zenon
<1>3. SumsOf(f, S) \in [SUBSET S -> Nat] /\ S \in SUBSET S
  BY SumsFit
<1>4. SumsOf(f, S)[S] = IF S = {} THEN 0
                        ELSE f[OneOf(S)] + SumsOf(f, S)[S \ {OneOf(S)}]
  <2>1. \A s \in SUBSET S :
          SumsOf(f, S)[s] = IF s = {} THEN 0 ELSE f[OneOf(s)] + SumsOf(f, S)[s \ {OneOf(s)}]
    BY SumsFit
  <2> QED BY <1>3, <2>1, Zenon
<1>5. SumsOf(f, S)[S] \in Nat
  BY <1>3
<1> QED BY <1>1, <1>2, <1>4, <1>5, Zenon

LEMMA SumOfNone ==
  ASSUME NEW f
  PROVE  SumFunctionOnSet(f, {}) = 0
<1>1. IsFiniteSet({}) /\ \A x \in {} : f[x] \in Nat
  BY FS_EmptySet
<1> QED BY <1>1, SumOfAny

\* So it is for every one of its elements.
LEMMA SumWithout ==
  ASSUME NEW f, NEW S, IsFiniteSet(S), \A x \in S : f[x] \in Nat, NEW x \in S
  PROVE  SumFunctionOnSet(f, S) = f[x] + SumFunctionOnSet(f, S \ {x})
<1> DEFINE sum(s) == SumFunctionOnSet(f, s)
           T == {s \in SUBSET S : \A y \in s : sum(s) = f[y] + sum(s \ {y})}
<1>1. \A s \in SUBSET S : IsFiniteSet(s) /\ \A y \in s : f[y] \in Nat
  BY FS_Subset
<1>2. \A s \in SUBSET S : sum(s) \in Nat
  BY <1>1, SumOfAny
<1>3. \A s \in SUBSET S : s # {} => sum(s) = f[OneOf(s)] + sum(s \ {OneOf(s)})
  BY <1>1, SumOfAny
<1> HIDE DEF sum
<1>4. Grows(T, S)
  <2> SUFFICES ASSUME NEW s \in SUBSET S, \A z \in s : s \ {z} \in T,
                      NEW y \in s
               PROVE  sum(s) = f[y] + sum(s \ {y})
    BY DEF Grows
  <2> DEFINE z == OneOf(s)
  <2>1. z \in s
    BY OneOfIsIn
  <2>2. sum(s) = f[z] + sum(s \ {z})
    BY <1>3
  <2> HIDE DEF z
  <2>3. CASE y = z
    BY <2>2, <2>3
  <2>4. CASE y # z
    <3>1. sum(s \ {z}) = f[y] + sum((s \ {z}) \ {y})
      <4>1. s \ {z} \in T /\ y \in s \ {z}
        BY <2>1, <2>4
      <4> QED BY <4>1
    <3>2. sum(s \ {y}) = f[z] + sum((s \ {y}) \ {z})
      <4>1. s \ {y} \in T /\ z \in s \ {y}
        BY <2>1, <2>4
      <4> QED BY <4>1
    <3>3. (s \ {z}) \ {y} = (s \ {y}) \ {z} /\ (s \ {y}) \ {z} \in SUBSET S
      OBVIOUS
    <3>4. f[y] \in Nat /\ f[z] \in Nat /\ sum((s \ {y}) \ {z}) \in Nat
      BY <1>2, <2>1, <3>3
    <3> DEFINE rest == sum((s \ {y}) \ {z})
    <3>5. sum(s \ {z}) = f[y] + rest
      BY <3>1, <3>3, Zenon
    <3>6. rest \in Nat /\ sum(s \ {y}) = f[z] + rest
      BY <3>2, <3>4
    <3> HIDE DEF T, rest
    <3> QED BY <2>2, <3>4, <3>5, <3>6
  <2> QED BY <2>3, <2>4
<1>5. T = SUBSET S
  <2>1. T \subseteq SUBSET S
    OBVIOUS
  <2> HIDE DEF T
  <2> QED BY <1>4, <2>1, SubsetsByElement
<1>6. sum(S) = f[x] + sum(S \ {x})
  BY <1>5
<1> QED BY <1>6 DEF sum

\* Functions that agree on a set have the same sum on it.
LEMMA SumSame ==
  ASSUME NEW f, NEW g, NEW S, IsFiniteSet(S), \A x \in S : f[x] \in Nat /\ g[x] = f[x]
  PROVE  SumFunctionOnSet(g, S) = SumFunctionOnSet(f, S)
<1> DEFINE of(s) == SumFunctionOnSet(f, s)
           og(s) == SumFunctionOnSet(g, s)
           T == {s \in SUBSET S : og(s) = of(s)}
<1>1. \A s \in SUBSET S : IsFiniteSet(s) /\ (\A x \in s : f[x] \in Nat /\ g[x] \in Nat)
  BY FS_Subset
<1>2. of({}) = 0 /\ og({}) = 0
  BY SumOfNone
<1>3. \A s \in SUBSET S : s # {} => of(s) = f[OneOf(s)] + of(s \ {OneOf(s)})
  BY <1>1, SumOfAny
<1>4. \A s \in SUBSET S : s # {} => og(s) = g[OneOf(s)] + og(s \ {OneOf(s)})
  BY <1>1, SumOfAny
<1> HIDE DEF of, og
<1>5. Grows(T, S)
  <2> SUFFICES ASSUME NEW s \in SUBSET S, \A x \in s : s \ {x} \in T PROVE s \in T
    BY DEF Grows
  <2>1. CASE s = {}
    BY <1>2, <2>1
  <2>2. CASE s # {}
    <3>1. OneOf(s) \in s
      BY <2>2, OneOfIsIn
    <3>2. og(s \ {OneOf(s)}) = of(s \ {OneOf(s)}) /\ g[OneOf(s)] = f[OneOf(s)]
      BY <3>1
    <3>3. of(s) = f[OneOf(s)] + of(s \ {OneOf(s)}) /\ og(s) = g[OneOf(s)] + og(s \ {OneOf(s)})
      BY <1>3, <1>4, <2>2
    <3> QED BY <3>2, <3>3
  <2> QED BY <2>1, <2>2
<1>6. T = SUBSET S
  <2>1. T \subseteq SUBSET S
    OBVIOUS
  <2> HIDE DEF T
  <2> QED BY <1>5, <2>1, SubsetsByElement
<1>7. og(S) = of(S)
  BY <1>6
<1> QED BY <1>7 DEF of, og

LEMMA SumOfZeros ==
  ASSUME NEW f, NEW S, IsFiniteSet(S), \A x \in S : f[x] = 0
  PROVE  SumFunctionOnSet(f, S) = 0
<1> DEFINE of(s) == SumFunctionOnSet(f, s)
           T == {s \in SUBSET S : of(s) = 0}
<1>1. \A s \in SUBSET S : IsFiniteSet(s) /\ (\A x \in s : f[x] \in Nat)
  BY FS_Subset
<1>2. of({}) = 0
  BY SumOfNone
<1>3. \A s \in SUBSET S : s # {} => of(s) = f[OneOf(s)] + of(s \ {OneOf(s)})
  BY <1>1, SumOfAny
<1> HIDE DEF of
<1>4. Grows(T, S)
  <2> SUFFICES ASSUME NEW s \in SUBSET S, \A x \in s : s \ {x} \in T PROVE s \in T
    BY DEF Grows
  <2>1. CASE s = {}
    BY <1>2, <2>1
  <2>2. CASE s # {}
    <3>1. OneOf(s) \in s
      BY <2>2, OneOfIsIn
    <3>2. of(s \ {OneOf(s)}) = 0 /\ f[OneOf(s)] = 0
      BY <3>1
    <3>3. of(s) = 0
      BY <1>3, <2>2, <3>2
    <3> QED BY <3>3
  <2> QED BY <2>1, <2>2
<1>5. T = SUBSET S
  <2>1. T \subseteq SUBSET S
    OBVIOUS
  <2> HIDE DEF T
  <2> QED BY <1>4, <2>1, SubsetsByElement
<1>6. of(S) = 0
  BY <1>5
<1> QED BY <1>6 DEF of

\* A part of a set has no larger a sum.
LEMMA SumOfPart ==
  ASSUME NEW f, NEW S, IsFiniteSet(S), \A x \in S : f[x] \in Nat, NEW R \in SUBSET S
  PROVE  /\ SumFunctionOnSet(f, S) =
              SumFunctionOnSet(f, R) + SumFunctionOnSet(f, S \ R)
         /\ SumFunctionOnSet(f, R) \in Nat /\ SumFunctionOnSet(f, S \ R) \in Nat
<1> DEFINE sum(s) == SumFunctionOnSet(f, s)
           T == {s \in SUBSET R : sum(S) = sum(s) + sum(S \ s)}
<1>1. \A s \in SUBSET S : IsFiniteSet(s) /\ \A y \in s : f[y] \in Nat
  BY FS_Subset
<1>2. \A s \in SUBSET S : sum(s) \in Nat
  BY <1>1, SumOfAny
<1>3. \A s \in SUBSET S : \A y \in s : sum(s) = f[y] + sum(s \ {y})
  BY <1>1, SumWithout
<1>4. sum({}) = 0
  BY SumOfNone
<1> HIDE DEF sum
<1>5. Grows(T, R)
  <2> SUFFICES ASSUME NEW s \in SUBSET R, \A x \in s : s \ {x} \in T PROVE s \in T
    BY DEF Grows
  <2>1. CASE s = {}
    <3>1. S \ s = S /\ sum(S) \in Nat
      BY <1>2, <2>1
    <3> QED BY <1>4, <2>1, <3>1
  <2>2. CASE s # {}
    <3>1. PICK y : y \in s
      BY <2>2
    <3>2. sum(S) = sum(s \ {y}) + sum(S \ (s \ {y}))
      BY <3>1
    <3>3. sum(s) = f[y] + sum(s \ {y})
      BY <1>3, <3>1
    <3>4. sum(S \ (s \ {y})) = f[y] + sum(S \ s)
      <4>1. y \in S \ (s \ {y}) /\ (S \ (s \ {y})) \ {y} = S \ s
        BY <3>1
      <4> QED BY <1>3, <4>1
    <3>5. sum(s \ {y}) \in Nat /\ sum(S \ s) \in Nat /\ f[y] \in Nat
      BY <1>2, <3>1
    <3> HIDE DEF T
    <3>6. sum(S) = sum(s) + sum(S \ s)
      BY <3>2, <3>3, <3>4, <3>5
    <3> QED BY <3>6 DEF T
  <2> QED BY <2>1, <2>2
<1>6. T = SUBSET R
  <2>1. T \subseteq SUBSET R /\ IsFiniteSet(R)
    BY <1>1
  <2> HIDE DEF T
  <2> QED BY <1>5, <2>1, SubsetsByElement
<1>7. sum(S) = sum(R) + sum(S \ R) /\ sum(R) \in Nat /\ sum(S \ R) \in Nat
  BY <1>2, <1>6
<1> QED BY <1>7 DEF sum

\* R is a part of S, whose elements f measures.
PartOf(R, S, f) == IsFiniteSet(S) /\ R \subseteq S /\ \A x \in S : f[x] \in Nat

LEMMA SumOfParts ==
  ASSUME NEW f, NEW S, NEW R, PartOf(R, S, f)
  PROVE  /\ SumFunctionOnSet(f, S) =
              SumFunctionOnSet(f, R) + SumFunctionOnSet(f, S \ R)
         /\ SumFunctionOnSet(f, R) \in Nat /\ SumFunctionOnSet(f, S \ R) \in Nat
<1>1. IsFiniteSet(S) /\ R \in SUBSET S /\ \A x \in S : f[x] \in Nat
  BY DEF PartOf
<1> QED BY <1>1, SumOfPart

\* A function that changes at x.
LEMMA SumStep ==
  ASSUME NEW f, NEW g, NEW S, IsFiniteSet(S), NEW x \in S, g[x] \in Nat,
         \A y \in S : f[y] \in Nat /\ (y # x => g[y] = f[y])
  PROVE  /\ SumFunctionOnSet(g, S) + f[x] = SumFunctionOnSet(f, S) + g[x]
         /\ SumFunctionOnSet(f, S) \in Nat /\ SumFunctionOnSet(g, S) \in Nat
<1>1. \A y \in S : f[y] \in Nat /\ g[y] \in Nat
  OBVIOUS
<1>2. SumFunctionOnSet(f, S) = f[x] + SumFunctionOnSet(f, S \ {x})
  BY SumWithout
<1>3. SumFunctionOnSet(g, S) = g[x] + SumFunctionOnSet(g, S \ {x})
  BY <1>1, SumWithout
<1>4. SumFunctionOnSet(g, S \ {x}) = SumFunctionOnSet(f, S \ {x})
  <2>1. IsFiniteSet(S \ {x})
    BY FS_RemoveElement
  <2>2. \A y \in S \ {x} : f[y] \in Nat /\ g[y] = f[y]
    OBVIOUS
  <2> QED BY <2>1, <2>2, SumSame
<1>5. SumFunctionOnSet(f, S \ {x}) \in Nat
  BY FS_RemoveElement, SumOfAny
<1> QED BY <1>1, <1>2, <1>3, <1>4, <1>5

-----------------------------------------------------------------------------
(* The invariant. *)

\* A reassembler.
RsmType(r) ==
  /\ DOMAIN r = {"id", "size", "holes", "heap", "done", "old"}
  /\ r.size \in Nat /\ r.done \in BOOLEAN
  /\ r.holes \subseteq Nat \X Nat /\ r.heap \subseteq Fragments

DispType(d) ==
  /\ DOMAIN d = {"pc", "frag", "obj", "consumed", "ready", "res"}
  /\ d.pc \in {"idle", "take", "charge"}
  /\ IF d.pc = "idle" THEN d.obj = NoRsm ELSE d.obj \in Pool
  /\ d.consumed \in Nat /\ d.ready \in BOOLEAN
  /\ d.pc = "take" => d.frag \in Fragments
  /\ d.pc # "charge" => d.consumed = 0 /\ ~d.ready

FragTypeOK ==
  /\ DOMAIN rsm = Pool /\ \A o \in Pool : RsmType(rsm[o])
  /\ reassemblers \in [Ids -> Pool \cup {NoRsm}]
  /\ rList \in Seq(Pool) /\ fragSize \in Nat
  /\ DOMAIN disp = Dispatchers /\ \A p \in Dispatchers : DispType(disp[p])

\* Map, list and marks agree: a reassembler that is in the map is in the list,
\* once, and has not been released; nobody has one that is used for another
\* datagram than his own.
BooksInv ==
  /\ OnceEach(rList) /\ ToSet(rList) = Live
  /\ \A o \in Pool : ~rsm[o].done <=> o \in Live
  /\ \A i \in Ids : reassemblers[i] # NoRsm => rsm[reassemblers[i]].id = i
  /\ \A p \in Dispatchers :
       (disp[p].pc = "take" /\ ~rsm[disp[p].obj].done) =>
         rsm[disp[p].obj].id = disp[p].frag.id

\* The account: what has been charged and what is yet to be charged cover
\* what is held; and it is within the limit, or all that is held is yet to be
\* charged.
Pending == SumFunction([p \in Dispatchers |-> disp[p].consumed])

SizeInv == /\ fragSize + Pending >= SumSizes(Live)
           /\ fragSize <= HighLimit \/ SumSizes(Live) <= Pending

\* A unit of a datagram that is not complete is missing or there; of a
\* complete one the heap has been emptied.
Misses(holes, k) == \E h \in holes : h[1] <= k /\ k <= h[2]
Covers(heap, k) == \E f \in heap : f.first <= k /\ k <= f.last

DataInv ==
  \A o \in Pool :
    ~rsm[o].done =>
      /\ IsFiniteSet(rsm[o].heap)
      /\ rsm[o].holes = {} => rsm[o].heap = {}
      /\ rsm[o].holes # {} =>
           \A k \in 0..(Length - 1) : Misses(rsm[o].holes, k) \/ Covers(rsm[o].heap, k)

\* The inductive invariant.
FragInv == /\ FragTypeOK /\ BooksInv /\ SizeInv /\ DataInv /\ DatagramIntact
-----------------------------------------------------------------------------
(* Lists. *)

\* So it has as many entries as members.
LEMMA ListCounts ==
  ASSUME NEW S, NEW s \in Seq(S), OnceEach(s)
  PROVE  Len(s) = Cardinality(ToSet(s))
<1>1. Len(s) \in Nat /\ DOMAIN s = 1..Len(s)
  OBVIOUS
<1>2. s \in [1..Len(s) -> ToSet(s)] /\ \A x \in ToSet(s) : \E k \in 1..Len(s) : s[k] = x
  BY <1>1 DEF ToSet
<1>3. s \in Bijection(1..Len(s), ToSet(s))
  BY <1>1, <1>2 DEF OnceEach, Bijection, Injection, Surjection, IsInjective
<1>4. ExistsBijection(1..Len(s), ToSet(s))
  BY <1>3 DEF ExistsBijection
<1> QED BY <1>1, <1>4, FS_CountingElements

LEMMA WithoutOne ==
  ASSUME NEW S, NEW s \in Seq(S), OnceEach(s), NEW T, \A x, y \in T : x = y
  PROVE  /\ Without(s, T) \in Seq(S) /\ OnceEach(Without(s, T))
         /\ ToSet(Without(s, T)) = ToSet(s) \ T
<1>1. CASE \E k \in DOMAIN s : s[k] \in T
  <2> DEFINE k == CHOOSE k \in DOMAIN s : s[k] \in T
  <2>1. k \in DOMAIN s /\ s[k] \in T
    BY <1>1, Zenon
  <2>2. Without(s, T) = RemoveAt(s, k)
    BY <1>1, Zenon DEF Without
  <2> HIDE DEF k
  <2>3. T = {s[k]}
    BY <2>1
  <2> QED BY <2>1, <2>2, <2>3, EntryRemoved
<1>2. CASE ~ \E k \in DOMAIN s : s[k] \in T
  <2>1. Without(s, T) = s
    BY <1>2, Zenon DEF Without
  <2>2. ToSet(s) = ToSet(s) \ T
    BY <1>2 DEF ToSet
  <2> QED BY <2>1, <2>2
<1> QED BY <1>1, <1>2

\* t is s without its last n entries, which are those in last.
LosesLast(s, n, t, last) ==
  /\ n \in 0..Len(s) /\ t = SubSeq(s, 1, Len(s) - n)
  /\ last = {s[j] : j \in (Len(s) - n + 1)..Len(s)}

LEMMA FirstOnes ==
  ASSUME NEW S, NEW s \in Seq(S), OnceEach(s), NEW n, NEW t, NEW last, LosesLast(s, n, t, last)
  PROVE  /\ t \in Seq(S) /\ OnceEach(t)
         /\ ToSet(t) = ToSet(s) \ last /\ last \subseteq ToSet(s)
         /\ n = Len(s) => ToSet(t) = {}
<1>1. Len(s) \in Nat /\ DOMAIN s = 1..Len(s)
  OBVIOUS
<1>2. t \in Seq(S) /\ DOMAIN t = 1..(Len(s) - n) /\ \A j \in 1..(Len(s) - n) : t[j] = s[j]
  BY <1>1 DEF LosesLast
<1> USE DEF LosesLast
<1>3. OnceEach(t)
  BY <1>1, <1>2 DEF OnceEach
<1>4. ASSUME NEW x \in ToSet(t)
      PROVE  x \in ToSet(s) \ last
  <2>1. PICK i \in 1..(Len(s) - n) : x = s[i]
    BY <1>2 DEF ToSet
  <2>2. i \in DOMAIN s
    BY <1>1
  <2>3. ASSUME NEW j \in (Len(s) - n + 1)..Len(s) PROVE x # s[j]
    <3>1. j \in DOMAIN s /\ i # j
      BY <1>1
    <3> QED BY <2>1, <2>2, <3>1 DEF OnceEach
  <2> QED BY <2>1, <2>2, <2>3 DEF ToSet
<1>5. ASSUME NEW x \in ToSet(s), x \notin last
      PROVE  x \in ToSet(t)
  <2>1. PICK i \in DOMAIN s : x = s[i]
    BY DEF ToSet
  <2>2. i \in 1..(Len(s) - n)
    BY <1>1, <1>5, <2>1
  <2> QED BY <1>2, <2>1, <2>2 DEF ToSet
<1>6. last \subseteq ToSet(s)
  <2> SUFFICES ASSUME NEW j \in (Len(s) - n + 1)..Len(s) PROVE s[j] \in ToSet(s)
    OBVIOUS
  <2>1. j \in DOMAIN s
    BY <1>1
  <2> QED BY <2>1 DEF ToSet
<1>7. n = Len(s) => ToSet(t) = {}
  BY <1>2 DEF ToSet
<1> QED BY <1>2, <1>3, <1>4, <1>5, <1>6, <1>7

-----------------------------------------------------------------------------
(* Reassemblers. *)

LEMMA LiveInPool ==
  ASSUME FragTypeOK
  PROVE  /\ Live \subseteq Pool /\ IsFiniteSet(Live) /\ NoRsm \notin Pool
         /\ \A S \in SUBSET Pool : IsFiniteSet(S)
<1>1. NoRsm \notin Pool
  BY FragAssumption DEF NoRsm
<1>2. Live \subseteq Pool
  BY DEF Live, FragTypeOK
<1>3. \A S \in SUBSET Pool : IsFiniteSet(S)
  BY FragAssumption, FS_Subset
<1> QED BY <1>1, <1>2, <1>3

LEMMA SizesOfPool ==
  ASSUME FragTypeOK, NEW S \in SUBSET Pool
  PROVE  /\ SumSizes(S) \in Nat
         /\ \A R \in SUBSET S : SumSizes(S) = SumSizes(R) + SumSizes(S \ R)
<1> DEFINE z == [o \in Pool |-> rsm[o].size]
<1>1. IsFiniteSet(S)
  BY LiveInPool
<1>2. \A x \in S : z[x] \in Nat
  BY DEF FragTypeOK, RsmType
<1> HIDE DEF z
<1>3. SumFunctionOnSet(z, S) \in Nat
  BY <1>1, <1>2, SumOfAny
<1>4. ASSUME NEW R \in SUBSET S
      PROVE  SumFunctionOnSet(z, S) = SumFunctionOnSet(z, R) + SumFunctionOnSet(z, S \ R)
  BY <1>1, <1>2, SumOfPart
<1> QED BY <1>3, <1>4, Zenon DEF SumSizes, z

LEMMA NoSizes == SumSizes({}) = 0
BY SumOfNone DEF SumSizes

\* The reassemblers that are in use are fewer than there are.
LEMMA SpareExists ==
  ASSUME FragTypeOK, NEW p \in Dispatchers, disp[p].pc = "idle"
  PROVE  \E o \in Pool : Spare(o)
<1> DEFINE others == Dispatchers \ {p}
           inMap == {reassemblers[i] : i \in Ids}
           inHand == {disp[q].obj : q \in others}
<1>1. /\ IsFiniteSet(Ids) /\ IsFiniteSet(Dispatchers) /\ IsFiniteSet(Pool)
      /\ Cardinality(Pool) >= Cardinality(Ids) + Cardinality(Dispatchers)
  BY FragAssumption
<1>2. IsFiniteSet(inMap) /\ Cardinality(inMap) <= Cardinality(Ids)
  <2> DEFINE g == [i \in Ids |-> reassemblers[i]]
  <2>1. g \in Surjection(Ids, inMap)
    BY DEF Surjection
  <2> HIDE DEF g, inMap
  <2> QED BY <1>1, <2>1, FS_Surjection
<1>3. IsFiniteSet(others) /\ Cardinality(others) = Cardinality(Dispatchers) - 1
  BY <1>1, FS_RemoveElement
<1>4. IsFiniteSet(inHand) /\ Cardinality(inHand) <= Cardinality(others)
  <2> DEFINE g == [q \in others |-> disp[q].obj]
  <2>1. g \in Surjection(others, inHand)
    BY DEF Surjection
  <2> HIDE DEF g, inHand, others
  <2> QED BY <1>3, <2>1, FS_Surjection
<1>5. IsFiniteSet(inMap \cup inHand)
      /\ Cardinality(inMap \cup inHand) <= Cardinality(inMap) + Cardinality(inHand)
  <2> HIDE DEF inMap, inHand
  <2>1. /\ IsFiniteSet(inMap \cup inHand)
        /\ Cardinality(inMap \cup inHand) =
             Cardinality(inMap) + Cardinality(inHand) - Cardinality(inMap \cap inHand)
    BY <1>2, <1>4, FS_Union
  <2>2. /\ Cardinality(inMap \cap inHand) \in Nat /\ Cardinality(inMap) \in Nat
        /\ Cardinality(inHand) \in Nat
    BY <1>2, <1>4, FS_Intersection, FS_CardinalityType
  <2> QED BY <2>1, <2>2
<1>6. Cardinality(inMap \cup inHand) < Cardinality(Pool)
  <2>1. /\ Cardinality(Ids) \in Nat /\ Cardinality(Dispatchers) \in Nat
        /\ Cardinality(inMap) \in Nat /\ Cardinality(inHand) \in Nat
        /\ Cardinality(inMap \cup inHand) \in Nat /\ Cardinality(Pool) \in Nat
    BY <1>1, <1>2, <1>4, <1>5, FS_CardinalityType
  <2> HIDE DEF inMap, inHand, others
  <2> QED BY <1>1, <1>2, <1>3, <1>4, <1>5, <2>1
<1>7. ~ Pool \subseteq inMap \cup inHand
  <2> SUFFICES ASSUME Pool \subseteq inMap \cup inHand PROVE FALSE
    OBVIOUS
  <2> HIDE DEF inMap, inHand
  <2>1. Cardinality(Pool) <= Cardinality(inMap \cup inHand)
    BY <1>5, FS_Subset
  <2>2. Cardinality(inMap \cup inHand) \in Nat /\ Cardinality(Pool) \in Nat
    BY <1>1, <1>5, FS_CardinalityType
  <2> QED BY <1>6, <2>1, <2>2
<1>8. PICK o \in Pool : o \notin inMap /\ o \notin inHand
  BY <1>7
<1>9. disp[p].obj = NoRsm /\ o # NoRsm
  BY LiveInPool DEF FragTypeOK, DispType
<1>10. Spare(o)
  BY <1>8, <1>9 DEF Spare
<1> QED BY <1>10

\* As many of the oldest go as are needed, or all.
LEMMA EvictedIs ==
  ASSUME FragTypeOK, NEW size \in Nat, NEW list \in Seq(Pool)
  PROVE  LET n == Evicted(size, list) IN
         /\ n \in 0..Len(list)
         /\ size <= HighLimit => n = 0
         /\ \/ size <= HighLimit \/ n = Len(list)
            \/ size - SumSizes({list[j] : j \in (Len(list) - n + 1)..Len(list)}) <= LowLimit
<1> DEFINE rest(k) == size - SumSizes({list[j] : j \in (Len(list) - k + 1)..Len(list)})
           Enough == {k \in 0..Len(list) : rest(k) <= LowLimit \/ k = Len(list)}
<1>1. Len(list) \in Nat /\ DOMAIN list = 1..Len(list) /\ LowLimit \in Nat
      /\ \A j \in 1..Len(list) : list[j] \in Pool
  BY FragAssumption
<1>2. \A k \in 0..Len(list) : rest(k) \in Int
  <2> SUFFICES ASSUME NEW k \in 0..Len(list) PROVE rest(k) \in Int
    OBVIOUS
  <2>1. {list[j] : j \in (Len(list) - k + 1)..Len(list)} \in SUBSET Pool
    BY <1>1
  <2>2. SumSizes({list[j] : j \in (Len(list) - k + 1)..Len(list)}) \in Nat
    BY <2>1, SizesOfPool
  <2> QED BY <2>2
<1>3. PICK n \in Enough : \A k \in Enough : ~ (<<k, n>> \in OpToRel(<, Nat))
  <2>1. Enough \subseteq Nat /\ Len(list) \in Enough
    BY <1>1
  <2> HIDE DEF Enough
  <2> QED BY <2>1, NatLessThanWellFounded, WFMin
<1> HIDE DEF rest
<1>4. ASSUME NEW k \in 0..(n - 1) PROVE rest(k) > LowLimit
  <2>1. n \in 0..Len(list)
    BY <1>3
  <2>2. k \in 0..Len(list) /\ k < n /\ k # Len(list) /\ k \in Nat /\ n \in Nat
    <3>1. Len(list) \in Nat
      OBVIOUS
    <3> HIDE DEF Enough
    <3> DEFINE l == Len(list)
    <3>2. l \in Nat /\ n \in 0..l
      BY <2>1, <3>1
    <3> HIDE DEF l
    <3>3. k \in 0..l /\ k < n /\ k # l /\ k \in Nat /\ n \in Nat
      BY <3>2
    <3> QED BY <3>3 DEF l
  <2>5. <<k, n>> \in OpToRel(<, Nat)
    <3> HIDE DEF Enough
    <3> QED BY <2>2 DEF OpToRel
  <2>3. k \notin Enough
    BY <1>3, <2>5
  <2>4. ~(rest(k) <= LowLimit)
    BY <2>2, <2>3
  <2>6. rest(k) \in Int /\ LowLimit \in Nat
    BY <1>1, <1>2, <2>2
  <2> HIDE DEF Enough
  <2> QED BY <2>4, <2>6
<1>5. \E m \in 0..Len(list) : /\ rest(m) <= LowLimit \/ m = Len(list)
                              /\ \A k \in 0..(m - 1) : rest(k) > LowLimit
  BY <1>3, <1>4
<1>6. CASE size <= HighLimit
  <2>1. Evicted(size, list) = 0
    BY <1>6 DEF Evicted
  <2>2. 0 \in 0..Len(list)
    <3>1. Len(list) \in Nat
      OBVIOUS
    <3> QED BY <3>1
  <2> QED BY <1>6, <2>1, <2>2, Zenon
<1>7. CASE ~(size <= HighLimit)
  <2> DEFINE m == CHOOSE m \in 0..Len(list) :
                    /\ rest(m) <= LowLimit \/ m = Len(list)
                    /\ \A k \in 0..(m - 1) : rest(k) > LowLimit
  <2>1. m \in 0..Len(list) /\ (rest(m) <= LowLimit \/ m = Len(list))
    BY <1>5, Zenon
  <2>2. Evicted(size, list) = m
    BY <1>7, Zenon DEF Evicted, rest
  <2> HIDE DEF m
  <2> QED BY <1>7, <2>1, <2>2 DEF rest
<1> QED BY <1>6, <1>7

-----------------------------------------------------------------------------
(* The books. *)

LEMMA FragmentsAre ==
  ASSUME NEW f \in Fragments
  PROVE  /\ f.id \in Ids /\ f.first \in Nat /\ f.last \in Nat /\ f.more \in BOOLEAN
         /\ f.first <= f.last /\ f.last < Length /\ Length \in Nat
         /\ (f.more <=> f.last < Length - 1)
         /\ Size(f) \in Nat
<1>1. PICK i \in Ids, c \in Cuts :
        f = [id |-> i, first |-> c[1], last |-> c[2], more |-> c[2] < Length - 1]
  BY DEF Fragments
<1>2. /\ c[1] \in Nat /\ c[2] \in Nat /\ c[1] <= c[2] /\ c[2] < Length /\ Length \in Nat
  BY FragAssumption
<1>3. f.id = i /\ f.first = c[1] /\ f.last = c[2] /\ f.more = (c[2] < Length - 1)
  BY <1>1
<1>4. f.more \in BOOLEAN /\ (f.more <=> f.last < Length - 1)
  <2>1. CASE c[2] < Length - 1
    <3>1. f.more = TRUE
      BY <1>3, <2>1
    <3> QED BY <1>3, <2>1, <3>1
  <2>2. CASE ~(c[2] < Length - 1)
    <3>1. (c[2] < Length - 1) = FALSE
      BY <2>2
    <3>2. f.more = FALSE
      BY <1>3, <3>1, Zenon
    <3> QED BY <1>3, <2>2, <3>2, Zenon
  <2> QED BY <2>1, <2>2
<1>5. /\ f.id \in Ids /\ f.first \in Nat /\ f.last \in Nat
      /\ f.first <= f.last /\ f.last < Length /\ Length \in Nat
  BY <1>2, <1>3
<1>6. Size(f) \in Nat
  BY <1>5 DEF Size
<1> QED BY <1>4, <1>5, <1>6

\* Nobody's state changes but that of p.
OnlyDisp(p, d) ==
  /\ DOMAIN disp' = Dispatchers /\ disp'[p] = d
  /\ \A q \in Dispatchers : q # p => disp'[q] = disp[q]

LEMMA DispMoves ==
  ASSUME FragTypeOK, NEW p \in Dispatchers, NEW d, disp' = [disp EXCEPT ![p] = d]
  PROVE  OnlyDisp(p, d)
BY DEF FragTypeOK, OnlyDisp

LEMMA DispTypes ==
  ASSUME FragTypeOK, NEW p \in Dispatchers, NEW d, OnlyDisp(p, d), DispType(d)
  PROVE  \A q \in Dispatchers : DispType(disp'[q])
BY DEF FragTypeOK, OnlyDisp

LEMMA JoinsBooks ==
  ASSUME FragTypeOK, BooksInv, NEW p \in Dispatchers, NEW f \in Fragments, Joins(p, f)
  PROVE  FragTypeOK' /\ BooksInv'
<1>1. PICK o : o = reassemblers[f.id]
  OBVIOUS
<1>2. f.id \in Ids
  BY FragmentsAre
<1>3. o \in Pool /\ rsm[o].id = f.id
  BY <1>1, <1>2 DEF Joins, FragTypeOK, BooksInv
<1>4. PICK d : d = [Away EXCEPT !.pc = "take", !.frag = f, !.obj = o]
  OBVIOUS
<1>5. /\ DOMAIN d = {"pc", "frag", "obj", "consumed", "ready", "res"}
      /\ d.pc = "take" /\ d.frag = f /\ d.obj = o /\ d.consumed = 0 /\ d.ready = FALSE
  BY <1>4 DEF Away
<1>6. disp' = [disp EXCEPT ![p] = d] /\ UNCHANGED <<rsm, reassemblers, rList, fragSize>>
  BY <1>1, <1>4 DEF Joins
<1>7. OnlyDisp(p, d) /\ DispType(d)
  <2>1. OnlyDisp(p, d)
    BY <1>6, DispMoves
  <2>2. DispType(d)
    <3>1. d.pc \in {"idle", "take", "charge"} /\ d.pc # "idle"
      BY <1>5
    <3>2. d.ready \in BOOLEAN /\ ~d.ready
      BY <1>5, Zenon
    <3>3. d.consumed \in Nat /\ d.obj \in Pool
      BY <1>3, <1>5
    <3> QED BY <1>5, <3>1, <3>2, <3>3, Zenon DEF DispType
  <2> QED BY <2>1, <2>2
<1>8. FragTypeOK'
  BY <1>6, <1>7, DispTypes DEF FragTypeOK, OnlyDisp
<1>9. BooksInv'
  <2>1. ASSUME NEW q \in Dispatchers, disp'[q].pc = "take", ~rsm[disp'[q].obj].done
        PROVE  rsm[disp'[q].obj].id = disp'[q].frag.id
    <3>1. CASE q = p
      BY <1>3, <1>5, <1>7, <3>1 DEF OnlyDisp
    <3>2. CASE q # p
      BY <1>7, <2>1, <3>2 DEF OnlyDisp, BooksInv
    <3> QED BY <3>1, <3>2
  <2>2. Live' = Live
    BY <1>6 DEF Live
  <2> QED BY <1>6, <2>1, <2>2 DEF BooksInv
<1> QED BY <1>8, <1>9

LEMMA TakesNothingBooks ==
  ASSUME FragTypeOK, BooksInv, NEW p \in Dispatchers, TakesNothing(p)
  PROVE  /\ FragTypeOK' /\ BooksInv'
         /\ disp'[p].consumed = 0 /\ disp'[p].ready = FALSE
         /\ \A q \in Dispatchers : q # p => disp'[q] = disp[q]
<1>1. PICK d : d = [disp[p] EXCEPT !.pc = "charge", !.frag = <<>>]
  OBVIOUS
<1>2. DispType(disp[p]) /\ disp[p].pc = "take"
  BY DEF FragTypeOK, TakesNothing
<1>3. /\ DOMAIN d = {"pc", "frag", "obj", "consumed", "ready", "res"}
      /\ d.pc = "charge" /\ d.obj = disp[p].obj /\ d.consumed = 0 /\ d.ready = FALSE
  <2>1. /\ DOMAIN d = {"pc", "frag", "obj", "consumed", "ready", "res"}
        /\ d.pc = "charge" /\ d.obj = disp[p].obj /\ d.consumed = disp[p].consumed
        /\ d.ready = disp[p].ready
    BY <1>1, <1>2 DEF DispType
  <2> QED BY <1>2, <2>1 DEF DispType
<1>4. disp' = [disp EXCEPT ![p] = d] /\ UNCHANGED <<rsm, reassemblers, rList, fragSize>>
  BY <1>1 DEF TakesNothing
<1>5. OnlyDisp(p, d)
  BY <1>4, DispMoves
<1>6. DispType(d)
  BY <1>2, <1>3 DEF DispType
<1>7. FragTypeOK'
  BY <1>4, <1>5, <1>6, DispTypes DEF FragTypeOK, OnlyDisp
<1>8. BooksInv'
  <2>1. ASSUME NEW q \in Dispatchers, disp'[q].pc = "take"
        PROVE  q # p /\ disp'[q] = disp[q]
    BY <1>3, <1>5, <2>1 DEF OnlyDisp
  <2>2. Live' = Live
    BY <1>4 DEF Live
  <2> QED BY <1>4, <2>1, <2>2 DEF BooksInv
<1> QED BY <1>3, <1>5, <1>7, <1>8 DEF OnlyDisp

LEMMA GrowsOldBooks ==
  ASSUME FragTypeOK, BooksInv, NEW i \in Ids, GrowsOld(i)
  PROVE  /\ FragTypeOK' /\ BooksInv'
         /\ \A o \in Pool : /\ rsm'[o].size = rsm[o].size /\ rsm'[o].heap = rsm[o].heap
                            /\ rsm'[o].holes = rsm[o].holes /\ rsm'[o].done = rsm[o].done
                            /\ rsm'[o].id = rsm[o].id
<1>1. PICK o : o = reassemblers[i]
  OBVIOUS
<1>2. o \in Pool /\ rsm' = [rsm EXCEPT ![o].old = TRUE]
      /\ UNCHANGED <<reassemblers, rList, fragSize, disp>>
  BY <1>1 DEF GrowsOld, FragTypeOK
<1>3. DOMAIN rsm' = Pool /\ \A x \in Pool : x # o => rsm'[x] = rsm[x]
  BY <1>2 DEF FragTypeOK
<1>4. RsmType(rsm[o]) /\ rsm'[o] = [rsm[o] EXCEPT !.old = TRUE]
  BY <1>2 DEF FragTypeOK
<1>5. /\ rsm'[o].size = rsm[o].size /\ rsm'[o].heap = rsm[o].heap
      /\ rsm'[o].holes = rsm[o].holes /\ rsm'[o].done = rsm[o].done
      /\ rsm'[o].id = rsm[o].id
      /\ DOMAIN rsm'[o] = {"id", "size", "holes", "heap", "done", "old"}
  BY <1>4 DEF RsmType
<1>6. RsmType(rsm'[o])
  BY <1>4, <1>5 DEF RsmType
<1>7. FragTypeOK'
  BY <1>2, <1>3, <1>6 DEF FragTypeOK
<1>8. \A x \in Pool : /\ rsm'[x].size = rsm[x].size /\ rsm'[x].heap = rsm[x].heap
                      /\ rsm'[x].holes = rsm[x].holes /\ rsm'[x].done = rsm[x].done
                      /\ rsm'[x].id = rsm[x].id
  BY <1>3, <1>5
<1>9. BooksInv'
  <2>1. Live' = Live
    BY <1>2 DEF Live
  <2>2. \A j \in Ids : reassemblers[j] # NoRsm => rsm'[reassemblers[j]].id = j
    BY <1>8 DEF BooksInv, FragTypeOK
  <2>3. ASSUME NEW q \in Dispatchers, disp[q].pc = "take", ~rsm'[disp[q].obj].done
        PROVE  rsm'[disp[q].obj].id = disp[q].frag.id
    <3>1. disp[q].obj \in Pool
      BY <2>3 DEF FragTypeOK, DispType
    <3> QED BY <1>8, <2>3, <3>1 DEF BooksInv
  <2>4. \A x \in Pool : ~rsm'[x].done <=> x \in Live
    BY <1>8 DEF BooksInv
  <2> QED BY <1>2, <2>1, <2>2, <2>3, <2>4 DEF BooksInv
<1> QED BY <1>7, <1>8, <1>9

LEMMA NewIs ==
  ASSUME NEW i
  PROVE  /\ RsmType(New(i)) /\ New(i).id = i /\ New(i).size = 0 /\ New(i).heap = {}
         /\ New(i).holes = {<<0, MaxOffset>>} /\ ~New(i).done
         /\ RsmType(Gone) /\ Gone.done /\ Gone.heap = {} /\ Gone.size = 0
<1>1. MaxOffset \in Nat
  BY FragAssumption DEF MaxOffset
<1>2. /\ DOMAIN New(i) = {"id", "size", "holes", "heap", "done", "old"}
      /\ New(i).id = i /\ New(i).size = 0 /\ New(i).heap = {}
      /\ New(i).holes = {<<0, MaxOffset>>} /\ New(i).done = FALSE
  BY DEF New
<1>3. /\ DOMAIN Gone = {"id", "size", "holes", "heap", "done", "old"}
      /\ Gone.size = 0 /\ Gone.heap = {} /\ Gone.holes = {} /\ Gone.done = TRUE
  BY DEF Gone
<1>4. {<<0, MaxOffset>>} \subseteq Nat \X Nat
  BY <1>1
<1>5. New(i).done \in BOOLEAN /\ ~New(i).done /\ Gone.done \in BOOLEAN /\ Gone.done
  BY <1>2, <1>3, Zenon
<1>6. RsmType(New(i))
  BY <1>2, <1>4, <1>5 DEF RsmType
<1>7. RsmType(Gone)
  BY <1>3, <1>5 DEF RsmType
<1> QED BY <1>2, <1>3, <1>5, <1>6, <1>7

\* The map has no reassembler twice.
LEMMA MapOnce ==
  ASSUME FragTypeOK, BooksInv, NEW i \in Ids, NEW j \in Ids,
         reassemblers[i] = reassemblers[j], reassemblers[i] # NoRsm
  PROVE  i = j
BY DEF BooksInv

\* What Begins does: o is new, those of now are released.
BeginsWith(p, f, o, now, d) ==
  /\ o \notin Live /\ o \notin now
  /\ \A q \in Dispatchers : disp[q].obj # o
  /\ now = IF reassemblers[f.id] = NoRsm THEN {} ELSE {reassemblers[f.id]}
  /\ DOMAIN rsm' = Pool
  /\ \A x \in Pool : rsm'[x] = IF x = o THEN New(f.id)
                               ELSE IF x \in now THEN Gone ELSE rsm[x]
  /\ rList' = <<o>> \o Without(rList, now)
  /\ fragSize' = Less(fragSize, now)
  /\ reassemblers' = [reassemblers EXCEPT ![f.id] = o]
  /\ OnlyDisp(p, d)
  /\ DOMAIN d = {"pc", "frag", "obj", "consumed", "ready", "res"}
  /\ d.pc = "take" /\ d.frag = f /\ d.obj = o /\ d.consumed = 0
  /\ d.ready \in BOOLEAN /\ ~d.ready

LEMMA BeginsIs ==
  ASSUME FragTypeOK, BooksInv, NEW p \in Dispatchers, NEW f \in Fragments, Begins(p, f)
  PROVE  \E o \in Pool, now \in SUBSET Live : \E d : BeginsWith(p, f, o, now, d)
<1>1. PICK o : o = CHOOSE x \in Pool : Spare(x)
  OBVIOUS
<1>2. PICK now : now = Released(Outdated(f.id))
  OBVIOUS
<1>3. disp[p].pc = "idle" /\ (reassemblers[f.id] = NoRsm \/ Outdated(f.id) # {})
  BY DEF Begins
<1>4. o \in Pool /\ Spare(o)
  <2>1. \E x \in Pool : Spare(x)
    BY <1>3, SpareExists
  <2> QED BY <1>1, <2>1, Zenon
<1>5. o \notin Live /\ \A q \in Dispatchers : disp[q].obj # o
  BY <1>4 DEF Spare, Live
<1>6. f.id \in Ids
  BY FragmentsAre
<1>7. now = IF reassemblers[f.id] = NoRsm THEN {} ELSE {reassemblers[f.id]}
  <2>1. CASE reassemblers[f.id] = NoRsm
    <3>1. Outdated(f.id) = {}
      BY <2>1 DEF Outdated
    <3> QED BY <1>2, <2>1, <3>1 DEF Released
  <2>2. CASE reassemblers[f.id] # NoRsm
    <3>1. Outdated(f.id) = {reassemblers[f.id]}
      BY <1>3, <2>2 DEF Outdated
    <3>2. reassemblers[f.id] \in Live /\ reassemblers[f.id] \in Pool
      BY <1>6, <2>2 DEF Live, FragTypeOK
    <3>3. ~rsm[reassemblers[f.id]].done
      BY <3>2 DEF BooksInv
    <3> QED BY <1>2, <2>2, <3>1, <3>3 DEF Released
  <2> QED BY <2>1, <2>2
<1>8. now \in SUBSET Live
  BY <1>6, <1>7 DEF Live
<1>9. PICK d : d = [Away EXCEPT !.pc = "take", !.frag = f, !.obj = o]
  OBVIOUS
<1>10. /\ DOMAIN d = {"pc", "frag", "obj", "consumed", "ready", "res"}
       /\ d.pc = "take" /\ d.frag = f /\ d.obj = o /\ d.consumed = 0 /\ d.ready = FALSE
  BY <1>9 DEF Away
<1>11. d.ready \in BOOLEAN /\ ~d.ready
  BY <1>10, Zenon
<1>12. /\ rsm' = [x \in Pool |-> IF x = o THEN New(f.id)
                                 ELSE IF x \in now THEN Gone ELSE rsm[x]]
       /\ rList' = <<o>> \o Without(rList, now) /\ fragSize' = Less(fragSize, now)
       /\ reassemblers' = [reassemblers EXCEPT ![f.id] = o]
       /\ disp' = [disp EXCEPT ![p] = d]
  BY <1>1, <1>2, <1>9, Zenon DEF Begins
<1>13. OnlyDisp(p, d)
  BY <1>12, DispMoves
<1>14. /\ DOMAIN rsm' = Pool
       /\ \A x \in Pool : rsm'[x] = IF x = o THEN New(f.id)
                                    ELSE IF x \in now THEN Gone ELSE rsm[x]
  BY <1>12, Zenon
<1>15. o \notin now
  BY <1>5, <1>8
<1>16. BeginsWith(p, f, o, now, d)
  BY <1>5, <1>7, <1>10, <1>11, <1>12, <1>13, <1>14, <1>15, Zenon DEF BeginsWith
<1> QED BY <1>4, <1>8, <1>16

\* What is held but not by now.
LEMMA LessIsNat ==
  ASSUME FragTypeOK, NEW size \in Nat, NEW S \in SUBSET Pool
  PROVE  /\ Less(size, S) \in Nat /\ Less(size, S) + SumSizes(S) >= size
         /\ Less(size, S) <= size /\ SumSizes(S) \in Nat
         /\ \A l \in Nat : size - SumSizes(S) <= l => Less(size, S) <= l
BY SizesOfPool DEF Less

LEMMA BeginsBooks ==
  ASSUME FragTypeOK, BooksInv, NEW p \in Dispatchers, NEW f \in Fragments,
         NEW o \in Pool, NEW now \in SUBSET Live, NEW d, BeginsWith(p, f, o, now, d)
  PROVE  FragTypeOK' /\ BooksInv' /\ Live' = (Live \ now) \cup {o}
<1>1. /\ o \notin Live /\ o \notin now
      /\ \A q \in Dispatchers : disp[q].obj # o
      /\ now = IF reassemblers[f.id] = NoRsm THEN {} ELSE {reassemblers[f.id]}
      /\ DOMAIN rsm' = Pool
      /\ \A x \in Pool : rsm'[x] = IF x = o THEN New(f.id)
                                   ELSE IF x \in now THEN Gone ELSE rsm[x]
      /\ rList' = <<o>> \o Without(rList, now)
      /\ fragSize' = Less(fragSize, now)
      /\ reassemblers' = [reassemblers EXCEPT ![f.id] = o]
  BY Zenon DEF BeginsWith
<1>2. /\ OnlyDisp(p, d)
       /\ DOMAIN d = {"pc", "frag", "obj", "consumed", "ready", "res"}
       /\ d.pc = "take" /\ d.frag = f /\ d.obj = o /\ d.consumed = 0
       /\ d.ready \in BOOLEAN /\ ~d.ready
  BY Zenon DEF BeginsWith
<1>3. f.id \in Ids /\ now \in SUBSET Pool /\ o # NoRsm /\ NoRsm \notin Pool
  BY FragmentsAre, LiveInPool
<1>4. DispType(d)
  <2>1. d.pc \in {"idle", "take", "charge"} /\ d.pc # "idle" /\ d.obj \in Pool
        /\ d.consumed \in Nat
    BY <1>2
  <2> QED BY <1>2, <2>1, Zenon DEF DispType
<1>5. \A x \in Pool : RsmType(rsm'[x])
  <2> SUFFICES ASSUME NEW x \in Pool PROVE RsmType(rsm'[x])
    OBVIOUS
  <2>1. RsmType(New(f.id)) /\ RsmType(Gone) /\ RsmType(rsm[x])
    BY NewIs DEF FragTypeOK
  <2>2. rsm'[x] = New(f.id) \/ rsm'[x] = Gone \/ rsm'[x] = rsm[x]
    BY <1>1
  <2> QED BY <2>1, <2>2, Zenon
<1>6. /\ reassemblers' \in [Ids -> Pool \cup {NoRsm}] /\ reassemblers'[f.id] = o
      /\ \A i \in Ids : i # f.id => reassemblers'[i] = reassemblers[i]
  BY <1>1, <1>3 DEF FragTypeOK
<1>7. /\ Without(rList, now) \in Seq(Pool) /\ OnceEach(Without(rList, now))
      /\ ToSet(Without(rList, now)) = ToSet(rList) \ now
  <2>1. \A x, y \in now : x = y
    BY <1>1
  <2> QED BY <2>1, WithoutOne DEF FragTypeOK, BooksInv
<1>8. /\ rList' \in Seq(Pool) /\ OnceEach(rList')
      /\ ToSet(rList') = (Live \ now) \cup {o}
  <2>1. o \notin ToSet(Without(rList, now)) /\ ToSet(rList) = Live
    BY <1>1, <1>7 DEF BooksInv
  <2>2. rList' = <<o>> \o Without(rList, now) \/ rList' = Append(Without(rList, now), o)
    BY <1>1
  <2>3. PICK w : w = Without(rList, now)
    OBVIOUS
  <2>4. w \in Seq(Pool) /\ OnceEach(w) /\ o \notin ToSet(w)
        /\ (rList' = <<o>> \o w \/ rList' = Append(w, o))
    BY <1>7, <2>1, <2>2, <2>3
  <2>5. rList' \in Seq(Pool) /\ OnceEach(rList') /\ ToSet(rList') = ToSet(w) \cup {o}
    BY <2>4, ListWith
  <2> QED BY <1>7, <2>1, <2>3, <2>5
<1>9. Live' = (Live \ now) \cup {o}
  <2>1. Live' = {reassemblers'[i] : i \in Ids} \ {NoRsm}
    BY DEF Live
  <2>2. ASSUME NEW x \in Live' PROVE x \in (Live \ now) \cup {o}
    <3>1. PICK i \in Ids : x = reassemblers'[i] /\ x # NoRsm
      BY <2>1, <2>2
    <3>2. CASE i = f.id
      BY <1>6, <3>1, <3>2
    <3>3. CASE i # f.id
      <4>1. x = reassemblers[i] /\ x \in Live
        BY <1>6, <3>1, <3>3 DEF Live
      <4>2. x \notin now
        BY <1>1, <1>3, <3>1, <3>3, <4>1, MapOnce
      <4> QED BY <4>1, <4>2
    <3> QED BY <3>2, <3>3
  <2>3. ASSUME NEW x \in Live \ now PROVE x \in Live'
    <3>1. PICK i \in Ids : x = reassemblers[i] /\ x # NoRsm
      BY <2>3 DEF Live
    <3>2. i # f.id
      BY <1>1, <2>3, <3>1
    <3>3. x = reassemblers'[i]
      BY <1>6, <3>1, <3>2
    <3> QED BY <2>1, <3>1, <3>3
  <2>4. o \in Live'
    BY <1>3, <1>6, <2>1
  <2> QED BY <2>2, <2>3, <2>4
<1>10. fragSize' \in Nat
  BY <1>1, <1>3, LessIsNat DEF FragTypeOK
<1>11. FragTypeOK'
  <2>1. \A q \in Dispatchers : DispType(disp'[q])
    BY <1>2, <1>4, DispTypes
  <2> QED BY <1>2, <1>1, <1>5, <1>6, <1>8, <1>10, <2>1 DEF FragTypeOK, OnlyDisp
<1>12. ASSUME NEW x \in Pool PROVE ~rsm'[x].done <=> x \in Live'
  <2>1. CASE x = o
    BY <1>1, <1>9, <2>1, NewIs
  <2>2. CASE x # o /\ x \in now
    BY <1>1, <1>9, <2>2, NewIs
  <2>3. CASE x # o /\ x \notin now
    <3>1. rsm'[x] = rsm[x]
      BY <1>1, <2>3
    <3>2. ~rsm[x].done <=> x \in Live
      BY DEF BooksInv
    <3> QED BY <1>9, <2>3, <3>1, <3>2, Zenon
  <2> QED BY <2>1, <2>2, <2>3
<1>13. ASSUME NEW i \in Ids, reassemblers'[i] # NoRsm
       PROVE  rsm'[reassemblers'[i]].id = i
  <2>1. CASE i = f.id
    BY <1>1, <1>6, <2>1, NewIs
  <2>2. CASE i # f.id
    <3>1. reassemblers'[i] = reassemblers[i] /\ reassemblers[i] \in Live
          /\ reassemblers[i] \in Pool
      BY <1>6, <1>13, <2>2 DEF Live, FragTypeOK
    <3>2. reassemblers[i] \notin now /\ reassemblers[i] # o
      BY <1>1, <1>3, <1>13, <2>2, <3>1, MapOnce
    <3>3. rsm'[reassemblers[i]] = rsm[reassemblers[i]]
      BY <1>1, <3>1, <3>2
    <3>4. rsm[reassemblers[i]].id = i
      BY <1>13, <3>1 DEF BooksInv
    <3> QED BY <3>1, <3>3, <3>4
  <2> QED BY <2>1, <2>2
<1>14. ASSUME NEW q \in Dispatchers, disp'[q].pc = "take", ~rsm'[disp'[q].obj].done
       PROVE  rsm'[disp'[q].obj].id = disp'[q].frag.id
  <2>1. CASE q = p
    <3>1. disp'[q] = d
      BY <1>2, <2>1 DEF OnlyDisp
    <3> QED BY <1>2, <1>1, <3>1, NewIs
  <2>2. CASE q # p
    <3>1. disp'[q] = disp[q] /\ disp[q].obj \in Pool /\ disp[q].obj # o
      BY <1>2, <1>1, <1>14, <2>2 DEF OnlyDisp, FragTypeOK, DispType
    <3>2. disp[q].obj \notin now
      <4>1. Gone.done
        BY NewIs
      <4> QED BY <1>1, <1>14, <3>1, <4>1
    <3>3. rsm'[disp[q].obj] = rsm[disp[q].obj]
      BY <1>1, <3>1, <3>2
    <3> QED BY <1>14, <3>1, <3>3 DEF BooksInv
  <2> QED BY <2>1, <2>2
<1>15. BooksInv'
  BY <1>8, <1>9, <1>12, <1>13, <1>14 DEF BooksInv
<1> QED BY <1>9, <1>11, <1>15

\* What Takes does with the fragment f, in o.
HeapWith(o, f) == IF Fills(rsm[o].holes, f) THEN rsm[o].heap \cup {f} ELSE rsm[o].heap
Cost(o, f) == IF Fills(rsm[o].holes, f) THEN Size(f) ELSE 0

TakesWith(p, o, f, holes, heap, cost, res, d) ==
  /\ o = disp[p].obj /\ f = disp[p].frag
  /\ holes = HolesAfter(rsm[o].holes, f) /\ heap = HeapWith(o, f) /\ cost = Cost(o, f)
  /\ res = IF holes = {} THEN Reassembled(heap) ELSE <<>>
  /\ DOMAIN rsm' = Pool /\ \A x \in Pool : x # o => rsm'[x] = rsm[x]
  /\ DOMAIN rsm'[o] = {"id", "size", "holes", "heap", "done", "old"}
  /\ rsm'[o].id = rsm[o].id /\ rsm'[o].done = rsm[o].done
  /\ rsm'[o].size = rsm[o].size + cost /\ rsm'[o].holes = holes
  /\ rsm'[o].heap = IF holes = {} THEN {} ELSE heap
  /\ fragPanic' = IF holes = {} /\ heap = {} THEN "empty"
                  ELSE IF res = Hole THEN "hole" ELSE "none"
  /\ OnlyDisp(p, d)
  /\ DOMAIN d = {"pc", "frag", "obj", "consumed", "ready", "res"}
  /\ d.pc = "charge" /\ d.obj = o /\ d.consumed = cost /\ d.res = res
  /\ d.ready \in BOOLEAN /\ (d.ready <=> holes = {})
  /\ UNCHANGED <<reassemblers, rList, fragSize>>

LEMMA TakesIs ==
  ASSUME FragTypeOK, BooksInv, NEW p \in Dispatchers, Takes(p)
  PROVE  \E o \in Live, f \in Fragments, holes \in SUBSET (Nat \X Nat),
            heap \in SUBSET Fragments, cost \in Nat :
           \E res, d : TakesWith(p, o, f, holes, heap, cost, res, d)
<1>1. PICK o, f : o = disp[p].obj /\ f = disp[p].frag
  OBVIOUS
<1>2. PICK holes, heap, cost : /\ holes = HolesAfter(rsm[o].holes, f)
                               /\ heap = HeapWith(o, f) /\ cost = Cost(o, f)
  OBVIOUS
<1>3. PICK res, ready : /\ res = IF holes = {} THEN Reassembled(heap) ELSE <<>>
                        /\ ready = (holes = {})
  OBVIOUS
<1>4. disp[p].pc = "take" /\ ~rsm[o].done
  BY <1>1, Zenon DEF Takes
<1>5. o \in Pool /\ f \in Fragments
  BY <1>1, <1>4 DEF FragTypeOK, DispType
<1>6. o \in Live
  BY <1>4, <1>5 DEF BooksInv
<1>7. RsmType(rsm[o])
  BY <1>5 DEF FragTypeOK
<1>8. f.first \in Nat /\ f.last \in Nat /\ f.more \in BOOLEAN /\ Size(f) \in Nat
  BY <1>5, FragmentsAre
<1>9. holes \in SUBSET (Nat \X Nat)
  <2>1. rsm[o].holes \subseteq Nat \X Nat
    BY <1>7 DEF RsmType
  <2>2. SUFFICES ASSUME NEW x \in holes PROVE x \in Nat \X Nat
    OBVIOUS
  <2>3. PICK h \in rsm[o].holes : \/ x = h
                                  \/ f.first > h[1] /\ x = <<h[1], f.first - 1>>
                                  \/ f.last < h[2] /\ x = <<f.last + 1, h[2]>>
    BY <1>2 DEF HolesAfter
  <2>4. h[1] \in Nat /\ h[2] \in Nat
    BY <2>1
  <2>5. (f.first > h[1] => f.first - 1 \in Nat) /\ f.last + 1 \in Nat
    BY <1>8, <2>4
  <2> QED BY <2>1, <2>3, <2>4, <2>5
<1>10. heap \in SUBSET Fragments /\ cost \in Nat
  BY <1>2, <1>5, <1>7, <1>8 DEF HeapWith, Cost, RsmType
<1>11. PICK d : d = [Away EXCEPT !.pc = "charge", !.obj = o, !.consumed = cost,
                                 !.ready = ready, !.res = res]
  OBVIOUS
<1>12. /\ rsm' = [rsm EXCEPT ![o].holes = holes, ![o].size = @ + cost,
                             ![o].heap = IF ready THEN {} ELSE heap]
       /\ fragPanic' = IF ready /\ heap = {} THEN "empty"
                       ELSE IF res = Hole THEN "hole" ELSE "none"
       /\ disp' = [disp EXCEPT ![p] = d]
       /\ UNCHANGED <<reassemblers, rList, fragSize>>
  BY <1>1, <1>2, <1>3, <1>11 DEF Takes, HeapWith, Cost
<1>13. ready \in BOOLEAN /\ (ready <=> holes = {})
  BY <1>3
<1>14. /\ DOMAIN d = {"pc", "frag", "obj", "consumed", "ready", "res"}
       /\ d.pc = "charge" /\ d.obj = o /\ d.consumed = cost /\ d.res = res
       /\ d.ready = ready
  BY <1>11 DEF Away
<1>15. OnlyDisp(p, d)
  BY <1>12, DispMoves
<1>16. /\ DOMAIN rsm' = Pool /\ \A x \in Pool : x # o => rsm'[x] = rsm[x]
       /\ DOMAIN rsm'[o] = {"id", "size", "holes", "heap", "done", "old"}
       /\ rsm'[o].id = rsm[o].id /\ rsm'[o].done = rsm[o].done
       /\ rsm'[o].size = rsm[o].size + cost /\ rsm'[o].holes = holes
       /\ rsm'[o].heap = IF ready THEN {} ELSE heap
  BY <1>5, <1>7, <1>12 DEF FragTypeOK, RsmType
<1>17. TakesWith(p, o, f, holes, heap, cost, res, d)
  <2>1. d.ready \in BOOLEAN /\ (d.ready <=> holes = {})
    BY <1>13, <1>14, Zenon
  <2>2. rsm'[o].heap = IF holes = {} THEN {} ELSE heap
    BY <1>13, <1>16, Zenon
  <2>3. fragPanic' = IF holes = {} /\ heap = {} THEN "empty"
                     ELSE IF res = Hole THEN "hole" ELSE "none"
    BY <1>12, <1>13, Zenon
  <2> QED BY <1>1, <1>2, <1>3, <1>12, <1>14, <1>15, <1>16, <2>1, <2>2, <2>3, Zenon
          DEF TakesWith
<1> QED BY <1>5, <1>6, <1>9, <1>10, <1>17

LEMMA TakesBooks ==
  ASSUME FragTypeOK, BooksInv, NEW p \in Dispatchers, NEW o \in Live, NEW f,
         NEW holes \in SUBSET (Nat \X Nat), NEW heap \in SUBSET Fragments,
         NEW cost \in Nat, NEW res, NEW d, TakesWith(p, o, f, holes, heap, cost, res, d)
  PROVE  FragTypeOK' /\ BooksInv'
<1>1. o \in Pool /\ RsmType(rsm[o])
  BY LiveInPool DEF FragTypeOK
<1>2. /\ DOMAIN rsm' = Pool /\ \A x \in Pool : x # o => rsm'[x] = rsm[x]
      /\ DOMAIN rsm'[o] = {"id", "size", "holes", "heap", "done", "old"}
      /\ rsm'[o].id = rsm[o].id /\ rsm'[o].done = rsm[o].done
      /\ rsm'[o].size = rsm[o].size + cost /\ rsm'[o].holes = holes
      /\ rsm'[o].heap = IF holes = {} THEN {} ELSE heap
  BY Zenon DEF TakesWith
<1>3. RsmType(rsm'[o])
  BY <1>1, <1>2 DEF RsmType
<1>4. OnlyDisp(p, d) /\ d.pc = "charge" /\ UNCHANGED <<reassemblers, rList, fragSize>>
  BY Zenon DEF TakesWith
<1>5. DispType(d)
  <2>1. /\ DOMAIN d = {"pc", "frag", "obj", "consumed", "ready", "res"}
        /\ d.obj = o /\ d.consumed = cost /\ d.ready \in BOOLEAN
    BY Zenon DEF TakesWith
  <2> QED BY <1>1, <1>4, <2>1 DEF DispType
<1>6. FragTypeOK'
  <2>1. \A q \in Dispatchers : DispType(disp'[q])
    BY <1>4, <1>5, DispTypes
  <2> QED BY <1>2, <1>3, <1>4, <2>1 DEF FragTypeOK, OnlyDisp
<1>7. \A x \in Pool : rsm'[x].done = rsm[x].done /\ rsm'[x].id = rsm[x].id
  BY <1>2
<1>8. BooksInv'
  <2>1. Live' = Live
    BY <1>4 DEF Live
  <2>2. \A x \in Pool : ~rsm'[x].done <=> x \in Live
    BY <1>7 DEF BooksInv
  <2>3. \A i \in Ids : reassemblers[i] # NoRsm => rsm'[reassemblers[i]].id = i
    BY <1>7 DEF BooksInv, FragTypeOK
  <2>4. ASSUME NEW q \in Dispatchers, disp'[q].pc = "take", ~rsm'[disp'[q].obj].done
        PROVE  rsm'[disp'[q].obj].id = disp'[q].frag.id
    <3>1. q # p /\ disp'[q] = disp[q] /\ disp[q].obj \in Pool
      BY <1>4, <2>4 DEF OnlyDisp, FragTypeOK, DispType
    <3> QED BY <1>7, <2>4, <3>1 DEF BooksInv
  <2> QED BY <1>4, <2>1, <2>2, <2>3, <2>4 DEF BooksInv
<1> QED BY <1>6, <1>8

\* What Charges does: those of now are released, and the oldest n of the rest.
ChargesWith(p, now, list, size, n, oldest) ==
  /\ now \subseteq Live /\ \A x, y \in now : x = y
  /\ size = Less(fragSize + disp[p].consumed, now)
  /\ ToSet(list) = Live \ now /\ OnceEach(list)
  /\ n = Evicted(size, list)
  /\ oldest = {list[j] : j \in (Len(list) - n + 1)..Len(list)}
  /\ DOMAIN rsm' = Pool
  /\ \A x \in Pool : rsm'[x] = IF x \in now \cup oldest THEN Gone ELSE rsm[x]
  /\ reassemblers' = [i \in Ids |-> IF reassemblers[i] \in now \cup oldest THEN NoRsm
                                    ELSE reassemblers[i]]
  /\ rList' = SubSeq(list, 1, Len(list) - n) /\ fragSize' = Less(size, oldest)
  /\ OnlyDisp(p, Away)

LEMMA ChargesIs ==
  ASSUME FragTypeOK, BooksInv, NEW p \in Dispatchers, Charges(p)
  PROVE  \E now \in SUBSET Live, list \in Seq(Pool), size \in Nat : \E n, oldest :
           ChargesWith(p, now, list, size, n, oldest)
<1>1. PICK now, list, size :
        /\ now = Released(Finished(p))
        /\ size = Less(fragSize + Charged(p), now) /\ list = Without(rList, now)
  OBVIOUS
<1>2. PICK n : n = Evicted(size, list)
  OBVIOUS
<1>3. PICK oldest : oldest = {list[j] : j \in (Len(list) - n + 1)..Len(list)}
  OBVIOUS
<1>4. disp[p].pc = "charge" /\ DispType(disp[p])
  BY DEF Charges, FragTypeOK
<1>5. now \subseteq Live /\ \A x, y \in now : x = y
  <2>1. disp[p].obj \in Pool
    BY <1>4 DEF DispType
  <2>2. now \subseteq {disp[p].obj} /\ \A x \in now : ~rsm[x].done
    BY <1>1 DEF Released, Finished
  <2> QED BY <2>1, <2>2 DEF BooksInv
<1>6. now \in SUBSET Pool
  BY <1>5, LiveInPool
<1>7. size \in Nat /\ size = Less(fragSize + disp[p].consumed, now)
  <2>1. fragSize + disp[p].consumed \in Nat
    BY <1>4 DEF DispType, FragTypeOK
  <2> QED BY <1>1, <1>6, <2>1, LessIsNat DEF Charged
<1>8. list \in Seq(Pool) /\ OnceEach(list) /\ ToSet(list) = Live \ now
  BY <1>1, <1>5, WithoutOne DEF FragTypeOK, BooksInv
<1>9. /\ rsm' = [x \in Pool |-> IF x \in now \cup oldest THEN Gone ELSE rsm[x]]
      /\ reassemblers' = [i \in Ids |-> IF reassemblers[i] \in now \cup oldest THEN NoRsm
                                        ELSE reassemblers[i]]
      /\ rList' = SubSeq(list, 1, Len(list) - n) /\ fragSize' = Less(size, oldest)
      /\ disp' = [disp EXCEPT ![p] = Away]
  BY <1>1, <1>2, <1>3, Zenon DEF Charges
<1>10. OnlyDisp(p, Away)
  BY <1>9, DispMoves
<1>11. /\ DOMAIN rsm' = Pool
       /\ \A x \in Pool : rsm'[x] = IF x \in now \cup oldest THEN Gone ELSE rsm[x]
  BY <1>9, Zenon
<1>12. ChargesWith(p, now, list, size, n, oldest)
  BY <1>2, <1>3, <1>5, <1>7, <1>8, <1>9, <1>10, <1>11, Zenon DEF ChargesWith
<1> QED BY <1>5, <1>7, <1>8, <1>12

Remaining(now, oldest) == (Live \ now) \ oldest

LEMMA ChargesBooks ==
  ASSUME FragTypeOK, BooksInv, NEW p \in Dispatchers, NEW now \in SUBSET Live,
         NEW list \in Seq(Pool), NEW size \in Nat, NEW n, NEW oldest,
         ChargesWith(p, now, list, size, n, oldest)
  PROVE  /\ FragTypeOK' /\ BooksInv'
         /\ oldest \subseteq Live \ now /\ Live' = Remaining(now, oldest)
         /\ n = Len(list) => Live' = {}
<1> DEFINE gone == now \cup oldest
<1>1. n \in 0..Len(list)
  BY EvictedIs DEF ChargesWith
<1>2. /\ rList' \in Seq(Pool) /\ OnceEach(rList')
      /\ ToSet(rList') = (Live \ now) \ oldest /\ oldest \subseteq Live \ now
      /\ n = Len(list) => ToSet(rList') = {}
  <2>1. OnceEach(list) /\ ToSet(list) = Live \ now
    BY Zenon DEF ChargesWith
  <2>2. PICK t, last : t = rList' /\ last = oldest
    OBVIOUS
  <2>3. LosesLast(list, n, t, last)
    BY <1>1, <2>2, Zenon DEF ChargesWith, LosesLast
  <2>4. /\ t \in Seq(Pool) /\ OnceEach(t)
        /\ ToSet(t) = ToSet(list) \ last /\ last \subseteq ToSet(list)
        /\ n = Len(list) => ToSet(t) = {}
    BY <2>1, <2>3, FirstOnes
  <2> QED BY <2>1, <2>2, <2>4
<1>3. gone \subseteq Live /\ gone \subseteq Pool /\ NoRsm \notin Pool
  BY <1>2, LiveInPool
<1>4. /\ DOMAIN rsm' = Pool
      /\ \A x \in Pool : rsm'[x] = IF x \in gone THEN Gone ELSE rsm[x]
      /\ reassemblers' = [i \in Ids |-> IF reassemblers[i] \in gone THEN NoRsm
                                        ELSE reassemblers[i]]
      /\ fragSize' = Less(size, oldest) /\ OnlyDisp(p, Away)
  BY Zenon DEF ChargesWith
<1> HIDE DEF gone
<1>5. Live' = Live \ gone
  <2>1. ASSUME NEW x \in Live' PROVE x \in Live \ gone
    <3>1. PICK i \in Ids : x = reassemblers'[i] /\ x # NoRsm
      BY <2>1 DEF Live
    <3> QED BY <1>4, <3>1 DEF Live
  <2>2. ASSUME NEW x \in Live, x \notin gone PROVE x \in Live'
    <3>1. PICK i \in Ids : x = reassemblers[i] /\ x # NoRsm
      BY DEF Live
    <3>2. x = reassemblers'[i]
      BY <1>4, <2>2, <3>1
    <3> QED BY <3>1, <3>2 DEF Live
  <2> QED BY <2>1, <2>2
<1>6. Live' = (Live \ now) \ oldest
  BY <1>5 DEF gone
<1>7. Gone.done /\ RsmType(Gone)
  BY NewIs
<1>8. FragTypeOK'
  <2>1. \A x \in Pool : RsmType(rsm'[x])
    BY <1>4, <1>7 DEF FragTypeOK
  <2>2. reassemblers' \in [Ids -> Pool \cup {NoRsm}]
    BY <1>4 DEF FragTypeOK
  <2>3. fragSize' \in Nat
    <3>1. oldest \in SUBSET Pool
      BY <1>2, LiveInPool
    <3> QED BY <1>4, <3>1, LessIsNat
  <2>4. DispType(Away)
    <3>1. /\ DOMAIN Away = {"pc", "frag", "obj", "consumed", "ready", "res"}
          /\ Away.pc = "idle" /\ Away.obj = NoRsm /\ Away.consumed = 0 /\ Away.ready = FALSE
      BY DEF Away
    <3>2. Away.ready \in BOOLEAN /\ ~Away.ready
      BY <3>1, Zenon
    <3>3. Away.pc \in {"idle", "take", "charge"} /\ Away.pc # "take" /\ Away.consumed \in Nat
      BY <3>1
    <3> QED BY <3>1, <3>2, <3>3, Zenon DEF DispType
  <2>5. \A q \in Dispatchers : DispType(disp'[q])
    BY <1>4, <2>4, DispTypes
  <2> QED BY <1>2, <1>4, <2>1, <2>2, <2>3, <2>5 DEF FragTypeOK, OnlyDisp
<1>9. BooksInv'
  <2>1. ASSUME NEW x \in Pool PROVE ~rsm'[x].done <=> x \in Live'
    <3>1. CASE x \in gone
      BY <1>4, <1>5, <1>7, <3>1
    <3>2. CASE x \notin gone
      <4>1. rsm'[x] = rsm[x]
        BY <1>4, <3>2
      <4>2. ~rsm[x].done <=> x \in Live
        BY DEF BooksInv
      <4> QED BY <1>5, <3>2, <4>1, <4>2, Zenon
    <3> QED BY <3>1, <3>2
  <2>2. ASSUME NEW i \in Ids, reassemblers'[i] # NoRsm
        PROVE  rsm'[reassemblers'[i]].id = i
    <3>1. reassemblers'[i] = reassemblers[i] /\ reassemblers[i] \notin gone
          /\ reassemblers[i] # NoRsm
      BY <1>4, <2>2
    <3>2. reassemblers[i] \in Pool
      BY <3>1 DEF FragTypeOK
    <3>3. rsm'[reassemblers[i]] = rsm[reassemblers[i]]
      BY <1>4, <3>1, <3>2
    <3> QED BY <3>1, <3>3 DEF BooksInv
  <2>3. ASSUME NEW q \in Dispatchers, disp'[q].pc = "take", ~rsm'[disp'[q].obj].done
        PROVE  rsm'[disp'[q].obj].id = disp'[q].frag.id
    <3>1. q # p
      BY <1>4, <2>3 DEF OnlyDisp, Away
    <3>2. disp'[q] = disp[q] /\ disp[q].obj \in Pool
      BY <1>4, <2>3, <3>1 DEF OnlyDisp, FragTypeOK, DispType
    <3>3. rsm'[disp[q].obj] = rsm[disp[q].obj]
      BY <1>4, <1>7, <2>3, <3>2
    <3> QED BY <2>3, <3>2, <3>3 DEF BooksInv
  <2> QED BY <1>2, <1>6, <2>1, <2>2, <2>3 DEF BooksInv
<1> QED BY <1>2, <1>6, <1>8, <1>9 DEF Remaining

-----------------------------------------------------------------------------
(* The account. *)

\* The sizes and what is yet to be charged, as functions.
Sizes == [o \in Pool |-> rsm[o].size]
Yet == [p \in Dispatchers |-> disp[p].consumed]

LEMMA SizesAre ==
  ASSUME FragTypeOK
  PROVE  /\ IsFiniteSet(Dispatchers) /\ \A p \in Dispatchers : Yet[p] \in Nat
         /\ \A o \in Pool : Sizes[o] \in Nat
         /\ Pending = SumFunctionOnSet(Yet, Dispatchers) /\ Pending \in Nat
         /\ \A S : SumSizes(S) = SumFunctionOnSet(Sizes, S)
<1>1. \A p \in Dispatchers : Yet[p] \in Nat
  BY DEF FragTypeOK, DispType, Yet
<1>2. \A o \in Pool : Sizes[o] \in Nat
  BY DEF FragTypeOK, RsmType, Sizes
<1>3. IsFiniteSet(Dispatchers)
  BY FragAssumption
<1>4. Pending = SumFunctionOnSet(Yet, Dispatchers)
  <2>1. DOMAIN Yet = Dispatchers
    BY DEF Yet
  <2>2. Pending = SumFunctionOnSet(Yet, DOMAIN Yet)
    BY Zenon DEF Pending, Yet, SumFunction
  <2> QED BY <2>1, <2>2
<1>5. \A S : SumSizes(S) = SumFunctionOnSet(Sizes, S)
  BY Zenon DEF SumSizes, Sizes
<1>6. Pending \in Nat
  <2>1. PICK y : y = Yet
    OBVIOUS
  <2>2. SumFunctionOnSet(y, Dispatchers) \in Nat
    BY <1>1, <1>3, <2>1, SumOfAny
  <2> QED BY <1>4, <2>1, <2>2
<1> QED BY <1>1, <1>2, <1>3, <1>4, <1>5, <1>6

LEMMA PendingIs ==
  /\ Pending = SumFunctionOnSet(Yet, Dispatchers)
  /\ Pending' = SumFunctionOnSet(Yet', Dispatchers)
<1>1. Pending = SumFunctionOnSet(Yet, DOMAIN Yet) /\ DOMAIN Yet = Dispatchers
  BY Zenon DEF Pending, Yet, SumFunction
<1>2. Pending' = SumFunctionOnSet(Yet', DOMAIN Yet') /\ DOMAIN Yet' = Dispatchers
  BY Zenon DEF Pending, Yet, SumFunction
<1> QED BY <1>1, <1>2

\* One dispatcher's share changes.
LEMMA PendingMoves ==
  ASSUME FragTypeOK, FragTypeOK', NEW p \in Dispatchers,
         \A q \in Dispatchers : q # p => disp'[q] = disp[q]
  PROVE  /\ Pending' + disp[p].consumed = Pending + disp'[p].consumed
         /\ Pending \in Nat /\ Pending' \in Nat
<1>1. PICK y, z : y = Yet /\ z = Yet'
  OBVIOUS
<1>2. \A q \in Dispatchers : y[q] = disp[q].consumed /\ z[q] = disp'[q].consumed
  BY <1>1 DEF Yet
<1>3. \A q \in Dispatchers : y[q] \in Nat /\ z[q] \in Nat
  BY <1>2 DEF FragTypeOK, DispType
<1>4. IsFiniteSet(Dispatchers)
  BY FragAssumption
<1>5. \A q \in Dispatchers : q # p => z[q] = y[q]
  BY <1>2
<1>6. /\ SumFunctionOnSet(z, Dispatchers) + y[p] = SumFunctionOnSet(y, Dispatchers) + z[p]
      /\ SumFunctionOnSet(y, Dispatchers) \in Nat /\ SumFunctionOnSet(z, Dispatchers) \in Nat
  BY <1>3, <1>4, <1>5, SumStep
<1>7. Pending = SumFunctionOnSet(y, Dispatchers) /\ Pending' = SumFunctionOnSet(z, Dispatchers)
  BY <1>1, PendingIs
<1> QED BY <1>2, <1>6, <1>7

\* Some that stay as large as they were.
LEMMA SizesStay ==
  ASSUME FragTypeOK, FragTypeOK', NEW S \in SUBSET Pool,
         \A o \in S : rsm'[o].size = rsm[o].size
  PROVE  SumFunctionOnSet(Sizes', S) = SumFunctionOnSet(Sizes, S)
<1>1. PICK y, z : y = Sizes /\ z = Sizes'
  OBVIOUS
<1>2. \A o \in S : y[o] = rsm[o].size /\ z[o] = rsm'[o].size
  BY <1>1 DEF Sizes
<1>3. \A o \in S : y[o] \in Nat /\ z[o] = y[o]
  BY <1>2 DEF FragTypeOK, RsmType
<1>4. IsFiniteSet(S)
  BY LiveInPool
<1>5. SumFunctionOnSet(z, S) = SumFunctionOnSet(y, S)
  BY <1>3, <1>4, SumSame
<1> QED BY <1>1, <1>5

\* What is held now and then.
LEMMA HeldIs ==
  ASSUME FragTypeOK, FragTypeOK'
  PROVE  /\ SumSizes(Live) = SumFunctionOnSet(Sizes, Live)
         /\ SumSizes(Live)' = SumFunctionOnSet(Sizes', Live')
BY Zenon DEF SumSizes, Sizes

LEMMA AccountStays ==
  ASSUME FragTypeOK, FragTypeOK', SizeInv, fragSize' = fragSize, Live' = Live,
         \A o \in Pool : rsm'[o].size = rsm[o].size,
         \A q \in Dispatchers : disp'[q].consumed = disp[q].consumed
  PROVE  SizeInv'
<1>1. Pending' = Pending
  <2>1. PICK y, z : y = Yet /\ z = Yet'
    OBVIOUS
  <2>2. \A q \in Dispatchers : y[q] = disp[q].consumed /\ z[q] = disp'[q].consumed
    BY <2>1 DEF Yet
  <2>3. \A q \in Dispatchers : y[q] \in Nat /\ z[q] = y[q]
    BY <2>2 DEF FragTypeOK, DispType
  <2>4. IsFiniteSet(Dispatchers)
    BY FragAssumption
  <2>5. SumFunctionOnSet(z, Dispatchers) = SumFunctionOnSet(y, Dispatchers)
    BY <2>3, <2>4, SumSame
  <2>6. Pending = SumFunctionOnSet(Yet, Dispatchers)
        /\ Pending' = SumFunctionOnSet(Yet', Dispatchers)
    BY PendingIs
  <2> QED BY <2>1, <2>5, <2>6
<1>2. PICK L : L = Live
  OBVIOUS
<1>3. SumFunctionOnSet(Sizes', L) = SumFunctionOnSet(Sizes, L)
  BY <1>2, LiveInPool, SizesStay
<1>4. SumSizes(Live)' = SumSizes(Live)
  BY <1>2, <1>3, HeldIs
<1> QED BY <1>1, <1>4 DEF SizeInv

LEMMA TakesAccount ==
  ASSUME FragTypeOK, FragTypeOK', SizeInv, NEW p \in Dispatchers, disp[p].pc = "take",
         NEW o \in Live, NEW f, NEW holes, NEW heap,
         NEW cost \in Nat, NEW res, NEW d, TakesWith(p, o, f, holes, heap, cost, res, d)
  PROVE  SizeInv'
<1>1. /\ \A x \in Pool : x # o => rsm'[x] = rsm[x]
      /\ rsm'[o].size = rsm[o].size + cost /\ OnlyDisp(p, d) /\ d.consumed = cost
      /\ UNCHANGED <<reassemblers, rList, fragSize>>
  BY Zenon DEF TakesWith
<1>2. Pending' = Pending + cost /\ Pending \in Nat
  <2>1. disp[p].consumed = 0
    BY DEF FragTypeOK, DispType
  <2>2. disp'[p].consumed = cost /\ \A q \in Dispatchers : q # p => disp'[q] = disp[q]
    BY <1>1 DEF OnlyDisp
  <2>3. Pending' + 0 = Pending + cost /\ Pending \in Nat /\ Pending' \in Nat
    BY <2>1, <2>2, PendingMoves
  <2>4. PICK a, b : a = Pending /\ b = Pending'
    OBVIOUS
  <2>5. b + 0 = a + cost /\ a \in Nat /\ b \in Nat
    BY <2>3, <2>4
  <2>6. b = a + cost
    BY <2>5
  <2> QED BY <2>4, <2>5, <2>6
<1>3. PICK L, y, z : L = Live /\ y = Sizes /\ z = Sizes'
  OBVIOUS
<1>4. L \subseteq Pool /\ IsFiniteSet(L) /\ o \in L /\ Live' = L
  BY <1>1, <1>3, LiveInPool DEF Live
<1>5. \A x \in Pool : y[x] = rsm[x].size /\ z[x] = rsm'[x].size
  BY <1>3 DEF Sizes
<1>6. \A x \in L : y[x] \in Nat /\ (x # o => z[x] = y[x])
  BY <1>1, <1>4, <1>5 DEF FragTypeOK, RsmType
<1>7. z[o] = y[o] + cost /\ z[o] \in Nat
  BY <1>1, <1>4, <1>5, <1>6
<1>8. /\ SumFunctionOnSet(z, L) + y[o] = SumFunctionOnSet(y, L) + z[o]
      /\ SumFunctionOnSet(y, L) \in Nat /\ SumFunctionOnSet(z, L) \in Nat
  BY <1>4, <1>6, <1>7, SumStep
<1>9. SumFunctionOnSet(z, L) = SumFunctionOnSet(y, L) + cost
  <2>1. PICK a, b, c : a = SumFunctionOnSet(y, L) /\ b = SumFunctionOnSet(z, L) /\ c = y[o]
    OBVIOUS
  <2>2. c \in Nat /\ a \in Nat /\ b \in Nat /\ b + c = a + (c + cost)
    BY <1>4, <1>6, <1>7, <1>8, <2>1
  <2>3. b = a + cost
    BY <2>2
  <2> QED BY <2>1, <2>3
<1>10. SumSizes(Live) = SumFunctionOnSet(y, L) /\ SumSizes(Live)' = SumFunctionOnSet(z, L)
  BY <1>3, <1>4, HeldIs
<1>11. fragSize' = fragSize /\ fragSize \in Nat /\ HighLimit \in Nat
  BY <1>1, FragAssumption DEF FragTypeOK
<1> QED BY <1>2, <1>8, <1>9, <1>10, <1>11 DEF SizeInv

LEMMA BeginsAccount ==
  ASSUME FragTypeOK, FragTypeOK', SizeInv, NEW p \in Dispatchers, disp[p].pc = "idle",
         NEW f, NEW o \in Pool, NEW now \in SUBSET Live, NEW d,
         BeginsWith(p, f, o, now, d), Live' = (Live \ now) \cup {o}
  PROVE  SizeInv'
<1>1. /\ o \notin Live
      /\ \A x \in Pool : rsm'[x] = IF x = o THEN New(f.id)
                                   ELSE IF x \in now THEN Gone ELSE rsm[x]
      /\ fragSize' = Less(fragSize, now) /\ OnlyDisp(p, d) /\ d.consumed = 0
  BY Zenon DEF BeginsWith
<1>2. Pending' = Pending /\ Pending \in Nat
  <2>1. disp[p].consumed = 0
    BY DEF FragTypeOK, DispType
  <2>2. disp'[p].consumed = 0 /\ \A q \in Dispatchers : q # p => disp'[q] = disp[q]
    BY <1>1 DEF OnlyDisp
  <2> QED BY <2>1, <2>2, PendingMoves
<1>3. PICK L, y, z : L = Live /\ y = Sizes /\ z = Sizes'
  OBVIOUS
<1>4. L \subseteq Pool /\ IsFiniteSet(L) /\ o \notin L /\ now \subseteq L /\ now \in SUBSET Pool
  BY <1>1, <1>3, LiveInPool
<1>5. \A x \in Pool : y[x] \in Nat /\ y[x] = rsm[x].size
  BY <1>3 DEF Sizes, FragTypeOK, RsmType
<1>6. SumFunctionOnSet(y, L) = SumFunctionOnSet(y, now) + SumFunctionOnSet(y, L \ now)
      /\ SumFunctionOnSet(y, now) \in Nat /\ SumFunctionOnSet(y, L \ now) \in Nat
  BY <1>4, <1>5, SumOfPart
<1>7. SumFunctionOnSet(z, L \ now) = SumFunctionOnSet(y, L \ now)
  <2>1. \A x \in L \ now : rsm'[x].size = rsm[x].size
    BY <1>1, <1>4
  <2> QED BY <1>3, <1>4, <2>1, SizesStay
<1>8. SumFunctionOnSet(z, (L \ now) \cup {o}) = SumFunctionOnSet(z, L \ now)
  <2> DEFINE M == (L \ now) \cup {o}
  <2>1. \A x \in Pool : z[x] \in Nat /\ z[x] = rsm'[x].size
    BY <1>3 DEF Sizes, FragTypeOK, RsmType
  <2>2. IsFiniteSet(M) /\ M \subseteq Pool /\ o \in M /\ M \ {o} = L \ now
    BY <1>4, LiveInPool
  <2>3. z[o] = 0
    BY <1>1, <2>1, NewIs
  <2> HIDE DEF M
  <2>4. SumFunctionOnSet(z, M) = z[o] + SumFunctionOnSet(z, M \ {o})
    BY <2>1, <2>2, SumWithout
  <2>5. PICK m, r : m = SumFunctionOnSet(z, M) /\ r = SumFunctionOnSet(z, L \ now)
    OBVIOUS
  <2>6. m = 0 + r /\ r \in Nat
    BY <1>6, <1>7, <2>2, <2>3, <2>4, <2>5, Zenon
  <2>7. SumFunctionOnSet(z, M) = SumFunctionOnSet(z, L \ now)
    BY <2>5, <2>6
  <2> QED BY <2>7 DEF M
<1>9. /\ SumSizes(Live) = SumFunctionOnSet(y, L)
      /\ SumSizes(Live)' = SumFunctionOnSet(y, L \ now)
      /\ SumSizes(now) = SumFunctionOnSet(y, now)
  <2>1. SumSizes(now) = SumFunctionOnSet(y, now)
    BY <1>3, SizesAre
  <2> QED BY <1>3, <1>7, <1>8, <2>1, HeldIs
<1>10. /\ fragSize' \in Nat /\ fragSize \in Nat /\ HighLimit \in Nat
       /\ fragSize' + SumSizes(now) >= fragSize /\ fragSize' <= fragSize
  BY <1>1, <1>4, LessIsNat, FragAssumption DEF FragTypeOK
<1>11. PICK P, Q, a, b, c, x, v :
         /\ P = Pending /\ Q = Pending' /\ a = SumSizes(Live) /\ b = SumSizes(Live)'
         /\ c = SumSizes(now) /\ x = fragSize /\ v = fragSize'
  OBVIOUS
<1>12. /\ Q = P /\ P \in Nat /\ a = c + b /\ c \in Nat /\ b \in Nat /\ v \in Nat /\ x \in Nat
       /\ HighLimit \in Nat /\ v + c >= x /\ v <= x
  BY <1>2, <1>6, <1>9, <1>10, <1>11
<1>13. x + P >= a /\ (x <= HighLimit \/ a <= P)
  BY <1>11 DEF SizeInv
<1>14. v + Q >= b /\ (v <= HighLimit \/ b <= Q)
  BY <1>12, <1>13
<1> QED BY <1>11, <1>14 DEF SizeInv

LEMMA ChargesAccount ==
  ASSUME FragTypeOK, FragTypeOK', SizeInv, NEW p \in Dispatchers, NEW now \in SUBSET Live,
         NEW list \in Seq(Pool), NEW size \in Nat, NEW n, NEW oldest,
         ChargesWith(p, now, list, size, n, oldest),
         oldest \subseteq Live \ now, Live' = Remaining(now, oldest),
         n = Len(list) => Live' = {}
  PROVE  SizeInv'
<1>1. /\ size = Less(fragSize + disp[p].consumed, now)
      /\ n = Evicted(size, list)
      /\ oldest = {list[j] : j \in (Len(list) - n + 1)..Len(list)}
      /\ \A x \in Pool : rsm'[x] = IF x \in now \cup oldest THEN Gone ELSE rsm[x]
      /\ fragSize' = Less(size, oldest) /\ OnlyDisp(p, Away)
  BY Zenon DEF ChargesWith
<1>2. PICK c : c = disp[p].consumed
  OBVIOUS
<1>3. c \in Nat /\ fragSize \in Nat /\ fragSize + c \in Nat
  BY <1>2 DEF FragTypeOK, DispType
<1>4. Pending' + c = Pending /\ Pending \in Nat /\ Pending' \in Nat
  <2>1. disp'[p].consumed = 0 /\ \A q \in Dispatchers : q # p => disp'[q] = disp[q]
    BY <1>1 DEF OnlyDisp, Away
  <2>2. Pending' + c = Pending + 0 /\ Pending \in Nat /\ Pending' \in Nat
    BY <1>2, <2>1, PendingMoves
  <2>3. PICK a : a = Pending
    OBVIOUS
  <2>4. a + 0 = a
    BY <2>2, <2>3
  <2> QED BY <2>2, <2>3, <2>4
<1>5. PICK L, y, z : L = Live /\ y = Sizes /\ z = Sizes'
  OBVIOUS
<1>6. L \subseteq Pool /\ IsFiniteSet(L) /\ now \subseteq L /\ oldest \subseteq L \ now
      /\ IsFiniteSet(L \ now)
  BY <1>5, LiveInPool
<1>7. \A x \in Pool : y[x] \in Nat /\ y[x] = rsm[x].size
  BY <1>5 DEF Sizes, FragTypeOK, RsmType
<1>8. SumFunctionOnSet(y, L) = SumFunctionOnSet(y, now) + SumFunctionOnSet(y, L \ now)
      /\ SumFunctionOnSet(y, now) \in Nat /\ SumFunctionOnSet(y, L \ now) \in Nat
  <2>1. PICK N : N = now
    OBVIOUS
  <2>2. PartOf(N, L, y)
    BY <1>6, <1>7, <2>1 DEF PartOf
  <2>3. SumFunctionOnSet(y, L) = SumFunctionOnSet(y, N) + SumFunctionOnSet(y, L \ N)
        /\ SumFunctionOnSet(y, N) \in Nat /\ SumFunctionOnSet(y, L \ N) \in Nat
    BY <2>2, SumOfParts
  <2> QED BY <2>1, <2>3, Zenon
<1>9. SumFunctionOnSet(y, L \ now) =
        SumFunctionOnSet(y, oldest) + SumFunctionOnSet(y, (L \ now) \ oldest)
      /\ SumFunctionOnSet(y, oldest) \in Nat
      /\ SumFunctionOnSet(y, (L \ now) \ oldest) \in Nat
  <2>1. PICK M : M = L \ now
    OBVIOUS
  <2>2. PartOf(oldest, M, y)
    BY <1>6, <1>7, <2>1 DEF PartOf
  <2>3. SumFunctionOnSet(y, M) = SumFunctionOnSet(y, oldest) + SumFunctionOnSet(y, M \ oldest)
        /\ SumFunctionOnSet(y, oldest) \in Nat /\ SumFunctionOnSet(y, M \ oldest) \in Nat
    BY <2>2, SumOfParts
  <2> QED BY <2>1, <2>3, Zenon
<1>10. SumFunctionOnSet(z, (L \ now) \ oldest) = SumFunctionOnSet(y, (L \ now) \ oldest)
  <2>1. \A x \in (L \ now) \ oldest : rsm'[x].size = rsm[x].size
    BY <1>1, <1>6
  <2> QED BY <1>5, <1>6, <2>1, SizesStay
<1>11. /\ SumSizes(Live) = SumFunctionOnSet(y, L)
       /\ SumSizes(Live)' = SumFunctionOnSet(y, (L \ now) \ oldest)
       /\ SumSizes(now) = SumFunctionOnSet(y, now)
       /\ SumSizes(oldest) = SumFunctionOnSet(y, oldest)
  <2>1. SumSizes(now) = SumFunctionOnSet(y, now) /\ SumSizes(oldest) = SumFunctionOnSet(y, oldest)
    BY <1>5, SizesAre
  <2> QED BY <1>5, <1>10, <2>1, HeldIs DEF Remaining
<1>12. size + SumSizes(now) >= fragSize + c
  BY <1>1, <1>2, <1>3, <1>5, <1>6, LessIsNat
<1>13. /\ fragSize' \in Nat /\ fragSize' + SumSizes(oldest) >= size /\ fragSize' <= size
       /\ \A l \in Nat : size - SumSizes(oldest) <= l => fragSize' <= l
  <2>1. oldest \in SUBSET Pool
    BY <1>6
  <2> QED BY <1>1, <2>1, LessIsNat
<1>14. \/ size <= HighLimit \/ n = Len(list) \/ size - SumSizes(oldest) <= LowLimit
  BY <1>1, EvictedIs
<1>15. SumSizes(Live)' = 0 \/ fragSize' <= HighLimit
  <2>1. HighLimit \in Nat /\ LowLimit \in Nat /\ LowLimit <= HighLimit
    BY FragAssumption
  <2>2. CASE size <= HighLimit
    BY <1>13, <2>1, <2>2
  <2>3. CASE n = Len(list)
    <3>1. (L \ now) \ oldest = {}
      BY <1>5, <2>3 DEF Remaining
    <3> QED BY <1>11, <3>1, SumOfNone
  <2>4. CASE size - SumSizes(oldest) <= LowLimit
    <3>1. fragSize' <= LowLimit
      BY <1>13, <2>1, <2>4
    <3> QED BY <1>13, <2>1, <3>1
  <2> QED BY <1>14, <2>2, <2>3, <2>4
<1>16. PICK P, Q, a, b, u, w, x, v :
         /\ P = Pending /\ Q = Pending' /\ a = SumSizes(Live) /\ b = SumSizes(Live)'
         /\ u = SumSizes(now) /\ w = SumSizes(oldest) /\ x = fragSize /\ v = fragSize'
  OBVIOUS
<1>17. /\ Q + c = P /\ P \in Nat /\ Q \in Nat /\ c \in Nat /\ a = u + (w + b)
       /\ u \in Nat /\ w \in Nat /\ b \in Nat /\ v \in Nat /\ x \in Nat
       /\ size + u >= x + c /\ v + w >= size
  BY <1>3, <1>4, <1>8, <1>9, <1>11, <1>12, <1>13, <1>16
<1>18. x + P >= a /\ (b = 0 \/ v <= HighLimit)
  BY <1>15, <1>16 DEF SizeInv
<1>19. v + Q >= b /\ (v <= HighLimit \/ b <= Q)
  BY <1>17, <1>18
<1> QED BY <1>16, <1>19 DEF SizeInv

-----------------------------------------------------------------------------
(* What all steps keep of the books and the account. *)

LEMMA BooksInit ==
  ASSUME FragInit
  PROVE  FragTypeOK /\ BooksInv /\ SizeInv
<1>1. /\ DOMAIN rsm = Pool /\ \A o \in Pool : rsm[o] = Gone
      /\ \A i \in Ids : reassemblers[i] = NoRsm
      /\ reassemblers \in [Ids -> Pool \cup {NoRsm}] /\ rList = <<>> /\ fragSize = 0
      /\ DOMAIN disp = Dispatchers /\ \A p \in Dispatchers : disp[p] = Away
  BY DEF FragInit
<1>2. DispType(Away) /\ Away.pc = "idle" /\ Away.consumed = 0
  <2>1. /\ DOMAIN Away = {"pc", "frag", "obj", "consumed", "ready", "res"}
        /\ Away.pc = "idle" /\ Away.obj = NoRsm /\ Away.consumed = 0 /\ Away.ready = FALSE
    BY DEF Away
  <2>2. Away.ready \in BOOLEAN /\ ~Away.ready
    BY <2>1, Zenon
  <2> QED BY <2>1, <2>2 DEF DispType
<1>3. RsmType(Gone) /\ Gone.done
  BY NewIs
<1>4. FragTypeOK
  BY <1>1, <1>2, <1>3 DEF FragTypeOK
<1>5. Live = {} /\ ToSet(rList) = {} /\ OnceEach(rList)
  BY <1>1 DEF Live, ToSet, OnceEach
<1>6. BooksInv
  BY <1>1, <1>2, <1>3, <1>5 DEF BooksInv
<1>7. SumSizes(Live) = 0 /\ Pending \in Nat /\ HighLimit \in Nat
  BY <1>4, <1>5, NoSizes, SizesAre, FragAssumption
<1>8. SizeInv
  BY <1>1, <1>7 DEF SizeInv
<1> QED BY <1>4, <1>6, <1>8

LEMMA BooksStep ==
  ASSUME FragTypeOK, BooksInv, SizeInv, [FragNext]_fragVars
  PROVE  FragTypeOK' /\ BooksInv' /\ SizeInv'
<1>1. ASSUME NEW p \in Dispatchers, NEW f \in Fragments, Joins(p, f)
      PROVE  FragTypeOK' /\ BooksInv' /\ SizeInv'
  <2>1. FragTypeOK' /\ BooksInv'
    BY <1>1, JoinsBooks
  <2>2. /\ disp[p].pc = "idle" /\ UNCHANGED <<rsm, reassemblers, fragSize>>
        /\ disp' = [disp EXCEPT ![p] = [Away EXCEPT !.pc = "take", !.frag = f,
                                                    !.obj = reassemblers[f.id]]]
    BY <1>1 DEF Joins
  <2>3. \A q \in Dispatchers : disp'[q].consumed = disp[q].consumed
    <3>1. disp'[p].consumed = 0 /\ \A q \in Dispatchers : q # p => disp'[q] = disp[q]
      BY <2>2 DEF FragTypeOK, Away
    <3>2. disp[p].consumed = 0
      BY <2>2 DEF FragTypeOK, DispType
    <3> QED BY <3>1, <3>2
  <2>4. Live' = Live
    BY <2>2 DEF Live
  <2> QED BY <2>1, <2>2, <2>3, <2>4, AccountStays
<1>2. ASSUME NEW p \in Dispatchers, NEW f \in Fragments, Begins(p, f)
      PROVE  FragTypeOK' /\ BooksInv' /\ SizeInv'
  <2>1. PICK o \in Pool, now \in SUBSET Live : \E d : BeginsWith(p, f, o, now, d)
    BY <1>2, BeginsIs
  <2>2. PICK d : BeginsWith(p, f, o, now, d)
    BY <2>1
  <2>3. disp[p].pc = "idle"
    BY <1>2 DEF Begins
  <2>4. FragTypeOK' /\ BooksInv' /\ Live' = (Live \ now) \cup {o}
    BY <2>2, <2>3, BeginsBooks
  <2> QED BY <2>2, <2>3, <2>4, BeginsAccount
<1>3. ASSUME NEW p \in Dispatchers, TakesNothing(p)
      PROVE  FragTypeOK' /\ BooksInv' /\ SizeInv'
  <2>1. /\ FragTypeOK' /\ BooksInv' /\ disp'[p].consumed = 0
        /\ \A q \in Dispatchers : q # p => disp'[q] = disp[q]
    BY <1>3, TakesNothingBooks
  <2>2. disp[p].pc = "take" /\ UNCHANGED <<rsm, reassemblers, fragSize>>
    BY <1>3 DEF TakesNothing
  <2>3. \A q \in Dispatchers : disp'[q].consumed = disp[q].consumed
    <3>1. disp[p].consumed = 0
      BY <2>2 DEF FragTypeOK, DispType
    <3> QED BY <2>1, <3>1
  <2>4. Live' = Live
    BY <2>2 DEF Live
  <2> QED BY <2>1, <2>2, <2>3, <2>4, AccountStays
<1>4. ASSUME NEW p \in Dispatchers, Takes(p)
      PROVE  FragTypeOK' /\ BooksInv' /\ SizeInv'
  <2>1. PICK o \in Live, f \in Fragments, holes \in SUBSET (Nat \X Nat),
             heap \in SUBSET Fragments, cost \in Nat :
               \E res, d : TakesWith(p, o, f, holes, heap, cost, res, d)
    BY <1>4, TakesIs
  <2>2. PICK res, d : TakesWith(p, o, f, holes, heap, cost, res, d)
    BY <2>1
  <2>3. disp[p].pc = "take"
    BY <1>4, Zenon DEF Takes
  <2>4. FragTypeOK' /\ BooksInv'
    BY <2>2, TakesBooks
  <2> QED BY <2>2, <2>3, <2>4, TakesAccount
<1>5. ASSUME NEW p \in Dispatchers, Charges(p)
      PROVE  FragTypeOK' /\ BooksInv' /\ SizeInv'
  <2>1. PICK now \in SUBSET Live, list \in Seq(Pool), size \in Nat :
               \E n, oldest : ChargesWith(p, now, list, size, n, oldest)
    BY <1>5, ChargesIs
  <2>2. PICK n, oldest : ChargesWith(p, now, list, size, n, oldest)
    BY <2>1
  <2>3. FragTypeOK'
    BY <2>2, ChargesBooks
  <2>4. BooksInv'
    BY <2>2, ChargesBooks
  <2>5. oldest \subseteq Live \ now
    BY <2>2, ChargesBooks
  <2>7. Live' = Remaining(now, oldest)
    BY <2>2, ChargesBooks
  <2>6. n = Len(list) => Live' = {}
    BY <2>2, ChargesBooks
  <2> QED BY <2>2, <2>3, <2>4, <2>5, <2>7, <2>6, ChargesAccount
<1>6. ASSUME NEW i \in Ids, GrowsOld(i)
      PROVE  FragTypeOK' /\ BooksInv' /\ SizeInv'
  <2>1. FragTypeOK' /\ BooksInv' /\ \A o \in Pool : rsm'[o].size = rsm[o].size
    BY <1>6, GrowsOldBooks
  <2>2. UNCHANGED <<reassemblers, fragSize, disp>>
    BY <1>6 DEF GrowsOld
  <2>3. Live' = Live
    BY <2>2 DEF Live
  <2> QED BY <2>1, <2>2, <2>3, AccountStays
<1>7. ASSUME UNCHANGED fragVars
      PROVE  FragTypeOK' /\ BooksInv' /\ SizeInv'
  <2>1. UNCHANGED <<rsm, reassemblers, rList, fragSize, disp>>
    BY <1>7 DEF fragVars
  <2>2. FragTypeOK'
    BY <2>1 DEF FragTypeOK
  <2>3. Live' = Live
    BY <2>1 DEF Live
  <2>4. BooksInv'
    BY <2>1, <2>3 DEF BooksInv
  <2> QED BY <2>1, <2>2, <2>3, <2>4, AccountStays
<1> QED BY <1>1, <1>2, <1>3, <1>4, <1>5, <1>6, <1>7 DEF FragNext

-----------------------------------------------------------------------------
(* The heap of a complete datagram. *)

LEMMA LastOfIs ==
  ASSUME NEW S, S \subseteq Fragments, S # {}
  PROVE  /\ LastOf(S) \in S
         /\ \A g \in S : g.first <= LastOf(S).first
<1>1. \A f \in S : f.first \in Nat /\ Length \in Nat /\ f.first < Length
  BY FragmentsAre
<1> DEFINE A == {Length - f.first : f \in S}
<1>2. A \subseteq Nat /\ A # {}
  BY <1>1
<1>3. PICK a \in A : \A b \in A : a <= b
  <2> HIDE DEF A
  <2> QED BY <1>2, LeastOf
<1>4. PICK f \in S : Length - f.first = a
  OBVIOUS
<1>5. \A g \in S : ~Before(f, g)
  <2> SUFFICES ASSUME NEW g \in S PROVE ~Before(f, g)
    OBVIOUS
  <2>1. f.first \in Nat /\ g.first \in Nat /\ Length \in Nat
    BY <1>1
  <2>2. Length - g.first >= a
    BY <1>3
  <2>3. g.first <= f.first
    BY <1>4, <2>1, <2>2
  <2> QED BY <2>1, <2>3 DEF Before
<1> HIDE DEF A
<1>6. LastOf(S) \in S /\ \A g \in S : ~Before(LastOf(S), g)
  BY <1>5, Zenon DEF LastOf
<1>7. ASSUME NEW g \in S PROVE g.first <= LastOf(S).first
  BY <1>1, <1>6 DEF Before
<1> QED BY <1>6, <1>7

\* The first n units, each once and in its place.
FirstUnits(n) == [k \in 1..n |-> k - 1]

LEMMA FirstUnitsAre ==
  ASSUME NEW n \in Nat
  PROVE  /\ FirstUnits(n) \in Seq(Int) /\ Len(FirstUnits(n)) = n
         /\ FirstUnits(n) # Hole
<1>1. FirstUnits(n) \in Seq(Int) /\ Len(FirstUnits(n)) = n
  BY DEF FirstUnits
<1>2. FirstUnits(n) # Hole
  <2>1. CASE n = 0
    <3>1. Len(Hole) = 1
      BY DEF Hole
    <3> QED BY <1>1, <2>1, <3>1
  <2>2. CASE n # 0
    <3>1. FirstUnits(n)[1] = 0
      BY <2>2 DEF FirstUnits
    <3>2. Hole[1] = -1
      BY DEF Hole
    <3> QED BY <3>1, <3>2
  <2> QED BY <2>1, <2>2
<1> QED BY <1>1, <1>2

LEMMA JoinedFits ==
  ASSUME NEW f \in Fragments, NEW acc \in Seq(Int)
  PROVE  Joined(f, acc) \in Seq(Int)
<1>1. f.last \in Nat /\ Len(acc) \in Nat /\ Hole \in Seq(Int)
  BY FragmentsAre DEF Hole
<1> DEFINE j == f.last + 1 - Len(acc)
           w == [k \in 1..j |-> Len(acc) + k - 1]
<1>2. w \in Seq(Int)
  <2>1. CASE j \in Nat
    <3>1. \A k \in 1..j : Len(acc) + k - 1 \in Int
      BY <1>1
    <3>2. w \in [1..j -> Int]
      BY <3>1
    <3> HIDE DEF w
    <3> QED BY <2>1, <3>2
  <2>2. CASE j \notin Nat
    <3>1. 1..j = 1..0
      BY <1>1, <2>2
    <3>2. w \in [1..0 -> Int]
      BY <3>1
    <3> HIDE DEF w
    <3> QED BY <3>2
  <2> QED BY <2>1, <2>2
<1>3. acc \o w \in Seq(Int)
  <2> HIDE DEF w
  <2> QED BY <1>2
<1>4. Joined(f, acc) = Hole \/ Joined(f, acc) = acc \o w
  BY Zenon DEF Joined
<1> QED BY <1>1, <1>3, <1>4

\* A fragment that leaves no gap brings the units up to its end.
LEMMA JoinedIs ==
  ASSUME NEW f \in Fragments, NEW m \in Nat, f.first <= m
  PROVE  Joined(f, FirstUnits(m)) = FirstUnits(IF f.last + 1 > m THEN f.last + 1 ELSE m)
<1>1. f.first \in Nat /\ f.last \in Nat
  BY FragmentsAre
<1>2. PICK acc : acc = FirstUnits(m)
  OBVIOUS
<1>3. acc \in Seq(Int) /\ Len(acc) = m /\ acc # Hole
  BY <1>2, FirstUnitsAre
<1> DEFINE j == f.last + 1 - m
           w == [k \in 1..j |-> m + k - 1]
<1>4. Joined(f, acc) = acc \o w
  <2>1. ~(f.first > Len(acc))
    BY <1>1, <1>3
  <2>2. Joined(f, acc) = acc \o [k \in 1..(f.last + 1 - Len(acc)) |-> Len(acc) + k - 1]
    BY <1>3, <2>1, Zenon DEF Joined
  <2> QED BY <1>3, <2>2, Zenon
<1>5. CASE f.last + 1 > m
  <2>1. j \in Nat /\ m + j = f.last + 1
    BY <1>1, <1>5
  <2>2. w \in Seq(Int) /\ Len(w) = j /\ \A k \in 1..j : w[k] = m + k - 1
    BY <2>1
  <2>3. PICK u : u = FirstUnits(f.last + 1)
    OBVIOUS
  <2>4. DOMAIN u = 1..(f.last + 1) /\ \A k \in 1..(f.last + 1) : u[k] = k - 1
    BY <2>3 DEF FirstUnits
  <2>5. \A k \in 1..m : acc[k] = k - 1
    BY <1>2 DEF FirstUnits
  <2> HIDE DEF w, j
  <2>6. /\ acc \o w \in Seq(Int) /\ Len(acc \o w) = f.last + 1
        /\ \A k \in 1..(f.last + 1) : (acc \o w)[k] = IF k <= m THEN acc[k] ELSE w[k - m]
    BY <1>1, <1>3, <2>1, <2>2
  <2>7. \A k \in 1..(f.last + 1) : (acc \o w)[k] = k - 1
    <3> SUFFICES ASSUME NEW k \in 1..(f.last + 1) PROVE (acc \o w)[k] = k - 1
      OBVIOUS
    <3>1. CASE k <= m
      BY <2>5, <2>6, <3>1
    <3>2. CASE ~(k <= m)
      <4>1. k - m \in 1..j
        BY <1>1, <2>1, <3>2
      <4> QED BY <2>1, <2>2, <2>6, <3>2, <4>1
    <3> QED BY <3>1, <3>2
  <2>8. PICK v : v = acc \o w
    OBVIOUS
  <2>9. v \in Seq(Int) /\ Len(v) = f.last + 1 /\ \A k \in 1..(f.last + 1) : v[k] = k - 1
    BY <2>6, <2>7, <2>8
  <2>10. v \in [1..(f.last + 1) -> Int]
    BY <1>1, <2>9
  <2>11. v = u
    <3>1. u = [k \in 1..(f.last + 1) |-> k - 1]
      BY <2>3 DEF FirstUnits
    <3> QED BY <2>9, <2>10, <3>1
  <2> QED BY <1>2, <1>4, <1>5, <2>3, <2>8, <2>11
<1>6. CASE ~(f.last + 1 > m)
  <2>1. 1..j = {} /\ 1..0 = {}
    BY <1>1, <1>6
  <2>2. w = <<>>
    BY <2>1
  <2>3. acc \o w = acc
    <3> HIDE DEF w
    <3> QED BY <1>3, <2>2
  <2> QED BY <1>2, <1>4, <1>6, <2>3
<1> QED BY <1>5, <1>6

\* What reassemble makes of each part of a heap.
Parts(S) ==
  CHOOSE h : h = [s \in SUBSET S |-> IF s = {} THEN <<>>
                                     ELSE Joined(LastOf(s), h[s \ {LastOf(s)}])]

LEMMA ReassembledIs ==
  ASSUME NEW S
  PROVE  Reassembled(S) = Parts(S)[S]
BY Zenon DEF Reassembled, MapThenFoldSet, Parts

LEMMA PartsFit ==
  ASSUME NEW S, S \subseteq Fragments, IsFiniteSet(S)
  PROVE  \A s \in SUBSET S :
           Parts(S)[s] = IF s = {} THEN <<>> ELSE Joined(LastOf(s), Parts(S)[s \ {LastOf(s)}])
<1> DEFINE V == Seq(Int)
           c == [s \in SUBSET S |-> LastOf(s)]
           G == [s \in SUBSET S |-> [v \in V |-> Joined(LastOf(s), v)]]
<1>1. Picks(c, S)
  BY LastOfIs DEF Picks
<1>2. Steps(G, S, V)
  <2> SUFFICES ASSUME NEW s \in SUBSET S, NEW v \in V, s # {} PROVE G[s][v] \in V
    BY DEF Steps
  <2>1. LastOf(s) \in Fragments
    BY LastOfIs
  <2> QED BY <2>1, JoinedFits
<1>3. <<>> \in V
  OBVIOUS
<1>4. PICK h \in [SUBSET S -> V] : Folds(h, G, <<>>, c, S)
  <2> HIDE DEF V, c, G
  <2>1. Foldable(G, <<>>, c, S, V)
    BY <1>1, <1>2, <1>3 DEF Foldable
  <2> QED BY <2>1, FoldOf
<1>5. ASSUME NEW s \in SUBSET S
      PROVE  h[s] = IF s = {} THEN <<>> ELSE Joined(LastOf(s), h[s \ {LastOf(s)}])
  <2>1. h[s] = IF s = {} THEN <<>> ELSE G[s][h[s \ {c[s]}]]
    BY <1>4 DEF Folds
  <2>2. s \ {LastOf(s)} \in SUBSET S /\ c[s] = LastOf(s)
    OBVIOUS
  <2>3. h[s \ {LastOf(s)}] \in V
    BY <1>4, <2>2
  <2>4. G[s][h[s \ {LastOf(s)}]] = Joined(LastOf(s), h[s \ {LastOf(s)}])
    BY <2>3
  <2> QED BY <2>1, <2>2, <2>4, Zenon
<1>6. h = [s \in SUBSET S |-> IF s = {} THEN <<>>
                              ELSE Joined(LastOf(s), h[s \ {LastOf(s)}])]
  <2> HIDE DEF V, c, G
  <2> QED BY <1>4, <1>5
<1> HIDE DEF V, c, G
<1>7. Parts(S) = [s \in SUBSET S |-> IF s = {} THEN <<>>
                                     ELSE Joined(LastOf(s), Parts(S)[s \ {LastOf(s)}])]
  BY <1>6, Zenon DEF Parts
<1> QED BY <1>7, Zenon

\* Nothing is missing before the end of a fragment.
Dense(S) == \A f \in S : \A k \in 0..f.last : Covers(S, k)
\* n is where the fragments end.
EndsAt(S, n) == (\A f \in S : f.last < n) /\ (n = 0 \/ \E f \in S : f.last = n - 1)

LEMMA DensePart ==
  ASSUME NEW S, S \subseteq Fragments, S # {}, Dense(S)
  PROVE  Dense(S \ {LastOf(S)})
<1> DEFINE x == LastOf(S)
<1>1. x \in S /\ \A g \in S : g.first <= x.first
  BY LastOfIs
<1> HIDE DEF x
<1>2. SUFFICES ASSUME NEW f \in S \ {x}, NEW k \in 0..f.last PROVE Covers(S \ {x}, k)
  BY DEF Dense, x
<1>3. PICK g \in S : g.first <= k /\ k <= g.last
  BY DEF Dense, Covers
<1>4. CASE g # x
  BY <1>3, <1>4 DEF Covers
<1>5. CASE g = x
  <2>1. f.first \in Nat /\ f.last \in Nat /\ x.first \in Nat
    BY <1>1, FragmentsAre
  <2>2. f.first <= k /\ k <= f.last
    BY <1>1, <1>3, <1>5, <2>1
  <2> QED BY <2>2 DEF Covers
<1> QED BY <1>4, <1>5

\* A dense heap gives the units up to its end.
LEMMA ReassembledDense ==
  ASSUME NEW S, S \subseteq Fragments, IsFiniteSet(S), Dense(S)
  PROVE  \E n \in Nat : EndsAt(S, n) /\ Reassembled(S) = FirstUnits(n)
<1> DEFINE T == {s \in SUBSET S : Dense(s) =>
                   \E n \in Nat : EndsAt(s, n) /\ Parts(S)[s] = FirstUnits(n)}
<1>1. \A s \in SUBSET S :
        Parts(S)[s] = IF s = {} THEN <<>> ELSE Joined(LastOf(s), Parts(S)[s \ {LastOf(s)}])
  BY PartsFit
<1>2. ASSUME NEW s \in SUBSET S, \A x \in s : s \ {x} \in T, Dense(s)
      PROVE  \E n \in Nat : EndsAt(s, n) /\ Parts(S)[s] = FirstUnits(n)
  <2>1. CASE s = {}
    <3>1. Parts(S)[s] = <<>>
      BY <1>1, <2>1
    <3>2. FirstUnits(0) = <<>>
      BY DEF FirstUnits
    <3>3. EndsAt(s, 0)
      BY <2>1 DEF EndsAt
    <3> QED BY <3>1, <3>2, <3>3
  <2>2. CASE s # {}
    <3>1. PICK x, t : x = LastOf(s) /\ t = s \ {x}
      OBVIOUS
    <3>2. x \in s /\ s \subseteq Fragments
      BY <2>2, <3>1, LastOfIs
    <3>3. Dense(t)
      BY <1>2, <2>2, <3>1, <3>2, DensePart
    <3>4. t \in T
      BY <1>2, <3>1, <3>2
    <3>5. PICK m \in Nat : EndsAt(t, m) /\ Parts(S)[t] = FirstUnits(m)
      BY <3>3, <3>4
    <3>6. x \in Fragments /\ x.first \in Nat /\ x.last \in Nat /\ x.first <= x.last
      BY <3>2, FragmentsAre
    <3>7. x.first <= m
      <4> SUFFICES ASSUME m < x.first PROVE FALSE
        BY <3>6
      <4>1. m \in 0..x.last
        BY <3>6
      <4>2. PICK g \in s : g.first <= m /\ m <= g.last
        BY <1>2, <3>2, <4>1 DEF Dense, Covers
      <4>3. g # x /\ g.last \in Nat
        BY <3>2, <3>6, <4>2, FragmentsAre
      <4>4. g \in t
        BY <3>1, <4>3
      <4> QED BY <3>5, <4>2, <4>3, <4>4 DEF EndsAt
    <3>8. PICK n : n = IF x.last + 1 > m THEN x.last + 1 ELSE m
      OBVIOUS
    <3>9. Parts(S)[s] = FirstUnits(n)
      <4>1. Parts(S)[s] = Joined(x, Parts(S)[t])
        BY <1>1, <2>2, <3>1, Zenon
      <4>2. Joined(x, FirstUnits(m)) = FirstUnits(IF x.last + 1 > m THEN x.last + 1 ELSE m)
        BY <3>6, <3>7, JoinedIs
      <4> QED BY <3>5, <3>8, <4>1, <4>2, Zenon
    <3>10. n \in Nat /\ EndsAt(s, n)
      <4>1. n \in Nat /\ m <= n /\ x.last < n /\ (n = x.last + 1 \/ n = m)
        BY <3>6, <3>8
      <4>2. ASSUME NEW f \in s PROVE f.last < n
        <5>1. f.last \in Nat /\ (f = x \/ f \in t)
          BY <3>1, <3>2, FragmentsAre
        <5> QED BY <3>5, <4>1, <5>1 DEF EndsAt
      <4>3. n = 0 \/ \E f \in s : f.last = n - 1
        <5>1. CASE n = x.last + 1
          <6>1. x.last = n - 1
            BY <3>6, <5>1
          <6> QED BY <3>2, <6>1
        <5>2. CASE n = m
          BY <3>1, <3>5, <5>2 DEF EndsAt
        <5> QED BY <4>1, <5>1, <5>2
      <4> QED BY <4>1, <4>2, <4>3 DEF EndsAt
    <3> QED BY <3>9, <3>10
  <2> QED BY <2>1, <2>2
<1>3. Grows(T, S)
  BY <1>2 DEF Grows
<1>4. T = SUBSET S
  <2>1. T \subseteq SUBSET S
    OBVIOUS
  <2> HIDE DEF T
  <2> QED BY <1>3, <2>1, SubsetsByElement
<1>5. \E n \in Nat : EndsAt(S, n) /\ Parts(S)[S] = FirstUnits(n)
  BY <1>4
<1> QED BY <1>5, ReassembledIs

\* A heap that has every unit gives the datagram.
LEMMA ReassembledComplete ==
  ASSUME NEW S, S \subseteq Fragments, IsFiniteSet(S), S # {},
         \A k \in 0..(Length - 1) : Covers(S, k)
  PROVE  Reassembled(S) = FirstUnits(Length)
<1>1. \A f \in S : f.last \in Nat /\ f.last < Length /\ Length \in Nat
  BY FragmentsAre
<1>2. Dense(S)
  BY <1>1 DEF Dense
<1>3. PICK n \in Nat : EndsAt(S, n) /\ Reassembled(S) = FirstUnits(n)
  BY <1>2, ReassembledDense
<1>4. PICK f \in S : TRUE
  OBVIOUS
<1>5. Length - 1 \in 0..(Length - 1)
  BY <1>1, <1>4
<1>6. PICK g \in S : Length - 1 <= g.last
  BY <1>5 DEF Covers
<1>7. g.last = Length - 1 /\ g.last < n
  BY <1>1, <1>3, <1>6 DEF EndsAt
<1>8. n = Length
  BY <1>1, <1>3, <1>7 DEF EndsAt
<1> QED BY <1>3, <1>8

-----------------------------------------------------------------------------
(* What is missing and what is there. *)

LEMMA NoHoles ==
  ASSUME NEW f
  PROVE  HolesAfter({}, f) = {} /\ ~Fills({}, f)
<1>1. ~Fills({}, f)
  BY DEF Fills
<1>2. HolesAfter({}, f) = {}
  BY DEF HolesAfter
<1> QED BY <1>1, <1>2

\* What was missing and is not is in the fragment.
LEMMA HolesCover ==
  ASSUME NEW holes \in SUBSET (Nat \X Nat), NEW f \in Fragments, NEW k \in 0..(Length - 1),
         Misses(holes, k)
  PROVE  \/ Misses(HolesAfter(holes, f), k)
         \/ Fills(holes, f) /\ f.first <= k /\ k <= f.last
<1>1. PICK h \in holes : h[1] <= k /\ k <= h[2]
  BY DEF Misses
<1>2. h[1] \in Nat /\ h[2] \in Nat
  OBVIOUS
<1>3. /\ f.first \in Nat /\ f.last \in Nat /\ Length \in Nat /\ k \in Nat
      /\ f.last < Length /\ (f.more <=> f.last < Length - 1)
  BY FragmentsAre
<1> DEFINE hit == {g \in holes : f.first <= g[2] /\ f.last >= g[1]}
           left == {<<g[1], f.first - 1>> : g \in {g \in hit : f.first > g[1]}}
           right == {<<f.last + 1, g[2]>> : g \in {g \in hit : f.last < g[2] /\ f.more}}
<1>4. HolesAfter(holes, f) = (holes \ hit) \cup left \cup right
  BY Zenon DEF HolesAfter
<1>5. CASE h \notin hit
  <2>1. h \in HolesAfter(holes, f)
    BY <1>4, <1>5
  <2> QED BY <1>1, <2>1 DEF Misses
<1>6. CASE h \in hit
  <2>1. Fills(holes, f)
    BY <1>6 DEF Fills
  <2>2. CASE k < f.first
    <3>1. <<h[1], f.first - 1>> \in left
      BY <1>1, <1>2, <1>3, <1>6, <2>2
    <3>2. PICK g : g = <<h[1], f.first - 1>>
      OBVIOUS
    <3>3. g \in HolesAfter(holes, f)
      BY <1>4, <3>1, <3>2
    <3>4. g[1] <= k /\ k <= g[2]
      BY <1>1, <1>2, <1>3, <2>2, <3>2
    <3> QED BY <3>3, <3>4 DEF Misses
  <2>3. CASE f.last < k
    <3>1. f.more /\ f.last < h[2]
      BY <1>1, <1>2, <1>3, <2>3
    <3>2. <<f.last + 1, h[2]>> \in right
      BY <1>6, <3>1
    <3>3. PICK g : g = <<f.last + 1, h[2]>>
      OBVIOUS
    <3>4. g \in HolesAfter(holes, f)
      BY <1>4, <3>2, <3>3
    <3>5. g[1] <= k /\ k <= g[2]
      BY <1>1, <1>2, <1>3, <2>3, <3>3
    <3> QED BY <3>4, <3>5 DEF Misses
  <2> QED BY <1>3, <2>1, <2>2, <2>3
<1> QED BY <1>5, <1>6

\* Other steps than that of a fragment leave what is there, or drop it.
LEMMA DataStays ==
  ASSUME FragTypeOK, DataInv, DatagramIntact, fragPanic' = fragPanic,
         \A q \in Dispatchers : ~disp'[q].ready \/ disp'[q] = disp[q],
         \A o \in Pool :
           \/ /\ rsm'[o].heap = rsm[o].heap /\ rsm'[o].holes = rsm[o].holes
              /\ rsm'[o].done = rsm[o].done /\ rsm'[o].id = rsm[o].id
           \/ rsm'[o].heap = {} /\ (rsm'[o].done \/ rsm'[o].holes = {<<0, MaxOffset>>})
  PROVE  DataInv' /\ DatagramIntact'
<1>1. ASSUME NEW o \in Pool, ~rsm'[o].done
      PROVE  /\ IsFiniteSet(rsm'[o].heap)
             /\ rsm'[o].holes = {} => rsm'[o].heap = {}
             /\ rsm'[o].holes # {} =>
                  \A k \in 0..(Length - 1) : Misses(rsm'[o].holes, k) \/ Covers(rsm'[o].heap, k)
  <2>1. CASE /\ rsm'[o].heap = rsm[o].heap /\ rsm'[o].holes = rsm[o].holes
             /\ rsm'[o].done = rsm[o].done /\ rsm'[o].id = rsm[o].id
    BY <1>1, <2>1, Zenon DEF DataInv
  <2>2. CASE rsm'[o].heap = {} /\ rsm'[o].holes = {<<0, MaxOffset>>}
    <3>1. IsFiniteSet({})
      BY FS_EmptySet
    <3>2. ASSUME NEW k \in 0..(Length - 1) PROVE Misses(rsm'[o].holes, k)
      <4>1. Length \in Nat /\ MaxOffset = Length + 2
        BY FragAssumption DEF MaxOffset
      <4>2. PICK g : g = <<0, MaxOffset>>
        OBVIOUS
      <4>3. g \in rsm'[o].holes /\ g[1] <= k /\ k <= g[2]
        BY <2>2, <4>1, <4>2
      <4> QED BY <4>3 DEF Misses
    <3> QED BY <2>2, <3>1, <3>2
  <2> QED BY <1>1, <2>1, <2>2
<1>2. DataInv'
  BY <1>1, Zenon DEF DataInv, Misses, Covers
<1>3. DatagramIntact'
  <2>1. ASSUME NEW q \in Dispatchers, disp'[q].ready, fragPanic' = "none"
        PROVE  disp'[q].res = [k \in 1..Length |-> k - 1]
    BY <2>1, Zenon DEF DatagramIntact
  <2>2. \A o \in Pool : \A f \in rsm'[o].heap : f.id = rsm'[o].id
    BY DEF DatagramIntact
  <2>3. fragPanic' # "hole"
    BY DEF DatagramIntact
  <2> QED BY <2>1, <2>2, <2>3, Zenon DEF DatagramIntact
<1> QED BY <1>2, <1>3

LEMMA TakesData ==
  ASSUME FragTypeOK, BooksInv, DataInv, DatagramIntact, fragPanic = "none",
         NEW p \in Dispatchers, disp[p].pc = "take", NEW o \in Live, NEW f \in Fragments,
         NEW holes \in SUBSET (Nat \X Nat), NEW heap \in SUBSET Fragments,
         NEW cost \in Nat, NEW res, NEW d, TakesWith(p, o, f, holes, heap, cost, res, d)
  PROVE  DataInv' /\ DatagramIntact'
<1>1. o \in Pool /\ ~rsm[o].done /\ rsm[o].holes \in SUBSET (Nat \X Nat)
  BY LiveInPool DEF BooksInv, FragTypeOK, RsmType
<1>2. /\ holes = HolesAfter(rsm[o].holes, f) /\ heap = HeapWith(o, f)
      /\ res = IF holes = {} THEN Reassembled(heap) ELSE <<>>
      /\ \A x \in Pool : x # o => rsm'[x] = rsm[x]
      /\ rsm'[o].id = rsm[o].id /\ rsm'[o].done = rsm[o].done /\ rsm'[o].holes = holes
      /\ rsm'[o].heap = IF holes = {} THEN {} ELSE heap
      /\ fragPanic' = IF holes = {} /\ heap = {} THEN "empty"
                      ELSE IF res = Hole THEN "hole" ELSE "none"
      /\ OnlyDisp(p, d) /\ d.res = res /\ (d.ready <=> holes = {})
  BY Zenon DEF TakesWith
<1>3. rsm[o].id = f.id
  BY <1>1, Zenon DEF BooksInv, TakesWith
<1>4. /\ IsFiniteSet(rsm[o].heap)
      /\ rsm[o].holes = {} => rsm[o].heap = {}
      /\ rsm[o].holes # {} =>
           \A k \in 0..(Length - 1) : Misses(rsm[o].holes, k) \/ Covers(rsm[o].heap, k)
  BY <1>1, Zenon DEF DataInv
<1>5. IsFiniteSet(heap) /\ heap \subseteq rsm[o].heap \cup {f}
  <2>1. IsFiniteSet(rsm[o].heap \cup {f})
    BY <1>4, FS_AddElement
  <2> QED BY <1>2, <1>4, <2>1 DEF HeapWith
<1>6. rsm[o].holes = {} => holes = {} /\ heap = {}
  BY <1>2, <1>4, NoHoles DEF HeapWith
<1>7. rsm[o].holes # {} =>
        \A k \in 0..(Length - 1) : Misses(holes, k) \/ Covers(heap, k)
  <2> SUFFICES ASSUME rsm[o].holes # {}, NEW k \in 0..(Length - 1)
               PROVE  Misses(holes, k) \/ Covers(heap, k)
    OBVIOUS
  <2>1. CASE Misses(rsm[o].holes, k)
    BY <1>1, <1>2, <2>1, HolesCover DEF HeapWith, Covers
  <2>2. CASE Covers(rsm[o].heap, k)
    BY <1>2, <2>2 DEF HeapWith, Covers
  <2> QED BY <1>4, <2>1, <2>2
<1>8. holes = {} /\ heap # {} => res = FirstUnits(Length)
  <2> SUFFICES ASSUME holes = {}, heap # {} PROVE res = FirstUnits(Length)
    OBVIOUS
  <2>1. \A k \in 0..(Length - 1) : Covers(heap, k)
    BY <1>6, <1>7 DEF Misses
  <2>2. Reassembled(heap) = FirstUnits(Length)
    BY <1>5, <2>1, ReassembledComplete
  <2> QED BY <1>2, <2>2
<1>9. fragPanic' # "hole" /\ (fragPanic' = "none" /\ holes = {} => heap # {})
  <2>1. CASE holes = {} /\ heap = {}
    BY <1>2, <2>1
  <2>2. CASE holes = {} /\ heap # {}
    <3>1. res # Hole
      BY <1>8, <2>2, FirstUnitsAre, FragAssumption
    <3> QED BY <1>2, <2>2, <3>1
  <2>3. CASE holes # {}
    <3>1. Len(Hole) = 1 /\ Len(<<>>) = 0
      BY DEF Hole
    <3>2. res # Hole
      BY <1>2, <2>3, <3>1
    <3> QED BY <1>2, <2>3, <3>2
  <2> QED BY <2>1, <2>2, <2>3
<1>10. ASSUME NEW x \in Pool, ~rsm'[x].done
       PROVE  /\ IsFiniteSet(rsm'[x].heap)
              /\ rsm'[x].holes = {} => rsm'[x].heap = {}
              /\ rsm'[x].holes # {} =>
                   \A k \in 0..(Length - 1) : Misses(rsm'[x].holes, k) \/ Covers(rsm'[x].heap, k)
  <2>1. CASE x = o
    <3>1. IsFiniteSet({})
      BY FS_EmptySet
    <3>2. CASE holes = {}
      BY <1>2, <2>1, <3>1, <3>2
    <3>3. CASE holes # {}
      BY <1>2, <1>5, <1>6, <1>7, <2>1, <3>3
    <3> QED BY <3>2, <3>3
  <2>2. CASE x # o
    <3>1. rsm'[x] = rsm[x]
      BY <1>2, <2>2
    <3> QED BY <1>10, <3>1, Zenon DEF DataInv
  <2> QED BY <2>1, <2>2
<1>11. DataInv'
  BY <1>10, Zenon DEF DataInv, Misses, Covers
<1>12. DatagramIntact'
  <2>1. ASSUME NEW q \in Dispatchers, disp'[q].ready, fragPanic' = "none"
        PROVE  disp'[q].res = FirstUnits(Length)
    <3>1. CASE q = p
      <4>1. disp'[q] = d
        BY <1>2, <3>1, Zenon DEF OnlyDisp
      <4>2. holes = {}
        BY <1>2, <2>1, <4>1, Zenon
      <4>3. heap # {}
        BY <1>9, <2>1, <4>2
      <4> QED BY <1>2, <1>8, <4>1, <4>2, <4>3
    <3>2. CASE q # p
      <4>1. disp'[q] = disp[q]
        BY <1>2, <3>2, Zenon DEF OnlyDisp
      <4> QED BY <2>1, <4>1, Zenon DEF DatagramIntact, FirstUnits
    <3> QED BY <3>1, <3>2
  <2>2. ASSUME NEW x \in Pool, NEW g \in rsm'[x].heap PROVE g.id = rsm'[x].id
    <3>1. CASE x = o
      <4>1. g \in rsm[o].heap \cup {f}
        BY <1>2, <1>5, <2>2, <3>1
      <4>2. g.id = rsm[o].id
        BY <1>1, <1>3, <4>1 DEF DatagramIntact
      <4> QED BY <1>2, <3>1, <4>2
    <3>2. CASE x # o
      <4>1. rsm'[x] = rsm[x]
        BY <1>2, <3>2
      <4> QED BY <2>2, <4>1 DEF DatagramIntact
    <3> QED BY <3>1, <3>2
  <2> QED BY <1>9, <2>1, <2>2, Zenon DEF DatagramIntact, FirstUnits
<1> QED BY <1>11, <1>12

LEMMA DataInit ==
  ASSUME FragInit
  PROVE  DataInv /\ DatagramIntact
<1>1. /\ \A o \in Pool : rsm[o] = Gone
      /\ \A p \in Dispatchers : disp[p] = Away
      /\ fragPanic = "none"
  BY DEF FragInit
<1>2. Gone.done /\ Gone.heap = {}
  BY NewIs
<1>3. ~Away.ready
  <2>1. Away.ready = FALSE
    BY DEF Away
  <2> QED BY <2>1, Zenon
<1>4. DataInv
  BY <1>1, <1>2, Zenon DEF DataInv
<1>5. DatagramIntact
  <2>1. \A p \in Dispatchers : ~disp[p].ready
    BY <1>1, <1>3, Zenon
  <2>2. \A o \in Pool : \A f \in rsm[o].heap : f.id = rsm[o].id
    BY <1>1, <1>2
  <2>3. fragPanic # "hole"
    BY <1>1
  <2> QED BY <2>1, <2>2, <2>3, Zenon DEF DatagramIntact
<1> QED BY <1>4, <1>5

LEMMA DataStep ==
  ASSUME FragTypeOK, BooksInv, FragTypeOK', DataInv, DatagramIntact, [FragNext]_fragVars
  PROVE  DataInv' /\ DatagramIntact'
<1>1. ASSUME NEW p \in Dispatchers, NEW f \in Fragments, Joins(p, f)
      PROVE  DataInv' /\ DatagramIntact'
  <2>1. /\ disp' = [disp EXCEPT ![p] = [Away EXCEPT !.pc = "take", !.frag = f,
                                                    !.obj = reassemblers[f.id]]]
        /\ UNCHANGED <<rsm, fragPanic>>
    BY <1>1 DEF Joins
  <2>2. disp'[p].pc = "take" /\ \A q \in Dispatchers : q # p => disp'[q] = disp[q]
    BY <2>1 DEF FragTypeOK, Away
  <2>3. ~disp'[p].ready
    BY <2>2 DEF FragTypeOK, DispType
  <2>4. \A q \in Dispatchers : ~disp'[q].ready \/ disp'[q] = disp[q]
    BY <2>2, <2>3, Zenon
  <2>5. fragPanic' = fragPanic /\ rsm' = rsm
    BY <2>1
  <2> QED BY <2>4, <2>5, DataStays
<1>2. ASSUME NEW p \in Dispatchers, NEW f \in Fragments, Begins(p, f)
      PROVE  DataInv' /\ DatagramIntact'
  <2>1. PICK o \in Pool, now \in SUBSET Live : \E d : BeginsWith(p, f, o, now, d)
    BY <1>2, BeginsIs
  <2>2. PICK d : BeginsWith(p, f, o, now, d)
    BY <2>1
  <2>3. /\ \A x \in Pool : rsm'[x] = IF x = o THEN New(f.id)
                                     ELSE IF x \in now THEN Gone ELSE rsm[x]
        /\ OnlyDisp(p, d) /\ ~d.ready
    BY <2>2, Zenon DEF BeginsWith
  <2>4. \A q \in Dispatchers : ~disp'[q].ready \/ disp'[q] = disp[q]
    BY <2>3, Zenon DEF OnlyDisp
  <2>5. fragPanic' = fragPanic
    BY <1>2 DEF Begins
  <2>6. \A x \in Pool :
           \/ /\ rsm'[x].heap = rsm[x].heap /\ rsm'[x].holes = rsm[x].holes
              /\ rsm'[x].done = rsm[x].done /\ rsm'[x].id = rsm[x].id
           \/ rsm'[x].heap = {} /\ (rsm'[x].done \/ rsm'[x].holes = {<<0, MaxOffset>>})
    <3>1. /\ New(f.id).heap = {} /\ New(f.id).holes = {<<0, MaxOffset>>}
          /\ Gone.heap = {} /\ Gone.done
      BY NewIs
    <3> QED BY <2>3, <3>1, Zenon
  <2> QED BY <2>4, <2>5, <2>6, DataStays
<1>3. ASSUME NEW p \in Dispatchers, TakesNothing(p)
      PROVE  DataInv' /\ DatagramIntact'
  <2>1. disp'[p].ready = FALSE /\ \A q \in Dispatchers : q # p => disp'[q] = disp[q]
    BY <1>3, TakesNothingBooks
  <2>2. \A q \in Dispatchers : ~disp'[q].ready \/ disp'[q] = disp[q]
    BY <2>1, Zenon
  <2>3. fragPanic' = fragPanic /\ rsm' = rsm
    BY <1>3 DEF TakesNothing
  <2> QED BY <2>2, <2>3, DataStays
<1>4. ASSUME NEW p \in Dispatchers, Takes(p), fragPanic = "none"
      PROVE  DataInv' /\ DatagramIntact'
  <2>1. PICK o \in Live, f \in Fragments, holes \in SUBSET (Nat \X Nat),
             heap \in SUBSET Fragments, cost \in Nat :
               \E res, d : TakesWith(p, o, f, holes, heap, cost, res, d)
    BY <1>4, TakesIs
  <2>2. PICK res, d : TakesWith(p, o, f, holes, heap, cost, res, d)
    BY <2>1
  <2>3. disp[p].pc = "take"
    BY <1>4, Zenon DEF Takes
  <2> QED BY <1>4, <2>2, <2>3, TakesData
<1>5. ASSUME NEW p \in Dispatchers, Charges(p)
      PROVE  DataInv' /\ DatagramIntact'
  <2>1. PICK now \in SUBSET Live, list \in Seq(Pool), size \in Nat :
               \E n, oldest : ChargesWith(p, now, list, size, n, oldest)
    BY <1>5, ChargesIs
  <2>2. PICK n, oldest : ChargesWith(p, now, list, size, n, oldest)
    BY <2>1
  <2>3. /\ \A x \in Pool : rsm'[x] = IF x \in now \cup oldest THEN Gone ELSE rsm[x]
        /\ OnlyDisp(p, Away)
    BY <2>2, Zenon DEF ChargesWith
  <2>4. \A q \in Dispatchers : ~disp'[q].ready \/ disp'[q] = disp[q]
    <3>1. Away.ready = FALSE
      BY DEF Away
    <3> QED BY <2>3, <3>1, Zenon DEF OnlyDisp
  <2>5. fragPanic' = fragPanic
    BY <1>5, Zenon DEF Charges
  <2>6. \A x \in Pool :
           \/ /\ rsm'[x].heap = rsm[x].heap /\ rsm'[x].holes = rsm[x].holes
              /\ rsm'[x].done = rsm[x].done /\ rsm'[x].id = rsm[x].id
           \/ rsm'[x].heap = {} /\ (rsm'[x].done \/ rsm'[x].holes = {<<0, MaxOffset>>})
    <3>1. Gone.heap = {} /\ Gone.done
      BY NewIs
    <3> QED BY <2>3, <3>1, Zenon
  <2> QED BY <2>4, <2>5, <2>6, DataStays
<1>6. ASSUME NEW i \in Ids, GrowsOld(i)
      PROVE  DataInv' /\ DatagramIntact'
  <2>1. \A o \in Pool : /\ rsm'[o].heap = rsm[o].heap /\ rsm'[o].holes = rsm[o].holes
                        /\ rsm'[o].done = rsm[o].done /\ rsm'[o].id = rsm[o].id
    BY <1>6, GrowsOldBooks
  <2>2. fragPanic' = fragPanic /\ disp' = disp
    BY <1>6 DEF GrowsOld
  <2> QED BY <2>1, <2>2, DataStays
<1>7. ASSUME UNCHANGED fragVars
      PROVE  DataInv' /\ DatagramIntact'
  <2>1. rsm' = rsm /\ disp' = disp /\ fragPanic' = fragPanic
    BY <1>7 DEF fragVars
  <2> QED BY <2>1, DataStays
<1> QED BY <1>1, <1>2, <1>3, <1>4, <1>5, <1>6, <1>7 DEF FragNext

LEMMA FragInvInit == FragInit => FragInv
BY BooksInit, DataInit DEF FragInv

LEMMA FragInvStep == FragInv /\ [FragNext]_fragVars => FragInv'
BY BooksStep, DataStep DEF FragInv

-----------------------------------------------------------------------------
(* The theorems about fragments: for any datagrams, cuts, limits, and any  *)
(* number of goroutines and reassemblers.                                  *)

\* A datagram that is delivered is the one that was sent, however it was cut,
\* repeated and reordered and however many goroutines have its pieces at once
\* (reassembler.process, reassemble).
THEOREM FragDatagramIntact == FragSpec => []DatagramIntact
<1>1. FragInv => DatagramIntact
  BY DEF FragInv
<1> QED BY <1>1, FragInvInit, FragInvStep, PTL DEF FragSpec

\* Each reassembler is released once: what the map has, the list has, once,
\* and it is not done (Process, release).
THEOREM FragReleasedOnce == FragSpec => []ReleasedOnce
<1>1. FragInv => ReleasedOnce
  <2> SUFFICES ASSUME FragTypeOK, BooksInv PROVE ReleasedOnce
    BY DEF FragInv
  <2>1. ToSet(rList) = Live /\ Len(rList) = Cardinality(Live)
    BY ListCounts DEF BooksInv, FragTypeOK
  <2>2. ASSUME NEW o \in Live PROVE ~rsm[o].done /\ reassemblers[rsm[o].id] = o
    <3>1. o \in Pool
      BY LiveInPool
    <3>2. PICK i \in Ids : reassemblers[i] = o /\ o # NoRsm
      BY DEF Live
    <3> QED BY <3>1, <3>2 DEF BooksInv
  <2> QED BY <2>1, <2>2 DEF ReleasedOnce
<1> QED BY <1>1, FragInvInit, FragInvStep, PTL DEF FragSpec

\* The memory in use is never counted too low, and when nobody is in Process
\* what is held is within the limit (Process, fragmentation.go).
THEOREM FragMemoryIsBounded == FragSpec => []MemoryIsBounded
<1>1. FragInv => MemoryIsBounded
  <2> SUFFICES ASSUME FragTypeOK, SizeInv PROVE MemoryIsBounded
    BY DEF FragInv
  <2>1. fragSize + SumFunction([p \in Dispatchers |-> disp[p].consumed]) >= SumSizes(Live)
    BY DEF SizeInv, Pending
  <2>2. ASSUME \A p \in Dispatchers : disp[p].pc = "idle"
        PROVE  SumSizes(Live) <= HighLimit
    <3>1. Pending = 0
      <4>1. PICK y : y = Yet
        OBVIOUS
      <4>2. \A p \in Dispatchers : y[p] = 0
        BY <2>2, <4>1 DEF Yet, FragTypeOK, DispType
      <4>3. SumFunctionOnSet(y, Dispatchers) = 0
        BY <4>2, FragAssumption, SumOfZeros
      <4> QED BY <4>1, <4>3, PendingIs
    <3>2. /\ fragSize \in Nat /\ SumSizes(Live) \in Nat /\ HighLimit \in Nat
          /\ fragSize + 0 >= SumSizes(Live) /\ (fragSize <= HighLimit \/ SumSizes(Live) <= 0)
      BY <3>1, FragAssumption, LiveInPool, SizesOfPool DEF SizeInv, FragTypeOK
    <3> QED BY <3>2
  <2> QED BY <2>1, <2>2 DEF MemoryIsBounded
<1> QED BY <1>1, FragInvInit, FragInvStep, PTL DEF FragSpec

-----------------------------------------------------------------------------
(* The link address cache.  The invariant. *)

States == {"incomplete", "ready", "failed", "expired"}
Values == {x[2] : x \in Answers} \cup {NoAddr}

Entry    == [addr : Addrs \cup {NoAddr}, linkAddr : Values, s : States, old : BOOLEAN,
             wakers : SUBSET Clients]
Resolver == [pc : {"idle", "select", "check"}, addr : Addrs \cup {NoAddr},
             ch : Ring \cup {Closed}, attempt : Nat]
Client   == [pc : {"idle", "waiting", "removing", "channel"},
             addr : Addrs \cup {NoAddr}, ch : Ring \cup {Closed}]

CacheOK == /\ DOMAIN cache \subseteq Addrs /\ next \in Ring
           /\ \A k \in DOMAIN cache : cache[k] \in Ring

LinkTypeOK ==
  /\ entries \in [Ring -> Entry] /\ CacheOK
  /\ resolvers \in [Resolvers -> Resolver]
  /\ \A r \in Resolvers : resolvers[r].pc # "idle" => resolvers[r].addr \in Addrs
  /\ clients \in [Clients -> Client]
  /\ \A c \in Clients : clients[c].pc = "waiting" => clients[c].addr \in Addrs
  /\ DOMAIN told = Addrs

\* The address of entry i is being resolved.
Awaited(i) == entries[i].s = "incomplete" /\ entries[i].addr # NoAddr

\* Such an entry is the one in the map, and somebody is at work for it.
LiveInv ==
  \A i \in Ring : Awaited(i) =>
    /\ entries[i].addr \in DOMAIN cache /\ cache[entries[i].addr] = i
    /\ \E r \in Resolvers : /\ resolvers[r].pc # "idle" /\ resolvers[r].ch = i
                            /\ resolvers[r].addr = entries[i].addr

\* Who has an open channel has that of an entry that is being resolved: for a
\* resolver, for the address it works on.
ResolverInv ==
  \A r \in Resolvers : resolvers[r].pc # "idle" /\ resolvers[r].ch # Closed =>
    Awaited(resolvers[r].ch) /\ entries[resolvers[r].ch].addr = resolvers[r].addr
ClientOK(c) ==
  /\ clients[c].pc = "waiting" =>
       c \in asserted \/ \E i \in Ring : c \in entries[i].wakers /\ Awaited(i)
  /\ clients[c].pc \in {"removing", "channel"} /\ clients[c].ch # Closed =>
       Awaited(clients[c].ch)
ClientInv == \A c \in Clients : ClientOK(c)

\* The inductive invariant.
LinkInv == LinkTypeOK /\ LiveInv /\ ResolverInv /\ ClientInv /\ CacheIsCurrent

-----------------------------------------------------------------------------
(* Entries. *)

\* Closed is no entry's channel.
LEMMA RingFacts == Ring \subseteq Nat /\ Closed \notin Ring /\ NoAddr \notin Addrs
<1>1. Ring \subseteq Nat /\ Closed \notin Ring
  BY DEF Ring, Closed
<1>2. NoAddr \notin Addrs
  BY LinkAssumption, Zenon DEF NoAddr
<1> QED BY <1>1, <1>2

\* A legal change of state, and what it leaves of the entry.
LEMMA ChangedFacts ==
  ASSUME NEW e \in Entry, NEW ns \in {"ready", "failed", "expired"},
         e.s = "incomplete" \/ ns = "expired"
  PROVE  /\ Changed(e, ns) \in Entry /\ Changed(e, ns).s = ns
         /\ Changed(e, ns).addr = e.addr /\ Changed(e, ns).linkAddr = e.linkAddr
<1>1. CASE e.s = ns
  BY <1>1 DEF Changed
<1>2. CASE e.s # ns
  <2>1. e.s \in States
    BY DEF Entry
  <2>2. e.s = "incomplete" \/ (e.s \in {"ready", "failed"} /\ ns = "expired")
    BY <1>2, <2>1 DEF States
  <2>3. Changed(e, ns) = [e EXCEPT !.s = ns, !.wakers = {}]
    BY <1>2, <2>2 DEF Changed
  <2>4. ns \in States
    BY DEF States
  <2> QED BY <2>3, <2>4 DEF Entry
<1> QED BY <1>1, <1>2

\* Looking at an entry makes it expire if it is past its age, and does nothing
\* else.
LEMMA LookedFacts ==
  ASSUME NEW e \in Entry
  PROVE  /\ Looked(e) \in Entry
         /\ Looked(e).addr = e.addr /\ Looked(e).linkAddr = e.linkAddr
         /\ ~e.old => Looked(e) = e
         /\ e.old => Looked(e).s = "expired"
         /\ Looked(e).s \in {"incomplete", "ready", "failed"} => Looked(e) = e /\ ~e.old
<1>1. CASE ~e.old
  BY <1>1 DEF Looked
<1>2. CASE e.old
  <2>1. Looked(e) = Changed(e, "expired")
    BY <1>2 DEF Looked
  <2>2. /\ Changed(e, "expired") \in Entry /\ Changed(e, "expired").s = "expired"
        /\ Changed(e, "expired").addr = e.addr /\ Changed(e, "expired").linkAddr = e.linkAddr
    BY ChangedFacts
  <2> QED BY <1>2, <2>1, <2>2
<1> QED BY <1>1, <1>2

\* What is found for an address that is in the map.
LEMMA HasFacts ==
  ASSUME LinkInv, NEW k, NEW s \in {"incomplete", "ready", "failed"}, Has(k, s)
  PROVE  /\ k \in DOMAIN cache /\ k \in Addrs /\ cache[k] \in Ring
         /\ entries[cache[k]] \in Entry /\ entries[cache[k]].addr = k
         /\ entries[cache[k]].s = s /\ ~entries[cache[k]].old
         /\ LookedUp(k) = entries
<1>1. /\ k \in DOMAIN cache /\ k \in Addrs /\ cache[k] \in Ring
      /\ entries \in [Ring -> Entry]
  BY DEF Has, Cached, LinkInv, LinkTypeOK, CacheOK
<1>2. PICK e : e = entries[cache[k]]
  OBVIOUS
<1>3. e \in Entry /\ Looked(e).s = s
  BY <1>1, <1>2 DEF Has, Found
<1>4. Looked(e) = e /\ ~e.old
  BY <1>3, LookedFacts
<1>5. LookedUp(k) = entries
  BY <1>1, <1>2, <1>4 DEF LookedUp
<1>6. e.addr = k
  BY <1>1, <1>2 DEF LinkInv, CacheIsCurrent
<1> QED BY <1>1, <1>2, <1>3, <1>4, <1>5, <1>6

\* Looking an address up: only the entry that expires changes.
LEMMA LookedUpFacts ==
  ASSUME LinkInv, NEW k
  PROVE  /\ LookedUp(k) \in [Ring -> Entry] /\ Expiring(k) \subseteq Ring
         /\ \A i \in Ring : /\ LookedUp(k)[i].addr = entries[i].addr
                            /\ LookedUp(k)[i].linkAddr = entries[i].linkAddr
                            /\ i \notin Expiring(k) => LookedUp(k)[i] = entries[i]
                            /\ i \in Expiring(k) => LookedUp(k)[i].s = "expired"
<1>1. /\ entries \in [Ring -> Entry]
      /\ \A x \in DOMAIN cache : cache[x] \in Ring
  BY DEF LinkInv, LinkTypeOK, CacheOK
<1>2. CASE ~Cached(k)
  <2>1. LookedUp(k) = entries
    BY <1>2 DEF LookedUp
  <2>2. Expiring(k) = {}
    BY <1>2 DEF Expiring, Cached
  <2> QED BY <1>1, <2>1, <2>2
<1>3. CASE Cached(k)
  <2>1. PICK j : j = cache[k]
    OBVIOUS
  <2>2. j \in Ring /\ entries[j] \in Entry
    BY <1>1, <1>3, <2>1 DEF Cached
  <2>3. LookedUp(k) = [entries EXCEPT ![j] = Looked(entries[j])]
    BY <1>3, <2>1 DEF LookedUp
  <2>4. Expiring(k) = IF entries[j].old THEN {j} ELSE {}
    BY <1>3, <2>1 DEF Expiring, Cached
  <2>5. /\ Looked(entries[j]) \in Entry
        /\ Looked(entries[j]).addr = entries[j].addr
        /\ Looked(entries[j]).linkAddr = entries[j].linkAddr
        /\ ~entries[j].old => Looked(entries[j]) = entries[j]
        /\ entries[j].old => Looked(entries[j]).s = "expired"
    BY <2>2, LookedFacts
  <2>6. LookedUp(k) \in [Ring -> Entry]
    BY <1>1, <2>3, <2>5
  <2>7. LookedUp(k)[j] = Looked(entries[j]) /\ \A i \in Ring : i # j => LookedUp(k)[i] = entries[i]
    BY <1>1, <2>2, <2>3
  <2>8. ASSUME NEW i \in Ring
        PROVE  /\ LookedUp(k)[i].addr = entries[i].addr
               /\ LookedUp(k)[i].linkAddr = entries[i].linkAddr
               /\ i \notin Expiring(k) => LookedUp(k)[i] = entries[i]
               /\ i \in Expiring(k) => LookedUp(k)[i].s = "expired"
    <3>1. CASE i = j
      BY <2>4, <2>5, <2>7, <3>1
    <3>2. CASE i # j
      BY <2>4, <2>7, <3>2
    <3> QED BY <3>1, <3>2
  <2>9. Expiring(k) \subseteq Ring
    BY <2>2, <2>4
  <2> QED BY <2>6, <2>8, <2>9
<1> QED BY <1>2, <1>3

\* Who has the channel of an entry that leaves has a closed one afterwards.
LEMMA ShutClients ==
  ASSUME clients \in [Clients -> Client], NEW left
  PROVE  /\ Shut(clients, left) \in [Clients -> Client]
         /\ \A c \in Clients :
              /\ Shut(clients, left)[c].pc = clients[c].pc
              /\ Shut(clients, left)[c].addr = clients[c].addr
              /\ Shut(clients, left)[c].ch =
                   IF clients[c].ch \in left THEN Closed ELSE clients[c].ch
<1>1. ASSUME NEW c \in Clients
      PROVE  /\ Shut(clients, left)[c] \in Client
             /\ Shut(clients, left)[c].pc = clients[c].pc
             /\ Shut(clients, left)[c].addr = clients[c].addr
             /\ Shut(clients, left)[c].ch =
                  IF clients[c].ch \in left THEN Closed ELSE clients[c].ch
  <2>1. PICK d : d = IF clients[c].ch \in left THEN Closed ELSE clients[c].ch
    OBVIOUS
  <2>2. Shut(clients, left)[c] = [clients[c] EXCEPT !.ch = d]
    BY <2>1 DEF Shut
  <2>3. clients[c] \in Client
    OBVIOUS
  <2>4. d \in Ring \cup {Closed}
    BY <2>1, <2>3 DEF Client
  <2> QED BY <2>1, <2>2, <2>3, <2>4 DEF Client
<1>2. Shut(clients, left) = [c \in Clients |-> Shut(clients, left)[c]]
  BY DEF Shut
<1>3. Shut(clients, left) \in [Clients -> Client]
  BY <1>1, <1>2
<1> QED BY <1>1, <1>3

\* A goroutine's channel likewise.
LEMMA ShutResolvers ==
  ASSUME resolvers \in [Resolvers -> Resolver], NEW left
  PROVE  /\ Shut(resolvers, left) \in [Resolvers -> Resolver]
         /\ \A r \in Resolvers :
              /\ Shut(resolvers, left)[r].pc = resolvers[r].pc
              /\ Shut(resolvers, left)[r].addr = resolvers[r].addr
              /\ Shut(resolvers, left)[r].ch =
                   IF resolvers[r].ch \in left THEN Closed ELSE resolvers[r].ch
<1>1. ASSUME NEW r \in Resolvers
      PROVE  /\ Shut(resolvers, left)[r] \in Resolver
             /\ Shut(resolvers, left)[r].pc = resolvers[r].pc
             /\ Shut(resolvers, left)[r].addr = resolvers[r].addr
             /\ Shut(resolvers, left)[r].ch =
                  IF resolvers[r].ch \in left THEN Closed ELSE resolvers[r].ch
  <2>1. PICK d : d = IF resolvers[r].ch \in left THEN Closed ELSE resolvers[r].ch
    OBVIOUS
  <2>2. Shut(resolvers, left)[r] = [resolvers[r] EXCEPT !.ch = d]
    BY <2>1 DEF Shut
  <2>3. resolvers[r] \in Resolver
    OBVIOUS
  <2>4. d \in Ring \cup {Closed}
    BY <2>1, <2>3 DEF Resolver
  <2> QED BY <2>1, <2>2, <2>3, <2>4 DEF Resolver
<1>2. Shut(resolvers, left) = [r \in Resolvers |-> Shut(resolvers, left)[r]]
  BY DEF Shut
<1>3. Shut(resolvers, left) \in [Resolvers -> Resolver]
  BY <1>1, <1>2
<1> QED BY <1>1, <1>3

-----------------------------------------------------------------------------
(* Steps that leave the map alone. *)

\* A client whose entry leaves is told; one whose entry stays is still served.
LEMMA OtherClient ==
  ASSUME NEW c \in Clients, ClientOK(c), NEW left,
         clients'[c].pc = clients[c].pc,
         clients'[c].ch = IF clients[c].ch \in left THEN Closed ELSE clients[c].ch,
         c \in asserted => c \in asserted',
         \A i \in Ring : i \in left /\ c \in entries[i].wakers => c \in asserted',
         \A i \in Ring : i \notin left /\ Awaited(i) =>
           Awaited(i)' /\ (c \in entries[i].wakers => c \in entries'[i].wakers),
         clients[c].ch \in Ring \cup {Closed}
  PROVE  ClientOK(c)'
<1>1. ASSUME clients'[c].pc = "waiting"
      PROVE  c \in asserted' \/ \E i \in Ring : c \in entries'[i].wakers /\ Awaited(i)'
  <2>1. CASE c \in asserted
    BY <2>1
  <2>2. CASE c \notin asserted
    <3>1. PICK i \in Ring : c \in entries[i].wakers /\ Awaited(i)
      BY <1>1, <2>2, Zenon DEF ClientOK
    <3> QED BY <3>1, Zenon
  <2> QED BY <2>1, <2>2
<1>2. ASSUME clients'[c].pc \in {"removing", "channel"}, clients'[c].ch # Closed
      PROVE  /\ entries'[clients'[c].ch].s = "incomplete"
             /\ entries'[clients'[c].ch].addr # NoAddr
  <2>1. PICK i : i = clients[c].ch
    OBVIOUS
  <2>2. i \notin left /\ i = clients'[c].ch /\ i \in Ring
    BY <1>2, <2>1
  <2>3. Awaited(i)
    BY <1>2, <2>1, <2>2 DEF ClientOK
  <2>4. Awaited(i)'
    BY <2>2, <2>3, Zenon
  <2>5. entries'[i].s = "incomplete" /\ entries'[i].addr # NoAddr
    BY <2>4 DEF Awaited, NoAddr
  <2> QED BY <2>2, <2>5
<1>3. (\E i \in Ring : c \in entries'[i].wakers /\ Awaited(i)') =>
        \E i \in Ring' : c \in entries'[i].wakers /\ Awaited(i)'
  BY DEF Ring
<1> QED BY <1>1, <1>2, <1>3 DEF ClientOK, Awaited, Closed, NoAddr

\* Entries leave "incomplete", all that are in left and no others, and the
\* resolvers are told; the map stays.
LEMMA SameCache ==
  ASSUME LinkInv, NEW left \in SUBSET Ring, entries' \in [Ring -> Entry],
         UNCHANGED <<cache, next>>, DOMAIN told' = Addrs,
         \A i \in Ring : entries'[i].addr = entries[i].addr,
         \A i \in left : entries'[i].s # "incomplete",
         \A i \in Ring : i \notin left =>
           (entries'[i].s = "incomplete" <=> entries[i].s = "incomplete"),
         resolvers' \in [Resolvers -> Resolver],
         \A r \in Resolvers :
           /\ resolvers'[r].addr = resolvers[r].addr
           /\ resolvers'[r].ch =
                IF resolvers[r].ch \in left THEN Closed ELSE resolvers[r].ch
           /\ resolvers'[r].pc # "idle" => resolvers[r].pc # "idle"
           /\ resolvers[r].pc # "idle" /\ resolvers'[r].ch # Closed
                => resolvers'[r].pc # "idle",
         clients' \in [Clients -> Client],
         \A c \in Clients : clients'[c].pc = "waiting" => clients'[c].addr \in Addrs,
         \A c \in Clients : ClientOK(c)',
         \A k \in DOMAIN cache : entries'[cache[k]].s = "ready" =>
           entries'[cache[k]].linkAddr = told'[k]
  PROVE  LinkInv'
<1>1. LinkTypeOK'
  <2>1. CacheOK'
    BY DEF LinkInv, LinkTypeOK, CacheOK, Ring
  <2>2. \A r \in Resolvers : resolvers'[r].pc # "idle" => resolvers'[r].addr \in Addrs
    BY DEF LinkInv, LinkTypeOK
  <2> QED BY <2>1, <2>2 DEF LinkTypeOK, Entry, Resolver, Client, Ring, Closed, NoAddr,
            States, Values
<1>2. \A i \in Ring : Awaited(i)' <=> (Awaited(i) /\ i \notin left)
  BY DEF Awaited, NoAddr
<1>3. LiveInv'
  <2> SUFFICES ASSUME NEW i \in Ring, Awaited(i)'
               PROVE  /\ entries'[i].addr \in DOMAIN cache'
                      /\ cache'[entries'[i].addr] = i
                      /\ \E r \in Resolvers : /\ resolvers'[r].pc # "idle"
                                              /\ resolvers'[r].ch = i
                                              /\ resolvers'[r].addr = entries'[i].addr
    BY DEF LiveInv, Ring
  <2>1. Awaited(i) /\ i \notin left
    BY <1>2
  <2>2. entries[i].addr \in DOMAIN cache /\ cache[entries[i].addr] = i
    BY <2>1, Zenon DEF LinkInv, LiveInv
  <2>3. PICK r \in Resolvers : /\ resolvers[r].pc # "idle" /\ resolvers[r].ch = i
                               /\ resolvers[r].addr = entries[i].addr
    BY <2>1, Zenon DEF LinkInv, LiveInv
  <2>4. resolvers'[r].ch = i /\ resolvers'[r].addr = entries'[i].addr
    BY <2>1, <2>3
  <2>5. i # Closed
    BY RingFacts
  <2>6. resolvers'[r].pc # "idle"
    BY <2>3, <2>4, <2>5
  <2> QED BY <2>2, <2>4, <2>6
<1>4. ResolverInv'
  <2> SUFFICES ASSUME NEW r \in Resolvers, resolvers'[r].pc # "idle",
                      resolvers'[r].ch # Closed
               PROVE  /\ entries'[resolvers'[r].ch].s = "incomplete"
                      /\ entries'[resolvers'[r].ch].addr # NoAddr
                      /\ entries'[resolvers'[r].ch].addr = resolvers'[r].addr
    BY DEF ResolverInv, Awaited, Closed, NoAddr
  <2>1. PICK i : i = resolvers[r].ch
    OBVIOUS
  <2>2. i \notin left /\ i = resolvers'[r].ch /\ resolvers[r].pc # "idle" /\ i # Closed
    BY <2>1
  <2>3. Awaited(i) /\ entries[i].addr = resolvers[r].addr
    BY <2>1, <2>2 DEF LinkInv, ResolverInv
  <2>4. i \in Ring
    BY <2>1, <2>2 DEF LinkInv, LinkTypeOK, Resolver
  <2>5. Awaited(i)'
    BY <1>2, <2>2, <2>3, <2>4
  <2>6. entries'[i].s = "incomplete" /\ entries'[i].addr # NoAddr
    BY <2>5 DEF Awaited, NoAddr
  <2>7. entries'[i].addr = resolvers'[r].addr
    BY <2>2, <2>3, <2>4
  <2> QED BY <2>2, <2>6, <2>7
<1>5. CacheIsCurrent'
  <2> SUFFICES ASSUME NEW k \in DOMAIN cache
               PROVE  /\ entries'[cache'[k]].addr = k
                      /\ entries'[cache'[k]].s = "ready" =>
                           entries'[cache'[k]].linkAddr = told'[k]
    BY DEF CacheIsCurrent
  <2>1. cache[k] \in Ring /\ entries[cache[k]].addr = k
    BY DEF LinkInv, LinkTypeOK, CacheOK, CacheIsCurrent
  <2>2. entries'[cache[k]].addr = k
    BY <2>1
  <2> QED BY <2>2
<1>6. ClientInv'
  BY DEF ClientInv
<1> QED BY <1>1, <1>3, <1>4, <1>5, <1>6 DEF LinkInv

-----------------------------------------------------------------------------
(* An entry is used again. *)

\* After makeAndAddEntry for k: what has left, that nothing else has, and that
\* the map is still current.
AddedFor(k, s, left) ==
  /\ entries' \in [Ring -> Entry] /\ CacheOK' /\ CacheIsCurrent' /\ DOMAIN told' = Addrs
  /\ entries'[next].addr = k /\ entries'[next].s = s
  /\ k \in DOMAIN cache' /\ cache'[k] = next
  /\ \A i \in left : i = next \/ entries'[i].s # "incomplete"
  /\ \A i \in Ring : i # next /\ Awaited(i)' => Awaited(i) /\ i \notin left
  /\ \A i \in Ring : Awaited(i) /\ i \notin left =>
       /\ i # next /\ Awaited(i)'
       /\ entries'[i].addr = entries[i].addr /\ entries'[i].wakers = entries[i].wakers
       /\ entries[i].addr \in DOMAIN cache' /\ cache'[entries[i].addr] = i

\* makeAndAddEntry does just that.
LEMMA PutFacts ==
  ASSUME LinkInv, NEW k \in Addrs, NEW v \in Values, NEW s \in {"ready", "incomplete"},
         NEW ws \in SUBSET Clients, Put(k, v, s, ws), ~Has(k, "incomplete"),
         NEW left, left = Leaving(Expiring(k) \cup {next})
  PROVE  AddedFor(k, s, left) /\ entries'[next].wakers = ws
<1>1. PICK n : n = next
  OBVIOUS
<1>2. PICK e : e = [addr |-> k, linkAddr |-> v, s |-> s, old |-> FALSE, wakers |-> ws]
  OBVIOUS
<1>3. PICK E : E = LookedUp(k)
  OBVIOUS
<1>4. /\ entries \in [Ring -> Entry] /\ n \in Ring /\ DOMAIN cache \subseteq Addrs
      /\ \A x \in DOMAIN cache : cache[x] \in Ring
  BY <1>1 DEF LinkInv, LinkTypeOK, CacheOK
<1>5. e \in Entry
  BY <1>2 DEF Entry, States
<1>6. /\ entries' = [E EXCEPT ![n] = e]
      /\ cache' = [x \in {k} \cup {y \in DOMAIN cache : cache[y] # n} |->
                     IF x = k THEN n ELSE cache[x]]
      /\ next' = (n % CacheSize) + 1
      /\ told' = [x \in Addrs |-> IF x = k THEN v
                                  ELSE IF x \in DOMAIN cache' THEN told[x] ELSE NoAddr]
  BY <1>1, <1>2, <1>3 DEF Put
<1>7. /\ E \in [Ring -> Entry] /\ Expiring(k) \subseteq Ring
      /\ \A i \in Ring : /\ E[i].addr = entries[i].addr /\ E[i].linkAddr = entries[i].linkAddr
                         /\ i \notin Expiring(k) => E[i] = entries[i]
                         /\ i \in Expiring(k) => E[i].s = "expired"
  BY <1>3, LookedUpFacts
<1>8. entries' \in [Ring -> Entry] /\ entries'[n] = e
      /\ \A i \in Ring : i # n => entries'[i] = E[i]
  BY <1>4, <1>5, <1>6, <1>7
<1>9. /\ DOMAIN cache' = {k} \cup {y \in DOMAIN cache : cache[y] # n}
      /\ cache'[k] = n
      /\ \A x \in DOMAIN cache' : x # k => /\ x \in DOMAIN cache /\ cache[x] # n
                                           /\ cache'[x] = cache[x]
  BY <1>6
<1>10. next' \in Ring
  <2>1. CacheSize \in Nat /\ CacheSize # 0
    BY LinkAssumption, Zenon
  <2>2. \A m, z \in Nat : z # 0 => (m % z) \in 0..(z - 1)
    BY SMTT(30)
  <2>3. n \in Nat
    BY <1>4, RingFacts
  <2>4. (n % CacheSize) \in 0..(CacheSize - 1)
    BY <2>1, <2>2, <2>3, Zenon
  <2> QED BY <1>6, <2>1, <2>4 DEF Ring
<1>11. CacheOK'
  <2>1. DOMAIN cache' \subseteq Addrs
    BY <1>4, <1>9
  <2>2. \A x \in DOMAIN cache' : cache'[x] \in Ring
    BY <1>4, <1>9
  <2> QED BY <1>10, <2>1, <2>2 DEF CacheOK, Ring
<1>12. \A i \in left : i \in Ring /\ entries[i].s = "incomplete"
                       /\ (i \in Expiring(k) \/ i = n)
  BY <1>1, <1>4, <1>7 DEF Leaving
<1>13. \A i \in Ring : entries[i].s = "incomplete" /\ (i \in Expiring(k) \/ i = n)
                        => i \in left
  BY <1>1 DEF Leaving
<1>14. ASSUME NEW x \in DOMAIN cache, x # k, cache[x] # n
       PROVE  /\ entries'[cache[x]] = entries[cache[x]]
              /\ x \in DOMAIN cache' /\ cache'[x] = cache[x]
  <2>1. cache[x] \in Ring /\ entries[cache[x]].addr = x
    BY <1>4, <1>14 DEF LinkInv, CacheIsCurrent
  <2>2. cache[x] \notin Expiring(k)
    <3> SUFFICES ASSUME cache[x] \in Expiring(k)
                 PROVE  FALSE
      OBVIOUS
    <3>1. k \in DOMAIN cache /\ cache[x] = cache[k]
      BY DEF Expiring
    <3>2. entries[cache[k]].addr = k
      BY <3>1 DEF LinkInv, CacheIsCurrent
    <3> QED BY <1>14, <2>1, <3>1, <3>2
  <2>3. entries'[cache[x]] = entries[cache[x]]
    BY <1>7, <1>8, <1>14, <2>1, <2>2
  <2> QED BY <1>6, <1>9, <1>14, <2>3
<1>15. CacheIsCurrent'
  <2> SUFFICES ASSUME NEW x \in DOMAIN cache'
               PROVE  /\ entries'[cache'[x]].addr = x
                      /\ entries'[cache'[x]].s = "ready" =>
                           entries'[cache'[x]].linkAddr = told'[x]
    BY DEF CacheIsCurrent
  <2>1. CASE x = k
    <3>1. entries'[cache'[x]] = e /\ told'[x] = v
      BY <1>6, <1>8, <1>9, <2>1
    <3> QED BY <1>2, <2>1, <3>1
  <2>2. CASE x # k
    <3>1. x \in DOMAIN cache /\ cache[x] # n /\ cache'[x] = cache[x] /\ x \in Addrs
      BY <1>4, <1>9, <2>2
    <3>2. entries'[cache[x]] = entries[cache[x]]
      BY <1>14, <2>2, <3>1
    <3>3. told'[x] = told[x]
      BY <1>6, <2>2, <3>1
    <3>4. /\ entries[cache[x]].addr = x
          /\ entries[cache[x]].s = "ready" => entries[cache[x]].linkAddr = told[x]
      BY <3>1, Zenon DEF LinkInv, CacheIsCurrent
    <3> QED BY <3>1, <3>2, <3>3, <3>4
  <2> QED BY <2>1, <2>2
<1>16. \A i \in left : i = n \/ entries'[i].s # "incomplete"
  <2> SUFFICES ASSUME NEW i \in left, i # n
               PROVE  entries'[i].s # "incomplete"
    OBVIOUS
  <2>1. i \in Ring /\ i \in Expiring(k)
    BY <1>12
  <2>2. entries'[i].s = "expired"
    BY <1>7, <1>8, <2>1
  <2> QED BY <2>2
<1>17. \A i \in Ring : i # n /\ Awaited(i)' => Awaited(i) /\ i \notin left
  <2> SUFFICES ASSUME NEW i \in Ring, i # n, Awaited(i)'
               PROVE  Awaited(i) /\ i \notin left
    OBVIOUS
  <2>1. entries'[i].s = "incomplete" /\ entries'[i].addr # NoAddr
    BY DEF Awaited, NoAddr
  <2>2. i \notin left
    BY <1>16, <2>1
  <2>3. i \notin Expiring(k)
    <3> SUFFICES ASSUME i \in Expiring(k)
                 PROVE  FALSE
      OBVIOUS
    <3>1. entries'[i].s = "expired"
      BY <1>7, <1>8
    <3> QED BY <2>1, <3>1
  <2>4. entries'[i] = entries[i]
    BY <1>7, <1>8, <2>3
  <2> QED BY <2>1, <2>2, <2>4 DEF Awaited
<1>18. ASSUME NEW i \in Ring, Awaited(i), i \notin left
       PROVE  /\ i # n /\ Awaited(i)'
              /\ entries'[i].addr = entries[i].addr /\ entries'[i].wakers = entries[i].wakers
              /\ entries[i].addr \in DOMAIN cache' /\ cache'[entries[i].addr] = i
  <2>1. entries[i].s = "incomplete" /\ entries[i].addr # NoAddr
    BY <1>18 DEF Awaited
  <2>2. i # n /\ i \notin Expiring(k)
    BY <1>13, <1>18, <2>1
  <2>3. entries'[i] = entries[i]
    BY <1>7, <1>8, <2>2
  <2>4. PICK x : x = entries[i].addr
    OBVIOUS
  <2>5. x \in DOMAIN cache /\ cache[x] = i
    BY <1>18, <2>4, Zenon DEF LinkInv, LiveInv
  <2>6. x # k
    <3> SUFFICES ASSUME x = k
                 PROVE  FALSE
      OBVIOUS
    <3>1. k \in DOMAIN cache /\ cache[k] = i /\ ~entries[i].old
      BY <2>2, <2>5 DEF Expiring
    <3>2. Found(k) = entries[i]
      BY <1>4, <3>1, LookedFacts DEF Found
    <3>3. Has(k, "incomplete")
      BY <2>1, <3>1, <3>2 DEF Has, Cached
    <3> QED BY <3>3
  <2>7. x \in DOMAIN cache' /\ cache'[x] = i
    BY <1>14, <2>2, <2>5, <2>6
  <2>8. Awaited(i)'
    BY <2>1, <2>3 DEF Awaited, NoAddr
  <2> QED BY <2>2, <2>3, <2>4, <2>7, <2>8
<1>19. DOMAIN told' = Addrs
  BY <1>6
<1>20. /\ entries'[n].addr = k /\ entries'[n].s = s /\ entries'[n].wakers = ws
       /\ k \in DOMAIN cache' /\ cache'[k] = n
  BY <1>2, <1>8, <1>9
<1> QED BY <1>1, <1>8, <1>11, <1>15, <1>16, <1>17, <1>18, <1>19, <1>20 DEF AddedFor

-----------------------------------------------------------------------------
(* An answer. *)

\* The wakers of the entries that leave are asserted.
LEMMA NotifiedFacts ==
  ASSUME NEW left, NEW c
  PROVE  /\ c \in asserted => c \in Notified(left)
         /\ \A i \in left : c \in entries[i].wakers => c \in Notified(left)
  BY DEF Notified

\* add finds the entry incomplete: the resolution succeeds.
LEMMA AnswerWaitingStep ==
  ASSUME LinkInv, NEW x \in Answers, AnswerWaiting(x[1], x[2])
  PROVE  LinkInv'
<1>1. PICK k : k = x[1]
  OBVIOUS
<1>2. PICK v : v = x[2]
  OBVIOUS
<1>3. PICK i : i = cache[k]
  OBVIOUS
<1>4. /\ k \in DOMAIN cache /\ k \in Addrs /\ i \in Ring
      /\ entries[i] \in Entry /\ entries[i].addr = k
      /\ entries[i].s = "incomplete"
  BY <1>1, <1>3, HasFacts DEF AnswerWaiting
<1>5. v \in Values
  BY <1>2 DEF Values
<1>6. PICK e : e = [entries[i] EXCEPT !.linkAddr = v]
  OBVIOUS
<1>7. /\ e \in Entry /\ e.addr = k /\ e.s = "incomplete" /\ e.linkAddr = v
  BY <1>4, <1>5, <1>6 DEF Entry
<1>8. PICK f : f = Changed(e, "ready")
  OBVIOUS
<1>9. f \in Entry /\ f.s = "ready" /\ f.addr = k /\ f.linkAddr = v
  BY <1>7, <1>8, ChangedFacts
<1>10. Leaving({i}) = {i}
  BY <1>4 DEF Leaving
<1>11. /\ entries' = [entries EXCEPT ![i] = f]
       /\ asserted' = Notified({i})
       /\ resolvers' = Shut(resolvers, {i}) /\ clients' = Shut(clients, {i})
       /\ told' = [told EXCEPT ![k] = v] /\ UNCHANGED <<cache, next>>
  BY <1>1, <1>2, <1>3, <1>6, <1>8, <1>10 DEF AnswerWaiting
<1>12. /\ entries \in [Ring -> Entry] /\ DOMAIN told = Addrs
       /\ resolvers \in [Resolvers -> Resolver] /\ clients \in [Clients -> Client]
  BY DEF LinkInv, LinkTypeOK
<1>13. /\ entries' \in [Ring -> Entry] /\ entries'[i] = f
       /\ \A j \in Ring : j # i => entries'[j] = entries[j]
  BY <1>4, <1>9, <1>11, <1>12
<1>14. /\ DOMAIN told' = Addrs /\ told'[k] = v
       /\ \A y \in Addrs : y # k => told'[y] = told[y]
  BY <1>4, <1>11, <1>12
<1>15. /\ resolvers' \in [Resolvers -> Resolver]
       /\ \A r \in Resolvers :
            /\ resolvers'[r].pc = resolvers[r].pc
            /\ resolvers'[r].addr = resolvers[r].addr
            /\ resolvers'[r].ch = IF resolvers[r].ch \in {i} THEN Closed ELSE resolvers[r].ch
  <2>1. /\ Shut(resolvers, {i}) \in [Resolvers -> Resolver]
        /\ \A r \in Resolvers :
             /\ Shut(resolvers, {i})[r].pc = resolvers[r].pc
             /\ Shut(resolvers, {i})[r].addr = resolvers[r].addr
             /\ Shut(resolvers, {i})[r].ch =
                  IF resolvers[r].ch \in {i} THEN Closed ELSE resolvers[r].ch
    BY <1>12, ShutResolvers
  <2> QED BY <1>11, <2>1
<1>16. /\ clients' \in [Clients -> Client]
       /\ \A c \in Clients :
            /\ clients'[c].pc = clients[c].pc
            /\ clients'[c].addr = clients[c].addr
            /\ clients'[c].ch = IF clients[c].ch \in {i} THEN Closed ELSE clients[c].ch
  <2>1. /\ Shut(clients, {i}) \in [Clients -> Client]
        /\ \A c \in Clients :
             /\ Shut(clients, {i})[c].pc = clients[c].pc
             /\ Shut(clients, {i})[c].addr = clients[c].addr
             /\ Shut(clients, {i})[c].ch =
                  IF clients[c].ch \in {i} THEN Closed ELSE clients[c].ch
    BY <1>12, ShutClients
  <2> QED BY <1>11, <2>1
<1>17. ASSUME NEW c \in Clients
       PROVE  ClientOK(c)'
  <2>1. ClientOK(c) /\ clients[c] \in Client
    BY <1>12 DEF LinkInv, ClientInv
  <2>2. clients[c].ch \in Ring \cup {Closed}
    BY <2>1 DEF Client
  <2>3. /\ c \in asserted => c \in asserted'
        /\ \A j \in {i} : c \in entries[j].wakers => c \in asserted'
    BY <1>11, NotifiedFacts
  <2>4. \A j \in Ring : j \notin {i} /\ Awaited(j) =>
          Awaited(j)' /\ (c \in entries[j].wakers => c \in entries'[j].wakers)
    BY <1>13 DEF Awaited, NoAddr
  <2> QED BY <1>16, <2>1, <2>2, <2>3, <2>4, OtherClient
<1>18. \A c \in Clients : clients'[c].pc = "waiting" => clients'[c].addr \in Addrs
  BY <1>16 DEF LinkInv, LinkTypeOK
<1>19. ASSUME NEW y \in DOMAIN cache, entries'[cache[y]].s = "ready"
       PROVE  entries'[cache[y]].linkAddr = told'[y]
  <2>1. CASE y = k
    BY <1>3, <1>9, <1>13, <1>14, <2>1
  <2>2. CASE y # k
    <3>1. cache[y] \in Ring /\ entries[cache[y]].addr = y /\ y \in Addrs
      BY DEF LinkInv, LinkTypeOK, CacheOK, CacheIsCurrent
    <3>2. entries'[cache[y]] = entries[cache[y]] /\ told'[y] = told[y]
      BY <1>4, <1>13, <1>14, <2>2, <3>1
    <3> QED BY <1>19, <3>2 DEF LinkInv, CacheIsCurrent
  <2> QED BY <2>1, <2>2
<1>20. /\ {i} \in SUBSET Ring
       /\ \A j \in Ring : entries'[j].addr = entries[j].addr
       /\ \A j \in {i} : entries'[j].s # "incomplete"
       /\ \A j \in Ring : j \notin {i} =>
            (entries'[j].s = "incomplete" <=> entries[j].s = "incomplete")
  BY <1>4, <1>9, <1>13
<1>21. /\ \A c \in Clients : ClientOK(c)'
       /\ \A y \in DOMAIN cache : entries'[cache[y]].s = "ready" =>
            entries'[cache[y]].linkAddr = told'[y]
  BY <1>17, <1>19
<1>22. \A r \in Resolvers :
         /\ resolvers'[r].addr = resolvers[r].addr
         /\ resolvers'[r].ch = IF resolvers[r].ch \in {i} THEN Closed ELSE resolvers[r].ch
         /\ resolvers'[r].pc # "idle" => resolvers[r].pc # "idle"
         /\ resolvers[r].pc # "idle" /\ resolvers'[r].ch # Closed
              => resolvers'[r].pc # "idle"
  BY <1>15
<1>23. /\ entries' \in [Ring -> Entry] /\ UNCHANGED <<cache, next>> /\ DOMAIN told' = Addrs
       /\ resolvers' \in [Resolvers -> Resolver] /\ clients' \in [Clients -> Client]
  BY <1>11, <1>13, <1>14, <1>15, <1>16
<1> QED BY <1>18, <1>20, <1>21, <1>22, <1>23, SameCache

\* A client that has nothing to do with the entry that is used again.
LEMMA ClientOfAdded ==
  ASSUME LinkInv, NEW k, NEW s, NEW left, AddedFor(k, s, left),
         NEW c \in Clients,
         clients'[c].pc = clients[c].pc,
         clients'[c].ch = IF clients[c].ch \in left THEN Closed ELSE clients[c].ch,
         c \in asserted => c \in asserted',
         \A i \in left : c \in entries[i].wakers => c \in asserted'
  PROVE  ClientOK(c)'
<1>1. ClientOK(c) /\ clients[c].ch \in Ring \cup {Closed}
  BY DEF LinkInv, LinkTypeOK, ClientInv, Client
<1>2. \A i \in Ring : Awaited(i) /\ i \notin left => Awaited(i)' /\ entries'[i].wakers = entries[i].wakers
  BY Zenon DEF AddedFor
<1>3. \A i \in Ring : i \notin left /\ Awaited(i) =>
        Awaited(i)' /\ (c \in entries[i].wakers => c \in entries'[i].wakers)
  BY <1>2
<1>4. \A i \in Ring : i \in left /\ c \in entries[i].wakers => c \in asserted'
  OBVIOUS
<1> QED BY <1>1, <1>3, <1>4, OtherClient

\* The goroutines that resolve go on with the entries that are left, and if
\* the new entry is to be resolved, one of them starts with it.
LEMMA ResolversOfAdded ==
  ASSUME LinkInv, NEW k \in Addrs, NEW s \in {"ready", "incomplete"}, NEW left \in SUBSET Ring,
         AddedFor(k, s, left), NEW r,
         s = "incomplete" => r \in Resolvers,
         Awaited(next) => next \in left,
         r \in Resolvers => /\ resolvers[r].pc = "idle" /\ s = "incomplete"
                            /\ resolvers'[r].pc # "idle" /\ resolvers'[r].addr = k
                            /\ resolvers'[r].ch = next,
         \A q \in Resolvers : q # r =>
           /\ resolvers'[q].pc = resolvers[q].pc /\ resolvers'[q].addr = resolvers[q].addr
           /\ resolvers'[q].ch = IF resolvers[q].ch \in left THEN Closed ELSE resolvers[q].ch
  PROVE  LiveInv' /\ ResolverInv'
<1>1. PICK n : n = next
  OBVIOUS
<1>2. /\ n \in Ring /\ n # Closed /\ k # NoAddr
  BY <1>1, RingFacts DEF LinkInv, LinkTypeOK, CacheOK
<1>3. /\ entries'[n].addr = k /\ entries'[n].s = s
      /\ k \in DOMAIN cache' /\ cache'[k] = n
      /\ \A i \in Ring : i # n /\ Awaited(i)' => Awaited(i) /\ i \notin left
      /\ \A i \in Ring : Awaited(i) /\ i \notin left =>
           /\ i # n /\ Awaited(i)' /\ entries'[i].addr = entries[i].addr
           /\ entries[i].addr \in DOMAIN cache' /\ cache'[entries[i].addr] = i
  BY <1>1, Zenon DEF AddedFor
<1>4. LiveInv'
  <2> SUFFICES ASSUME NEW i \in Ring, Awaited(i)'
               PROVE  /\ entries'[i].addr \in DOMAIN cache'
                      /\ cache'[entries'[i].addr] = i
                      /\ \E q \in Resolvers : /\ resolvers'[q].pc # "idle"
                                              /\ resolvers'[q].ch = i
                                              /\ resolvers'[q].addr = entries'[i].addr
    BY DEF LiveInv, Ring
  <2>1. CASE i = n
    <3>1. s = "incomplete"
      BY <1>3, <2>1 DEF Awaited
    <3> QED BY <1>1, <1>3, <2>1, <3>1
  <2>2. CASE i # n
    <3>1. Awaited(i) /\ i \notin left
      BY <1>3, <2>2
    <3>2. /\ entries'[i].addr = entries[i].addr
          /\ entries[i].addr \in DOMAIN cache' /\ cache'[entries[i].addr] = i
      BY <1>3, <3>1
    <3>3. PICK q \in Resolvers : /\ resolvers[q].pc # "idle" /\ resolvers[q].ch = i
                                 /\ resolvers[q].addr = entries[i].addr
      BY <3>1, Zenon DEF LinkInv, LiveInv
    <3>4. q # r
      BY <3>3
    <3>5. /\ resolvers'[q].pc # "idle" /\ resolvers'[q].ch = i
          /\ resolvers'[q].addr = entries'[i].addr
      BY <3>1, <3>2, <3>3, <3>4
    <3> QED BY <3>2, <3>5
  <2> QED BY <2>1, <2>2
<1>5. ResolverInv'
  <2> SUFFICES ASSUME NEW q \in Resolvers, resolvers'[q].pc # "idle",
                      resolvers'[q].ch # Closed
               PROVE  /\ entries'[resolvers'[q].ch].s = "incomplete"
                      /\ entries'[resolvers'[q].ch].addr # NoAddr
                      /\ entries'[resolvers'[q].ch].addr = resolvers'[q].addr
    BY DEF ResolverInv, Awaited, Closed, NoAddr
  <2>1. CASE q = r
    BY <1>1, <1>2, <1>3, <2>1
  <2>2. CASE q # r
    <3>1. PICK i : i = resolvers[q].ch
      OBVIOUS
    <3>2. i \notin left /\ i = resolvers'[q].ch /\ resolvers[q].pc # "idle" /\ i # Closed
      BY <2>2, <3>1
    <3>3. Awaited(i) /\ entries[i].addr = resolvers[q].addr
      BY <3>1, <3>2 DEF LinkInv, ResolverInv
    <3>4. i \in Ring
      BY <3>1, <3>2 DEF LinkInv, LinkTypeOK, Resolver
    <3>5. Awaited(i)' /\ entries'[i].addr = entries[i].addr
      BY <1>3, <3>2, <3>3, <3>4
    <3>6. entries'[i].s = "incomplete" /\ entries'[i].addr # NoAddr
      BY <3>5 DEF Awaited, NoAddr
    <3>7. entries'[i].addr = resolvers'[q].addr
      BY <2>2, <3>3, <3>5
    <3> QED BY <3>2, <3>6, <3>7
  <2> QED BY <2>1, <2>2
<1> QED BY <1>4, <1>5

\* What makeAndAddEntry makes leave.
LEMMA PutLeaves ==
  ASSUME LinkInv, NEW k, NEW left, left = Leaving(Expiring(k) \cup {next})
  PROVE  left \in SUBSET Ring /\ (Awaited(next) => next \in left)
<1>1. Expiring(k) \subseteq Ring /\ next \in Ring
  BY LookedUpFacts DEF LinkInv, LinkTypeOK, CacheOK
<1> QED BY <1>1 DEF Leaving, Awaited

\* add, for a new or another address.
LEMMA AnswerNewStep ==
  ASSUME LinkInv, NEW x \in Answers, AnswerNew(x[1], x[2])
  PROVE  LinkInv'
<1>1. PICK k : k = x[1]
  OBVIOUS
<1>2. PICK v : v = x[2]
  OBVIOUS
<1>3. PICK left : left = Leaving(Expiring(k) \cup {next})
  OBVIOUS
<1>4. k \in Addrs /\ v \in Values
  BY <1>1, <1>2, LinkAssumption DEF Values
<1>5. /\ ~Has(k, "incomplete") /\ Put(k, v, "ready", {})
      /\ asserted' = Notified(left)
      /\ resolvers' = Shut(resolvers, left) /\ clients' = Shut(clients, left)
  BY <1>1, <1>2, <1>3 DEF AnswerNew
<1>6. AddedFor(k, "ready", left)
  BY <1>3, <1>4, <1>5, PutFacts
<1>7. left \in SUBSET Ring /\ (Awaited(next) => next \in left)
  BY <1>3, PutLeaves
<1>8. /\ resolvers \in [Resolvers -> Resolver] /\ clients \in [Clients -> Client]
  BY DEF LinkInv, LinkTypeOK
<1>9. /\ resolvers' \in [Resolvers -> Resolver]
      /\ \A r \in Resolvers :
           /\ resolvers'[r].pc = resolvers[r].pc /\ resolvers'[r].addr = resolvers[r].addr
           /\ resolvers'[r].ch = IF resolvers[r].ch \in left THEN Closed ELSE resolvers[r].ch
  <2>1. /\ Shut(resolvers, left) \in [Resolvers -> Resolver]
        /\ \A r \in Resolvers :
             /\ Shut(resolvers, left)[r].pc = resolvers[r].pc
             /\ Shut(resolvers, left)[r].addr = resolvers[r].addr
             /\ Shut(resolvers, left)[r].ch =
                  IF resolvers[r].ch \in left THEN Closed ELSE resolvers[r].ch
    BY <1>8, ShutResolvers
  <2> QED BY <1>5, <2>1
<1>10. /\ clients' \in [Clients -> Client]
       /\ \A c \in Clients :
            /\ clients'[c].pc = clients[c].pc /\ clients'[c].addr = clients[c].addr
            /\ clients'[c].ch = IF clients[c].ch \in left THEN Closed ELSE clients[c].ch
  <2>1. /\ Shut(clients, left) \in [Clients -> Client]
        /\ \A c \in Clients :
             /\ Shut(clients, left)[c].pc = clients[c].pc
             /\ Shut(clients, left)[c].addr = clients[c].addr
             /\ Shut(clients, left)[c].ch =
                  IF clients[c].ch \in left THEN Closed ELSE clients[c].ch
    BY <1>8, ShutClients
  <2> QED BY <1>5, <2>1
<1>11. ClientInv'
  <2> SUFFICES ASSUME NEW c \in Clients
               PROVE  ClientOK(c)'
    BY DEF ClientInv
  <2>1. /\ c \in asserted => c \in asserted'
        /\ \A j \in left : c \in entries[j].wakers => c \in asserted'
    BY <1>5, NotifiedFacts
  <2> QED BY <1>6, <1>10, <2>1, ClientOfAdded
<1>12. LiveInv' /\ ResolverInv'
  <2>1. PICK r : r \notin Resolvers
    <3>1. {q \in Resolvers : q \notin q} \notin Resolvers
      OBVIOUS
    <3> QED BY <3>1
  <2>2. \A q \in Resolvers : q # r =>
           /\ resolvers'[q].pc = resolvers[q].pc /\ resolvers'[q].addr = resolvers[q].addr
           /\ resolvers'[q].ch = IF resolvers[q].ch \in left THEN Closed ELSE resolvers[q].ch
    BY <1>9, Zenon
  <2> QED BY <1>4, <1>6, <1>7, <2>1, <2>2, ResolversOfAdded
<1>13. LinkTypeOK'
  <2>1. \A r \in Resolvers : resolvers'[r].pc # "idle" => resolvers'[r].addr \in Addrs
    BY <1>9 DEF LinkInv, LinkTypeOK
  <2>2. \A c \in Clients : clients'[c].pc = "waiting" => clients'[c].addr \in Addrs
    BY <1>10 DEF LinkInv, LinkTypeOK
  <2>3. entries' \in [Ring -> Entry] /\ CacheOK' /\ DOMAIN told' = Addrs
    BY <1>6, Zenon DEF AddedFor
  <2> QED BY <1>9, <1>10, <2>1, <2>2, <2>3 DEF LinkTypeOK, Entry, Resolver, Client, Ring,
            Closed, NoAddr, States, Values
<1>14. CacheIsCurrent'
  BY <1>6, Zenon DEF AddedFor
<1> QED BY <1>11, <1>12, <1>13, <1>14 DEF LinkInv

-----------------------------------------------------------------------------
(* Steps that change no entry's state. *)

\* Entries keep their addresses and states; only wakers, ages, and what
\* clients and resolvers do may change.
QuietEntries ==
  /\ entries' \in [Ring -> Entry] /\ UNCHANGED <<cache, next, told>>
  /\ \A i \in Ring : /\ entries'[i].addr = entries[i].addr /\ entries'[i].s = entries[i].s
                     /\ entries'[i].linkAddr = entries[i].linkAddr

\* A client that the step is not about.
LEMMA QuietClient ==
  ASSUME LinkInv, QuietEntries, NEW d \in Clients, clients'[d] = clients[d],
         d \in asserted => d \in asserted',
         \A i \in Ring : d \in entries[i].wakers => d \in entries'[i].wakers
  PROVE  ClientOK(d)'
<1>1. ClientOK(d) /\ clients[d].ch \in Ring \cup {Closed}
  BY DEF LinkInv, LinkTypeOK, ClientInv, Client
<1>2. \A i \in Ring : Awaited(i) => Awaited(i)'
  BY DEF QuietEntries, Awaited, NoAddr
<1>3. PICK left : left = {}
  OBVIOUS
<1>4. \A i \in Ring : i \notin left /\ Awaited(i) =>
        Awaited(i)' /\ (d \in entries[i].wakers => d \in entries'[i].wakers)
  BY <1>2
<1>5. clients'[d].pc = clients[d].pc
      /\ clients'[d].ch = IF clients[d].ch \in left THEN Closed ELSE clients[d].ch
  BY <1>3
<1>6. \A i \in Ring : i \in left /\ d \in entries[i].wakers => d \in asserted'
  BY <1>3
<1> QED BY <1>1, <1>4, <1>5, <1>6, OtherClient

\* If no client is let down by it, such a step keeps the invariant.
LEMMA QuietStep ==
  ASSUME LinkInv, QuietEntries,
         resolvers' \in [Resolvers -> Resolver],
         \A r \in Resolvers :
           /\ resolvers'[r].addr = resolvers[r].addr /\ resolvers'[r].ch = resolvers[r].ch
           /\ resolvers'[r].pc # "idle" => resolvers[r].pc # "idle"
           /\ resolvers[r].pc # "idle" /\ resolvers'[r].ch # Closed
                => resolvers'[r].pc # "idle",
         clients' \in [Clients -> Client],
         \A c \in Clients : clients'[c].pc = "waiting" => clients'[c].addr \in Addrs,
         \A c \in Clients : ClientOK(c)'
  PROVE  LinkInv'
<1>1. /\ {} \in SUBSET Ring /\ \A i \in {} : entries'[i].s # "incomplete"
      /\ \A i \in Ring : i \notin {} =>
           (entries'[i].s = "incomplete" <=> entries[i].s = "incomplete")
  BY DEF QuietEntries
<1>2. /\ entries' \in [Ring -> Entry] /\ UNCHANGED <<cache, next>> /\ DOMAIN told' = Addrs
      /\ \A i \in Ring : entries'[i].addr = entries[i].addr
  BY DEF QuietEntries, LinkInv, LinkTypeOK
<1>3. \A r \in Resolvers :
        /\ resolvers'[r].addr = resolvers[r].addr
        /\ resolvers'[r].ch = IF resolvers[r].ch \in {} THEN Closed ELSE resolvers[r].ch
        /\ resolvers'[r].pc # "idle" => resolvers[r].pc # "idle"
        /\ resolvers[r].pc # "idle" /\ resolvers'[r].ch # Closed
             => resolvers'[r].pc # "idle"
  OBVIOUS
<1>4. \A k \in DOMAIN cache : entries'[cache[k]].s = "ready" =>
        entries'[cache[k]].linkAddr = told'[k]
  <2> SUFFICES ASSUME NEW k \in DOMAIN cache, entries'[cache[k]].s = "ready"
               PROVE  entries'[cache[k]].linkAddr = told'[k]
    OBVIOUS
  <2>1. cache[k] \in Ring
    BY DEF LinkInv, LinkTypeOK, CacheOK
  <2>2. /\ entries[cache[k]].s = "ready" /\ told' = told
        /\ entries'[cache[k]].linkAddr = entries[cache[k]].linkAddr
    BY <2>1 DEF QuietEntries
  <2>3. entries[cache[k]].linkAddr = told[k]
    BY <2>2, Zenon DEF LinkInv, CacheIsCurrent
  <2> QED BY <2>2, <2>3
<1> QED BY <1>1, <1>2, <1>3, <1>4, SameCache

\* The same when only client c does something.
LEMMA ClientStep ==
  ASSUME LinkInv, QuietEntries, UNCHANGED resolvers, NEW c \in Clients, NEW s \in Client,
         s.pc = "waiting" => s.addr \in Addrs,
         clients' = [clients EXCEPT ![c] = s], ClientOK(c)',
         asserted \ {c} \subseteq asserted',
         \A d \in Clients : d # c =>
           \A i \in Ring : d \in entries[i].wakers => d \in entries'[i].wakers
  PROVE  LinkInv'
<1>1. /\ clients \in [Clients -> Client] /\ resolvers \in [Resolvers -> Resolver]
      /\ \A d \in Clients : clients[d].pc = "waiting" => clients[d].addr \in Addrs
  BY DEF LinkInv, LinkTypeOK
<1>2. /\ clients' \in [Clients -> Client] /\ clients'[c] = s
      /\ \A d \in Clients : d # c => clients'[d] = clients[d]
  BY <1>1
<1>3. \A d \in Clients : clients'[d].pc = "waiting" => clients'[d].addr \in Addrs
  BY <1>1, <1>2
<1>4. \A d \in Clients : ClientOK(d)'
  <2> SUFFICES ASSUME NEW d \in Clients, d # c
               PROVE  ClientOK(d)'
    OBVIOUS
  <2>1. /\ clients'[d] = clients[d] /\ (d \in asserted => d \in asserted')
        /\ \A i \in Ring : d \in entries[i].wakers => d \in entries'[i].wakers
    BY <1>2
  <2> QED BY <2>1, QuietClient
<1>5. /\ resolvers' \in [Resolvers -> Resolver]
      /\ \A r \in Resolvers :
           /\ resolvers'[r].addr = resolvers[r].addr /\ resolvers'[r].ch = resolvers[r].ch
           /\ resolvers'[r].pc # "idle" => resolvers[r].pc # "idle"
           /\ resolvers[r].pc # "idle" /\ resolvers'[r].ch # Closed
                => resolvers'[r].pc # "idle"
  BY <1>1 DEF Resolver, Ring, Closed, NoAddr
<1> QED BY <1>2, <1>3, <1>4, <1>5, QuietStep

-----------------------------------------------------------------------------
(* get and removeWaker. *)

\* An idle client has nothing to wait for.
LEMMA IdleFacts ==
  ASSUME NEW c \in Clients, clients'[c] = Idle
  PROVE  Idle \in Client /\ Idle.pc # "waiting" /\ ClientOK(c)'
<1>1. Idle \in Client
  BY DEF Idle, Client
<1>2. clients'[c].pc = "idle"
  BY DEF Idle
<1>3. Idle.pc # "waiting"
  BY DEF Idle
<1> QED BY <1>1, <1>2, <1>3 DEF ClientOK

\* Leaving the entries alone is such a step.
LEMMA QuietSame ==
  ASSUME LinkInv, UNCHANGED <<entries, cache, next, told>>
  PROVE  QuietEntries /\ \A i \in Ring : entries'[i].wakers = entries[i].wakers
BY DEF LinkInv, LinkTypeOK, QuietEntries, Entry, Ring, NoAddr, States, Values

\* get finds the entry ready or failed.
LEMMA GetKnownStep ==
  ASSUME LinkInv, NEW c \in Clients, NEW k, GetKnown(c, k)
  PROVE  LinkInv'
<1>1. /\ clients' = [clients EXCEPT ![c] = Idle] /\ asserted' = asserted \ {c}
      /\ UNCHANGED <<entries, cache, next, told>> /\ UNCHANGED resolvers
  BY DEF GetKnown
<1>2. QuietEntries /\ \A i \in Ring : entries'[i].wakers = entries[i].wakers
  BY <1>1, QuietSame
<1>3. clients'[c] = Idle
  BY <1>1 DEF LinkInv, LinkTypeOK
<1>4. Idle \in Client /\ Idle.pc # "waiting" /\ ClientOK(c)'
  BY <1>3, IdleFacts
<1>5. \A d \in Clients : d # c =>
        \A i \in Ring : d \in entries[i].wakers => d \in entries'[i].wakers
  BY <1>2
<1> QED BY <1>1, <1>2, <1>4, <1>5, ClientStep

\* The channel of Write's caller is closed.
LEMMA WriteReadyStep ==
  ASSUME LinkInv, NEW c \in Clients, WriteReady(c)
  PROVE  LinkInv'
<1>1. /\ clients' = [clients EXCEPT ![c] = Idle] /\ asserted' = asserted
      /\ UNCHANGED <<entries, cache, next, told>> /\ UNCHANGED resolvers
  BY DEF WriteReady
<1>2. QuietEntries /\ \A i \in Ring : entries'[i].wakers = entries[i].wakers
  BY <1>1, QuietSame
<1>3. clients'[c] = Idle
  BY <1>1 DEF LinkInv, LinkTypeOK
<1>4. Idle \in Client /\ Idle.pc # "waiting" /\ ClientOK(c)'
  BY <1>3, IdleFacts
<1>5. \A d \in Clients : d # c =>
        \A i \in Ring : d \in entries[i].wakers => d \in entries'[i].wakers
  BY <1>2
<1>6. asserted \ {c} \subseteq asserted'
  BY <1>1
<1> QED BY <1>1, <1>2, <1>4, <1>5, <1>6, ClientStep

\* get finds the entry incomplete: its wakers are one more.
LEMMA GetWaitsStep ==
  ASSUME LinkInv, NEW c \in Clients, NEW k, NEW how \in {"waiting", "removing"},
         GetWaits(c, k, how)
  PROVE  LinkInv'
<1>1. PICK i : i = cache[k]
  OBVIOUS
<1>2. /\ k \in DOMAIN cache /\ k \in Addrs /\ i \in Ring
      /\ entries[i] \in Entry /\ entries[i].addr = k /\ entries[i].s = "incomplete"
  BY <1>1, HasFacts DEF GetWaits
<1>3. PICK s : s = [pc |-> how, addr |-> k, ch |-> i]
  OBVIOUS
<1>4. s \in Client /\ s.pc = how /\ s.addr = k /\ s.ch = i
  BY <1>2, <1>3 DEF Client
<1>5. PICK e : e = [entries[i] EXCEPT !.wakers = @ \cup {c}]
  OBVIOUS
<1>6. /\ e \in Entry /\ e.addr = k /\ e.s = "incomplete"
      /\ e.linkAddr = entries[i].linkAddr /\ e.wakers = entries[i].wakers \cup {c}
  BY <1>2, <1>5 DEF Entry
<1>7. /\ entries' = [entries EXCEPT ![i] = e] /\ clients' = [clients EXCEPT ![c] = s]
      /\ asserted' = asserted \ {c} /\ UNCHANGED <<cache, next, told>> /\ UNCHANGED resolvers
  BY <1>1, <1>3, <1>5 DEF GetWaits
<1>8. /\ entries' \in [Ring -> Entry] /\ entries'[i] = e /\ clients'[c] = s
      /\ \A j \in Ring : j # i => entries'[j] = entries[j]
  BY <1>2, <1>6, <1>7 DEF LinkInv, LinkTypeOK
<1>9. QuietEntries
  BY <1>2, <1>6, <1>7, <1>8 DEF QuietEntries
<1>10. \A d \in Clients : d # c =>
         \A j \in Ring : d \in entries[j].wakers => d \in entries'[j].wakers
  BY <1>6, <1>8
<1>11. Awaited(i)' /\ i \in Ring'
  <2>1. k # NoAddr
    BY <1>2, RingFacts
  <2> QED BY <1>2, <1>6, <1>8, <2>1 DEF Awaited, NoAddr, Ring
<1>12. ClientOK(c)'
  <2>1. /\ clients'[c].ch = i /\ c \in entries'[i].wakers
        /\ entries'[i].s = "incomplete" /\ entries'[i].addr # NoAddr
    BY <1>4, <1>6, <1>8, <1>11 DEF Awaited, NoAddr
  <2> QED BY <1>11, <2>1 DEF ClientOK, Awaited, NoAddr
<1>13. asserted \ {c} \subseteq asserted' /\ (s.pc = "waiting" => s.addr \in Addrs)
  BY <1>2, <1>4, <1>7
<1> QED BY <1>4, <1>7, <1>9, <1>10, <1>12, <1>13, ClientStep

\* removeWaker touches nobody else's waker.
LEMMA WithoutFacts ==
  ASSUME LinkInv, NEW c \in Clients, NEW k, entries' = WakersWithout(c, k),
         UNCHANGED <<cache, next, told>>
  PROVE  /\ QuietEntries
         /\ \A d \in Clients : d # c =>
              \A i \in Ring : d \in entries[i].wakers => d \in entries'[i].wakers
<1>1. /\ entries \in [Ring -> Entry]
      /\ \A x \in DOMAIN cache : cache[x] \in Ring
  BY DEF LinkInv, LinkTypeOK, CacheOK
<1>2. CASE ~Cached(k)
  <2>1. entries' = entries
    BY <1>2 DEF WakersWithout
  <2> QED BY <2>1, QuietSame
<1>3. CASE Cached(k)
  <2>1. PICK i : i = cache[k]
    OBVIOUS
  <2>2. i \in Ring /\ entries[i] \in Entry
    BY <1>1, <1>3, <2>1 DEF Cached
  <2>3. PICK e : e = [entries[i] EXCEPT !.wakers = @ \ {c}]
    OBVIOUS
  <2>4. /\ e \in Entry /\ e.addr = entries[i].addr /\ e.s = entries[i].s
        /\ e.linkAddr = entries[i].linkAddr /\ e.wakers = entries[i].wakers \ {c}
    BY <2>2, <2>3 DEF Entry
  <2>5. entries' = [entries EXCEPT ![i] = e]
    BY <1>3, <2>1, <2>3 DEF WakersWithout
  <2>6. /\ entries' \in [Ring -> Entry] /\ entries'[i] = e
        /\ \A j \in Ring : j # i => entries'[j] = entries[j]
    BY <1>1, <2>2, <2>4, <2>5
  <2>7. QuietEntries
    BY <2>4, <2>6 DEF QuietEntries
  <2>8. \A d \in Clients : d # c =>
          \A j \in Ring : d \in entries[j].wakers => d \in entries'[j].wakers
    BY <2>4, <2>6
  <2> QED BY <2>7, <2>8
<1> QED BY <1>2, <1>3

\* The endpoint is closed while its handshake waits.
LEMMA HandshakeAbortsStep ==
  ASSUME LinkInv, NEW c \in Clients, HandshakeAborts(c)
  PROVE  LinkInv'
<1>1. PICK k : k = clients[c].addr
  OBVIOUS
<1>2. /\ entries' = WakersWithout(c, k) /\ UNCHANGED <<cache, next, told>>
      /\ clients' = [clients EXCEPT ![c] = Idle] /\ asserted' = asserted \ {c}
      /\ UNCHANGED resolvers
  BY <1>1 DEF HandshakeAborts
<1>3. /\ QuietEntries
      /\ \A d \in Clients : d # c =>
           \A i \in Ring : d \in entries[i].wakers => d \in entries'[i].wakers
  BY <1>2, WithoutFacts
<1>4. clients'[c] = Idle
  BY <1>2 DEF LinkInv, LinkTypeOK
<1>5. Idle \in Client /\ Idle.pc # "waiting" /\ ClientOK(c)'
  BY <1>4, IdleFacts
<1> QED BY <1>2, <1>3, <1>5, ClientStep

\* Write removes its waker; its channel is still that of a live entry.
LEMMA WriteRemovesWakerStep ==
  ASSUME LinkInv, NEW c \in Clients, WriteRemovesWaker(c)
  PROVE  LinkInv'
<1>1. PICK k : k = clients[c].addr
  OBVIOUS
<1>2. PICK s : s = [clients[c] EXCEPT !.pc = "channel"]
  OBVIOUS
<1>3. /\ entries' = WakersWithout(c, k) /\ UNCHANGED <<cache, next, told>>
      /\ clients' = [clients EXCEPT ![c] = s] /\ asserted' = asserted \ {c}
      /\ UNCHANGED resolvers /\ clients[c].pc = "removing"
  BY <1>1, <1>2 DEF WriteRemovesWaker
<1>4. /\ QuietEntries
      /\ \A d \in Clients : d # c =>
           \A i \in Ring : d \in entries[i].wakers => d \in entries'[i].wakers
  BY <1>3, WithoutFacts
<1>5. clients \in [Clients -> Client] /\ clients[c] \in Client
  BY DEF LinkInv, LinkTypeOK
<1>6. /\ s \in Client /\ s.pc = "channel" /\ s.ch = clients[c].ch
      /\ clients[c].ch \in Ring \cup {Closed}
  BY <1>2, <1>5 DEF Client
<1>7. clients'[c] = s
  BY <1>3, <1>5
<1>8. ClientOK(c)'
  <2>1. PICK i : i = clients[c].ch
    OBVIOUS
  <2>2. ASSUME i # Closed
        PROVE  entries'[i].s = "incomplete" /\ entries'[i].addr # NoAddr
    <3>1. i \in Ring
      BY <1>6, <2>1, <2>2
    <3>2. Awaited(i)
      BY <1>3, <2>1, <2>2 DEF LinkInv, ClientInv, ClientOK
    <3> QED BY <1>4, <3>1, <3>2 DEF QuietEntries, Awaited
  <2>3. clients'[c].pc = "channel" /\ clients'[c].ch = i
    BY <1>6, <1>7, <2>1
  <2> QED BY <2>2, <2>3 DEF ClientOK, Awaited, Closed, NoAddr
<1>9. (s.pc = "waiting" => s.addr \in Addrs) /\ asserted \ {c} \subseteq asserted'
  BY <1>3, <1>6
<1> QED BY <1>3, <1>4, <1>6, <1>8, <1>9, ClientStep

\* get starts a resolution: the entry that is used again is the client's, and
\* an idle goroutine takes it up.
LEMMA GetStartsStep ==
  ASSUME LinkInv, NEW c \in Clients, NEW k \in Addrs, NEW how \in {"waiting", "removing"},
         GetStarts(c, k, how)
  PROVE  LinkInv'
<1>1. PICK n : n = next
  OBVIOUS
<1>2. PICK left : left = Leaving(Expiring(k) \cup {next})
  OBVIOUS
<1>3. PICK s : s = [pc |-> how, addr |-> k, ch |-> n]
  OBVIOUS
<1>4. PICK w : w = [pc |-> "select", addr |-> k, ch |-> n, attempt |-> 0]
  OBVIOUS
<1>5. n \in Ring /\ k # NoAddr /\ NoAddr \in Values
  BY <1>1, RingFacts DEF LinkInv, LinkTypeOK, CacheOK, Values
<1>6. s \in Client /\ s.pc = how /\ s.addr = k /\ s.ch = n
  BY <1>3, <1>5 DEF Client
<1>7. w \in Resolver /\ w.pc = "select" /\ w.addr = k /\ w.ch = n
  BY <1>4, <1>5 DEF Resolver
<1>8. /\ ~Has(k, "incomplete") /\ Put(k, NoAddr, "incomplete", {c})
      /\ clients' = [Shut(clients, left) EXCEPT ![c] = s]
      /\ asserted' = Notified(left) \ {c}
  BY <1>1, <1>2, <1>3 DEF GetStarts, Has
<1>9. PICK r \in Resolvers : /\ resolvers[r].pc = "idle"
                             /\ resolvers' = [Shut(resolvers, left) EXCEPT ![r] = w]
  BY <1>1, <1>2, <1>4 DEF GetStarts
<1>10. AddedFor(k, "incomplete", left) /\ entries'[n].wakers = {c}
  <2>1. {c} \in SUBSET Clients
    OBVIOUS
  <2> QED BY <1>1, <1>2, <1>5, <1>8, <2>1, PutFacts
<1>11. left \in SUBSET Ring /\ (Awaited(next) => next \in left)
  BY <1>2, PutLeaves
<1>12. /\ resolvers \in [Resolvers -> Resolver] /\ clients \in [Clients -> Client]
  BY DEF LinkInv, LinkTypeOK
<1>13. /\ resolvers' \in [Resolvers -> Resolver] /\ resolvers'[r] = w
       /\ \A q \in Resolvers : q # r =>
            /\ resolvers'[q].pc = resolvers[q].pc /\ resolvers'[q].addr = resolvers[q].addr
            /\ resolvers'[q].ch = IF resolvers[q].ch \in left THEN Closed ELSE resolvers[q].ch
  <2>1. PICK F : F = Shut(resolvers, left)
    OBVIOUS
  <2>2. /\ F \in [Resolvers -> Resolver]
        /\ \A q \in Resolvers :
             /\ F[q].pc = resolvers[q].pc /\ F[q].addr = resolvers[q].addr
             /\ F[q].ch = IF resolvers[q].ch \in left THEN Closed ELSE resolvers[q].ch
    BY <1>12, <2>1, ShutResolvers
  <2>3. /\ resolvers' \in [Resolvers -> Resolver] /\ resolvers'[r] = w
        /\ \A q \in Resolvers : q # r => resolvers'[q] = F[q]
    BY <1>7, <1>9, <2>1, <2>2
  <2> QED BY <2>2, <2>3
<1>14. /\ clients' \in [Clients -> Client] /\ clients'[c] = s
       /\ \A d \in Clients : d # c =>
            /\ clients'[d].pc = clients[d].pc /\ clients'[d].addr = clients[d].addr
            /\ clients'[d].ch = IF clients[d].ch \in left THEN Closed ELSE clients[d].ch
  <2>1. PICK F : F = Shut(clients, left)
    OBVIOUS
  <2>2. /\ F \in [Clients -> Client]
        /\ \A d \in Clients :
             /\ F[d].pc = clients[d].pc /\ F[d].addr = clients[d].addr
             /\ F[d].ch = IF clients[d].ch \in left THEN Closed ELSE clients[d].ch
    BY <1>12, <2>1, ShutClients
  <2>3. /\ clients' \in [Clients -> Client] /\ clients'[c] = s
        /\ \A d \in Clients : d # c => clients'[d] = F[d]
    BY <1>6, <1>8, <2>1, <2>2
  <2> QED BY <2>2, <2>3
<1>15. /\ entries'[n].addr = k /\ entries'[n].s = "incomplete"
       /\ entries' \in [Ring -> Entry] /\ CacheOK' /\ DOMAIN told' = Addrs /\ CacheIsCurrent'
  BY <1>1, <1>10, Zenon DEF AddedFor
<1>16. ClientOK(c)'
  <2>1. /\ clients'[c].ch = n /\ c \in entries'[n].wakers /\ n \in Ring'
        /\ entries'[n].s = "incomplete" /\ entries'[n].addr # NoAddr
    BY <1>5, <1>6, <1>10, <1>14, <1>15 DEF Ring
  <2> QED BY <2>1 DEF ClientOK, Awaited, NoAddr
<1>17. ClientInv'
  <2> SUFFICES ASSUME NEW d \in Clients, d # c
               PROVE  ClientOK(d)'
    BY <1>16 DEF ClientInv
  <2>1. /\ d \in asserted => d \in asserted'
        /\ \A j \in left : d \in entries[j].wakers => d \in asserted'
    BY <1>8, NotifiedFacts
  <2> QED BY <1>10, <1>14, <2>1, ClientOfAdded
<1>18. LiveInv' /\ ResolverInv'
  <2>1. /\ resolvers'[r].pc # "idle" /\ resolvers'[r].addr = k /\ resolvers'[r].ch = next
    BY <1>1, <1>7, <1>13
  <2>2. \A q \in Resolvers : q # r =>
          /\ resolvers'[q].pc = resolvers[q].pc /\ resolvers'[q].addr = resolvers[q].addr
          /\ resolvers'[q].ch = IF resolvers[q].ch \in left THEN Closed ELSE resolvers[q].ch
    BY <1>13, Zenon
  <2> QED BY <1>9, <1>10, <1>11, <2>1, <2>2, ResolversOfAdded
<1>19. LinkTypeOK'
  <2>1. \A q \in Resolvers : resolvers'[q].pc # "idle" => resolvers'[q].addr \in Addrs
    BY <1>7, <1>13 DEF LinkInv, LinkTypeOK
  <2>2. \A d \in Clients : clients'[d].pc = "waiting" => clients'[d].addr \in Addrs
    BY <1>6, <1>14 DEF LinkInv, LinkTypeOK
  <2> QED BY <1>13, <1>14, <1>15, <2>1, <2>2 DEF LinkTypeOK, Entry, Resolver, Client, Ring,
            Closed, NoAddr, States, Values
<1> QED BY <1>15, <1>17, <1>18, <1>19 DEF LinkInv

\* get, in all its cases.
LEMMA ResolveStep ==
  ASSUME LinkInv, NEW c \in Clients, NEW k \in Addrs, NEW how \in {"waiting", "removing"},
         Resolve(c, k, how)
  PROVE  LinkInv'
BY GetKnownStep, GetWaitsStep, GetStartsStep DEF Resolve

-----------------------------------------------------------------------------
(* The resolvers. *)

\* A goroutine moves on without touching the cache; if it ends, its channel is
\* closed.
LEMMA ResolverMoves ==
  ASSUME LinkInv, NEW r \in Resolvers, NEW w \in Resolver,
         resolvers[r].pc # "idle", resolvers' = [resolvers EXCEPT ![r] = w],
         w.addr = resolvers[r].addr, w.ch = resolvers[r].ch,
         w.pc = "idle" => w.ch = Closed,
         UNCHANGED <<entries, cache, next, told>>, UNCHANGED <<clients, asserted>>
  PROVE  LinkInv'
<1>1. /\ clients \in [Clients -> Client] /\ resolvers \in [Resolvers -> Resolver]
      /\ \A d \in Clients : clients[d].pc = "waiting" => clients[d].addr \in Addrs
  BY DEF LinkInv, LinkTypeOK
<1>2. QuietEntries /\ \A i \in Ring : entries'[i].wakers = entries[i].wakers
  BY QuietSame
<1>3. /\ resolvers' \in [Resolvers -> Resolver] /\ resolvers'[r] = w
      /\ \A q \in Resolvers : q # r => resolvers'[q] = resolvers[q]
  BY <1>1
<1>4. \A q \in Resolvers :
        /\ resolvers'[q].addr = resolvers[q].addr /\ resolvers'[q].ch = resolvers[q].ch
        /\ resolvers'[q].pc # "idle" => resolvers[q].pc # "idle"
        /\ resolvers[q].pc # "idle" /\ resolvers'[q].ch # Closed => resolvers'[q].pc # "idle"
  BY <1>3
<1>5. \A d \in Clients : ClientOK(d)'
  <2> SUFFICES ASSUME NEW d \in Clients
               PROVE  ClientOK(d)'
    OBVIOUS
  <2>1. /\ clients'[d] = clients[d] /\ (d \in asserted => d \in asserted')
        /\ \A i \in Ring : d \in entries[i].wakers => d \in entries'[i].wakers
    BY <1>2
  <2> QED BY <1>2, <2>1, QuietClient
<1>6. /\ clients' \in [Clients -> Client]
      /\ \A d \in Clients : clients'[d].pc = "waiting" => clients'[d].addr \in Addrs
  BY <1>1 DEF Client, Ring, Closed, NoAddr
<1> QED BY <1>2, <1>3, <1>4, <1>5, <1>6, QuietStep

\* The timer fires, the channel is closed, or the request is sent again.
LEMMA ResolverWaitsStep ==
  ASSUME LinkInv, NEW r \in Resolvers,
         ResolverTimeout(r) \/ ResolverDone(r) \/ CheckAgain(r)
  PROVE  LinkInv'
<1>1. resolvers[r] \in Resolver
  BY DEF LinkInv, LinkTypeOK
<1>2. CASE ResolverTimeout(r)
  <2>1. PICK w : w = [resolvers[r] EXCEPT !.pc = "check"]
    OBVIOUS
  <2>2. /\ resolvers' = [resolvers EXCEPT ![r] = w] /\ resolvers[r].pc # "idle"
        /\ UNCHANGED <<entries, cache, next, told>> /\ UNCHANGED <<clients, asserted>>
    BY <1>2, <2>1 DEF ResolverTimeout
  <2>3. /\ w \in Resolver /\ w.addr = resolvers[r].addr /\ w.ch = resolvers[r].ch
        /\ w.pc # "idle"
    BY <1>1, <2>1 DEF Resolver
  <2> QED BY <2>2, <2>3, ResolverMoves
<1>3. CASE ResolverDone(r)
  <2>1. PICK w : w = [resolvers[r] EXCEPT !.pc = "idle"]
    OBVIOUS
  <2>2. /\ resolvers' = [resolvers EXCEPT ![r] = w] /\ resolvers[r].pc # "idle"
        /\ UNCHANGED <<entries, cache, next, told>> /\ UNCHANGED <<clients, asserted>>
        /\ resolvers[r].ch = Closed
    BY <1>3, <2>1 DEF ResolverDone
  <2>3. /\ w \in Resolver /\ w.addr = resolvers[r].addr /\ w.ch = resolvers[r].ch
    BY <1>1, <2>1 DEF Resolver
  <2> QED BY <2>2, <2>3, ResolverMoves
<1>4. CASE CheckAgain(r)
  <2>1. PICK a : a = resolvers[r].attempt + 1
    OBVIOUS
  <2>2. a \in Nat
    BY <1>1, <2>1 DEF Resolver
  <2>3. PICK w : w = [resolvers[r] EXCEPT !.pc = "select", !.attempt = a]
    OBVIOUS
  <2>4. /\ resolvers' = [resolvers EXCEPT ![r] = w] /\ resolvers[r].pc # "idle"
        /\ UNCHANGED <<entries, cache, next, told>> /\ UNCHANGED <<clients, asserted>>
    BY <1>4, <2>1, <2>3 DEF CheckAgain
  <2>5. /\ w \in Resolver /\ w.addr = resolvers[r].addr /\ w.ch = resolvers[r].ch
        /\ w.pc # "idle"
    BY <1>1, <2>2, <2>3 DEF Resolver
  <2> QED BY <2>4, <2>5, ResolverMoves
<1> QED BY <1>2, <1>3, <1>4

\* A goroutine ends while entries leave, its own among them if its channel is
\* open.
LEMMA ResolverEnds ==
  ASSUME LinkInv, NEW r \in Resolvers, NEW left \in SUBSET Ring,
         resolvers[r].ch # Closed => resolvers[r].ch \in left,
         entries' \in [Ring -> Entry], UNCHANGED <<cache, next, told>>,
         \A i \in Ring : entries'[i].addr = entries[i].addr,
         \A i \in left : entries'[i].s # "incomplete",
         \A i \in Ring : i \notin left =>
           (entries'[i].s = "incomplete" <=> entries[i].s = "incomplete"),
         \A i \in Ring : entries[i].s = "incomplete" /\ i \notin left =>
           entries'[i] = entries[i],
         \A i \in Ring : entries'[i].s = "ready" => entries'[i] = entries[i],
         resolvers' = [Shut(resolvers, left) EXCEPT ![r].pc = "idle"],
         clients' = Shut(clients, left), asserted' = Notified(left)
  PROVE  LinkInv'
<1>1. /\ clients \in [Clients -> Client] /\ resolvers \in [Resolvers -> Resolver]
      /\ \A d \in Clients : clients[d].pc = "waiting" => clients[d].addr \in Addrs
      /\ DOMAIN told = Addrs
  BY DEF LinkInv, LinkTypeOK
<1>2. /\ resolvers' \in [Resolvers -> Resolver]
      /\ \A q \in Resolvers :
           /\ resolvers'[q].addr = resolvers[q].addr
           /\ resolvers'[q].ch = IF resolvers[q].ch \in left THEN Closed ELSE resolvers[q].ch
           /\ resolvers'[q].pc # "idle" => resolvers[q].pc # "idle"
           /\ q # r => resolvers'[q].pc = resolvers[q].pc
  <2>1. PICK F : F = Shut(resolvers, left)
    OBVIOUS
  <2>2. /\ F \in [Resolvers -> Resolver]
        /\ \A q \in Resolvers :
             /\ F[q].pc = resolvers[q].pc /\ F[q].addr = resolvers[q].addr
             /\ F[q].ch = IF resolvers[q].ch \in left THEN Closed ELSE resolvers[q].ch
    BY <1>1, <2>1, ShutResolvers
  <2>3. PICK w : w = [F[r] EXCEPT !.pc = "idle"]
    OBVIOUS
  <2>4. w \in Resolver /\ w.pc = "idle" /\ w.addr = F[r].addr /\ w.ch = F[r].ch
    BY <2>2, <2>3 DEF Resolver
  <2>5. resolvers' = [F EXCEPT ![r] = w]
    BY <2>1, <2>3
  <2>6. /\ resolvers' \in [Resolvers -> Resolver] /\ resolvers'[r] = w
        /\ \A q \in Resolvers : q # r => resolvers'[q] = F[q]
    BY <2>2, <2>4, <2>5
  <2>7. ASSUME NEW q \in Resolvers
        PROVE  /\ resolvers'[q].addr = resolvers[q].addr
               /\ resolvers'[q].ch = IF resolvers[q].ch \in left THEN Closed ELSE resolvers[q].ch
               /\ resolvers'[q].pc # "idle" => resolvers[q].pc # "idle"
               /\ q # r => resolvers'[q].pc = resolvers[q].pc
    <3>1. CASE q = r
      BY <2>2, <2>4, <2>6, <3>1
    <3>2. CASE q # r
      <4>1. resolvers'[q] = F[q]
        BY <2>6, <3>2
      <4> QED BY <2>2, <4>1
    <3> QED BY <3>1, <3>2
  <2> QED BY <2>6, <2>7
<1>3. \A q \in Resolvers :
        /\ resolvers'[q].addr = resolvers[q].addr
        /\ resolvers'[q].ch = IF resolvers[q].ch \in left THEN Closed ELSE resolvers[q].ch
        /\ resolvers'[q].pc # "idle" => resolvers[q].pc # "idle"
        /\ resolvers[q].pc # "idle" /\ resolvers'[q].ch # Closed => resolvers'[q].pc # "idle"
  BY <1>2
<1>4. /\ clients' \in [Clients -> Client]
      /\ \A d \in Clients :
           /\ clients'[d].pc = clients[d].pc /\ clients'[d].addr = clients[d].addr
           /\ clients'[d].ch = IF clients[d].ch \in left THEN Closed ELSE clients[d].ch
  <2>1. PICK F : F = Shut(clients, left)
    OBVIOUS
  <2>2. /\ F \in [Clients -> Client]
        /\ \A d \in Clients :
             /\ F[d].pc = clients[d].pc /\ F[d].addr = clients[d].addr
             /\ F[d].ch = IF clients[d].ch \in left THEN Closed ELSE clients[d].ch
    BY <1>1, <2>1, ShutClients
  <2> QED BY <2>1, <2>2
<1>5. ASSUME NEW d \in Clients
      PROVE  ClientOK(d)'
  <2>1. ClientOK(d) /\ clients[d] \in Client
    BY <1>1 DEF LinkInv, ClientInv
  <2>2. clients[d].ch \in Ring \cup {Closed}
    BY <2>1 DEF Client
  <2>3. /\ d \in asserted => d \in asserted'
        /\ \A j \in left : d \in entries[j].wakers => d \in asserted'
    BY NotifiedFacts
  <2>4. \A j \in Ring : j \notin left /\ Awaited(j) =>
          Awaited(j)' /\ (d \in entries[j].wakers => d \in entries'[j].wakers)
    BY DEF Awaited, NoAddr
  <2>5. \A j \in Ring : j \in left /\ d \in entries[j].wakers => d \in asserted'
    BY <2>3
  <2> QED BY <1>4, <2>1, <2>2, <2>3, <2>4, <2>5, OtherClient
<1>6. \A d \in Clients : clients'[d].pc = "waiting" => clients'[d].addr \in Addrs
  BY <1>1, <1>4
<1>7. \A x \in DOMAIN cache : entries'[cache[x]].s = "ready" =>
        entries'[cache[x]].linkAddr = told'[x]
  <2> SUFFICES ASSUME NEW x \in DOMAIN cache, entries'[cache[x]].s = "ready"
               PROVE  entries'[cache[x]].linkAddr = told'[x]
    OBVIOUS
  <2>1. cache[x] \in Ring
    BY DEF LinkInv, LinkTypeOK, CacheOK
  <2>2. entries'[cache[x]] = entries[cache[x]] /\ told' = told
    BY <2>1
  <2> QED BY <2>2 DEF LinkInv, CacheIsCurrent
<1>8. UNCHANGED <<cache, next>> /\ DOMAIN told' = Addrs /\ \A d \in Clients : ClientOK(d)'
  BY <1>1, <1>5
<1> QED BY <1>2, <1>3, <1>4, <1>6, <1>7, <1>8, SameCache

\* checkLinkRequest stops: the entry fails, or it is no longer being resolved.
LEMMA CheckStopsStep ==
  ASSUME LinkInv, NEW r \in Resolvers, CheckStops(r)
  PROVE  LinkInv'
<1>1. PICK k : k = resolvers[r].addr
  OBVIOUS
<1>2. /\ entries \in [Ring -> Entry] /\ resolvers[r] \in Resolver
  BY DEF LinkInv, LinkTypeOK
<1>3. ASSUME resolvers[r].ch # Closed
      PROVE  /\ resolvers[r].ch \in Ring /\ entries[resolvers[r].ch].s = "incomplete"
             /\ k \in DOMAIN cache /\ cache[k] = resolvers[r].ch
  <2>1. PICK i : i = resolvers[r].ch
    OBVIOUS
  <2>2. i \in Ring
    BY <1>2, <1>3, <2>1 DEF Resolver
  <2>3. Awaited(i) /\ entries[i].addr = k
    BY <1>1, <1>3, <2>1 DEF LinkInv, ResolverInv, CheckStops
  <2>4. k \in DOMAIN cache /\ cache[k] = i
    BY <2>2, <2>3, Zenon DEF LinkInv, LiveInv
  <2> QED BY <2>1, <2>2, <2>3, <2>4 DEF Awaited
<1>4. CASE Has(k, "incomplete")
  <2>1. PICK j : j = cache[k]
    OBVIOUS
  <2>2. j \in Ring /\ entries[j] \in Entry /\ entries[j].s = "incomplete"
    BY <1>4, <2>1, HasFacts
  <2>3. PICK f : f = Changed(entries[j], "failed")
    OBVIOUS
  <2>4. f \in Entry /\ f.s = "failed" /\ f.addr = entries[j].addr
    BY <2>2, <2>3, ChangedFacts
  <2>5. Leaving({j}) = {j}
    BY <2>2 DEF Leaving
  <2>6. /\ entries' = [entries EXCEPT ![j] = f]
        /\ resolvers' = [Shut(resolvers, {j}) EXCEPT ![r].pc = "idle"]
        /\ clients' = Shut(clients, {j}) /\ asserted' = Notified({j})
        /\ UNCHANGED <<cache, next, told>>
    BY <1>1, <1>4, <2>1, <2>3, <2>5 DEF CheckStops
  <2>7. /\ entries' \in [Ring -> Entry] /\ entries'[j] = f
        /\ \A i \in Ring : i # j => entries'[i] = entries[i]
    BY <1>2, <2>2, <2>4, <2>6
  <2>8. PICK left : left = {j}
    OBVIOUS
  <2>9. /\ left \in SUBSET Ring /\ (resolvers[r].ch # Closed => resolvers[r].ch \in left)
        /\ \A i \in Ring : entries'[i].addr = entries[i].addr
        /\ \A i \in left : entries'[i].s # "incomplete"
        /\ \A i \in Ring : i \notin left =>
             (entries'[i].s = "incomplete" <=> entries[i].s = "incomplete")
        /\ \A i \in Ring : entries[i].s = "incomplete" /\ i \notin left =>
             entries'[i] = entries[i]
        /\ \A i \in Ring : entries'[i].s = "ready" => entries'[i] = entries[i]
    BY <1>3, <2>1, <2>2, <2>4, <2>7, <2>8
  <2> QED BY <2>6, <2>7, <2>8, <2>9, ResolverEnds
<1>5. CASE ~Has(k, "incomplete")
  <2>1. PICK left : left = Leaving(Expiring(k))
    OBVIOUS
  <2>2. /\ entries' = LookedUp(k)
        /\ resolvers' = [Shut(resolvers, left) EXCEPT ![r].pc = "idle"]
        /\ clients' = Shut(clients, left) /\ asserted' = Notified(left)
        /\ UNCHANGED <<cache, next, told>>
    BY <1>1, <1>5, <2>1 DEF CheckStops
  <2>3. /\ entries' \in [Ring -> Entry] /\ Expiring(k) \subseteq Ring
        /\ \A i \in Ring : /\ entries'[i].addr = entries[i].addr
                           /\ i \notin Expiring(k) => entries'[i] = entries[i]
                           /\ i \in Expiring(k) => entries'[i].s = "expired"
    BY <2>2, LookedUpFacts
  <2>4. \A i : i \in left <=> i \in Expiring(k) /\ entries[i].s = "incomplete"
    BY <2>1 DEF Leaving
  <2>5. resolvers[r].ch # Closed => resolvers[r].ch \in left
    <3> SUFFICES ASSUME resolvers[r].ch # Closed
                 PROVE  resolvers[r].ch \in left
      OBVIOUS
    <3>1. PICK i : i = resolvers[r].ch
      OBVIOUS
    <3>2. i \in Ring /\ entries[i].s = "incomplete" /\ k \in DOMAIN cache /\ cache[k] = i
      BY <1>3, <3>1
    <3>3. entries[i].old
      <4> SUFFICES ASSUME ~entries[i].old
                   PROVE  FALSE
        OBVIOUS
      <4>1. Found(k) = entries[i]
        BY <3>2 DEF Found, Looked
      <4> QED BY <1>5, <3>2, <4>1 DEF Has, Cached
    <3>4. i \in Expiring(k)
      BY <3>2, <3>3 DEF Expiring
    <3> QED BY <2>4, <3>1, <3>2, <3>4
  <2>6. /\ left \in SUBSET Ring
        /\ \A i \in Ring : entries'[i].addr = entries[i].addr
        /\ \A i \in left : entries'[i].s # "incomplete"
        /\ \A i \in Ring : i \notin left =>
             (entries'[i].s = "incomplete" <=> entries[i].s = "incomplete")
        /\ \A i \in Ring : entries[i].s = "incomplete" /\ i \notin left =>
             entries'[i] = entries[i]
        /\ \A i \in Ring : entries'[i].s = "ready" => entries'[i] = entries[i]
    <3> HIDE DEF LinkInv
    <3> QED BY <2>3, <2>4
  <2> QED BY <2>2, <2>3, <2>5, <2>6, ResolverEnds
<1> QED BY <1>4, <1>5

-----------------------------------------------------------------------------
(* The invariant holds. *)

\* An entry gets older.
LEMMA AgingStep ==
  ASSUME LinkInv, NEW k \in Addrs, Aging(k)
  PROVE  LinkInv'
<1>1. PICK i : i = cache[k]
  OBVIOUS
<1>2. /\ entries \in [Ring -> Entry] /\ i \in Ring /\ entries[i] \in Entry
  BY <1>1 DEF LinkInv, LinkTypeOK, CacheOK, Aging, Cached
<1>3. PICK e : e = [entries[i] EXCEPT !.old = TRUE]
  OBVIOUS
<1>4. /\ e \in Entry /\ e.addr = entries[i].addr /\ e.s = entries[i].s
      /\ e.linkAddr = entries[i].linkAddr /\ e.wakers = entries[i].wakers
  BY <1>2, <1>3 DEF Entry
<1>5. /\ entries' = [entries EXCEPT ![i] = e] /\ UNCHANGED <<cache, next, told>>
      /\ UNCHANGED <<resolvers, clients, asserted>>
  BY <1>1, <1>3 DEF Aging
<1>6. /\ entries' \in [Ring -> Entry] /\ entries'[i] = e
      /\ \A j \in Ring : j # i => entries'[j] = entries[j]
  BY <1>2, <1>4, <1>5
<1>7. QuietEntries /\ \A j \in Ring : entries'[j].wakers = entries[j].wakers
  BY <1>4, <1>5, <1>6 DEF QuietEntries
<1>8. \A d \in Clients : ClientOK(d)'
  <2> SUFFICES ASSUME NEW d \in Clients
               PROVE  ClientOK(d)'
    OBVIOUS
  <2>1. /\ clients'[d] = clients[d] /\ (d \in asserted => d \in asserted')
        /\ \A j \in Ring : d \in entries[j].wakers => d \in entries'[j].wakers
    BY <1>5, <1>7
  <2> QED BY <1>7, <2>1, QuietClient
<1>9. /\ clients \in [Clients -> Client] /\ resolvers \in [Resolvers -> Resolver]
      /\ \A d \in Clients : clients[d].pc = "waiting" => clients[d].addr \in Addrs
  BY DEF LinkInv, LinkTypeOK
<1>10. /\ clients' \in [Clients -> Client]
       /\ \A d \in Clients : clients'[d].pc = "waiting" => clients'[d].addr \in Addrs
  BY <1>5, <1>9 DEF Client, Ring, Closed, NoAddr
<1>11. resolvers' \in [Resolvers -> Resolver] /\ resolvers' = resolvers
  BY <1>5, <1>9 DEF Resolver, Ring, Closed, NoAddr
<1>12. \A q \in Resolvers :
        /\ resolvers'[q].addr = resolvers[q].addr /\ resolvers'[q].ch = resolvers[q].ch
        /\ resolvers'[q].pc # "idle" => resolvers[q].pc # "idle"
        /\ resolvers[q].pc # "idle" /\ resolvers'[q].ch # Closed => resolvers'[q].pc # "idle"
  BY <1>11
<1> QED BY <1>7, <1>8, <1>10, <1>11, <1>12, QuietStep

\* In the beginning nothing is in the map, and nobody waits.
LEMMA LinkInvInit == LinkInit => LinkInv
<1> SUFFICES ASSUME LinkInit
             PROVE  LinkInv
  OBVIOUS
<1>1. 1 \in Ring
  <2>1. CacheSize \in Nat /\ CacheSize # 0
    BY LinkAssumption, Zenon
  <2> QED BY <2>1 DEF Ring
<1>2. LinkTypeOK
  <2>1. entries \in [Ring -> Entry]
    BY DEF LinkInit, Entry, Values, States
  <2>2. resolvers \in [Resolvers -> Resolver] /\ \A r \in Resolvers : resolvers[r].pc = "idle"
    BY DEF LinkInit, Resolver
  <2>3. clients \in [Clients -> Client] /\ \A c \in Clients : clients[c].pc = "idle"
    BY DEF LinkInit, Client, Idle
  <2>4. CacheOK /\ DOMAIN told = Addrs
    BY <1>1 DEF LinkInit, CacheOK
  <2> QED BY <2>1, <2>2, <2>3, <2>4 DEF LinkTypeOK
<1>3. LiveInv
  BY DEF LinkInit, LiveInv, Awaited
<1>4. ResolverInv
  BY DEF LinkInit, ResolverInv
<1>5. ClientInv
  BY DEF LinkInit, ClientInv, ClientOK, Idle
<1>6. CacheIsCurrent
  BY DEF LinkInit, CacheIsCurrent
<1> QED BY <1>2, <1>3, <1>4, <1>5, <1>6 DEF LinkInv

\* A step that changes nothing.
LEMMA LinkStutter == LinkInv /\ UNCHANGED linkVars => LinkInv'
<1> SUFFICES ASSUME LinkInv, UNCHANGED linkVars
             PROVE  LinkInv'
  OBVIOUS
<1>1. /\ entries' = entries /\ cache' = cache /\ next' = next /\ told' = told
      /\ resolvers' = resolvers /\ clients' = clients /\ asserted' = asserted
  BY DEF linkVars
<1>2. /\ clients \in [Clients -> Client] /\ resolvers \in [Resolvers -> Resolver]
      /\ \A d \in Clients : clients[d].pc = "waiting" => clients[d].addr \in Addrs
  BY DEF LinkInv, LinkTypeOK
<1>3. QuietEntries /\ \A j \in Ring : entries'[j].wakers = entries[j].wakers
  BY <1>1, QuietSame
<1>4. \A d \in Clients : ClientOK(d)'
  <2> SUFFICES ASSUME NEW d \in Clients
               PROVE  ClientOK(d)'
    OBVIOUS
  <2>1. /\ clients'[d] = clients[d] /\ (d \in asserted => d \in asserted')
        /\ \A j \in Ring : d \in entries[j].wakers => d \in entries'[j].wakers
    BY <1>1, <1>3
  <2> QED BY <1>3, <2>1, QuietClient
<1>5. /\ clients' \in [Clients -> Client]
      /\ \A d \in Clients : clients'[d].pc = "waiting" => clients'[d].addr \in Addrs
  BY <1>1, <1>2
<1>6. resolvers' \in [Resolvers -> Resolver]
  BY <1>1, <1>2
<1>7. \A q \in Resolvers :
        /\ resolvers'[q].addr = resolvers[q].addr /\ resolvers'[q].ch = resolvers[q].ch
        /\ resolvers'[q].pc # "idle" => resolvers[q].pc # "idle"
        /\ resolvers[q].pc # "idle" /\ resolvers'[q].ch # Closed => resolvers'[q].pc # "idle"
  BY <1>1
<1> QED BY <1>3, <1>4, <1>5, <1>6, <1>7, QuietStep

\* Every step of the cache, its clients and its resolvers keeps the invariant.
LEMMA LinkInvStep == LinkInv /\ [LinkNext]_linkVars => LinkInv'
<1> SUFFICES ASSUME LinkInv, [LinkNext]_linkVars
             PROVE  LinkInv'
  OBVIOUS
<1>1. ASSUME NEW x \in Answers, AnswerWaiting(x[1], x[2])
      PROVE  LinkInv'
  BY <1>1, AnswerWaitingStep
<1>2. ASSUME NEW x \in Answers, AnswerNew(x[1], x[2])
      PROVE  LinkInv'
  BY <1>2, AnswerNewStep
<1>3. ASSUME NEW c \in Clients, NEW k \in Addrs, HandshakeAsks(c, k)
      PROVE  LinkInv'
  BY <1>3, ResolveStep DEF HandshakeAsks
<1>4. ASSUME NEW c \in Clients, NEW k \in Addrs, WriteAsks(c, k)
      PROVE  LinkInv'
  BY <1>4, ResolveStep DEF WriteAsks
<1>5. ASSUME NEW c \in Clients, HandshakeWoken(c)
      PROVE  LinkInv'
  <2>1. PICK k : k = clients[c].addr
    OBVIOUS
  <2>2. k \in Addrs /\ Resolve(c, k, "waiting")
    BY <1>5, <2>1 DEF HandshakeWoken, LinkInv, LinkTypeOK
  <2> QED BY <2>2, ResolveStep
<1>6. ASSUME NEW c \in Clients, HandshakeAborts(c)
      PROVE  LinkInv'
  BY <1>6, HandshakeAbortsStep
<1>7. ASSUME NEW c \in Clients, WriteRemovesWaker(c)
      PROVE  LinkInv'
  BY <1>7, WriteRemovesWakerStep
<1>8. ASSUME NEW c \in Clients, WriteReady(c)
      PROVE  LinkInv'
  BY <1>8, WriteReadyStep
<1>9. ASSUME NEW r \in Resolvers, ResolverWork(r)
      PROVE  LinkInv'
  BY <1>9, ResolverWaitsStep, CheckStopsStep DEF ResolverWork
<1>10. ASSUME NEW k \in Addrs, Aging(k)
       PROVE  LinkInv'
  BY <1>10, AgingStep
<1>11. CASE UNCHANGED linkVars
  BY <1>11, LinkStutter
<1> QED BY <1>1, <1>2, <1>3, <1>4, <1>5, <1>6, <1>7, <1>8, <1>9, <1>10, <1>11 DEF LinkNext

\* What it says of the panics, the waiters and the answers.
LEMMA LinkInvIsSound == LinkInv => CacheIsSound
<1> SUFFICES ASSUME LinkInv
             PROVE  CacheIsSound
  OBVIOUS
<1>1. ASSUME NEW i \in Ring
      PROVE  /\ entries[i].s # "panic"
             /\ Awaited(i) => BeingResolved(i)
  <2>1. entries[i].s \in States
    BY DEF LinkInv, LinkTypeOK, Entry
  <2>2. entries[i].s # "panic"
    BY <2>1 DEF States
  <2>3. i # Closed
    BY RingFacts
  <2>4. Awaited(i) => BeingResolved(i)
    BY <2>3, Zenon DEF LinkInv, LiveInv, Awaited, BeingResolved
  <2> QED BY <2>2, <2>4
<1>2. LegalTransitions
  BY <1>1 DEF LegalTransitions
<1>3. WaitersAreServed
  <2> SUFFICES ASSUME NEW c \in Clients
               PROVE  /\ clients[c].pc = "waiting" =>
                           \/ c \in asserted
                           \/ \E i \in Ring : c \in entries[i].wakers /\ BeingResolved(i)
                      /\ clients[c].pc = "channel" /\ clients[c].ch # Closed
                           => BeingResolved(clients[c].ch)
    BY DEF WaitersAreServed
  <2>1. ClientOK(c)
    BY DEF LinkInv, ClientInv
  <2>2. ASSUME clients[c].pc = "waiting", c \notin asserted
        PROVE  \E i \in Ring : c \in entries[i].wakers /\ BeingResolved(i)
    <3>1. PICK i \in Ring : c \in entries[i].wakers /\ Awaited(i)
      BY <2>1, <2>2, Zenon DEF ClientOK
    <3> QED BY <1>1, <3>1
  <2>3. ASSUME clients[c].pc = "channel", clients[c].ch # Closed
        PROVE  BeingResolved(clients[c].ch)
    <3>1. PICK i : i = clients[c].ch
      OBVIOUS
    <3>2. i \in Ring
      BY <2>3, <3>1 DEF LinkInv, LinkTypeOK, Client
    <3>3. Awaited(i)
      BY <2>1, <2>3, <3>1 DEF ClientOK
    <3> QED BY <1>1, <3>1, <3>2, <3>3
  <2> QED BY <2>2, <2>3
<1> QED BY <1>2, <1>3 DEF CacheIsSound, LinkInv

\* Whatever asks, answers, gives up, ages and evicts, in whatever order they
\* get the cache's lock, nothing panics, nobody waits for an entry that no
\* goroutine resolves, and what the cache answers is what was said last.
THEOREM CacheStaysSound == LinkSpec => []CacheIsSound
<1>1. LinkInit => LinkInv
  BY LinkInvInit
<1>2. LinkInv /\ [LinkNext]_linkVars => LinkInv'
  BY LinkInvStep
<1>3. LinkInv => CacheIsSound
  BY LinkInvIsSound
<1> QED BY <1>1, <1>2, <1>3, PTL DEF LinkSpec
=============================================================================
