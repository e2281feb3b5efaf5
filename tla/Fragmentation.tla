----------------------------- MODULE Fragmentation -----------------------------
(***************************************************************************)
(* The reassembly of IPv4 fragments, network/fragmentation.  Process takes *)
(* the lock of the Fragmentation twice: to find the reassembler of the     *)
(* datagram and, after the reassembler has taken the fragment under a lock *)
(* of its own, to charge the memory it has used.  A NIC has one goroutine  *)
(* that dispatches packets; with forwarding, those of other NICs enter the *)
(* same network endpoint (nic.go:300), so that several run here at once.   *)
(*                                                                         *)
(* A datagram has Length units, numbered from 0.  The network may cut it   *)
(* anew on each way (Cuts), and may lose, repeat and reorder the pieces;   *)
(* the pieces under one id are of one datagram.                            *)
(***************************************************************************)
EXTENDS Integers, FiniteSets, Sequences, SequencesExt

CONSTANTS
  Ids,           \* datagrams
  Length,        \* units of a datagram
  Cuts,          \* the pieces <<first, last>> that the network makes
  HighLimit, LowLimit,
  Dispatchers,   \* goroutines in Process
  Pool           \* reassemblers, used again when nobody has them

\* NewFragmentation sees to the limits; a fragment has at least one unit; the
\* code allocates a reassembler whenever it needs one.
ASSUME FragAssumption ==
  /\ Length \in Nat /\ HighLimit \in Nat /\ LowLimit \in 0..HighLimit
  /\ \A c \in Cuts : /\ c[1] \in Nat /\ c[2] \in Nat
                     /\ c[1] <= c[2] /\ c[2] < Length
  /\ IsFiniteSet(Ids) /\ IsFiniteSet(Dispatchers) /\ IsFiniteSet(Pool)
  /\ Cardinality(Pool) >= Cardinality(Ids) + Cardinality(Dispatchers)
  /\ 0 \notin Pool

VARIABLES
  rsm,         \* of each reassembler: id, size, holes, heap, done, old
  reassemblers,\* the reassembler of a datagram, or NoRsm
  rList,       \* newest first
  fragSize,    \* Fragmentation.size
  disp,        \* of each dispatcher its pc, fragment, reassembler and results
  fragPanic    \* "none", "hole" or "empty": reassemble has failed

fragVars == <<rsm, reassemblers, rList, fragSize, disp, fragPanic>>

NoRsm == 0
MaxOffset == Length + 2   \* math.MaxUint16

Away == [pc |-> "idle", frag |-> <<>>, obj |-> NoRsm, consumed |-> 0, ready |-> FALSE,
         res |-> <<>>]

\* A reassembler that has been released: but for done, nobody looks at it.
Gone == [id |-> NoRsm, size |-> 0, holes |-> {}, heap |-> {}, done |-> TRUE, old |-> FALSE]

FragInit ==
  /\ rsm = [o \in Pool |-> Gone]
  /\ reassemblers = [i \in Ids |-> NoRsm] /\ rList = <<>>
  /\ fragSize = 0
  /\ disp = [p \in Dispatchers |-> Away]
  /\ fragPanic = "none"

\* Pieces of a datagram: more is the flag of the header.
Fragments == {[id |-> i, first |-> c[1], last |-> c[2], more |-> c[2] < Length - 1] :
                i \in Ids, c \in Cuts}
Size(f) == f.last - f.first + 1

\* newReassembler: everything is missing.
New(i) == [id |-> i, size |-> 0, holes |-> {<<0, MaxOffset>>}, heap |-> {},
           done |-> FALSE, old |-> FALSE]
Spare(o) == (\A i \in Ids : reassemblers[i] # o) /\ (\A p \in Dispatchers : disp[p].obj # o)

SumSizes(S) == SumFunctionOnSet([o \in Pool |-> rsm[o].size], S)
Live == {reassemblers[i] : i \in Ids} \ {NoRsm}

-----------------------------------------------------------------------------
(* A reassembler takes a fragment. *)

\* Mistake: a fragment that ends inside a hole leaves nothing behind it.
HolesForgotten(holes, f) ==
  LET hit == {h \in holes : f.first <= h[2] /\ f.last >= h[1]}
  IN  (holes \ hit) \cup {<<h[1], f.first - 1>> : h \in {h \in hit : f.first > h[1]}}

\* updateHoles: what is missing after f.
HolesAfter(holes, f) ==
  LET hit == {h \in holes : f.first <= h[2] /\ f.last >= h[1]}
  IN  (holes \ hit)
        \cup {<<h[1], f.first - 1>> : h \in {h \in hit : f.first > h[1]}}
        \cup {<<f.last + 1, h[2]>> : h \in {h \in hit : f.last < h[2] /\ f.more}}

Fills(holes, f) == \E h \in holes : f.first <= h[2] /\ f.last >= h[1]

\* The heap, least offset first: the last to be popped of some fragments, any
\* one of those at the same offset.
Before(f, g) == f.first < g.first
LastOf(S) == CHOOSE f \in S : \A g \in S : ~Before(f, g)

Hole == <<-1>>

\* What f adds to the units in acc that precede it: not the front that is
\* there already.
Joined(f, acc) ==
  IF acc = Hole \/ f.first > Len(acc) THEN Hole
  ELSE acc \o [k \in 1..(f.last + 1 - Len(acc)) |-> Len(acc) + k - 1]

\* reassemble: one fragment after the other.
Reassembled(heap) == MapThenFoldSet(Joined, <<>>, LAMBDA f : f, LastOf, heap)

-----------------------------------------------------------------------------
(* Process. *)

\* release, by who has the lock.  Those of S that have been released before
\* are done.
Released(S) == {o \in S : ~rsm[o].done}

\* The memory in use without those of S, which are released now.
Less(size, S) == LET rest == size - SumSizes(S) IN IF rest < 0 THEN 0 ELSE rest

\* The list without the one reassembler in S, if there is one.
Without(list, S) ==
  IF \E k \in DOMAIN list : list[k] \in S
  THEN RemoveAt(list, CHOOSE k \in DOMAIN list : list[k] \in S) ELSE list

Outdated(i) == IF reassemblers[i] # NoRsm /\ rsm[reassemblers[i]].old
               THEN {reassemblers[i]} ELSE {}

\* The datagram of f has a reassembler that is not too old.
Joins(p, f) ==
  /\ disp[p].pc = "idle"
  /\ reassemblers[f.id] # NoRsm /\ Outdated(f.id) = {}
  /\ disp' = [disp EXCEPT ![p] = [Away EXCEPT !.pc = "take", !.frag = f,
                                              !.obj = reassemblers[f.id]]]
  /\ UNCHANGED <<rsm, reassemblers, rList, fragSize, fragPanic>>

\* Mistake: one that is too old is only replaced.
BeginsUnreleased(p, f) ==
  /\ disp[p].pc = "idle"
  /\ reassemblers[f.id] = NoRsm \/ Outdated(f.id) # {}
  /\ LET o == CHOOSE o \in Pool : Spare(o) IN
       /\ rsm' = [rsm EXCEPT ![o] = New(f.id)]
       /\ rList' = <<o>> \o rList /\ fragSize' = fragSize
       /\ reassemblers' = [reassemblers EXCEPT ![f.id] = o]
       /\ disp' = [disp EXCEPT ![p] = [Away EXCEPT !.pc = "take", !.frag = f, !.obj = o]]
  /\ UNCHANGED fragPanic

\* It has none, or one that is released because it is too old.
Begins(p, f) ==
  /\ disp[p].pc = "idle"
  /\ reassemblers[f.id] = NoRsm \/ Outdated(f.id) # {}
  /\ LET o == CHOOSE o \in Pool : Spare(o)
         now == Released(Outdated(f.id)) IN
       /\ rsm' = [x \in Pool |-> IF x = o THEN New(f.id)
                                 ELSE IF x \in now THEN Gone
                                 ELSE rsm[x]]
       /\ rList' = <<o>> \o Without(rList, now) /\ fragSize' = Less(fragSize, now)
       /\ reassemblers' = [reassemblers EXCEPT ![f.id] = o]
       /\ disp' = [disp EXCEPT ![p] = [Away EXCEPT !.pc = "take", !.frag = f, !.obj = o]]
  /\ UNCHANGED fragPanic

\* reassembler.process of one that has been released meanwhile.
TakesNothing(p) ==
  /\ disp[p].pc = "take" /\ rsm[disp[p].obj].done
  /\ disp' = [disp EXCEPT ![p].pc = "charge", ![p].frag = <<>>]
  /\ UNCHANGED <<rsm, reassemblers, rList, fragSize, fragPanic>>

\* reassembler.process.  When nothing is missing the heap is emptied for the
\* datagram; the next one to find nothing missing finds the heap empty.
Takes(p) ==
  LET o     == disp[p].obj
      f     == disp[p].frag
      used  == Fills(rsm[o].holes, f)
      holes == HolesAfter(rsm[o].holes, f)
      heap  == IF used THEN rsm[o].heap \cup {f} ELSE rsm[o].heap
      ready == holes = {}
      res   == IF ready THEN Reassembled(heap) ELSE <<>>
      cost  == IF used THEN Size(f) ELSE 0
  IN  /\ disp[p].pc = "take" /\ ~rsm[o].done
      /\ rsm' = [rsm EXCEPT ![o].holes = holes, ![o].size = @ + cost,
                            ![o].heap = IF ready THEN {} ELSE heap]
      /\ fragPanic' = IF ready /\ heap = {} THEN "empty"
                      ELSE IF res = Hole THEN "hole" ELSE "none"
      /\ disp' = [disp EXCEPT ![p] = [Away EXCEPT !.pc = "charge", !.obj = o,
                                !.consumed = cost, !.ready = ready, !.res = res]]
      /\ UNCHANGED <<reassemblers, rList, fragSize>>

\* The reassembler that is released because its datagram is complete.
Finished(p) == IF disp[p].ready THEN {disp[p].obj} ELSE {}

\* Mistake: the limit is looked at before the fragment is charged.
EvictedLate(size, list) ==
  IF fragSize <= HighLimit THEN 0
  ELSE CHOOSE n \in 0..Len(list) :
         LET Rest(k) == size - SumSizes({list[j] : j \in (Len(list) - k + 1)..Len(list)})
         IN  /\ Rest(n) <= LowLimit \/ n = Len(list)
             /\ \A k \in 0..(n - 1) : Rest(k) > LowLimit

\* How many of the oldest reassemblers have to go for the memory in use.
Evicted(size, list) ==
  IF size <= HighLimit THEN 0
  ELSE CHOOSE n \in 0..Len(list) :
         LET Rest(k) == size - SumSizes({list[j] : j \in (Len(list) - k + 1)..Len(list)})
         IN  /\ Rest(n) <= LowLimit \/ n = Len(list)
             /\ \A k \in 0..(n - 1) : Rest(k) > LowLimit

\* What the fragment has used is added to the memory in use.
Charged(p) == disp[p].consumed

\* Nothing in the list has been released (ReleasedOnce), so all that have to
\* go do.
Charges(p) ==
  /\ disp[p].pc = "charge"
  /\ LET now == Released(Finished(p))
         size == Less(fragSize + Charged(p), now)
         list == Without(rList, now)
         n == Evicted(size, list)
         oldest == {list[j] : j \in (Len(list) - n + 1)..Len(list)}
         gone == now \cup oldest
     IN  /\ rsm' = [x \in Pool |-> IF x \in gone THEN Gone
                                   ELSE rsm[x]]
         /\ reassemblers' = [i \in Ids |-> IF reassemblers[i] \in gone THEN NoRsm
                                           ELSE reassemblers[i]]
         /\ rList' = SubSeq(list, 1, Len(list) - n) /\ fragSize' = Less(size, oldest)
  /\ disp' = [disp EXCEPT ![p] = Away]
  /\ UNCHANGED fragPanic

\* Time: a reassembler is past its timeout.
GrowsOld(i) ==
  /\ reassemblers[i] # NoRsm /\ ~rsm[reassemblers[i]].old
  /\ rsm' = [rsm EXCEPT ![reassemblers[i]].old = TRUE]
  /\ UNCHANGED <<reassemblers, rList, fragSize, disp, fragPanic>>

FragNext ==
  /\ fragPanic = "none"
  /\ \/ \E p \in Dispatchers, f \in Fragments : Joins(p, f) \/ Begins(p, f)
     \/ \E p \in Dispatchers : TakesNothing(p) \/ Takes(p) \/ Charges(p)
     \/ \E i \in Ids : GrowsOld(i)

FragSpec == FragInit /\ [][FragNext]_fragVars

-----------------------------------------------------------------------------
\* A datagram that is delivered is the one that was sent, every unit once
\* and in its place, however it was cut and whatever came twice; the heap of
\* a datagram whose holes are closed has no hole (reassembler.go:81), and no
\* reassembler has a fragment of another datagram.
DatagramIntact ==
  /\ \A p \in Dispatchers : (disp[p].ready /\ fragPanic = "none") =>
                              disp[p].res = [k \in 1..Length |-> k - 1]
  /\ fragPanic # "hole"
  /\ \A o \in Pool : \A f \in rsm[o].heap : f.id = rsm[o].id

\* The memory in use is never counted too low: with what is yet to be charged
\* it covers what the reassemblers hold.  So it is bounded: between two calls
\* of Process, what is held is within the limit.
MemoryIsBounded ==
  /\ fragSize + SumFunction([p \in Dispatchers |-> disp[p].consumed]) >= SumSizes(Live)
  /\ (\A p \in Dispatchers : disp[p].pc = "idle") => SumSizes(Live) <= HighLimit

\* Each reassembler is released once, by completion, age or eviction: what
\* the map has, the list has, and it is not done.
ReleasedOnce ==
  /\ ToSet(rList) = Live /\ Len(rList) = Cardinality(Live)
  /\ \A o \in Live : ~rsm[o].done /\ reassemblers[rsm[o].id] = o
=============================================================================
