----------------------- MODULE TcpSenderAnyPeer_proofs -----------------------
(***************************************************************************)
(* The sender keeps its list, its timer and its recovery in order against  *)
(* any peer and any path: proofs for every size of segment, window,        *)
(* buffer and stream, every congestion parameter and every set of paths.   *)
(*                                                                         *)
(* None of the properties is inductive.  That no byte is forgotten needs   *)
(* to be known of the write list and the send queue apart (ListInv,        *)
(* QueueInv): the segments of each lie end to end (Tiles), and one that    *)
(* has been sent ends at or before sndNxt (InList), also when it was split *)
(* or has lost its front since.  The last segment alone may be the FIN,    *)
(* since every byte written lies before it (DataInv).                      *)
(***************************************************************************)
EXTENDS TcpSenderAnyPeer, TLAPS

\* The number after the payload, and after the FIN if it is one.
DataEnd(s) == s.off + s.len
ListEnd(s) == s.off + (IF s.len = 0 THEN 1 ELSE s.len)

\* A segment of the write list is sent as a whole or not at all; one that has
\* been sent under a number behind its bytes is one whose front was acked.
InList(s, nxt) ==
  /\ s.flags \in {"none", "data", "fin"}
  /\ s.flags = "fin" => s.len = 0 /\ s.seq = s.off /\ ListEnd(s) <= nxt
  /\ s.flags = "data" => s.len > 0 /\ s.seq <= s.off
  /\ s.flags = "none" => nxt <= s.off
  /\ ListEnd(s) <= nxt \/ (nxt <= s.off /\ (s.flags = "data" => s.seq = s.off))

\* The segments of q hold the bytes from one number to another.
Tiles(q, from, to) ==
  /\ q = <<>> => from = to
  /\ q # <<>> => q[1].off = from /\ ListEnd(q[Len(q)]) = to
  /\ \A i \in 1..Len(q) : from <= q[i].off /\ ListEnd(q[i]) <= to
  /\ \A i, j \in 1..Len(q) :
       i < j => /\ q[i].len > 0 /\ DataEnd(q[i]) <= q[j].off
                /\ j = i + 1 => q[j].off = DataEnd(q[i])

\* Where the write list begins: until the loop of an ack has popped all that it
\* covers, before the first unacknowledged number.
Base == sndUna - job.left

\* The write list begins there, and what precedes writeNext has been sent.
ListInv ==
  /\ Tiles(writeList, Base, sndNxtList)
  /\ \A i \in 1..Len(writeList) : InList(writeList[i], sndNxt)
  /\ \A i \in 1..(writeNext - 1) : ListEnd(writeList[i]) <= sndNxt

\* The send queue continues the write list up to what the application has
\* written, and the FIN ends it.
QueueInv ==
  /\ Tiles(sndQueue, sndNxtList, sndNxtList + sndBufInQueue)
  /\ sndNxtList + sndBufInQueue = written + 1 + (IF sndClosed THEN 1 ELSE 0)
  /\ sndQueue # <<>> => \A i \in 1..Len(writeList) : writeList[i].len > 0
  /\ \A i \in 1..Len(sndQueue) : sndQueue[i].flags = "none"
  /\ sndClosed \/ \A i \in 1..Len(sndQueue) : sndQueue[i].len > 0
  /\ sndClosed \/ \A i \in 1..Len(writeList) : writeList[i].len > 0

\* Only the number of the FIN is behind the bytes that were written.
DataInv ==
  /\ \A i \in 1..Len(writeList) : DataEnd(writeList[i]) <= written + 1
  /\ \A i \in 1..Len(sndQueue) : DataEnd(sndQueue[i]) <= written + 1

\* The numbers are ordered, and the buffer is charged for what is not acked.
NumberInv ==
  /\ sndUna <= sndNxt /\ sndNxt <= sndNxtList
  /\ sndBufUsed = written + 1 - sndUna + job.acked
  /\ sndPc # "pop" => job = NoJob

\* What is counted as outstanding has been sent, unless a path has narrowed.
CountInv ==
  /\ sndPc = "pop" => outstanding <= job.orig
  /\ packetTooBigCount > 0 => tooBigs > 0
  /\ tooBigs = 0 => outstanding <= writeNext - 1

\* The types of the variables of the sender.
SndTypeOK ==
  /\ sndUna \in Int /\ sndNxt \in Int /\ sndNxtList \in Int /\ sndWnd \in Nat
  /\ sndBufInQueue \in Int /\ sndBufUsed \in Int /\ sndClosed \in BOOLEAN
  /\ written \in Nat /\ sndPc \in {"idle", "pop", "send", "dead"}
  /\ writeList \in Seq(Segment) /\ sndQueue \in Seq(Segment)
  /\ writeNext \in 1..(Len(writeList) + 1)
  /\ cc \in [cwnd : Nat \ {0}, ssthresh : Nat \ {0}, caCount : Nat]
  /\ fr \in [active : BOOLEAN, first : Int, last : Int, maxCwnd : Int]
  /\ job \in [acked : Nat, left : Nat, orig : Int, rtx : BOOLEAN]
  /\ outstanding \in Int
  /\ maxPayloadSize \in Nat \ {0} /\ sndMTU \in Nat \ {0}
  /\ packetTooBigCount \in Nat /\ tooBigs \in Nat

\* The inductive invariant.
SndInv == SndTypeOK /\ ListInv /\ QueueInv /\ DataInv /\ NumberInv /\ CountInv
           /\ TimerArmed /\ RecoveryEnds /\ LongIsSentAgain

-----------------------------------------------------------------------------
(* Lists of segments: joining, cutting, splitting one, changing one. *)

LEMMA ConcatSeq ==
  ASSUME NEW S, NEW p \in Seq(S), NEW q \in Seq(S)
  PROVE  /\ p \o q \in Seq(S) /\ Len(p \o q) = Len(p) + Len(q)
         /\ \A i \in 1..Len(p) : (p \o q)[i] = p[i]
         /\ \A i \in 1..Len(q) : (p \o q)[i + Len(p)] = q[i]
         /\ \A i \in (Len(p) + 1)..(Len(p) + Len(q)) : (p \o q)[i] = q[i - Len(p)]
  OBVIOUS

LEMMA TailSeq ==
  ASSUME NEW S, NEW q \in Seq(S), q # <<>>
  PROVE  /\ Tail(q) \in Seq(S) /\ Len(Tail(q)) = Len(q) - 1
         /\ \A i \in 1..(Len(q) - 1) : Tail(q)[i] = q[i + 1]
  OBVIOUS

\* A segment has numbers for its fields, and ends after it begins.
LEMMA SegTypes ==
  ASSUME NEW s \in Segment
  PROVE  /\ s.off \in Int /\ s.len \in Nat
         /\ DataEnd(s) \in Int /\ ListEnd(s) \in Int
         /\ s.len > 0 => ListEnd(s) = DataEnd(s)
         /\ s.off <= DataEnd(s) /\ s.off < ListEnd(s)
         /\ DataEnd(s) <= ListEnd(s)
BY DEF Segment, DataEnd, ListEnd

\* What SMT needs to know of a list of segments.
Typed(q) ==
  /\ Len(q) \in Nat
  /\ q = <<>> => Len(q) = 0
  /\ Len(q) = 0 => q = <<>>
  /\ \A i \in 1..Len(q) :
       /\ q[i].off \in Int /\ q[i].len \in Nat
       /\ DataEnd(q[i]) \in Int /\ ListEnd(q[i]) \in Int
       /\ q[i].len > 0 => ListEnd(q[i]) = DataEnd(q[i])
       /\ q[i].off <= DataEnd(q[i]) /\ q[i].off < ListEnd(q[i])
       /\ DataEnd(q[i]) <= ListEnd(q[i])

LEMMA ListTyped ==
  ASSUME NEW q \in Seq(Segment)
  PROVE  Typed(q)
<1>1. Len(q) \in Nat /\ (q = <<>> => Len(q) = 0) /\ (Len(q) = 0 => q = <<>>)
  OBVIOUS
<1>2. ASSUME NEW i \in 1..Len(q)
      PROVE  /\ q[i].off \in Int /\ q[i].len \in Nat
             /\ DataEnd(q[i]) \in Int /\ ListEnd(q[i]) \in Int
             /\ q[i].len > 0 => ListEnd(q[i]) = DataEnd(q[i])
             /\ q[i].off <= DataEnd(q[i]) /\ q[i].off < ListEnd(q[i])
             /\ DataEnd(q[i]) <= ListEnd(q[i])
  <2>1. q[i] \in Segment
    OBVIOUS
  <2> QED BY <2>1, SegTypes
<1> QED BY <1>1, <1>2 DEF Typed

\* Without its first segment, a list holds the rest of its bytes.
LEMMA TilesTail ==
  ASSUME NEW p \in Seq(Segment), NEW a \in Int, NEW b \in Int,
         Tiles(p, a, b), p # <<>>
  PROVE  Tiles(Tail(p), ListEnd(p[1]), b)
<1> DEFINE r == Tail(p)
<1>1. /\ r \in Seq(Segment) /\ Len(r) = Len(p) - 1
      /\ \A i \in 1..Len(r) : r[i] = p[i + 1] /\ i + 1 \in 1..Len(p)
  BY TailSeq
<1> HIDE DEF r
<1>2. Typed(p) /\ Typed(r) /\ Len(p) >= 1
  <2>1. Typed(p) /\ Typed(r)
    BY <1>1, ListTyped
  <2> QED BY <2>1 DEF Typed
<1>3. r = <<>> => ListEnd(p[1]) = b
  <2>1. r = <<>> => Len(p) = 1
    BY <1>1, <1>2 DEF Typed
  <2> QED BY <2>1 DEF Tiles
<1>4. r # <<>> => r[1].off = ListEnd(p[1]) /\ ListEnd(r[Len(r)]) = b
  <2> SUFFICES ASSUME r # <<>> PROVE r[1].off = ListEnd(p[1]) /\ ListEnd(r[Len(r)]) = b
    OBVIOUS
  <2>1. Len(p) >= 2 /\ r[1] = p[2] /\ r[Len(r)] = p[Len(p)] BY <1>1, <1>2 DEF Typed
  <2> QED BY <1>2, <2>1 DEF Tiles, Typed
<1>5. ASSUME NEW i \in 1..Len(r)
      PROVE  ListEnd(p[1]) <= r[i].off /\ ListEnd(r[i]) <= b
  <2>1. r[i] = p[i + 1] /\ i + 1 \in 1..Len(p) /\ 1 \in 1..Len(p) /\ 1 < i + 1
    BY <1>1, <1>2, <1>5 DEF Typed
  <2> QED BY <1>2, <2>1 DEF Tiles, Typed
<1>6. ASSUME NEW i \in 1..Len(r), NEW j \in 1..Len(r), i < j
      PROVE  /\ r[i].len > 0 /\ DataEnd(r[i]) <= r[j].off
             /\ j = i + 1 => r[j].off = DataEnd(r[i])
  <2>1. /\ r[i] = p[i + 1] /\ i + 1 \in 1..Len(p)
        /\ r[j] = p[j + 1] /\ j + 1 \in 1..Len(p) /\ i + 1 < j + 1
    BY <1>1, <1>6
  <2> QED BY <2>1 DEF Tiles
<1> QED BY <1>3, <1>4, <1>5, <1>6 DEF r, Tiles

\* Two lists that meet make one, if only the last segment is a FIN.
LEMMA TilesConcat ==
  ASSUME NEW p \in Seq(Segment), NEW q \in Seq(Segment),
         NEW a \in Int, NEW b \in Int, NEW c \in Int,
         Tiles(p, a, b), Tiles(q, b, c), a <= b, b <= c,
         q # <<>> => \A i \in 1..Len(p) : p[i].len > 0
  PROVE  Tiles(p \o q, a, c)
<1> DEFINE r == p \o q  n == Len(p)
<1>1. /\ r \in Seq(Segment) /\ Len(r) = n + Len(q)
      /\ \A i \in 1..Len(r) : 
            \/ i \in 1..n /\ r[i] = p[i]
            \/ i > n /\ i - n \in 1..Len(q) /\ r[i] = q[i - n]
  BY ConcatSeq
<1>0. CASE q = <<>>
  BY <1>0, <1>1 DEF Tiles
<1>9. CASE q # <<>>
  <2> HIDE DEF r
  <2>0. /\ Typed(p) /\ Typed(q) /\ Typed(r) /\ n \in Nat /\ Len(q) >= 1
    <3>1. Typed(p) /\ Typed(q) /\ Typed(r)
      BY <1>1, ListTyped
    <3> QED BY <3>1, <1>9 DEF Typed
  <2>1. n > 0 => p[n].len > 0 /\ DataEnd(p[n]) = b
    BY <1>9, <2>0 DEF Tiles, Typed
  <2>2. \A i \in 1..n : p[i].len > 0 /\ DataEnd(p[i]) <= b
    BY <1>9, <2>0 DEF Tiles, Typed
  <2>3. r # <<>>
    BY <1>1, <2>0 DEF Typed
  <2>4. r[1].off = a
    <3>1. CASE n = 0
      <4>1. r[1] = q[1] /\ p = <<>>
        BY <1>1, <2>0, <3>1 DEF Typed
      <4> QED BY <4>1, <1>9 DEF Tiles
    <3>2. CASE n > 0
      <4>1. r[1] = p[1] /\ p # <<>>
        BY <1>1, <2>0, <3>2 DEF Typed
      <4> QED BY <4>1 DEF Tiles
    <3> QED BY <3>1, <3>2, <2>0
  <2>5. ListEnd(r[Len(r)]) = c
    <3>1. Len(r) \in 1..Len(r) /\ ~(Len(r) \in 1..n) /\ Len(r) - n = Len(q)
      BY <1>1, <2>0 DEF Typed
    <3>2. r[Len(r)] = q[Len(r) - n]
      BY <1>1, <3>1
    <3> QED BY <3>1, <3>2, <1>9 DEF Tiles
  <2>6. ASSUME NEW i \in 1..Len(r)
        PROVE  a <= r[i].off /\ ListEnd(r[i]) <= c
    <3>1. CASE i \in 1..n /\ r[i] = p[i]
      BY <3>1, <2>0 DEF Tiles, Typed
    <3>2. CASE i - n \in 1..Len(q) /\ r[i] = q[i - n]
      <4>1. b <= r[i].off /\ ListEnd(r[i]) <= c /\ r[i].off \in Int
        BY <3>2, <2>0 DEF Tiles, Typed
      <4> QED BY <4>1
    <3> QED BY <1>1, <3>1, <3>2
  <2>7. ASSUME NEW i \in 1..Len(r), NEW j \in 1..Len(r), i < j 
        PROVE  /\ r[i].len > 0 /\ DataEnd(r[i]) <= r[j].off
               /\ j = i + 1 => r[j].off = DataEnd(r[i])
    <3>1. CASE i \in 1..n /\ r[i] = p[i] /\ j \in 1..n /\ r[j] = p[j]
      BY <3>1, <2>7 DEF Tiles
    <3>2. CASE /\ i \in 1..n /\ r[i] = p[i]
               /\ j > n /\ j - n \in 1..Len(q) /\ r[j] = q[j - n]
      <4>1. r[i].len > 0 /\ DataEnd(r[i]) <= b /\ DataEnd(r[i]) \in Int
        BY <3>2, <2>2, <2>0 DEF Typed
      <4>2. b <= r[j].off /\ r[j].off \in Int
        BY <3>2, <2>0 DEF Tiles, Typed
      <4>3. j = i + 1 => i = n /\ j - n = 1
        BY <3>2, <2>0
      <4>4. j = i + 1 => r[j].off = b /\ DataEnd(r[i]) = b
        BY <4>3, <3>2, <2>0, <2>1, <1>9 DEF Tiles
      <4> QED BY <4>1, <4>2, <4>4
    <3>3. CASE /\ i > n /\ i - n \in 1..Len(q) /\ r[i] = q[i - n]
               /\ j > n /\ j - n \in 1..Len(q) /\ r[j] = q[j - n]
      <4>1. i - n < j - n /\ (j = i + 1 => j - n = (i - n) + 1)
        BY <2>0, <2>7
      <4> QED BY <3>3, <4>1 DEF Tiles
    <3>4. ~(i > n /\ j \in 1..n)
      BY <2>0, <2>7
    <3> QED BY <1>1, <3>1, <3>2, <3>3, <3>4
  <2> QED BY <2>3, <2>4, <2>5, <2>6, <2>7 DEF r, Tiles
<1> QED BY <1>0, <1>9

\* The front and the back of a list.
LEMMA SubSeqs ==
  ASSUME NEW S, NEW q \in Seq(S), NEW i \in 1..Len(q)
  PROVE  /\ SubSeq(q, 1, i - 1) \in Seq(S) /\ Len(SubSeq(q, 1, i - 1)) = i - 1
         /\ \A j \in 1..(i - 1) : SubSeq(q, 1, i - 1)[j] = q[j]
         /\ SubSeq(q, i + 1, Len(q)) \in Seq(S)
         /\ Len(SubSeq(q, i + 1, Len(q))) = Len(q) - i
         /\ \A j \in 1..(Len(q) - i) : SubSeq(q, i + 1, Len(q))[j] = q[j + i]
  OBVIOUS

\* The segments before one hold the bytes before it ...
LEMMA TilesPrefix ==
  ASSUME NEW p \in Seq(Segment), NEW a \in Int, NEW b \in Int,
         Tiles(p, a, b), NEW i \in 1..Len(p)
  PROVE  Tiles(SubSeq(p, 1, i - 1), a, p[i].off)
<1> DEFINE r == SubSeq(p, 1, i - 1)
<1>1. r \in Seq(Segment) /\ Len(r) = i - 1 /\ \A j \in 1..(i - 1) : r[j] = p[j]
  BY SubSeqs
<1> HIDE DEF r
<1>2. Typed(p) /\ Typed(r)
  BY <1>1, ListTyped
<1>3. r = <<>> => a = p[i].off
  <2>1. r = <<>> => i = 1 /\ p # <<>>
    BY <1>1, <1>2 DEF Typed
  <2> QED BY <2>1 DEF Tiles
<1>4. r # <<>> => r[1].off = a /\ ListEnd(r[Len(r)]) = p[i].off
  <2> SUFFICES ASSUME r # <<>> PROVE r[1].off = a /\ ListEnd(r[Len(r)]) = p[i].off
    OBVIOUS
  <2>1. i > 1 /\ r[1] = p[1] /\ r[Len(r)] = p[i - 1] /\ p # <<>>
        /\ i - 1 \in 1..Len(p) /\ i - 1 < i /\ i = (i - 1) + 1
    BY <1>1, <1>2 DEF Typed
  <2>2. p[i].off = DataEnd(p[i - 1]) /\ p[i - 1].len > 0
    BY <2>1 DEF Tiles
  <2>3. ListEnd(p[i - 1]) = DataEnd(p[i - 1])
    BY <2>1, <2>2, <1>2 DEF Typed
  <2> QED BY <2>1, <2>2, <2>3 DEF Tiles
<1>5. ASSUME NEW j \in 1..Len(r)
      PROVE  a <= r[j].off /\ ListEnd(r[j]) <= p[i].off
  <2>1. r[j] = p[j] /\ j \in 1..Len(p) /\ j < i
    BY <1>1
  <2>2. p[j].len > 0 /\ DataEnd(p[j]) <= p[i].off /\ a <= p[j].off
    BY <2>1 DEF Tiles
  <2>3. ListEnd(p[j]) = DataEnd(p[j])
    BY <2>1, <2>2, <1>2 DEF Typed
  <2> QED BY <2>1, <2>2, <2>3
<1>6. ASSUME NEW k \in 1..Len(r), NEW j \in 1..Len(r), k < j
      PROVE  /\ r[k].len > 0 /\ DataEnd(r[k]) <= r[j].off
             /\ j = k + 1 => r[j].off = DataEnd(r[k])
  <2>1. r[j] = p[j] /\ j \in 1..Len(p) /\ r[k] = p[k] /\ k \in 1..Len(p)
    BY <1>1
  <2> QED BY <2>1, <1>6 DEF Tiles
<1> QED BY <1>3, <1>4, <1>5, <1>6 DEF r, Tiles

\* ... and those after it the bytes after it.
LEMMA TilesSuffix ==
  ASSUME NEW p \in Seq(Segment), NEW a \in Int, NEW b \in Int,
         Tiles(p, a, b), NEW i \in 1..Len(p)
  PROVE  Tiles(SubSeq(p, i + 1, Len(p)), ListEnd(p[i]), b)
<1> DEFINE r == SubSeq(p, i + 1, Len(p))
<1>1. /\ r \in Seq(Segment) /\ Len(r) = Len(p) - i
      /\ \A j \in 1..Len(r) : r[j] = p[j + i] /\ j + i \in 1..Len(p) /\ i < j + i
  BY SubSeqs
<1> HIDE DEF r
<1>2. Typed(p) /\ Typed(r)
  BY <1>1, ListTyped
<1>3. r = <<>> => ListEnd(p[i]) = b
  <2>1. r = <<>> => i = Len(p) /\ p # <<>>
    BY <1>1, <1>2 DEF Typed
  <2> QED BY <2>1 DEF Tiles
<1>4. r # <<>> => r[1].off = ListEnd(p[i]) /\ ListEnd(r[Len(r)]) = b
  <2> SUFFICES ASSUME r # <<>> PROVE r[1].off = ListEnd(p[i]) /\ ListEnd(r[Len(r)]) = b
    OBVIOUS
  <2>0. Len(r) \in Nat /\ Len(r) >= 1 /\ Len(p) \in Nat
    BY <1>1, <1>2 DEF Typed
  <2>4. r[1] = p[i + 1] /\ i + 1 \in 1..Len(p) /\ i < i + 1 /\ p # <<>>
    <3>1. 1 \in 1..Len(r) /\ 1 + i = i + 1
      BY <2>0
    <3> QED BY <3>1, <2>0, <1>1
  <2>5. r[Len(r)] = p[Len(p)]
    <3>1. Len(r) \in 1..Len(r) /\ Len(r) + i = Len(p)
      BY <2>0, <1>1
    <3> QED BY <3>1, <1>1
  <2>1. /\ Len(r) >= 1 /\ r[1] = p[i + 1] /\ r[Len(r)] = p[Len(p)] /\ p # <<>>
        /\ i + 1 \in 1..Len(p) /\ i < i + 1
    BY <2>0, <2>4, <2>5
  <2>2. p[i + 1].off = DataEnd(p[i]) /\ p[i].len > 0
    BY <2>1 DEF Tiles
  <2>3. ListEnd(p[i]) = DataEnd(p[i])
    BY <2>1, <2>2, <1>2 DEF Typed
  <2> QED BY <2>1, <2>2, <2>3 DEF Tiles
<1>5. ASSUME NEW j \in 1..Len(r)
      PROVE  ListEnd(p[i]) <= r[j].off /\ ListEnd(r[j]) <= b
  <2>1. r[j] = p[j + i] /\ j + i \in 1..Len(p) /\ i < j + i
    BY <1>1
  <2>2. p[i].len > 0 /\ DataEnd(p[i]) <= p[j + i].off /\ ListEnd(p[j + i]) <= b
    BY <2>1 DEF Tiles
  <2>3. ListEnd(p[i]) = DataEnd(p[i])
    BY <2>1, <2>2, <1>2 DEF Typed
  <2> QED BY <2>1, <2>2, <2>3
<1>6. ASSUME NEW k \in 1..Len(r), NEW j \in 1..Len(r), k < j
      PROVE  /\ r[k].len > 0 /\ DataEnd(r[k]) <= r[j].off
             /\ j = k + 1 => r[j].off = DataEnd(r[k])
  <2>1. /\ r[j] = p[j + i] /\ j + i \in 1..Len(p)
        /\ r[k] = p[k + i] /\ k + i \in 1..Len(p)
        /\ k + i < j + i /\ (j = k + 1 => j + i = (k + i) + 1)
    BY <1>1, <1>6
  <2> QED BY <2>1 DEF Tiles
<1> QED BY <1>3, <1>4, <1>5, <1>6 DEF r, Tiles

\* One segment in the place of another of the same extent.
LEMMA TilesOne ==
  ASSUME NEW s \in Segment
  PROVE  Tiles(<<s>>, s.off, ListEnd(s))
<1>1. <<s>> # <<>> /\ Len(<<s>>) = 1 /\ <<s>>[1] = s
  OBVIOUS
<1>2. s.off \in Int /\ ListEnd(s) \in Int
  BY SegTypes
<1> QED BY <1>1, <1>2 DEF Tiles

\* The elements of a list stay where they are.
LEMMA TilesSame ==
  ASSUME NEW p \in Seq(Segment), NEW r \in Seq(Segment), NEW a, NEW b,
         Tiles(p, a, b), Len(r) = Len(p),
         \A i \in 1..Len(p) : r[i].off = p[i].off /\ r[i].len = p[i].len
  PROVE  Tiles(r, a, b)
<1>1. Len(p) \in Nat /\ (p = <<>> <=> r = <<>>) /\ (p # <<>> => Len(p) \in 1..Len(p) /\ 1 \in 1..Len(p))
  OBVIOUS
<1>2. \A i \in 1..Len(p) : DataEnd(r[i]) = DataEnd(p[i]) /\ ListEnd(r[i]) = ListEnd(p[i])
  BY DEF DataEnd, ListEnd
<1> QED BY <1>1, <1>2 DEF Tiles

\* A segment that is replaced by one of the same bytes.
LEMMA TilesReplace ==
  ASSUME NEW p \in Seq(Segment), NEW a, NEW b, Tiles(p, a, b),
         NEW k \in 1..Len(p), NEW s \in Segment,
         s.off = p[k].off, s.len = p[k].len
  PROVE  [p EXCEPT ![k] = s] \in Seq(Segment) /\ Tiles([p EXCEPT ![k] = s], a, b)
<1> DEFINE r == [p EXCEPT ![k] = s]
<1>1. r \in Seq(Segment) /\ Len(r) = Len(p)
  OBVIOUS
<1>2. \A i \in 1..Len(p) : r[i] = IF i = k THEN s ELSE p[i]
  OBVIOUS
<1>3. \A i \in 1..Len(p) : r[i].off = p[i].off /\ r[i].len = p[i].len
  BY <1>2
<1> HIDE DEF r
<1>4. Tiles(r, a, b)
  BY <1>1, <1>3, TilesSame
<1> QED BY <1>1, <1>4 DEF r

\* Trimming keeps a segment a segment.
LEMMA TrimType ==
  ASSUME NEW s \in Segment, NEW n \in Nat, n < s.len
  PROVE  LET t == TrimFront(s, n)
         IN  /\ t \in Segment /\ t.off = s.off + n /\ t.len = s.len - n
             /\ t.seq = s.seq /\ t.flags = s.flags /\ t.len > 0
             /\ DataEnd(t) = DataEnd(s) /\ ListEnd(t) = ListEnd(s)
<1> DEFINE t == TrimFront(s, n)
<1>1. s.off \in Int /\ s.len \in Nat /\ s.seq \in Int /\ s.flags \in Flags
      /\ s.off + n \in Int /\ s.len - n \in Nat /\ s.len - n > 0
  BY DEF Segment
<1>2. t = [s EXCEPT !.off = s.off + n, !.len = s.len - n]
  BY DEF TrimFront
<1>3. t \in Segment
  BY <1>1, <1>2 DEF Segment
<1>4. t.off = s.off + n /\ t.len = s.len - n /\ t.seq = s.seq /\ t.flags = s.flags
  BY <1>2 DEF Segment
<1> HIDE DEF t
<1>5. DataEnd(t) = DataEnd(s) /\ ListEnd(t) = ListEnd(s)
  BY <1>1, <1>4 DEF DataEnd, ListEnd
<1> QED BY <1>1, <1>3, <1>4, <1>5 DEF t

\* A segment acknowledged in part loses its front.
LEMMA TilesTrim ==
  ASSUME NEW p \in Seq(Segment), NEW a \in Int, NEW b \in Int,
         Tiles(p, a, b), p # <<>>, NEW n \in Int, 0 < n, n < p[1].len
  PROVE  /\ [p EXCEPT ![1] = TrimFront(@, n)] \in Seq(Segment)
         /\ Tiles([p EXCEPT ![1] = TrimFront(@, n)], a + n, b)
<1> DEFINE t == TrimFront(p[1], n)
           r == [p EXCEPT ![1] = t]
<1>0. Typed(p) /\ Len(p) \in Nat /\ Len(p) >= 1 /\ p[1] \in Segment
  <2>1. Typed(p)
    BY ListTyped
  <2>2. Len(p) \in Nat /\ Len(p) >= 1
    BY <2>1 DEF Typed
  <2> QED BY <2>1, <2>2
<1>1. /\ t \in Segment /\ t.off = p[1].off + n /\ t.len = p[1].len - n
      /\ t.len > 0 /\ DataEnd(t) = DataEnd(p[1]) /\ ListEnd(t) = ListEnd(p[1])
  <2>1. n \in Nat
    OBVIOUS
  <2> QED BY <1>0, <2>1, TrimType
<1> HIDE DEF t
<1>2. /\ r \in Seq(Segment) /\ Len(r) = Len(p) /\ r[1] = t
      /\ \A i \in 1..Len(p) : i > 1 => r[i] = p[i]
  BY <1>0, <1>1
<1> HIDE DEF r
<1>3. r # <<>> /\ r[1].off = a + n
  <2>1. r # <<>>
    BY <1>0, <1>2
  <2> QED BY <2>1, <1>1, <1>2 DEF Tiles
<1>4. \A i \in 1..Len(p) : r[i].len > 0 \/ r[i] = p[i]
  BY <1>0, <1>1, <1>2
<1>5. \A i \in 1..Len(p) : DataEnd(r[i]) = DataEnd(p[i]) /\ ListEnd(r[i]) = ListEnd(p[i])
  BY <1>0, <1>1, <1>2
<1>6. ListEnd(r[Len(r)]) = b
  BY <1>0, <1>2, <1>5 DEF Tiles
<1>7. ASSUME NEW i \in 1..Len(r)
      PROVE  a + n <= r[i].off /\ ListEnd(r[i]) <= b
  <2>1. ListEnd(r[i]) <= b
    BY <1>2, <1>5 DEF Tiles
  <2>2. CASE i = 1
    BY <2>1, <2>2, <1>3
  <2>3. CASE i > 1
    <3>1. r[i] = p[i] /\ DataEnd(p[1]) <= p[i].off /\ p[1].off = a
          /\ p[1].off \in Int /\ p[1].len \in Nat /\ p[i].off \in Int
      BY <2>3, <1>0, <1>2 DEF Tiles, Typed
    <3>2. a + n <= p[i].off
      BY <3>1 DEF DataEnd
    <3> QED BY <2>1, <3>1, <3>2
  <2> QED BY <2>2, <2>3, <1>0, <1>2
<1>8. ASSUME NEW i \in 1..Len(r), NEW j \in 1..Len(r), i < j
      PROVE  /\ r[i].len > 0 /\ DataEnd(r[i]) <= r[j].off
             /\ j = i + 1 => r[j].off = DataEnd(r[i])
  <2>1. r[j] = p[j] /\ DataEnd(r[i]) = DataEnd(p[i]) /\ p[i].len > 0
        /\ DataEnd(p[i]) <= p[j].off /\ (j = i + 1 => p[j].off = DataEnd(p[i]))
    BY <1>8, <1>2, <1>5, <1>0 DEF Tiles
  <2>2. r[i].len > 0
    BY <2>1, <1>4, <1>2
  <2> QED BY <2>1, <2>2
<1> QED BY <1>2, <1>3, <1>6, <1>7, <1>8 DEF r, t, Tiles

-----------------------------------------------------------------------------
(* Cutting a segment of the list in two. *)

Front(s, n) == [s EXCEPT !.len = n]
Rest(s, n)  == [TrimFront(s, n) EXCEPT !.seq = @ + n]
Pieces(s, n) == IF s.len > n THEN <<Front(s, n), Rest(s, n)>> ELSE <<s>>

\* The two pieces of a segment that is cut ...
LEMMA PieceTypes ==
  ASSUME NEW s \in Segment, NEW n \in Int, 0 < n, n < s.len
  PROVE  /\ Front(s, n) \in Segment /\ Rest(s, n) \in Segment
         /\ Front(s, n).off = s.off /\ Front(s, n).len = n
         /\ Front(s, n).seq = s.seq /\ Front(s, n).flags = s.flags
         /\ Rest(s, n).off = s.off + n /\ Rest(s, n).len = s.len - n
         /\ Rest(s, n).seq = s.seq + n /\ Rest(s, n).flags = s.flags
         /\ DataEnd(Front(s, n)) = s.off + n /\ ListEnd(Front(s, n)) = s.off + n
         /\ DataEnd(Rest(s, n)) = DataEnd(s) /\ ListEnd(Rest(s, n)) = ListEnd(s)
<1>1. s.off \in Int /\ s.len \in Nat /\ s.seq \in Int /\ s.flags \in Flags
      /\ n \in Nat /\ s.len - n \in Nat /\ s.seq + n \in Int
  BY DEF Segment
<1> DEFINE t == TrimFront(s, n)
<1>2. t \in Segment /\ t.off = s.off + n /\ t.len = s.len - n /\ t.seq = s.seq
      /\ t.flags = s.flags
  BY TrimType
<1> HIDE DEF t
<1>3. /\ Rest(s, n) = [t EXCEPT !.seq = t.seq + n]
      /\ Front(s, n) = [s EXCEPT !.len = n]
  BY DEF t, Front, Rest
<1>4. /\ Front(s, n) \in Segment /\ Rest(s, n) \in Segment
      /\ Front(s, n).off = s.off /\ Front(s, n).len = n
      /\ Front(s, n).seq = s.seq /\ Front(s, n).flags = s.flags
      /\ Rest(s, n).off = s.off + n /\ Rest(s, n).len = s.len - n
      /\ Rest(s, n).seq = s.seq + n /\ Rest(s, n).flags = s.flags
  BY <1>1, <1>2, <1>3 DEF Segment
<1> QED BY <1>1, <1>4 DEF DataEnd, ListEnd

\* ... hold its bytes.
LEMMA PiecesTile ==
  ASSUME NEW s \in Segment, NEW n \in Int, 0 < n, s.len > 0
  PROVE  /\ Pieces(s, n) \in Seq(Segment)
         /\ Tiles(Pieces(s, n), s.off, ListEnd(s))
         /\ \A i \in 1..Len(Pieces(s, n)) : Pieces(s, n)[i].len > 0
<1>1. CASE ~(s.len > n)
  <2>1. Pieces(s, n) = <<s>>
    BY <1>1 DEF Pieces
  <2> QED BY <2>1, TilesOne
<1>2. CASE s.len > n
  <2> DEFINE f == Front(s, n)  r == Rest(s, n)
  <2>1. Pieces(s, n) = <<f>> \o <<r>> /\ Pieces(s, n) = <<f, r>>
    <3>1. Pieces(s, n) = <<f, r>>
      BY <1>2 DEF Pieces
    <3> QED BY <3>1
  <2>2. /\ f \in Segment /\ r \in Segment /\ f.off = s.off /\ r.off = s.off + n
        /\ f.len = n /\ r.len = s.len - n
        /\ ListEnd(f) = s.off + n /\ ListEnd(r) = ListEnd(s)
    BY <1>2, PieceTypes
  <2>3. s.off \in Int /\ s.len \in Nat /\ ListEnd(s) \in Int /\ r.len > 0
        /\ s.off + n <= ListEnd(s) /\ s.off <= s.off + n /\ s.off + n \in Int
    BY <1>2, <2>2, SegTypes DEF DataEnd
  <2> HIDE DEF f, r
  <2>4. Tiles(<<f>>, s.off, s.off + n) /\ Tiles(<<r>>, s.off + n, ListEnd(s))
    <3>1. Tiles(<<f>>, f.off, ListEnd(f)) /\ Tiles(<<r>>, r.off, ListEnd(r))
      BY <2>2, TilesOne
    <3> QED BY <3>1, <2>2
  <2>5. Tiles(<<f>> \o <<r>>, s.off, ListEnd(s))
    <3>1. <<f>> \in Seq(Segment) /\ <<r>> \in Seq(Segment)
          /\ \A i \in 1..Len(<<f>>) : <<f>>[i].len > 0
      BY <2>2
    <3> QED BY <3>1, <2>3, <2>4, TilesConcat
  <2> QED BY <2>1, <2>2, <2>3, <2>5
<1> QED BY <1>1, <1>2

\* So the list with the pieces in its place holds the same bytes,
LEMMA SplitTiles ==
  ASSUME NEW q \in Seq(Segment), NEW a \in Int, NEW b \in Int, Tiles(q, a, b),
         NEW i \in 1..Len(q), NEW s \in Segment, NEW n \in Int, 0 < n,
         s.off = q[i].off, s.len = q[i].len, s.len > 0
  PROVE  SplitAt(q, i, s, n) \in Seq(Segment) /\ Tiles(SplitAt(q, i, s, n), a, b)
<1> DEFINE p == SubSeq(q, 1, i - 1)  m == Pieces(s, n)
           r == SubSeq(q, i + 1, Len(q))
<1>1. SplitAt(q, i, s, n) = (p \o m) \o r
  BY DEF SplitAt, Pieces, Front, Rest
<1>2. /\ p \in Seq(Segment) /\ r \in Seq(Segment) /\ Len(p) = i - 1
      /\ Len(r) = Len(q) - i
      /\ \A j \in 1..Len(p) : p[j] = q[j] /\ j \in 1..Len(q) /\ j < i
  BY SubSeqs
<1>3. Tiles(p, a, s.off) /\ Tiles(r, ListEnd(s), b)
  <2>1. ListEnd(s) = ListEnd(q[i])
    BY DEF ListEnd
  <2> QED BY <2>1, TilesPrefix, TilesSuffix
<1>4. m \in Seq(Segment) /\ Tiles(m, s.off, ListEnd(s)) /\ \A j \in 1..Len(m) : m[j].len > 0
  BY PiecesTile
<1> HIDE DEF p, m, r
<1>5. \A j \in 1..Len(p) : p[j].len > 0
  BY <1>2 DEF Tiles
<1>6. s.off \in Int /\ ListEnd(s) \in Int /\ s.off <= ListEnd(s)
      /\ a <= s.off /\ ListEnd(s) <= b
  <2>1. s.off \in Int /\ ListEnd(s) \in Int /\ s.off < ListEnd(s)
    BY SegTypes
  <2>2. a <= q[i].off /\ ListEnd(q[i]) <= b /\ ListEnd(s) = ListEnd(q[i])
    BY DEF Tiles, ListEnd
  <2> QED BY <2>1, <2>2
<1>7. p \o m \in Seq(Segment) /\ Tiles(p \o m, a, ListEnd(s))
  <2>1. Tiles(p \o m, a, ListEnd(s))
    BY <1>2, <1>3, <1>4, <1>5, <1>6, TilesConcat
  <2> QED BY <2>1, <1>2, <1>4, ConcatSeq
<1>8. \A j \in 1..Len(p \o m) : (p \o m)[j].len > 0
  <2>1. ASSUME NEW j \in 1..Len(p \o m) PROVE (p \o m)[j].len > 0
    <3>1. CASE j \in 1..Len(p)
      <4>1. \A k \in 1..Len(p) : (p \o m)[k] = p[k]
        BY <1>2, <1>4, ConcatSeq
      <4> QED BY <3>1, <4>1, <1>5
    <3>2. CASE j \in (Len(p) + 1)..(Len(p) + Len(m))
      <4>1. j - Len(p) \in 1..Len(m)
        BY <3>2, <1>2, <1>4
      <4>2. \A k \in (Len(p) + 1)..(Len(p) + Len(m)) : (p \o m)[k] = m[k - Len(p)]
        <5>1. p \in Seq(Segment) /\ m \in Seq(Segment)
          BY <1>2, <1>4
        <5> QED BY <5>1, ConcatSeq
      <4> QED BY <3>2, <4>1, <4>2, <1>4
    <3>3. Len(p \o m) = Len(p) + Len(m) /\ Len(p) \in Nat /\ Len(m) \in Nat
      <4>1. p \in Seq(Segment) /\ m \in Seq(Segment)
        BY <1>2, <1>4
      <4> QED BY <4>1, ConcatSeq
    <3> QED BY <3>1, <3>2, <3>3
  <2> QED BY <2>1
<1>9. Tiles((p \o m) \o r, a, b)
  <2> DEFINE pm == p \o m
  <2>1. pm \in Seq(Segment) /\ Tiles(pm, a, ListEnd(s)) /\ \A j \in 1..Len(pm) : pm[j].len > 0
    BY <1>7, <1>8
  <2>2. a <= ListEnd(s)
    BY <1>6
  <2> HIDE DEF pm
  <2>3. Tiles(pm \o r, a, b)
    BY <1>2, <1>3, <1>6, <2>1, <2>2, TilesConcat
  <2> QED BY <2>3 DEF pm
<1>10. (p \o m) \o r \in Seq(Segment)
  BY <1>2, <1>7, ConcatSeq
<1> QED BY <1>1, <1>9, <1>10

\* r is q with the segment s cut at n in the place of the i-th.
IsSplit(r, q, i, s, n) ==
  /\ r \in Seq(Segment) /\ Len(r) >= Len(q)
  /\ r[i] = IF s.len > n THEN Front(s, n) ELSE s
  /\ \A k \in 1..(i - 1) : r[k] = q[k]
  /\ \A k \in 1..Len(r) :
       \/ k < i
       \/ k = i
       \/ k = i + 1 /\ s.len > n /\ r[k] = Rest(s, n)
       \/ \E j \in 1..Len(q) : j > i /\ r[k] = q[j]

\* each segment of it is an old one or a piece,
LEMMA SplitEach ==
  ASSUME NEW q \in Seq(Segment), NEW i \in 1..Len(q), NEW s \in Segment,
         NEW n \in Int, 0 < n, s.len > 0
  PROVE  IsSplit(SplitAt(q, i, s, n), q, i, s, n)
<1> SUFFICES ASSUME NEW r, r = SplitAt(q, i, s, n)
             PROVE  IsSplit(r, q, i, s, n)
  OBVIOUS
<1> DEFINE p == SubSeq(q, 1, i - 1)  m == Pieces(s, n)
           t == SubSeq(q, i + 1, Len(q))
<1>1. r = (p \o m) \o t
  BY DEF SplitAt, Pieces, Front, Rest
<1>2. /\ p \in Seq(Segment) /\ t \in Seq(Segment) /\ Len(p) = i - 1
      /\ Len(t) = Len(q) - i /\ Len(q) \in Nat /\ i \in Nat /\ i >= 1 /\ i <= Len(q)
      /\ \A k \in 1..(i - 1) : p[k] = q[k]
      /\ \A k \in 1..Len(t) : t[k] = q[k + i]
  BY SubSeqs
<1>3. /\ m \in Seq(Segment)
      /\ \/ Len(m) = 1 /\ m[1] = s /\ ~(s.len > n)
         \/ Len(m) = 2 /\ m[1] = Front(s, n) /\ m[2] = Rest(s, n) /\ s.len > n
  <2>1. m \in Seq(Segment)
    BY PiecesTile
  <2>2. s.len > n \/ ~(s.len > n)
    OBVIOUS
  <2> QED BY <2>1, <2>2 DEF Pieces
<1> HIDE DEF p, m, t
<1> DEFINE u == p \o m
<1>4. /\ u \in Seq(Segment) /\ Len(u) = (i - 1) + Len(m)
      /\ \A k \in 1..(i - 1) : u[k] = q[k]
      /\ \A k \in 1..Len(m) : u[k + (i - 1)] = m[k]
  <2>1. p \in Seq(Segment) /\ m \in Seq(Segment)
    BY <1>2, <1>3
  <2>2. /\ u \in Seq(Segment) /\ Len(u) = Len(p) + Len(m)
        /\ \A k \in 1..Len(p) : u[k] = p[k]
        /\ \A k \in 1..Len(m) : u[k + Len(p)] = m[k]
    BY <2>1, ConcatSeq
  <2> QED BY <2>2, <1>2
<1> HIDE DEF u
<1>5. /\ r \in Seq(Segment) /\ Len(r) = Len(u) + Len(t)
      /\ \A k \in 1..Len(u) : r[k] = u[k]
      /\ \A k \in (Len(u) + 1)..(Len(u) + Len(t)) : r[k] = t[k - Len(u)]
  <2>1. u \in Seq(Segment) /\ t \in Seq(Segment)
    BY <1>2, <1>4
  <2>2. r = u \o t
    BY <1>1 DEF u
  <2>3. /\ u \o t \in Seq(Segment) /\ Len(u \o t) = Len(u) + Len(t)
        /\ \A k \in 1..Len(u) : (u \o t)[k] = u[k]
        /\ \A k \in (Len(u) + 1)..(Len(u) + Len(t)) : (u \o t)[k] = t[k - Len(u)]
    BY <2>1, ConcatSeq
  <2> QED BY <2>2, <2>3
<1>6. /\ Len(m) \in Nat /\ Len(m) >= 1 /\ Len(m) <= 2 /\ Len(r) >= Len(q)
      /\ Len(u) \in Nat /\ Len(u) >= i /\ Len(u) = (i - 1) + Len(m)
  <2>1. Len(m) = 1 \/ Len(m) = 2
    BY <1>3
  <2>2. Len(u) = (i - 1) + Len(m)
    BY <1>4
  <2>3. Len(r) = Len(u) + Len(t)
    BY <1>5
  <2>4. Len(t) = Len(q) - i /\ Len(q) \in Nat /\ i \in Nat /\ i >= 1 /\ i <= Len(q)
    BY <1>2
  <2>5. Len(m) \in Nat /\ Len(m) >= 1 /\ Len(m) <= 2
    <3>1. \A x : x = 1 \/ x = 2 => x \in Nat /\ x >= 1 /\ x <= 2
      OBVIOUS
    <3> QED BY <2>1, <3>1, Zenon
  <2>6. Len(u) \in Nat /\ Len(u) >= i
    BY <2>2, <2>5, <2>4
  <2>7. Len(r) = (i - 1) + Len(m) + (Len(q) - i)
    BY <2>2, <2>3, <2>4
  <2>8. Len(r) >= Len(q)
    BY <2>7, <2>5, <2>4
  <2> QED BY <2>2, <2>5, <2>6, <2>8
<1>7. r[i] = IF s.len > n THEN Front(s, n) ELSE s
  <2>1. i \in 1..Len(u) /\ 1 \in 1..Len(m) /\ 1 + (i - 1) = i
    BY <1>2, <1>6
  <2>2. r[i] = u[i] /\ u[i] = m[1]
    BY <2>1, <1>4, <1>5
  <2> QED BY <2>2, <1>3
<1>8. ASSUME NEW k \in 1..(i - 1) PROVE r[k] = q[k]
  <2>1. k \in 1..Len(u)
    BY <1>2, <1>4, <1>6
  <2> QED BY <2>1, <1>4, <1>5
<1>9. ASSUME NEW k \in 1..Len(r)
      PROVE  \/ k < i
             \/ k = i
             \/ k = i + 1 /\ s.len > n /\ r[k] = Rest(s, n)
             \/ \E j \in 1..Len(q) : j > i /\ r[k] = q[j]
  <2>1. CASE k > i /\ k <= Len(u)
    <3>1. /\ k = i + 1 /\ Len(m) = 2 /\ 2 \in 1..Len(m) /\ 2 + (i - 1) = k
          /\ k \in 1..Len(u)
      <4>1. i \in Nat /\ i >= 1 /\ k \in Nat
        BY <1>2
      <4>2. k > i /\ k <= (i - 1) + Len(m) /\ Len(m) \in Nat /\ Len(m) <= 2
        BY <2>1, <1>6
      <4>3. k = i + 1 /\ Len(m) = 2
        <5>1. \A x \in Nat : x <= 2 /\ k <= (i - 1) + x => k = i + 1 /\ x = 2
          BY <4>1, <4>2
        <5> QED BY <4>2, <5>1, Zenon
      <4>4. k \in 1..Len(u)
        BY <4>1, <2>1, <1>6
      <4> QED BY <4>1, <4>3, <4>4
    <3>2. r[k] = u[k] /\ u[k] = m[2]
      BY <3>1, <1>4, <1>5
    <3> QED BY <3>1, <3>2, <1>3
  <2>2. CASE k > Len(u)
    <3> DEFINE j == k - Len(u)
    <3>1. /\ j \in 1..Len(t) /\ k \in (Len(u) + 1)..(Len(u) + Len(t))
          /\ j + i \in 1..Len(q) /\ j + i > i
      <4>1. Len(r) = Len(u) + Len(t) /\ Len(t) = Len(q) - i
        BY <1>2, <1>5
      <4> QED BY <4>1, <2>2, <1>2, <1>6
    <3>2. r[k] = t[j] /\ t[j] = q[j + i]
      BY <3>1, <1>2, <1>5
    <3> HIDE DEF j
    <3> QED BY <3>1, <3>2
  <2>3. k < i \/ k = i \/ (k > i /\ k <= Len(u)) \/ k > Len(u)
    BY <1>2, <1>4, <1>6
  <2> QED BY <2>1, <2>2, <2>3
<1> QED BY <1>5, <1>6, <1>7, <1>8, <1>9 DEF IsSplit

-----------------------------------------------------------------------------
(* Sending. *)

\* The segment that is to be sent next, if it has not been sent, begins where
\* what was sent ends.
LEMMA NextIsNew ==
  ASSUME NEW q \in Seq(Segment), NEW a \in Int, NEW b \in Int, Tiles(q, a, b),
         NEW nxt \in Int, a <= nxt, NEW i \in 1..Len(q),
         \A k \in 1..(i - 1) : ListEnd(q[k]) <= nxt
  PROVE  q[i].off <= nxt
<1>0. Typed(q) /\ q # <<>> /\ 1 \in 1..Len(q)
  <2>1. Typed(q)
    BY ListTyped
  <2> QED BY <2>1 DEF Typed
<1>1. CASE i = 1
  BY <1>0, <1>1 DEF Tiles
<1>2. CASE i > 1
  <2>1. i - 1 \in 1..Len(q) /\ i - 1 \in 1..(i - 1) /\ i = (i - 1) + 1 /\ i - 1 < i
    BY <1>2, <1>0 DEF Typed
  <2>2. q[i].off = DataEnd(q[i - 1]) /\ q[i - 1].len > 0 /\ ListEnd(q[i - 1]) <= nxt
    BY <2>1 DEF Tiles
  <2> QED BY <2>1, <2>2, <1>0 DEF Typed
<1> QED BY <1>1, <1>2, <1>0 DEF Typed

\* r is q after its segments up to the i-th have been sent, all numbers below
\* nx, none of them with more than n bytes.
IsSent(r, nx, q, i, n, nxt, b) ==
  /\ nx \in Int /\ nxt <= nx /\ nx <= b /\ Len(r) >= Len(q)
  /\ \A k \in 1..Len(r) : InList(r[k], nx)
  /\ \A k \in 1..i : ListEnd(r[k]) <= nx
  /\ \A k \in 1..(i - 1) : r[k] = q[k]
  /\ r[i].len <= n
  /\ (\A k \in 1..Len(q) : q[k].len > 0) => \A k \in 1..Len(r) : r[k].len > 0
  /\ \A k \in 1..Len(r) : \E j \in 1..Len(q) : DataEnd(r[k]) <= DataEnd(q[j])

\* and each of them is sent as a whole or not at all, as before.
LEMMA SplitInList ==
  ASSUME NEW q \in Seq(Segment), NEW a \in Int, NEW b \in Int, Tiles(q, a, b),
         NEW nxt \in Int, a <= nxt, nxt <= b,
         NEW i \in 1..Len(q),
         \A k \in 1..(i - 1) : ListEnd(q[k]) <= nxt,
         \A k \in 1..Len(q) : InList(q[k], nxt),
         NEW s \in Segment, s.off = q[i].off, s.len = q[i].len, s.len > 0,
         \/ q[i].flags = "none" /\ s.seq = nxt /\ s.flags = "data"
         \/ q[i].flags # "none" /\ s = q[i],
         NEW n \in Int, 0 < n
  PROVE  IsSent(SplitAt(q, i, s, n),
                MaxOf(nxt, SplitAt(q, i, s, n)[i].seq + SplitAt(q, i, s, n)[i].len),
                q, i, n, nxt, b)
<1> SUFFICES ASSUME NEW r, r = SplitAt(q, i, s, n),
                    NEW nx, nx = MaxOf(nxt, r[i].seq + r[i].len)
             PROVE  IsSent(r, nx, q, i, n, nxt, b)
  OBVIOUS
<1>1. /\ r \in Seq(Segment) /\ Len(r) >= Len(q)
      /\ r[i] = IF s.len > n THEN Front(s, n) ELSE s
      /\ \A k \in 1..(i - 1) : r[k] = q[k]
      /\ \A k \in 1..Len(r) :
            \/ k < i
            \/ k = i
            \/ k = i + 1 /\ s.len > n /\ r[k] = Rest(s, n)
            \/ \E j \in 1..Len(q) : j > i /\ r[k] = q[j]
  <2>1. IsSplit(SplitAt(q, i, s, n), q, i, s, n)
    BY SplitEach
  <2> QED BY <2>1 DEF IsSplit
<1> DEFINE o == r[i]
<1>2. Typed(q) /\ Len(q) \in Nat /\ Len(r) \in Nat
  BY <1>1, ListTyped
<1>3. /\ s.off \in Int /\ s.len \in Nat /\ s.seq \in Int
      /\ ListEnd(s) = s.off + s.len /\ DataEnd(s) = s.off + s.len
      /\ ListEnd(q[i]) = ListEnd(s)
  <2>1. s.off \in Int /\ s.len \in Nat /\ s.seq \in Int
    BY DEF Segment
  <2>2. ListEnd(s) = s.off + s.len /\ DataEnd(s) = s.off + s.len
    BY <2>1 DEF ListEnd, DataEnd
  <2>3. ListEnd(q[i]) = ListEnd(s)
    BY DEF ListEnd
  <2> QED BY <2>1, <2>2, <2>3
<1>4. /\ o.seq = s.seq /\ o.off = s.off /\ o.flags = s.flags
      /\ o.len \in Int /\ 0 < o.len /\ o.len <= n /\ o.len <= s.len
      /\ ListEnd(o) = s.off + o.len
  <2>1. CASE s.len > n
    <3>1. o = Front(s, n)
      BY <1>1, <2>1
    <3> HIDE DEF o
    <3>2. /\ Front(s, n).off = s.off /\ Front(s, n).len = n
          /\ Front(s, n).seq = s.seq /\ Front(s, n).flags = s.flags
          /\ ListEnd(Front(s, n)) = s.off + n
      BY <2>1, PieceTypes
    <3>3. n <= n /\ n <= s.len
      BY <2>1, <1>3
    <3> QED BY <3>1, <3>2, <3>3
  <2>2. CASE ~(s.len > n)
    <3>1. o = s
      BY <1>1, <2>2
    <3> HIDE DEF o
    <3> QED BY <3>1, <2>2, <1>3
  <2> QED BY <2>1, <2>2
<1>5. /\ s.flags = "data" /\ s.seq <= s.off
      /\ \/ ListEnd(s) <= nxt
         \/ nxt = s.off /\ s.seq = s.off
  <2>1. q[i].off <= nxt /\ InList(q[i], nxt)
    BY NextIsNew
  <2>2. CASE q[i].flags = "none" /\ s.seq = nxt /\ s.flags = "data"
    <3>1. nxt <= q[i].off
      BY <2>1, <2>2 DEF InList
    <3> QED BY <2>1, <2>2, <3>1, <1>3
  <2>3. CASE q[i].flags # "none" /\ s = q[i]
    <3>1. s.flags = "data"
      BY <2>1, <2>3, <1>3 DEF InList
    <3> QED BY <2>1, <2>3, <3>1, <1>3 DEF InList
  <2> QED BY <2>2, <2>3
<1>6. /\ nx \in Int /\ nxt <= nx /\ (nx <= ListEnd(s) \/ nx = nxt)
      /\ ListEnd(o) <= nx
      /\ \/ ListEnd(s) <= nxt
         \/ nx = s.off + o.len /\ s.seq = s.off
  <2> HIDE DEF o
  <2>1. nx \in {nxt, s.seq + o.len} /\ nxt <= nx /\ s.seq + o.len <= nx
    BY <1>3, <1>4 DEF MaxOf, o
  <2>2. CASE ListEnd(s) <= nxt
    <3>1. s.seq <= s.off /\ s.seq + o.len <= ListEnd(s)
      BY <1>3, <1>4, <1>5
    <3>2. nx \in Int /\ s.seq + o.len \in Int /\ ListEnd(s) \in Int
      <4>1. s.seq \in Int /\ o.len \in Int /\ s.off \in Int /\ s.len \in Int
        BY <1>3, <1>4
      <4>2. s.seq + o.len \in Int /\ s.off + s.len \in Int
        BY <4>1
      <4>3. ListEnd(s) = s.off + s.len
        BY <1>3
      <4> QED BY <2>1, <4>2, <4>3, Zenon
    <3>3. nx = nxt
      BY <2>1, <2>2, <3>1, <3>2
    <3>4. ListEnd(o) <= ListEnd(s)
      BY <1>3, <1>4
    <3>5. ListEnd(o) \in Int
      BY <1>3, <1>4
    <3> QED BY <2>1, <2>2, <3>2, <3>3, <3>4, <3>5
  <2>3. CASE nxt = s.off /\ s.seq = s.off
    BY <2>1, <2>3, <1>3, <1>4
  <2> QED BY <2>2, <2>3, <1>5
<1>7. nx \in Int /\ nxt <= nx
  BY <1>3, <1>4 DEF MaxOf
<1>8. ListEnd(s) <= b
  <2>1. ListEnd(q[i]) <= b
    BY DEF Tiles
  <2> QED BY <2>1, <1>3
<1>9. ASSUME NEW j \in 1..Len(q), j # i
      PROVE  InList(q[j], nx) /\ (ListEnd(q[j]) <= nxt => ListEnd(q[j]) <= nx)
  <2>1. InList(q[j], nxt) /\ q[j].off \in Int /\ ListEnd(q[j]) \in Int
    BY <1>2 DEF Typed
  <2>2. (j < i => ListEnd(q[j]) <= nxt)
    OBVIOUS
  <2>3. j > i => ListEnd(s) <= q[j].off
    <3>1. j > i => DataEnd(q[i]) <= q[j].off
      BY DEF Tiles
    <3> QED BY <3>1, <1>2, <1>3 DEF Typed
  <2>4. q[j].off < ListEnd(q[j])
    BY <1>2 DEF Typed
  <2>5. nxt <= q[j].off => nx <= q[j].off
    <3>1. CASE j < i
      BY <3>1, <2>1, <2>2, <2>4
    <3>2. CASE j > i
      <4>1. nxt <= q[j].off => nx <= q[j].off
        <5>1. CASE nx = nxt
          BY <5>1
        <5>2. CASE nx <= ListEnd(s)
          <6>1. ListEnd(s) <= q[j].off
            BY <3>2, <2>3
          <6>2. ListEnd(s) \in Int /\ nx \in Int /\ q[j].off \in Int
            BY <2>1, <1>3, <1>7
          <6> QED BY <5>2, <6>1, <6>2
        <5> QED BY <5>1, <5>2, <1>6
      <4> QED BY <4>1
    <3> QED BY <3>1, <3>2, <1>2, <1>9
  <2> QED BY <2>1, <2>5, <1>7 DEF InList
<1>10. ASSUME NEW k \in 1..Len(r)
       PROVE  /\ InList(r[k], nx)
              /\ (\A j \in 1..Len(q) : q[j].len > 0) => r[k].len > 0
  <2>1. CASE k < i
    <3>1. k \in 1..(i - 1) /\ k \in 1..Len(q) /\ k # i
      BY <2>1, <1>2
    <3> QED BY <3>1, <1>1, <1>9
  <2>2. CASE k = i
    <3>1. InList(o, nx)
      <4> HIDE DEF o
      <4> QED BY <1>3, <1>4, <1>5, <1>6 DEF InList
    <3> QED BY <2>2, <3>1, <1>4
  <2>3. CASE k = i + 1 /\ s.len > n /\ r[k] = Rest(s, n)
    <3> DEFINE t == r[k]
    <3>1. /\ t.off = s.off + n /\ t.len = s.len - n /\ t.seq = s.seq + n
          /\ t.flags = s.flags /\ ListEnd(t) = ListEnd(s)
      BY <2>3, PieceTypes
    <3>2. o.len = n
      BY <2>3, <1>1, PieceTypes
    <3>3. InList(t, nx) /\ t.len > 0
      <4> HIDE DEF o, t
      <4>1. t.flags = "data" /\ t.len > 0 /\ t.seq <= t.off
        <5>1. t.flags = "data"
          BY <3>1, <1>5
        <5>2. t.len > 0
          <6>1. t.len = s.len - n /\ s.len > n /\ s.len \in Nat
            BY <3>1, <2>3, <1>3
          <6> QED BY <6>1
        <5>3. t.seq <= t.off
          <6>1. t.seq = s.seq + n /\ t.off = s.off + n /\ s.seq <= s.off
            BY <3>1, <1>5
          <6> QED BY <6>1, <1>3
        <5> QED BY <5>1, <5>2, <5>3
      <4>2. ListEnd(t) <= nx \/ (nx <= t.off /\ t.seq = t.off)
        <5>1. CASE ListEnd(s) <= nxt
          BY <5>1, <3>1, <1>3, <1>7
        <5>2. CASE nx = s.off + o.len /\ s.seq = s.off
          BY <5>2, <3>1, <3>2, <1>3, <1>7
        <5> QED BY <5>1, <5>2, <1>6
      <4> QED BY <4>1, <4>2 DEF InList
    <3> QED BY <3>3
  <2>4. CASE \E j \in 1..Len(q) : j > i /\ r[k] = q[j]
    <3>1. PICK j \in 1..Len(q) : j > i /\ r[k] = q[j]
      BY <2>4
    <3> QED BY <3>1, <1>9
  <2> QED BY <2>1, <2>2, <2>3, <2>4, <1>1
<1>11. ASSUME NEW k \in 1..i PROVE ListEnd(r[k]) <= nx
  <2>1. CASE k = i
    BY <2>1, <1>6
  <2>2. CASE k < i
    <3>1. k \in 1..(i - 1) /\ k \in 1..Len(q) /\ k # i
      BY <2>2, <1>2
    <3> QED BY <3>1, <1>1, <1>9
  <2> QED BY <2>1, <2>2
<1>12. nx <= b
  BY <1>3, <1>6, <1>7, <1>8
<1>13. ASSUME NEW k \in 1..Len(r)
       PROVE  \E j \in 1..Len(q) : DataEnd(r[k]) <= DataEnd(q[j])
  <2>1. DataEnd(s) = DataEnd(q[i])
    BY DEF DataEnd
  <2>2. \A j \in 1..Len(q) : DataEnd(q[j]) <= DataEnd(q[j])
    BY <1>2 DEF Typed
  <2>3. CASE k < i
    <3>1. k \in 1..(i - 1) /\ k \in 1..Len(q)
      BY <2>3, <1>2
    <3> QED BY <3>1, <1>1, <2>2
  <2>4. CASE k = i
    <3>1. DataEnd(o) = s.off + o.len
      BY <1>4 DEF DataEnd
    <3>2. DataEnd(o) <= DataEnd(s)
      BY <3>1, <1>3, <1>4
    <3> QED BY <2>1, <2>4, <3>2
  <2>5. CASE k = i + 1 /\ s.len > n /\ r[k] = Rest(s, n)
    <3>1. DataEnd(r[k]) = DataEnd(s)
      BY <2>5, PieceTypes
    <3> QED BY <2>1, <2>2, <3>1
  <2>6. CASE \E j \in 1..Len(q) : j > i /\ r[k] = q[j]
    BY <2>6, <2>2
  <2> QED BY <2>3, <2>4, <2>5, <2>6, <1>1
<1> QED BY <1>1, <1>4, <1>7, <1>10, <1>11, <1>12, <1>13 DEF IsSent

-----------------------------------------------------------------------------
(* Congestion control keeps its types, and every divisor is positive. *)

Cc == [cwnd : Nat \ {0}, ssthresh : Nat \ {0}, caCount : Nat]
Fr == [active : BOOLEAN, first : Int, last : Int, maxCwnd : Int]

LEMMA AfterIdleType ==
  ASSUME NEW c \in Cc, NEW b, NEW d \in AfterIdle(c, b)
  PROVE  d \in Cc
<1>1. MinOf(c.cwnd, InitialCwnd) \in Nat \ {0}
  BY SenderAssumption DEF MinOf, Cc
<1>2. [c EXCEPT !.cwnd = MinOf(@, InitialCwnd)] \in Cc
  BY <1>1 DEF Cc
<1> QED BY <1>2, Zenon DEF AfterIdle

LEMMA ReduceType ==
  ASSUME NEW c \in Cc, outstanding \in Int
  PROVE  ReduceSlowStartThreshold(c) \in Cc
<1>1. MaxOf(outstanding \div 2, 2) \in Nat \ {0}
  BY SMTT(30) DEF MaxOf
<1> QED BY <1>1 DEF ReduceSlowStartThreshold, Cc

LEMMA AvoidanceType ==
  ASSUME NEW c \in Cc, NEW n \in Nat
  PROVE  UpdateCongestionAvoidance(c, n) \in Cc
<1> DEFINE count == c.caCount + n
           cwnd  == c.cwnd + count \div c.cwnd
<1>1. count \in Nat /\ c.cwnd \in Nat \ {0}
  BY DEF Cc
<1>2. count \div c.cwnd \in Nat
  <2> HIDE DEF count
  <2> QED BY <1>1, SMTT(30)
<1>3. cwnd \in Nat \ {0}
  <2>1. \A x \in Nat : c.cwnd + x \in Nat \ {0}
    BY <1>1
  <2> QED BY <1>2, <2>1, Zenon
<1>4. count % cwnd \in Nat
  <2> HIDE DEF count, cwnd
  <2> QED BY <1>1, <1>3, SMTT(30)
<1>5. UpdateCongestionAvoidance(c, n) \in
        {[c EXCEPT !.cwnd = cwnd, !.caCount = count % cwnd],
         [c EXCEPT !.caCount = count]}
  BY Zenon DEF UpdateCongestionAvoidance
<1> HIDE DEF count, cwnd
<1>6. ASSUME NEW x \in Nat \ {0}, NEW y \in Nat
      PROVE  [c EXCEPT !.cwnd = x, !.caCount = y] \in Cc /\ [c EXCEPT !.caCount = y] \in Cc
  BY DEF Cc
<1> QED BY <1>1, <1>3, <1>4, <1>5, <1>6, Zenon

LEMMA RenoType ==
  ASSUME NEW c \in Cc, NEW n \in Nat
  PROVE  RenoUpdate(c, n) \in Cc
<1> DEFINE slow == UpdateSlowStart(c, n)
           left == n - (slow.cwnd - c.cwnd)
<1>1. CASE c.cwnd >= c.ssthresh
  BY <1>1, AvoidanceType, Zenon DEF RenoUpdate
<1>2. CASE ~(c.cwnd >= c.ssthresh)
  <2>0. c.cwnd \in Nat /\ c.ssthresh \in Nat \ {0} /\ c.cwnd < c.ssthresh
    BY <1>2 DEF Cc
  <2>1. CASE c.cwnd + n >= c.ssthresh
    <3>1. slow = [c EXCEPT !.cwnd = c.ssthresh, !.caCount = 0]
      BY <2>1 DEF UpdateSlowStart
    <3>2. slow \in Cc /\ slow.cwnd = c.ssthresh
      <4> HIDE DEF slow
      <4>1. c.ssthresh \in Nat \ {0} /\ 0 \in Nat
        BY <2>0
      <4> QED BY <3>1, <4>1 DEF Cc
    <3>3. left \in Nat
      <4> HIDE DEF slow
      <4> QED BY <3>2, <2>0, <2>1
    <3>4. RenoUpdate(c, n) \in {slow, UpdateCongestionAvoidance(slow, left)}
      BY <1>2, Zenon DEF RenoUpdate
    <3> HIDE DEF slow, left
    <3> QED BY <3>2, <3>3, <3>4, AvoidanceType
  <2>2. CASE ~(c.cwnd + n >= c.ssthresh)
    <3>1. slow = [c EXCEPT !.cwnd = c.cwnd + n]
      BY <2>2 DEF UpdateSlowStart
    <3>2. slow \in Cc /\ slow.cwnd = c.cwnd + n
      BY <3>1, <2>0 DEF Cc
    <3>3. left = 0
      <4> HIDE DEF slow
      <4> QED BY <3>2, <2>0
    <3>4. RenoUpdate(c, n) = slow
      BY <1>2, <3>3, Zenon DEF RenoUpdate
    <3> QED BY <3>2, <3>4, Zenon
  <2> QED BY <2>1, <2>2
<1> QED BY <1>1, <1>2

-----------------------------------------------------------------------------
(* What an ack does to fast recovery. *)

\* Recovery that is going on is for numbers that are unacknowledged and sent.
Recovering(f, una, nxt) == f.active => (una <= f.last /\ f.last < nxt)

\* Whatever an ack does to fast recovery, what it has to cover was sent.
LEMMA AckKeepsRecovery ==
  ASSUME SndTypeOK, sndUna <= sndNxt, Recovering(fr, sndUna, sndNxt),
         NEW ack \in Int, NEW wnd \in Nat
  PROVE  /\ CheckDuplicateAck(ack, wnd).cc \in Cc
         /\ CheckDuplicateAck(ack, wnd).fr \in Fr
         /\ CheckDuplicateAck(ack, wnd).rtx \in BOOLEAN
         /\ NewlyAcked(ack) => Recovering(CheckDuplicateAck(ack, wnd).fr, ack, sndNxt)
         /\ ~NewlyAcked(ack) => Recovering(CheckDuplicateAck(ack, wnd).fr, sndUna, sndNxt)
<1> DEFINE d == CheckDuplicateAck(ack, wnd)
           lost == ReduceSlowStartThreshold(cc)
           infl == [lost EXCEPT !.cwnd = lost.ssthresh + 3]
<1>1. /\ cc \in Cc /\ fr \in Fr /\ outstanding \in Int /\ sndNxt \in Int /\ sndUna \in Int
  BY DEF SndTypeOK, Cc, Fr
<1>2. infl \in Cc
  <2>1. lost \in Cc
    BY <1>1, ReduceType
  <2> HIDE DEF lost
  <2> QED BY <2>1 DEF Cc
<1>3. [cc EXCEPT !.cwnd = cc.ssthresh] \in Cc /\ [cc EXCEPT !.cwnd = @ + 1] \in Cc
  BY <1>1 DEF Cc
<1>4. Left \in Fr /\ Left.active = FALSE
  BY <1>1 DEF Left, Fr
<1>5. Entered(infl) \in Fr /\ Entered(infl).last = sndNxt - 1
  <2>1. infl.cwnd \in Int
    BY <1>2 DEF Cc
  <2> HIDE DEF infl
  <2> QED BY <2>1, <1>1 DEF Entered, Fr
<1>6. /\ [fr EXCEPT !.first = ack] \in Fr
      /\ [fr EXCEPT !.first = ack].active = fr.active
      /\ [fr EXCEPT !.first = ack].last = fr.last
  BY <1>1 DEF Fr
<1> HIDE DEF infl, lost
<1>7. \/ /\ d.cc = cc /\ d.fr = fr /\ d.rtx = FALSE
         /\ NewlyAcked(ack) => (~fr.active \/ ~(fr.last < ack))
      \/ d.cc = [cc EXCEPT !.cwnd = cc.ssthresh] /\ d.fr = Left /\ d.rtx = FALSE
      \/ /\ d.cc = [cc EXCEPT !.cwnd = @ + 1] /\ d.fr = fr /\ d.rtx = FALSE
         /\ ~(fr.last < ack)
      \/ /\ d.cc = cc /\ d.fr = [fr EXCEPT !.first = ack] /\ d.rtx = TRUE
         /\ ~(fr.last < ack)
      \/ /\ d.cc = infl /\ d.fr = Entered(infl) /\ d.rtx = TRUE
         /\ ack = sndUna /\ ack # sndNxt
  <2>1. NewlyAcked(ack) => sndUna <= ack /\ ack <= sndNxt /\ sndUna # ack
    BY <1>1 DEF NewlyAcked
  <2>2. CASE fr.active /\ ~(sndUna <= ack /\ ack <= sndNxt)
    BY <2>1, <2>2, Zenon DEF CheckDuplicateAck
  <2>3. CASE fr.active /\ sndUna <= ack /\ ack <= sndNxt /\ fr.last < ack
    BY <2>3 DEF CheckDuplicateAck
  <2>4. CASE fr.active /\ sndUna <= ack /\ ack <= sndNxt /\ ~(fr.last < ack)
    <3>1. CASE ~SameWindow(wnd)
      BY <2>4, <3>1 DEF CheckDuplicateAck
    <3>2. CASE SameWindow(wnd) /\ ack = fr.first
      <4>1. CASE cc.cwnd < fr.maxCwnd
        BY <2>4, <3>2, <4>1 DEF CheckDuplicateAck
      <4>2. CASE ~(cc.cwnd < fr.maxCwnd)
        BY <2>4, <3>2, <4>2 DEF CheckDuplicateAck
      <4> QED BY <4>1, <4>2
    <3>3. CASE SameWindow(wnd) /\ ack # fr.first
      BY <2>4, <3>3 DEF CheckDuplicateAck
    <3> QED BY <3>1, <3>2, <3>3
  <2>5. CASE ~fr.active
    <3>1. CASE ack # sndUna \/ ~SameWindow(wnd) \/ ack = sndNxt
      BY <2>5, <3>1 DEF CheckDuplicateAck
    <3>2. CASE ~(ack # sndUna \/ ~SameWindow(wnd) \/ ack = sndNxt)
      <4>1. CASE dupAckCount + 1 < DupAckThreshold
        BY <2>5, <3>2, <4>1 DEF CheckDuplicateAck
      <4>2. CASE ~(dupAckCount + 1 < DupAckThreshold) /\ ~(fr.last < ack)
        BY <2>5, <3>2, <4>2 DEF CheckDuplicateAck
      <4>3. CASE ~(dupAckCount + 1 < DupAckThreshold) /\ fr.last < ack
        BY <2>5, <3>2, <4>3 DEF CheckDuplicateAck, infl, lost
      <4> QED BY <4>1, <4>2, <4>3
    <3> QED BY <3>1, <3>2
  <2> QED BY <2>2, <2>3, <2>4, <2>5
<1>8. d.cc \in Cc /\ d.fr \in Fr /\ d.rtx \in BOOLEAN
  <2> HIDE DEF d
  <2> QED BY <1>1, <1>2, <1>3, <1>4, <1>5, <1>6, <1>7, Zenon
<1>9. fr.active \in BOOLEAN /\ fr.last \in Int /\ NewlyAcked(ack) \in BOOLEAN
  BY <1>1 DEF Fr, NewlyAcked
<1>10. NewlyAcked(ack) => Recovering(d.fr, ack, sndNxt)
  <2> SUFFICES ASSUME NewlyAcked(ack), d.fr.active PROVE ack <= d.fr.last /\ d.fr.last < sndNxt
    BY Zenon DEF Recovering
  <2>1. ack # sndUna
    BY <1>1 DEF NewlyAcked
  <2>2. d.fr.last = fr.last /\ fr.active /\ ~(fr.last < ack)
    <3> HIDE DEF d
    <3> QED BY <1>4, <1>6, <1>7, <1>9, <2>1, Zenon
  <2> QED BY <2>2, <1>1, <1>9 DEF Recovering
<1>11. ~NewlyAcked(ack) => Recovering(d.fr, sndUna, sndNxt)
  <2> SUFFICES ASSUME d.fr.active PROVE sndUna <= d.fr.last /\ d.fr.last < sndNxt
    BY Zenon DEF Recovering
  <2>2. \/ d.fr.last = fr.last /\ fr.active
        \/ d.fr.last = sndNxt - 1 /\ sndUna # sndNxt
    <3> HIDE DEF d
    <3> QED BY <1>4, <1>5, <1>6, <1>7, <1>9, Zenon
  <2>3. CASE d.fr.last = fr.last /\ fr.active
    BY <2>3 DEF Recovering
  <2>4. CASE d.fr.last = sndNxt - 1 /\ sndUna # sndNxt
    <3> HIDE DEF d
    <3> QED BY <2>4, <1>1
  <2> QED BY <2>2, <2>3, <2>4
<1> QED BY <1>8, <1>10, <1>11

-----------------------------------------------------------------------------
(* The invariant holds at first. *)

\* A list ends no earlier than it begins.
LEMMA TilesOrder ==
  ASSUME NEW q \in Seq(Segment), NEW a \in Int, NEW b \in Int, Tiles(q, a, b)
  PROVE  a <= b
<1>1. Typed(q)
  BY ListTyped
<1>2. CASE q # <<>>
  <2>1. 1 \in 1..Len(q)
    BY <1>1, <1>2 DEF Typed
  <2>2. a <= q[1].off /\ ListEnd(q[1]) <= b
    BY <2>1 DEF Tiles
  <2>3. q[1].off < ListEnd(q[1]) /\ q[1].off \in Int /\ ListEnd(q[1]) \in Int
    BY <1>1, <2>1 DEF Typed
  <2> QED BY <2>2, <2>3
<1> QED BY <1>2 DEF Tiles

LEMMA NoneTile ==
  ASSUME NEW a
  PROVE  <<>> \in Seq(Segment) /\ Len(<<>>) = 0 /\ Tiles(<<>>, a, a)
BY DEF Tiles

LEMMA SndInitInv == SndInit => SndInv
<1> SUFFICES ASSUME SndInit PROVE SndInv
  OBVIOUS
<1> USE SenderAssumption DEF SndInit, NoJob
<1>1. SndTypeOK
  <2>1. writeList \in Seq(Segment) /\ sndQueue \in Seq(Segment) /\ Len(writeList) = 0
    BY NoneTile
  <2>2. /\ cc \in [cwnd : Nat \ {0}, ssthresh : Nat \ {0}, caCount : Nat]
        /\ fr \in [active : BOOLEAN, first : Int, last : Int, maxCwnd : Int]
        /\ job \in [acked : Nat, left : Nat, orig : Int, rtx : BOOLEAN]
    OBVIOUS
  <2>3. writeNext \in 1..(Len(writeList) + 1)
    BY <2>1
  <2>4. /\ sndUna \in Int /\ sndNxt \in Int /\ sndNxtList \in Int /\ sndWnd \in Nat
        /\ sndBufInQueue \in Int /\ sndBufUsed \in Int
        /\ written \in Nat /\ outstanding \in Int
    OBVIOUS
  <2>6. sndClosed \in BOOLEAN
    OBVIOUS
  <2>5. /\ maxPayloadSize \in Nat \ {0} /\ sndMTU \in Nat \ {0}
        /\ packetTooBigCount \in Nat /\ tooBigs \in Nat
        /\ sndPc \in {"idle", "pop", "send", "dead"}
    OBVIOUS
  <2> QED BY <2>1, <2>2, <2>3, <2>4, <2>5, <2>6, Zenon DEF SndTypeOK
<1>2. ListInv /\ QueueInv
  <2>1. Len(writeList) = 0 /\ Len(sndQueue) = 0 /\ Base = 1
    BY DEF Base
  <2>2. Tiles(writeList, 1, 1) /\ Tiles(sndQueue, 1, 1)
    BY NoneTile
  <2> QED BY <2>1, <2>2 DEF ListInv, QueueInv
<1>4. DataInv
  <2>1. Len(writeList) = 0 /\ Len(sndQueue) = 0
    OBVIOUS
  <2> QED BY <2>1 DEF DataInv
<1>3. NumberInv /\ CountInv /\ TimerArmed /\ RecoveryEnds /\ LongIsSentAgain
  BY DEF NumberInv, CountInv, TimerArmed, RecoveryEnds, LongIsSentAgain
<1> QED BY <1>1, <1>2, <1>3, <1>4 DEF SndInv

-----------------------------------------------------------------------------
(* The application writes. *)

\* A queue with one more segment at its end.
LEMMA AppendTiles ==
  ASSUME NEW q \in Seq(Segment), NEW a \in Int, NEW b \in Int, Tiles(q, a, b),
         NEW s \in Segment, s.off = b, \A i \in 1..Len(q) : q[i].len > 0
  PROVE  /\ Append(q, s) \in Seq(Segment) /\ Append(q, s) # <<>>
         /\ Len(Append(q, s)) = Len(q) + 1
         /\ Tiles(Append(q, s), a, ListEnd(s))
         /\ \A i \in 1..Len(Append(q, s)) :
              (i \in 1..Len(q) /\ Append(q, s)[i] = q[i]) \/ Append(q, s)[i] = s
<1>1. Append(q, s) = q \o <<s>> /\ <<s>> \in Seq(Segment)
  OBVIOUS
<1>2. Tiles(<<s>>, b, ListEnd(s)) /\ b <= ListEnd(s) /\ a <= b /\ ListEnd(s) \in Int
  <2>1. b < ListEnd(s) /\ ListEnd(s) \in Int
    BY SegTypes
  <2> QED BY <2>1, TilesOne, TilesOrder
<1>3. Tiles(q \o <<s>>, a, ListEnd(s))
  BY <1>1, <1>2, TilesConcat
<1>4. /\ Append(q, s) \in Seq(Segment) /\ Append(q, s) # <<>>
      /\ Len(Append(q, s)) = Len(q) + 1
      /\ \A i \in 1..Len(Append(q, s)) :
           (i \in 1..Len(q) /\ Append(q, s)[i] = q[i]) \/ Append(q, s)[i] = s
  OBVIOUS
<1> QED BY <1>1, <1>3, <1>4

\* What the application queues does not touch the worker.
LEMMA QueuedInv ==
  ASSUME SndInv, ~sndClosed, NEW s \in Segment, s.off = written + 1,
         s.flags = "none", sndQueue' = Append(sndQueue, s),
         sndBufInQueue' \in Int, sndBufUsed' \in Int, written' \in Nat,
         sndClosed' \in BOOLEAN, sndClosed' <=> s.len = 0,
         sndNxtList + sndBufInQueue' = written' + 1 + (IF s.len = 0 THEN 1 ELSE 0),
         ListEnd(s) = sndNxtList + sndBufInQueue',
         sndBufUsed' = written' + 1 - sndUna + job.acked,
         written <= written', DataEnd(s) <= written' + 1,
         UNCHANGED <<listVars, sndUna, sndWnd, ccVars, rtoVars, sndNxt,
                     fixedVars, sndPc, job>>
  PROVE  SndInv'
<1> USE DEF listVars, ccVars, rtoVars, fixedVars, mtuVars
<1>1. /\ Tiles(sndQueue, sndNxtList, s.off) /\ sndNxtList \in Int /\ s.off \in Int
      /\ sndQueue \in Seq(Segment)
      /\ \A i \in 1..Len(sndQueue) : sndQueue[i].len > 0 /\ sndQueue[i].flags = "none"
      /\ \A i \in 1..Len(writeList) : writeList[i].len > 0
  <2>1. sndNxtList + sndBufInQueue = s.off
    BY DEF SndInv, QueueInv, SndTypeOK
  <2>2. s.off \in Int
    BY DEF SndInv, SndTypeOK
  <2> QED BY <2>1, <2>2 DEF SndInv, QueueInv, SndTypeOK
<1>2. /\ sndQueue' \in Seq(Segment) /\ Tiles(sndQueue', sndNxtList, ListEnd(s))
      /\ \A i \in 1..Len(sndQueue') :
           (i \in 1..Len(sndQueue) /\ sndQueue'[i] = sndQueue[i]) \/ sndQueue'[i] = s
  BY <1>1, AppendTiles
<1>3. \A i \in 1..Len(sndQueue') : sndQueue'[i].flags = "none"
  BY <1>1, <1>2
<1>4. sndClosed' \/ \A i \in 1..Len(sndQueue') : sndQueue'[i].len > 0
  <2>1. s.len \in Nat
    BY DEF Segment
  <2>2. CASE s.len = 0
    BY <2>2
  <2>3. CASE s.len > 0
    BY <2>3, <1>1, <1>2
  <2> QED BY <2>1, <2>2, <2>3
<1>5. QueueInv'
  BY <1>1, <1>2, <1>3, <1>4 DEF QueueInv
<1>6. SndTypeOK'
  BY <1>2 DEF SndInv, SndTypeOK
<1>7. ListInv'
  BY DEF SndInv, ListInv, Base
<1>8. NumberInv' /\ CountInv'
  BY DEF SndInv, NumberInv, CountInv
<1>9. TimerArmed' /\ RecoveryEnds' /\ LongIsSentAgain'
  BY DEF SndInv, TimerArmed, RecoveryEnds, LongIsSentAgain
<1>10. DataInv'
  <2>1. Typed(writeList) /\ Typed(sndQueue) /\ written \in Nat
    BY ListTyped DEF SndInv, SndTypeOK
  <2>2. ASSUME NEW i \in 1..Len(writeList) PROVE DataEnd(writeList[i]) <= written' + 1
    <3>1. DataEnd(writeList[i]) <= written + 1 /\ DataEnd(writeList[i]) \in Int
      BY <2>1 DEF SndInv, DataInv, Typed
    <3> QED BY <3>1, <2>1
  <2>3. ASSUME NEW i \in 1..Len(sndQueue) PROVE DataEnd(sndQueue[i]) <= written' + 1
    <3>1. DataEnd(sndQueue[i]) <= written + 1 /\ DataEnd(sndQueue[i]) \in Int
      BY <2>1 DEF SndInv, DataInv, Typed
    <3> QED BY <3>1, <2>1
  <2> QED BY <1>2, <2>2, <2>3 DEF DataInv
<1> QED BY <1>5, <1>6, <1>7, <1>8, <1>9, <1>10 DEF SndInv

LEMMA WriteInv ==
  ASSUME SndInv, NEW n \in Nat \ {0}, Write(n)
  PROVE  SndInv'
<1> DEFINE s == [seq |-> 0, off |-> written + 1, len |-> n, flags |-> "none"]
<1>1. /\ written \in Nat /\ sndBufInQueue \in Int /\ sndBufUsed \in Int
      /\ sndNxtList \in Int /\ sndUna \in Int /\ job.acked \in Int
      /\ sndNxtList + sndBufInQueue = written + 1 /\ ~sndClosed
      /\ sndBufUsed = written + 1 - sndUna + job.acked
  BY DEF SndInv, SndTypeOK, QueueInv, NumberInv, Write
<1>2. s \in Segment /\ s.off = written + 1 /\ s.flags = "none" /\ s.len = n
  BY <1>1 DEF Segment, Flags
<1>3. ListEnd(s) = written + 1 + n /\ DataEnd(s) = written + 1 + n
  BY <1>2 DEF ListEnd, DataEnd
<1>4. /\ sndQueue' = Append(sndQueue, s)
      /\ sndBufInQueue' = sndBufInQueue + n /\ sndBufUsed' = sndBufUsed + n
      /\ written' = written + n /\ sndClosed' = sndClosed
      /\ UNCHANGED <<listVars, sndUna, sndWnd, ccVars, rtoVars, sndNxt,
                     fixedVars, sndPc, job>>
  BY DEF Write
<1> HIDE DEF s
<1>5. /\ sndBufInQueue' \in Int /\ sndBufUsed' \in Int /\ written' \in Nat
      /\ ListEnd(s) = sndNxtList + sndBufInQueue'
      /\ sndNxtList + sndBufInQueue' = written' + 1 + 0
      /\ sndBufUsed' = written' + 1 - sndUna + job.acked
      /\ written <= written' /\ DataEnd(s) <= written' + 1
  BY <1>1, <1>3, <1>4
<1>6. s.len # 0 /\ sndClosed' \in BOOLEAN /\ ~sndClosed'
  <2>1. sndClosed \in BOOLEAN
    BY DEF SndInv, SndTypeOK
  <2> QED BY <1>1, <1>2, <1>4, <2>1
<1>7. sndNxtList + sndBufInQueue' = written' + 1 + (IF s.len = 0 THEN 1 ELSE 0)
  BY <1>5, <1>6
<1> QED BY <1>1, <1>2, <1>4, <1>5, <1>6, <1>7, QueuedInv

LEMMA ShutdownInv ==
  ASSUME SndInv, ShutdownWrite
  PROVE  SndInv'
<1> DEFINE s == [seq |-> 0, off |-> written + 1, len |-> 0, flags |-> "none"]
<1>1. /\ written \in Nat /\ sndBufInQueue \in Int /\ sndBufUsed \in Int
      /\ sndNxtList \in Int /\ sndUna \in Int /\ job.acked \in Int
      /\ sndNxtList + sndBufInQueue = written + 1 /\ ~sndClosed
      /\ sndBufUsed = written + 1 - sndUna + job.acked
  BY DEF SndInv, SndTypeOK, QueueInv, NumberInv, ShutdownWrite
<1>2. s \in Segment /\ s.off = written + 1 /\ s.flags = "none" /\ s.len = 0
  BY <1>1 DEF Segment, Flags
<1>3. ListEnd(s) = written + 1 + 1 /\ DataEnd(s) = written + 1
  BY <1>1, <1>2 DEF ListEnd, DataEnd
<1>4. /\ sndQueue' = Append(sndQueue, s)
      /\ sndBufInQueue' = sndBufInQueue + 1 /\ sndBufUsed' = sndBufUsed
      /\ written' = written /\ sndClosed' = TRUE
      /\ UNCHANGED <<listVars, sndUna, sndWnd, ccVars, rtoVars, sndNxt,
                     fixedVars, sndPc, job>>
  BY DEF ShutdownWrite, ackVars
<1> HIDE DEF s
<1>5. /\ sndBufInQueue' \in Int /\ sndBufUsed' \in Int /\ written' \in Nat
      /\ ListEnd(s) = sndNxtList + sndBufInQueue'
      /\ sndNxtList + sndBufInQueue' = written' + 1 + 1
      /\ sndBufUsed' = written' + 1 - sndUna + job.acked
      /\ written <= written' /\ DataEnd(s) <= written' + 1
  BY <1>1, <1>3, <1>4
<1>6. sndClosed' \in BOOLEAN /\ (sndClosed' <=> s.len = 0)
  BY <1>1, <1>2, <1>4
<1>7. sndNxtList + sndBufInQueue' = written' + 1 + (IF s.len = 0 THEN 1 ELSE 0)
  BY <1>2, <1>5
<1> QED BY <1>1, <1>2, <1>4, <1>5, <1>6, <1>7, QueuedInv

-----------------------------------------------------------------------------
(* The worker takes the queue, or an ack. *)

\* What SMT needs to know of the numbers.
LEMMA BaseType ==
  ASSUME SndInv
  PROVE  /\ writeList \in Seq(Segment) /\ Len(writeList) \in Nat
         /\ writeNext \in 1..(Len(writeList) + 1)
         /\ sndUna \in Int /\ sndNxt \in Int /\ sndNxtList \in Int
         /\ job.left \in Nat /\ job.acked \in Nat /\ job.orig \in Int
         /\ Base \in Int /\ Base = sndUna - job.left
         /\ Base <= sndUna /\ sndUna <= sndNxt /\ sndNxt <= sndNxtList
<1>1. /\ writeList \in Seq(Segment) /\ sndUna \in Int /\ sndNxt \in Int
      /\ sndNxtList \in Int /\ job \in [acked : Nat, left : Nat, orig : Int, rtx : BOOLEAN]
      /\ writeNext \in 1..(Len(writeList) + 1)
  BY DEF SndInv, SndTypeOK
<1>2. job.left \in Nat /\ job.acked \in Nat /\ job.orig \in Int
  BY <1>1
<1>3. sndUna <= sndNxt /\ sndNxt <= sndNxtList
  BY DEF SndInv, NumberInv
<1>4. Len(writeList) \in Nat
  BY <1>1
<1>5. Base \in Int /\ Base = sndUna - job.left /\ Base <= sndUna
  BY <1>1, <1>2 DEF Base
<1> QED BY <1>1, <1>2, <1>3, <1>4, <1>5

LEMMA TakeQueueInv ==
  ASSUME SndInv, sndPc = "idle", TakeQueue, UNCHANGED mtuVars
  PROVE  SndInv'
<1> USE DEF ackVars, rtoVars, mtuVars
<1>1. /\ writeList \in Seq(Segment) /\ sndQueue \in Seq(Segment)
      /\ sndNxtList \in Int /\ sndBufInQueue \in Int /\ sndNxt \in Int
      /\ Base \in Int /\ sndNxt <= sndNxtList /\ job = NoJob
      /\ writeNext \in 1..(Len(writeList) + 1)
  BY DEF SndInv, SndTypeOK, NumberInv, Base
<1>2. /\ Tiles(writeList, Base, sndNxtList)
      /\ Tiles(sndQueue, sndNxtList, sndNxtList + sndBufInQueue)
      /\ sndQueue # <<>> => \A i \in 1..Len(writeList) : writeList[i].len > 0
  BY DEF SndInv, ListInv, QueueInv
<1>3. Base <= sndNxtList /\ sndNxtList <= sndNxtList + sndBufInQueue
  BY <1>1, <1>2, TilesOrder
<1>4. writeList' = writeList \o sndQueue
  BY DEF TakeQueue
<1>5. Tiles(writeList', Base, sndNxtList + sndBufInQueue)
  BY <1>1, <1>2, <1>3, <1>4, TilesConcat
<1>6. /\ writeList' \in Seq(Segment) /\ Len(writeList') = Len(writeList) + Len(sndQueue)
      /\ \A i \in 1..Len(writeList) : writeList'[i] = writeList[i]
      /\ \A i \in (Len(writeList) + 1)..(Len(writeList) + Len(sndQueue)) :
            writeList'[i] = sndQueue[i - Len(writeList)]
  BY <1>1, <1>4, ConcatSeq
<1>7. Len(writeList) \in Nat /\ Len(sndQueue) \in Nat
  BY <1>1
<1>8. ASSUME NEW i \in 1..Len(writeList')
      PROVE  \/ i \in 1..Len(writeList) /\ writeList'[i] = writeList[i]
             \/ \E j \in 1..Len(sndQueue) : writeList'[i] = sndQueue[j]
  <2>1. CASE i \in 1..Len(writeList)
    BY <2>1, <1>6
  <2>2. CASE i > Len(writeList)
    <3>1. /\ i \in (Len(writeList) + 1)..(Len(writeList) + Len(sndQueue))
          /\ i - Len(writeList) \in 1..Len(sndQueue)
      BY <2>2, <1>6, <1>7
    <3> QED BY <3>1, <1>6
  <2> QED BY <2>1, <2>2, <1>6, <1>7
<1>9. \A j \in 1..Len(sndQueue) : InList(sndQueue[j], sndNxt)
  <2>1. ASSUME NEW j \in 1..Len(sndQueue) PROVE InList(sndQueue[j], sndNxt)
    <3>1. sndQueue[j].flags = "none" /\ sndNxtList <= sndQueue[j].off
      BY <1>2 DEF SndInv, QueueInv, Tiles
    <3>2. sndQueue[j].off \in Int
      BY <1>1, ListTyped DEF Typed
    <3> QED BY <1>1, <3>1, <3>2 DEF InList
  <2> QED BY <2>1
<1>10. \A i \in 1..Len(writeList') : InList(writeList'[i], sndNxt)
  BY <1>8, <1>9 DEF SndInv, ListInv
<1>11. \A i \in 1..(writeNext - 1) :
          /\ writeList'[i] = writeList[i] /\ i \in 1..Len(writeList)
          /\ ListEnd(writeList[i]) <= sndNxt
          /\ writeList[i].len <= maxPayloadSize
  <2>1. ASSUME NEW i \in 1..(writeNext - 1)
        PROVE  /\ writeList'[i] = writeList[i] /\ i \in 1..Len(writeList)
               /\ ListEnd(writeList[i]) <= sndNxt
               /\ writeList[i].len <= maxPayloadSize
    <3>1. i \in 1..Len(writeList)
      BY <1>1, <1>7
    <3> QED BY <3>1, <1>6 DEF SndInv, ListInv, LongIsSentAgain
  <2> QED BY <2>1
<1>12. /\ sndNxtList' = sndNxtList + sndBufInQueue /\ sndBufInQueue' = 0
       /\ sndQueue' = <<>> /\ sndPc' = "send"
       /\ UNCHANGED <<sndClosed, written, writeNext, sndUna, sndWnd, sndBufUsed,
                      outstanding, fr, sndNxt, job, mtuVars>>
  BY DEF TakeQueue
<1>13. ListInv'
  BY <1>5, <1>10, <1>11, <1>12 DEF ListInv, Base
<1>14. QueueInv'
  <2>1. /\ sndQueue' \in Seq(Segment) /\ Len(sndQueue') = 0
        /\ Tiles(sndQueue', sndNxtList + sndBufInQueue, sndNxtList + sndBufInQueue)
    BY <1>12, NoneTile
  <2>2. sndNxtList' + sndBufInQueue' = sndNxtList + sndBufInQueue
    BY <1>1, <1>12
  <2>3. sndClosed' \/ \A i \in 1..Len(writeList') : writeList'[i].len > 0
    BY <1>8, <1>12 DEF SndInv, QueueInv
  <2>4. Tiles(sndQueue', sndNxtList', sndNxtList' + sndBufInQueue')
    BY <2>1, <2>2, <1>12
  <2>5. sndNxtList' + sndBufInQueue' = written' + 1 + (IF sndClosed' THEN 1 ELSE 0)
    BY <2>2, <1>12 DEF SndInv, QueueInv
  <2> QED BY <2>1, <2>3, <2>4, <2>5, <1>12 DEF QueueInv
<1>15. SndTypeOK'
  <2>1. cc \in Cc /\ cc' \in AfterIdle(cc, fr.active)
    BY DEF SndInv, SndTypeOK, TakeQueue, Cc
  <2>2. cc' \in Cc
    BY <2>1, AfterIdleType
  <2>3. sndQueue' \in Seq(Segment) /\ sndNxtList' \in Int /\ sndBufInQueue' \in Int
    BY <1>1, <1>12
  <2>4. writeNext' \in 1..(Len(writeList') + 1)
    BY <1>1, <1>6, <1>7, <1>12
  <2> QED BY <1>6, <1>12, <2>2, <2>3, <2>4 DEF SndInv, SndTypeOK, Cc
<1>16. NumberInv'
  <2>1. sndNxt' <= sndNxtList'
    BY <1>1, <1>3, <1>12
  <2> QED BY <2>1, <1>1, <1>12 DEF SndInv, NumberInv
<1>17. CountInv' /\ TimerArmed' /\ RecoveryEnds'
  BY <1>12 DEF SndInv, CountInv, TimerArmed, RecoveryEnds
<1>18. LongIsSentAgain'
  BY <1>11, <1>12 DEF LongIsSentAgain
<1>19. DataInv'
  BY <1>8, <1>12 DEF SndInv, DataInv
<1> QED BY <1>13, <1>14, <1>15, <1>16, <1>17, <1>18, <1>19 DEF SndInv

LEMMA HandleSegmentInv ==
  ASSUME SndInv, NEW ack \in Int, NEW wnd \in Nat, SndHandleSegment(ack, wnd)
  PROVE  SndInv'
<1> DEFINE d == CheckDuplicateAck(ack, wnd)
<1> USE DEF appVars, listVars, fixedVars, mtuVars
<1>1. /\ sndUna \in Int /\ sndNxt \in Int /\ written \in Nat /\ sndBufUsed \in Int
      /\ sndUna <= sndNxt /\ sndPc = "idle" /\ job = NoJob /\ outstanding \in Int
      /\ sndBufUsed = written + 1 - sndUna
  BY DEF SndInv, SndTypeOK, NumberInv, SndHandleSegment, NoJob
<1>2. /\ d.cc \in Cc /\ d.fr \in Fr /\ d.rtx \in BOOLEAN
      /\ NewlyAcked(ack) => Recovering(d.fr, ack, sndNxt)
      /\ ~NewlyAcked(ack) => Recovering(d.fr, sndUna, sndNxt)
  <2>1. SndTypeOK /\ Recovering(fr, sndUna, sndNxt)
    BY DEF SndInv, RecoveryEnds, Recovering
  <2> QED BY <2>1, <1>1, AckKeepsRecovery
<1>3. /\ cc' = d.cc /\ fr' = d.fr /\ sndWnd' = wnd /\ sndPc' = "pop"
      /\ UNCHANGED <<sndQueue, sndBufInQueue, sndClosed, written, writeList,
                     writeNext, sndNxtList, sndBufUsed, outstanding, sndNxt,
                     mtuVars>>
  BY DEF SndHandleSegment
<1>4. \E n \in Nat : /\ job' = [acked |-> n, left |-> n, orig |-> outstanding, rtx |-> d.rtx]
                     /\ sndUna' = sndUna + n /\ sndUna' <= sndNxt
                     /\ Recovering(d.fr, sndUna', sndNxt)
  <2> HIDE DEF d
  <2>1. CASE NewlyAcked(ack)
    <3>1. /\ ack - sndUna \in Nat /\ ack = sndUna + (ack - sndUna) /\ ack <= sndNxt
      BY <2>1, <1>1 DEF NewlyAcked
    <3>2. /\ job' = [acked |-> ack - sndUna, left |-> ack - sndUna,
                     orig |-> outstanding, rtx |-> d.rtx]
          /\ sndUna' = ack
      BY <2>1 DEF SndHandleSegment, d
    <3> QED BY <2>1, <3>1, <3>2, <1>2
  <2>2. CASE ~NewlyAcked(ack)
    <3>1. /\ job' = [acked |-> 0, left |-> 0, orig |-> outstanding, rtx |-> d.rtx]
          /\ sndUna' = sndUna
      BY <2>2 DEF SndHandleSegment, d
    <3>2. sndUna = sndUna + 0
      BY <1>1
    <3> QED BY <2>2, <3>1, <3>2, <1>1, <1>2
  <2> QED BY <2>1, <2>2
<1> HIDE DEF d
<1>5. PICK n \in Nat : /\ job' = [acked |-> n, left |-> n, orig |-> outstanding, rtx |-> d.rtx]
                       /\ sndUna' = sndUna + n /\ sndUna' <= sndNxt
                       /\ Recovering(d.fr, sndUna', sndNxt)
  BY <1>4
<1>6. /\ job'.left = n /\ job'.acked = n /\ job'.orig = outstanding
      /\ job' \in [acked : Nat, left : Nat, orig : Int, rtx : BOOLEAN]
  BY <1>1, <1>2, <1>5
<1>7. Base' = Base
  BY <1>1, <1>5, <1>6 DEF Base, NoJob
<1>8. SndTypeOK'
  <2>1. sndUna' \in Int /\ sndPc' \in {"idle", "pop", "send", "dead"}
    BY <1>1, <1>3, <1>5
  <2> QED BY <1>2, <1>3, <1>6, <2>1 DEF SndInv, SndTypeOK, Cc, Fr
<1>9. ListInv'
  BY <1>3, <1>7 DEF SndInv, ListInv
<1>10. QueueInv'
  BY <1>3 DEF SndInv, QueueInv
<1>11. NumberInv'
  <2>1. sndBufUsed' = written' + 1 - sndUna' + job'.acked
    BY <1>1, <1>3, <1>5, <1>6
  <2> QED BY <2>1, <1>3, <1>5 DEF SndInv, NumberInv
<1>12. CountInv' /\ TimerArmed' /\ LongIsSentAgain'
  BY <1>1, <1>3, <1>6 DEF SndInv, CountInv, TimerArmed, LongIsSentAgain
<1>13. RecoveryEnds'
  BY <1>3, <1>5 DEF RecoveryEnds, Recovering
<1>14. DataInv'
  BY <1>3 DEF SndInv, DataInv
<1> QED BY <1>8, <1>9, <1>10, <1>11, <1>12, <1>13, <1>14 DEF SndInv

\* While something acknowledged is left, the first segment of the list has
\* been sent, and its length is that of its bytes and its FIN.
LEMMA HeadIsSent ==
  ASSUME SndInv, job.left > 0
  PROVE  /\ writeList # <<>> /\ 1 \in 1..Len(writeList) /\ writeList[1] \in Segment
         /\ writeList[1].off = Base /\ ListEnd(writeList[1]) <= sndNxt
         /\ writeList[1].flags \in {"data", "fin"}
         /\ writeList[1].flags = "fin" <=> writeList[1].len = 0
         /\ LogicalLen(writeList[1]) = ListEnd(writeList[1]) - Base
<1>1. /\ sndUna \in Int /\ sndNxt \in Int /\ job.left \in Nat /\ Base \in Int
      /\ writeList \in Seq(Segment) /\ sndNxtList \in Int
      /\ Tiles(writeList, Base, sndNxtList) /\ sndUna <= sndNxt /\ sndNxt <= sndNxtList
  BY BaseType DEF SndInv, ListInv
<1>2. Base < sndNxt
  BY <1>1 DEF Base
<1>3. writeList # <<>>
  BY <1>1, <1>2 DEF Tiles
<1>4. 1 \in 1..Len(writeList) /\ writeList[1] \in Segment
  BY <1>1, <1>3
<1>5. writeList[1].off = Base /\ InList(writeList[1], sndNxt)
  BY <1>1, <1>3, <1>4 DEF SndInv, ListInv, Tiles
<1>6. /\ ListEnd(writeList[1]) <= sndNxt
      /\ writeList[1].flags \in {"data", "fin"}
  BY <1>1, <1>2, <1>5 DEF InList
<1>7. writeList[1].len \in Nat
  BY <1>4 DEF Segment
<1>8. writeList[1].flags = "fin" <=> writeList[1].len = 0
  BY <1>5, <1>6, <1>7 DEF InList
<1>9. LogicalLen(writeList[1]) = ListEnd(writeList[1]) - Base
  <2>1. CASE writeList[1].len = 0
    BY <2>1, <1>1, <1>5, <1>8 DEF LogicalLen, ListEnd
  <2>2. CASE writeList[1].len # 0
    BY <2>2, <1>1, <1>5, <1>7, <1>8 DEF LogicalLen, ListEnd
  <2> QED BY <2>1, <2>2
<1> QED BY <1>3, <1>4, <1>5, <1>6, <1>8, <1>9

LEMMA PopAckedInv ==
  ASSUME SndInv, PopAcked
  PROVE  SndInv'
<1> USE DEF appVars, ackVars, rtoVars, fixedVars, mtuVars
<1> DEFINE q == writeList  r == Tail(q)  h == LogicalLen(Head(q))
<1>1. /\ q \in Seq(Segment) /\ Len(q) \in Nat /\ writeNext \in 1..(Len(q) + 1)
      /\ sndUna \in Int /\ sndNxt \in Int /\ sndNxtList \in Int
      /\ job.left \in Nat /\ Base \in Int /\ Base = sndUna - job.left
  BY BaseType
<1>2. /\ sndPc = "pop" /\ job.left > 0 /\ q # <<>> /\ h <= job.left
      /\ writeList' = r /\ writeNext' = MaxOf(writeNext - 1, 1)
      /\ outstanding' = outstanding - 1
      /\ job' = [job EXCEPT !.left = job.left - h]
      /\ UNCHANGED <<sndQueue, sndBufInQueue, sndClosed, written, sndNxtList,
                     sndUna, sndWnd, sndBufUsed, cc, fr, resendTimer, sndNxt,
                     maxPayloadSize, packetTooBigCount, sndMTU, tooBigs, sndPc>>
  BY DEF PopAcked
<1>3. /\ 1 \in 1..Len(q) /\ Head(q) = q[1]
      /\ h = ListEnd(q[1]) - Base /\ ListEnd(q[1]) \in Int
      /\ q[1].off = Base /\ q[1].off < ListEnd(q[1])
  <2>1. /\ q[1] \in Segment /\ 1 \in 1..Len(q) /\ q[1].off = Base
        /\ LogicalLen(q[1]) = ListEnd(q[1]) - Base
    BY <1>2, HeadIsSent
  <2>2. Head(q) = q[1]
    BY <1>1, <1>2
  <2> QED BY <2>1, <2>2, SegTypes
<1> HIDE DEF h
<1>4. h \in Nat /\ job.left - h \in Nat
  BY <1>1, <1>2, <1>3
<1>5. /\ job' \in [acked : Nat, left : Nat, orig : Int, rtx : BOOLEAN]
      /\ job'.left = job.left - h /\ job'.acked = job.acked /\ job'.orig = job.orig
  <2>1. job \in [acked : Nat, left : Nat, orig : Int, rtx : BOOLEAN]
    BY DEF SndInv, SndTypeOK
  <2> QED BY <2>1, <1>2, <1>4
<1>6. Base' = ListEnd(q[1])
  <2>1. Base' = sndUna - (job.left - h)
    BY <1>2, <1>5 DEF Base
  <2>2. sndUna - (job.left - h) = Base + h
    BY <1>1, <1>4
  <2>3. Base + h = ListEnd(q[1])
    BY <1>1, <1>3
  <2> QED BY <2>1, <2>2, <2>3
<1>7. /\ r \in Seq(Segment) /\ Len(r) = Len(q) - 1
      /\ \A i \in 1..Len(r) : r[i] = q[i + 1] /\ i + 1 \in 1..Len(q)
  BY <1>1, <1>2, TailSeq
<1>8. Tiles(r, ListEnd(q[1]), sndNxtList)
  BY <1>1, <1>2, TilesTail DEF SndInv, ListInv
<1> HIDE DEF r
<1>9. writeNext' \in 1..(Len(r) + 1) /\ Len(q) >= 1
      /\ writeNext' - 1 <= writeNext - 1 /\ (writeNext > 1 => writeNext' = writeNext - 1)
      /\ (writeNext = 1 => writeNext' = 1)
  BY <1>1, <1>2, <1>3, <1>7 DEF MaxOf
<1>10. ASSUME NEW i \in 1..(writeNext' - 1)
       PROVE  /\ i \in 1..Len(r) /\ r[i] = q[i + 1] /\ i + 1 \in 1..(writeNext - 1)
              /\ i + 1 \in 1..Len(q)
  <2>1. i \in 1..Len(r) /\ i + 1 \in 1..(writeNext - 1)
    <3>1. /\ Len(q) \in Nat /\ writeNext \in Nat /\ writeNext' \in Nat
          /\ writeNext <= Len(q) + 1 /\ Len(r) = Len(q) - 1
      BY <1>1, <1>7, <1>9
    <3>2. \A m, w, l \in Nat :
            \A j \in 1..(m - 1) :
              (w > 1 => m = w - 1) /\ (w = 1 => m = 1) /\ w >= 1 /\ w <= l + 1
                => j \in 1..(l - 1) /\ j + 1 \in 1..(w - 1)
      OBVIOUS
    <3>3. i \in 1..(Len(q) - 1) /\ i + 1 \in 1..(writeNext - 1)
      <4>1. writeNext >= 1
        BY <1>1
      <4> QED BY <3>1, <3>2, <1>9, <4>1, Zenon
    <3> QED BY <3>1, <3>3
  <2> QED BY <2>1, <1>7
<1>11. ListInv'
  <2>1. \A i \in 1..Len(r) : InList(r[i], sndNxt)
    BY <1>7 DEF SndInv, ListInv
  <2>2. \A i \in 1..(writeNext' - 1) : ListEnd(r[i]) <= sndNxt
    BY <1>10 DEF SndInv, ListInv
  <2> QED BY <1>2, <1>6, <1>8, <2>1, <2>2 DEF ListInv
<1>12. QueueInv'
  <2>1. sndQueue # <<>> => \A i \in 1..Len(r) : r[i].len > 0
    BY <1>7 DEF SndInv, QueueInv
  <2>2. sndClosed \/ \A i \in 1..Len(r) : r[i].len > 0
    BY <1>7 DEF SndInv, QueueInv
  <2> QED BY <1>2, <2>1, <2>2 DEF SndInv, QueueInv
<1>13. outstanding \in Int
  BY DEF SndInv, SndTypeOK
<1>14. SndTypeOK'
  <2>1. outstanding' \in Int
    BY <1>2, <1>13
  <2> QED BY <1>2, <1>5, <1>7, <1>9, <2>1 DEF SndInv, SndTypeOK
<1>15. NumberInv'
  BY <1>2, <1>5 DEF SndInv, NumberInv
<1>16. CountInv'
  <2>1. outstanding' <= job'.orig
    <3>1. outstanding <= job.orig /\ job.orig \in Int
      BY <1>2, BaseType DEF SndInv, CountInv
    <3> QED BY <3>1, <1>2, <1>5, <1>13
  <2>2. tooBigs = 0 => outstanding' <= writeNext' - 1
    <3>1. tooBigs = 0 => outstanding <= writeNext - 1
      BY DEF SndInv, CountInv
    <3>2. CASE writeNext > 1
      BY <3>1, <3>2, <1>1, <1>2, <1>9, <1>13
    <3>3. CASE writeNext = 1
      BY <3>1, <3>3, <1>1, <1>2, <1>9, <1>13
    <3> QED BY <3>2, <3>3, <1>1
  <2> QED BY <2>1, <2>2, <1>2 DEF SndInv, CountInv
<1>17. LongIsSentAgain'
  BY <1>2, <1>10 DEF SndInv, LongIsSentAgain
<1>18. TimerArmed' /\ RecoveryEnds'
  BY <1>2 DEF SndInv, TimerArmed, RecoveryEnds
<1>19. DataInv'
  BY <1>2, <1>7 DEF SndInv, DataInv
<1> QED BY <1>11, <1>12, <1>14, <1>15, <1>16, <1>17, <1>18, <1>19 DEF SndInv

\* The list after the ack, and what has become of each segment.
LEMMA TrimmedList ==
  ASSUME SndInv, AckDone
  PROVE  /\ writeList' \in Seq(Segment) /\ Len(writeList') = Len(writeList)
         /\ Tiles(writeList', sndUna, sndNxtList)
         /\ \A i \in 1..Len(writeList) :
              /\ InList(writeList'[i], sndNxt)
              /\ ListEnd(writeList'[i]) = ListEnd(writeList[i])
              /\ DataEnd(writeList'[i]) = DataEnd(writeList[i])
              /\ writeList'[i].len <= writeList[i].len
              /\ writeList[i].len > 0 => writeList'[i].len > 0
<1> DEFINE q == writeList
<1>1. /\ q \in Seq(Segment) /\ Len(q) \in Nat
      /\ sndUna \in Int /\ sndNxt \in Int /\ sndNxtList \in Int
      /\ job.left \in Nat /\ Base \in Int /\ Base = sndUna - job.left
      /\ Tiles(q, Base, sndNxtList) /\ \A i \in 1..Len(q) : InList(q[i], sndNxt)
  BY BaseType DEF SndInv, ListInv
<1>2. \A i \in 1..Len(q) : q[i].len \in Int /\ q[i].len <= q[i].len
  BY <1>1, ListTyped DEF Typed
<1>3. CASE job.left = 0
  <2>1. writeList' = q
    BY <1>3 DEF AckDone
  <2>2. Base = sndUna
    BY <1>1, <1>3
  <2> QED BY <2>1, <2>2, <1>1, <1>2
<1>4. CASE job.left # 0
  <2> DEFINE h == q[1]  n == job.left  t == TrimFront(h, n)
  <2>1. n \in Nat /\ n \in Int /\ 0 < n /\ q # <<>> /\ 1 \in 1..Len(q) /\ h \in Segment
        /\ h.off = Base /\ ListEnd(h) <= sndNxt
        /\ h.flags \in {"data", "fin"} /\ (h.flags = "fin" <=> h.len = 0)
    BY <1>1, <1>4, HeadIsSent
  <2>2. n < LogicalLen(h)
    BY <1>1, <1>4, <2>1 DEF AckDone
  <2>3. h.len \in Nat /\ h.off \in Int /\ h.seq \in Int
    BY <2>1 DEF Segment
  <2>4. h.flags = "data" /\ n < h.len
    <3>1. CASE h.flags = "fin"
      BY <3>1, <2>1, <2>2 DEF LogicalLen
    <3>2. CASE h.flags = "data"
      BY <3>2, <2>2, <2>3 DEF LogicalLen
    <3> QED BY <3>1, <3>2, <2>1
  <2>5. writeList' = [q EXCEPT ![1] = TrimFront(@, n)]
    BY <1>4 DEF AckDone
  <2>6. writeList' \in Seq(Segment) /\ Tiles(writeList', Base + n, sndNxtList)
    BY <1>1, <2>1, <2>4, <2>5, TilesTrim
  <2>7. Len(writeList') = Len(q) /\ writeList'[1] = t
        /\ \A i \in 1..Len(q) : i # 1 => writeList'[i] = q[i]
    BY <1>1, <2>1, <2>5
  <2>8. /\ t.off = h.off + n /\ t.len = h.len - n /\ t.seq = h.seq
        /\ t.flags = h.flags /\ t.len > 0 /\ ListEnd(t) = ListEnd(h)
        /\ DataEnd(t) = DataEnd(h)
    BY <2>1, <2>4, TrimType
  <2>9. h.seq <= h.off
    BY <1>1, <2>1, <2>4 DEF InList
  <2>10. InList(t, sndNxt) /\ t.len <= h.len
    <3> HIDE DEF t, h, n
    <3>1. t.seq <= t.off /\ t.len <= h.len /\ ListEnd(t) <= sndNxt
      BY <2>1, <2>3, <2>8, <2>9
    <3> QED BY <3>1, <2>4, <2>8 DEF InList
  <2>11. Base + n = sndUna
    BY <1>1
  <2> HIDE DEF t, h, n
  <2>12. ASSUME NEW i \in 1..Len(q)
         PROVE  /\ InList(writeList'[i], sndNxt)
                /\ ListEnd(writeList'[i]) = ListEnd(q[i])
                /\ DataEnd(writeList'[i]) = DataEnd(q[i])
                /\ writeList'[i].len <= q[i].len
                /\ q[i].len > 0 => writeList'[i].len > 0
    <3>1. CASE i = 1
      BY <3>1, <2>7, <2>8, <2>10 DEF h
    <3>2. CASE i # 1
      BY <3>2, <2>7, <1>1, <1>2
    <3> QED BY <3>1, <3>2
  <2> QED BY <2>6, <2>7, <2>11, <2>12
<1> QED BY <1>3, <1>4

LEMMA AckDoneInv ==
  ASSUME SndInv, AckDone
  PROVE  SndInv'
<1> USE DEF appVars, fixedVars, mtuVars
<1>1. /\ Len(writeList) \in Nat /\ writeNext \in 1..(Len(writeList) + 1)
      /\ sndUna \in Int /\ sndNxt \in Int /\ job.acked \in Nat /\ job.orig \in Int
  BY BaseType
<1>2. /\ writeList' \in Seq(Segment) /\ Len(writeList') = Len(writeList)
      /\ Tiles(writeList', sndUna, sndNxtList)
      /\ \A i \in 1..Len(writeList) :
           /\ InList(writeList'[i], sndNxt)
           /\ ListEnd(writeList'[i]) = ListEnd(writeList[i])
           /\ DataEnd(writeList'[i]) = DataEnd(writeList[i])
           /\ writeList'[i].len <= writeList[i].len
           /\ writeList[i].len > 0 => writeList'[i].len > 0
  BY TrimmedList
<1>3. /\ sndPc = "pop" /\ sndPc' = "send" /\ job' = NoJob
      /\ sndBufUsed' = sndBufUsed - job.acked
      /\ outstanding' = MaxOf(outstanding, 0)
      /\ UNCHANGED <<sndQueue, sndBufInQueue, sndClosed, written, writeNext,
                     sndNxtList, sndUna, sndWnd, fr, sndNxt, maxPayloadSize,
                     packetTooBigCount, sndMTU, tooBigs>>
  BY DEF AckDone
<1>4. /\ outstanding \in Int /\ written \in Nat /\ sndBufUsed \in Int
      /\ sndBufUsed = written + 1 - sndUna + job.acked
      /\ outstanding <= job.orig
      /\ tooBigs = 0 => outstanding <= writeNext - 1
  BY <1>3 DEF SndInv, SndTypeOK, NumberInv, CountInv
<1>5. Base' = sndUna
  BY <1>1, <1>3 DEF Base, NoJob
<1>6. ASSUME NEW i \in 1..(writeNext - 1)
      PROVE  i \in 1..Len(writeList) /\ i \in DOMAIN writeList
             /\ ListEnd(writeList[i]) <= sndNxt /\ writeList[i].len <= maxPayloadSize
  <2>1. i \in 1..Len(writeList)
    BY <1>1
  <2>2. i \in DOMAIN writeList
    BY <2>1 DEF SndInv, SndTypeOK
  <2> QED BY <2>1, <2>2 DEF SndInv, ListInv, LongIsSentAgain
<1>7. ListInv'
  BY <1>2, <1>3, <1>5, <1>6 DEF ListInv
<1>8. QueueInv'
  <2>1. sndQueue # <<>> => \A i \in 1..Len(writeList') : writeList'[i].len > 0
    BY <1>2 DEF SndInv, QueueInv
  <2>2. sndClosed \/ \A i \in 1..Len(writeList') : writeList'[i].len > 0
    BY <1>2 DEF SndInv, QueueInv
  <2> QED BY <2>1, <2>2, <1>3 DEF SndInv, QueueInv
<1>9. cc' \in Cc
  <2>1. cc \in Cc
    BY DEF SndInv, SndTypeOK, Cc
  <2>2. job.orig - outstanding \in Nat
    BY <1>1, <1>4
  <2>3. RenoUpdate(cc, job.orig - outstanding) \in Cc
    BY <2>1, <2>2, RenoType
  <2> DEFINE c == IF job.acked > 0 /\ ~fr.active
                  THEN RenoUpdate(cc, job.orig - outstanding) ELSE cc
  <2>4. c \in Cc
    BY <2>1, <2>3, Zenon
  <2>5. cc' \in AfterIdle(c, fr.active)
    BY Zenon DEF AckDone
  <2> HIDE DEF c
  <2> QED BY <2>4, <2>5, AfterIdleType
<1>10. outstanding' \in Int /\ (tooBigs = 0 => outstanding' <= writeNext - 1)
  BY <1>1, <1>3, <1>4 DEF MaxOf
<1>11. SndTypeOK'
  <2>1. NoJob \in [acked : Nat, left : Nat, orig : Int, rtx : BOOLEAN]
    BY DEF NoJob
  <2>2. sndBufUsed' \in Int
    BY <1>1, <1>3, <1>4
  <2> QED BY <1>2, <1>3, <1>9, <1>10, <2>1, <2>2 DEF SndInv, SndTypeOK, Cc
<1>12. NumberInv'
  <2>1. sndBufUsed' = written' + 1 - sndUna' + job'.acked
    BY <1>1, <1>3, <1>4 DEF NoJob
  <2> QED BY <2>1, <1>3 DEF SndInv, NumberInv
<1>13. CountInv'
  BY <1>3, <1>10 DEF SndInv, CountInv
<1>14. LongIsSentAgain'
  <2>1. ASSUME NEW i \in 1..(writeNext - 1) PROVE writeList'[i].len <= maxPayloadSize
    <3>1. i \in 1..Len(writeList') /\ writeList'[i] \in Segment /\ writeList[i] \in Segment
      BY <1>2, <1>6, BaseType
    <3>2. writeList'[i].len <= writeList[i].len /\ writeList[i].len <= maxPayloadSize
      BY <1>2, <1>6
    <3>3. writeList'[i].len \in Nat /\ writeList[i].len \in Nat /\ maxPayloadSize \in Nat
      BY <3>1 DEF SndInv, SndTypeOK, Segment
    <3> QED BY <3>2, <3>3
  <2> QED BY <2>1, <1>3 DEF LongIsSentAgain
<1>15. TimerArmed' /\ RecoveryEnds'
  BY <1>3 DEF SndInv, TimerArmed, RecoveryEnds
<1>16. DataInv'
  BY <1>2, <1>3 DEF SndInv, DataInv
<1> QED BY <1>7, <1>8, <1>11, <1>12, <1>13, <1>14, <1>15, <1>16 DEF SndInv

-----------------------------------------------------------------------------
(* sendData. *)

\* The segment sendData looks at, numbered.
LEMMA NumberedSegment ==
  ASSUME SndInv, sndPc = "send", writeNext <= Len(writeList),
         NEW s, s = Numbered(writeList[writeNext])
  PROVE  /\ writeNext \in 1..Len(writeList) /\ writeList[writeNext] \in Segment
         /\ s \in Segment /\ s.off = writeList[writeNext].off
         /\ s.len = writeList[writeNext].len
         /\ \/ /\ writeList[writeNext].flags = "none"
               /\ s.seq = sndNxt /\ s.flags = "data"
            \/ writeList[writeNext].flags # "none" /\ s = writeList[writeNext]
         /\ s.off <= sndNxt /\ InList(writeList[writeNext], sndNxt)
         /\ s.flags = "fin" \/ ListEnd(s) <= sndNxt \/ (s.off = sndNxt /\ s.seq = sndNxt)
         /\ Tiles(writeList, sndUna, sndNxtList) /\ Base = sndUna /\ job = NoJob
<1> DEFINE q == writeList  i == writeNext
<1>1. /\ q \in Seq(Segment) /\ Len(q) \in Nat /\ i \in 1..(Len(q) + 1)
      /\ sndUna \in Int /\ sndNxt \in Int /\ sndNxtList \in Int
      /\ sndUna <= sndNxt
  BY BaseType
<1>2. i \in 1..Len(q) /\ q[i] \in Segment
  BY <1>1
<1>3. job = NoJob /\ Base = sndUna
  <2>1. job = NoJob
    BY DEF SndInv, NumberInv
  <2> QED BY <2>1, <1>1 DEF Base, NoJob
<1>4. /\ Tiles(q, sndUna, sndNxtList) /\ InList(q[i], sndNxt)
      /\ \A k \in 1..(i - 1) : ListEnd(q[k]) <= sndNxt
  BY <1>2, <1>3 DEF SndInv, ListInv
<1>5. q[i].off <= sndNxt
  BY <1>1, <1>2, <1>4, NextIsNew
<1>6. CASE q[i].flags = "none"
  <2>1. s = [q[i] EXCEPT !.seq = sndNxt, !.flags = "data"]
    BY <1>6 DEF Numbered
  <2>2. s \in Segment /\ s.off = q[i].off /\ s.len = q[i].len /\ s.seq = sndNxt
        /\ s.flags = "data"
    BY <2>1, <1>1, <1>2 DEF Segment, Flags
  <2>3. sndNxt <= q[i].off /\ q[i].off \in Int
    BY <1>2, <1>4, <1>6 DEF InList, Segment
  <2>4. s.off = sndNxt
    BY <2>2, <2>3, <1>1, <1>5
  <2> QED BY <2>2, <2>4, <1>2, <1>3, <1>4, <1>5, <1>6
<1>7. CASE q[i].flags # "none"
  <2>1. s = q[i]
    BY <1>7 DEF Numbered
  <2>2. s.off \in Int /\ s.seq \in Int
    BY <2>1, <1>2 DEF Segment
  <2>3. s.flags = "fin" \/ ListEnd(s) <= sndNxt \/ (s.off = sndNxt /\ s.seq = sndNxt)
    <3>1. \/ s.flags = "fin" \/ ListEnd(s) <= sndNxt
          \/ s.flags = "data" /\ sndNxt <= s.off /\ s.seq = s.off
      BY <1>4, <1>7, <2>1 DEF InList
    <3>2. sndNxt <= s.off => s.off = sndNxt
      BY <2>1, <2>2, <1>1, <1>5
    <3> QED BY <3>1, <3>2, Zenon
  <2> QED BY <2>1, <2>3, <1>2, <1>3, <1>4, <1>5, <1>7
<1> QED BY <1>6, <1>7

LEMMA SendDataInv ==
  ASSUME SndInv, SendData
  PROVE  SndInv'
<1> USE DEF appVars, ackVars, rtoVars, fixedVars, mtuVars
<1> DEFINE s == Numbered(writeList[writeNext])
           n == MinOf(WindowEnd - s.seq, maxPayloadSize)
           list == SplitAt(writeList, writeNext, s, n)
           out == list[writeNext]
<1>1. /\ writeList \in Seq(Segment) /\ Len(writeList) \in Nat
      /\ sndUna \in Int /\ sndNxt \in Int /\ sndNxtList \in Int
      /\ sndUna <= sndNxt /\ sndNxt <= sndNxtList
  BY BaseType
<1>2. /\ sndPc = "send" /\ writeNext <= Len(writeList)
      /\ s.len > 0 /\ s.seq < WindowEnd
      /\ writeList' = list
      /\ sndNxt' = MaxOf(sndNxt, out.seq + out.len)
      /\ outstanding' = outstanding + 1 /\ writeNext' = writeNext + 1
      /\ UNCHANGED <<sndQueue, sndBufInQueue, sndClosed, written, sndNxtList,
                     sndUna, sndWnd, sndBufUsed, cc, fr, resendTimer,
                     maxPayloadSize, packetTooBigCount, sndMTU, tooBigs, sndPc, job>>
  BY DEF SendData
<1>3. /\ writeNext \in 1..Len(writeList) /\ writeList[writeNext] \in Segment
      /\ s \in Segment /\ s.off = writeList[writeNext].off
      /\ s.len = writeList[writeNext].len
      /\ \/ /\ writeList[writeNext].flags = "none"
            /\ s.seq = sndNxt /\ s.flags = "data"
         \/ writeList[writeNext].flags # "none" /\ s = writeList[writeNext]
      /\ Tiles(writeList, sndUna, sndNxtList) /\ Base = sndUna
  BY <1>2, NumberedSegment
<1> HIDE DEF s
<1>4. n \in Int /\ 0 < n /\ n <= maxPayloadSize /\ maxPayloadSize \in Nat
  <2>1. s.seq \in Int /\ WindowEnd \in Int /\ maxPayloadSize \in Nat \ {0}
    <3>1. s.seq \in Int
      BY <1>3 DEF Segment
    <3>2. WindowEnd \in Int /\ maxPayloadSize \in Nat \ {0}
      BY DEF SndInv, SndTypeOK, WindowEnd
    <3> QED BY <3>1, <3>2
  <2> QED BY <1>2, <2>1 DEF MinOf
<1> HIDE DEF n
<1>5. list \in Seq(Segment) /\ Tiles(list, sndUna, sndNxtList)
  BY <1>1, <1>2, <1>3, <1>4, SplitTiles
<1>6. /\ \A k \in 1..(writeNext - 1) : ListEnd(writeList[k]) <= sndNxt
      /\ \A k \in 1..Len(writeList) : InList(writeList[k], sndNxt)
  BY DEF SndInv, ListInv
<1>7. /\ sndNxt' \in Int /\ sndNxt <= sndNxt' /\ sndNxt' <= sndNxtList
      /\ Len(list) >= Len(writeList)
      /\ \A k \in 1..Len(list) : InList(list[k], sndNxt')
      /\ \A k \in 1..writeNext : ListEnd(list[k]) <= sndNxt'
      /\ \A k \in 1..(writeNext - 1) : list[k] = writeList[k]
      /\ list[writeNext].len <= n
      /\ (\A k \in 1..Len(writeList) : writeList[k].len > 0) => \A k \in 1..Len(list) : list[k].len > 0
      /\ \A k \in 1..Len(list) :
           \E j \in 1..Len(writeList) : DataEnd(list[k]) <= DataEnd(writeList[j])
  <2>1. sndNxt' = MaxOf(sndNxt, list[writeNext].seq + list[writeNext].len)
    BY <1>2
  <2> HIDE DEF list
  <2>2. list = SplitAt(writeList, writeNext, s, n)
    BY DEF list
  <2>3. s.len > 0
    BY <1>2
  <2>4. IsSent(SplitAt(writeList, writeNext, s, n),
               MaxOf(sndNxt, SplitAt(writeList, writeNext, s, n)[writeNext].seq
                              + SplitAt(writeList, writeNext, s, n)[writeNext].len),
               writeList, writeNext, n, sndNxt, sndNxtList)
    BY <1>1, <1>3, <1>4, <1>6, <2>3, SplitInList
  <2> QED BY <2>1, <2>2, <2>4 DEF IsSent
<1> HIDE DEF list
<1>8. ListInv'
  <2>1. Base' = sndUna
    BY <1>2, <1>3 DEF Base
  <2>2. writeNext' - 1 = writeNext
    BY <1>2, <1>3
  <2> QED BY <1>2, <1>5, <1>7, <2>1, <2>2 DEF ListInv
<1>9. QueueInv'
  BY <1>2, <1>7 DEF SndInv, QueueInv
<1>10. SndTypeOK'
  <2>1. outstanding' \in Int
    BY <1>2 DEF SndInv, SndTypeOK
  <2>2. Len(list) \in Nat
    BY <1>5
  <2>3. writeNext' \in 1..(Len(list) + 1)
    BY <1>1, <1>2, <1>3, <1>7, <2>2
  <2> QED BY <1>2, <1>5, <1>7, <2>1, <2>3 DEF SndInv, SndTypeOK
<1>11. NumberInv'
  <2>1. sndUna <= sndNxt'
    BY <1>1, <1>7
  <2> QED BY <2>1, <1>2, <1>7 DEF SndInv, NumberInv
<1>12. CountInv'
  <2>1. tooBigs = 0 => outstanding' <= writeNext' - 1
    <3>1. outstanding \in Int /\ (tooBigs = 0 => outstanding <= writeNext - 1)
      BY DEF SndInv, SndTypeOK, CountInv
    <3> QED BY <3>1, <1>2, <1>3
  <2> QED BY <2>1, <1>2 DEF SndInv, CountInv
<1>13. LongIsSentAgain'
  <2>1. ASSUME NEW k \in 1..writeNext PROVE list[k].len <= maxPayloadSize
    <3>1. CASE k = writeNext
      <4>1. list[writeNext] \in Segment
        BY <1>1, <1>3, <1>5, <1>7
      <4>2. list[writeNext].len \in Nat
        BY <4>1 DEF Segment
      <4> QED BY <3>1, <4>2, <1>4, <1>7
    <3>2. CASE k \in 1..(writeNext - 1)
      <4>1. k \in 1..Len(writeList) /\ list[k] = writeList[k]
        BY <3>2, <1>1, <1>3, <1>7
      <4>2. k \in DOMAIN writeList
        BY <4>1, <1>1
      <4> QED BY <3>2, <4>1, <4>2 DEF SndInv, LongIsSentAgain
    <3> QED BY <3>1, <3>2, <1>3
  <2>2. writeNext' - 1 = writeNext
    BY <1>2, <1>3
  <2> QED BY <2>1, <2>2, <1>2 DEF LongIsSentAgain
<1>14. RecoveryEnds'
  <2>1. fr.last \in Int /\ fr.active \in BOOLEAN
    BY DEF SndInv, SndTypeOK
  <2>2. fr.last < sndNxt => fr.last < sndNxt'
    BY <2>1, <1>1, <1>7
  <2> QED BY <2>2, <1>2 DEF SndInv, RecoveryEnds
<1>15. TimerArmed'
  BY <1>2 DEF TimerArmed
<1>16. DataInv'
  <2>1. Typed(writeList) /\ Typed(list) /\ written \in Nat
    BY <1>5, ListTyped DEF SndInv, SndTypeOK
  <2>2. ASSUME NEW k \in 1..Len(list) PROVE DataEnd(list[k]) <= written + 1
    <3>1. PICK j \in 1..Len(writeList) : DataEnd(list[k]) <= DataEnd(writeList[j])
      BY <1>7
    <3>2. DataEnd(writeList[j]) <= written + 1
      BY DEF SndInv, DataInv
    <3>3. DataEnd(list[k]) \in Int /\ DataEnd(writeList[j]) \in Int
      BY <2>1 DEF Typed
    <3> QED BY <3>1, <3>2, <3>3, <2>1
  <2> QED BY <2>2, <1>2 DEF SndInv, DataInv
<1> QED BY <1>8, <1>9, <1>10, <1>11, <1>12, <1>13, <1>14, <1>15, <1>16 DEF SndInv

LEMMA SendFinInv ==
  ASSUME SndInv, SendFin
  PROVE  SndInv'
<1> USE DEF appVars, ackVars, ccVars, rtoVars, fixedVars, mtuVars
<1> DEFINE q == writeList  i == writeNext
           o == Numbered(q[i])
           s == [o EXCEPT !.flags = "fin"]
           list == [q EXCEPT ![i] = s]
<1>1. /\ q \in Seq(Segment) /\ Len(q) \in Nat
      /\ sndUna \in Int /\ sndNxt \in Int /\ sndNxtList \in Int
      /\ sndUna <= sndNxt /\ sndNxt <= sndNxtList
  BY BaseType
<1>2. /\ sndPc = "send" /\ i <= Len(q)
      /\ s.len = 0 /\ writeList' = list
      /\ sndNxt' = MaxOf(sndNxt, s.seq + 1)
      /\ writeNext' = i + 1
      /\ UNCHANGED <<sndQueue, sndBufInQueue, sndClosed, written, sndNxtList,
                     sndUna, sndWnd, sndBufUsed, outstanding, cc, fr, resendTimer,
                     maxPayloadSize, packetTooBigCount, sndMTU, tooBigs, sndPc, job>>
  BY DEF SendFin
<1>3. /\ i \in 1..Len(q) /\ q[i] \in Segment
      /\ o \in Segment /\ o.off = q[i].off /\ o.len = q[i].len
      /\ \/ q[i].flags = "none" /\ o.seq = sndNxt /\ o.flags = "data"
         \/ q[i].flags # "none" /\ o = q[i]
      /\ o.off <= sndNxt /\ InList(q[i], sndNxt)
      /\ o.flags = "fin" \/ ListEnd(o) <= sndNxt \/ (o.off = sndNxt /\ o.seq = sndNxt)
      /\ Tiles(q, sndUna, sndNxtList) /\ Base = sndUna
  BY <1>2, NumberedSegment
<1> HIDE DEF o
<1>4. /\ s \in Segment /\ s.off = q[i].off /\ s.len = q[i].len /\ s.seq = o.seq
      /\ s.flags = "fin"
  BY <1>3 DEF Segment, Flags
<1> HIDE DEF s
<1>5. q[i].len = 0 /\ s.off \in Int /\ s.seq \in Int
  BY <1>2, <1>4 DEF Segment
<1>6. s.seq = s.off /\ s.off <= sndNxt
  <2>1. s.off <= sndNxt
    BY <1>3, <1>4
  <2>2. CASE q[i].flags = "none" /\ o.seq = sndNxt
    <3>1. sndNxt <= q[i].off
      BY <2>2, <1>3 DEF InList
    <3> QED BY <3>1, <2>1, <2>2, <1>1, <1>4, <1>5
  <2>3. CASE q[i].flags # "none" /\ o = q[i]
    <3>1. q[i].flags = "fin" /\ q[i].seq = q[i].off
      BY <2>3, <1>3, <1>5 DEF InList
    <3> QED BY <3>1, <2>1, <2>3, <1>4
  <2> QED BY <2>2, <2>3, <1>3
<1>7. ListEnd(s) = s.off + 1 /\ ListEnd(q[i]) = s.off + 1
  BY <1>4, <1>5 DEF ListEnd
<1>8. list \in Seq(Segment) /\ Tiles(list, sndUna, sndNxtList)
  BY <1>3, <1>4, <1>1, TilesReplace
<1>9. /\ Len(list) = Len(q) /\ list[i] = s
      /\ \A k \in 1..Len(q) : k # i => list[k] = q[k]
  BY <1>1, <1>3
<1> HIDE DEF list
<1>10. /\ sndNxt' \in Int /\ sndNxt <= sndNxt' /\ sndNxt' <= sndNxtList
       /\ ListEnd(s) <= sndNxt'
  <2>1. ListEnd(q[i]) <= sndNxtList
    BY <1>3 DEF Tiles
  <2> QED BY <2>1, <1>1, <1>2, <1>5, <1>6, <1>7 DEF MaxOf
<1>11. ASSUME NEW k \in 1..Len(q), k # i
       PROVE  ListEnd(q[k]) <= sndNxt /\ q[k].len > 0
  <2>1. i < k => q[i].len > 0
    BY <1>3 DEF Tiles
  <2>2. k < i
    BY <2>1, <1>3, <1>5, <1>1, <1>11
  <2>3. k \in 1..(i - 1)
    BY <2>2, <1>3, <1>1
  <2>4. q[k].len > 0
    BY <2>2, <1>3 DEF Tiles
  <2> QED BY <2>3, <2>4 DEF SndInv, ListInv
<1>12. ASSUME NEW k \in 1..Len(q)
       PROVE  InList(list[k], sndNxt') /\ ListEnd(list[k]) <= sndNxt'
  <2>1. CASE k = i
    BY <2>1, <1>2, <1>4, <1>6, <1>9, <1>10 DEF InList
  <2>2. CASE k # i
    <3>1. list[k] = q[k] /\ ListEnd(q[k]) <= sndNxt /\ q[k].len > 0
      BY <2>2, <1>9, <1>11
    <3>2. InList(q[k], sndNxt) /\ ListEnd(q[k]) \in Int /\ q[k].off < ListEnd(q[k])
          /\ q[k].off \in Int
      BY <1>1, ListTyped DEF SndInv, ListInv, Typed
    <3>3. ListEnd(q[k]) <= sndNxt' /\ q[k].flags # "none"
      BY <3>1, <3>2, <1>1, <1>10 DEF InList
    <3> QED BY <3>1, <3>2, <3>3 DEF InList
  <2> QED BY <2>1, <2>2
<1>13. ListInv'
  <2>1. Base' = sndUna
    BY <1>2, <1>3 DEF Base
  <2>2. writeNext' - 1 = i
    BY <1>2, <1>3
  <2>3. \A k \in 1..i : k \in 1..Len(q)
    BY <1>1, <1>3
  <2> QED BY <1>2, <1>8, <1>9, <1>12, <2>1, <2>2, <2>3 DEF ListInv
<1>14. QueueInv'
  <2>1. sndQueue = <<>> /\ sndClosed
    BY <1>3, <1>5 DEF SndInv, QueueInv
  <2> QED BY <2>1, <1>2 DEF SndInv, QueueInv
<1>15. SndTypeOK'
  <2>1. writeNext' \in 1..(Len(list) + 1)
    BY <1>1, <1>2, <1>3, <1>9
  <2> QED BY <1>2, <1>8, <1>10, <2>1 DEF SndInv, SndTypeOK
<1>16. NumberInv'
  <2>1. sndUna <= sndNxt'
    BY <1>1, <1>10
  <2> QED BY <2>1, <1>2, <1>10 DEF SndInv, NumberInv
<1>17. CountInv'
  <2>1. tooBigs = 0 => outstanding' <= writeNext' - 1
    <3>1. outstanding \in Int /\ (tooBigs = 0 => outstanding <= i - 1)
      BY DEF SndInv, SndTypeOK, CountInv
    <3> QED BY <3>1, <1>2, <1>3
  <2> QED BY <2>1, <1>2 DEF SndInv, CountInv
<1>18. LongIsSentAgain'
  <2>1. ASSUME NEW k \in 1..i PROVE list[k].len <= maxPayloadSize
    <3>1. CASE k = i
      <4>1. maxPayloadSize \in Nat
        BY DEF SndInv, SndTypeOK
      <4> QED BY <3>1, <4>1, <1>2, <1>9
    <3>2. CASE k \in 1..(i - 1)
      <4>1. k \in 1..Len(q) /\ k # i
        BY <3>2, <1>1, <1>3
      <4>2. k \in DOMAIN q
        BY <4>1, <1>1
      <4> QED BY <3>2, <4>1, <4>2, <1>9 DEF SndInv, LongIsSentAgain
    <3> QED BY <3>1, <3>2, <1>3
  <2>2. writeNext' - 1 = i
    BY <1>2, <1>3
  <2> QED BY <2>1, <2>2, <1>2 DEF LongIsSentAgain
<1>19. RecoveryEnds'
  <2>1. fr.last \in Int /\ fr.active \in BOOLEAN
    BY DEF SndInv, SndTypeOK
  <2>2. fr.last < sndNxt => fr.last < sndNxt'
    BY <2>1, <1>1, <1>10
  <2> QED BY <2>2, <1>2 DEF SndInv, RecoveryEnds
<1>20. TimerArmed'
  BY <1>2 DEF TimerArmed
<1>21. DataInv'
  <2>1. DataEnd(s) = DataEnd(q[i])
    BY <1>4 DEF DataEnd
  <2> QED BY <2>1, <1>2, <1>3, <1>9 DEF SndInv, DataInv
<1> QED BY <1>13, <1>14, <1>15, <1>16, <1>17, <1>18, <1>19, <1>20, <1>21 DEF SndInv

LEMMA SendStopInv ==
  ASSUME SndInv, SendStop
  PROVE  SndInv'
<1> USE DEF appVars, ackVars, ccVars, fixedVars, mtuVars
<1> DEFINE q == writeList  i == writeNext  s == Numbered(q[i])
<1>1. /\ q \in Seq(Segment) /\ Len(q) \in Nat /\ i \in 1..(Len(q) + 1)
      /\ sndUna \in Int /\ sndNxt \in Int /\ sndNxtList \in Int
      /\ sndUna <= sndNxt /\ sndNxt <= sndNxtList
  BY BaseType
<1>2. /\ sndPc = "send" /\ sndPc' = "idle" /\ resendTimer' = TimerWanted
      /\ UNCHANGED <<sndQueue, sndBufInQueue, sndClosed, written, writeNext,
                     sndNxtList, sndUna, sndWnd, sndBufUsed, outstanding, cc, fr,
                     sndNxt, maxPayloadSize, packetTooBigCount, sndMTU, tooBigs, job>>
  BY DEF SendStop
<1>3. job = NoJob /\ Base = sndUna
  <2>1. job = NoJob
    BY <1>2 DEF SndInv, NumberInv
  <2> QED BY <2>1, <1>1 DEF Base, NoJob
<1>4. /\ Tiles(q, sndUna, sndNxtList) /\ \A k \in 1..Len(q) : InList(q[k], sndNxt)
      /\ \A k \in 1..(i - 1) : ListEnd(q[k]) <= sndNxt
  BY <1>3 DEF SndInv, ListInv
<1>5. /\ writeList' \in Seq(Segment) /\ Len(writeList') = Len(q)
      /\ Tiles(writeList', sndUna, sndNxtList)
      /\ \A k \in 1..Len(q) : /\ InList(writeList'[k], sndNxt)
                              /\ ListEnd(writeList'[k]) = ListEnd(q[k])
                              /\ DataEnd(writeList'[k]) = DataEnd(q[k])
                              /\ writeList'[k].len = q[k].len
  <2>1. CASE writeList' = q
    BY <2>1, <1>1, <1>4
  <2>2. CASE /\ i <= Len(q) /\ s.len > 0 /\ writeList' = [q EXCEPT ![i] = s]
    <3>1. /\ i \in 1..Len(q) /\ q[i] \in Segment
          /\ s \in Segment /\ s.off = q[i].off /\ s.len = q[i].len
          /\ \/ q[i].flags = "none" /\ s.seq = sndNxt /\ s.flags = "data"
             \/ q[i].flags # "none" /\ s = q[i]
          /\ s.flags = "fin" \/ ListEnd(s) <= sndNxt \/ (s.off = sndNxt /\ s.seq = sndNxt)
      BY <2>2, <1>2, NumberedSegment
    <3> HIDE DEF s
    <3>2. writeList' \in Seq(Segment) /\ Tiles(writeList', sndUna, sndNxtList)
      BY <1>1, <1>4, <2>2, <3>1, TilesReplace
    <3>3. /\ Len(writeList') = Len(q) /\ writeList'[i] = s
          /\ \A k \in 1..Len(q) : k # i => writeList'[k] = q[k]
      BY <1>1, <2>2, <3>1
    <3>4. InList(s, sndNxt)
      <4>1. CASE q[i].flags = "none" /\ s.seq = sndNxt /\ s.flags = "data"
        <5>1. s.off = sndNxt \/ ListEnd(s) <= sndNxt
          BY <3>1, <4>1
        <5>2. sndNxt <= s.off
          BY <4>1, <3>1, <1>4 DEF InList
        <5>3. s.seq <= s.off /\ sndNxt <= s.off
          BY <4>1, <5>2
        <5>4. s.off = sndNxt
          BY <5>1, <5>2, <3>1, <1>1, SegTypes
        <5> QED BY <2>2, <4>1, <5>3, <5>4 DEF InList
      <4>2. CASE q[i].flags # "none" /\ s = q[i]
        BY <4>2, <3>1, <1>4
      <4> QED BY <4>1, <4>2, <3>1
    <3>5. ListEnd(s) = ListEnd(q[i]) /\ DataEnd(s) = DataEnd(q[i])
      BY <3>1 DEF ListEnd, DataEnd
    <3> QED BY <3>1, <3>2, <3>3, <3>4, <3>5, <1>4
  <2> QED BY <2>1, <2>2 DEF SendStop
<1>6. ASSUME NEW k \in 1..(i - 1)
      PROVE  k \in 1..Len(q) /\ k \in DOMAIN q
  BY <1>1
<1>7. Base' = sndUna
  BY <1>2, <1>3 DEF Base
<1>8. ListInv'
  BY <1>2, <1>4, <1>5, <1>6, <1>7 DEF ListInv
<1>9. QueueInv'
  <2>1. sndQueue # <<>> => \A k \in 1..Len(writeList') : writeList'[k].len > 0
    BY <1>5 DEF SndInv, QueueInv
  <2>2. sndClosed \/ \A k \in 1..Len(writeList') : writeList'[k].len > 0
    BY <1>5 DEF SndInv, QueueInv
  <2> QED BY <2>1, <2>2, <1>2 DEF SndInv, QueueInv
<1>10. DataInv'
  BY <1>2, <1>5 DEF SndInv, DataInv
<1>11. SndTypeOK'
  BY <1>2, <1>5 DEF SndInv, SndTypeOK
<1>12. NumberInv' /\ CountInv' /\ RecoveryEnds'
  BY <1>2, <1>3 DEF SndInv, NumberInv, CountInv, RecoveryEnds
<1>13. LongIsSentAgain'
  BY <1>2, <1>5, <1>6 DEF SndInv, LongIsSentAgain
<1>14. TimerArmed'
  <2>1. resendTimer' = (resendTimer \/ sndUna # sndNxt)
    BY <1>2, Zenon DEF TimerWanted
  <2>2. sndUna' = sndUna /\ sndNxt' = sndNxt
    BY <1>2
  <2> QED BY <2>1, <2>2, Zenon DEF TimerArmed
<1> QED BY <1>8, <1>9, <1>10, <1>11, <1>12, <1>13, <1>14 DEF SndInv

-----------------------------------------------------------------------------
(* Timeouts, and messages about the path. *)

LEMMA TimeoutInv ==
  ASSUME SndInv, RetransmitTimerExpired
  PROVE  SndInv'
<1> USE DEF appVars, ackVars, fixedVars, mtuVars
<1>1. /\ sndPc = "idle" /\ sndPc' = "send" /\ outstanding' = 0 /\ writeNext' = 1
      /\ cc' = [ReduceSlowStartThreshold(cc) EXCEPT !.cwnd = 1]
      /\ UNCHANGED <<sndQueue, sndBufInQueue, sndClosed, written, writeList,
                     sndNxtList, sndUna, sndWnd, sndBufUsed, sndNxt,
                     maxPayloadSize, packetTooBigCount, sndMTU, tooBigs, job>>
  BY DEF RetransmitTimerExpired
<1>2. cc' \in Cc
  <2>1. cc \in Cc /\ outstanding \in Int
    BY DEF SndInv, SndTypeOK, Cc
  <2> DEFINE c == ReduceSlowStartThreshold(cc)
  <2>2. c \in Cc
    BY <2>1, ReduceType
  <2> HIDE DEF c
  <2>3. [c EXCEPT !.cwnd = 1] \in Cc
    BY <2>2 DEF Cc
  <2> QED BY <2>3, <1>1 DEF c
<1>3. fr' \in Fr /\ ~fr'.active
  <2>1. fr \in Fr /\ sndNxt \in Int
    BY DEF SndInv, SndTypeOK, Fr
  <2>2. \E x, y \in Int : fr' = [fr EXCEPT !.active = FALSE, !.last = sndNxt - 1,
                                           !.first = x, !.maxCwnd = y]
    <3>1. CASE fr.active
      <4>1. fr' = [fr EXCEPT !.active = FALSE, !.last = sndNxt - 1,
                             !.first = 0, !.maxCwnd = 0]
        BY <3>1 DEF RetransmitTimerExpired
      <4>2. 0 \in Int
        OBVIOUS
      <4> QED BY <4>1, <4>2, Zenon
    <3>2. CASE ~fr.active
      <4>1. fr' = [fr EXCEPT !.active = FALSE, !.last = sndNxt - 1,
                             !.first = fr.first, !.maxCwnd = fr.maxCwnd]
        BY <3>2 DEF RetransmitTimerExpired
      <4>2. fr.first \in Int /\ fr.maxCwnd \in Int
        BY <2>1 DEF Fr
      <4> QED BY <4>1, <4>2
    <3> QED BY <3>1, <3>2
  <2>3. PICK x \in Int, y \in Int : fr' = [fr EXCEPT !.active = FALSE, !.last = sndNxt - 1,
                                                   !.first = x, !.maxCwnd = y]
    BY <2>2
  <2>4. sndNxt - 1 \in Int
    BY <2>1
  <2> QED BY <2>1, <2>3, <2>4 DEF Fr
<1>4. SndTypeOK'
  <2>1. writeNext' \in 1..(Len(writeList') + 1)
    BY <1>1, BaseType
  <2> QED BY <1>1, <1>2, <1>3, <2>1 DEF SndInv, SndTypeOK, Cc, Fr
<1>5. ListInv'
  BY <1>1 DEF SndInv, ListInv, Base
<1>6. QueueInv' /\ DataInv' /\ NumberInv'
  BY <1>1 DEF SndInv, QueueInv, DataInv, NumberInv
<1>7. CountInv' /\ LongIsSentAgain' /\ TimerArmed' /\ RecoveryEnds'
  BY <1>1, <1>3 DEF SndInv, CountInv, LongIsSentAgain, TimerArmed, RecoveryEnds
<1> QED BY <1>4, <1>5, <1>6, <1>7 DEF SndInv

\* Steps that touch only what is known of the path, the wire or the timer.
LEMMA AsideInv ==
  ASSUME SndInv, packetTooBigCount' \in Nat, sndMTU' \in Nat \ {0}, tooBigs' \in Nat,
         packetTooBigCount' > 0 => tooBigs' > 0, tooBigs <= tooBigs',
         UNCHANGED <<sndQueue, sndBufInQueue, sndBufUsed, sndClosed, written,
                     listVars, sndUna, sndWnd, ccVars, sndNxt, maxPayloadSize, job>>,
         (sndPc' = sndPc /\ resendTimer' = resendTimer) \/ (sndPc' = "dead" /\ sndPc = "idle")
  PROVE  SndInv'
<1> USE DEF listVars, ccVars
<1>1. SndTypeOK'
  <2>1. sndPc' \in {"idle", "pop", "send", "dead"}
    BY DEF SndInv, SndTypeOK
  <2> QED BY <2>1 DEF SndInv, SndTypeOK
<1>2. ListInv' /\ QueueInv' /\ DataInv' /\ RecoveryEnds' /\ LongIsSentAgain'
  BY DEF SndInv, ListInv, Base, QueueInv, DataInv, RecoveryEnds, LongIsSentAgain
<1>3. NumberInv' /\ TimerArmed'
  BY DEF SndInv, NumberInv, TimerArmed
<1>4. CountInv'
  <2>1. tooBigs' = 0 => tooBigs = 0
    BY DEF SndInv, SndTypeOK
  <2> QED BY <2>1 DEF SndInv, CountInv
<1> QED BY <1>1, <1>2, <1>3, <1>4 DEF SndInv

LEMMA GiveUpInv ==
  ASSUME SndInv, GiveUp
  PROVE  SndInv'
<1> USE DEF appVars, ackVars, fixedVars, mtuVars
<1>1. /\ packetTooBigCount \in Nat /\ sndMTU \in Nat \ {0} /\ tooBigs \in Nat
      /\ packetTooBigCount > 0 => tooBigs > 0 /\ tooBigs <= tooBigs
  BY DEF SndInv, SndTypeOK, CountInv
<1> QED BY <1>1, AsideInv DEF GiveUp, SndInv, SndTypeOK

LEMMA HandleControlPacketInv ==
  ASSUME SndInv, NEW s, NEW m \in Nat \ {0}, HandleControlPacket(s, m)
  PROVE  SndInv'
<1> USE DEF appVars, ackVars, rtoVars
<1>1. /\ packetTooBigCount \in Nat /\ sndMTU \in Nat \ {0} /\ tooBigs \in Nat
  BY DEF SndInv, SndTypeOK
<1>2. /\ packetTooBigCount' = packetTooBigCount + 1 /\ sndMTU' = MinOf(sndMTU, m)
      /\ tooBigs' = tooBigs + 1
      /\ UNCHANGED <<sndQueue, sndBufInQueue, sndBufUsed, sndClosed, written,
                     listVars, sndUna, sndWnd, ccVars, sndNxt, maxPayloadSize, job>>
      /\ sndPc' = sndPc /\ resendTimer' = resendTimer
  BY DEF HandleControlPacket
<1>3. /\ packetTooBigCount' \in Nat /\ sndMTU' \in Nat \ {0} /\ tooBigs' \in Nat
      /\ tooBigs' > 0 /\ tooBigs <= tooBigs'
  BY <1>1, <1>2 DEF MinOf
<1>4. packetTooBigCount' > 0 => tooBigs' > 0
  BY <1>3
<1>5. (sndPc' = sndPc /\ resendTimer' = resendTimer) \/ (sndPc' = "dead" /\ sndPc = "idle")
  BY <1>2
<1>6. UNCHANGED <<sndQueue, sndBufInQueue, sndBufUsed, sndClosed, written,
                  listVars, sndUna, sndWnd, ccVars, sndNxt, maxPayloadSize, job>>
  BY <1>2
<1> QED BY <1>3, <1>4, <1>5, <1>6, AsideInv, Zenon

LEMMA MtuKnownInv ==
  ASSUME SndInv, MtuKnown
  PROVE  SndInv'
<1> USE DEF appVars, ackVars, rtoVars
<1>1. /\ sndMTU \in Nat \ {0} /\ tooBigs \in Nat /\ tooBigs <= tooBigs
  BY DEF SndInv, SndTypeOK
<1>2. /\ packetTooBigCount' = 0 /\ sndMTU' = sndMTU /\ tooBigs' = tooBigs
      /\ UNCHANGED <<sndQueue, sndBufInQueue, sndBufUsed, sndClosed, written,
                     listVars, sndUna, sndWnd, ccVars, sndNxt, maxPayloadSize, job>>
      /\ sndPc' = sndPc /\ resendTimer' = resendTimer
  BY DEF MtuKnown
<1>3. /\ packetTooBigCount' \in Nat /\ sndMTU' \in Nat \ {0} /\ tooBigs' \in Nat
      /\ ~(packetTooBigCount' > 0) /\ tooBigs <= tooBigs'
  BY <1>1, <1>2
<1>4. packetTooBigCount' > 0 => tooBigs' > 0
  BY <1>3
<1>5. (sndPc' = sndPc /\ resendTimer' = resendTimer) \/ (sndPc' = "dead" /\ sndPc = "idle")
  BY <1>2
<1>6. UNCHANGED <<sndQueue, sndBufInQueue, sndBufUsed, sndClosed, written,
                  listVars, sndUna, sndWnd, ccVars, sndNxt, maxPayloadSize, job>>
  BY <1>2
<1> QED BY <1>3, <1>4, <1>5, <1>6, AsideInv, Zenon

LEMMA MtuShrinksInv ==
  ASSUME SndInv, MtuShrinks
  PROVE  SndInv'
<1> USE DEF appVars, ackVars, rtoVars
<1>1. /\ Len(writeList) \in Nat /\ writeNext \in 1..(Len(writeList) + 1)
      /\ packetTooBigCount \in Nat /\ sndMTU \in Nat \ {0} /\ tooBigs \in Nat
      /\ outstanding \in Int
  BY BaseType DEF SndInv, SndTypeOK
<1>2. /\ sndPc = "idle" /\ sndPc' = "send" /\ packetTooBigCount > 0
      /\ packetTooBigCount' = 0 /\ maxPayloadSize' = sndMTU
      /\ outstanding' = MaxOf(outstanding - packetTooBigCount, 0)
      /\ cc' \in AfterIdle(cc, fr.active) /\ Rewound(sndMTU)
      /\ UNCHANGED <<sndQueue, sndBufInQueue, sndClosed, written, writeList,
                     sndNxtList, sndUna, sndWnd, sndBufUsed, fr, sndNxt,
                     resendTimer, sndMTU, tooBigs, job>>
  BY DEF MtuShrinks
<1>3. /\ writeNext' \in 1..writeNext
      /\ \A i \in 1..(writeNext' - 1) : writeList[i].len <= sndMTU
  BY <1>2 DEF Rewound
<1>4. cc' \in Cc
  <2>1. cc \in Cc
    BY DEF SndInv, SndTypeOK, Cc
  <2> QED BY <2>1, <1>2, AfterIdleType
<1>5. tooBigs > 0
  BY <1>2 DEF SndInv, CountInv
<1>6. SndTypeOK'
  <2>1. outstanding' \in Int
    BY <1>1, <1>2 DEF MaxOf
  <2>2. writeNext' \in 1..(Len(writeList') + 1)
    BY <1>1, <1>2, <1>3
  <2> QED BY <1>1, <1>2, <1>4, <2>1, <2>2 DEF SndInv, SndTypeOK, Cc
<1>7. ListInv'
  <2>1. \A i \in 1..(writeNext' - 1) : i \in 1..(writeNext - 1)
    <3>1. \A w \in Nat : \A m \in 1..w : \A i \in 1..(m - 1) : i \in 1..(w - 1)
      OBVIOUS
    <3>2. writeNext \in Nat
      BY <1>1
    <3> QED BY <3>1, <3>2, <1>3, Zenon
  <2> QED BY <2>1, <1>2 DEF SndInv, ListInv, Base
<1>8. QueueInv' /\ DataInv' /\ NumberInv'
  BY <1>2 DEF SndInv, QueueInv, DataInv, NumberInv
<1>9. CountInv'
  BY <1>1, <1>2, <1>5 DEF CountInv
<1>10. LongIsSentAgain' /\ TimerArmed' /\ RecoveryEnds'
  BY <1>2, <1>3 DEF SndInv, LongIsSentAgain, TimerArmed, RecoveryEnds
<1> QED BY <1>4, <1>6, <1>7, <1>8, <1>9, <1>10 DEF SndInv

LEMMA SameInv ==
  ASSUME SndInv, UNCHANGED sndState
  PROVE  SndInv'
<1> USE DEF sndState, appVars, ackVars, rtoVars, fixedVars, mtuVars
<1>1. /\ packetTooBigCount \in Nat /\ sndMTU \in Nat \ {0} /\ tooBigs \in Nat
      /\ packetTooBigCount > 0 => tooBigs > 0
      /\ tooBigs <= tooBigs
  BY DEF SndInv, SndTypeOK, CountInv
<1>2. /\ packetTooBigCount' = packetTooBigCount /\ sndMTU' = sndMTU
      /\ tooBigs' = tooBigs
      /\ UNCHANGED <<sndQueue, sndBufInQueue, sndBufUsed, sndClosed, written,
                     listVars, sndUna, sndWnd, ccVars, sndNxt, maxPayloadSize, job>>
      /\ sndPc' = sndPc /\ resendTimer' = resendTimer
  OBVIOUS
<1>3. /\ packetTooBigCount' \in Nat /\ sndMTU' \in Nat \ {0} /\ tooBigs' \in Nat
      /\ packetTooBigCount' > 0 => tooBigs' > 0
      /\ tooBigs <= tooBigs'
  BY <1>1, <1>2
<1>4. UNCHANGED <<sndQueue, sndBufInQueue, sndBufUsed, sndClosed, written,
                  listVars, sndUna, sndWnd, ccVars, sndNxt, maxPayloadSize, job>>
  BY <1>2
<1>5. (sndPc' = sndPc /\ resendTimer' = resendTimer) \/ (sndPc' = "dead" /\ sndPc = "idle")
  BY <1>2
<1> QED BY <1>3, <1>4, <1>5, AsideInv, Zenon

LEMMA WorkInv ==
  ASSUME SndInv, SenderWork
  PROVE  SndInv'
<1>1. CASE HandleWrite
  BY <1>1, TakeQueueInv DEF HandleWrite, fixedVars
<1>2. CASE HandleClose
  BY <1>2, TakeQueueInv DEF HandleClose
<1> QED BY <1>1, <1>2, PopAckedInv, AckDoneInv, SendDataInv, SendFinInv, SendStopInv
        DEF SenderWork

-----------------------------------------------------------------------------
(* Nothing is forgotten. *)

\* The list and the queue, end to end, are what is unacknowledged.
LEMMA SenderForgetsNothing == SndInv => NothingForgotten
<1> SUFFICES ASSUME SndInv PROVE NothingForgotten
  OBVIOUS
<1> DEFINE end == sndNxtList + sndBufInQueue
           c == IF sndClosed THEN 1 ELSE 0
<1>1. /\ writeList \in Seq(Segment) /\ sndQueue \in Seq(Segment)
      /\ Len(writeList) \in Nat /\ Len(sndQueue) \in Nat
      /\ Base \in Int /\ sndNxtList \in Int /\ end \in Int /\ written \in Nat
      /\ Base = sndUna - job.left
  BY BaseType DEF SndInv, SndTypeOK
<1>2. /\ Tiles(writeList, Base, sndNxtList) /\ Tiles(sndQueue, sndNxtList, end)
      /\ sndQueue # <<>> => \A i \in 1..Len(writeList) : writeList[i].len > 0
      /\ end = written + 1 + c
  BY DEF SndInv, ListInv, QueueInv
<1>3. Base <= sndNxtList /\ sndNxtList <= end
  BY <1>1, <1>2, TilesOrder
<1>4. Unacked \in Seq(Segment) /\ Tiles(Unacked, Base, end)
  <2>1. Tiles(writeList \o sndQueue, Base, end)
    <3> HIDE DEF end
    <3> QED BY <1>1, <1>2, <1>3, TilesConcat
  <2> QED BY <2>1, <1>1, ConcatSeq DEF Unacked
<1>5. /\ Len(Unacked) = Len(writeList) + Len(sndQueue)
      /\ \A i \in 1..Len(writeList) : Unacked[i] = writeList[i]
      /\ \A i \in (Len(writeList) + 1)..(Len(writeList) + Len(sndQueue)) :
            Unacked[i] = sndQueue[i - Len(writeList)]
  BY <1>1, ConcatSeq DEF Unacked
<1>6. ASSUME NEW i \in 1..Len(Unacked)
      PROVE  DataEnd(Unacked[i]) <= written + 1 /\ (~sndClosed => Unacked[i].len > 0)
  <2>1. CASE i \in 1..Len(writeList)
    BY <2>1, <1>5 DEF SndInv, DataInv, QueueInv
  <2>2. CASE i > Len(writeList)
    <3>1. /\ i \in (Len(writeList) + 1)..(Len(writeList) + Len(sndQueue))
          /\ i - Len(writeList) \in 1..Len(sndQueue)
      BY <2>2, <1>1, <1>5
    <3>2. Unacked[i] = sndQueue[i - Len(writeList)]
      BY <3>1, <1>5
    <3> QED BY <3>1, <3>2 DEF SndInv, DataInv, QueueInv
  <2> QED BY <2>1, <2>2, <1>1, <1>5
<1>7. Typed(Unacked)
  BY <1>4, ListTyped
<1>8. \A i \in 1..(Len(Unacked) - 1) :
         Unacked[i + 1].off = Unacked[i].off + Unacked[i].len
  <2>1. ASSUME NEW i \in 1..(Len(Unacked) - 1)
        PROVE  Unacked[i + 1].off = Unacked[i].off + Unacked[i].len
    <3>1. i \in 1..Len(Unacked) /\ i + 1 \in 1..Len(Unacked) /\ i < i + 1
      BY <1>7 DEF Typed
    <3>2. Unacked[i + 1].off = DataEnd(Unacked[i])
      BY <3>1, <1>4 DEF Tiles
    <3> QED BY <3>2 DEF DataEnd
  <2> QED BY <2>1
<1>9. Unacked = <<>> => sndUna - job.left > written
  <2>1. Unacked = <<>> => Base = end
    BY <1>4 DEF Tiles
  <2>2. end > written
    BY <1>1, <1>2
  <2> QED BY <2>1, <2>2, <1>1
<1>10. ASSUME Unacked # <<>>
       PROVE  /\ Unacked[1].off = sndUna - job.left
              /\ Unacked[Len(Unacked)].off + Unacked[Len(Unacked)].len = written + 1
  <2> DEFINE e == Unacked[Len(Unacked)]
  <2>1. Len(Unacked) \in 1..Len(Unacked)
    BY <1>7, <1>10 DEF Typed
  <2>2. /\ ListEnd(e) = end /\ DataEnd(e) <= written + 1
        /\ ~sndClosed => e.len > 0
    BY <2>1, <1>4, <1>6, <1>10 DEF Tiles
  <2>3. e.len \in Nat /\ e.off \in Int
    BY <2>1, <1>7 DEF Typed
  <2> HIDE DEF e
  <2>4. e.off + e.len = written + 1
    <3>1. CASE sndClosed
      <4>1. end = written + 2
        BY <3>1, <1>1, <1>2
      <4>2. e.len = 0
        BY <4>1, <2>2, <2>3, <1>1 DEF ListEnd, DataEnd
      <4> QED BY <4>1, <4>2, <2>2, <2>3, <1>1 DEF ListEnd
    <3>2. CASE ~sndClosed
      <4>1. end = written + 1
        BY <3>2, <1>1, <1>2
      <4> QED BY <4>1, <3>2, <2>2, <2>3, <1>1 DEF ListEnd
    <3> QED BY <3>1, <3>2
  <2>5. Unacked[1].off = Base
    BY <1>4, <1>10 DEF Tiles
  <2> QED BY <2>4, <2>5, <1>1 DEF e
<1>11. /\ sndBufUsed = written + 1 - sndUna + job.acked
       /\ sndUna <= sndNxt /\ sndNxt <= sndNxtList
  BY DEF SndInv, NumberInv
<1>12. (sndPc = "pop" /\ job.left > 0) => writeList # <<>>
  BY HeadIsSent
<1>13. ASSUME NEW i \in DOMAIN writeList
       PROVE  /\ writeList[i].len = 0 => i = Len(writeList)
              /\ writeList[i].flags = "fin" => writeList[i].len = 0
  <2>1. i \in 1..Len(writeList) /\ Len(writeList) \in 1..Len(writeList)
    BY <1>1
  <2>2. i < Len(writeList) => writeList[i].len > 0
    BY <2>1, <1>2 DEF Tiles
  <2>3. InList(writeList[i], sndNxt)
    BY <2>1 DEF SndInv, ListInv
  <2> QED BY <2>1, <2>2, <2>3, <1>1 DEF InList
<1> QED BY <1>8, <1>9, <1>10, <1>11, <1>12, <1>13, Zenon DEF NothingForgotten

\* With nothing in flight, nothing of the list has been sent.
LEMMA StallInv ==
  ASSUME SndInv, SendStop
  PROVE  StallsOnlyOnWindow'
<1> USE DEF appVars, ackVars, ccVars, fixedVars, mtuVars
<1> DEFINE q == writeList  i == writeNext  s == Numbered(q[i])
<1> SUFFICES ASSUME writeNext' <= Len(writeList'), sndUna' = sndNxt', tooBigs' = 0
             PROVE  sndWnd' = 0
  BY DEF StallsOnlyOnWindow
<1>1. /\ q \in Seq(Segment) /\ Len(q) \in Nat /\ i \in 1..(Len(q) + 1)
      /\ sndUna \in Int /\ sndNxt \in Int /\ sndNxtList \in Int
  BY BaseType
<1>2. /\ sndPc = "send" /\ writeNext' = i /\ sndWnd' = sndWnd /\ sndWnd \in Nat
      /\ sndUna = sndNxt /\ tooBigs = 0 /\ Len(writeList') = Len(q)
  BY DEF SendStop, SndInv, SndTypeOK
<1>3. /\ i \in 1..Len(q) /\ q[i] \in Segment
      /\ s \in Segment /\ s.off = q[i].off /\ s.len = q[i].len
      /\ s.flags = "fin" \/ ListEnd(s) <= sndNxt \/ (s.off = sndNxt /\ s.seq = sndNxt)
      /\ Tiles(q, sndUna, sndNxtList) /\ Base = sndUna
      /\ q[i].flags = "none" => s.flags = "data"
      /\ q[i].flags # "none" => s = q[i]
      /\ InList(q[i], sndNxt)
  <2>1. i <= Len(q)
    BY <1>2
  <2> QED BY <1>2, <2>1, NumberedSegment
<1> HIDE DEF s
<1>4. i = 1
  <2>1. ASSUME i # 1 PROVE FALSE
    <3>1. 1 \in 1..(i - 1) /\ 1 \in 1..Len(q)
      BY <2>1, <1>1
    <3>2. ListEnd(q[1]) <= sndNxt /\ sndUna <= q[1].off
      BY <3>1, <1>3 DEF SndInv, ListInv, Tiles
    <3>3. q[1].off < ListEnd(q[1]) /\ q[1].off \in Int /\ ListEnd(q[1]) \in Int
      BY <3>1, <1>1, ListTyped DEF Typed
    <3> QED BY <3>2, <3>3, <1>1, <1>2
  <2> QED BY <2>1
<1>5. outstanding < cc.cwnd
  <2>1. outstanding <= 0 /\ outstanding \in Int
    BY <1>2, <1>4 DEF SndInv, SndTypeOK, CountInv
  <2>2. cc.cwnd \in Nat \ {0}
    BY DEF SndInv, SndTypeOK
  <2> QED BY <2>1, <2>2
<1>6. s.len > 0 /\ s.seq >= WindowEnd
  <2>1. ~(i > Len(q) \/ outstanding >= cc.cwnd)
    <3>1. outstanding \in Int /\ cc.cwnd \in Nat
      BY DEF SndInv, SndTypeOK
    <3> QED BY <3>1, <1>1, <1>3, <1>5
  <2> QED BY <2>1 DEF SendStop, s
<1>7. s.seq = sndNxt
  <2>1. s.flags # "fin"
    BY <1>3, <1>6 DEF InList
  <2>2. ~(ListEnd(s) <= sndNxt)
    <3>1. sndUna <= s.off
      BY <1>3 DEF Tiles
    <3>2. s.off < ListEnd(s) /\ s.off \in Int /\ ListEnd(s) \in Int
      BY <1>3, SegTypes
    <3> QED BY <3>1, <3>2, <1>1, <1>2
  <2> QED BY <2>1, <2>2, <1>3
<1> QED BY <1>1, <1>2, <1>6, <1>7 DEF WindowEnd

-----------------------------------------------------------------------------
(* The sender facing any peer. *)

\* Every step keeps the invariant: the arbitrary peer and the arbitrary path
\* choose only the arguments of the operations above.
LEMMA SenderInductive == SndInv /\ [AnyPeerNext]_sndVars => SndInv'
<1> SUFFICES ASSUME SndInv, [AnyPeerNext]_sndVars PROVE SndInv'
  OBVIOUS
<1>1. CASE AnyWrite
  <2>1. PICK n \in 1..MaxWrite : Write(n)
    BY <1>1 DEF AnyWrite
  <2>2. n \in Nat \ {0}
    BY SenderAssumption
  <2> QED BY <2>1, <2>2, WriteInv
<1>2. CASE PeerAcks
  <2>1. PICK ack \in 0..(sndNxt + 1), wnd \in Windows : SndHandleSegment(ack, wnd)
    BY <1>2 DEF PeerAcks
  <2>2. ack \in Int /\ wnd \in Nat
    <3>1. sndNxt \in Int
      BY BaseType
    <3> QED BY <3>1, PeerAssumption
  <2> QED BY <2>1, <2>2, HandleSegmentInv
<1>3. CASE PathNarrows
  <2>1. PICK m \in wire, p \in PathPayloads : HandleControlPacket(m, p)
    BY <1>3 DEF PathNarrows
  <2>2. p \in Nat \ {0}
    BY SenderAssumption
  <2> QED BY <2>1, <2>2, HandleControlPacketInv
<1>4. CASE SegmentLeaves \/ UNCHANGED sndVars
  BY <1>4, SameInv DEF SegmentLeaves, sndVars
<1> QED BY <1>1, <1>2, <1>3, <1>4, ShutdownInv, WorkInv, MtuShrinksInv, MtuKnownInv,
           TimeoutInv, GiveUpInv DEF AnyPeerNext

LEMMA SenderInvariant == AnyPeerSpec => []SndInv
<1>1. SndInit => SndInv
  BY SndInitInv
<1> QED BY <1>1, SenderInductive, PTL DEF AnyPeerSpec

\* The variables of the sender keep their types: in particular sndUna, sndNxt
\* and the lengths of the list never leave the ranges the code assumes, and
\* writeNext always names a segment of the list or the place after it.
THEOREM SenderTypeCorrect == AnyPeerSpec => []SndTypeOK
<1>1. SndInv => SndTypeOK
  BY DEF SndInv
<1> QED BY <1>1, SenderInvariant, PTL

\* Nothing unacknowledged is ever left without a retransmission timer when
\* the worker goes back to waiting (snd.go:314).
THEOREM SenderTimerArmed == AnyPeerSpec => []TimerArmed
<1>1. SndInv => TimerArmed
  BY DEF SndInv
<1> QED BY <1>1, SenderInvariant, PTL

\* Fast recovery always has an end that an ack can still reach: its range is
\* unacknowledged and has been sent (snd.go:556).
THEOREM SenderRecoveryEnds == AnyPeerSpec => []RecoveryEnds
<1>1. SndInv => RecoveryEnds
  BY DEF SndInv
<1> QED BY <1>1, SenderInvariant, PTL

\* After every "packet too big" message the worker knows of, no segment that
\* is taken for sent is longer than the path carries (snd.go:205).
THEOREM SenderSendsLongAgain == AnyPeerSpec => []LongIsSentAgain
<1>1. SndInv => LongIsSentAgain
  BY DEF SndInv
<1> QED BY <1>1, SenderInvariant, PTL

\* The write list and the queue always hold exactly the bytes from the first
\* unacknowledged one on, in order, and the send buffer is charged for them
\* (snd.go:395, 256, 265).
THEOREM SenderKeepsTheStream == AnyPeerSpec => []NothingForgotten
BY SenderInvariant, SenderForgetsNothing, PTL

\* sendData leaves its loop with nothing in flight only at the window: what it
\* counts as outstanding is then no more than what precedes writeNext.
LEMMA StallsInductive ==
  SndInv /\ StallsOnlyOnWindow /\ [AnyPeerNext]_sndVars => StallsOnlyOnWindow'
<1> SUFFICES ASSUME SndInv, StallsOnlyOnWindow, [AnyPeerNext]_sndVars
             PROVE  StallsOnlyOnWindow'
  OBVIOUS
<1> USE DEF StallsOnlyOnWindow, appVars, listVars, ackVars, ccVars, rtoVars,
            mtuVars, fixedVars
<1>1. CASE AnyWrite \/ ShutdownWrite
  BY <1>1 DEF AnyWrite, Write, ShutdownWrite
<1>2. CASE SendStop
  BY <1>2, StallInv
<1>3. CASE HandleWrite \/ HandleClose \/ AckDone
  BY <1>3 DEF HandleWrite, HandleClose, TakeQueue, AckDone
<1>4. CASE PopAcked \/ SendData \/ SendFin
  BY <1>4 DEF PopAcked, SendData, SendFin
<1>5. CASE PeerAcks \/ MtuShrinks \/ RetransmitTimerExpired \/ GiveUp
  BY <1>5 DEF PeerAcks, SndHandleSegment, MtuShrinks, RetransmitTimerExpired, GiveUp
<1>6. CASE PathNarrows
  <2>1. tooBigs' = tooBigs + 1 /\ tooBigs \in Nat
    BY <1>6 DEF PathNarrows, HandleControlPacket, SndInv, SndTypeOK
  <2> QED BY <2>1
<1>7. CASE MtuKnown \/ SegmentLeaves \/ UNCHANGED sndVars
  BY <1>7 DEF MtuKnown, SegmentLeaves, sndVars, sndState
<1> QED BY <1>1, <1>2, <1>3, <1>4, <1>5, <1>6, <1>7 DEF AnyPeerNext, SenderWork

\* A sender with nothing in flight that has not met a narrower path waits for
\* the peer's window alone: congestion control never stalls it.
THEOREM SenderStallsOnlyOnWindow == AnyPeerSpec => []StallsOnlyOnWindow
<1>1. SndInit => SndInv /\ StallsOnlyOnWindow
  <2>1. SndInit => StallsOnlyOnWindow
    BY DEF SndInit, StallsOnlyOnWindow
  <2> QED BY <2>1, SndInitInv
<1> QED BY <1>1, SenderInductive, StallsInductive, PTL DEF AnyPeerSpec
=============================================================================
