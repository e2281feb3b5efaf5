------------------------ MODULE TcpConnection_proofs ------------------------
(***************************************************************************)
(* The two ends of a connection agree: what is acknowledged was received,  *)
(* what is received was sent, the window is respected, and the connection  *)
(* implements the byte stream.  Proofs for every stream, buffer, window    *)
(* scale, segment size and path, and any number of faults of the network.  *)
(*                                                                         *)
(* The invariants of the sender (SndInv) and of the receiver (RcvInv) are  *)
(* reused; each was proved against a peer that may do anything.  Here the  *)
(* peer is the other end, and two more things hold.  Every ack is for      *)
(* whole segments (IsBoundary), since that is what this receiver takes, so *)
(* the sender never trims a segment and labels every one of them rightly   *)
(* (LabelInv), which it does not against other peers.  And what is on the  *)
(* wire, in the heap and in the acks is bounded by the numbers of the end  *)
(* that made it (WireInv, TakenInv, AckInv).  The window needs its own     *)
(* invariant (WindowInv), which assumes that acks keep their order.        *)
(*                                                                         *)
(* The constants Windows, WholeAcks, StreamLen and Resets come with those  *)
(* two modules and mean nothing here.                                      *)
(***************************************************************************)
EXTENDS TcpConnection, TcpSenderAnyPeer_proofs, TcpReceiverAnyPeer_proofs

-----------------------------------------------------------------------------
(* The invariant. *)

\* What has been sent or taken from the list ends where a segment of the list
\* does, or before the list.
IsBoundary(v) ==
  v <= Base \/ \E i \in 1..Len(writeList) : ListEnd(writeList[i]) = v

\* A segment that was sent: a piece of what was written.
Sent(s) ==
  /\ OfStream(s, written)
  /\ s.flags = "fin" => sndClosed
  /\ SegEnd(s) <= sndNxt /\ IsBoundary(SegEnd(s))

\* The sender labels its segments rightly, since whole segments are acked.
LabelInv ==
  /\ \A i \in 1..Len(writeList) :
       writeList[i].flags # "none" => writeList[i].seq = writeList[i].off
  /\ 1 <= Base /\ IsBoundary(sndUna)
  /\ job.rtx => sndUna < sndNxt

\* What is on its way was sent.
WireInv == \A m \in wire : m \in Segment /\ (m.flags = "rst" \/ Sent(m))

\* A sender that is done has been closed.
CloseInv ==
  /\ sndCloseWaker => sndClosed
  /\ sndDone => sndClosed /\ sndBufInQueue = 0

\* What the receiver keeps, has consumed and acks was sent.
TakenInv ==
  /\ RcvInv(written)
  /\ rcvClosed => sndClosed
  /\ \A i \in 1..Len(pending) : Sent(pending[i])
  /\ sndUna <= rcvNxt /\ rcvNxt <= sndNxt /\ IsBoundary(rcvNxt)

\* Acks are for what was consumed, the last for the most, and their windows
\* end where the receiver said at last, or before.
AckInv ==
  /\ \A i \in 1..Len(acks) :
       /\ acks[i].ack <= rcvNxt /\ IsBoundary(acks[i].ack)
       /\ acks[i].ack + acks[i].wnd <= rcvAcc
  /\ \A i, j \in 1..Len(acks) : i < j => acks[i].ack <= acks[j].ack

\* The inductive invariant of the connection.
ConnInv ==
  SndInv /\ LabelInv /\ WireInv /\ CloseInv /\ TakenInv /\ AckInv

-----------------------------------------------------------------------------
(* What a step of the sender leaves in place. *)

\* What ends at a boundary, and was sent, still does and was.
Keeps ==
  /\ \A v \in Int : IsBoundary(v) => IsBoundary(v)'
  /\ sndNxt \in Int /\ sndNxt' \in Int /\ sndNxt <= sndNxt'
  /\ sndClosed => sndClosed'
  /\ written \in Nat /\ written' \in Nat
  /\ written' = written \/ (~sndClosed /\ written <= written')

LEMMA SegEndType ==
  ASSUME NEW s \in Segment
  PROVE  /\ LogicalLen(s) \in Nat /\ SegEnd(s) \in Int
         /\ SegEnd(s) = s.seq + LogicalLen(s)
         /\ s.seq \in Int /\ s.off \in Int /\ s.len \in Nat
         /\ s.flags # "fin" => LogicalLen(s) = s.len
         /\ s.flags = "fin" => LogicalLen(s) = s.len + 1
<1>1. s.seq \in Int /\ s.off \in Int /\ s.len \in Nat
  BY DEF Segment
<1>2. /\ s.flags # "fin" => LogicalLen(s) = s.len
      /\ s.flags = "fin" => LogicalLen(s) = s.len + 1
  BY <1>1 DEF LogicalLen
<1> QED BY <1>1, <1>2 DEF SegEnd

\* What was sent stays so.
LEMMA SentKept ==
  ASSUME NEW s, Sent(s), Keeps
  PROVE  Sent(s)'
<1>1. s \in Segment /\ OfStream(s, written)
  BY DEF Sent, OfStream
<1>2. SegEnd(s) \in Int /\ s.seq \in Int /\ s.len \in Nat
  BY <1>1, SegEndType
<1>3. IsBoundary(SegEnd(s))'
  <2> DEFINE v == SegEnd(s)
  <2>1. v \in Int /\ IsBoundary(v)
    BY <1>2 DEF Sent
  <2> HIDE DEF v
  <2>2. IsBoundary(v)'
    BY <2>1 DEF Keeps
  <2> QED BY <2>2 DEF v
<1>4. SegEnd(s) <= sndNxt'
  BY <1>2 DEF Keeps, Sent
<1>5. s.flags = "fin" => sndClosed'
  BY DEF Keeps, Sent
<1>6. OfStream(s, written')
  <2>1. CASE written' = written
    BY <1>1, <2>1
  <2>2. CASE ~sndClosed /\ written <= written'
    <3>1. s.flags # "fin"
      BY <2>2 DEF Sent
    <3>2. s.seq + s.len <= written' + 1
      BY <1>1, <1>2, <2>2 DEF Keeps, OfStream
    <3> QED BY <1>1, <3>1, <3>2 DEF OfStream
  <2> QED BY <2>1, <2>2 DEF Keeps
<1> QED BY <1>3, <1>4, <1>5, <1>6 DEF Sent

\* The wire, when at most one segment is added to it.
LEMMA WireKept ==
  ASSUME WireInv, Keeps, NEW m \in Segment, m.flags = "rst" \/ Sent(m)',
         wire' \subseteq wire \cup {m}
  PROVE  WireInv'
<1> SUFFICES ASSUME NEW x \in wire'
             PROVE  x \in Segment /\ (x.flags = "rst" \/ Sent(x)')
  BY DEF WireInv
<1>1. CASE x \in wire
  BY <1>1, SentKept DEF WireInv
<1>2. CASE x = m
  BY <1>2
<1> QED BY <1>1, <1>2

LEMMA WireLess ==
  ASSUME WireInv, Keeps, wire' \subseteq wire
  PROVE  WireInv'
<1> SUFFICES ASSUME NEW x \in wire'
             PROVE  x \in Segment /\ (x.flags = "rst" \/ Sent(x)')
  BY DEF WireInv
<1> QED BY SentKept DEF WireInv

\* A list that keeps its places keeps the boundaries.
LEMMA KeepsPlaces ==
  ASSUME SndInv, Base' = Base, Len(writeList') = Len(writeList),
         \A i \in 1..Len(writeList) : ListEnd(writeList'[i]) = ListEnd(writeList[i]),
         sndNxt' \in Int, sndNxt <= sndNxt',
         sndClosed => sndClosed', written' \in Nat,
         written' = written \/ (~sndClosed /\ written <= written')
  PROVE  Keeps
<1>1. \A v \in Int : IsBoundary(v) => IsBoundary(v)'
  <2> SUFFICES ASSUME NEW v \in Int, IsBoundary(v)
               PROVE  IsBoundary(v)'
    OBVIOUS
  <2> QED BY DEF IsBoundary
<1>2. sndNxt \in Int /\ written \in Nat
  BY DEF SndInv, SndTypeOK
<1> QED BY <1>1, <1>2 DEF Keeps

LEMMA KeepsAll ==
  ASSUME SndInv, UNCHANGED <<writeList, sndUna, job, sndNxt>>,
         sndClosed => sndClosed', written' \in Nat,
         written' = written \/ (~sndClosed /\ written <= written')
  PROVE  Keeps
<1>1. sndNxt \in Int
  BY DEF SndInv, SndTypeOK
<1>2. Base' = Base
  BY DEF Base
<1> QED BY <1>1, <1>2, KeepsPlaces

\* A segment without payload on the list is the FIN, after all data.
LEMMA FinAtEnd ==
  ASSUME SndInv, NEW i \in 1..Len(writeList), writeList[i].len = 0
  PROVE  sndClosed /\ writeList[i].off = written + 1
<1>1. /\ writeList \in Seq(Segment) /\ sndNxtList \in Int /\ written \in Nat
      /\ sndClosed \in BOOLEAN /\ sndBufInQueue \in Int
  BY DEF SndInv, SndTypeOK
<1>2. sndClosed /\ sndQueue = <<>>
  BY DEF SndInv, QueueInv
<1>3. sndNxtList = written + 2
  <2>1. sndNxtList = sndNxtList + sndBufInQueue
    BY <1>2 DEF SndInv, QueueInv, Tiles
  <2>2. sndNxtList + sndBufInQueue = written + 1 + 1
    BY <1>2 DEF SndInv, QueueInv
  <2> QED BY <1>1, <2>1, <2>2
<1>4. ListEnd(writeList[i]) = sndNxtList
  <2>1. Tiles(writeList, Base, sndNxtList) /\ Len(writeList) \in Nat /\ writeList # <<>>
    BY <1>1 DEF SndInv, ListInv
  <2>2. i = Len(writeList)
    <3>1. \A k, j \in 1..Len(writeList) : k < j => writeList[k].len > 0
      BY <2>1 DEF Tiles
    <3>2. Len(writeList) \in 1..Len(writeList) /\ i <= Len(writeList)
      BY <2>1
    <3>3. ~(i < Len(writeList))
      BY <3>1, <3>2
    <3> QED BY <3>2, <3>3, <2>1
  <2> QED BY <2>1, <2>2 DEF Tiles
<1>5. ListEnd(writeList[i]) = writeList[i].off + 1 /\ writeList[i].off \in Int
  BY <1>1, SegTypes DEF ListEnd
<1> QED BY <1>1, <1>2, <1>3, <1>4, <1>5

\* Such a segment with a number and the right label is of the stream.
LEMMA PieceOfStream ==
  ASSUME NEW s \in Segment, NEW w \in Nat, s.flags \in {"data", "fin"},
         s.seq = s.off, 1 <= s.off, DataEnd(s) <= w + 1,
         s.flags = "data" => s.len > 0,
         s.flags = "fin" => s.len = 0 /\ s.off = w + 1
  PROVE  OfStream(s, w) /\ SegEnd(s) = ListEnd(s)
<1>1. s.seq \in Int /\ s.off \in Int /\ s.len \in Nat /\ DataEnd(s) = s.off + s.len
  BY SegEndType DEF DataEnd
<1>2. OfStream(s, w)
  BY <1>1 DEF OfStream
<1>3. SegEnd(s) = ListEnd(s)
  <2>1. CASE s.flags = "data"
    <3>1. LogicalLen(s) = s.len /\ s.len > 0
      BY <2>1, SegEndType
    <3> QED BY <3>1, <1>1 DEF SegEnd, ListEnd
  <2>2. CASE s.flags = "fin"
    <3>1. LogicalLen(s) = 1 /\ s.len = 0
      BY <2>2, SegEndType
    <3> QED BY <3>1, <1>1 DEF SegEnd, ListEnd
  <2> QED BY <2>1, <2>2
<1> QED BY <1>2, <1>3

\* What the list says has been sent is so.
LEMMA SentOfList ==
  ASSUME SndInv, LabelInv, NEW i \in 1..Len(writeList),
         writeList[i].flags # "none", ListEnd(writeList[i]) <= sndNxt
  PROVE  writeList[i] \in Segment /\ Sent(writeList[i])
<1> DEFINE s == writeList[i]
<1>1. s \in Segment /\ written \in Nat
  <2>1. writeList \in Seq(Segment) /\ written \in Nat
    BY DEF SndInv, SndTypeOK
  <2> QED BY <2>1
<1>2. s.flags \in {"data", "fin"} /\ (s.flags = "fin" => s.len = 0) /\ (s.flags = "data" => s.len > 0)
  BY DEF SndInv, ListInv, InList
<1>3. s.seq = s.off
  BY DEF LabelInv
<1>4. 1 <= s.off
  <2>1. Base <= s.off
    BY DEF SndInv, ListInv, Tiles
  <2>2. 1 <= Base /\ Base \in Int /\ s.off \in Int
    BY <1>1, BaseType, SegTypes DEF LabelInv
  <2> QED BY <2>1, <2>2
<1>5. DataEnd(s) <= written + 1
  BY DEF SndInv, DataInv
<1>6. s.len = 0 => sndClosed /\ s.off = written + 1
  BY FinAtEnd
<1>7. ListEnd(s) <= sndNxt /\ IsBoundary(ListEnd(s))
  BY DEF IsBoundary
<1> HIDE DEF s
<1>8. OfStream(s, written) /\ SegEnd(s) = ListEnd(s)
  BY <1>1, <1>2, <1>3, <1>4, <1>5, <1>6, PieceOfStream
<1>9. Sent(s)
  BY <1>2, <1>6, <1>7, <1>8 DEF Sent
<1> QED BY <1>1, <1>9 DEF s

\* The labels, when the list keeps its places.
LEMMA LabelKept ==
  ASSUME SndInv, LabelInv, Keeps, Base' = Base, sndUna' = sndUna,
         job' = job \/ job' = NoJob,
         \A i \in 1..Len(writeList') :
           writeList'[i].flags # "none" => writeList'[i].seq = writeList'[i].off
  PROVE  LabelInv'
<1>1. IsBoundary(sndUna)'
  <2> SUFFICES ASSUME NEW v \in Int, v = sndUna, IsBoundary(v)
               PROVE  IsBoundary(v)'
    <3>1. sndUna \in Int /\ IsBoundary(sndUna) /\ sndUna' = sndUna
      BY BaseType DEF LabelInv
    <3> QED BY <3>1 DEF IsBoundary
  <2> QED BY DEF Keeps
<1>2. job'.rtx => sndUna' < sndNxt'
  <2>1. sndUna \in Int /\ sndNxt \in Int /\ sndNxt' \in Int /\ sndNxt <= sndNxt'
    BY BaseType DEF Keeps
  <2>2. job'.rtx => job.rtx
    BY DEF NoJob
  <2> QED BY <2>1, <2>2 DEF LabelInv
<1> QED BY <1>1, <1>2 DEF LabelInv

\* The parts of the invariant that the sender has to itself.
SideInv == LabelInv /\ WireInv /\ CloseInv

-----------------------------------------------------------------------------
(* The steps of the sender. *)

\* Nothing but the queue, the timers and the counts change.
LEMMA AsideSide ==
  ASSUME SndInv, SideInv, UNCHANGED <<writeList, sndUna, job, sndNxt, wire>>,
         sndClosed => sndClosed', written' \in Nat,
         written' = written \/ (~sndClosed /\ written <= written'),
         CloseInv'
  PROVE  Keeps /\ SideInv'
<1>1. Keeps
  BY KeepsAll
<1>2. Base' = Base
  BY DEF Base
<1>3. LabelInv'
  BY <1>1, <1>2, LabelKept DEF SideInv, LabelInv
<1>4. WireInv'
  BY <1>1, WireLess DEF SideInv
<1> QED BY <1>1, <1>3, <1>4 DEF SideInv

LEMMA WriteSide ==
  ASSUME SndInv, SideInv, NEW n \in Nat \ {0}, Write(n)
  PROVE  Keeps /\ SideInv'
<1>1. /\ ~sndClosed /\ written' = written + n
      /\ UNCHANGED <<sndClosed, sndCloseWaker, writeList, sndUna, job, sndNxt,
                     sndDone, wire>>
  BY DEF Write, listVars, fixedVars
<1>2. written \in Nat /\ written' \in Nat /\ written <= written'
  BY <1>1 DEF SndInv, SndTypeOK
<1>3. CloseInv'
  BY <1>1 DEF SideInv, CloseInv
<1> QED BY <1>1, <1>2, <1>3, AsideSide

LEMMA ShutdownSide ==
  ASSUME SndInv, SideInv, ShutdownWrite
  PROVE  Keeps /\ SideInv'
<1>1. /\ ~sndClosed /\ sndClosed' /\ written' = written
      /\ UNCHANGED <<writeList, sndUna, job, sndNxt, sndDone, wire>>
  BY DEF ShutdownWrite, listVars, ackVars, fixedVars
<1>2. written \in Nat
  BY DEF SndInv, SndTypeOK
<1>3. CloseInv'
  BY <1>1 DEF SideInv, CloseInv
<1> QED BY <1>1, <1>2, <1>3, AsideSide

\* The queue moves to the list.
LEMMA TakeQueueSide ==
  ASSUME SndInv, SideInv, TakeQueue,
         UNCHANGED <<sndNxt, sndClosed, written, sndUna, job, wire>>, CloseInv'
  PROVE  Keeps /\ SideInv'
<1> DEFINE n == Len(writeList)
<1>1. /\ writeList \in Seq(Segment) /\ sndQueue \in Seq(Segment)
      /\ written \in Nat /\ sndNxt \in Int
  BY DEF SndInv, SndTypeOK
<1>2. writeList' = writeList \o sndQueue
  BY DEF TakeQueue
<1>3. /\ Len(writeList') = n + Len(sndQueue) /\ n \in Nat /\ Len(sndQueue) \in Nat
      /\ \A i \in 1..n : writeList'[i] = writeList[i]
      /\ \A i \in (n + 1)..(n + Len(sndQueue)) : writeList'[i] = sndQueue[i - n]
  BY <1>1, <1>2, ConcatSeq
<1> HIDE DEF n
<1>4. Base' = Base
  BY DEF Base
<1>5. Keeps
  <2>1. ASSUME NEW v \in Int, IsBoundary(v)
        PROVE  IsBoundary(v)'
    <3>1. CASE v <= Base
      BY <3>1, <1>4 DEF IsBoundary
    <3>2. CASE \E i \in 1..Len(writeList) : ListEnd(writeList[i]) = v
      <4>1. PICK i \in 1..n : ListEnd(writeList[i]) = v
        BY <3>2 DEF n
      <4>2. i \in 1..Len(writeList')
        BY <1>3
      <4>3. writeList'[i] = writeList[i]
        BY <1>3
      <4> QED BY <4>1, <4>2, <4>3 DEF IsBoundary
    <3> QED BY <2>1, <3>1, <3>2 DEF IsBoundary
  <2> QED BY <2>1, <1>1 DEF Keeps
<1>6. \A i \in 1..Len(writeList') :
        writeList'[i].flags # "none" => writeList'[i].seq = writeList'[i].off
  <2> TAKE i \in 1..Len(writeList')
  <2>1. CASE i \in 1..n
    BY <2>1, <1>3 DEF n, SideInv, LabelInv
  <2>2. CASE i \in (n + 1)..(n + Len(sndQueue))
    <3>1. i - n \in 1..Len(sndQueue)
      BY <2>2, <1>3
    <3> QED BY <2>2, <3>1, <1>3 DEF SndInv, QueueInv
  <2> QED BY <2>1, <2>2, <1>3
<1>7. LabelInv'
  BY <1>4, <1>5, <1>6, LabelKept DEF SideInv
<1>8. WireInv'
  BY <1>5, WireLess DEF SideInv
<1> QED BY <1>5, <1>7, <1>8 DEF SideInv

LEMMA HandleWriteSide ==
  ASSUME SndInv, SideInv, HandleWrite
  PROVE  Keeps /\ SideInv'
<1>1. /\ TakeQueue /\ sndBufInQueue' = 0
      /\ UNCHANGED <<sndNxt, sndClosed, written, sndUna, job, wire, sndCloseWaker, sndDone>>
  BY DEF HandleWrite, TakeQueue, ackVars, fixedVars
<1>2. CloseInv'
  BY <1>1 DEF SideInv, CloseInv
<1> QED BY <1>1, <1>2, TakeQueueSide

LEMMA HandleCloseSide ==
  ASSUME SndInv, SideInv, HandleClose
  PROVE  Keeps /\ SideInv'
<1>1. /\ TakeQueue /\ sndBufInQueue' = 0 /\ sndCloseWaker /\ ~sndCloseWaker'
      /\ UNCHANGED <<sndNxt, sndClosed, written, sndUna, job, wire>>
  BY DEF HandleClose, TakeQueue, ackVars
<1>2. CloseInv'
  BY <1>1 DEF SideInv, CloseInv
<1> QED BY <1>1, <1>2, TakeQueueSide

\* A segment is sent again only for an ack that leaves something to be acked.
LEMMA RtxLeaves ==
  ASSUME SndInv, NEW ack \in Nat, NEW wnd \in Nat, CheckDuplicateAck(ack, wnd).rtx
  PROVE  IF NewlyAcked(ack) THEN ack < sndNxt ELSE sndUna < sndNxt
<1>1. /\ sndUna \in Int /\ sndNxt \in Int /\ sndUna <= sndNxt
      /\ fr \in [active : BOOLEAN, first : Int, last : Int, maxCwnd : Int]
  BY DEF SndInv, SndTypeOK, NumberInv
<1>2. fr.active => sndUna <= fr.last /\ fr.last < sndNxt
  BY DEF SndInv, RecoveryEnds
<1>3. fr.last \in Int
  BY <1>1
<1>4. CASE fr.active
  <2>1. sndUna <= ack /\ ack <= sndNxt /\ ~(fr.last < ack)
    BY <1>4 DEF CheckDuplicateAck
  <2> QED BY <2>1, <1>1, <1>2, <1>3, <1>4
<1>5. CASE ~fr.active
  <2>1. ack = sndUna /\ ack # sndNxt
    BY <1>5 DEF CheckDuplicateAck
  <2> QED BY <2>1, <1>1 DEF NewlyAcked
<1> QED BY <1>4, <1>5

\* An ack of whole segments is taken.
LEMMA HandleSegmentSide ==
  ASSUME SndInv, SideInv, NEW ack \in Nat, NEW wnd \in Nat, IsBoundary(ack),
         SndHandleSegment(ack, wnd)
  PROVE  Keeps /\ SideInv' /\ sndUna' = IF NewlyAcked(ack) THEN ack ELSE sndUna
<1>1. /\ sndPc = "idle" /\ job = NoJob
      /\ UNCHANGED <<writeList, sndNxt, sndClosed, written, sndCloseWaker,
                     sndDone, sndBufInQueue, wire>>
      /\ sndUna' = IF NewlyAcked(ack) THEN ack ELSE sndUna
  BY DEF SndHandleSegment, SndInv, NumberInv, appVars, listVars, fixedVars
<1>2. /\ job'.left = IF NewlyAcked(ack) THEN ack - sndUna ELSE 0
      /\ job'.rtx = CheckDuplicateAck(ack, wnd).rtx
  BY DEF SndHandleSegment
<1>3. sndUna \in Int /\ sndNxt \in Int /\ written \in Nat
  BY DEF SndInv, SndTypeOK
<1>4. Base' = Base /\ Base = sndUna
  BY <1>1, <1>2, <1>3 DEF Base, NoJob
<1>5. Keeps
  BY <1>1, <1>3, <1>4, KeepsPlaces
<1>6. IsBoundary(sndUna)'
  <2>1. IsBoundary(sndUna)
    BY DEF SideInv, LabelInv
  <2>2. CASE NewlyAcked(ack)
    BY <2>2, <1>1, <1>4 DEF IsBoundary
  <2>3. CASE ~NewlyAcked(ack)
    BY <2>1, <2>3, <1>1, <1>4 DEF IsBoundary
  <2> QED BY <2>2, <2>3
<1>7. job'.rtx => sndUna' < sndNxt'
  BY <1>1, <1>2, RtxLeaves
<1>8. LabelInv'
  BY <1>1, <1>4, <1>6, <1>7 DEF SideInv, LabelInv
<1>9. WireInv'
  BY <1>1, <1>5, WireLess DEF SideInv
<1>10. CloseInv'
  BY <1>1 DEF SideInv, CloseInv
<1> QED BY <1>1, <1>5, <1>8, <1>9, <1>10 DEF SideInv

\* The list begins one segment further on.
LEMMA PopSide ==
  ASSUME SndInv, SideInv, PopAcked
  PROVE  Keeps /\ SideInv'
<1> DEFINE h == writeList[1]
<1>1. /\ writeList # <<>> /\ job.left > 0 /\ writeList' = Tail(writeList)
      /\ job' = [job EXCEPT !.left = @ - LogicalLen(writeList[1])]
      /\ UNCHANGED <<sndNxt, sndUna, sndClosed, written, sndCloseWaker,
                     sndDone, sndBufInQueue, wire>>
  BY DEF PopAcked, appVars, listVars, ackVars, fixedVars
<1>2. /\ writeList \in Seq(Segment) /\ Len(writeList) \in Nat
      /\ sndUna \in Int /\ sndNxt \in Int /\ job.left \in Nat /\ Base \in Int
      /\ Base = sndUna - job.left
  BY BaseType
<1>3. /\ h \in Segment /\ h.off = Base /\ LogicalLen(h) = ListEnd(h) - Base
      /\ 1 \in 1..Len(writeList)
  BY <1>1, HeadIsSent
<1>4. ListEnd(h) \in Int /\ Base < ListEnd(h)
  BY <1>3, SegTypes
<1>5. job'.left = job.left - LogicalLen(h) /\ job'.rtx = job.rtx
  <2>1. job \in [acked : Nat, left : Nat, orig : Int, rtx : BOOLEAN]
    BY DEF SndInv, SndTypeOK
  <2> QED BY <2>1, <1>1
<1>6. Base' = ListEnd(h)
  <2>1. Base' = sndUna - (job.left - LogicalLen(h))
    BY <1>1, <1>5 DEF Base
  <2> HIDE DEF h
  <2> QED BY <2>1, <1>2, <1>3, <1>4
<1>7. /\ Len(writeList') = Len(writeList) - 1
      /\ \A i \in 1..(Len(writeList) - 1) : writeList'[i] = writeList[i + 1]
  BY <1>1, <1>2, TailSeq
<1>8. ASSUME NEW v \in Int, IsBoundary(v)
      PROVE  IsBoundary(v)'
  <2>1. CASE v <= Base
    <3>1. v <= Base'
      BY <2>1, <1>2, <1>4, <1>6
    <3> QED BY <3>1 DEF IsBoundary
  <2>2. CASE \E i \in 1..Len(writeList) : ListEnd(writeList[i]) = v
    <3>1. PICK i \in 1..Len(writeList) : ListEnd(writeList[i]) = v
      BY <2>2
    <3>2. CASE i = 1
      <4>1. v <= Base'
        BY <3>1, <3>2, <1>4, <1>6
      <4> QED BY <4>1 DEF IsBoundary
    <3>3. CASE i # 1
      <4>1. i - 1 \in 1..Len(writeList') /\ i - 1 \in 1..(Len(writeList) - 1)
            /\ (i - 1) + 1 = i
        BY <3>3, <1>2, <1>7
      <4>2. writeList'[i - 1] = writeList[i]
        <5>1. writeList'[i - 1] = writeList[(i - 1) + 1]
          BY <4>1, <1>7
        <5> QED BY <5>1, <4>1
      <4> QED BY <3>1, <4>1, <4>2 DEF IsBoundary
    <3> QED BY <3>2, <3>3
  <2> QED BY <1>8, <2>1, <2>2 DEF IsBoundary
<1>9. Keeps
  <2>1. written \in Nat
    BY DEF SndInv, SndTypeOK
  <2> QED BY <1>1, <1>2, <1>8, <2>1 DEF Keeps
<1>10. LabelInv'
  <2>1. \A i \in 1..Len(writeList') :
          writeList'[i].flags # "none" => writeList'[i].seq = writeList'[i].off
    <3> TAKE i \in 1..Len(writeList')
    <3>1. i \in 1..(Len(writeList) - 1) /\ i + 1 \in 1..Len(writeList)
      BY <1>2, <1>7
    <3> QED BY <3>1, <1>7 DEF SideInv, LabelInv
  <2>2. 1 <= Base'
    <3>1. 1 <= Base
      BY DEF SideInv, LabelInv
    <3> QED BY <3>1, <1>2, <1>4, <1>6
  <2>3. IsBoundary(sndUna)'
    <3>1. IsBoundary(sndUna)
      BY DEF SideInv, LabelInv
    <3> SUFFICES ASSUME NEW v \in Int, v = sndUna, IsBoundary(v)
                 PROVE  IsBoundary(v)'
      BY <1>1, <1>2, <3>1 DEF IsBoundary
    <3> QED BY <1>8
  <2>4. job'.rtx => sndUna' < sndNxt'
    BY <1>1, <1>5 DEF SideInv, LabelInv
  <2> QED BY <2>1, <2>2, <2>3, <2>4 DEF LabelInv
<1>11. WireInv'
  BY <1>1, <1>9, WireLess DEF SideInv
<1>12. CloseInv'
  BY <1>1 DEF SideInv, CloseInv
<1> QED BY <1>9, <1>10, <1>11, <1>12 DEF SideInv

\* An ack never covers part of a segment, so nothing is trimmed.
LEMMA NothingTrimmed ==
  ASSUME SndInv, LabelInv, AckDone
  PROVE  job.left = 0
<1>1. /\ writeList \in Seq(Segment) /\ Len(writeList) \in Nat
      /\ sndUna \in Int /\ sndNxtList \in Int /\ job.left \in Nat
      /\ Base \in Int /\ Base = sndUna - job.left
  BY BaseType
<1> SUFFICES ASSUME job.left > 0 PROVE FALSE
  BY <1>1
<1>2. LogicalLen(writeList[1]) > job.left
  BY <1>1 DEF AckDone
<1>3. /\ writeList # <<>> /\ 1 \in 1..Len(writeList)
      /\ LogicalLen(writeList[1]) = ListEnd(writeList[1]) - Base
  BY HeadIsSent
<1>4. /\ Typed(writeList) /\ Tiles(writeList, Base, sndNxtList)
  BY <1>1, ListTyped DEF SndInv, ListInv
<1>5. ListEnd(writeList[1]) \in Int /\ ListEnd(writeList[1]) > sndUna
  BY <1>1, <1>2, <1>3, <1>4 DEF Typed
<1>6. ~(sndUna <= Base)
  BY <1>1
<1>7. PICK i \in 1..Len(writeList) : ListEnd(writeList[i]) = sndUna
  BY <1>6 DEF LabelInv, IsBoundary
<1>8. 1 < i
  BY <1>1, <1>5, <1>7
<1>9. writeList[1].len > 0 /\ DataEnd(writeList[1]) <= writeList[i].off
  BY <1>3, <1>4, <1>8 DEF Tiles
<1>10. /\ ListEnd(writeList[1]) = DataEnd(writeList[1])
       /\ writeList[i].off < ListEnd(writeList[i]) /\ writeList[i].off \in Int
  BY <1>3, <1>4, <1>9 DEF Typed
<1> QED BY <1>1, <1>5, <1>7, <1>9, <1>10

\* What is sent again, if anything is, is the head of the list.
LEMMA AckDoneSide ==
  ASSUME SndInv, SideInv, AckDone
  PROVE  Keeps /\ SideInv'
<1>1. job.left = 0
  BY NothingTrimmed DEF SideInv
<1>2. /\ UNCHANGED <<writeList, sndUna, sndNxt, sndClosed, written, sndCloseWaker,
                     sndDone, sndBufInQueue>>
      /\ job' = NoJob
      /\ IF job.rtx THEN Resend(writeList) ELSE wire' = wire
  BY <1>1 DEF AckDone, appVars, fixedVars
<1>3. sndUna \in Int /\ sndNxt \in Int /\ written \in Nat
  BY DEF SndInv, SndTypeOK
<1>4. Base' = Base /\ Base = sndUna
  BY <1>1, <1>2, <1>3 DEF Base, NoJob
<1>5. Keeps
  BY <1>2, <1>3, <1>4, KeepsPlaces
<1>6. LabelInv'
  <2>1. \A i \in 1..Len(writeList') :
          writeList'[i].flags # "none" => writeList'[i].seq = writeList'[i].off
    BY <1>2 DEF SideInv, LabelInv
  <2> QED BY <2>1, <1>2, <1>4, <1>5, LabelKept DEF SideInv
<1>7. WireInv'
  <2>1. CASE wire' = wire
    BY <2>1, <1>5, WireLess DEF SideInv
  <2>2. CASE job.rtx /\ writeList # <<>> /\ wire' = wire \cup {writeList[1]}
    <3>1. /\ writeList \in Seq(Segment) /\ Tiles(writeList, sndUna, sndNxtList)
          /\ 1 \in 1..Len(writeList)
      BY <2>2, <1>4, BaseType DEF SndInv, ListInv
    <3>2. writeList[1].off = sndUna /\ sndUna < sndNxt
      BY <2>2, <3>1 DEF Tiles, SideInv, LabelInv
    <3>3. writeList[1].flags # "none" /\ ListEnd(writeList[1]) <= sndNxt
      BY <3>1, <3>2, <1>3 DEF SndInv, ListInv, InList
    <3>4. writeList[1] \in Segment /\ Sent(writeList[1])
      BY <3>1, <3>3, SentOfList DEF SideInv
    <3>5. Sent(writeList[1])'
      <4> SUFFICES ASSUME NEW s, s = writeList[1], Sent(s)
                   PROVE  Sent(s)'
        BY <3>4, <1>2
      <4> QED BY <1>5, SentKept
    <3>6. \E s \in Segment : Sent(s)' /\ wire' = wire \cup {s}
      <4> SUFFICES ASSUME NEW s \in Segment, s = writeList[1]
                   PROVE  Sent(s)' /\ wire' = wire \cup {s}
        BY <3>4
      <4> QED BY <3>5, <2>2, <1>2
    <3> QED BY <3>6, <1>5, WireKept DEF SideInv
  <2> QED BY <2>1, <2>2, <1>2 DEF Resend
<1>8. CloseInv'
  BY <1>2 DEF SideInv, CloseInv
<1> QED BY <1>5, <1>6, <1>7, <1>8 DEF SideInv

\* The number that a segment of the list has or gets is the right one.
LEMMA NumberedLabel ==
  ASSUME SndInv, SideInv, sndPc = "send", writeNext <= Len(writeList),
         NEW s, s = Numbered(writeList[writeNext])
  PROVE  /\ s \in Segment /\ s.seq = s.off /\ 1 <= s.off
         /\ DataEnd(s) <= written + 1 /\ s.off <= sndNxt
         /\ s.flags \in {"data", "fin"} /\ (s.flags = "fin" => s.len = 0)
         /\ s.len = 0 => sndClosed /\ s.off = written + 1
<1>1. /\ writeNext \in 1..Len(writeList) /\ writeList[writeNext] \in Segment
      /\ s \in Segment /\ s.off = writeList[writeNext].off
      /\ s.len = writeList[writeNext].len
      /\ \/ /\ writeList[writeNext].flags = "none"
            /\ s.seq = sndNxt /\ s.flags = "data"
         \/ writeList[writeNext].flags # "none" /\ s = writeList[writeNext]
      /\ s.off <= sndNxt /\ InList(writeList[writeNext], sndNxt)
      /\ Tiles(writeList, sndUna, sndNxtList) /\ Base = sndUna
  BY NumberedSegment
<1>2. sndNxt \in Int /\ s.off \in Int /\ sndUna \in Int
  BY <1>1, SegTypes, BaseType
<1>3. s.seq = s.off
  <2>1. CASE writeList[writeNext].flags = "none"
    <3>1. sndNxt <= s.off
      BY <2>1, <1>1 DEF InList
    <3> QED BY <3>1, <2>1, <1>1, <1>2
  <2>2. CASE writeList[writeNext].flags # "none"
    BY <2>2, <1>1 DEF SideInv, LabelInv
  <2> QED BY <2>1, <2>2
<1>4. 1 <= s.off
  <2>1. 1 <= sndUna /\ sndUna <= s.off
    BY <1>1 DEF SideInv, LabelInv, Tiles
  <2> QED BY <2>1, <1>2
<1>5. DataEnd(s) <= written + 1
  BY <1>1 DEF SndInv, DataInv, DataEnd
<1>6. s.flags \in {"data", "fin"} /\ (s.flags = "fin" => s.len = 0)
  BY <1>1 DEF InList
<1>7. s.len = 0 => sndClosed /\ s.off = written + 1
  BY <1>1, FinAtEnd
<1> QED BY <1>1, <1>3, <1>4, <1>5, <1>6, <1>7

\* A segment of the list is numbered, or becomes the FIN.
LEMMA NumberSide ==
  ASSUME SndInv, SideInv, sndPc = "send", writeNext <= Len(writeList),
         NEW s \in Segment, s.off = writeList[writeNext].off,
         s.len = writeList[writeNext].len, s.seq = s.off,
         writeList' = [writeList EXCEPT ![writeNext] = s],
         sndNxt' \in Int, sndNxt <= sndNxt',
         UNCHANGED <<sndUna, job, sndClosed, written, sndCloseWaker, sndDone,
                     sndBufInQueue>>
  PROVE  Keeps /\ LabelInv' /\ CloseInv'
<1>1. /\ writeList \in Seq(Segment) /\ writeNext \in 1..(Len(writeList) + 1)
      /\ Len(writeList) \in Nat /\ written \in Nat
  BY DEF SndInv, SndTypeOK
<1>2. /\ writeNext \in 1..Len(writeList)
      /\ Len(writeList') = Len(writeList) /\ writeList'[writeNext] = s
      /\ \A i \in 1..Len(writeList) : i # writeNext => writeList'[i] = writeList[i]
  BY <1>1
<1>3. Base' = Base
  BY DEF Base
<1>4. \A i \in 1..Len(writeList) : ListEnd(writeList'[i]) = ListEnd(writeList[i])
  <2> TAKE i \in 1..Len(writeList)
  <2> QED BY <1>2 DEF ListEnd
<1>5. Keeps
  BY <1>1, <1>2, <1>3, <1>4, KeepsPlaces
<1>6. \A i \in 1..Len(writeList') :
        writeList'[i].flags # "none" => writeList'[i].seq = writeList'[i].off
  BY <1>2 DEF SideInv, LabelInv
<1>7. LabelInv'
  BY <1>3, <1>5, <1>6, LabelKept DEF SideInv
<1> QED BY <1>5, <1>7 DEF SideInv, CloseInv

LEMMA SendStopSide ==
  ASSUME SndInv, SideInv, SendStop
  PROVE  Keeps /\ SideInv'
<1>1. /\ sndPc = "send"
      /\ UNCHANGED <<sndUna, job, sndNxt, sndClosed, written, sndCloseWaker, sndDone,
                     sndBufInQueue, wire>>
  BY DEF SendStop, appVars, ackVars, fixedVars
<1>2. CASE writeList' = writeList
  <2>1. CloseInv'
    BY <1>1 DEF SideInv, CloseInv
  <2>2. written \in Nat
    BY DEF SndInv, SndTypeOK
  <2> QED BY <1>1, <1>2, <2>1, <2>2, AsideSide
<1>3. CASE /\ writeNext <= Len(writeList)
           /\ writeList' = [writeList EXCEPT ![writeNext] = Numbered(writeList[writeNext])]
  <2> SUFFICES ASSUME NEW s, s = Numbered(writeList[writeNext])
               PROVE  Keeps /\ SideInv'
    OBVIOUS
  <2>1. s \in Segment /\ s.seq = s.off
    BY <1>1, <1>3, NumberedLabel
  <2>2. s.off = writeList[writeNext].off /\ s.len = writeList[writeNext].len
    BY <1>1, <1>3, NumberedSegment
  <2>3. sndNxt \in Int /\ sndNxt' \in Int /\ sndNxt <= sndNxt'
    BY <1>1 DEF SndInv, SndTypeOK
  <2>4. Keeps /\ LabelInv' /\ CloseInv'
    BY <1>1, <1>3, <2>1, <2>2, <2>3, NumberSide
  <2>5. WireInv'
    BY <1>1, <2>4, WireLess DEF SideInv
  <2> QED BY <2>4, <2>5 DEF SideInv
<1> QED BY <1>2, <1>3 DEF SendStop

\* The FIN goes out, under the number after the data.
LEMMA SendFinSide ==
  ASSUME SndInv, SideInv, SendFin
  PROVE  Keeps /\ SideInv'
<1> SUFFICES ASSUME NEW t, t = Numbered(writeList[writeNext]),
                    NEW s, s = [t EXCEPT !.flags = "fin"]
             PROVE  Keeps /\ SideInv'
  OBVIOUS
<1>1. /\ sndPc = "send" /\ writeNext <= Len(writeList)
      /\ s.len = 0 /\ writeList' = [writeList EXCEPT ![writeNext] = s]
      /\ wire' = wire \cup {s} /\ sndNxt' = MaxOf(sndNxt, s.seq + 1)
      /\ UNCHANGED <<sndUna, job, sndClosed, written, sndCloseWaker, sndDone,
                     sndBufInQueue>>
  BY DEF SendFin, appVars, ackVars, fixedVars
<1>2. /\ t \in Segment /\ t.seq = t.off /\ 1 <= t.off /\ DataEnd(t) <= written + 1
      /\ t.len = 0 => sndClosed /\ t.off = written + 1
  BY <1>1, NumberedLabel
<1>3. /\ s \in Segment /\ s.seq = t.seq /\ s.off = t.off /\ s.len = t.len
      /\ s.flags = "fin"
  BY <1>2 DEF Segment, Flags
<1>4. s.off = writeList[writeNext].off /\ s.len = writeList[writeNext].len
  BY <1>1, <1>3, NumberedSegment
<1>5. /\ sndNxt \in Int /\ sndNxt' \in Int /\ sndNxt <= sndNxt' /\ s.seq + 1 <= sndNxt'
      /\ written \in Nat /\ s.seq \in Int
  <2>1. sndNxt \in Int /\ written \in Nat
    BY DEF SndInv, SndTypeOK
  <2>2. s.seq \in Int
    BY <1>3, SegEndType
  <2> QED BY <2>1, <2>2, <1>1 DEF MaxOf
<1>6. Keeps /\ LabelInv' /\ CloseInv'
  BY <1>1, <1>2, <1>3, <1>4, <1>5, NumberSide
<1>7. Sent(s)'
  <2>1. sndClosed /\ s.off = written + 1 /\ DataEnd(s) <= written + 1
    BY <1>1, <1>2, <1>3 DEF DataEnd
  <2>2. OfStream(s, written) /\ SegEnd(s) = ListEnd(s)
    BY <1>1, <1>2, <1>3, <1>5, <2>1, PieceOfStream
  <2>3. ListEnd(s) = s.seq + 1
    BY <1>1, <1>2, <1>3 DEF ListEnd
  <2>4. IsBoundary(ListEnd(s))'
    <3>1. /\ writeNext \in 1..Len(writeList) /\ writeList \in Seq(Segment)
      BY <1>1 DEF SndInv, SndTypeOK
    <3>2. writeNext \in 1..Len(writeList') /\ writeList'[writeNext] = s
      BY <3>1, <1>1
    <3> QED BY <3>2 DEF IsBoundary
  <2> QED BY <1>1, <1>5, <2>1, <2>2, <2>3, <2>4 DEF Sent
<1>8. WireInv'
  BY <1>1, <1>3, <1>6, <1>7, WireKept DEF SideInv
<1> QED BY <1>6, <1>8 DEF SideInv

\* A split keeps every boundary,
LEMMA SplitPlaces ==
  ASSUME NEW q \in Seq(Segment), NEW i \in 1..Len(q), NEW s \in Segment,
         NEW n \in Int, 0 < n, s.off = q[i].off, s.len = q[i].len, s.len > 0,
         NEW r, r = SplitAt(q, i, s, n)
  PROVE  \A j \in 1..Len(q) : \E k \in 1..Len(r) : ListEnd(r[k]) = ListEnd(q[j])
<1> DEFINE p == SubSeq(q, 1, i - 1)  m == Pieces(s, n)
           t == SubSeq(q, i + 1, Len(q))
<1>1. r = (p \o m) \o t
  BY DEF SplitAt, Pieces, Front, Rest
<1>2. /\ p \in Seq(Segment) /\ t \in Seq(Segment) /\ Len(p) = i - 1
      /\ Len(t) = Len(q) - i /\ Len(q) \in Nat /\ i \in Nat /\ i >= 1 /\ i <= Len(q)
      /\ \A k \in 1..(i - 1) : p[k] = q[k]
      /\ \A k \in 1..(Len(q) - i) : t[k] = q[k + i]
  BY SubSeqs
<1>3. /\ m \in Seq(Segment) /\ Len(m) \in {1, 2}
      /\ ListEnd(m[Len(m)]) = ListEnd(q[i])
  <2>1. ListEnd(s) = ListEnd(q[i])
    BY DEF ListEnd
  <2>2. CASE s.len > n
    <3>1. /\ Front(s, n) \in Segment /\ Rest(s, n) \in Segment
          /\ ListEnd(Rest(s, n)) = ListEnd(s)
      BY <2>2, PieceTypes
    <3>2. m = <<Front(s, n), Rest(s, n)>>
      BY <2>2 DEF Pieces
    <3> QED BY <3>1, <3>2, <2>1
  <2>3. CASE ~(s.len > n)
    <3>1. m = <<s>>
      BY <2>3 DEF Pieces
    <3> QED BY <3>1, <2>1
  <2> QED BY <2>2, <2>3
<1> HIDE DEF p, m, t
<1> DEFINE u == p \o m
<1>4. /\ u \in Seq(Segment) /\ Len(u) = (i - 1) + Len(m)
      /\ \A k \in 1..(i - 1) : u[k] = p[k]
      /\ \A k \in 1..Len(m) : u[k + (i - 1)] = m[k]
  <2>1. p \in Seq(Segment) /\ m \in Seq(Segment)
    BY <1>2, <1>3
  <2>2. /\ u \in Seq(Segment) /\ Len(u) = Len(p) + Len(m)
        /\ \A k \in 1..Len(p) : u[k] = p[k]
        /\ \A k \in 1..Len(m) : u[k + Len(p)] = m[k]
    BY <2>1, ConcatSeq
  <2> QED BY <2>2, <1>2
<1> HIDE DEF u
<1>5. /\ Len(r) = Len(u) + Len(t) /\ Len(u) \in Nat /\ Len(t) \in Nat
      /\ \A k \in 1..Len(u) : r[k] = u[k]
      /\ \A k \in 1..Len(t) : r[k + Len(u)] = t[k]
  <2>1. u \in Seq(Segment) /\ t \in Seq(Segment) /\ r = u \o t
    BY <1>1, <1>2, <1>4 DEF u
  <2> QED BY <2>1, ConcatSeq
<1> SUFFICES ASSUME NEW j \in 1..Len(q)
             PROVE  \E k \in 1..Len(r) : ListEnd(r[k]) = ListEnd(q[j])
  OBVIOUS
<1>6. CASE j < i
  <2>1. j \in 1..(i - 1) /\ j \in 1..Len(u) /\ j \in 1..Len(r)
    <3>1. Len(m) \in Nat
      BY <1>3
    <3> QED BY <3>1, <1>6, <1>2, <1>4, <1>5
  <2>2. r[j] = q[j]
    BY <2>1, <1>2, <1>4, <1>5
  <2> QED BY <2>1, <2>2
<1>7. CASE j = i
  <2>1. /\ Len(m) \in 1..Len(m) /\ Len(m) + (i - 1) \in 1..Len(u)
        /\ Len(m) + (i - 1) \in 1..Len(r)
    <3>1. Len(m) \in Nat /\ Len(m) >= 1
      <4>1. \A x : x \in {1, 2} => x \in Nat /\ x >= 1
        OBVIOUS
      <4> QED BY <4>1, <1>3, Zenon
    <3> QED BY <3>1, <1>2, <1>4, <1>5
  <2>2. r[Len(m) + (i - 1)] = m[Len(m)]
    BY <2>1, <1>4, <1>5
  <2> QED BY <2>1, <2>2, <1>3, <1>7
<1>8. CASE j > i
  <2>1. /\ j - i \in 1..(Len(q) - i) /\ j - i \in 1..Len(t) /\ (j - i) + i = j
        /\ (j - i) + Len(u) \in 1..Len(r)
    BY <1>8, <1>2, <1>5
  <2>2. t[j - i] = q[j]
    <3>1. t[j - i] = q[(j - i) + i]
      BY <2>1, <1>2
    <3> QED BY <3>1, <2>1
  <2>3. r[(j - i) + Len(u)] = t[j - i]
    BY <2>1, <1>5
  <2> QED BY <2>1, <2>2, <2>3
<1> QED BY <1>2, <1>6, <1>7, <1>8

\* and labels the pieces.
LEMMA SplitLabels ==
  ASSUME NEW q \in Seq(Segment), NEW i \in 1..Len(q), NEW s \in Segment,
         NEW n \in Int, 0 < n, s.len > 0, s.seq = s.off,
         \A k \in 1..Len(q) : q[k].flags # "none" => q[k].seq = q[k].off,
         NEW r, r = SplitAt(q, i, s, n)
  PROVE  \A k \in 1..Len(r) : r[k].flags # "none" => r[k].seq = r[k].off
<1>1. IsSplit(r, q, i, s, n)
  BY SplitEach
<1> SUFFICES ASSUME NEW k \in 1..Len(r), r[k].flags # "none"
             PROVE  r[k].seq = r[k].off
  OBVIOUS
<1>2. Len(q) \in Nat /\ i \in Nat /\ i <= Len(q) /\ Len(r) \in Nat
  BY <1>1 DEF IsSplit
<1>3. CASE k < i
  <2>1. k \in 1..(i - 1) /\ k \in 1..Len(q)
    BY <1>2, <1>3
  <2>2. r[k] = q[k]
    BY <2>1, <1>1 DEF IsSplit
  <2> QED BY <2>1, <2>2
<1>4. CASE k = i
  <2>1. r[k] = IF s.len > n THEN Front(s, n) ELSE s
    BY <1>1, <1>4 DEF IsSplit
  <2>2. CASE s.len > n
    <3>1. Front(s, n).off = s.off /\ Front(s, n).seq = s.seq
      BY <2>2, PieceTypes
    <3> QED BY <3>1, <2>1, <2>2
  <2> QED BY <2>1, <2>2
<1>5. CASE k = i + 1 /\ s.len > n /\ r[k] = Rest(s, n)
  <2>1. Rest(s, n).off = s.off + n /\ Rest(s, n).seq = s.seq + n
    BY <1>5, PieceTypes
  <2> QED BY <2>1, <1>5
<1>6. CASE \E j \in 1..Len(q) : j > i /\ r[k] = q[j]
  BY <1>6
<1> QED BY <1>1, <1>3, <1>4, <1>5, <1>6 DEF IsSplit

\* Data goes out.
LEMMA SendDataSide ==
  ASSUME SndInv, SideInv, SendData
  PROVE  Keeps /\ SideInv'
<1> SUFFICES ASSUME NEW s, s = Numbered(writeList[writeNext]),
                    NEW n, n = MinOf(WindowEnd - s.seq, maxPayloadSize),
                    NEW list, list = SplitAt(writeList, writeNext, s, n),
                    NEW out, out = list[writeNext]
             PROVE  Keeps /\ SideInv'
  OBVIOUS
<1>1. /\ sndPc = "send" /\ writeNext <= Len(writeList)
      /\ s.len > 0 /\ s.seq < WindowEnd
      /\ writeList' = list /\ wire' = wire \cup {out}
      /\ sndNxt' = MaxOf(sndNxt, out.seq + out.len)
      /\ UNCHANGED <<sndUna, job, sndClosed, written, sndCloseWaker, sndDone,
                     sndBufInQueue>>
  BY DEF SendData, appVars, ackVars, fixedVars
<1>2. /\ s \in Segment /\ s.seq = s.off /\ 1 <= s.off /\ DataEnd(s) <= written + 1
      /\ s.flags \in {"data", "fin"} /\ (s.flags = "fin" => s.len = 0)
  BY <1>1, NumberedLabel
<1>3. /\ writeNext \in 1..Len(writeList) /\ writeList \in Seq(Segment)
      /\ s.off = writeList[writeNext].off /\ s.len = writeList[writeNext].len
  BY <1>1, NumberedSegment, BaseType
<1>4. n \in Int /\ 0 < n
  <2>1. s.seq \in Int /\ WindowEnd \in Int /\ maxPayloadSize \in Nat \ {0}
    <3>1. s.seq \in Int
      BY <1>2, SegEndType
    <3>2. WindowEnd \in Int /\ maxPayloadSize \in Nat \ {0}
      BY DEF SndInv, SndTypeOK, WindowEnd
    <3> QED BY <3>1, <3>2
  <2> QED BY <1>1, <2>1 DEF MinOf
<1>5. /\ out = (IF s.len > n THEN Front(s, n) ELSE s)
      /\ Len(list) >= Len(writeList) /\ list \in Seq(Segment)
  <2>1. IsSplit(list, writeList, writeNext, s, n)
    BY <1>1, <1>2, <1>3, <1>4, SplitEach
  <2> QED BY <2>1 DEF IsSplit
<1>6. /\ out \in Segment /\ out.seq = s.seq /\ out.off = s.off /\ out.len > 0
      /\ out.flags = "data" /\ DataEnd(out) <= written + 1
  <2>0. written \in Nat /\ s.off \in Int /\ s.len \in Nat
    BY <1>2, SegEndType DEF SndInv, SndTypeOK
  <2>1. s.flags = "data"
    BY <1>1, <1>2
  <2>2. CASE s.len > n
    <3>1. /\ Front(s, n) \in Segment /\ Front(s, n).off = s.off
          /\ Front(s, n).len = n /\ Front(s, n).seq = s.seq
          /\ Front(s, n).flags = s.flags /\ DataEnd(Front(s, n)) = s.off + n
      BY <2>2, <1>2, <1>4, PieceTypes
    <3>2. s.off + n <= written + 1
      <4>1. s.off + s.len <= written + 1
        BY <1>2 DEF DataEnd
      <4> QED BY <4>1, <2>0, <2>2, <1>4
    <3> QED BY <3>1, <3>2, <2>1, <2>2, <1>4, <1>5
  <2>3. CASE ~(s.len > n)
    BY <2>1, <2>3, <1>1, <1>2, <1>5
  <2> QED BY <2>2, <2>3
<1>7. /\ sndNxt \in Int /\ sndNxt' \in Int /\ sndNxt <= sndNxt'
      /\ out.seq + out.len <= sndNxt' /\ written \in Nat /\ out.seq \in Int /\ out.len \in Nat
  <2>1. sndNxt \in Int /\ written \in Nat
    BY DEF SndInv, SndTypeOK
  <2>2. out.seq \in Int /\ out.len \in Nat
    BY <1>6, SegEndType
  <2> QED BY <2>1, <2>2, <1>1 DEF MaxOf
<1>8. Base' = Base
  BY <1>1 DEF Base
<1>9. Keeps
  <2>1. \A j \in 1..Len(writeList) : \E k \in 1..Len(list) : ListEnd(list[k]) = ListEnd(writeList[j])
    <3>1. s \in Segment /\ s.len > 0
      BY <1>1, <1>2
    <3>2. /\ writeList \in Seq(Segment) /\ writeNext \in 1..Len(writeList)
          /\ s.off = writeList[writeNext].off /\ s.len = writeList[writeNext].len
          /\ n \in Int /\ 0 < n /\ list = SplitAt(writeList, writeNext, s, n)
      BY <1>3, <1>4
    <3>3. \A r : r = SplitAt(writeList, writeNext, s, n) =>
            \A j \in 1..Len(writeList) :
              \E k \in 1..Len(r) : ListEnd(r[k]) = ListEnd(writeList[j])
      BY <3>1, <3>2, SplitPlaces, SMTT(30)
    <3> QED BY <3>2, <3>3, Zenon
  <2>2. \A v \in Int : IsBoundary(v) => IsBoundary(v)'
    <3> SUFFICES ASSUME NEW v \in Int, IsBoundary(v)
                 PROVE  IsBoundary(v)'
      OBVIOUS
    <3>1. CASE v <= Base
      BY <3>1, <1>8 DEF IsBoundary
    <3>2. CASE \E j \in 1..Len(writeList) : ListEnd(writeList[j]) = v
      BY <3>2, <2>1, <1>1 DEF IsBoundary
    <3> QED BY <3>1, <3>2 DEF IsBoundary
  <2> QED BY <2>2, <1>1, <1>7 DEF Keeps
<1>10. LabelInv'
  <2>1. \A k \in 1..Len(writeList) :
          writeList[k].flags # "none" => writeList[k].seq = writeList[k].off
    BY DEF SideInv, LabelInv
  <2>2. \A k \in 1..Len(list) : list[k].flags # "none" => list[k].seq = list[k].off
    BY <2>1, <1>1, <1>2, <1>3, <1>4, SplitLabels
  <2> QED BY <2>2, <1>1, <1>8, <1>9, LabelKept DEF SideInv
<1>11. Sent(out)'
  <2>1. OfStream(out, written) /\ SegEnd(out) = ListEnd(out)
    BY <1>2, <1>6, <1>7, PieceOfStream
  <2>2. ListEnd(out) = out.seq + out.len
    BY <1>2, <1>6, <1>7 DEF ListEnd
  <2>3. IsBoundary(ListEnd(out))'
    <3>1. writeNext \in 1..Len(writeList') /\ writeList'[writeNext] = out
      BY <1>1, <1>3, <1>5
    <3> QED BY <3>1 DEF IsBoundary
  <2> QED BY <1>1, <1>6, <1>7, <2>1, <2>2, <2>3 DEF Sent
<1>12. WireInv'
  BY <1>1, <1>6, <1>9, <1>11, WireKept DEF SideInv
<1>13. CloseInv'
  BY <1>1 DEF SideInv, CloseInv
<1> QED BY <1>9, <1>10, <1>12, <1>13 DEF SideInv

\* A timeout changes where the list is written from.
LEMMA TimeoutSide ==
  ASSUME SndInv, SideInv, RetransmitTimerExpired
  PROVE  Keeps /\ SideInv'
<1>1. UNCHANGED <<writeList, sndUna, job, sndNxt, wire, sndClosed, written,
                  sndCloseWaker, sndDone, sndBufInQueue>>
  BY DEF RetransmitTimerExpired, appVars, ackVars, fixedVars
<1>2. CloseInv' /\ written \in Nat
  BY <1>1 DEF SideInv, CloseInv, SndInv, SndTypeOK
<1> QED BY <1>1, <1>2, AsideSide

\* A sender that gives up resets the connection.
LEMMA GiveUpSide ==
  ASSUME SndInv, SideInv, GiveUp
  PROVE  Keeps /\ SideInv'
<1> SUFFICES ASSUME NEW m, m = [seq |-> sndUna, off |-> 0, len |-> 0, flags |-> "rst"]
             PROVE  Keeps /\ SideInv'
  OBVIOUS
<1>1. /\ UNCHANGED <<writeList, sndUna, job, sndNxt, sndClosed, written,
                     sndCloseWaker, sndDone, sndBufInQueue>>
      /\ wire' = wire \cup {m}
  BY DEF GiveUp, appVars, listVars, ackVars, fixedVars
<1>2. sndUna \in Int /\ written \in Nat
  BY DEF SndInv, SndTypeOK
<1>3. m \in Segment /\ m.flags = "rst"
  BY <1>2 DEF Segment, Flags
<1>4. Keeps
  BY <1>1, <1>2, KeepsAll
<1>5. Base' = Base
  BY <1>1 DEF Base
<1>6. LabelInv'
  BY <1>1, <1>4, <1>5, LabelKept DEF SideInv, LabelInv
<1>7. WireInv'
  BY <1>1, <1>3, <1>4, WireKept DEF SideInv
<1> QED BY <1>1, <1>4, <1>6, <1>7 DEF SideInv, CloseInv

LEMMA WorkSide ==
  ASSUME SndInv, SideInv, SenderWork
  PROVE  Keeps /\ SideInv'
BY HandleWriteSide, HandleCloseSide, PopSide, AckDoneSide, SendDataSide,
   SendFinSide, SendStopSide DEF SenderWork

-----------------------------------------------------------------------------
(* The steps of the receiver, as the sender and the network see them. *)

\* The receiver consumes s, or nothing; it may ack what it has consumed.
Takes(s) == ~rcvClosed /\ Consumable(s) /\ Consume(s)

Rests ==
  /\ UNCHANGED <<rcvNxt, rcvClosed, rcvd>>
  /\ \/ SendAck(rcvNxt, rcvBufUsed) /\ rcvBufUsed' = rcvBufUsed
     \/ UNCHANGED <<rcvAcc, acks>> /\ rcvBufUsed' <= rcvBufUsed

\* What waits after the step waited before.
StillPending(s) == \E j \in 1..Len(pending) : s = pending[j]

LEMMA BufType ==
  ASSUME RcvTypeOK
  PROVE  /\ rcvBufUsed <= rcvBufUsed /\ Len(pending) \in Nat
         /\ pending \in Seq(Segment) /\ DOMAIN pending = 1..Len(pending)
BY DEF RcvTypeOK

LEMMA SegmentMoves ==
  ASSUME RcvTypeOK, NEW m, RcvHandleSegment(m)
  PROVE  /\ \A i \in 1..Len(pending') :
              (pending'[i] = m /\ m.flags # "rst") \/ StillPending(pending'[i])
         /\ Rests \/ (m.flags # "rst" /\ Takes(m))
<1> USE BufType
<1>1. CASE HandleIgnored(m) \/ HandleReset(m)
  BY <1>1 DEF HandleIgnored, HandleReset, segVars, readVars, Rests, StillPending
<1>2. CASE HandleUnacceptable(m)
  BY <1>2 DEF HandleUnacceptable, readVars, Rests, StillPending
<1>3. CASE HandleInOrder(m)
  <2>1. m.flags # "rst" /\ Takes(m)
    BY <1>3 DEF HandleInOrder, Takes
  <2>2. pending' = <<>> \/ pending' = pending
    BY <1>3 DEF HandleInOrder
  <2>3. \A i \in 1..Len(pending') : StillPending(pending'[i])
    BY <2>2 DEF StillPending
  <2> QED BY <2>1, <2>3
<1>4. CASE HandleOutOfOrder(m)
  <2>1. m.flags # "rst" /\ Rests
    BY <1>4 DEF HandleOutOfOrder, readVars, Rests
  <2>2. pending' = pending \/ pending' = Append(pending, m)
    BY <1>4 DEF HandleOutOfOrder
  <2>3. CASE pending' = pending
    BY <2>1, <2>3 DEF StillPending
  <2>4. CASE pending' = Append(pending, m)
    <3>1. \A i \in 1..Len(pending') :
            (i \in 1..Len(pending) /\ pending'[i] = pending[i]) \/ pending'[i] = m
      BY <2>4
    <3> QED BY <2>1, <3>1 DEF StillPending
  <2> QED BY <2>2, <2>3, <2>4
<1> QED BY <1>1, <1>2, <1>3, <1>4 DEF RcvHandleSegment

LEMMA PendingWithout ==
  ASSUME NEW q \in Seq(Segment), NEW k \in DOMAIN q
  PROVE  /\ Without(q, k) \in Seq(Segment)
         /\ \A j \in DOMAIN Without(q, k) :
              \E i \in DOMAIN q : Without(q, k)[j] = q[i]
BY WithoutSeq

LEMMA WorkMoves ==
  ASSUME RcvTypeOK, ReceiverWork
  PROVE  /\ \A i \in 1..Len(pending') : StillPending(pending'[i])
         /\ Rests \/ \E j \in 1..Len(pending) : Takes(pending[j])
<1> USE BufType
<1>1. ASSUME NEW k \in DOMAIN pending,
             pending' = <<>> \/ pending' = Without(pending, k)
      PROVE  \A i \in 1..Len(pending') : StillPending(pending'[i])
  <2>1. CASE pending' = <<>>
    BY <2>1
  <2>2. CASE pending' = Without(pending, k)
    <3>0. pending \in Seq(Segment)
      OBVIOUS
    <3>1. /\ Without(pending, k) \in Seq(Segment)
          /\ \A j \in DOMAIN Without(pending, k) :
               \E i \in DOMAIN pending : Without(pending, k)[j] = pending[i]
      BY <3>0, PendingWithout, Zenon
    <3> QED BY <3>1, <2>2 DEF StillPending
  <2> QED BY <1>1, <2>1, <2>2
<1>2. CASE DrainSkip
  <2>1. PICK k \in DOMAIN pending : pending' = Without(pending, k)
    BY <1>2 DEF DrainSkip
  <2>2. Rests
    BY <1>2 DEF DrainSkip, readVars, Rests
  <2> QED BY <2>1, <2>2, <1>1
<1>3. CASE DrainConsume
  <2>1. PICK k \in DOMAIN pending :
          /\ Takes(pending[k])
          /\ pending' = <<>> \/ pending' = Without(pending, k)
    BY <1>3 DEF DrainConsume, Takes
  <2> QED BY <2>1, <1>1
<1>4. CASE DrainStop
  BY <1>4 DEF DrainStop, segVars, readVars, Rests, StillPending
<1>5. CASE EndBatch
  BY <1>5 DEF EndBatch, readVars, Rests, StillPending
<1>6. CASE NonZeroWindow
  BY <1>6 DEF NonZeroWindow, Rests, StillPending
<1> QED BY <1>2, <1>3, <1>4, <1>5, <1>6 DEF ReceiverWork

LEMMA ReadMoves ==
  ASSUME RcvTypeOK, Read
  PROVE  Rests /\ \A i \in 1..Len(pending') : StillPending(pending'[i])
<1> USE BufType
<1>1. /\ UNCHANGED <<rcvNxt, rcvAcc, rcvClosed, pending, rcvd, acks>>
      /\ rcvList # <<>> /\ rcvBufUsed' = rcvBufUsed - Head(rcvList)
  BY DEF Read, segVars
<1>2. Head(rcvList) \in Nat /\ rcvBufUsed \in Int
  BY <1>1 DEF RcvTypeOK
<1>3. rcvBufUsed' <= rcvBufUsed
  BY <1>1, <1>2
<1> QED BY <1>1, <1>3 DEF Rests, StillPending

\* What a segment that is consumed does to the numbers.
LEMMA TakesStep ==
  ASSUME NEW n \in Nat, RcvInv(n), RcvInv(n)', NEW s, OfStream(s, n), Takes(s)
  PROVE  /\ rcvNxt' = SegEnd(s) /\ rcvNxt <= rcvNxt' /\ Len(rcvd) <= Len(rcvd')
         /\ rcvClosed' = (s.flags = "fin")
         /\ (rcvNxt' - rcvNxt) - (IF s.flags = "fin" THEN 1 ELSE 0)
              = rcvBufUsed' - rcvBufUsed
         /\ IF s.flags = "fin" THEN SendAck(rcvNxt', rcvBufUsed')
                               ELSE UNCHANGED <<rcvAcc, maxSentAck, acks>>
<1> DEFINE t == Trimmed(s)
<1>1. /\ OfStream(t, n) /\ t.seq = rcvNxt /\ t.flags = s.flags
      /\ SegEnd(t) = SegEnd(s)
  BY TrimmedOfStream DEF RcvInv, Takes
<1>2. /\ rcvNxt' = SegEnd(t) /\ rcvBufUsed' = rcvBufUsed + t.len
      /\ rcvClosed' = (s.flags = "fin") /\ ~rcvClosed
      /\ IF s.flags = "fin" THEN SendAck(SegEnd(t), rcvBufUsed + t.len)
                            ELSE UNCHANGED <<rcvAcc, maxSentAck, acks>>
  BY DEF Takes, Consume
<1> HIDE DEF t
<1>3. /\ rcvNxt \in Nat /\ rcvNxt' \in Nat /\ rcvBufUsed \in Int
      /\ Len(rcvd) \in Nat /\ Len(rcvd') \in Nat
  BY DEF RcvInv, RcvTypeOK
<1>4. /\ t.len \in Nat /\ t.seq \in Int /\ SegEnd(t) = t.seq + LogicalLen(t)
      /\ s.flags # "fin" => LogicalLen(t) = t.len
      /\ s.flags = "fin" => LogicalLen(t) = t.len + 1
  BY <1>1, SegEndType DEF OfStream
<1>2a. rcvBufUsed' = rcvBufUsed + t.len
  BY <1>2
<1>4a. t.len \in Nat
  BY <1>4
<1>5. CASE s.flags = "fin"
  <2>1. rcvNxt' = rcvNxt + t.len + 1
    BY <1>1, <1>2, <1>3, <1>4, <1>5
  <2>2. rcvNxt' = Len(rcvd') + 1 + 1 /\ rcvNxt = Len(rcvd) + 1 + 0
    BY <1>2, <1>5 DEF RcvInv, AckMatchesData
  <2>3. SendAck(rcvNxt', rcvBufUsed')
    BY <1>2, <1>5
  <2>4. /\ rcvNxt <= rcvNxt' /\ Len(rcvd) <= Len(rcvd')
        /\ (rcvNxt' - rcvNxt) - 1 = rcvBufUsed' - rcvBufUsed
    <3>1. rcvNxt <= rcvNxt' /\ (rcvNxt' - rcvNxt) - 1 = rcvBufUsed' - rcvBufUsed
      BY <2>1, <1>2a, <1>3, <1>4a
    <3>2. Len(rcvd) <= Len(rcvd')
      BY <2>1, <2>2, <1>3, <1>4a
    <3> QED BY <3>1, <3>2
  <2> QED BY <2>3, <2>4, <1>1, <1>2, <1>5
<1>6. CASE s.flags # "fin"
  <2>1. rcvNxt' = rcvNxt + t.len
    BY <1>1, <1>2, <1>3, <1>4, <1>6
  <2>2. rcvNxt' = Len(rcvd') + 1 + 0 /\ rcvNxt = Len(rcvd) + 1 + 0
    BY <1>2, <1>6 DEF RcvInv, AckMatchesData
  <2>3. UNCHANGED <<rcvAcc, maxSentAck, acks>>
    BY <1>2, <1>6
  <2>4. /\ rcvNxt <= rcvNxt' /\ Len(rcvd) <= Len(rcvd')
        /\ (rcvNxt' - rcvNxt) - 0 = rcvBufUsed' - rcvBufUsed
    BY <2>1, <2>2, <1>2a, <1>3, <1>4a
  <2> QED BY <2>3, <2>4, <1>1, <1>2, <1>6
<1> QED BY <1>5, <1>6

\* The window is rounded down.
LEMMA ScaledLess ==
  ASSUME NEW w \in Nat
  PROVE  Scaled(w) \in Nat /\ Scaled(w) <= w
<1>1. \A u \in Nat \ {0}, x \in Nat : (x \div u) * u <= x
  BY SMTT(30)
<1> QED BY <1>1, ScaledNat, ReceiverAssumption DEF Scaled

LEMMA AckTyped ==
  ASSUME NEW q \in Seq([ack : Nat, wnd : Nat])
  PROVE  \A i \in 1..Len(q) : q[i].ack \in Nat /\ q[i].wnd \in Nat
<1> SUFFICES ASSUME NEW i \in 1..Len(q)
             PROVE  q[i].ack \in Nat /\ q[i].wnd \in Nat
  OBVIOUS
<1>1. \A S : \A r \in Seq(S) : \A k \in 1..Len(r) : r[k] \in S
  OBVIOUS
<1>2. q[i] \in [ack : Nat, wnd : Nat]
  BY <1>1, Zenon
<1> QED BY <1>2

\* An ack that is sent is for all that was consumed.
LEMMA AckStep ==
  ASSUME RcvTypeOK, RcvTypeOK', AckInv, Keeps, rcvNxt <= rcvNxt', IsBoundary(rcvNxt)',
         NEW used \in Int, SendAck(rcvNxt', used) \/ UNCHANGED <<rcvAcc, acks>>
  PROVE  AckInv' /\ rcvAcc <= rcvAcc'
<1>0. acks \in Seq([ack : Nat, wnd : Nat])
  BY DEF RcvTypeOK
<1>1. /\ rcvNxt \in Nat /\ rcvNxt' \in Nat /\ rcvAcc \in Nat /\ rcvAcc' \in Nat
      /\ Len(acks) \in Nat
  BY <1>0 DEF RcvTypeOK
<1>2. \A i \in 1..Len(acks) : acks[i].ack \in Nat /\ acks[i].wnd \in Nat
  BY <1>0, AckTyped
<1>3. rcvAcc <= rcvAcc'
  <2>1. CASE SendAck(rcvNxt', used)
    BY <2>1, <1>1, SendAckType
  <2>2. CASE UNCHANGED <<rcvAcc, acks>>
    BY <2>2, <1>1
  <2> QED BY <2>1, <2>2
<1>4. ASSUME NEW i \in 1..Len(acks)
      PROVE  /\ acks[i].ack <= rcvNxt' /\ acks[i].ack + acks[i].wnd <= rcvAcc'
             /\ \A v : v = acks[i].ack => IsBoundary(v)'
  <2>1. /\ acks[i].ack <= rcvNxt /\ IsBoundary(acks[i].ack)
        /\ acks[i].ack + acks[i].wnd <= rcvAcc
    BY DEF AckInv
  <2>2. acks[i].ack \in Nat /\ acks[i].wnd \in Nat
    BY <1>2
  <2>3. ASSUME NEW v, v = acks[i].ack
        PROVE  IsBoundary(v)'
    <3>1. v \in Int /\ IsBoundary(v)
      BY <2>1, <2>2, <2>3
    <3> QED BY <3>1 DEF Keeps
  <2>4. acks[i].ack <= rcvNxt' /\ acks[i].ack + acks[i].wnd <= rcvAcc'
    <3> DEFINE a == acks[i].ack
               b == acks[i].wnd
    <3>1. a \in Nat /\ b \in Nat /\ a <= rcvNxt /\ a + b <= rcvAcc
      BY <2>1, <2>2
    <3> HIDE DEF a, b
    <3>2. a <= rcvNxt' /\ a + b <= rcvAcc'
      BY <3>1, <1>1, <1>3
    <3> QED BY <3>2 DEF a, b
  <2> QED BY <2>3, <2>4
<1>5. CASE acks' = acks
  <2>1. ASSUME NEW i \in 1..Len(acks')
        PROVE  /\ acks'[i].ack <= rcvNxt' /\ IsBoundary(acks[i].ack)'
               /\ acks'[i].ack + acks'[i].wnd <= rcvAcc'
    BY <1>4, <1>5 DEF IsBoundary
  <2>2. \A i, j \in 1..Len(acks') : i < j => acks'[i].ack <= acks'[j].ack
    BY <1>5 DEF AckInv
  <2> QED BY <1>3, <2>1, <2>2 DEF AckInv
<1>6. CASE SendAck(rcvNxt', used) /\ acks' # acks
  <2> DEFINE e == [ack |-> rcvNxt', wnd |-> Scaled(rcvAcc' - rcvNxt')]
  <2>1. acks' = Append(acks, e)
    BY <1>6 DEF SendAck
  <2>2. rcvAcc' - rcvNxt' \in Nat
    <3>1. Available(used) \in Nat
      BY ReceiverAssumption DEF Available, MaxOf
    <3>2. rcvAcc' = MaxOf(rcvAcc, rcvNxt' + Available(used))
      BY <1>6 DEF SendAck
    <3>3. \A a, b, c \in Nat : MaxOf(a, b + c) - b \in Nat
      BY DEF MaxOf
    <3> QED BY <3>1, <3>2, <3>3, <1>1, Zenon
  <2>3. e.ack = rcvNxt' /\ e.wnd \in Nat /\ rcvNxt' + e.wnd <= rcvAcc'
    <3>1. Scaled(rcvAcc' - rcvNxt') \in Nat /\ Scaled(rcvAcc' - rcvNxt') <= rcvAcc' - rcvNxt'
      BY <2>2, ScaledLess
    <3>2. e.ack = rcvNxt' /\ e.wnd = Scaled(rcvAcc' - rcvNxt')
      OBVIOUS
    <3> HIDE DEF e
    <3> QED BY <3>1, <3>2, <1>1
  <2> HIDE DEF e
  <2>4. /\ Len(acks') = Len(acks) + 1 /\ acks'[Len(acks) + 1] = e
        /\ \A i \in 1..Len(acks) : acks'[i] = acks[i]
    BY <2>1, <1>1
  <2>5. ASSUME NEW i \in 1..Len(acks')
        PROVE  /\ acks'[i].ack <= rcvNxt' /\ IsBoundary(acks[i].ack)'
               /\ acks'[i].ack + acks'[i].wnd <= rcvAcc'
    <3>1. CASE i \in 1..Len(acks)
      BY <3>1, <2>4, <1>4 DEF IsBoundary
    <3>2. CASE i = Len(acks) + 1
      BY <3>2, <2>3, <2>4, <1>1 DEF IsBoundary
    <3> QED BY <3>1, <3>2, <2>4, <1>1
  <2>6. ASSUME NEW i \in 1..Len(acks'), NEW j \in 1..Len(acks'), i < j
        PROVE  acks'[i].ack <= acks'[j].ack
    <3>1. i \in 1..Len(acks) /\ (j \in 1..Len(acks) \/ j = Len(acks) + 1)
      BY <2>4, <2>6, <1>1
    <3>2. CASE j \in 1..Len(acks)
      BY <3>1, <3>2, <2>4, <2>6 DEF AckInv
    <3>3. CASE j = Len(acks) + 1
      BY <3>1, <3>3, <2>3, <2>4, <1>4
    <3> QED BY <3>1, <3>2, <3>3
  <2> QED BY <1>3, <2>5, <2>6 DEF AckInv
<1> QED BY <1>5, <1>6

\* Fewer acks, in the order they were in.
LEMMA AckLess ==
  ASSUME RcvTypeOK, AckInv, Keeps, UNCHANGED <<rcvNxt, rcvAcc>>,
         acks' = acks \/ \E i \in 1..Len(acks) : acks' = Without(acks, i)
  PROVE  AckInv'
<1>0. acks \in Seq([ack : Nat, wnd : Nat])
  BY DEF RcvTypeOK
<1>1. Len(acks) \in Nat
  BY <1>0
<1>2. ASSUME NEW i \in 1..Len(acks)
      PROVE  \A v : v = acks[i].ack => IsBoundary(v)'
  <2>2. acks[i].ack \in Int
    BY <1>0, AckTyped
  <2>3. ASSUME NEW v, v = acks[i].ack
        PROVE  IsBoundary(v)'
    <3>1. v \in Int /\ IsBoundary(v)
      BY <2>2, <2>3 DEF AckInv
    <3> QED BY <3>1 DEF Keeps
  <2> QED BY <2>3
<1>3. \E f : /\ \A k \in 1..Len(acks') : f[k] \in 1..Len(acks) /\ acks'[k] = acks[f[k]]
             /\ \A k, l \in 1..Len(acks') : k < l => f[k] < f[l]
  <2>1. CASE acks' = acks
    <3> DEFINE f == [k \in 1..Len(acks) |-> k]
    <3>1. /\ \A k \in 1..Len(acks') : f[k] \in 1..Len(acks) /\ acks'[k] = acks[f[k]]
          /\ \A k, l \in 1..Len(acks') : k < l => f[k] < f[l]
      BY <2>1
    <3> HIDE DEF f
    <3> QED BY <3>1
  <2>2. CASE \E i \in 1..Len(acks) : acks' = Without(acks, i)
    <3>1. PICK i \in 1..Len(acks) : acks' = Without(acks, i)
      BY <2>2
    <3>2. /\ Len(acks') = Len(acks) - 1
          /\ \A j \in 1..(Len(acks) - 1) :
               acks'[j] = IF j < i THEN acks[j] ELSE acks[j + 1]
      BY <3>1, <1>0, WithoutAt
    <3> DEFINE f == [k \in 1..(Len(acks) - 1) |-> IF k < i THEN k ELSE k + 1]
    <3>3. \A k \in 1..(Len(acks) - 1) : f[k] = IF k < i THEN k ELSE k + 1
      OBVIOUS
    <3> HIDE DEF f
    <3>4. ASSUME NEW k \in 1..(Len(acks) - 1)
          PROVE  f[k] \in 1..Len(acks) /\ acks'[k] = acks[f[k]]
      <4>0. k \in 1..Len(acks) /\ k + 1 \in 1..Len(acks)
        BY <1>1
      <4>1. CASE k < i
        <5>1. f[k] = k /\ acks'[k] = acks[k]
          BY <4>1, <3>2, <3>3
        <5> QED BY <4>0, <5>1
      <4>2. CASE ~(k < i)
        <5>1. f[k] = k + 1 /\ acks'[k] = acks[k + 1]
          BY <4>2, <3>2, <3>3
        <5> QED BY <4>0, <5>1
      <4> QED BY <4>1, <4>2
    <3>5. ASSUME NEW k \in 1..(Len(acks) - 1), NEW l \in 1..(Len(acks) - 1), k < l
          PROVE  f[k] < f[l]
      <4>1. /\ f[k] = IF k < i THEN k ELSE k + 1
            /\ f[l] = IF l < i THEN l ELSE l + 1
        BY <3>3
      <4> QED BY <4>1, <3>5, <1>1
    <3> QED BY <3>2, <3>4, <3>5
  <2> QED BY <2>1, <2>2
<1>4. PICK f : /\ \A k \in 1..Len(acks') : f[k] \in 1..Len(acks) /\ acks'[k] = acks[f[k]]
               /\ \A k, l \in 1..Len(acks') : k < l => f[k] < f[l]
  BY <1>3
<1>5. ASSUME NEW k \in 1..Len(acks')
      PROVE  /\ acks'[k].ack <= rcvNxt' /\ IsBoundary(acks[k].ack)'
             /\ acks'[k].ack + acks'[k].wnd <= rcvAcc'
  <2>1. f[k] \in 1..Len(acks) /\ acks'[k] = acks[f[k]]
    BY <1>4
  <2>2. acks[f[k]].ack <= rcvNxt /\ acks[f[k]].ack + acks[f[k]].wnd <= rcvAcc
    BY <2>1 DEF AckInv
  <2>3. \A v : v = acks'[k].ack => IsBoundary(v)'
    BY <2>1, <1>2
  <2> QED BY <2>1, <2>2, <2>3 DEF IsBoundary
<1>6. ASSUME NEW k \in 1..Len(acks'), NEW l \in 1..Len(acks'), k < l
      PROVE  acks'[k].ack <= acks'[l].ack
  <2>1. /\ f[k] \in 1..Len(acks) /\ acks'[k] = acks[f[k]]
        /\ f[l] \in 1..Len(acks) /\ acks'[l] = acks[f[l]]
    BY <1>4
  <2>2. f[k] < f[l]
    BY <1>4, <1>6
  <2> QED BY <2>1, <2>2 DEF AckInv
<1> QED BY <1>5, <1>6 DEF AckInv

-----------------------------------------------------------------------------
(* What is taken was sent. *)

\* All that waits was sent.
LEMMA PendingSent ==
  ASSUME Keeps, \A i \in 1..Len(pending') : \E x : Sent(x) /\ x = pending'[i]
  PROVE  \A i \in 1..Len(pending') : Sent(pending[i])' /\ OfStream(pending'[i], written')
<1> SUFFICES ASSUME NEW i \in 1..Len(pending')
             PROVE  Sent(pending[i])' /\ OfStream(pending'[i], written')
  OBVIOUS
<1>1. PICK x : Sent(x) /\ x = pending'[i]
  OBVIOUS
<1>2. Sent(x)'
  BY <1>1, SentKept
<1> QED BY <1>1, <1>2 DEF Sent, IsBoundary

\* A step of the sender, or an ack that leaves the network.
LEMMA SenderTaken ==
  ASSUME TakenInv, AckInv, Keeps,
         UNCHANGED <<segVars, maxSentAck, loopVars, readVars>>,
         acks' = acks \/ \E i \in 1..Len(acks) : acks' = Without(acks, i),
         sndUna' <= rcvNxt
  PROVE  TakenInv' /\ AckInv'
<1>1. /\ RcvInv(written) /\ RcvTypeOK /\ written \in Nat /\ written' \in Nat
      /\ sndNxt \in Int /\ sndNxt' \in Int /\ sndNxt <= sndNxt' /\ rcvNxt \in Nat
  BY DEF TakenInv, RcvInv, RcvTypeOK, Keeps
<1>2. UNCHANGED <<rcvNxt, rcvAcc, rcvClosed, pending, pendingBufUsed, rcvd, rcvBufUsed>>
  BY DEF segVars, readVars
<1>3. \A i \in 1..Len(pending') : Sent(pending[i])' /\ OfStream(pending'[i], written')
  <2>1. \A i \in 1..Len(pending') : \E x : Sent(x) /\ x = pending'[i]
    BY <1>2 DEF TakenInv
  <2> QED BY <2>1, PendingSent
<1>4. AckInv'
  BY <1>1, <1>2, AckLess
<1>5. RcvTypeOK'
  <2>1. acks' \in Seq([ack : Nat, wnd : Nat])
    <3>1. acks \in Seq([ack : Nat, wnd : Nat])
      BY <1>1 DEF RcvTypeOK
    <3>2. \A i \in 1..Len(acks) : Without(acks, i) \in Seq([ack : Nat, wnd : Nat])
      BY <3>1, WithoutSeq
    <3> QED BY <3>1, <3>2
  <2> QED BY <2>1, <1>1 DEF RcvTypeOK, segVars, loopVars, readVars
<1>6. RcvInv(written)'
  <2>1. PendingOfStream(written)'
    <3>1. DOMAIN pending' = 1..Len(pending')
      BY <1>5 DEF RcvTypeOK
    <3> QED BY <3>1, <1>3 DEF PendingOfStream
  <2>2. InOrder' /\ AckMatchesData'
    BY <1>1, <1>2 DEF RcvInv, InOrder, AckMatchesData
  <2>3. Within(written)'
    <3>1. Len(rcvd) <= written /\ (rcvClosed => Len(rcvd) = written) /\ Len(rcvd) \in Nat
      BY <1>1 DEF RcvInv, Within, RcvTypeOK
    <3>2. rcvClosed => sndClosed
      BY DEF TakenInv
    <3>3. written' = written \/ (~sndClosed /\ written <= written')
      BY DEF Keeps
    <3>4. Len(rcvd) <= written'
      BY <3>1, <3>3, <1>1
    <3>5. rcvClosed => Len(rcvd) = written'
      BY <3>1, <3>2, <3>3
    <3> QED BY <3>4, <3>5, <1>2 DEF Within
  <2> QED BY <2>1, <2>2, <2>3, <1>5 DEF RcvInv
<1>7. /\ rcvClosed' => sndClosed'
      /\ sndUna' <= rcvNxt' /\ rcvNxt' <= sndNxt'
  <2>1. rcvNxt <= sndNxt /\ (rcvClosed => sndClosed)
    BY DEF TakenInv
  <2> QED BY <2>1, <1>1, <1>2 DEF Keeps
<1>8. IsBoundary(rcvNxt)'
  <2>1. ASSUME NEW v \in Int, v = rcvNxt, IsBoundary(v)
        PROVE  IsBoundary(v)'
    BY <2>1 DEF Keeps
  <2>2. IsBoundary(rcvNxt)
    BY DEF TakenInv
  <2> QED BY <2>1, <2>2, <1>1, <1>2 DEF IsBoundary
<1> QED BY <1>3, <1>4, <1>6, <1>7, <1>8 DEF TakenInv

\* A step of the receiver.
LEMMA ReceiverTaken ==
  ASSUME SndInv, TakenInv, AckInv, UNCHANGED sndState,
         NEW n \in Nat, n = written, RcvInv(n)',
         \A i \in 1..Len(pending') : \E x : Sent(x) /\ x = pending'[i],
         Rests \/ \E x : Sent(x) /\ Takes(x)
  PROVE  TakenInv' /\ AckInv' /\ rcvNxt <= rcvNxt' /\ rcvAcc <= rcvAcc'
<1>1. /\ UNCHANGED <<writeList, sndUna, job, sndNxt, sndClosed, written>>
      /\ n = written'
  BY DEF sndState, appVars, listVars, ackVars
<1>2. Keeps
  BY <1>1, KeepsAll
<1>3. \A i \in 1..Len(pending') : Sent(pending[i])'
  BY <1>2, PendingSent
<1>4. RcvInv(written)'
  BY <1>1 DEF RcvInv, PendingOfStream, Within
<1>5. /\ RcvInv(n) /\ RcvTypeOK /\ RcvTypeOK'
      /\ rcvNxt \in Nat /\ rcvNxt' \in Nat /\ rcvBufUsed' \in Int
      /\ sndUna \in Int /\ sndNxt \in Int
      /\ sndUna <= rcvNxt /\ rcvNxt <= sndNxt /\ IsBoundary(rcvNxt)
  <2>1. RcvInv(n)
    BY DEF TakenInv
  <2>2. RcvTypeOK /\ RcvTypeOK'
    BY <2>1 DEF RcvInv
  <2>3. sndUna \in Int /\ sndNxt \in Int
    BY BaseType
  <2> QED BY <2>1, <2>2, <2>3 DEF TakenInv, RcvTypeOK
<1>6. ASSUME rcvNxt <= rcvNxt', rcvNxt' <= sndNxt, rcvClosed' => sndClosed,
             \A v : v = rcvNxt' => IsBoundary(v),
             SendAck(rcvNxt', rcvBufUsed') \/ UNCHANGED <<rcvAcc, acks>>
      PROVE  TakenInv' /\ AckInv' /\ rcvNxt <= rcvNxt' /\ rcvAcc <= rcvAcc'
  <2>1. IsBoundary(rcvNxt)'
    <3>1. ASSUME NEW v, v = rcvNxt'
          PROVE  IsBoundary(v)'
      <4>1. v \in Int /\ IsBoundary(v)
        BY <1>5, <1>6, <3>1
      <4> QED BY <4>1, <1>2 DEF Keeps
    <3> QED BY <3>1 DEF IsBoundary
  <2>2. AckInv' /\ rcvAcc <= rcvAcc'
    BY <1>2, <1>5, <1>6, <2>1, AckStep
  <2>3. sndUna' <= rcvNxt' /\ rcvNxt' <= sndNxt' /\ (rcvClosed' => sndClosed')
    BY <1>1, <1>5, <1>6
  <2> QED BY <1>3, <1>4, <1>6, <2>1, <2>2, <2>3 DEF TakenInv
<1>7. CASE Rests
  <2>1. /\ rcvNxt' = rcvNxt /\ (rcvClosed' => sndClosed)
        /\ SendAck(rcvNxt', rcvBufUsed') \/ UNCHANGED <<rcvAcc, acks>>
    BY <1>7 DEF Rests, TakenInv
  <2>2. \A v : v = rcvNxt' => IsBoundary(v)
    BY <2>1, <1>5
  <2> QED BY <2>1, <2>2, <1>5, <1>6
<1>8. CASE \E x : Sent(x) /\ Takes(x)
  <2>1. PICK x : Sent(x) /\ Takes(x)
    BY <1>8
  <2>2. OfStream(x, n) /\ (x.flags = "fin" => sndClosed) /\ SegEnd(x) <= sndNxt
        /\ IsBoundary(SegEnd(x))
    BY <2>1 DEF Sent
  <2>3. /\ rcvNxt' = SegEnd(x) /\ rcvNxt <= rcvNxt' /\ rcvClosed' = (x.flags = "fin")
        /\ IF x.flags = "fin" THEN SendAck(rcvNxt', rcvBufUsed')
                              ELSE UNCHANGED <<rcvAcc, maxSentAck, acks>>
    BY <2>1, <2>2, <1>5, TakesStep
  <2>4. SendAck(rcvNxt', rcvBufUsed') \/ UNCHANGED <<rcvAcc, acks>>
    BY <2>3
  <2>5. \A v : v = rcvNxt' => IsBoundary(v)
    BY <2>2, <2>3
  <2>6. rcvNxt' <= sndNxt /\ (rcvClosed' => sndClosed)
    BY <2>2, <2>3
  <2> QED BY <2>3, <2>4, <2>5, <2>6, <1>6
<1> QED BY <1>7, <1>8

-----------------------------------------------------------------------------
(* The invariant of the connection. *)

LEMMA ConnInit == Init => ConnInv
<1> SUFFICES ASSUME Init PROVE ConnInv
  OBVIOUS
<1>1. SndInv
  BY SndInitInv DEF Init
<1>2. /\ writeList = <<>> /\ sndUna = 1 /\ sndNxt = 1 /\ job = NoJob
      /\ written = 0 /\ wire = {} /\ sndCloseWaker = FALSE /\ sndDone = FALSE
      /\ rcvNxt = 1 /\ rcvClosed = FALSE /\ pending = <<>> /\ acks = <<>>
  BY DEF Init, SndInit, RcvInit
<1>3. Base = 1 /\ job.rtx = FALSE
  BY <1>2 DEF Base, NoJob
<1>4. LabelInv
  BY <1>2, <1>3 DEF LabelInv, IsBoundary
<1>5. WireInv /\ CloseInv /\ AckInv
  BY <1>2 DEF WireInv, CloseInv, AckInv
<1>6. RcvInv(written)
  BY <1>2, InvInit DEF Init
<1>7. TakenInv
  BY <1>2, <1>3, <1>6 DEF TakenInv, IsBoundary
<1> QED BY <1>1, <1>4, <1>5, <1>7 DEF ConnInv

\* The sender stands still, and the wire loses at most.
LEMMA NetSide ==
  ASSUME SndInv, SideInv, UNCHANGED sndState, wire' \subseteq wire
  PROVE  SndInv' /\ Keeps /\ SideInv'
<1>1. /\ UNCHANGED <<writeList, sndUna, job, sndNxt, sndClosed, written,
                     sndCloseWaker, sndDone, sndBufInQueue>>
      /\ written \in Nat
  BY DEF sndState, appVars, listVars, ackVars, fixedVars, SndInv, SndTypeOK
<1>2. Keeps
  BY <1>1, KeepsAll
<1>3. Base' = Base
  BY <1>1 DEF Base
<1>4. LabelInv'
  BY <1>1, <1>2, <1>3, LabelKept DEF SideInv, LabelInv
<1>5. WireInv'
  BY <1>2, WireLess DEF SideInv
<1>6. SndInv'
  BY SameInv
<1> QED BY <1>1, <1>2, <1>4, <1>5, <1>6 DEF SideInv, CloseInv

\* A segment of the wire reaches the receiver.
LEMMA ConnSegment ==
  ASSUME ConnInv, NEW m \in wire, RcvHandleSegment(m), UNCHANGED sndState,
         wire' \subseteq wire
  PROVE  ConnInv' /\ rcvNxt <= rcvNxt' /\ rcvAcc <= rcvAcc'
<1> SUFFICES ASSUME NEW n \in Nat, n = written
             PROVE  ConnInv' /\ rcvNxt <= rcvNxt' /\ rcvAcc <= rcvAcc'
  BY DEF ConnInv, SndInv, SndTypeOK
<1>1. SndInv /\ SideInv /\ TakenInv /\ AckInv /\ RcvInv(n) /\ RcvTypeOK
  BY DEF ConnInv, SideInv, TakenInv, RcvInv
<1>2. SndInv' /\ SideInv'
  BY <1>1, NetSide
<1>3. m.flags = "rst" \/ Sent(m)
  BY <1>1 DEF SideInv, WireInv
<1>4. RcvInv(n)'
  BY <1>1, <1>3, InvSegment DEF Sent
<1>5. /\ \A i \in 1..Len(pending') :
           (pending'[i] = m /\ m.flags # "rst") \/ StillPending(pending'[i])
      /\ Rests \/ (m.flags # "rst" /\ Takes(m))
  BY <1>1, SegmentMoves
<1>6. \A i \in 1..Len(pending') : \E x : Sent(x) /\ x = pending'[i]
  BY <1>1, <1>3, <1>5 DEF StillPending, TakenInv
<1>7. Rests \/ \E x : Sent(x) /\ Takes(x)
  BY <1>3, <1>5
<1>8. TakenInv' /\ AckInv' /\ rcvNxt <= rcvNxt' /\ rcvAcc <= rcvAcc'
  BY <1>1, <1>4, <1>6, <1>7, ReceiverTaken
<1> QED BY <1>2, <1>8 DEF ConnInv, SideInv

\* The worker or the reader moves.
LEMMA ConnWork ==
  ASSUME ConnInv, ReceiverWork \/ Read, UNCHANGED sndVars
  PROVE  ConnInv' /\ rcvNxt <= rcvNxt' /\ rcvAcc <= rcvAcc'
<1> SUFFICES ASSUME NEW n \in Nat, n = written
             PROVE  ConnInv' /\ rcvNxt <= rcvNxt' /\ rcvAcc <= rcvAcc'
  BY DEF ConnInv, SndInv, SndTypeOK
<1>1. SndInv /\ SideInv /\ TakenInv /\ AckInv /\ RcvInv(n) /\ RcvTypeOK
  BY DEF ConnInv, SideInv, TakenInv, RcvInv
<1>2. UNCHANGED sndState /\ wire' \subseteq wire
  BY DEF sndVars
<1>3. SndInv' /\ SideInv'
  BY <1>1, <1>2, NetSide
<1>4. RcvInv(n)'
  BY <1>1, InvWork, InvRead
<1>5. /\ \A i \in 1..Len(pending') : StillPending(pending'[i])
      /\ Rests \/ \E j \in 1..Len(pending) : Takes(pending[j])
  BY <1>1, WorkMoves, ReadMoves
<1>6. \A i \in 1..Len(pending') : \E x : Sent(x) /\ x = pending'[i]
  BY <1>1, <1>5 DEF StillPending, TakenInv
<1>7. Rests \/ \E x : Sent(x) /\ Takes(x)
  BY <1>1, <1>5 DEF TakenInv
<1>8. TakenInv' /\ AckInv' /\ rcvNxt <= rcvNxt' /\ rcvAcc <= rcvAcc'
  BY <1>1, <1>2, <1>4, <1>6, <1>7, ReceiverTaken
<1> QED BY <1>3, <1>8 DEF ConnInv, SideInv

\* The sender writes, works, or times out.
LEMMA ConnSender ==
  ASSUME ConnInv, UNCHANGED rcvVars,
         \/ \E n \in 1..MaxWrite : Write(n)
         \/ ShutdownWrite \/ SenderWork \/ RetransmitTimerExpired \/ GiveUp
  PROVE  ConnInv' /\ Keeps /\ sndUna' = sndUna
<1>1. SndInv /\ SideInv /\ TakenInv /\ AckInv
  BY DEF ConnInv, SideInv
<1>2. \A n \in 1..MaxWrite : n \in Nat \ {0}
  BY SenderAssumption
<1>3. SndInv' /\ Keeps /\ SideInv'
  BY <1>1, <1>2, WriteInv, ShutdownInv, WorkInv, TimeoutInv, GiveUpInv,
     WriteSide, ShutdownSide, WorkSide, TimeoutSide, GiveUpSide
<1>4. sndUna' = sndUna
  BY DEF Write, ShutdownWrite, SenderWork, HandleWrite, HandleClose, TakeQueue,
         PopAcked, AckDone, SendData, SendFin, SendStop, RetransmitTimerExpired,
         GiveUp, ackVars
<1>5. sndUna' <= rcvNxt
  BY <1>1, <1>4 DEF TakenInv
<1>6. UNCHANGED <<segVars, maxSentAck, loopVars, readVars, acks>>
  BY DEF rcvVars
<1>7. TakenInv' /\ AckInv'
  BY <1>1, <1>3, <1>5, <1>6, SenderTaken
<1> QED BY <1>3, <1>4, <1>7 DEF ConnInv, SideInv

\* An ack reaches the sender.
LEMMA ConnAck ==
  ASSUME ConnInv, NEW i \in DOMAIN acks, RecvAck(i)
  PROVE  /\ ConnInv' /\ Keeps /\ i \in 1..Len(acks)
         /\ acks[i].ack \in Nat /\ acks[i].wnd \in Nat /\ acks[i].ack <= sndNxt
         /\ sndUna' = IF sndUna < acks[i].ack THEN acks[i].ack ELSE sndUna
<1>1. SndInv /\ SideInv /\ TakenInv /\ AckInv
  BY DEF ConnInv, SideInv
<1>2. /\ acks \in Seq([ack : Nat, wnd : Nat]) /\ i \in 1..Len(acks) /\ rcvNxt \in Nat
      /\ sndNxt \in Int /\ sndUna \in Int
  <2>1. acks \in Seq([ack : Nat, wnd : Nat]) /\ rcvNxt \in Nat
    BY <1>1 DEF TakenInv, RcvInv, RcvTypeOK
  <2>2. DOMAIN acks = 1..Len(acks)
    BY <2>1
  <2> QED BY <2>1, <2>2, <1>1, BaseType
<1> SUFFICES ASSUME NEW ack, ack = acks[i].ack, NEW wnd, wnd = acks[i].wnd
             PROVE  /\ ConnInv' /\ Keeps /\ i \in 1..Len(acks)
                    /\ ack \in Nat /\ wnd \in Nat /\ ack <= sndNxt
                    /\ sndUna' = IF sndUna < ack THEN ack ELSE sndUna
  OBVIOUS
<1>3. ack \in Nat /\ wnd \in Nat
  BY <1>2, AckTyped
<1>4. ack <= rcvNxt /\ IsBoundary(ack) /\ rcvNxt <= sndNxt /\ sndUna <= rcvNxt
  BY <1>1, <1>2 DEF AckInv, TakenInv
<1>5. SndHandleSegment(ack, wnd) /\ acks' = Without(acks, i)
      /\ UNCHANGED <<segVars, maxSentAck, loopVars, readVars>>
  BY DEF RecvAck
<1>6. SndInv'
  BY <1>1, <1>3, <1>5, HandleSegmentInv
<1>7. Keeps /\ SideInv' /\ sndUna' = IF NewlyAcked(ack) THEN ack ELSE sndUna
  BY <1>1, <1>3, <1>4, <1>5, HandleSegmentSide
<1>8. ack <= sndNxt
  BY <1>2, <1>3, <1>4
<1>9. sndUna' = IF sndUna < ack THEN ack ELSE sndUna
  BY <1>7, <1>8 DEF NewlyAcked
<1>10. sndUna' <= rcvNxt
  BY <1>4, <1>9
<1>11. TakenInv' /\ AckInv'
  BY <1>1, <1>2, <1>5, <1>7, <1>10, SenderTaken
<1> QED BY <1>2, <1>3, <1>6, <1>7, <1>8, <1>9, <1>11 DEF ConnInv, SideInv

\* The network loses.
LEMMA ConnLoss ==
  ASSUME ConnInv, LoseSegment \/ LoseAck
  PROVE  /\ ConnInv' /\ UNCHANGED <<sndState, segVars, readVars>>
         /\ acks' = acks \/ \E i \in 1..Len(acks) : acks' = Without(acks, i)
<1>1. SndInv /\ SideInv /\ TakenInv /\ AckInv
  BY DEF ConnInv, SideInv
<1>2. /\ UNCHANGED <<sndState, segVars, maxSentAck, loopVars, readVars>>
      /\ wire' \subseteq wire
      /\ acks' = acks \/ \E i \in DOMAIN acks : acks' = Without(acks, i)
  BY DEF LoseSegment, LoseAck, rcvVars, sndVars
<1>3. acks' = acks \/ \E i \in 1..Len(acks) : acks' = Without(acks, i)
  <2>1. acks \in Seq([ack : Nat, wnd : Nat])
    BY <1>1 DEF TakenInv, RcvInv, RcvTypeOK
  <2> QED BY <2>1, <1>2
<1>4. SndInv' /\ Keeps /\ SideInv'
  BY <1>1, <1>2, NetSide
<1>5. sndUna' <= rcvNxt
  BY <1>1, <1>2 DEF sndState, ackVars, TakenInv
<1>6. TakenInv' /\ AckInv'
  BY <1>1, <1>2, <1>3, <1>4, <1>5, SenderTaken
<1> QED BY <1>2, <1>3, <1>4, <1>6 DEF ConnInv, SideInv

-----------------------------------------------------------------------------
(* The steps. *)

LEMMA ConnInductive == ConnInv /\ [Next]_vars => ConnInv'
<1> SUFFICES ASSUME ConnInv, [Next]_vars PROVE ConnInv'
  OBVIOUS
<1>1. CASE AppWrite \/ AppShutdown \/ SenderStep \/ Timeout
  BY <1>1, ConnSender DEF AppWrite, AppShutdown, SenderStep, Timeout
<1>2. CASE DeliverAck
  BY <1>2, ConnAck DEF DeliverAck
<1>3. CASE DeliverSegment
  <2>1. PICK m \in wire : RcvHandleSegment(m) /\ wire' = wire \ {m} /\ UNCHANGED sndState
    BY <1>3 DEF DeliverSegment
  <2>2. wire' \subseteq wire
    BY <2>1
  <2> QED BY <2>1, <2>2, ConnSegment
<1>4. CASE DuplicateSegment
  <2>1. PICK m \in wire : RcvHandleSegment(m) /\ UNCHANGED sndVars
    BY <1>4 DEF DuplicateSegment
  <2>2. UNCHANGED sndState /\ wire' \subseteq wire
    BY <2>1 DEF sndVars
  <2> QED BY <2>1, <2>2, ConnSegment
<1>5. CASE ReceiverStep \/ AppRead
  BY <1>5, ConnWork DEF ReceiverStep, AppRead
<1>6. CASE LoseSegment \/ LoseAck
  BY <1>6, ConnLoss
<1>7. CASE UNCHANGED vars
  <2>1. UNCHANGED <<sndState, segVars, maxSentAck, loopVars, readVars>> /\ acks' = acks
        /\ wire' \subseteq wire
    BY <1>7 DEF vars, sndVars, rcvVars
  <2>2. SndInv /\ SideInv /\ TakenInv /\ AckInv
    BY DEF ConnInv, SideInv
  <2>3. SndInv' /\ Keeps /\ SideInv'
    BY <2>1, <2>2, NetSide
  <2>4. sndUna' <= rcvNxt
    BY <2>1, <2>2 DEF sndState, ackVars, TakenInv
  <2>5. TakenInv' /\ AckInv'
    BY <2>1, <2>2, <2>3, <2>4, SenderTaken
  <2> QED BY <2>3, <2>5 DEF ConnInv, SideInv
<1> QED BY <1>1, <1>2, <1>3, <1>4, <1>5, <1>6, <1>7 DEF Next

LEMMA ConnInvariant == Spec => []ConnInv
<1>1. ConnInv /\ [Next]_vars => ConnInv'
  BY ConnInductive
<1> QED BY ConnInit, <1>1, PTL DEF Spec

\* What the sender takes as acknowledged has been consumed, and what the
\* receiver expects has been sent, whatever the network loses, repeats and
\* reorders, and whenever the timer fires.
THEOREM ConnectionAcksReceived == Spec => []AckedIsReceived
<1>1. ConnInv => AckedIsReceived
  <2> SUFFICES ASSUME ConnInv PROVE AckedIsReceived
    OBVIOUS
  <2>1. acks \in Seq([ack : Nat, wnd : Nat])
    BY DEF ConnInv, TakenInv, RcvInv, RcvTypeOK
  <2>2. DOMAIN acks = 1..Len(acks)
    BY <2>1
  <2> QED BY <2>2 DEF ConnInv, TakenInv, AckInv, AckedIsReceived
<1> QED BY ConnInvariant, <1>1, PTL

\* A sender that is closed and fully acknowledged has had everything
\* delivered, and its end.
THEOREM ConnectionCloseIsComplete == Spec => []CloseIsComplete
<1>1. ConnInv => CloseIsComplete
  <2> SUFFICES ASSUME ConnInv, sndDone, sndUna = sndNxtList
               PROVE  rcvClosed /\ Len(rcvd) = written
    BY DEF CloseIsComplete
  <2>1. /\ sndClosed /\ sndBufInQueue = 0 /\ sndUna <= rcvNxt
        /\ rcvNxt = Len(rcvd) + 1 + (IF rcvClosed THEN 1 ELSE 0)
        /\ Len(rcvd) <= written /\ (rcvClosed => Len(rcvd) = written)
    BY DEF ConnInv, CloseInv, TakenInv, RcvInv, AckMatchesData, Within
  <2>2. /\ Len(rcvd) \in Nat /\ written \in Nat /\ sndNxtList \in Int /\ rcvNxt \in Nat
    BY DEF ConnInv, SndInv, SndTypeOK, TakenInv, RcvInv, RcvTypeOK
  <2>3. sndNxtList = written + 2
    <3>1. sndNxtList + sndBufInQueue = written + 1 + 1
      BY <2>1 DEF ConnInv, SndInv, QueueInv
    <3> QED BY <3>1, <2>1, <2>2
  <2>4. rcvClosed
    <3>1. CASE ~rcvClosed
      <4>1. rcvNxt = Len(rcvd) + 1 + 0
        BY <3>1, <2>1
      <4> QED BY <4>1, <2>1, <2>2, <2>3
    <3> QED BY <3>1
  <2> QED BY <2>1, <2>4
<1> QED BY ConnInvariant, <1>1, PTL

-----------------------------------------------------------------------------
(* The window. *)

\* What the sender may send ends in the window, and so do the data that it has
\* sent; the acks are in order.
SendWindow ==
  /\ sndUna + sndWnd <= rcvAcc
  /\ MinOf(sndNxt, written + 1) <= rcvAcc
  /\ \A i \in 1..Len(acks) : sndUna <= acks[i].ack

\* The window and what is in the receive list fit the buffer.
BufferFits ==
  /\ ~rcvClosed => (rcvAcc - rcvNxt) + rcvBufUsed <= RcvBufSize
  /\ rcvBufUsed <= RcvBufSize

WindowInv == overtaken \/ (SendWindow /\ BufferFits)

\* The types that the window is about.
LEMMA WindowTypes ==
  ASSUME ConnInv
  PROVE  /\ sndUna \in Int /\ sndNxt \in Int /\ sndWnd \in Nat /\ written \in Nat
         /\ rcvNxt \in Nat /\ rcvAcc \in Nat /\ rcvBufUsed \in Int /\ Len(rcvd) \in Nat
         /\ sndNxtList \in Int /\ sndNxt <= sndNxtList /\ sndClosed \in BOOLEAN
         /\ rcvNxt <= sndNxt
         /\ acks \in Seq([ack : Nat, wnd : Nat])
<1>1. SndTypeOK /\ RcvTypeOK /\ sndNxt <= sndNxtList /\ rcvNxt <= sndNxt
  BY DEF ConnInv, SndInv, TakenInv, RcvInv, NumberInv
<1> QED BY <1>1 DEF SndTypeOK, RcvTypeOK

\* What is sent and is not the FIN is data that was written.
LEMMA SentIsWritten ==
  ASSUME ConnInv, ~sndClosed
  PROVE  sndNxt <= written + 1
<1>1. Tiles(sndQueue, sndNxtList, sndNxtList + sndBufInQueue) /\ sndNxtList + sndBufInQueue = written + 1 + 0
  BY DEF ConnInv, SndInv, QueueInv
<1>2. sndQueue \in Seq(Segment) /\ sndBufInQueue \in Int
  BY DEF ConnInv, SndInv, SndTypeOK
<1>3. sndNxtList <= sndNxtList + sndBufInQueue
  BY <1>1, <1>2, WindowTypes, TilesOrder
<1> QED BY <1>1, <1>3, WindowTypes

\* Data that is consumed was in the window.
LEMMA TakenInWindow ==
  ASSUME ConnInv, MinOf(sndNxt, written + 1) <= rcvAcc
  PROVE  rcvNxt <= rcvAcc + (IF rcvClosed THEN 1 ELSE 0)
<1>1. /\ sndNxt \in Int /\ written \in Nat /\ rcvNxt \in Nat /\ rcvAcc \in Nat
      /\ Len(rcvd) \in Nat /\ rcvNxt <= sndNxt
  BY WindowTypes
<1>2. rcvNxt = Len(rcvd) + 1 + (IF rcvClosed THEN 1 ELSE 0) /\ Len(rcvd) <= written
  BY DEF ConnInv, TakenInv, RcvInv, AckMatchesData, Within
<1>3. CASE rcvClosed
  <2>1. rcvNxt = Len(rcvd) + 1 + 1
    BY <1>2, <1>3
  <2>2. rcvNxt <= rcvAcc + 1
    BY <2>1, <1>1, <1>2 DEF MinOf
  <2> QED BY <2>2, <1>3
<1>4. CASE ~rcvClosed
  <2>1. rcvNxt = Len(rcvd) + 1 + 0
    BY <1>2, <1>4
  <2>2. rcvNxt <= rcvAcc + 0
    BY <2>1, <1>1, <1>2 DEF MinOf
  <2> QED BY <2>2, <1>4
<1> QED BY <1>3, <1>4

\* The data that sendData sends ends in the window.
LEMMA SendDataFits ==
  ASSUME SndInv, SideInv, SendData
  PROVE  \E e \in Int : e <= WindowEnd /\ sndNxt' = MaxOf(sndNxt, e)
<1> SUFFICES ASSUME NEW s, s = Numbered(writeList[writeNext]),
                    NEW n, n = MinOf(WindowEnd - s.seq, maxPayloadSize),
                    NEW list, list = SplitAt(writeList, writeNext, s, n),
                    NEW out, out = list[writeNext]
             PROVE  \E e \in Int : e <= WindowEnd /\ sndNxt' = MaxOf(sndNxt, e)
  OBVIOUS
<1>1. /\ sndPc = "send" /\ writeNext <= Len(writeList)
      /\ s.len > 0 /\ s.seq < WindowEnd /\ sndNxt' = MaxOf(sndNxt, out.seq + out.len)
  BY DEF SendData
<1>2. s \in Segment
  BY <1>1, NumberedLabel
<1>3. /\ writeNext \in 1..Len(writeList) /\ writeList \in Seq(Segment)
      /\ s.off = writeList[writeNext].off /\ s.len = writeList[writeNext].len
  BY <1>1, NumberedSegment, BaseType
<1>4. s.seq \in Int /\ s.len \in Nat /\ WindowEnd \in Int /\ maxPayloadSize \in Nat \ {0}
  <2>1. s.seq \in Int /\ s.len \in Nat
    BY <1>2, SegEndType
  <2>2. WindowEnd \in Int /\ maxPayloadSize \in Nat \ {0}
    BY DEF SndInv, SndTypeOK, WindowEnd
  <2> QED BY <2>1, <2>2
<1>5. n \in Int /\ 0 < n /\ n <= WindowEnd - s.seq
  BY <1>1, <1>4 DEF MinOf
<1>6. out = (IF s.len > n THEN Front(s, n) ELSE s)
  <2>1. IsSplit(list, writeList, writeNext, s, n)
    BY <1>1, <1>2, <1>3, <1>5, SplitEach
  <2> QED BY <2>1 DEF IsSplit
<1>7. out.seq = s.seq /\ out.len \in Nat /\ out.len <= n
  <2>1. CASE s.len > n
    <3>1. Front(s, n).len = n /\ Front(s, n).seq = s.seq
      BY <2>1, <1>2, <1>5, PieceTypes
    <3> QED BY <3>1, <2>1, <1>5, <1>6
  <2>2. CASE ~(s.len > n)
    BY <2>2, <1>4, <1>5, <1>6
  <2> QED BY <2>1, <2>2
<1>8. out.seq + out.len \in Int /\ out.seq + out.len <= WindowEnd
  BY <1>4, <1>5, <1>7
<1> QED BY <1>1, <1>8

\* The FIN follows the data, all of which has been sent.
LEMMA SendFinFollows ==
  ASSUME SndInv, SideInv, SendFin
  PROVE  written + 1 <= sndNxt /\ written' = written
<1> SUFFICES ASSUME NEW s, s = Numbered(writeList[writeNext])
             PROVE  written + 1 <= sndNxt /\ written' = written
  OBVIOUS
<1>1. /\ sndPc = "send" /\ writeNext <= Len(writeList) /\ written' = written
      /\ [s EXCEPT !.flags = "fin"].len = 0
  BY DEF SendFin, appVars
<1>2. /\ s \in Segment /\ s.off <= sndNxt
      /\ s.len = 0 => sndClosed /\ s.off = written + 1
  BY <1>1, NumberedLabel
<1>3. s.len = 0
  BY <1>1, <1>2 DEF Segment
<1> QED BY <1>1, <1>2, <1>3

\* The sender sends no data past its window.
LEMMA SenderWindow ==
  ASSUME ConnInv, ConnInv', SendWindow, UNCHANGED rcvVars,
         \/ \E n \in 1..MaxWrite : Write(n)
         \/ ShutdownWrite \/ SenderWork \/ RetransmitTimerExpired \/ GiveUp
  PROVE  SendWindow'
<1>1. UNCHANGED <<sndUna, sndWnd>>
  BY DEF Write, ShutdownWrite, SenderWork, HandleWrite, HandleClose, TakeQueue,
         PopAcked, AckDone, SendData, SendFin, SendStop, RetransmitTimerExpired,
         GiveUp, ackVars
<1>2. UNCHANGED <<rcvAcc, acks>>
  BY DEF rcvVars, segVars
<1>3. /\ sndUna \in Int /\ sndWnd \in Nat /\ sndNxt \in Int /\ written \in Nat
      /\ rcvAcc \in Nat
  BY WindowTypes
<1>4. sndUna + sndWnd <= rcvAcc /\ MinOf(sndNxt, written + 1) <= rcvAcc
  BY DEF SendWindow
<1>5. sndNxt' \in Int /\ written' \in Nat
  BY DEF ConnInv, SndInv, SndTypeOK
<1>6. SndInv /\ SideInv
  BY DEF ConnInv, SideInv
<1>7. MinOf(sndNxt', written' + 1) <= rcvAcc
  <2>1. CASE \E n \in 1..MaxWrite : Write(n)
    <3>1. ~sndClosed /\ sndNxt' = sndNxt /\ \E n \in 1..MaxWrite : written' = written + n
      BY <2>1 DEF Write
    <3>2. sndNxt <= written + 1
      BY <3>1, SentIsWritten
    <3>3. written <= written'
      BY <3>1, <1>3
    <3> QED BY <3>1, <3>2, <3>3, <1>3, <1>4, <1>5 DEF MinOf
  <2>2. CASE SendData
    <3>1. PICK e \in Int : e <= WindowEnd /\ sndNxt' = MaxOf(sndNxt, e)
      BY <2>2, <1>6, SendDataFits
    <3>2. written' = written
      BY <2>2 DEF SendData, appVars
    <3>3. e <= rcvAcc
      BY <3>1, <1>3, <1>4 DEF WindowEnd
    <3> QED BY <3>1, <3>2, <3>3, <1>3, <1>4 DEF MinOf, MaxOf
  <2>3. CASE SendFin
    <3>1. written + 1 <= sndNxt /\ written' = written
      BY <2>3, <1>6, SendFinFollows
    <3>2. written + 1 <= rcvAcc
      BY <3>1, <1>3, <1>4 DEF MinOf
    <3> QED BY <3>1, <3>2, <1>3, <1>5 DEF MinOf
  <2>4. CASE \/ ShutdownWrite \/ HandleWrite \/ HandleClose \/ PopAcked \/ AckDone
             \/ SendStop \/ RetransmitTimerExpired \/ GiveUp
    <3>1. UNCHANGED <<sndNxt, written>>
      BY <2>4 DEF ShutdownWrite, HandleWrite, HandleClose, TakeQueue, PopAcked,
                  AckDone, SendStop, RetransmitTimerExpired, GiveUp, appVars
    <3> QED BY <3>1, <1>4
  <2> QED BY <2>1, <2>2, <2>3, <2>4 DEF SenderWork
<1> QED BY <1>1, <1>2, <1>4, <1>7 DEF SendWindow

\* The first of the acks leaves, or none.
LEMMA AckWindow ==
  ASSUME ConnInv, ConnInv', SendWindow, RecvAck(1), 1 \in DOMAIN acks
  PROVE  SendWindow'
<1>0. acks \in Seq([ack : Nat, wnd : Nat]) /\ 1 \in 1..Len(acks)
  BY WindowTypes
<1> SUFFICES ASSUME NEW ack, ack = acks[1].ack, NEW wnd, wnd = acks[1].wnd
             PROVE  SendWindow'
  OBVIOUS
<1>1. /\ ack \in Nat /\ wnd \in Nat
      /\ sndUna' = IF sndUna < ack THEN ack ELSE sndUna
  BY ConnAck
<1>2. /\ sndWnd' = wnd /\ acks' = Without(acks, 1)
      /\ UNCHANGED <<sndNxt, written, rcvAcc>>
  BY DEF RecvAck, SndHandleSegment, appVars, segVars
<1>3. ack + wnd <= rcvAcc /\ \A j \in 1..Len(acks) : 1 < j => ack <= acks[j].ack
  BY <1>0 DEF ConnInv, AckInv
<1>4. sndUna <= ack
  BY <1>0 DEF SendWindow
<1>5. sndUna' = ack
  BY <1>1, <1>4, WindowTypes
<1>6. /\ Len(acks') = Len(acks) - 1
      /\ \A j \in 1..(Len(acks) - 1) : acks'[j] = acks[j + 1]
  <2>1. /\ Len(Without(acks, 1)) = Len(acks) - 1
        /\ \A j \in 1..(Len(acks) - 1) :
             Without(acks, 1)[j] = IF j < 1 THEN acks[j] ELSE acks[j + 1]
    BY <1>0, WithoutAt
  <2> QED BY <2>1, <1>2
<1>7. \A j \in 1..Len(acks') : sndUna' <= acks'[j].ack
  <2> TAKE j \in 1..Len(acks')
  <2>1. Len(acks) \in Nat
    BY <1>0
  <2>2. j \in 1..(Len(acks) - 1) /\ j + 1 \in 1..Len(acks) /\ 1 < j + 1
    BY <2>1, <1>6
  <2> QED BY <2>2, <1>3, <1>5, <1>6
<1>8. MinOf(sndNxt', written' + 1) <= rcvAcc'
  BY <1>2 DEF SendWindow
<1> QED BY <1>2, <1>3, <1>5, <1>7, <1>8 DEF SendWindow

\* Acks that are lost.
LEMMA LossWindow ==
  ASSUME ConnInv, SendWindow, UNCHANGED <<sndUna, sndWnd, sndNxt, written, rcvAcc>>,
         acks' = acks \/ \E i \in 1..Len(acks) : acks' = Without(acks, i)
  PROVE  SendWindow'
<1>0. acks \in Seq([ack : Nat, wnd : Nat])
  BY WindowTypes
<1>1. \A j \in 1..Len(acks') : sndUna' <= acks'[j].ack
  <2>1. CASE acks' = acks
    BY <2>1 DEF SendWindow
  <2>2. CASE \E i \in 1..Len(acks) : acks' = Without(acks, i)
    <3>1. PICK i \in 1..Len(acks) : acks' = Without(acks, i)
      BY <2>2
    <3>2. /\ Len(acks') = Len(acks) - 1
          /\ \A j \in 1..(Len(acks) - 1) :
               acks'[j] = IF j < i THEN acks[j] ELSE acks[j + 1]
      BY <3>1, <1>0, WithoutAt
    <3> TAKE j \in 1..Len(acks')
    <3>3. Len(acks) \in Nat
      BY <1>0
    <3>4. j \in 1..(Len(acks) - 1) /\ j \in 1..Len(acks) /\ j + 1 \in 1..Len(acks)
      BY <3>2, <3>3
    <3>5. acks'[j] = acks[j] \/ acks'[j] = acks[j + 1]
      BY <3>2, <3>4
    <3> QED BY <3>4, <3>5 DEF SendWindow
  <2> QED BY <2>1, <2>2
<1> QED BY <1>1 DEF SendWindow

\* A step of the receiver consumes a segment that was sent, or none.
LEMMA ReceiverMoves ==
  ASSUME ConnInv, (\E m \in wire : RcvHandleSegment(m)) \/ ReceiverWork \/ Read
  PROVE  Rests \/ \E x : Sent(x) /\ Takes(x)
<1>1. WireInv /\ TakenInv /\ RcvTypeOK
  BY DEF ConnInv, TakenInv, RcvInv
<1>2. CASE \E m \in wire : RcvHandleSegment(m)
  <2>1. PICK m \in wire : RcvHandleSegment(m)
    BY <1>2
  <2>2. Rests \/ (m.flags # "rst" /\ Takes(m))
    BY <1>1, <2>1, SegmentMoves
  <2> QED BY <2>2, <1>1 DEF WireInv
<1>3. CASE ReceiverWork
  <2>1. Rests \/ \E j \in 1..Len(pending) : Takes(pending[j])
    BY <1>1, <1>3, WorkMoves
  <2> QED BY <2>1, <1>1 DEF TakenInv
<1>4. CASE Read
  BY <1>1, <1>4, ReadMoves
<1> QED BY <1>2, <1>3, <1>4

\* What an ack that is sent does to the window.
LEMMA AckEdge ==
  ASSUME NEW nxt \in Nat, NEW used \in Int, SendAck(nxt, used), rcvAcc \in Nat,
         used <= RcvBufSize
  PROVE  /\ rcvAcc' = rcvAcc \/ rcvAcc' = nxt + (RcvBufSize - used)
         /\ rcvAcc <= rcvAcc'
         /\ acks' = acks \/ \E w : acks' = Append(acks, [ack |-> nxt, wnd |-> w])
<1>1. RcvBufSize \in Nat
  BY ReceiverAssumption
<1>2. Available(used) = RcvBufSize - used
  BY <1>1 DEF Available, MaxOf
<1>3. rcvAcc' = MaxOf(rcvAcc, nxt + Available(used))
  BY DEF SendAck
<1>4. /\ rcvAcc' = rcvAcc \/ rcvAcc' = nxt + (RcvBufSize - used)
      /\ rcvAcc <= rcvAcc'
  <2>1. rcvAcc' = MaxOf(rcvAcc, nxt + (RcvBufSize - used))
    BY <1>2, <1>3
  <2> QED BY <2>1, <1>1 DEF MaxOf
<1>5. acks' = acks \/ \E w : acks' = Append(acks, [ack |-> nxt, wnd |-> w])
  BY DEF SendAck
<1> QED BY <1>4, <1>5

\* Acks are added in order.
LEMMA ReceiverSendWindow ==
  ASSUME ConnInv, ConnInv', SendWindow, UNCHANGED sndState, rcvAcc <= rcvAcc',
         acks' = acks \/ \E w : acks' = Append(acks, [ack |-> rcvNxt', wnd |-> w])
  PROVE  SendWindow'
<1>1. UNCHANGED <<sndUna, sndWnd, sndNxt, written>>
  BY DEF sndState, appVars, ackVars
<1>2. /\ sndUna \in Int /\ sndWnd \in Nat /\ sndNxt \in Int /\ written \in Nat
      /\ rcvAcc \in Nat /\ acks \in Seq([ack : Nat, wnd : Nat])
  BY WindowTypes
<1>3. rcvAcc' \in Nat
  BY DEF ConnInv, TakenInv, RcvInv, RcvTypeOK
<1>4. sndUna + sndWnd <= rcvAcc'
  BY <1>2, <1>3 DEF SendWindow
<1>5. MinOf(sndNxt, written + 1) <= rcvAcc'
  <2>1. MinOf(sndNxt, written + 1) \in Int /\ MinOf(sndNxt, written + 1) <= rcvAcc
    BY <1>2 DEF SendWindow, MinOf
  <2> QED BY <2>1, <1>2, <1>3
<1>6. sndUna' <= rcvNxt'
  BY DEF ConnInv, TakenInv
<1>7. \A j \in 1..Len(acks') : sndUna' <= acks'[j].ack
  <2>1. CASE acks' = acks
    BY <2>1, <1>1 DEF SendWindow
  <2>2. CASE \E w : acks' = Append(acks, [ack |-> rcvNxt', wnd |-> w])
    <3>1. PICK w : acks' = Append(acks, [ack |-> rcvNxt', wnd |-> w])
      BY <2>2
    <3> TAKE j \in 1..Len(acks')
    <3>2. \/ j \in 1..Len(acks) /\ acks'[j] = acks[j]
          \/ acks'[j] = [ack |-> rcvNxt', wnd |-> w]
      BY <3>1, <1>2
    <3>3. CASE j \in 1..Len(acks) /\ acks'[j] = acks[j]
      BY <3>3, <1>1 DEF SendWindow
    <3>4. CASE acks'[j] = [ack |-> rcvNxt', wnd |-> w]
      BY <3>4, <1>6
    <3> QED BY <3>2, <3>3, <3>4
  <2> QED BY <2>1, <2>2
<1> QED BY <1>1, <1>4, <1>5, <1>7 DEF SendWindow

\* The data in a number: what is consumed is at most what was sent of it.
LEMMA TakenNumbers ==
  ASSUME NEW nxt \in Nat, NEW n \in Nat, NEW w \in Nat, NEW top \in Int,
         NEW e \in {0, 1}, nxt = n + 1 + e, n <= w, nxt <= top
  PROVE  nxt - e <= MinOf(top, w + 1)
BY DEF MinOf

\* The arithmetic of the window: what is consumed moves from it to the buffer.
LEMMA EdgeSum ==
  ASSUME NEW acc \in Int, NEW nxt \in Int, NEW used \in Int, NEW size \in Int,
         acc = nxt + (size - used)
  PROVE  (acc - nxt) + used <= size
OBVIOUS

LEMMA EdgeLess ==
  ASSUME NEW d \in Int, NEW used \in Int, NEW less \in Int, NEW size \in Int,
         less <= used, d + used <= size
  PROVE  d + less <= size
OBVIOUS

LEMMA EdgeMoves ==
  ASSUME NEW acc \in Int, NEW nxt \in Int, NEW used \in Int, NEW size \in Int,
         NEW to \in Int, NEW fill \in Int, NEW e \in {0, 1},
         (to - nxt) - e = fill - used, (acc - nxt) + used <= size
  PROVE  /\ to - e <= acc => fill <= size
         /\ e = 0 => (acc - to) + fill <= size
OBVIOUS

\* What the receiver consumes fits the window, and what it announces fits the
\* buffer.
LEMMA ReceiverWindow ==
  ASSUME ConnInv, ConnInv', SendWindow, BufferFits, UNCHANGED sndState,
         Rests \/ \E x : Sent(x) /\ Takes(x)
  PROVE  SendWindow' /\ BufferFits'
<1>1. /\ sndNxt \in Int /\ written \in Nat /\ rcvNxt \in Nat /\ rcvAcc \in Nat
      /\ rcvBufUsed \in Int /\ RcvBufSize \in Nat
  BY WindowTypes, ReceiverAssumption
<1>2. rcvNxt' \in Nat /\ rcvAcc' \in Nat /\ rcvBufUsed' \in Int /\ Len(rcvd') \in Nat
  BY DEF ConnInv, TakenInv, RcvInv, RcvTypeOK
<1>2a. /\ rcvNxt \in Int /\ rcvAcc \in Int /\ RcvBufSize \in Int /\ rcvNxt' \in Int
       /\ rcvAcc' \in Int /\ rcvAcc - rcvNxt \in Int
  BY <1>1, <1>2
<1>3. UNCHANGED <<sndNxt, written>>
  BY DEF sndState, appVars
<1>4. /\ ~rcvClosed => (rcvAcc - rcvNxt) + rcvBufUsed <= RcvBufSize
      /\ rcvBufUsed <= RcvBufSize
  BY DEF BufferFits
<1>5. ASSUME rcvBufUsed' <= RcvBufSize,
             ~rcvClosed' => (rcvAcc - rcvNxt') + rcvBufUsed' <= RcvBufSize,
             SendAck(rcvNxt', rcvBufUsed') \/ UNCHANGED <<rcvAcc, acks>>
      PROVE  SendWindow' /\ BufferFits'
  <2>1. /\ rcvAcc' = rcvAcc \/ rcvAcc' = rcvNxt' + (RcvBufSize - rcvBufUsed')
        /\ rcvAcc <= rcvAcc'
        /\ acks' = acks \/ \E w : acks' = Append(acks, [ack |-> rcvNxt', wnd |-> w])
    <3>1. CASE SendAck(rcvNxt', rcvBufUsed')
      BY <3>1, <1>1, <1>2, <1>5, AckEdge
    <3>2. CASE UNCHANGED <<rcvAcc, acks>>
      BY <3>2, <1>1
    <3> QED BY <1>5, <3>1, <3>2
  <2>2. SendWindow'
    BY <2>1, ReceiverSendWindow
  <2>3. ~rcvClosed' => (rcvAcc' - rcvNxt') + rcvBufUsed' <= RcvBufSize
    <3>1. CASE rcvAcc' = rcvAcc
      BY <3>1, <1>5
    <3>2. CASE rcvAcc' = rcvNxt' + (RcvBufSize - rcvBufUsed')
      <4>1. (rcvAcc' - rcvNxt') + rcvBufUsed' <= RcvBufSize
        BY <3>2, <1>2, <1>2a, EdgeSum, Zenon
      <4> QED BY <4>1
    <3> QED BY <2>1, <3>1, <3>2
  <2> QED BY <1>5, <2>2, <2>3 DEF BufferFits
<1>6. CASE Rests
  <2>1. /\ rcvNxt' = rcvNxt /\ rcvClosed' = rcvClosed /\ rcvBufUsed' <= rcvBufUsed
        /\ SendAck(rcvNxt', rcvBufUsed') \/ UNCHANGED <<rcvAcc, acks>>
    <3>1. rcvBufUsed <= rcvBufUsed
      BY <1>1
    <3> QED BY <3>1, <1>6 DEF Rests
  <2>2. rcvBufUsed' <= RcvBufSize
    BY <2>1, <1>1, <1>2, <1>4
  <2>3. ~rcvClosed' => (rcvAcc - rcvNxt') + rcvBufUsed' <= RcvBufSize
    <3>1. ASSUME ~rcvClosed'
          PROVE  (rcvAcc - rcvNxt') + rcvBufUsed' <= RcvBufSize
      <4>1. (rcvAcc - rcvNxt) + rcvBufUsed <= RcvBufSize
        BY <3>1, <2>1, <1>4
      <4>2. rcvNxt' = rcvNxt /\ rcvBufUsed' <= rcvBufUsed
        BY <2>1
      <4>4. (rcvAcc - rcvNxt) + rcvBufUsed' <= RcvBufSize
        BY <4>1, <4>2, <1>1, <1>2, <1>2a, EdgeLess, Zenon
      <4> QED BY <4>2, <4>4
    <3> QED BY <3>1
  <2> QED BY <2>1, <2>2, <2>3, <1>5
<1>7. CASE \E x : Sent(x) /\ Takes(x)
  <2>1. PICK x : Sent(x) /\ Takes(x)
    BY <1>7
  <2> DEFINE e == IF x.flags = "fin" THEN 1 ELSE 0
  <2>2. /\ rcvNxt <= rcvNxt' /\ rcvClosed' = (x.flags = "fin")
        /\ (rcvNxt' - rcvNxt) - e = rcvBufUsed' - rcvBufUsed
        /\ SendAck(rcvNxt', rcvBufUsed') \/ UNCHANGED <<rcvAcc, acks>>
    <3> SUFFICES ASSUME NEW n \in Nat, n = written
                 PROVE  /\ rcvNxt <= rcvNxt' /\ rcvClosed' = (x.flags = "fin")
                        /\ (rcvNxt' - rcvNxt) - e = rcvBufUsed' - rcvBufUsed
                        /\ SendAck(rcvNxt', rcvBufUsed') \/ UNCHANGED <<rcvAcc, acks>>
      BY <1>1
    <3>1. RcvInv(n) /\ OfStream(x, n)
      BY <2>1 DEF ConnInv, TakenInv, Sent
    <3>2. RcvInv(n)'
      <4>1. n = written'
        BY <1>3
      <4>2. RcvInv(written)'
        BY DEF ConnInv, TakenInv
      <4> QED BY <4>1, <4>2 DEF RcvInv, PendingOfStream, Within
    <3>3. /\ rcvNxt <= rcvNxt' /\ rcvClosed' = (x.flags = "fin")
          /\ (rcvNxt' - rcvNxt) - (IF x.flags = "fin" THEN 1 ELSE 0)
               = rcvBufUsed' - rcvBufUsed
          /\ IF x.flags = "fin" THEN SendAck(rcvNxt', rcvBufUsed')
                                ELSE UNCHANGED <<rcvAcc, maxSentAck, acks>>
      BY <2>1, <3>1, <3>2, TakesStep
    <3> QED BY <3>3
  <2>3. ~rcvClosed
    BY <2>1 DEF Takes
  <2>4. rcvNxt' - e <= rcvAcc
    <3>1. rcvNxt' = Len(rcvd') + 1 + e
      <4>1. rcvNxt' = Len(rcvd') + 1 + (IF rcvClosed' THEN 1 ELSE 0)
        BY DEF ConnInv, TakenInv, RcvInv, AckMatchesData
      <4> QED BY <4>1, <2>2
    <3>2. Len(rcvd') <= written /\ rcvNxt' <= sndNxt
      BY <1>3 DEF ConnInv, TakenInv, RcvInv, Within
    <3>3. e \in {0, 1}
      OBVIOUS
    <3> HIDE DEF e
    <3>4. rcvNxt' - e <= MinOf(sndNxt, written + 1)
      BY <1>1, <1>2, <3>1, <3>2, <3>3, TakenNumbers
    <3>5. MinOf(sndNxt, written + 1) <= rcvAcc /\ MinOf(sndNxt, written + 1) \in Int
      BY <1>1 DEF SendWindow, MinOf
    <3>6. rcvNxt' - e \in Int
      BY <3>3, <1>2
    <3>7. \A a, b, c \in Int : a <= b /\ b <= c => a <= c
      OBVIOUS
    <3> QED BY <3>4, <3>5, <3>6, <3>7, <1>1
  <2>5. (rcvAcc - rcvNxt) + rcvBufUsed <= RcvBufSize
    BY <2>3, <1>4
  <2>6. e \in {0, 1} /\ (~rcvClosed' => e = 0)
    BY <2>2
  <2> HIDE DEF e
  <2>7. (rcvNxt' - rcvNxt) - e = rcvBufUsed' - rcvBufUsed
    BY <2>2
  <2>6a. e \in {0, 1}
    BY <2>6
  <2>7a. /\ rcvNxt' - e <= rcvAcc => rcvBufUsed' <= RcvBufSize
         /\ e = 0 => (rcvAcc - rcvNxt') + rcvBufUsed' <= RcvBufSize
    BY <2>5, <2>6a, <2>7, <1>1, <1>2, <1>2a, EdgeMoves, ZenonT(30)
  <2>8. /\ rcvBufUsed' <= RcvBufSize
        /\ e = 0 => (rcvAcc - rcvNxt') + rcvBufUsed' <= RcvBufSize
    BY <2>4, <2>7a
  <2> QED BY <2>2, <2>6, <2>8, <1>5
<1> QED BY <1>6, <1>7

LEMMA WindowInit == Init => WindowInv
<1> SUFFICES ASSUME Init PROVE WindowInv
  OBVIOUS
<1>1. /\ sndUna = 1 /\ sndWnd = InitialWnd /\ sndNxt = 1 /\ written = 0
      /\ rcvNxt = 1 /\ rcvAcc = 1 + RcvBufSize /\ rcvBufUsed = 0 /\ acks = <<>>
  BY DEF Init, SndInit, RcvInit
<1>2. InitialWnd \in Nat /\ RcvBufSize \in Nat \ {0} /\ InitialWnd <= RcvBufSize
  BY SenderAssumption, ReceiverAssumption, ConnectionAssumption
<1>3. SendWindow
  BY <1>1, <1>2 DEF SendWindow, MinOf
<1>4. BufferFits
  BY <1>1, <1>2 DEF BufferFits
<1> QED BY <1>3, <1>4 DEF WindowInv

LEMMA WindowInductive == ConnInv /\ WindowInv /\ [Next]_vars => WindowInv'
<1> SUFFICES ASSUME ConnInv, WindowInv, [Next]_vars PROVE WindowInv'
  OBVIOUS
<1>1. ConnInv'
  BY ConnInductive
<1>2. CASE overtaken
  <2>1. overtaken'
    BY <1>2 DEF Next, AppWrite, AppShutdown, SenderStep, DeliverAck, RecvAck, Timeout,
                DeliverSegment, ReceiverStep, AppRead, DuplicateSegment, LoseSegment,
                LoseAck, net, vars
  <2> QED BY <2>1 DEF WindowInv
<1>3. CASE ~overtaken
  <2>1. SendWindow /\ BufferFits
    BY <1>3 DEF WindowInv
  <2>2. CASE AppWrite \/ AppShutdown \/ SenderStep \/ Timeout
    <3>1. /\ UNCHANGED rcvVars
          /\ \/ \E n \in 1..MaxWrite : Write(n)
             \/ ShutdownWrite \/ SenderWork \/ RetransmitTimerExpired \/ GiveUp
      BY <2>2 DEF AppWrite, AppShutdown, SenderStep, Timeout
    <3>2. SendWindow'
      BY <3>1, <2>1, <1>1, SenderWindow
    <3>3. BufferFits'
      BY <3>1, <2>1 DEF BufferFits, rcvVars, segVars, readVars
    <3> QED BY <3>2, <3>3 DEF WindowInv
  <2>3. CASE DeliverAck
    <3>1. PICK i \in DOMAIN acks : RecvAck(i)
      BY <2>3 DEF DeliverAck
    <3>2. CASE i = 1
      <4>1. SendWindow'
        BY <3>1, <3>2, <2>1, <1>1, AckWindow
      <4>2. BufferFits'
        BY <3>1, <2>1 DEF BufferFits, RecvAck, segVars, readVars
      <4> QED BY <4>1, <4>2 DEF WindowInv
    <3>3. CASE i # 1
      BY <3>1, <3>3 DEF RecvAck, WindowInv
    <3> QED BY <3>2, <3>3
  <2>4. CASE DeliverSegment \/ ReceiverStep \/ AppRead \/ DuplicateSegment
    <3>1. UNCHANGED sndState
      BY <2>4 DEF DeliverSegment, ReceiverStep, AppRead, DuplicateSegment, sndVars
    <3>2. (\E m \in wire : RcvHandleSegment(m)) \/ ReceiverWork \/ Read
      BY <2>4 DEF DeliverSegment, ReceiverStep, AppRead, DuplicateSegment
    <3>3. Rests \/ \E x : Sent(x) /\ Takes(x)
      BY <3>2, ReceiverMoves
    <3> QED BY <3>1, <3>3, <2>1, <1>1, ReceiverWindow DEF WindowInv
  <2>5. CASE LoseSegment \/ LoseAck \/ UNCHANGED vars
    <3>1. /\ UNCHANGED <<sndState, segVars, readVars>>
          /\ acks' = acks \/ \E i \in 1..Len(acks) : acks' = Without(acks, i)
      BY <2>5, ConnLoss DEF vars, sndVars, rcvVars
    <3>2. UNCHANGED <<sndUna, sndWnd, sndNxt, written, rcvAcc, rcvNxt, rcvClosed,
                      rcvBufUsed>>
      BY <3>1 DEF sndState, appVars, ackVars, segVars, readVars
    <3>3. SendWindow'
      BY <3>1, <3>2, <2>1, LossWindow
    <3>4. BufferFits'
      BY <3>2, <2>1 DEF BufferFits
    <3> QED BY <3>3, <3>4 DEF WindowInv
  <2> QED BY <2>2, <2>3, <2>4, <2>5 DEF Next
<1> QED BY <1>2, <1>3

\* The window that a sender of this stack is given is never overrun, as long
\* as acks keep their order.
THEOREM ConnectionWindowRespected == Spec => []WindowRespected
<1>1. Init => ConnInv /\ WindowInv
  BY ConnInit, WindowInit
<1>2. ConnInv /\ WindowInv /\ [Next]_vars => (ConnInv /\ WindowInv)'
  BY ConnInductive, WindowInductive
<1>3. ConnInv /\ WindowInv => WindowRespected
  BY TakenInWindow DEF WindowInv, SendWindow, BufferFits, WindowRespected
<1> QED BY <1>1, <1>2, <1>3, PTL DEF Spec

\* The edge of the window, the next number to be sent, the cumulative ack and
\* what has been acknowledged never move back.
THEOREM ConnectionNeverBack == Spec => NeverBack
<1> DEFINE A == /\ rcvAcc' >= rcvAcc /\ rcvNxt' >= rcvNxt
                /\ sndUna' >= sndUna /\ sndNxt' >= sndNxt
<1>1. ConnInv /\ [Next]_vars => [A]_vars
  <2> SUFFICES ASSUME ConnInv, Next PROVE A
    OBVIOUS
  <2>1. /\ sndUna \in Int /\ sndNxt \in Int /\ rcvNxt \in Int /\ rcvAcc \in Int
        /\ sndUna >= sndUna /\ sndNxt >= sndNxt /\ rcvNxt >= rcvNxt /\ rcvAcc >= rcvAcc
    BY WindowTypes
  <2>2. /\ sndUna' \in Int /\ sndNxt' \in Int /\ rcvNxt' \in Int /\ rcvAcc' \in Int
    <3>1. ConnInv'
      BY ConnInductive
    <3>2. SndTypeOK' /\ RcvTypeOK'
      BY <3>1 DEF ConnInv, SndInv, TakenInv, RcvInv
    <3> QED BY <3>2 DEF SndTypeOK, RcvTypeOK
  <2>3. CASE AppWrite \/ AppShutdown \/ SenderStep \/ Timeout
    <3>1. Keeps /\ sndUna' = sndUna /\ UNCHANGED <<rcvNxt, rcvAcc>>
      BY <2>3, ConnSender DEF AppWrite, AppShutdown, SenderStep, Timeout, rcvVars, segVars
    <3>2. sndNxt' >= sndNxt
      BY <3>1, <2>1, <2>2 DEF Keeps
    <3> QED BY <3>1, <3>2, <2>1
  <2>4. CASE DeliverAck
    <3>1. PICK i \in DOMAIN acks : RecvAck(i)
      BY <2>4 DEF DeliverAck
    <3>2. /\ Keeps /\ acks[i].ack \in Nat
          /\ sndUna' = IF sndUna < acks[i].ack THEN acks[i].ack ELSE sndUna
      BY <3>1, ConnAck
    <3>3. sndUna' >= sndUna /\ sndNxt' >= sndNxt
      BY <3>2, <2>1, <2>2 DEF Keeps
    <3>4. UNCHANGED <<rcvNxt, rcvAcc>>
      BY <3>1 DEF RecvAck, segVars
    <3> QED BY <3>3, <3>4, <2>1
  <2>5. CASE DeliverSegment \/ ReceiverStep \/ AppRead \/ DuplicateSegment
    <3>1. UNCHANGED <<sndUna, sndNxt>>
      BY <2>5 DEF DeliverSegment, ReceiverStep, AppRead, DuplicateSegment, sndVars,
                  sndState, ackVars
    <3>2. rcvNxt <= rcvNxt' /\ rcvAcc <= rcvAcc'
      <4>1. CASE DeliverSegment \/ DuplicateSegment
        <5>1. \E m \in wire : RcvHandleSegment(m) /\ UNCHANGED sndState
          BY <4>1 DEF DeliverSegment, DuplicateSegment, sndVars
        <5>2. wire' \subseteq wire
          BY <4>1 DEF DeliverSegment, DuplicateSegment, sndVars
        <5> QED BY <5>1, <5>2, ConnSegment
      <4>2. CASE ReceiverStep \/ AppRead
        BY <4>2, ConnWork DEF ReceiverStep, AppRead
      <4> QED BY <2>5, <4>1, <4>2
    <3>3. rcvNxt' >= rcvNxt /\ rcvAcc' >= rcvAcc
      BY <3>2, <2>1, <2>2
    <3> QED BY <3>1, <3>3, <2>1
  <2>6. CASE LoseSegment \/ LoseAck
    <3>1. UNCHANGED <<sndUna, sndNxt, rcvNxt, rcvAcc>>
      BY <2>6, ConnLoss DEF sndState, ackVars, segVars
    <3> QED BY <3>1, <2>1
  <2> QED BY <2>3, <2>4, <2>5, <2>6 DEF Next
<1> QED BY ConnInvariant, <1>1, PTL DEF Spec, NeverBack

-----------------------------------------------------------------------------
(* The byte stream. *)

\* What a step of the receiver is to the stream.
LEMMA ReceiverStream ==
  ASSUME ConnInv, ConnInv', UNCHANGED sndState, Rests \/ \E x : Sent(x) /\ Takes(x)
  PROVE  Stream!Get \/ UNCHANGED <<written, sndClosed, rcvd, rcvClosed>>
<1>1. UNCHANGED <<written, sndClosed>>
  BY DEF sndState, appVars
<1>2. CASE Rests
  BY <1>1, <1>2 DEF Rests
<1>3. CASE \E x : Sent(x) /\ Takes(x)
  <2>1. PICK x : Sent(x) /\ Takes(x)
    BY <1>3
  <2>2. ~rcvClosed
    BY <2>1 DEF Takes
  <2>3. Len(rcvd) <= Len(rcvd') /\ rcvClosed' = (x.flags = "fin")
    <3> SUFFICES ASSUME NEW n \in Nat, n = written
                 PROVE  Len(rcvd) <= Len(rcvd') /\ rcvClosed' = (x.flags = "fin")
      BY WindowTypes
    <3>1. RcvInv(n) /\ OfStream(x, n)
      BY <2>1 DEF ConnInv, TakenInv, Sent
    <3>2. RcvInv(n)'
      <4>1. n = written'
        BY <1>1
      <4>2. RcvInv(written)'
        BY DEF ConnInv, TakenInv
      <4> QED BY <4>1, <4>2 DEF RcvInv, PendingOfStream, Within
    <3> QED BY <2>1, <3>1, <3>2, TakesStep
  <2>4. /\ rcvd' \in Seq(Int) /\ Len(rcvd) \in Nat /\ written \in Nat
        /\ Len(rcvd') <= written /\ (rcvClosed' => Len(rcvd') = written)
    BY <1>1, WindowTypes DEF ConnInv, TakenInv, RcvInv, RcvTypeOK, Within
  <2>5. rcvd' = [i \in 1..Len(rcvd') |-> i]
    BY DEF ConnInv, TakenInv, RcvInv, InOrder
  <2>6. Len(rcvd') \in Len(rcvd)..written
    BY <2>3, <2>4
  <2>7. rcvClosed' \in {FALSE, sndClosed /\ Len(rcvd') = written}
    <3>1. rcvClosed' \in BOOLEAN
      BY <2>3
    <3>2. rcvClosed' => sndClosed /\ Len(rcvd') = written
      BY <2>1, <2>3, <2>4 DEF Sent
    <3> QED BY <3>1, <3>2
  <2> QED BY <1>1, <2>2, <2>5, <2>6, <2>7 DEF Stream!Get
<1> QED BY <1>2, <1>3

\* The connection implements the byte stream: what the reader is given is what
\* the writer wrote, in order and once, and the end of it comes last.
THEOREM ConnectionIsStream == Spec => StreamSpec
<1> DEFINE Still == UNCHANGED <<written, sndClosed, rcvd, rcvClosed>>
<1>1. Init => Stream!Init
  BY DEF Init, SndInit, RcvInit, Stream!Init
<1>2. ConnInv /\ [Next]_vars => [Stream!Next]_(Stream!vars)
  <2> SUFFICES ASSUME ConnInv, [Next]_vars
               PROVE  Stream!Next \/ Still
    BY DEF Stream!vars
  <2>1. CASE AppWrite
    <3>1. PICK n \in 1..MaxWrite : Write(n)
      BY <2>1 DEF AppWrite
    <3>2. written' = written + n /\ ~sndClosed /\ UNCHANGED <<sndClosed, rcvd, rcvClosed>>
      BY <2>1, <3>1 DEF Write, AppWrite, rcvVars, segVars, readVars
    <3>3. written' > written
      BY <3>2, WindowTypes, SenderAssumption
    <3> QED BY <3>2, <3>3 DEF Stream!Next, Stream!Put
  <2>2. CASE AppShutdown
    BY <2>2 DEF AppShutdown, ShutdownWrite, rcvVars, segVars, readVars, Stream!Next,
                Stream!End
  <2>3. CASE SenderStep \/ Timeout
    <3>1. UNCHANGED <<rcvd, rcvClosed>>
      BY <2>3 DEF SenderStep, Timeout, rcvVars, segVars, readVars
    <3>2. UNCHANGED <<written, sndClosed>>
      BY <2>3 DEF SenderStep, Timeout, SenderWork, HandleWrite, HandleClose, TakeQueue,
                  PopAcked, AckDone, SendData, SendFin, SendStop,
                  RetransmitTimerExpired, GiveUp, appVars
    <3> QED BY <3>1, <3>2
  <2>4. CASE DeliverAck
    BY <2>4 DEF DeliverAck, RecvAck, SndHandleSegment, appVars, segVars, readVars
  <2>5. CASE DeliverSegment \/ ReceiverStep \/ AppRead \/ DuplicateSegment
    <3>1. UNCHANGED sndState
      BY <2>5 DEF DeliverSegment, ReceiverStep, AppRead, DuplicateSegment, sndVars
    <3>2. (\E m \in wire : RcvHandleSegment(m)) \/ ReceiverWork \/ Read
      BY <2>5 DEF DeliverSegment, ReceiverStep, AppRead, DuplicateSegment
    <3>3. Rests \/ \E x : Sent(x) /\ Takes(x)
      BY <3>2, ReceiverMoves
    <3>4. ConnInv'
      BY ConnInductive
    <3>5. Stream!Get \/ Still
      BY <3>1, <3>3, <3>4, ReceiverStream
    <3> QED BY <3>5 DEF Stream!Next
  <2>6. CASE LoseSegment \/ LoseAck \/ UNCHANGED vars
    <3>1. UNCHANGED <<sndState, segVars, readVars>>
      BY <2>6, ConnLoss DEF vars, sndVars, rcvVars
    <3> QED BY <3>1 DEF sndState, appVars, segVars, readVars
  <2> QED BY <2>1, <2>2, <2>3, <2>4, <2>5, <2>6 DEF Next
<1> QED BY ConnInvariant, <1>1, <1>2, PTL DEF Spec, StreamSpec, Stream!Spec
=============================================================================
