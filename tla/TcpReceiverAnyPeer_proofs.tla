---------------------- MODULE TcpReceiverAnyPeer_proofs ----------------------
(***************************************************************************)
(* The receiver delivers a prefix of the stream, keeps its account of the  *)
(* heap and announces every window that reopens, whatever the peer sends:  *)
(* proofs for every buffer size, window scale, batch size and stream.      *)
(*                                                                         *)
(* The invariant InOrder is not inductive: that the bytes consumed are the *)
(* next of the stream needs that the bytes of a segment are those its      *)
(* sequence number says, also of the segments that wait in the heap, and   *)
(* that rcvNxt is the number after the last byte delivered (RcvInv).  The  *)
(* account of the heap is a sum over it; the sum is not computed, but      *)
(* known by a function that bounds it (Account), which every operation     *)
(* changes in one place.                                                   *)
(***************************************************************************)
EXTENDS TcpReceiverAnyPeer, SequenceTheorems, TLAPS

\* A segment of a stream of n bytes: its bytes are those its number says, and
\* a FIN is where the stream ends.
OfStream(s, n) ==
  /\ s \in Segment /\ s.flags \in {"data", "fin"}
  /\ s.off = s.seq /\ 1 <= s.seq
  /\ s.seq + s.len <= n + 1
  /\ s.flags = "fin" => s.seq + s.len = n + 1

PendingOfStream(n) == \A i \in DOMAIN pending : OfStream(pending[i], n)

\* No more than the stream is delivered, and no less before its end.
Within(n) == Len(rcvd) <= n /\ (rcvClosed => Len(rcvd) = n)

\* The inductive invariant, for a stream of n bytes.
RcvInv(n) ==
  /\ RcvTypeOK
  /\ PendingOfStream(n)
  /\ InOrder /\ AckMatchesData /\ Within(n)

-----------------------------------------------------------------------------
(* The operators the receiver is built from. *)

\* A window of whole units is a number.
LEMMA ScaledNat ==
  ASSUME NEW w \in Nat
  PROVE  Scaled(w) \in Nat
<1>1. w \div WndUnit \in Nat
  BY ReceiverAssumption, SMTT(30)
<1> QED BY <1>1, ReceiverAssumption, SMTT(30) DEF Scaled

\* Appending adds one element and keeps the others.
LEMMA AppendSeq ==
  ASSUME NEW S, NEW q \in Seq(S), NEW e \in S
  PROVE  /\ Append(q, e) \in Seq(S)
         /\ DOMAIN Append(q, e) = 1..(Len(q) + 1)
         /\ Append(q, e)[Len(q) + 1] = e
         /\ \A i \in 1..Len(q) : Append(q, e)[i] = q[i]
  OBVIOUS

\* An ack keeps the types and never moves the edge of the window back.
LEMMA SendAckType ==
  ASSUME RcvTypeOK, NEW n \in Nat, NEW used \in Int, SendAck(n, used)
  PROVE  /\ rcvAcc' \in Nat /\ maxSentAck' \in Nat
         /\ acks' \in Seq([ack : Nat, wnd : Nat])
         /\ rcvAcc' >= rcvAcc /\ maxSentAck' = n
<1>1. Available(used) \in Nat
  BY ReceiverAssumption DEF Available, MaxOf
<1>2. rcvAcc' \in Nat /\ rcvAcc' >= rcvAcc /\ rcvAcc' - n \in Nat
  BY <1>1 DEF SendAck, MaxOf, RcvTypeOK
<1>3. [ack |-> n, wnd |-> Scaled(rcvAcc' - n)] \in [ack : Nat, wnd : Nat]
  BY <1>2, ScaledNat
<1>4. acks' \in Seq([ack : Nat, wnd : Nat])
  <2> DEFINE a == [ack |-> n, wnd |-> Scaled(rcvAcc' - n)]
  <2>1. acks \in Seq([ack : Nat, wnd : Nat])
    BY DEF RcvTypeOK
  <2>2. acks' = acks \/ acks' = Append(acks, a)
    BY DEF SendAck
  <2>3. a \in [ack : Nat, wnd : Nat]
    BY <1>3
  <2> HIDE DEF a
  <2>4. Append(acks, a) \in Seq([ack : Nat, wnd : Nat])
    BY <2>1, <2>3, AppendSeq
  <2> QED BY <2>1, <2>2, <2>4
<1> QED BY <1>2, <1>4 DEF SendAck

\* Removing an element of a sequence keeps the others.
LEMMA WithoutSeq ==
  ASSUME NEW S, NEW q \in Seq(S), NEW i \in DOMAIN q
  PROVE  /\ Without(q, i) \in Seq(S)
         /\ \A j \in DOMAIN Without(q, i) :
              \E k \in DOMAIN q : Without(q, i)[j] = q[k]
<1> DEFINE a == SubSeq(q, 1, i - 1)
           b == SubSeq(q, i + 1, Len(q))
<1>1. i \in 1..Len(q) /\ Len(q) \in Nat
  OBVIOUS
<1>2. a \in Seq(S) /\ Len(a) = i - 1
      /\ \A j \in 1..Len(a) : a[j] = q[j]
  BY <1>1
<1>3. b \in Seq(S) /\ Len(b) = Len(q) - i
      /\ \A j \in 1..Len(b) : b[j] = q[j + i]
  BY <1>1
<1> HIDE DEF a, b
<1>4. a \o b \in Seq(S) /\ Len(a \o b) = Len(q) - 1
      /\ \A j \in 1..Len(a \o b) :
            (a \o b)[j] = IF j <= i - 1 THEN a[j] ELSE b[j - (i - 1)]
  BY <1>1, <1>2, <1>3
<1>5. \A j \in 1..(Len(q) - 1) : \E k \in 1..Len(q) : (a \o b)[j] = q[k]
  <2> SUFFICES ASSUME NEW j \in 1..(Len(q) - 1)
               PROVE  \E k \in 1..Len(q) : (a \o b)[j] = q[k]
    OBVIOUS
  <2>1. CASE j <= i - 1
    <3>1. (a \o b)[j] = q[j]
      BY <1>1, <1>2, <1>4, <2>1
    <3> QED BY <3>1, <1>1
  <2>2. CASE ~(j <= i - 1)
    <3>1. (a \o b)[j] = q[j + 1] /\ j + 1 \in 1..Len(q)
      BY <1>1, <1>3, <1>4, <2>2
    <3> QED BY <3>1
  <2> QED BY <2>1, <2>2
<1>6. DOMAIN (a \o b) = 1..(Len(q) - 1) /\ DOMAIN q = 1..Len(q)
  BY <1>1, <1>4
<1>7. Without(q, i) = a \o b
  BY DEF Without, a, b
<1> QED BY <1>4, <1>5, <1>6, <1>7

\* Where they are after that.
LEMMA WithoutAt ==
  ASSUME NEW S, NEW q \in Seq(S), NEW i \in 1..Len(q)
  PROVE  /\ Len(Without(q, i)) = Len(q) - 1
         /\ \A j \in 1..(Len(q) - 1) :
              Without(q, i)[j] = IF j < i THEN q[j] ELSE q[j + 1]
<1> DEFINE a == SubSeq(q, 1, i - 1)
           b == SubSeq(q, i + 1, Len(q))
<1>1. i \in 1..Len(q) /\ Len(q) \in Nat
  OBVIOUS
<1>2. a \in Seq(S) /\ Len(a) = i - 1
      /\ \A j \in 1..Len(a) : a[j] = q[j]
  BY <1>1
<1>3. b \in Seq(S) /\ Len(b) = Len(q) - i
      /\ \A j \in 1..Len(b) : b[j] = q[j + i]
  BY <1>1
<1> HIDE DEF a, b
<1>4a. /\ Len(a \o b) = Len(a) + Len(b)
       /\ \A j \in 1..(Len(a) + Len(b)) :
             (a \o b)[j] = IF j <= Len(a) THEN a[j] ELSE b[j - Len(a)]
  BY <1>2, <1>3, ConcatProperties
<1>4. /\ Len(a \o b) = Len(q) - 1
      /\ \A j \in 1..(Len(q) - 1) :
            (a \o b)[j] = IF j <= i - 1 THEN a[j] ELSE b[j - (i - 1)]
  <2>1. Len(a) + Len(b) = Len(q) - 1 /\ Len(a) = i - 1
    BY <1>1, <1>2, <1>3
  <2> QED BY <2>1, <1>4a
<1>5. ASSUME NEW j \in 1..(Len(q) - 1)
      PROVE  (a \o b)[j] = IF j < i THEN q[j] ELSE q[j + 1]
  <2>1. CASE j < i
    <3>1. j <= i - 1 /\ j \in 1..Len(a)
      BY <2>1, <1>1, <1>2
    <3> QED BY <3>1, <2>1, <1>2, <1>4
  <2>2. CASE ~(j < i)
    <3>1. ~(j <= i - 1) /\ j - (i - 1) \in 1..Len(b) /\ (j - (i - 1)) + i = j + 1
      BY <2>2, <1>1, <1>3
    <3> QED BY <3>1, <2>2, <1>3, <1>4
  <2> QED BY <2>1, <2>2
<1> QED BY <1>4, <1>5 DEF Without, a, b

\* What is in a sequence with one more element.
LEMMA AppendMember ==
  ASSUME NEW S, NEW q \in Seq(S), NEW e
  PROVE  \A i \in DOMAIN Append(q, e) :
           (i \in DOMAIN q /\ Append(q, e)[i] = q[i]) \/ Append(q, e)[i] = e
  OBVIOUS

\* What the receiver consumes of a segment of the stream starts at the next
\* byte expected.
LEMMA TrimmedOfStream ==
  ASSUME RcvTypeOK, NEW n \in Nat, NEW s, OfStream(s, n), Consumable(s)
  PROVE  /\ OfStream(Trimmed(s), n) /\ Trimmed(s).seq = rcvNxt
         /\ Trimmed(s).flags = s.flags
         /\ SegEnd(Trimmed(s)) = SegEnd(s)
<1>1. CASE s.len > 0
  <2>1. s.seq <= rcvNxt /\ rcvNxt < s.seq + s.len
    BY <1>1 DEF Consumable
  <2>2. Trimmed(s) = [seq |-> rcvNxt, off |-> s.off + (rcvNxt - s.seq),
                      len |-> s.len - (rcvNxt - s.seq), flags |-> s.flags]
    BY <1>1 DEF Trimmed, TrimFront, OfStream, Segment
  <2>3. Trimmed(s) \in Segment
    BY <2>1, <2>2 DEF OfStream, Segment, RcvTypeOK
  <2>4. /\ Trimmed(s).seq = rcvNxt /\ Trimmed(s).flags = s.flags
        /\ Trimmed(s).off = s.off + (rcvNxt - s.seq)
        /\ Trimmed(s).len = s.len - (rcvNxt - s.seq)
    BY <2>2
  <2>5. /\ s.seq \in Int /\ s.off \in Int /\ s.len \in Nat
        /\ s.off = s.seq /\ rcvNxt \in Nat /\ n \in Nat
    BY DEF OfStream, Segment, RcvTypeOK
  <2>6. OfStream(Trimmed(s), n)
    BY <2>1, <2>3, <2>4, <2>5 DEF OfStream
  <2>7. SegEnd(Trimmed(s)) = SegEnd(s)
    BY <2>4, <2>5 DEF SegEnd, LogicalLen
  <2> QED BY <2>4, <2>6, <2>7
<1>2. CASE ~(s.len > 0)
  BY <1>2 DEF Consumable, Trimmed
<1> QED BY <1>1, <1>2

\* The bytes of a segment of the stream that starts at the next number
\* expected extend the prefix that was delivered.
LEMMA PrefixExtends ==
  ASSUME NEW r \in Seq(Int), \A i \in 1..Len(r) : r[i] = i,
         NEW N \in Nat, NEW t, OfStream(t, N), t.seq = Len(r) + 1
  PROVE  /\ r \o Bytes(t) \in Seq(Int)
         /\ Len(r \o Bytes(t)) = Len(r) + t.len
         /\ r \o Bytes(t) = [i \in 1..Len(r \o Bytes(t)) |-> i]
<1> DEFINE b == Bytes(t)
           n == Len(r)
<1>1. n \in Nat /\ t.len \in Nat /\ t.off = n + 1
  BY DEF OfStream, Segment
<1>2. b = [i \in 1..t.len |-> n + i]
  BY <1>1 DEF Bytes
<1>3. b \in Seq(Int) /\ Len(b) = t.len
  <2>1. b \in [1..t.len -> Int]
    BY <1>1, <1>2
  <2>2. b \in Seq(Int)
    BY <1>1, <2>1, SeqDef
  <2>3. DOMAIN b = 1..t.len /\ DOMAIN b = 1..Len(b) /\ Len(b) \in Nat
    BY <2>1, <2>2, LenProperties
  <2> HIDE DEF b
  <2> QED BY <1>1, <2>2, <2>3
<1>4. \A i \in 1..t.len : b[i] = n + i
  BY <1>2
<1>5. \A i \in 1..n : r[i] = i
  OBVIOUS
<1> HIDE DEF b
<1>6. /\ r \o b \in Seq(Int) /\ Len(r \o b) = n + t.len
      /\ \A i \in 1..(n + t.len) :
            (r \o b)[i] = IF i <= n THEN r[i] ELSE b[i - n]
  <2>1. /\ r \o b \in Seq(Int) /\ Len(r \o b) = Len(r) + Len(b)
        /\ \A i \in 1..(Len(r) + Len(b)) :
              (r \o b)[i] = IF i <= Len(r) THEN r[i] ELSE b[i - Len(r)]
    BY <1>3, ConcatProperties
  <2> QED BY <1>3, <2>1
<1>7. \A i \in 1..(n + t.len) : (r \o b)[i] = i
  <2> SUFFICES ASSUME NEW i \in 1..(n + t.len)
               PROVE  (r \o b)[i] = i
    OBVIOUS
  <2> HIDE DEF n
  <2>1. CASE i <= n
    BY <1>1, <1>5, <1>6, <2>1
  <2>2. CASE ~(i <= n)
    <3>1. i - n \in 1..t.len
      BY <1>1, <2>2
    <3> QED BY <3>1, <1>1, <1>4, <1>6, <2>2
  <2> QED BY <2>1, <2>2
<1>8. r \o b = [i \in 1..(n + t.len) |-> (r \o b)[i]]
  <2> DEFINE c == r \o b
  <2>1. c \in Seq(Int) /\ Len(c) = n + t.len
    BY <1>6
  <2> HIDE DEF c
  <2>2. c \in [1..Len(c) -> Int]
    BY <2>1, LenProperties
  <2>3. c = [i \in 1..(n + t.len) |-> c[i]]
    BY <2>1, <2>2
  <2> QED BY <2>3 DEF c
<1>9. r \o b = [i \in 1..(n + t.len) |-> i]
  BY <1>7, <1>8
<1> QED BY <1>6, <1>9 DEF b

\* consumeSegment keeps the invariant.
LEMMA ConsumeStep ==
  ASSUME NEW n \in Nat, RcvInv(n), ~rcvClosed,
         NEW s, OfStream(s, n), Consumable(s), Consume(s)
  PROVE  /\ rcvNxt' \in Nat /\ rcvAcc' \in Nat /\ rcvClosed' \in BOOLEAN
         /\ maxSentAck' \in Nat /\ rcvList' \in Seq(Nat)
         /\ rcvBufUsed' \in Int /\ rcvd' \in Seq(Int)
         /\ acks' \in Seq([ack : Nat, wnd : Nat])
         /\ InOrder' /\ AckMatchesData' /\ Within(n)'
<1> DEFINE t == Trimmed(s)
           used == rcvBufUsed + t.len
<1>1. /\ OfStream(t, n) /\ t.seq = rcvNxt /\ t.flags = s.flags
      /\ SegEnd(t) = SegEnd(s)
  BY TrimmedOfStream DEF RcvInv
<1>2. /\ rcvNxt' = SegEnd(t) /\ rcvBufUsed' = used
      /\ rcvList' = IF t.len > 0 THEN Append(rcvList, t.len) ELSE rcvList
      /\ rcvd' = rcvd \o Bytes(t)
      /\ rcvClosed' = (s.flags = "fin")
      /\ IF s.flags = "fin" THEN SendAck(SegEnd(t), used)
                            ELSE UNCHANGED <<rcvAcc, maxSentAck, acks>>
  BY DEF Consume
<1> HIDE DEF t
<1>3. /\ t.len \in Nat /\ t.seq \in Int /\ used \in Int /\ rcvNxt \in Nat
      /\ rcvd \in Seq(Int) /\ rcvList \in Seq(Nat)
  BY <1>1 DEF OfStream, Segment, RcvInv, RcvTypeOK
<1>4. SegEnd(t) = rcvNxt + t.len + (IF s.flags = "fin" THEN 1 ELSE 0)
  BY <1>1, <1>3 DEF SegEnd, LogicalLen
<1>5. rcvNxt = Len(rcvd) + 1 /\ rcvd = [i \in 1..Len(rcvd) |-> i]
  BY <1>3 DEF RcvInv, AckMatchesData, InOrder
<1>5a. rcvNxt = Len(rcvd) + 1 /\ \A i \in 1..Len(rcvd) : rcvd[i] = i
  BY <1>3, <1>5
<1>6. /\ rcvd' \in Seq(Int) /\ Len(rcvd') = Len(rcvd) + t.len
      /\ rcvd' = [i \in 1..Len(rcvd') |-> i]
  BY <1>1, <1>2, <1>3, <1>5a, PrefixExtends
<1>6a. rcvd' \in Seq(Int) /\ Len(rcvd') = Len(rcvd) + t.len
  BY <1>6
<1>7. rcvNxt' \in Nat /\ rcvClosed' \in BOOLEAN /\ rcvBufUsed' \in Int
  BY <1>2, <1>3, <1>4
<1>8. rcvList' \in Seq(Nat)
  BY <1>2, <1>3, AppendSeq
<1>9. /\ rcvAcc' \in Nat /\ maxSentAck' \in Nat
      /\ acks' \in Seq([ack : Nat, wnd : Nat])
  <2>1. CASE s.flags = "fin"
    <3>1. SegEnd(t) \in Nat
      BY <1>2, <1>7
    <3> HIDE DEF used
    <3> QED BY <2>1, <3>1, <1>2, <1>3, SendAckType DEF RcvInv
  <2>2. CASE s.flags # "fin"
    BY <2>2, <1>2 DEF RcvInv, RcvTypeOK
  <2> QED BY <2>1, <2>2
<1>10. AckMatchesData'
  <2>1. Len(rcvd) \in Nat /\ Len(rcvd') \in Nat
    BY <1>3, <1>6a
  <2>2. rcvNxt \in Nat /\ rcvNxt = Len(rcvd) + 1 /\ t.len \in Nat
    BY <1>3, <1>5a
  <2>3. CASE s.flags = "fin"
    <3>0. rcvClosed'
      BY <2>3, <1>2
    <3>1. rcvNxt' = rcvNxt + t.len + 1
      BY <2>3, <1>2, <1>4
    <3>2. rcvNxt' = Len(rcvd') + 1 + 1
      <4> DEFINE a == Len(rcvd)
                 b == Len(rcvd')
                 c == t.len
      <4>1. /\ a \in Nat /\ b \in Nat /\ c \in Nat /\ b = a + c
            /\ rcvNxt = a + 1 /\ rcvNxt' = rcvNxt + c + 1
        BY <3>1, <2>1, <2>2, <1>6a
      <4> HIDE DEF a, b, c
      <4>2. rcvNxt' = b + 1 + 1
        BY <4>1
      <4> QED BY <4>2 DEF b
    <3> QED BY <3>0, <3>2 DEF AckMatchesData
  <2>4. CASE s.flags # "fin"
    <3>0. ~rcvClosed'
      BY <2>4, <1>2
    <3>1. rcvNxt' = rcvNxt + t.len + 0
      BY <2>4, <1>2, <1>4
    <3>2. rcvNxt' = Len(rcvd') + 1 + 0
      BY <3>1, <2>1, <2>2, <1>6a
    <3> QED BY <3>0, <3>2 DEF AckMatchesData
  <2> QED BY <2>3, <2>4
<1>11. Within(n)'
  <2>1. /\ Len(rcvd) \in Nat /\ Len(rcvd') = Len(rcvd) + t.len
        /\ t.seq = Len(rcvd) + 1
    BY <1>1, <1>3, <1>5a, <1>6a
  <2>2. t.seq + t.len <= n + 1 /\ (t.flags = "fin" => t.seq + t.len = n + 1)
    BY <1>1 DEF OfStream
  <2>3. Len(rcvd') <= n /\ (s.flags = "fin" => Len(rcvd') = n)
    BY <2>1, <2>2, <1>1, <1>3
  <2> QED BY <2>3, <1>2 DEF Within
<1> QED BY <1>6, <1>7, <1>8, <1>9, <1>10, <1>11 DEF InOrder

-----------------------------------------------------------------------------
(* The steps. *)

\* What the peer sends is of the stream.
LEMMA PeerSendsStream == \A m \in DataSegments : OfStream(m, StreamLen)
<1> SUFFICES ASSUME NEW m \in DataSegments PROVE OfStream(m, StreamLen)
  OBVIOUS
<1>1. m \in [seq : 1..(StreamLen + 1), off : 1..(StreamLen + 1),
             len : 0..StreamLen, flags : {"data", "fin"}]
  BY DEF DataSegments
<1>2. m \in Segment /\ 1 <= m.seq /\ m.flags \in {"data", "fin"}
  BY <1>1, StreamAssumption DEF Segment, Flags
<1> QED BY <1>2 DEF DataSegments, OfStream

\* A fresh receiver, for a stream of any length.
LEMMA InvInit ==
  ASSUME RcvInit, NEW n \in Nat
  PROVE  RcvInv(n)
<1>1. RcvTypeOK
  <2>1. /\ <<>> \in Seq(Segment) /\ <<>> \in Seq(Nat) /\ <<>> \in Seq(Int)
        /\ <<>> \in Seq([ack : Nat, wnd : Nat])
    BY EmptySeq
  <2>2. 1 + RcvBufSize \in Nat /\ 0 \in 0..MaxSegmentsPerWake
    BY ReceiverAssumption
  <2>3. /\ rcvNxt \in Nat /\ rcvAcc \in Nat
        /\ pendingBufUsed \in Int /\ maxSentAck \in Nat
        /\ rcvBatch \in 0..MaxSegmentsPerWake /\ rcvBufUsed \in Int
    <3>1. /\ rcvNxt = 1 /\ rcvAcc = 1 + RcvBufSize /\ pendingBufUsed = 0
          /\ maxSentAck = 1 /\ rcvBatch = 0 /\ rcvBufUsed = 0
      BY DEF RcvInit
    <3> QED BY <2>2, <3>1
  <2>5. rcvClosed \in BOOLEAN /\ rcvPc = "idle" /\ notifyNonZero \in BOOLEAN
    BY DEF RcvInit
  <2>4. /\ pending \in Seq(Segment) /\ rcvList \in Seq(Nat)
        /\ rcvd \in Seq(Int) /\ acks \in Seq([ack : Nat, wnd : Nat])
    BY <2>1 DEF RcvInit
  <2> QED BY <2>3, <2>4, <2>5 DEF RcvTypeOK
<1>3. rcvd = <<>> /\ Len(rcvd) = 0
  BY DEF RcvInit
<1>2. PendingOfStream(n) /\ Within(n)
  BY <1>3 DEF RcvInit, PendingOfStream, Within
<1>4. InOrder
  BY <1>3 DEF InOrder
<1>5. AckMatchesData
  BY <1>3 DEF RcvInit, AckMatchesData
<1> QED BY <1>1, <1>2, <1>4, <1>5 DEF RcvInv

\* The parts of the invariant that speak of the stream survive a step that
\* leaves the stream alone.
LEMMA StreamUnchanged ==
  ASSUME NEW n \in Nat, RcvInv(n), UNCHANGED <<rcvNxt, rcvClosed, rcvd>>
  PROVE  InOrder' /\ AckMatchesData' /\ Within(n)'
  BY DEF RcvInv, InOrder, AckMatchesData, Within

\* And that of the heap one that leaves the heap alone.
LEMMA PendingUnchanged ==
  ASSUME NEW n \in Nat, RcvInv(n), UNCHANGED pending
  PROVE  PendingOfStream(n)'
  BY DEF RcvInv, PendingOfStream

\* One lemma for each way a segment is handled ...
LEMMA InvIgnored ==
  ASSUME NEW n \in Nat, RcvInv(n), NEW m, HandleIgnored(m) \/ HandleReset(m)
  PROVE  RcvInv(n)'
<1>1. /\ UNCHANGED <<segVars, maxSentAck, readVars, acks>>
      /\ rcvPc' \in {"batch", "dead"}
      /\ rcvBatch < MaxSegmentsPerWake /\ rcvBatch' = rcvBatch + 1
  BY DEF HandleIgnored, HandleReset, NextOfBatch
<1>2. RcvTypeOK'
  BY <1>1, ReceiverAssumption DEF RcvInv, RcvTypeOK, segVars, readVars
<1> QED BY <1>1, <1>2, StreamUnchanged, PendingUnchanged
        DEF RcvInv, segVars, readVars

LEMMA InvUnacceptable ==
  ASSUME NEW n \in Nat, RcvInv(n), NEW m, HandleUnacceptable(m)
  PROVE  RcvInv(n)'
<1>1. /\ SendAck(rcvNxt, rcvBufUsed) /\ rcvPc' = "batch"
      /\ UNCHANGED <<rcvNxt, rcvClosed, pending, pendingBufUsed, readVars>>
      /\ rcvBatch < MaxSegmentsPerWake /\ rcvBatch' = rcvBatch + 1
  BY DEF HandleUnacceptable, NextOfBatch
<1>2. rcvNxt \in Nat /\ rcvBufUsed \in Int /\ RcvTypeOK
  BY DEF RcvInv, RcvTypeOK
<1>3. /\ rcvAcc' \in Nat /\ maxSentAck' \in Nat
      /\ acks' \in Seq([ack : Nat, wnd : Nat])
  BY <1>1, <1>2, SendAckType
<1>4. RcvTypeOK'
  BY <1>1, <1>2, <1>3, ReceiverAssumption DEF RcvTypeOK, readVars
<1> QED BY <1>1, <1>4, StreamUnchanged, PendingUnchanged DEF RcvInv, readVars

LEMMA InvInOrder ==
  ASSUME NEW n \in Nat, RcvInv(n), NEW m, OfStream(m, n), HandleInOrder(m)
  PROVE  RcvInv(n)'
<1>1. /\ ~rcvClosed /\ Consumable(m) /\ Consume(m)
      /\ pending' \in {pending, <<>>} /\ rcvPc' \in {"batch", "drain"}
      /\ UNCHANGED <<pendingBufUsed, notifyNonZero>>
      /\ rcvBatch < MaxSegmentsPerWake /\ rcvBatch' = rcvBatch + 1
  BY DEF HandleInOrder, NextOfBatch
<1>2. /\ rcvNxt' \in Nat /\ rcvAcc' \in Nat /\ rcvClosed' \in BOOLEAN
      /\ maxSentAck' \in Nat /\ rcvList' \in Seq(Nat)
      /\ rcvBufUsed' \in Int /\ rcvd' \in Seq(Int)
      /\ acks' \in Seq([ack : Nat, wnd : Nat])
      /\ InOrder' /\ AckMatchesData' /\ Within(n)'
  BY <1>1, ConsumeStep
<1>3. pending' \in Seq(Segment) /\ rcvBatch' \in 0..MaxSegmentsPerWake
  <2>1. pending' \in Seq(Segment)
    BY <1>1, EmptySeq DEF RcvInv, RcvTypeOK
  <2> QED BY <2>1, <1>1, ReceiverAssumption DEF RcvInv, RcvTypeOK
<1>4. RcvTypeOK'
  BY <1>1, <1>2, <1>3 DEF RcvInv, RcvTypeOK
<1>5. PendingOfStream(n)'
  BY <1>1 DEF RcvInv, PendingOfStream
<1> QED BY <1>2, <1>4, <1>5 DEF RcvInv

LEMMA InvOutOfOrder ==
  ASSUME NEW n \in Nat, RcvInv(n), NEW m, OfStream(m, n), HandleOutOfOrder(m)
  PROVE  RcvInv(n)'
<1>1. /\ UNCHANGED <<rcvNxt, rcvClosed, readVars>> /\ rcvPc' = "batch"
      /\ SendAck(rcvNxt, rcvBufUsed) \/ UNCHANGED <<rcvAcc, maxSentAck, acks>>
      /\ \/ /\ pending' = Append(pending, m)
            /\ pendingBufUsed' = pendingBufUsed + LogicalLen(m)
         \/ UNCHANGED <<pending, pendingBufUsed>>
      /\ rcvBatch < MaxSegmentsPerWake /\ rcvBatch' = rcvBatch + 1
  BY DEF HandleOutOfOrder, NextOfBatch
<1>2. rcvNxt \in Nat /\ rcvBufUsed \in Int /\ RcvTypeOK
      /\ pending \in Seq(Segment) /\ m \in Segment /\ LogicalLen(m) \in Int
  BY DEF RcvInv, RcvTypeOK, OfStream, Segment, LogicalLen
<1>3. /\ rcvAcc' \in Nat /\ maxSentAck' \in Nat
      /\ acks' \in Seq([ack : Nat, wnd : Nat])
  <2>1. CASE SendAck(rcvNxt, rcvBufUsed)
    BY <2>1, <1>2, SendAckType
  <2>2. CASE UNCHANGED <<rcvAcc, maxSentAck, acks>>
    BY <2>2 DEF RcvInv, RcvTypeOK
  <2> QED BY <2>1, <2>2, <1>1
<1>4. pending' \in Seq(Segment) /\ pendingBufUsed' \in Int
  <2>1. Append(pending, m) \in Seq(Segment)
    BY <1>2, AppendSeq
  <2>2. pendingBufUsed \in Int
    BY <1>2 DEF RcvTypeOK
  <2>3. pending' \in Seq(Segment)
    BY <1>1, <1>2, <2>1
  <2>4. pendingBufUsed' \in Int
    BY <1>1, <1>2, <2>2
  <2> QED BY <2>3, <2>4
<1>5. RcvTypeOK'
  BY <1>1, <1>2, <1>3, <1>4, ReceiverAssumption DEF RcvTypeOK, readVars
<1>6. PendingOfStream(n)'
  <2>1. CASE pending' = Append(pending, m)
    <3>1. DOMAIN pending' = 1..(Len(pending) + 1)
          /\ pending'[Len(pending) + 1] = m
          /\ \A i \in 1..Len(pending) : pending'[i] = pending[i]
      BY <2>1, <1>2, AppendSeq
    <3>2. \A i \in 1..Len(pending) : OfStream(pending[i], n)
      BY <1>2 DEF RcvInv, PendingOfStream
    <3>3. \A i \in DOMAIN pending' : i \in 1..Len(pending) \/ i = Len(pending) + 1
      BY <3>1, <1>2
    <3> QED BY <3>1, <3>2, <3>3 DEF PendingOfStream
  <2>2. CASE UNCHANGED pending
    BY <2>2, PendingUnchanged
  <2> QED BY <2>1, <2>2, <1>1
<1> QED BY <1>1, <1>5, <1>6, StreamUnchanged DEF RcvInv, readVars

\* ... and for each step of the loop over the heap.
LEMMA InvDrainSkip ==
  ASSUME NEW n \in Nat, RcvInv(n), DrainSkip
  PROVE  RcvInv(n)'
<1>1. PICK i \in DOMAIN pending :
        /\ pending' = Without(pending, i)
        /\ pendingBufUsed' = pendingBufUsed - LogicalLen(pending[i])
  BY DEF DrainSkip
<1>2. UNCHANGED <<rcvNxt, rcvAcc, rcvClosed, maxSentAck, loopVars, readVars,
                  acks>>
  BY DEF DrainSkip
<1>3. pending \in Seq(Segment) /\ OfStream(pending[i], n)
  BY DEF RcvInv, RcvTypeOK, PendingOfStream
<1>4. /\ pending' \in Seq(Segment)
      /\ \A j \in DOMAIN pending' : \E k \in DOMAIN pending :
            pending'[j] = pending[k]
  BY <1>1, <1>3, WithoutSeq
<1>5. PendingOfStream(n)'
  BY <1>4 DEF RcvInv, PendingOfStream
<1>6. pendingBufUsed' \in Int
  <2>1. LogicalLen(pending[i]) \in Int /\ pendingBufUsed \in Int
    BY <1>3 DEF RcvInv, RcvTypeOK, OfStream, Segment, LogicalLen
  <2> QED BY <2>1, <1>1
<1>7. RcvTypeOK'
  BY <1>2, <1>4, <1>6 DEF RcvInv, RcvTypeOK, loopVars, readVars
<1> QED BY <1>2, <1>5, <1>7, StreamUnchanged DEF RcvInv, readVars

LEMMA InvDrainConsume ==
  ASSUME NEW n \in Nat, RcvInv(n), DrainConsume
  PROVE  RcvInv(n)'
<1>1. PICK i \in DOMAIN pending :
        /\ Consumable(pending[i]) /\ Consume(pending[i])
        /\ pending' \in {<<>>, Without(pending, i)}
        /\ pendingBufUsed' = pendingBufUsed - LogicalLen(Trimmed(pending[i]))
  BY DEF DrainConsume
<1>2. ~rcvClosed /\ UNCHANGED <<loopVars, notifyNonZero>>
  BY DEF DrainConsume
<1>3. pending \in Seq(Segment) /\ OfStream(pending[i], n)
  BY DEF RcvInv, RcvTypeOK, PendingOfStream
<1>4. /\ rcvNxt' \in Nat /\ rcvAcc' \in Nat /\ rcvClosed' \in BOOLEAN
      /\ maxSentAck' \in Nat /\ rcvList' \in Seq(Nat)
      /\ rcvBufUsed' \in Int /\ rcvd' \in Seq(Int)
      /\ acks' \in Seq([ack : Nat, wnd : Nat])
      /\ InOrder' /\ AckMatchesData' /\ Within(n)'
  BY <1>1, <1>2, <1>3, ConsumeStep
<1>5. pending' \in Seq(Segment) /\ PendingOfStream(n)'
  <2>1. CASE pending' = <<>>
    <3>1. <<>> \in Seq(Segment)
      BY EmptySeq
    <3> QED BY <2>1, <3>1 DEF PendingOfStream
  <2>2. CASE pending' = Without(pending, i)
    <3>1. /\ pending' \in Seq(Segment)
          /\ \A j \in DOMAIN pending' : \E k \in DOMAIN pending :
                pending'[j] = pending[k]
      BY <2>2, <1>3, WithoutSeq
    <3> QED BY <3>1 DEF RcvInv, PendingOfStream
  <2> QED BY <2>1, <2>2, <1>1
<1>6. pendingBufUsed' \in Int
  <2>1. OfStream(Trimmed(pending[i]), n)
    BY <1>1, <1>3, TrimmedOfStream DEF RcvInv
  <2>2. LogicalLen(Trimmed(pending[i])) \in Int
    BY <2>1 DEF OfStream, Segment, LogicalLen
  <2>3. pendingBufUsed \in Int
    BY DEF RcvInv, RcvTypeOK
  <2> QED BY <2>2, <2>3, <1>1
<1>7. RcvTypeOK'
  BY <1>2, <1>4, <1>5, <1>6 DEF RcvInv, RcvTypeOK, loopVars
<1> QED BY <1>4, <1>5, <1>7 DEF RcvInv

LEMMA InvDrainStop ==
  ASSUME NEW n \in Nat, RcvInv(n), DrainStop
  PROVE  RcvInv(n)'
<1>1. /\ rcvPc' = "batch"
      /\ UNCHANGED <<segVars, maxSentAck, rcvBatch, readVars, acks>>
  BY DEF DrainStop
<1>2. RcvTypeOK'
  BY <1>1 DEF RcvInv, RcvTypeOK, segVars, readVars
<1> QED BY <1>1, <1>2, StreamUnchanged, PendingUnchanged
        DEF RcvInv, segVars, readVars

\* The two steps that end with an ack or none: EndBatch and NonZeroWindow.
LEMMA InvAckOrNone ==
  ASSUME NEW n \in Nat, RcvInv(n),
         SendAck(rcvNxt, rcvBufUsed) \/ UNCHANGED <<rcvAcc, maxSentAck, acks>>,
         UNCHANGED <<rcvNxt, rcvClosed, pending, pendingBufUsed, rcvList,
                     rcvBufUsed, rcvd>>,
         rcvPc' \in {"idle"} \cup {rcvPc},
         rcvBatch' \in {0, rcvBatch}, notifyNonZero' \in BOOLEAN
  PROVE  RcvInv(n)'
<1>1. rcvNxt \in Nat /\ rcvBufUsed \in Int /\ RcvTypeOK
  BY DEF RcvInv, RcvTypeOK
<1>2. /\ rcvAcc' \in Nat /\ maxSentAck' \in Nat
      /\ acks' \in Seq([ack : Nat, wnd : Nat])
  <2>1. CASE SendAck(rcvNxt, rcvBufUsed)
    BY <2>1, <1>1, SendAckType
  <2>2. CASE UNCHANGED <<rcvAcc, maxSentAck, acks>>
    BY <2>2 DEF RcvInv, RcvTypeOK
  <2> QED BY <2>1, <2>2
<1>3. rcvBatch' \in 0..MaxSegmentsPerWake
  BY ReceiverAssumption DEF RcvInv, RcvTypeOK
<1>4. RcvTypeOK'
  BY <1>1, <1>2, <1>3 DEF RcvTypeOK
<1> QED BY <1>4, StreamUnchanged, PendingUnchanged DEF RcvInv

LEMMA InvEndBatch ==
  ASSUME NEW n \in Nat, RcvInv(n), EndBatch
  PROVE  RcvInv(n)'
<1>1. notifyNonZero' \in BOOLEAN
  BY DEF EndBatch, readVars, RcvInv, RcvTypeOK
<1> QED BY <1>1, InvAckOrNone DEF EndBatch, readVars

LEMMA InvNonZeroWindow ==
  ASSUME NEW n \in Nat, RcvInv(n), NonZeroWindow
  PROVE  RcvInv(n)'
  BY InvAckOrNone DEF NonZeroWindow, loopVars

\* The application reads.
LEMMA InvRead ==
  ASSUME NEW n \in Nat, RcvInv(n), Read
  PROVE  RcvInv(n)'
<1>1. /\ rcvList # <<>> /\ rcvList' = Tail(rcvList)
      /\ rcvBufUsed' = rcvBufUsed - Head(rcvList)
      /\ notifyNonZero' \in BOOLEAN
      /\ UNCHANGED <<segVars, maxSentAck, loopVars, rcvd, acks>>
  BY DEF Read, RcvInv, RcvTypeOK
<1>2. rcvList \in Seq(Nat) /\ rcvBufUsed \in Int
  BY DEF RcvInv, RcvTypeOK
<1>3. rcvList' \in Seq(Nat) /\ Head(rcvList) \in Nat
  BY <1>1, <1>2, HeadTailProperties
<1>4. rcvBufUsed' \in Int
  BY <1>1, <1>2, <1>3
<1>5. RcvTypeOK'
  BY <1>1, <1>3, <1>4 DEF RcvInv, RcvTypeOK, segVars, loopVars
<1> QED BY <1>1, <1>5, StreamUnchanged, PendingUnchanged
        DEF RcvInv, segVars

\* A segment of the stream, or a reset, is handled.
LEMMA InvSegment ==
  ASSUME NEW n \in Nat, RcvInv(n), NEW m, RcvHandleSegment(m),
         m.flags = "rst" \/ OfStream(m, n)
  PROVE  RcvInv(n)'
<1>1. CASE OfStream(m, n)
  BY <1>1, InvIgnored, InvUnacceptable, InvInOrder, InvOutOfOrder
     DEF RcvHandleSegment
<1>2. CASE m.flags = "rst"
  <2>1. HandleIgnored(m) \/ HandleReset(m)
    BY <1>2 DEF RcvHandleSegment, HandleUnacceptable, HandleInOrder,
                HandleOutOfOrder
  <2> QED BY <2>1, InvIgnored
<1> QED BY <1>1, <1>2

\* The worker of the receiver takes a step.
LEMMA InvWork ==
  ASSUME NEW n \in Nat, RcvInv(n), ReceiverWork
  PROVE  RcvInv(n)'
  BY InvDrainSkip, InvDrainConsume, InvDrainStop, InvEndBatch,
     InvNonZeroWindow DEF ReceiverWork

\* Nothing but the acks on their way back changes.
LEMMA InvAcksLeave ==
  ASSUME NEW n \in Nat, RcvInv(n),
         acks' \in Seq([ack : Nat, wnd : Nat]),
         UNCHANGED <<segVars, maxSentAck, loopVars, readVars>>
  PROVE  RcvInv(n)'
<1>1. RcvTypeOK'
  BY DEF RcvInv, RcvTypeOK, segVars, loopVars, readVars
<1> QED BY <1>1, StreamUnchanged, PendingUnchanged
        DEF RcvInv, segVars, readVars

\* Every step keeps RcvInv.
LEMMA InvNext == RcvInv(StreamLen) /\ [AnyStreamNext]_rcvVars => RcvInv(StreamLen)'
<1> SUFFICES ASSUME RcvInv(StreamLen), [AnyStreamNext]_rcvVars
             PROVE  RcvInv(StreamLen)'
  OBVIOUS
<1>0. StreamLen \in Nat /\ acks \in Seq([ack : Nat, wnd : Nat])
  BY StreamAssumption DEF RcvInv, RcvTypeOK
<1>1. CASE PeerSends
  BY <1>0, <1>1, PeerSendsStream, InvSegment DEF PeerSends
<1>2. CASE PeerResets
  <2>1. \A m \in ResetSegments : m.flags = "rst"
    BY DEF ResetSegments
  <2> QED BY <1>0, <1>2, <2>1, InvSegment DEF PeerResets
<1>3. CASE AckLeaves
  <2>1. acks' \in Seq([ack : Nat, wnd : Nat])
    BY <1>0, <1>3, HeadTailProperties DEF AckLeaves
  <2> QED BY <1>0, <1>3, <2>1, InvAcksLeave DEF AckLeaves
<1>4. CASE ReceiverWork
  BY <1>0, <1>4, InvWork
<1>5. CASE Read
  BY <1>0, <1>5, InvRead
<1>6. CASE UNCHANGED rcvVars
  <2>1. acks' \in Seq([ack : Nat, wnd : Nat])
        /\ UNCHANGED <<segVars, maxSentAck, loopVars, readVars>>
    BY <1>0, <1>6 DEF rcvVars
  <2> QED BY <1>0, <2>1, InvAcksLeave
<1> QED BY <1>1, <1>2, <1>3, <1>4, <1>5, <1>6 DEF AnyStreamNext

-----------------------------------------------------------------------------
(* Nothing is left waiting. *)

\* Between two segments of a batch the heap holds nothing that could be
\* consumed, and nothing at all once the FIN was.
WaitInv ==
  /\ rcvPc \in {"idle", "batch"} => \A i \in DOMAIN pending : ~Consumable(pending[i])
  /\ rcvClosed => pending = <<>>

\* A segment that could be consumed is never added.
LEMMA WaitSegment ==
  ASSUME RcvTypeOK, WaitInv, NEW m, RcvHandleSegment(m)
  PROVE  WaitInv'
<1> USE DEF WaitInv
<1>1. CASE HandleIgnored(m) \/ HandleReset(m) \/ HandleUnacceptable(m)
  <2>1. rcvPc \in {"idle", "batch"} /\ UNCHANGED <<pending, rcvNxt, rcvClosed>>
    BY <1>1 DEF HandleIgnored, HandleReset, HandleUnacceptable, NextOfBatch, segVars
  <2> QED BY <2>1 DEF Consumable
<1>2. CASE HandleInOrder(m)
  <2>1. /\ ~rcvClosed /\ pending' = IF rcvClosed' THEN <<>> ELSE pending
        /\ rcvPc' = IF rcvClosed' THEN "batch" ELSE "drain"
    BY <1>2 DEF HandleInOrder
  <2> QED BY <2>1
<1>3. CASE HandleOutOfOrder(m)
  <2>1. /\ rcvPc \in {"idle", "batch"} /\ UNCHANGED <<rcvNxt, rcvClosed>>
        /\ ~rcvClosed /\ ~Consumable(m)
        /\ pending' \in {pending, Append(pending, m)}
    BY <1>3 DEF HandleOutOfOrder, NextOfBatch
  <2>2. \A i \in DOMAIN pending' :
          \/ i \in DOMAIN pending /\ pending'[i] = pending[i]
          \/ pending'[i] = m
    <3>1. pending \in Seq(Segment)
      BY DEF RcvTypeOK
    <3>2. \A i \in DOMAIN Append(pending, m) :
            (i \in DOMAIN pending /\ Append(pending, m)[i] = pending[i])
              \/ Append(pending, m)[i] = m
      BY <3>1, AppendMember
    <3>3. CASE pending' = Append(pending, m)
      BY <3>2, <3>3
    <3> QED BY <2>1, <3>3
  <2> QED BY <2>1, <2>2 DEF Consumable
<1> QED BY <1>1, <1>2, <1>3 DEF RcvHandleSegment

\* If the top of the heap is behind a gap, so is everything under it.
LEMMA WaitStop ==
  ASSUME NEW n \in Nat, RcvInv(n), WaitInv, DrainStop
  PROVE  WaitInv'
<1>0. UNCHANGED <<pending, rcvNxt, rcvClosed>>
  BY DEF DrainStop, segVars
<1>1. CASE rcvClosed \/ pending = <<>>
  BY <1>0, <1>1 DEF WaitInv
<1>2. CASE \E i \in DOMAIN pending :
             IsTop(i) /\ ~Skipped(pending[i]) /\ ~Consumable(pending[i])
  <2>1. PICK i \in DOMAIN pending :
          IsTop(i) /\ ~Skipped(pending[i]) /\ ~Consumable(pending[i])
    BY <1>2
  <2>2. \A j \in DOMAIN pending : pending[j].seq \in Int /\ pending[j].len \in Nat
    BY DEF RcvInv, PendingOfStream, OfStream, Segment
  <2>3. rcvNxt \in Nat
    BY DEF RcvInv, RcvTypeOK
  <2>4. pending[i].seq > rcvNxt
    BY <2>1, <2>2, <2>3 DEF Skipped, Consumable
  <2>5. \A j \in DOMAIN pending : pending[j].seq > rcvNxt
    BY <2>1, <2>2, <2>3, <2>4 DEF IsTop
  <2>6. \A j \in DOMAIN pending : ~Consumable(pending[j])
    BY <2>2, <2>3, <2>5 DEF Consumable
  <2> QED BY <1>0, <2>6 DEF WaitInv, Consumable
<1> QED BY <1>1, <1>2 DEF DrainStop

\* The steps of the worker.
LEMMA WaitWork ==
  ASSUME NEW n \in Nat, RcvInv(n), WaitInv, ReceiverWork
  PROVE  WaitInv'
<1>1. CASE DrainSkip
  BY <1>1 DEF DrainSkip, loopVars, WaitInv
<1>2. CASE DrainConsume
  BY <1>2 DEF DrainConsume, loopVars, WaitInv
<1>3. CASE DrainStop
  BY <1>3, WaitStop
<1>4. CASE EndBatch \/ NonZeroWindow
  BY <1>4 DEF EndBatch, NonZeroWindow, WaitInv, Consumable, loopVars
<1> QED BY <1>1, <1>2, <1>3, <1>4 DEF ReceiverWork

-----------------------------------------------------------------------------
(* The account of the heap. *)

\* f[i] is what the first i segments of q are charged at least: each at its
\* length, which is not zero.
Account(f, q, used) ==
  /\ f \in [0..Len(q) -> Nat]
  /\ f[Len(q)] <= used
  /\ \A i, j \in 0..Len(q) :
       i < j => f[i] + LogicalLen(q[j]) <= f[j] /\ f[i] + (j - i) <= f[j]

AccountInv == Len(pending) <= RcvBufSize /\ \E f : Account(f, pending, pendingBufUsed)

\* The account says what PendingCovered does.
LEMMA AccountCovers ==
  ASSUME NEW n \in Nat, RcvInv(n), AccountInv
  PROVE  PendingCovered
<1>1. PICK f : Account(f, pending, pendingBufUsed)
  BY DEF AccountInv
<1>2. /\ Len(pending) \in Nat /\ DOMAIN pending = 1..Len(pending)
      /\ pendingBufUsed \in Int /\ (pending # <<>> => Len(pending) > 0)
      /\ \A i \in 1..Len(pending) : LogicalLen(pending[i]) \in Nat
  <2>1. pending \in Seq(Segment) /\ pendingBufUsed \in Int
    BY DEF RcvInv, RcvTypeOK
  <2>2. \A i \in 1..Len(pending) : LogicalLen(pending[i]) \in Nat
    BY <2>1 DEF RcvInv, PendingOfStream, OfStream, Segment, LogicalLen
  <2> QED BY <2>1, <2>2
<1>3. \A i \in 0..Len(pending) : f[i] \in Nat
  BY <1>1, <1>2 DEF Account
<1>4. \A i \in 0..Len(pending) : f[i] <= pendingBufUsed
  BY <1>1, <1>2, <1>3 DEF Account
<1>5. pending # <<>> => pendingBufUsed > 0
  <2> SUFFICES ASSUME Len(pending) > 0 PROVE pendingBufUsed > 0
    BY <1>2
  <2>1. f[0] + (Len(pending) - 0) <= f[Len(pending)]
    BY <1>1, <1>2 DEF Account
  <2> QED BY <2>1, <1>2, <1>3, <1>4
<1>6. \A i \in 1..Len(pending) : LogicalLen(pending[i]) <= pendingBufUsed
  <2> TAKE i \in 1..Len(pending)
  <2>1. i - 1 \in 0..Len(pending) /\ i \in 0..Len(pending) /\ i - 1 < i
    BY <1>2
  <2>2. f[i - 1] + LogicalLen(pending[i]) <= f[i]
    BY <1>1, <2>1 DEF Account
  <2> QED BY <2>1, <2>2, <1>2, <1>3, <1>4
<1> QED BY <1>2, <1>5, <1>6 DEF PendingCovered, AccountInv

\* The length with the FIN is a number.
LEMMA LogicalNat ==
  ASSUME NEW s \in Segment
  PROVE  LogicalLen(s) \in Nat
<1>1. s.len \in Nat
  BY DEF Segment
<1> QED BY <1>1 DEF LogicalLen

\* A segment that is added is charged in full.
LEMMA AccountAppend ==
  ASSUME NEW q \in Seq(Segment), NEW used \in Int, NEW f, Account(f, q, used),
         NEW m \in Segment, LogicalLen(m) >= 1
  PROVE  \E g : Account(g, Append(q, m), used + LogicalLen(m))
<1> DEFINE k == Len(q)
           l == LogicalLen(m)
           g == [i \in 0..(k + 1) |-> IF i = k + 1 THEN f[k] + l ELSE f[i]]
           p == Append(q, m)
<1>1. k \in Nat /\ l \in Nat /\ l >= 1
  BY LogicalNat
<1>2. Len(p) = k + 1 /\ p[k + 1] = m /\ \A i \in 1..k : p[i] = q[i]
  BY AppendSeq
<1>3. /\ \A i \in 0..k : f[i] \in Nat
      /\ f[k] <= used
      /\ \A i, j \in 0..k :
           i < j => f[i] + LogicalLen(q[j]) <= f[j] /\ f[i] + (j - i) <= f[j]
  BY <1>1 DEF Account
<1>4. \A i \in 1..k : LogicalLen(q[i]) \in Nat
  BY LogicalNat
<1> HIDE DEF k, l, p
<1>5. (\A i \in 0..k : g[i] = f[i]) /\ g[k + 1] = f[k] + l
  BY <1>1
<1>6. g \in [0..(k + 1) -> Nat]
  BY <1>1, <1>3
<1> HIDE DEF g
<1>7. \A i \in 0..k : f[i] <= f[k]
  BY <1>1, <1>3, <1>4
<1>8. ASSUME NEW i \in 0..(k + 1), NEW j \in 0..(k + 1), i < j
      PROVE  g[i] + LogicalLen(p[j]) <= g[j] /\ g[i] + (j - i) <= g[j]
  <2>1. CASE j = k + 1
    <3>1. i \in 0..k /\ g[i] = f[i] /\ f[i] \in Nat /\ f[i] <= f[k] /\ f[k] \in Nat
      BY <2>1, <1>1, <1>3, <1>5, <1>7, <1>8
    <3>2. LogicalLen(p[j]) = l
      BY <2>1, <1>2 DEF l
    <3>3. f[i] + (k - i) <= f[k]
      BY <3>1, <1>1, <1>3
    <3> QED BY <2>1, <3>1, <3>2, <3>3, <1>1, <1>5
  <2>2. CASE j # k + 1
    <3>1. i \in 0..k /\ j \in 0..k /\ j \in 1..k
      BY <2>2, <1>1, <1>8
    <3> QED BY <3>1, <1>2, <1>3, <1>5, <1>8
  <2> QED BY <2>1, <2>2
<1>9. g[k + 1] <= used + l
  BY <1>1, <1>3, <1>5
<1>10. Account(g, p, used + l)
  BY <1>2, <1>6, <1>8, <1>9 DEF Account
<1> QED BY <1>10 DEF p, l

\* One that is removed is refunded no more than it was charged.
LEMMA AccountRemove ==
  ASSUME NEW q \in Seq(Segment), NEW used \in Int, NEW f, Account(f, q, used),
         NEW k \in 1..Len(q), NEW r \in Int, r <= LogicalLen(q[k])
  PROVE  \E g : Account(g, Without(q, k), used - r)
<1> DEFINE w == Len(q)
           l == LogicalLen(q[k])
           g == [i \in 0..(w - 1) |-> IF i < k THEN f[i] ELSE f[i + 1] - l]
           p == Without(q, k)
<1>1. w \in Nat /\ k \in 1..w
  OBVIOUS
<1>1a. \A i \in 1..w : LogicalLen(q[i]) \in Nat
  BY LogicalNat
<1>2. /\ Len(p) = w - 1
      /\ \A i \in 1..(w - 1) : p[i] = IF i < k THEN q[i] ELSE q[i + 1]
  BY WithoutAt
<1>3. (\A i \in 0..w : f[i] \in Nat) /\ f[w] <= used
  BY <1>1 DEF Account
<1>3a. \A i, j \in 0..w : i < j => f[i] + LogicalLen(q[j]) <= f[j]
  BY DEF Account
<1>3b. \A i, j \in 0..w : i < j => f[i] + (j - i) <= f[j]
  BY DEF Account
<1>4. l \in Nat
  BY <1>1a
<1> HIDE DEF w, l, p
<1>5. \A i \in 0..w : i >= k => f[i] >= l /\ f[k - 1] + l <= f[i]
  <2> TAKE i \in 0..w
  <2> HAVE i >= k
  <2>1. k - 1 \in 0..w /\ k \in 0..w /\ k - 1 < k
    BY <1>1
  <2>2. f[k - 1] + l <= f[k]
    BY <2>1, <1>3a DEF l
  <2>3. f[k] <= f[i]
    <3>1. CASE k < i
      <4>1. f[k] + (i - k) <= f[i]
        BY <3>1, <2>1, <1>3b
      <4>2. f[k] \in Nat /\ f[i] \in Nat
        BY <2>1, <1>3
      <4>3. \A a, b \in Nat, x, y \in 0..w : (a + (x - y) <= b /\ y < x) => a <= b
        BY <1>1
      <4> QED BY <4>1, <4>2, <4>3, <3>1, <2>1, Zenon
    <3>2. CASE ~(k < i)
      <4>1. i = k
        BY <3>2, <1>1
      <4> QED BY <4>1, <2>1, <1>3
    <3> QED BY <3>1, <3>2
  <2>4. f[k - 1] \in Nat /\ f[k] \in Nat /\ f[i] \in Nat
    BY <2>1, <1>3
  <2> QED BY <2>2, <2>3, <2>4, <1>4
<1>6. /\ \A i \in 0..(w - 1) : i < k => g[i] = f[i]
      /\ \A i \in 0..(w - 1) : i >= k => g[i] = f[i + 1] - l
  BY <1>1
<1>7. g \in [0..(w - 1) -> Nat]
  <2> SUFFICES ASSUME NEW i \in 0..(w - 1)
               PROVE  (IF i < k THEN f[i] ELSE f[i + 1] - l) \in Nat
    OBVIOUS
  <2>1. CASE i < k
    BY <2>1, <1>1, <1>3
  <2>2. CASE ~(i < k)
    <3>1. i + 1 \in 0..w /\ i + 1 >= k
      BY <2>2, <1>1
    <3> QED BY <2>2, <3>1, <1>3, <1>4, <1>5
  <2> QED BY <2>1, <2>2
<1> HIDE DEF g
<1>8. ASSUME NEW i \in 0..(w - 1), NEW j \in 0..(w - 1), i < j
      PROVE  g[i] + LogicalLen(p[j]) <= g[j] /\ g[i] + (j - i) <= g[j]
  <2>0. j \in 1..(w - 1) /\ i \in 0..w /\ j \in 0..w /\ i + 1 \in 0..w
        /\ j + 1 \in 0..w /\ j + 1 \in 1..w /\ k \in 0..w /\ k - 1 \in 0..w
    BY <1>1, <1>8
  <2>1. CASE j < k
    <3>1. i < k /\ g[i] = f[i] /\ g[j] = f[j] /\ p[j] = q[j]
      BY <2>0, <2>1, <1>1, <1>2, <1>6, <1>8
    <3> QED BY <3>1, <2>0, <1>3, <1>3a, <1>3b, <1>8
  <2>2. CASE i >= k
    <3>1. g[i] = f[i + 1] - l /\ g[j] = f[j + 1] - l /\ p[j] = q[j + 1]
      <4>1. j >= k /\ ~(j < k)
        BY <2>0, <2>2, <1>1, <1>8
      <4> QED BY <4>1, <2>0, <2>2, <1>2, <1>6
    <3>2. /\ f[i + 1] + LogicalLen(q[j + 1]) <= f[j + 1]
          /\ f[i + 1] + ((j + 1) - (i + 1)) <= f[j + 1]
      BY <2>0, <1>3, <1>3a, <1>3b, <1>8
    <3>3. /\ f[i + 1] \in Nat /\ f[j + 1] \in Nat
          /\ LogicalLen(q[j + 1]) \in Nat
      BY <2>0, <1>1a, <1>3
    <3>4. \A a, b, c, e \in Nat, x, y \in 0..w :
            (a + c <= b /\ a + ((y + 1) - (x + 1)) <= b)
              => ((a - e) + c <= b - e /\ (a - e) + (y - x) <= b - e)
      BY <1>1
    <3>5. /\ (f[i + 1] - l) + LogicalLen(q[j + 1]) <= f[j + 1] - l
          /\ (f[i + 1] - l) + (j - i) <= f[j + 1] - l
      BY <3>2, <3>3, <3>4, <2>0, <1>4, Zenon
    <3> QED BY <3>1, <3>5, Zenon
  <2>3. CASE i < k /\ k <= j
    <3>1. g[i] = f[i] /\ g[j] = f[j + 1] - l /\ p[j] = q[j + 1]
      BY <2>0, <2>3, <1>1, <1>2, <1>6
    <3>2. /\ f[k] + LogicalLen(q[j + 1]) <= f[j + 1]
          /\ f[k] + ((j + 1) - k) <= f[j + 1]
      BY <2>0, <2>3, <1>3a, <1>3b
    <3>3. f[i] + l <= f[k]
      BY <2>0, <2>3, <1>3a DEF l
    <3>4. f[i] + (k - 1 - i) + l <= f[k]
      <4>1. f[k - 1] + l <= f[k]
        BY <2>0, <1>1, <1>3a DEF l
      <4>2. f[i] + (k - 1 - i) <= f[k - 1]
        <5>1. CASE i < k - 1
          BY <5>1, <2>0, <1>3b
        <5>2. CASE ~(i < k - 1)
          <6>1. i = k - 1
            BY <5>2, <2>0, <2>3, <1>1
          <6>2. f[i] \in Nat
            BY <2>0, <1>3
          <6> QED BY <6>1, <6>2, <1>1
        <5> QED BY <5>1, <5>2
      <4>3. f[i] \in Nat /\ f[k - 1] \in Nat /\ f[k] \in Nat
        BY <2>0, <1>3
      <4>4. k \in Int /\ i \in Int
        BY <2>0, <1>1
      <4> QED BY <4>1, <4>2, <4>3, <4>4, <1>4
    <3>5. /\ f[i] \in Nat /\ f[k] \in Nat /\ f[j + 1] \in Nat
          /\ LogicalLen(q[j + 1]) \in Nat
      BY <2>0, <1>1a, <1>3
    <3>6. \A a, b, c, d, e \in Nat, x, y, z \in 0..w :
            (/\ d + c <= b /\ d + ((y + 1) - z) <= b
             /\ a + e <= d /\ a + (z - 1 - x) + e <= d)
              => (a + c <= b - e /\ a + (y - x) <= b - e)
      BY <1>1
    <3>7. /\ f[i] + LogicalLen(q[j + 1]) <= f[j + 1] - l
          /\ f[i] + (j - i) <= f[j + 1] - l
      BY <3>2, <3>3, <3>4, <3>5, <3>6, <2>0, <1>4, Zenon
    <3> QED BY <3>1, <3>7, Zenon
  <2> QED BY <2>1, <2>2, <2>3, <1>1
<1>9. g[w - 1] <= used - r
  <2>1. f[w] \in Nat /\ l \in Nat /\ f[w] <= used /\ r <= l
    <3>1. w \in 0..w
      BY <1>1
    <3> QED BY <3>1, <1>3, <1>4 DEF l
  <2>2. g[w - 1] + l <= f[w]
    <3>1. CASE w - 1 < k
      <4>1. w = k /\ g[w - 1] = f[k - 1]
        BY <3>1, <1>1, <1>6
      <4>2. f[k - 1] + l <= f[k]
        BY <1>1, <1>5
      <4> QED BY <4>1, <4>2, Zenon
    <3>2. CASE ~(w - 1 < k)
      <4>1. w - 1 \in 0..(w - 1) /\ w - 1 >= k /\ (w - 1) + 1 = w
        BY <3>2, <1>1
      <4>2. g[w - 1] = f[(w - 1) + 1] - l
        BY <4>1, <1>6
      <4>3. g[w - 1] = f[w] - l
        BY <4>1, <4>2
      <4> QED BY <4>3, <2>1
    <3> QED BY <3>1, <3>2
  <2>3. g[w - 1] \in Nat
    BY <1>1, <1>7
  <2> QED BY <2>1, <2>2, <2>3
<1>10. Account(g, p, used - r)
  BY <1>2, <1>7, <1>8, <1>9 DEF Account
<1> QED BY <1>10 DEF p

\* An empty heap needs no charge.
LEMMA AccountEmpty ==
  ASSUME NEW used \in Int, used >= 0
  PROVE  \E f : Account(f, <<>>, used)
<1> DEFINE f == [i \in 0..0 |-> 0]
<1>1. Len(<<>>) = 0
  OBVIOUS
<1>2. f \in [0..0 -> Nat] /\ f[0] = 0
  OBVIOUS
<1> HIDE DEF f
<1>3. Account(f, <<>>, used)
  BY <1>1, <1>2 DEF Account
<1> QED BY <1>3

\* What waits is charged no less than it is long, in all and each.
LEMMA AccountBounds ==
  ASSUME NEW n \in Nat, RcvInv(n), AccountInv
  PROVE  /\ pendingBufUsed \in Nat
         /\ \A i \in DOMAIN pending : LogicalLen(pending[i]) <= pendingBufUsed
<1>1. PICK f : Account(f, pending, pendingBufUsed)
  BY DEF AccountInv
<1>2. Len(pending) \in Nat /\ pendingBufUsed \in Int
  BY DEF RcvInv, RcvTypeOK
<1>3. f[Len(pending)] \in Nat /\ f[Len(pending)] <= pendingBufUsed
  BY <1>1, <1>2 DEF Account
<1>4. pendingBufUsed \in Nat
  BY <1>2, <1>3
<1> QED BY <1>4, AccountCovers DEF PendingCovered

\* A segment is added only while there is room.
LEMMA AccountSegment ==
  ASSUME NEW n \in Nat, RcvInv(n), AccountInv, NEW m, RcvHandleSegment(m),
         m.flags = "rst" \/ OfStream(m, n)
  PROVE  AccountInv'
<1>0. pending \in Seq(Segment) /\ pendingBufUsed \in Nat /\ RcvBufSize \in Nat
  BY AccountBounds, ReceiverAssumption DEF RcvInv, RcvTypeOK
<1>1. CASE UNCHANGED <<pending, pendingBufUsed>>
  BY <1>1 DEF AccountInv
<1>2. CASE pending' = <<>> /\ pendingBufUsed' = pendingBufUsed
  <2>1. \E f : Account(f, <<>>, pendingBufUsed)
    BY <1>0, AccountEmpty
  <2>2. Len(<<>>) <= RcvBufSize
    BY <1>0
  <2> QED BY <1>2, <2>1, <2>2 DEF AccountInv
<1>3. CASE /\ OfStream(m, n) /\ (m.len > 0 \/ m.flags = "fin")
           /\ pendingBufUsed < RcvBufSize
           /\ pending' = Append(pending, m)
           /\ pendingBufUsed' = pendingBufUsed + LogicalLen(m)
  <2>1. m \in Segment /\ m.len \in Nat
    BY <1>3 DEF OfStream, Segment
  <2>2. LogicalLen(m) >= 1
    BY <1>3, <2>1 DEF LogicalLen
  <2>3. PICK f : Account(f, pending, pendingBufUsed)
    BY DEF AccountInv
  <2>4. \E g : Account(g, pending', pendingBufUsed')
    BY <1>0, <1>3, <2>1, <2>2, <2>3, AccountAppend
  <2>5. Len(pending') <= RcvBufSize
    <3>1. Len(pending) <= pendingBufUsed
      <4>1. Len(pending) \in Nat
        BY <1>0
      <4>2. f[0] \in Nat /\ f[Len(pending)] \in Nat
            /\ f[Len(pending)] <= pendingBufUsed
        BY <2>3, <4>1 DEF Account
      <4>3. 0 < Len(pending) => f[0] + (Len(pending) - 0) <= f[Len(pending)]
        BY <2>3, <4>1 DEF Account
      <4> QED BY <4>1, <4>2, <4>3, <1>0
    <3>2. Len(pending') = Len(pending) + 1 /\ Len(pending) \in Nat
      BY <1>0, <1>3, <2>1
    <3> QED BY <3>1, <3>2, <1>0, <1>3
  <2> QED BY <2>4, <2>5 DEF AccountInv
<1>4. CASE HandleIgnored(m) \/ HandleReset(m) \/ HandleUnacceptable(m)
  <2>1. UNCHANGED <<pending, pendingBufUsed>>
    BY <1>4 DEF HandleIgnored, HandleReset, HandleUnacceptable, segVars
  <2> QED BY <2>1, <1>1
<1>5. CASE HandleInOrder(m)
  <2>1. pending' \in {<<>>, pending} /\ pendingBufUsed' = pendingBufUsed
    BY <1>5 DEF HandleInOrder
  <2> QED BY <2>1, <1>1, <1>2
<1>6. CASE HandleOutOfOrder(m)
  <2>1. m.flags # "rst"
    BY <1>6 DEF HandleOutOfOrder
  <2> QED BY <2>1, <1>1, <1>3, <1>6 DEF HandleOutOfOrder
<1> QED BY <1>4, <1>5, <1>6 DEF RcvHandleSegment

\* The loop over the heap removes segments.
LEMMA AccountWork ==
  ASSUME NEW n \in Nat, RcvInv(n), AccountInv, ReceiverWork
  PROVE  AccountInv'
<1>0. pending \in Seq(Segment) /\ pendingBufUsed \in Nat /\ RcvBufSize \in Nat
  BY AccountBounds, ReceiverAssumption DEF RcvInv, RcvTypeOK
<1>1. ASSUME NEW i \in DOMAIN pending, NEW r \in Int,
             r <= LogicalLen(pending[i]),
             pending' = Without(pending, i), pendingBufUsed' = pendingBufUsed - r
      PROVE  AccountInv'
  <2>1. PICK f : Account(f, pending, pendingBufUsed)
    BY DEF AccountInv
  <2>2. i \in 1..Len(pending)
    BY <1>0
  <2>3. \E g : Account(g, pending', pendingBufUsed')
    BY <1>0, <1>1, <2>1, <2>2, AccountRemove
  <2>4. Len(pending') = Len(pending) - 1 /\ Len(pending) \in Nat
    BY <1>0, <1>1, <2>2, WithoutAt
  <2> QED BY <2>3, <2>4, <1>0 DEF AccountInv
<1>2. CASE DrainSkip
  <2>1. PICK i \in DOMAIN pending :
          /\ pending' = Without(pending, i)
          /\ pendingBufUsed' = pendingBufUsed - LogicalLen(pending[i])
    BY <1>2 DEF DrainSkip
  <2>2. LogicalLen(pending[i]) \in Nat
    BY <1>0, LogicalNat
  <2> QED BY <2>1, <2>2, <1>1
<1>3. CASE DrainConsume
  <2>1. PICK i \in DOMAIN pending :
          /\ Consumable(pending[i])
          /\ pending' \in {<<>>, Without(pending, i)}
          /\ pendingBufUsed' = pendingBufUsed - LogicalLen(Trimmed(pending[i]))
    BY <1>3 DEF DrainConsume
  <2> DEFINE s == pending[i]
             r == LogicalLen(Trimmed(s))
  <2>2. OfStream(s, n) /\ s \in Segment /\ RcvTypeOK
    BY DEF RcvInv, PendingOfStream, OfStream
  <2>3. /\ OfStream(Trimmed(s), n) /\ Trimmed(s).seq = rcvNxt
        /\ SegEnd(Trimmed(s)) = SegEnd(s)
    BY <2>1, <2>2, TrimmedOfStream
  <2>4. r \in Nat /\ LogicalLen(s) \in Nat
    BY <2>2, <2>3, LogicalNat DEF OfStream
  <2>5. s.seq <= rcvNxt /\ s.seq \in Int /\ rcvNxt \in Int
    BY <2>1, <2>2 DEF Consumable, OfStream, Segment, RcvTypeOK
  <2>6. r <= LogicalLen(s)
    <3> DEFINE l == LogicalLen(s)
    <3>1. rcvNxt + r = s.seq + l
      BY <2>3 DEF SegEnd
    <3> HIDE DEF r, l
    <3>2. r \in Nat /\ l \in Nat
      BY <2>4 DEF l
    <3>3. r <= l
      BY <3>1, <3>2, <2>5
    <3> QED BY <3>3 DEF l
  <2>7. LogicalLen(s) <= pendingBufUsed
    BY AccountBounds
  <2> HIDE DEF r
  <2>8. CASE pending' = <<>>
    <3>1. pendingBufUsed' = pendingBufUsed - r
      BY <2>1 DEF r
    <3>2. pendingBufUsed' \in Int /\ pendingBufUsed' >= 0
      BY <3>1, <2>4, <2>6, <2>7, <1>0
    <3>3. \E f : Account(f, <<>>, pendingBufUsed')
      BY <3>2, AccountEmpty
    <3>4. Len(<<>>) <= RcvBufSize
      BY <1>0
    <3> QED BY <2>8, <3>3, <3>4 DEF AccountInv
  <2>9. CASE pending' = Without(pending, i)
    <3>1. pendingBufUsed' = pendingBufUsed - r /\ r \in Int
      BY <2>1, <2>4 DEF r
    <3> QED BY <2>6, <2>9, <3>1, <1>1
  <2> QED BY <2>1, <2>8, <2>9
<1>4. CASE DrainStop \/ EndBatch \/ NonZeroWindow
  BY <1>4 DEF DrainStop, EndBatch, NonZeroWindow, AccountInv, segVars
<1> QED BY <1>2, <1>3, <1>4 DEF ReceiverWork

-----------------------------------------------------------------------------
(* A window that has reopened is announced. *)

\* When the last ack is for all that was consumed, as it is whenever the
\* worker waits, a window that is open and was announced as closed has a
\* notification.
ReopenInv ==
  /\ maxSentAck <= rcvNxt
  /\ rcvPc = "idle" => rcvNxt = maxSentAck
  /\ (rcvNxt = maxSentAck /\ ~ZeroWindow(rcvBufUsed) /\ Scaled(rcvAcc - rcvNxt) = 0)
       => notifyNonZero

\* A number of units is none exactly if it is less than one unit.
LEMMA UnitFacts ==
  ASSUME NEW w \in Nat
  PROVE  /\ (w \div WndUnit = 0) <=> w < WndUnit
         /\ Scaled(w) = 0 => w \div WndUnit = 0
<1>1. WndUnit \in Nat /\ WndUnit > 0
  BY ReceiverAssumption
<1>2. \A u \in Nat \ {0}, x \in Nat : (x \div u = 0) <=> x < u
  BY SMTT(30)
<1>3. w \div WndUnit \in Nat
  BY <1>1, SMTT(30)
<1>4. \A u \in Nat \ {0}, d \in Nat : d * u = 0 => d = 0
  BY SMTT(30)
<1> QED BY <1>1, <1>2, <1>3, <1>4 DEF Scaled

\* An ack announces all that is free, so nothing is left to announce.
LEMMA ReopenAcked ==
  ASSUME RcvTypeOK, NEW nxt \in Nat, NEW used \in Int, SendAck(nxt, used)
  PROVE  maxSentAck' = nxt /\ (Scaled(rcvAcc' - nxt) = 0 => ZeroWindow(used))
<1> DEFINE a == Available(used)
           w == rcvAcc' - nxt
<1>1. a \in Nat
  BY ReceiverAssumption DEF Available, MaxOf
<1> HIDE DEF a
<1>2. w \in Nat /\ a <= w /\ maxSentAck' = nxt
  BY <1>1 DEF SendAck, MaxOf, RcvTypeOK, a
<1> HIDE DEF w
<1>3. Scaled(w) = 0 => w < WndUnit
  BY <1>2, UnitFacts
<1>4. Scaled(w) = 0 => a < WndUnit
  BY <1>1, <1>2, <1>3, ReceiverAssumption
<1>5. Scaled(w) = 0 => a \div WndUnit = 0
  BY <1>1, <1>4, UnitFacts
<1> QED BY <1>2, <1>5 DEF a, w, ZeroWindow

\* So a step that ends with an ack leaves nothing to announce.
LEMMA ReopenByAck ==
  ASSUME RcvTypeOK, RcvTypeOK', SendAck(rcvNxt', rcvBufUsed')
  PROVE  ReopenInv'
<1>1. /\ maxSentAck' = rcvNxt'
      /\ Scaled(rcvAcc' - rcvNxt') = 0 => ZeroWindow(rcvBufUsed')
  BY ReopenAcked DEF RcvTypeOK
<1>2. (ZeroWindow(rcvBufUsed))' <=> ZeroWindow(rcvBufUsed')
  BY DEF ZeroWindow, Available
<1>3. (Scaled(rcvAcc - rcvNxt))' = Scaled(rcvAcc' - rcvNxt')
  BY DEF Scaled
<1>4. rcvNxt' \in Nat
  BY DEF RcvTypeOK
<1> QED BY <1>1, <1>2, <1>3, <1>4 DEF ReopenInv

\* Nothing that the announcement depends on changes.
LEMMA ReopenSame ==
  ASSUME ReopenInv, UNCHANGED <<rcvNxt, rcvAcc, maxSentAck, rcvBufUsed>>,
         notifyNonZero' = notifyNonZero,
         rcvPc' = "idle" => rcvNxt = maxSentAck
  PROVE  ReopenInv'
  BY DEF ReopenInv, ZeroWindow, Available, Scaled

\* A segment with data makes an ack due; one without changes nothing.
LEMMA ReopenConsume ==
  ASSUME NEW n \in Nat, RcvInv(n), RcvInv(n)', ReopenInv, ~rcvClosed, NEW s,
         OfStream(s, n), Consumable(s), Consume(s),
         notifyNonZero' = notifyNonZero, rcvPc' # "idle"
  PROVE  ReopenInv'
<1> DEFINE t == Trimmed(s)
<1>1. OfStream(t, n) /\ t.seq = rcvNxt /\ t.flags = s.flags
  BY TrimmedOfStream DEF RcvInv
<1>2. /\ rcvNxt' = SegEnd(t) /\ rcvBufUsed' = rcvBufUsed + t.len
      /\ IF s.flags = "fin" THEN SendAck(SegEnd(t), rcvBufUsed + t.len)
                            ELSE UNCHANGED <<rcvAcc, maxSentAck, acks>>
  BY DEF Consume
<1> HIDE DEF t
<1>3. RcvTypeOK /\ RcvTypeOK' /\ t.len \in Nat /\ rcvNxt \in Nat /\ maxSentAck \in Nat
      /\ rcvBufUsed \in Int
  BY <1>1 DEF RcvInv, RcvTypeOK, OfStream, Segment
<1>4. CASE s.flags = "fin"
  BY <1>2, <1>3, <1>4, ReopenByAck
<1>5. CASE s.flags # "fin"
  <2>1. rcvNxt' = rcvNxt + t.len
    BY <1>1, <1>2, <1>3, <1>5 DEF SegEnd, LogicalLen
  <2>2. UNCHANGED <<rcvAcc, maxSentAck>>
    BY <1>2, <1>5
  <2>3. maxSentAck <= rcvNxt
    BY DEF ReopenInv
  <2>4. CASE t.len = 0
    <3>1. UNCHANGED <<rcvNxt, rcvAcc, maxSentAck, rcvBufUsed>>
      BY <2>1, <2>2, <2>4, <1>2, <1>3
    <3> QED BY <3>1, ReopenSame
  <2>5. CASE t.len # 0
    <3>1. maxSentAck' <= rcvNxt' /\ rcvNxt' # maxSentAck'
      BY <2>1, <2>2, <2>3, <2>5, <1>3
    <3> QED BY <3>1 DEF ReopenInv
  <2> QED BY <2>4, <2>5
<1> QED BY <1>4, <1>5

\* The steps of the worker, and Read.
LEMMA ReopenSegment ==
  ASSUME NEW n \in Nat, RcvInv(n), ReopenInv, NEW m, RcvHandleSegment(m),
         m.flags = "rst" \/ OfStream(m, n)
  PROVE  ReopenInv'
<1>0. RcvInv(n)'
  BY InvSegment
<1>1. CASE HandleIgnored(m) \/ HandleReset(m)
  <2>1. /\ UNCHANGED <<rcvNxt, rcvAcc, maxSentAck, rcvBufUsed>>
        /\ notifyNonZero' = notifyNonZero /\ rcvPc' # "idle"
    BY <1>1 DEF HandleIgnored, HandleReset, segVars, readVars
  <2> QED BY <2>1, ReopenSame
<1>2. CASE HandleUnacceptable(m)
  <2>1. SendAck(rcvNxt', rcvBufUsed')
    BY <1>2 DEF HandleUnacceptable, readVars
  <2> QED BY <2>1, <1>0, ReopenByAck DEF RcvInv
<1>3. CASE HandleInOrder(m)
  <2>1. /\ m.flags # "rst" /\ ~rcvClosed /\ Consumable(m) /\ Consume(m)
        /\ notifyNonZero' = notifyNonZero /\ rcvPc' # "idle"
    BY <1>3 DEF HandleInOrder
  <2> QED BY <2>1, <1>0, ReopenConsume
<1>4. CASE HandleOutOfOrder(m)
  <2>1. CASE SendAck(rcvNxt', rcvBufUsed')
    BY <2>1, <1>0, ReopenByAck DEF RcvInv
  <2>2. CASE UNCHANGED <<rcvNxt, rcvAcc, maxSentAck, rcvBufUsed>>
    BY <2>2, <1>4, ReopenSame DEF HandleOutOfOrder, readVars
  <2> QED BY <2>1, <2>2, <1>4 DEF HandleOutOfOrder, readVars
<1> QED BY <1>1, <1>2, <1>3, <1>4 DEF RcvHandleSegment

LEMMA ReopenWork ==
  ASSUME NEW n \in Nat, RcvInv(n), ReopenInv, ReceiverWork
  PROVE  ReopenInv'
<1>0. RcvInv(n)'
  BY InvWork
<1>1. CASE DrainSkip \/ DrainStop
  <2>1. /\ UNCHANGED <<rcvNxt, rcvAcc, maxSentAck, rcvBufUsed>>
        /\ notifyNonZero' = notifyNonZero /\ rcvPc' # "idle"
    BY <1>1 DEF DrainSkip, DrainStop, segVars, readVars, loopVars
  <2> QED BY <2>1, ReopenSame
<1>2. CASE DrainConsume
  <2>1. PICK i \in DOMAIN pending :
          /\ ~rcvClosed /\ Consumable(pending[i]) /\ Consume(pending[i])
          /\ notifyNonZero' = notifyNonZero /\ rcvPc' # "idle"
    BY <1>2 DEF DrainConsume, loopVars
  <2>2. OfStream(pending[i], n)
    BY DEF RcvInv, PendingOfStream
  <2> QED BY <2>1, <2>2, <1>0, ReopenConsume
<1>3. CASE EndBatch
  <2>1. CASE SendAck(rcvNxt', rcvBufUsed')
    BY <2>1, <1>0, ReopenByAck DEF RcvInv
  <2>2. CASE rcvNxt = maxSentAck /\ UNCHANGED <<rcvAcc, maxSentAck, acks>>
    BY <2>2, <1>3, ReopenSame DEF EndBatch, readVars
  <2> QED BY <2>1, <2>2, <1>3 DEF EndBatch, readVars
<1>4. CASE NonZeroWindow
  <2>0. UNCHANGED <<rcvNxt, rcvBufUsed, rcvPc>>
    BY <1>4 DEF NonZeroWindow, loopVars
  <2>1. CASE SendAck(rcvNxt', rcvBufUsed')
    BY <2>1, <1>0, ReopenByAck DEF RcvInv
  <2>2. CASE /\ UNCHANGED <<rcvAcc, maxSentAck, acks>>
             /\ rcvAcc < rcvNxt \/ (rcvAcc - rcvNxt) \div WndUnit # 0
    <3>1. rcvAcc \in Nat /\ rcvNxt \in Nat
      BY DEF RcvInv, RcvTypeOK
    <3>2. Scaled(rcvAcc - rcvNxt) # 0
      <4>1. CASE rcvNxt <= rcvAcc
        <5>1. rcvAcc - rcvNxt \in Nat /\ (rcvAcc - rcvNxt) \div WndUnit # 0
          BY <4>1, <2>2, <3>1
        <5> QED BY <5>1, UnitFacts
      <4>2. CASE rcvAcc < rcvNxt
        <5> DEFINE d == rcvAcc - rcvNxt
        <5>1. d \in Int /\ d < 0
          BY <4>2, <3>1
        <5> HIDE DEF d
        <5>2. \A u \in Nat \ {0}, x \in Int : x < 0 => (x \div u) * u # 0
          BY SMTT(30)
        <5>3. Scaled(d) # 0
          BY <5>1, <5>2, ReceiverAssumption DEF Scaled
        <5> QED BY <5>3 DEF d
      <4> QED BY <4>1, <4>2, <3>1
    <3>3. (Scaled(rcvAcc - rcvNxt))' = Scaled(rcvAcc - rcvNxt)
      BY <2>0, <2>2 DEF Scaled
    <3>4. maxSentAck' <= rcvNxt' /\ (rcvPc' = "idle" => rcvNxt' = maxSentAck')
      BY <2>0, <2>2 DEF ReopenInv
    <3> QED BY <3>2, <3>3, <3>4 DEF ReopenInv
  <2> QED BY <2>0, <2>1, <2>2, <1>4 DEF NonZeroWindow
<1> QED BY <1>1, <1>2, <1>3, <1>4 DEF ReceiverWork

LEMMA ReopenRead ==
  ASSUME ReopenInv, Read
  PROVE  ReopenInv'
<1>1. /\ UNCHANGED <<rcvNxt, rcvAcc, maxSentAck, rcvPc>>
      /\ notifyNonZero' = (notifyNonZero
                             \/ (ZeroWindow(rcvBufUsed) /\ ~ZeroWindow(rcvBufUsed')))
  BY DEF Read, segVars, loopVars
<1>2. (ZeroWindow(rcvBufUsed))' <=> ZeroWindow(rcvBufUsed')
  BY DEF ZeroWindow, Available
<1>3. (Scaled(rcvAcc - rcvNxt))' = Scaled(rcvAcc - rcvNxt)
  BY <1>1 DEF Scaled
<1> QED BY <1>1, <1>2, <1>3 DEF ReopenInv

-----------------------------------------------------------------------------
(* The receiver facing any peer. *)

\* The invariant with the parts that speak of the heap and the window.
AnyStreamInv == RcvInv(StreamLen) /\ WaitInv /\ AccountInv /\ ReopenInv

\* Every step keeps it: the peer chooses which segment of the stream comes.
LEMMA AnyStreamInductive ==
  AnyStreamInv /\ [AnyStreamNext]_rcvVars => AnyStreamInv'
<1> SUFFICES ASSUME AnyStreamInv, [AnyStreamNext]_rcvVars PROVE AnyStreamInv'
  OBVIOUS
<1>0. /\ StreamLen \in Nat /\ RcvInv(StreamLen) /\ RcvTypeOK
      /\ WaitInv /\ AccountInv /\ ReopenInv
  BY StreamAssumption DEF AnyStreamInv, RcvInv
<1>1. RcvInv(StreamLen)'
  BY <1>0, InvNext
<1>2. CASE PeerSends \/ PeerResets
  <2>1. PICK m : RcvHandleSegment(m) /\ (m.flags = "rst" \/ OfStream(m, StreamLen))
    BY <1>2, PeerSendsStream DEF PeerSends, PeerResets, ResetSegments
  <2>2. WaitInv' /\ AccountInv' /\ ReopenInv'
    BY <2>1, <1>0, WaitSegment, AccountSegment, ReopenSegment
  <2> QED BY <1>1, <2>2 DEF AnyStreamInv
<1>3. CASE ReceiverWork
  BY <1>0, <1>1, <1>3, WaitWork, AccountWork, ReopenWork DEF AnyStreamInv
<1>4. CASE Read
  <2>1. WaitInv' /\ AccountInv'
    BY <1>0, <1>4 DEF Read, WaitInv, AccountInv, Consumable, segVars, loopVars
  <2> QED BY <1>0, <1>1, <1>4, <2>1, ReopenRead DEF AnyStreamInv
<1>5. CASE AckLeaves \/ UNCHANGED rcvVars
  <2>1. UNCHANGED <<segVars, maxSentAck, loopVars, readVars>>
    BY <1>5 DEF AckLeaves, rcvVars
  <2>2. WaitInv' /\ AccountInv'
    BY <1>0, <2>1 DEF WaitInv, AccountInv, Consumable, segVars, loopVars
  <2>3. ReopenInv'
    <3>1. rcvPc' = "idle" => rcvNxt = maxSentAck
      BY <1>0, <2>1 DEF ReopenInv, loopVars
    <3> QED BY <1>0, <2>1, <3>1, ReopenSame DEF segVars, readVars
  <2> QED BY <1>1, <2>2, <2>3 DEF AnyStreamInv
<1> QED BY <1>2, <1>3, <1>4, <1>5 DEF AnyStreamNext

\* A fresh receiver.
LEMMA AnyStreamInit == RcvInit => AnyStreamInv
<1> SUFFICES ASSUME RcvInit PROVE AnyStreamInv
  OBVIOUS
<1>1. RcvInv(StreamLen)
  BY InvInit, StreamAssumption
<1>2. WaitInv
  BY DEF RcvInit, WaitInv
<1>3. AccountInv
  <2>1. Len(pending) <= RcvBufSize
    <3>1. Len(pending) = 0
      BY DEF RcvInit
    <3> QED BY <3>1, ReceiverAssumption
  <2>2. \E f : Account(f, <<>>, 0)
    BY AccountEmpty
  <2> QED BY <2>1, <2>2 DEF RcvInit, AccountInv
<1>4. ReopenInv
  <2>1. maxSentAck = 1 /\ rcvNxt = 1 /\ rcvAcc = 1 + RcvBufSize /\ rcvBufUsed = 0
    BY DEF RcvInit
  <2>2. rcvAcc - rcvNxt = RcvBufSize /\ RcvBufSize \in Nat
    BY <2>1, ReceiverAssumption
  <2>3. Available(rcvBufUsed) = RcvBufSize
    BY <2>1, <2>2 DEF Available, MaxOf
  <2>4. Scaled(rcvAcc - rcvNxt) = 0 => ZeroWindow(rcvBufUsed)
    BY <2>2, <2>3, UnitFacts DEF ZeroWindow
  <2> QED BY <2>1, <2>4 DEF ReopenInv
<1> QED BY <1>1, <1>2, <1>3, <1>4 DEF AnyStreamInv

LEMMA AnyStreamInvariant == AnyStreamSpec => []AnyStreamInv
BY AnyStreamInit, AnyStreamInductive, PTL DEF AnyStreamSpec

\* The receiver's variables keep their types, the buffer counters integers
\* and the number expected a natural number (rcv.go, endpoint.go).
THEOREM ReceiverType == AnyStreamSpec => []RcvTypeOK
<1>1. AnyStreamInv => RcvTypeOK
  BY DEF AnyStreamInv, RcvInv
<1> QED BY <1>1, AnyStreamInvariant, PTL

\* What the application reads is a prefix of the stream, for every peer and
\* network (consumeSegment, the pending heap).
THEOREM ReceiverInOrder == AnyStreamSpec => []InOrder
<1>1. AnyStreamInv => InOrder
  BY DEF AnyStreamInv, RcvInv
<1> QED BY <1>1, AnyStreamInvariant, PTL

\* What is acknowledged is what was delivered: the next number expected is
\* the one after the last byte delivered, or after the FIN.
THEOREM ReceiverAckMatchesData == AnyStreamSpec => []AckMatchesData
<1>1. AnyStreamInv => AckMatchesData
  BY DEF AnyStreamInv, RcvInv
<1> QED BY <1>1, AnyStreamInvariant, PTL

\* The end of the stream is reported only after its last byte.
THEOREM ReceiverClosedAtEnd == AnyStreamSpec => []ClosedAtEnd
<1>1. AnyStreamInv => ClosedAtEnd
  BY DEF AnyStreamInv, RcvInv, Within, ClosedAtEnd
<1> QED BY <1>1, AnyStreamInvariant, PTL

\* Once a batch has been handled no segment waits that is next in the stream:
\* the loop over the heap leaves nothing behind (handleRcvdSegment).
THEOREM ReceiverLeavesNothing == AnyStreamSpec => []NothingLeftWaiting
<1>1. AnyStreamInv => NothingLeftWaiting
  BY DEF AnyStreamInv, WaitInv, NothingLeftWaiting
<1> QED BY <1>1, AnyStreamInvariant, PTL

\* The account of the heap covers what is in it, however often segments
\* overlap and are trimmed, so that the buffer bounds the heap (rcv.go:154).
THEOREM ReceiverPendingCovered == AnyStreamSpec => []PendingCovered
<1>1. AnyStreamInv => PendingCovered
  BY AccountCovers, StreamAssumption DEF AnyStreamInv
<1> QED BY <1>1, AnyStreamInvariant, PTL

\* A reader that frees a buffer whose window was announced as closed never
\* leaves the peer without a notification on its way (rcv.go:62,
\* endpoint.go:776).
THEOREM ReceiverWindowReopens == AnyStreamSpec => []WindowReopens
<1>1. AnyStreamInv => WindowReopens
  BY DEF AnyStreamInv, ReopenInv, WindowReopens
<1> QED BY <1>1, AnyStreamInvariant, PTL
=============================================================================
