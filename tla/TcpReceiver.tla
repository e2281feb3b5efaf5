----------------------------- MODULE TcpReceiver -----------------------------
(***************************************************************************)
(* The receiving half of an established TCP endpoint: tcp/rcv.go, the      *)
(* receive list of tcp/endpoint.go (readyToRead, Read, the window          *)
(* computations) and the loop of handleSegments in tcp/connect.go.         *)
(*                                                                         *)
(* handleSegments takes a batch of segments from the queue and ends with   *)
(* one cumulative ack.  rcvPc is "batch" between two segments of a batch   *)
(* and "drain" in the loop that consumes the segments that were waiting    *)
(* for a gap to close.  Read runs in the application's goroutine and       *)
(* shares the receive list with the worker, under rcvListMu.               *)
(*                                                                         *)
(* A segment reaches the worker when it is dequeued; a segment lost in the *)
(* network and one refused by a full segmentQueue look the same.           *)
(***************************************************************************)
EXTENDS TcpSegment, FiniteSets

CONSTANTS
  RcvBufSize,         \* endpoint.rcvBufSize, also the first window
  WndUnit,            \* 2^rcvWndScale
  MaxSegmentsPerWake, \* connect.go
  AckCap              \* bound: acks in flight; a further one is lost

ASSUME ReceiverAssumption ==
  /\ RcvBufSize \in Nat \ {0} /\ WndUnit \in Nat \ {0}
  /\ MaxSegmentsPerWake \in Nat \ {0} /\ AckCap \in Nat

VARIABLES
  rcvNxt, rcvAcc, rcvClosed,
  pending,         \* pendingRcvdSegments, a heap on seq
  pendingBufUsed,
  maxSentAck,      \* sender.maxSentAck of the same endpoint
  rcvPc,           \* "idle", "batch", "drain" or "dead"
  rcvBatch,        \* segments of this batch so far
  \* shared with the application, under rcvListMu
  rcvList,         \* lengths of the views waiting to be read
  rcvBufUsed,
  rcvd,            \* every byte ever put in the receive list, in order
  notifyNonZero,   \* notifyNonZeroReceiveWindow is posted
  \* acknowledgements on their way back, [ack, wnd], oldest first
  acks

segVars  == <<rcvNxt, rcvAcc, rcvClosed, pending, pendingBufUsed>>
loopVars == <<rcvPc, rcvBatch>>
readVars == <<rcvList, rcvBufUsed, rcvd, notifyNonZero>>
rcvVars  == <<segVars, maxSentAck, loopVars, readVars, acks>>

\* newReceiver, with irs = 0.
RcvInit ==
  /\ rcvNxt = 1 /\ rcvAcc = 1 + RcvBufSize /\ rcvClosed = FALSE
  /\ pending = <<>> /\ pendingBufUsed = 0
  /\ maxSentAck = 1 /\ rcvPc = "idle" /\ rcvBatch = 0
  /\ rcvList = <<>> /\ rcvBufUsed = 0 /\ rcvd = <<>>
  /\ notifyNonZero = FALSE
  /\ acks = <<>>

-----------------------------------------------------------------------------
(* Windows. *)

\* receiveBufferAvailable, when `used` bytes are in the receive list.
Available(used) == MaxOf(RcvBufSize - used, 0)

\* zeroReceiveWindow.
ZeroWindow(used) == Available(used) \div WndUnit = 0

\* The window that is sent: shifted right by the scale, and left again by
\* the peer.
Scaled(w) == (w \div WndUnit) * WndUnit

\* acceptable.  The size of the window is the unsigned difference
\* rcvAcc - rcvNxt, so if rcvNxt is ever past rcvAcc the window is all but
\* the numbers between them.
InWindow(v) == IF rcvNxt <= rcvAcc THEN rcvNxt <= v /\ v < rcvAcc
               ELSE v < rcvAcc \/ rcvNxt <= v

Acceptable(seq, len) ==
  IF rcvAcc = rcvNxt THEN len = 0 /\ seq = rcvNxt
  ELSE InWindow(seq) \/ (rcvNxt < seq + len /\ seq < rcvAcc)

\* Mistake: the ack covers what waits beyond a gap.
SendAckAll(nxt, used) ==
  /\ rcvAcc' = MaxOf(rcvAcc, nxt + Available(used))
  /\ maxSentAck' = nxt
  /\ acks' = IF Len(acks) < AckCap
             THEN Append(acks, [ack |-> nxt + pendingBufUsed,
                                wnd |-> Scaled(rcvAcc' - nxt)])
             ELSE acks

\* Mistake: the window is measured from the ack before.
SendAckWide(nxt, used) ==
  /\ rcvAcc' = MaxOf(rcvAcc, nxt + Available(used))
  /\ maxSentAck' = nxt
  /\ acks' = IF Len(acks) < AckCap
             THEN Append(acks, [ack |-> nxt, wnd |-> Scaled(rcvAcc' - maxSentAck)])
             ELSE acks

\* sendAck, with getSendParams, when the next number expected is nxt and
\* `used` bytes are buffered.
SendAck(nxt, used) ==
  /\ rcvAcc' = MaxOf(rcvAcc, nxt + Available(used))
  /\ maxSentAck' = nxt
  /\ acks' = IF Len(acks) < AckCap
             THEN Append(acks, [ack |-> nxt, wnd |-> Scaled(rcvAcc' - nxt)])
             ELSE acks

-----------------------------------------------------------------------------
(* Consuming a segment. *)

\* Mistake: a segment without payload fits anywhere.
ConsumableIfEmpty(s) ==
  s.len = 0 \/ (s.seq <= rcvNxt /\ rcvNxt < s.seq + s.len)

\* consumeSegment's test: the segment is next in the stream.
Consumable(s) ==
  IF s.len > 0 THEN s.seq <= rcvNxt /\ rcvNxt < s.seq + s.len
               ELSE s.seq = rcvNxt

\* Mistake: the tail is dropped instead of the front.
TrimmedAtEnd(s) ==
  IF s.len > 0 THEN [s EXCEPT !.len = @ - (rcvNxt - s.seq), !.seq = rcvNxt]
               ELSE s

\* consumeSegment's trim: the bytes already received are dropped.
Trimmed(s) ==
  IF s.len > 0 THEN [TrimFront(s, rcvNxt - s.seq) EXCEPT !.seq = rcvNxt]
               ELSE s

Bytes(s) == [i \in 1..s.len |-> s.off + i - 1]

\* consumeSegment, for a segment that passed the test.  A FIN is acked at
\* once and closes the receiver.
Consume(s) ==
  LET t    == Trimmed(s)
      fin  == s.flags = "fin"
      used == rcvBufUsed + t.len
  IN  /\ rcvNxt' = SegEnd(t)
      /\ rcvBufUsed' = used
      /\ rcvList' = IF t.len > 0 THEN Append(rcvList, t.len) ELSE rcvList
      /\ rcvd' = rcvd \o Bytes(t)
      /\ rcvClosed' = fin
      /\ IF fin THEN SendAck(SegEnd(t), used)
                ELSE UNCHANGED <<rcvAcc, maxSentAck, acks>>

\* A segment of the queue is handled; the batch goes on after it.
NextOfBatch ==
  /\ rcvPc \in {"idle", "batch"} /\ rcvBatch < MaxSegmentsPerWake
  /\ rcvBatch' = rcvBatch + 1

\* A reset that is not acceptable, and anything after the FIN, is dropped.
HandleIgnored(m) ==
  /\ NextOfBatch
  /\ IF m.flags = "rst" THEN ~Acceptable(m.seq, 0) ELSE rcvClosed
  /\ rcvPc' = "batch"
  /\ UNCHANGED <<segVars, maxSentAck, readVars, acks>>

\* An acceptable reset ends the connection.
HandleReset(m) ==
  /\ NextOfBatch
  /\ m.flags = "rst" /\ Acceptable(m.seq, 0)
  /\ rcvPc' = "dead"
  /\ UNCHANGED <<segVars, maxSentAck, readVars, acks>>

\* A segment out of the window is answered with an ack.
HandleUnacceptable(m) ==
  /\ NextOfBatch
  /\ m.flags # "rst" /\ ~rcvClosed /\ ~Acceptable(m.seq, m.len)
  /\ SendAck(rcvNxt, rcvBufUsed)
  /\ rcvPc' = "batch"
  /\ UNCHANGED <<rcvNxt, rcvClosed, pending, pendingBufUsed, readVars>>

\* Mistake: the segments that waited are not looked at.
InOrderWithoutDrain(m) ==
  /\ NextOfBatch
  /\ m.flags # "rst" /\ ~rcvClosed /\ Acceptable(m.seq, m.len)
  /\ Consumable(m)
  /\ Consume(m)
  /\ pending' = IF rcvClosed' THEN <<>> ELSE pending
  /\ rcvPc' = "batch"
  /\ UNCHANGED <<pendingBufUsed, notifyNonZero>>

\* A segment that is next in the stream is consumed, and then those that
\* were waiting for it.
HandleInOrder(m) ==
  /\ NextOfBatch
  /\ m.flags # "rst" /\ ~rcvClosed /\ Acceptable(m.seq, m.len)
  /\ Consumable(m)
  /\ Consume(m)
  /\ pending' = IF rcvClosed' THEN <<>> ELSE pending
  /\ rcvPc' = IF rcvClosed' THEN "batch" ELSE "drain"
  /\ UNCHANGED <<pendingBufUsed, notifyNonZero>>

\* Mistake: a FIN that waits is charged nothing.
OutOfOrderUncharged(m) ==
  /\ NextOfBatch
  /\ m.flags # "rst" /\ ~rcvClosed /\ Acceptable(m.seq, m.len)
  /\ ~Consumable(m)
  /\ m.len > 0 \/ m.flags = "fin"
  /\ IF pendingBufUsed < RcvBufSize
     THEN /\ pending' = Append(pending, m)
          /\ pendingBufUsed' = pendingBufUsed + m.len
     ELSE UNCHANGED <<pending, pendingBufUsed>>
  /\ SendAck(rcvNxt, rcvBufUsed)
  /\ rcvPc' = "batch"
  /\ UNCHANGED <<rcvNxt, rcvClosed, readVars>>

\* A segment beyond a gap waits if there is room, and is answered with a
\* duplicate ack.
HandleOutOfOrder(m) ==
  /\ NextOfBatch
  /\ m.flags # "rst" /\ ~rcvClosed /\ Acceptable(m.seq, m.len)
  /\ ~Consumable(m)
  /\ IF m.len > 0 \/ m.flags = "fin"
     THEN /\ IF pendingBufUsed < RcvBufSize
             THEN /\ pending' = Append(pending, m)
                  /\ pendingBufUsed' = pendingBufUsed + LogicalLen(m)
             ELSE UNCHANGED <<pending, pendingBufUsed>>
          /\ SendAck(rcvNxt, rcvBufUsed)
     ELSE UNCHANGED <<pending, pendingBufUsed, rcvAcc, maxSentAck, acks>>
  /\ rcvPc' = "batch"
  /\ UNCHANGED <<rcvNxt, rcvClosed, readVars>>

RcvHandleSegment(m) == \/ HandleIgnored(m) \/ HandleReset(m)
                       \/ HandleUnacceptable(m)
                       \/ HandleInOrder(m) \/ HandleOutOfOrder(m)

\* The top of the heap: a segment with the least sequence number.
IsTop(i) == \A j \in DOMAIN pending : pending[i].seq <= pending[j].seq

\* The test of the draining loop for a segment that was acknowledged while
\* it waited.
Skipped(s) == s.seq + s.len - 1 < rcvNxt

Without(q, i) == SubSeq(q, 1, i - 1) \o SubSeq(q, i + 1, Len(q))

DrainSkip ==
  /\ rcvPc = "drain" /\ ~rcvClosed
  /\ \E i \in DOMAIN pending :
       /\ IsTop(i) /\ Skipped(pending[i])
       /\ pending' = Without(pending, i)
       /\ pendingBufUsed' = pendingBufUsed - LogicalLen(pending[i])
  /\ UNCHANGED <<rcvNxt, rcvAcc, rcvClosed, maxSentAck, loopVars, readVars,
                 acks>>

DrainConsume ==
  /\ rcvPc = "drain" /\ ~rcvClosed
  /\ \E i \in DOMAIN pending :
       /\ IsTop(i) /\ ~Skipped(pending[i]) /\ Consumable(pending[i])
       /\ Consume(pending[i])
       /\ pending' = IF rcvClosed' THEN <<>> ELSE Without(pending, i)
       /\ pendingBufUsed' = pendingBufUsed - LogicalLen(Trimmed(pending[i]))
  /\ UNCHANGED <<loopVars, notifyNonZero>>

DrainStop ==
  /\ rcvPc = "drain"
  /\ \/ rcvClosed
     \/ pending = <<>>
     \/ \E i \in DOMAIN pending :
          IsTop(i) /\ ~Skipped(pending[i]) /\ ~Consumable(pending[i])
  /\ rcvPc' = "batch"
  /\ UNCHANGED <<segVars, maxSentAck, rcvBatch, readVars, acks>>

\* The end of handleSegments: one ack for all that was processed.
EndBatch ==
  /\ rcvPc = "batch"
  /\ IF rcvNxt # maxSentAck THEN SendAck(rcvNxt, rcvBufUsed)
                            ELSE UNCHANGED <<rcvAcc, maxSentAck, acks>>
  /\ rcvPc' = "idle" /\ rcvBatch' = 0
  /\ UNCHANGED <<rcvNxt, rcvClosed, pending, pendingBufUsed, readVars>>

\* Mistake: the test is the wrong way round.
NonZeroWindowInverted ==
  /\ rcvPc = "idle" /\ notifyNonZero
  /\ notifyNonZero' = FALSE
  /\ IF (rcvAcc - rcvNxt) \div WndUnit = 0
     THEN UNCHANGED <<rcvAcc, maxSentAck, acks>>
     ELSE SendAck(rcvNxt, rcvBufUsed)
  /\ UNCHANGED <<rcvNxt, rcvClosed, pending, pendingBufUsed, loopVars,
                 rcvList, rcvBufUsed, rcvd>>

\* nonZeroWindow, when the worker sees the notification: a window that was
\* not announced as zero needs no announcement.
NonZeroWindow ==
  /\ rcvPc = "idle" /\ notifyNonZero
  /\ notifyNonZero' = FALSE
  /\ IF rcvAcc < rcvNxt \/ (rcvAcc - rcvNxt) \div WndUnit # 0
     THEN UNCHANGED <<rcvAcc, maxSentAck, acks>>
     ELSE SendAck(rcvNxt, rcvBufUsed)
  /\ UNCHANGED <<rcvNxt, rcvClosed, pending, pendingBufUsed, loopVars,
                 rcvList, rcvBufUsed, rcvd>>

\* Mistake: the window counts as open again from its first byte.
ReadUnscaled ==
  /\ rcvList # <<>>
  /\ LET used == rcvBufUsed - Head(rcvList)
     IN  /\ rcvBufUsed' = used
         /\ notifyNonZero' = (notifyNonZero \/ (/\ Available(rcvBufUsed) = 0
                                                /\ Available(used) > 0))
  /\ rcvList' = Tail(rcvList)
  /\ UNCHANGED <<segVars, maxSentAck, loopVars, rcvd, acks>>

\* Read takes the first view of the list and notifies the worker if that
\* opened the window.
Read ==
  /\ rcvList # <<>>
  /\ LET used == rcvBufUsed - Head(rcvList)
     IN  /\ rcvBufUsed' = used
         /\ notifyNonZero' = (notifyNonZero
                                \/ (ZeroWindow(rcvBufUsed)
                                      /\ ~ZeroWindow(used)))
  /\ rcvList' = Tail(rcvList)
  /\ UNCHANGED <<segVars, maxSentAck, loopVars, rcvd, acks>>

ReceiverWork == \/ DrainSkip \/ DrainConsume \/ DrainStop
                \/ EndBatch \/ NonZeroWindow

RcvTypeOK ==
  /\ rcvNxt \in Nat /\ rcvAcc \in Nat /\ rcvClosed \in BOOLEAN
  /\ pending \in Seq(Segment) /\ pendingBufUsed \in Int
  /\ maxSentAck \in Nat
  /\ rcvPc \in {"idle", "batch", "drain", "dead"}
  /\ rcvBatch \in 0..MaxSegmentsPerWake
  /\ rcvList \in Seq(Nat) /\ rcvBufUsed \in Int /\ rcvd \in Seq(Int)
  /\ notifyNonZero \in BOOLEAN
  /\ acks \in Seq([ack : Nat, wnd : Nat])
=============================================================================
