------------------------------ MODULE TcpSender ------------------------------
(***************************************************************************)
(* The sending half of an established TCP endpoint: tcp/snd.go with Reno   *)
(* (tcp/reno.go), and the parts of tcp/endpoint.go and tcp/connect.go that *)
(* feed it (Write, Shutdown, handleWrite, handleClose).                    *)
(*                                                                         *)
(* The worker goroutine runs one handler at a time under workMu.  A        *)
(* handler with a loop is a sequence of steps: sndPc says where the worker *)
(* is, and no other handler of this endpoint starts before it is back at   *)
(* "idle".  Write and Shutdown run in the application's goroutine and only *)
(* share the send queue (sndBufMu) and the wakers with the worker.         *)
(*                                                                         *)
(* Time is left out: the retransmission timer may fire whenever it is      *)
(* enabled, and `rto` counts the doublings since the last RTT measurement. *)
(* Timestamps and keepalive are off, as in a fresh endpoint.               *)
(***************************************************************************)
EXTENDS TcpSegment, FiniteSets

CONSTANTS
  StreamBound,      \* bound: bytes the application writes in all
  MaxWrite,         \* bound: bytes of one Write
  MaxPayload,       \* sender.maxPayloadSize of newSender
  PathPayloads,     \* what a path may turn out to carry: payload, 1 at least
  MaxTooBig,        \* bound: "packet too big" messages in all
  SndBufSize,       \* endpoint.sndBufSize
  InitialWnd,       \* the window of the handshake
  InitialCwnd,      \* snd.go:16
  InitialSsthresh,  \* math.MaxInt64 in newSender
  DupAckThreshold,  \* nDupAckThreshold
  MaxBackoff        \* doublings of rto that reach 60 seconds

ASSUME SenderAssumption ==
  /\ StreamBound \in Nat /\ MaxWrite \in Nat \ {0}
  /\ MaxPayload \in Nat \ {0} /\ PathPayloads \subseteq Nat \ {0}
  /\ MaxTooBig \in Nat /\ SndBufSize \in Nat \ {0}
  /\ InitialWnd \in Nat /\ InitialCwnd \in Nat \ {0}
  /\ InitialSsthresh \in Nat \ {0} /\ DupAckThreshold \in Nat \ {0}
  /\ MaxBackoff \in Nat

VARIABLES
  \* shared with the application, under sndBufMu
  sndQueue,     \* chunks written, not yet taken by the worker
  sndBufInQueue,\* their logical length
  sndBufUsed,   \* bytes charged to the send buffer
  sndClosed,    \* the application has shut the write side down
  written,      \* bytes the application has written: the stream so far
  sndWaker,     \* handleWrite is owed
  sndCloseWaker,\* handleClose is owed
  \* the worker's sender
  writeList, writeNext, sndUna, sndNxt, sndNxtList, sndWnd, sndDone,
  outstanding,
  cc,           \* [cwnd, ssthresh, caCount]
  fr,           \* fastRecovery
  dupAckCount,
  rto, rttMeasureSeqNum, resendTimer,
  maxPayloadSize,
  packetTooBigCount, sndMTU,  \* messages not yet looked at, and their least
  tooBigs,      \* history: how many there were in all
  sndPc,        \* "idle", "pop", "send" or "dead"
  job,          \* locals of handleRcvdSegment: [acked, left, orig, rtx]
  \* segments on their way to the receiver
  wire

appVars  == <<sndQueue, sndBufInQueue, sndClosed, written, sndWaker,
              sndCloseWaker>>
listVars == <<writeList, writeNext, sndNxtList>>
ackVars  == <<sndUna, sndWnd, sndBufUsed>>
ccVars   == <<outstanding, cc, fr, dupAckCount>>
rtoVars  == <<rto, rttMeasureSeqNum, resendTimer>>
mtuVars  == <<maxPayloadSize, packetTooBigCount, sndMTU, tooBigs>>
fixedVars == <<sndDone, mtuVars>>
sndState == <<appVars, listVars, ackVars, ccVars, rtoVars, sndNxt, fixedVars,
              sndPc, job>>
sndVars  == <<sndState, wire>>

NoJob == [acked |-> 0, left |-> 0, orig |-> 0, rtx |-> FALSE]

\* newSender, with iss = 0.
SndInit ==
  /\ sndQueue = <<>> /\ sndBufInQueue = 0 /\ sndBufUsed = 0
  /\ sndClosed = FALSE /\ written = 0
  /\ sndWaker = FALSE /\ sndCloseWaker = FALSE
  /\ writeList = <<>> /\ writeNext = 1
  /\ sndUna = 1 /\ sndNxt = 1 /\ sndNxtList = 1
  /\ sndWnd = InitialWnd /\ sndDone = FALSE
  /\ outstanding = 0 /\ dupAckCount = 0
  /\ cc = [cwnd |-> InitialCwnd, ssthresh |-> InitialSsthresh, caCount |-> 0]
  /\ fr = [active |-> FALSE, first |-> 0, last |-> 0, maxCwnd |-> 0]
  /\ rto = 0 /\ rttMeasureSeqNum = 1 /\ resendTimer = FALSE
  /\ maxPayloadSize = MaxPayload
  /\ packetTooBigCount = 0 /\ sndMTU = MaxPayload /\ tooBigs = 0
  /\ sndPc = "idle" /\ job = NoJob
  /\ wire = {}

-----------------------------------------------------------------------------
(* The application. *)

\* Write: at most what is free in the send buffer is taken; the writer then
\* runs handleWrite itself (TryLock) or wakes the worker, so handleWrite is
\* owed either way.
Write(n) ==
  /\ ~sndClosed /\ sndPc # "dead"
  /\ n <= SndBufSize - sndBufUsed
  /\ written + n <= StreamBound
  /\ sndQueue' = Append(sndQueue, [seq |-> 0, off |-> written + 1, len |-> n,
                                   flags |-> "none"])
  /\ sndBufInQueue' = sndBufInQueue + n
  /\ sndBufUsed' = sndBufUsed + n
  /\ written' = written + n
  /\ sndWaker' = TRUE
  /\ UNCHANGED <<sndClosed, sndCloseWaker, listVars, sndUna, sndWnd, ccVars,
                 rtoVars, sndNxt, fixedVars, sndPc, job, wire>>

\* Mistake: the FIN is queued without a length.
ShutdownUncounted ==
  /\ ~sndClosed /\ sndPc # "dead"
  /\ sndQueue' = Append(sndQueue, [seq |-> 0, off |-> written + 1, len |-> 0,
                                   flags |-> "none"])
  /\ sndClosed' = TRUE
  /\ sndCloseWaker' = TRUE
  /\ UNCHANGED <<written, sndBufInQueue, sndWaker, listVars, ackVars, ccVars,
                 rtoVars, sndNxt, fixedVars, sndPc, job, wire>>

\* Shutdown of the write side queues a segment without payload, the FIN.
ShutdownWrite ==
  /\ ~sndClosed /\ sndPc # "dead"
  /\ sndQueue' = Append(sndQueue, [seq |-> 0, off |-> written + 1, len |-> 0,
                                   flags |-> "none"])
  /\ sndBufInQueue' = sndBufInQueue + 1
  /\ sndClosed' = TRUE
  /\ sndCloseWaker' = TRUE
  /\ UNCHANGED <<written, sndWaker, listVars, ackVars, ccVars, rtoVars,
                 sndNxt, fixedVars, sndPc, job, wire>>

-----------------------------------------------------------------------------
(* Congestion control: Reno. *)

ReduceSlowStartThreshold(c) ==
  [c EXCEPT !.ssthresh = MaxOf(outstanding \div 2, 2)]

UpdateSlowStart(c, n) ==
  IF c.cwnd + n >= c.ssthresh
  THEN [c EXCEPT !.cwnd = c.ssthresh, !.caCount = 0]
  ELSE [c EXCEPT !.cwnd = @ + n]

UpdateCongestionAvoidance(c, n) ==
  LET count == c.caCount + n
      cwnd  == c.cwnd + count \div c.cwnd
  IN  IF count >= c.cwnd
      THEN [c EXCEPT !.cwnd = cwnd, !.caCount = count % cwnd]
      ELSE [c EXCEPT !.caCount = count]

\* renoState.Update: n packets were acknowledged.
RenoUpdate(c, n) ==
  IF c.cwnd >= c.ssthresh
  THEN UpdateCongestionAvoidance(c, n)
  ELSE LET slow == UpdateSlowStart(c, n)
           left == n - (slow.cwnd - c.cwnd)
       IN  IF left = 0 THEN slow ELSE UpdateCongestionAvoidance(slow, left)

\* sendData first shrinks cwnd when nothing was sent for longer than rto;
\* time is left out, so it may or may not.
AfterIdle(c, recovering) ==
  IF recovering THEN {c}
  ELSE {c, [c EXCEPT !.cwnd = MinOf(@, InitialCwnd)]}

\* Mistake: fast recovery is never left.
LeftStillActive == [fr EXCEPT !.first = 0, !.last = sndNxt - 1]

\* leaveFastRecovery and enterFastRecovery.
Left    == [active |-> FALSE, first |-> 0, last |-> sndNxt - 1, maxCwnd |-> 0]
Entered(c) == [active |-> TRUE, first |-> sndUna, last |-> sndNxt - 1,
               maxCwnd |-> c.cwnd + outstanding]

\* A segment that may count as a duplicate ack: it carries no data (the
\* other direction is idle) and does not change the window.
SameWindow(wnd) == wnd = sndWnd

\* checkDuplicateAck: what becomes of <<cc, fr, dupAckCount>> and whether
\* the first unacknowledged segment is to be retransmitted.
CheckDuplicateAck(ack, wnd) ==
  LET keep == [cc |-> cc, fr |-> fr, dup |-> dupAckCount, rtx |-> FALSE]
      lost == ReduceSlowStartThreshold(cc)
      infl == [lost EXCEPT !.cwnd = lost.ssthresh + 3]
  IN
  IF fr.active
  THEN IF ~(sndUna <= ack /\ ack <= sndNxt) THEN keep
       ELSE IF fr.last < ack
       THEN [keep EXCEPT !.cc = [cc EXCEPT !.cwnd = cc.ssthresh],
                         !.fr = Left, !.dup = 0]
       ELSE IF ~SameWindow(wnd) THEN keep
       ELSE IF ack = fr.first
       THEN [keep EXCEPT !.cc = IF cc.cwnd < fr.maxCwnd
                                THEN [cc EXCEPT !.cwnd = @ + 1] ELSE cc]
       ELSE [keep EXCEPT !.fr = [fr EXCEPT !.first = ack], !.dup = 0,
                         !.rtx = TRUE]
  ELSE IF ack # sndUna \/ ~SameWindow(wnd) \/ ack = sndNxt
       THEN [keep EXCEPT !.dup = 0]
       ELSE IF dupAckCount + 1 < DupAckThreshold
       THEN [keep EXCEPT !.dup = dupAckCount + 1]
       ELSE IF ~(fr.last < ack)
       THEN [keep EXCEPT !.dup = 0]
       ELSE [cc |-> infl, fr |-> Entered(infl), dup |-> 0, rtx |-> TRUE]

-----------------------------------------------------------------------------
(* The worker. *)

\* handleWrite: the queue moves to the write list.  writeNext is an index
\* into the list; nil is the index after the last, so the first segment
\* appended becomes the next one to write.
TakeQueue ==
  /\ writeList' = writeList \o sndQueue
  /\ sndNxtList' = sndNxtList + sndBufInQueue
  /\ sndQueue' = <<>> /\ sndBufInQueue' = 0
  /\ cc' \in AfterIdle(cc, fr.active)
  /\ sndPc' = "send"
  /\ UNCHANGED <<sndClosed, written, writeNext, ackVars, outstanding, fr,
                 dupAckCount, rtoVars, sndNxt, job, wire>>

HandleWrite ==
  /\ sndPc = "idle" /\ sndWaker
  /\ sndWaker' = FALSE
  /\ TakeQueue
  /\ UNCHANGED <<sndCloseWaker, fixedVars>>

HandleClose ==
  /\ sndPc = "idle" /\ sndCloseWaker
  /\ sndCloseWaker' = FALSE
  /\ sndDone' = TRUE
  /\ TakeQueue
  /\ UNCHANGED <<sndWaker, mtuVars>>

\* Mistake: an ack that was overtaken is taken again.
AckedAgain(ack) == ack <= sndNxt

\* (ack - 1).InRange(sndUna, sndNxt).
NewlyAcked(ack) == sndUna < ack /\ ack <= sndNxt

\* handleRcvdSegment, up to the loop that removes acknowledged segments.
SndHandleSegment(ack, wnd) ==
  /\ sndPc = "idle"
  /\ IF rttMeasureSeqNum < ack
     THEN rto' = 0 /\ rttMeasureSeqNum' = sndNxt
     ELSE UNCHANGED <<rto, rttMeasureSeqNum>>
  /\ LET d   == CheckDuplicateAck(ack, wnd)
         new == NewlyAcked(ack)
         n   == IF new THEN ack - sndUna ELSE 0
     IN  /\ cc' = d.cc /\ fr' = d.fr
         /\ dupAckCount' = IF new THEN 0 ELSE d.dup
         /\ resendTimer' = IF new THEN FALSE ELSE resendTimer
         /\ sndUna' = IF new THEN ack ELSE sndUna
         /\ job' = [acked |-> n, left |-> n, orig |-> outstanding,
                    rtx |-> d.rtx]
  /\ sndWnd' = wnd
  /\ sndPc' = "pop"
  /\ UNCHANGED <<appVars, listVars, sndBufUsed, outstanding, sndNxt, fixedVars,
                 wire>>

\* Mistake: what leaves the list stays counted as outstanding.
PopStillOutstanding ==
  /\ sndPc = "pop" /\ job.left > 0 /\ writeList # <<>>
  /\ LogicalLen(Head(writeList)) <= job.left
  /\ writeList' = Tail(writeList)
  /\ writeNext' = MaxOf(writeNext - 1, 1)
  /\ job' = [job EXCEPT !.left = @ - LogicalLen(Head(writeList))]
  /\ UNCHANGED <<appVars, sndNxtList, ackVars, ccVars, rtoVars, sndNxt,
                 fixedVars, sndPc, wire>>

\* One iteration: a segment that is wholly acknowledged leaves the list.
PopAcked ==
  /\ sndPc = "pop" /\ job.left > 0 /\ writeList # <<>>
  /\ LogicalLen(Head(writeList)) <= job.left
  /\ writeList' = Tail(writeList)
  /\ writeNext' = MaxOf(writeNext - 1, 1)
  /\ outstanding' = outstanding - 1
  /\ job' = [job EXCEPT !.left = @ - LogicalLen(Head(writeList))]
  /\ UNCHANGED <<appVars, sndNxtList, ackVars, cc, fr, dupAckCount, rtoVars,
                 sndNxt, fixedVars, sndPc, wire>>

\* resendSegment: the first segment of the list goes out again.
Resend(list) ==
  IF list = <<>> THEN UNCHANGED wire ELSE wire' = wire \cup {Head(list)}

\* The end of handleRcvdSegment: a segment acknowledged in part loses its
\* front, the send buffer and the congestion window are updated, the fast
\* retransmission is done and sendData is called.
AckDone ==
  /\ sndPc = "pop"
  /\ job.left = 0 \/ (writeList # <<>>
                       /\ LogicalLen(Head(writeList)) > job.left)
  /\ writeList' = IF job.left = 0 THEN writeList
                  ELSE [writeList EXCEPT ![1] = TrimFront(@, job.left)]
  /\ sndBufUsed' = sndBufUsed - job.acked
  /\ outstanding' = MaxOf(outstanding, 0)
  /\ cc' \in AfterIdle(IF job.acked > 0 /\ ~fr.active
                       THEN RenoUpdate(cc, job.orig - outstanding) ELSE cc,
                       fr.active)
  /\ IF job.rtx
     THEN Resend(writeList') /\ rttMeasureSeqNum' = sndNxt
     ELSE UNCHANGED <<wire, rttMeasureSeqNum>>
  /\ sndPc' = "send" /\ job' = NoJob
  /\ UNCHANGED <<appVars, writeNext, sndNxtList, sndUna, sndWnd, fr,
                 dupAckCount, rto, resendTimer, sndNxt, fixedVars>>

\* The segment the loop of sendData looks at, numbered if it is new.
Numbered(s) == IF s.flags = "none"
               THEN [s EXCEPT !.seq = sndNxt, !.flags = "data"] ELSE s

WindowEnd == sndUna + sndWnd

\* Mistake: the rest is lost.
SplitDropsRest(list, i, s, n) ==
  [list EXCEPT ![i] = IF s.len > n THEN [s EXCEPT !.len = n] ELSE s]

\* A segment larger than what may be sent is cut in two.
SplitAt(list, i, s, n) ==
  SubSeq(list, 1, i - 1)
    \o (IF s.len > n THEN <<[s EXCEPT !.len = n],
                            [TrimFront(s, n) EXCEPT !.seq = @ + n]>>
                     ELSE <<s>>)
    \o SubSeq(list, i + 1, Len(list))

\* An iteration of sendData that sends data.
SendData ==
  /\ sndPc = "send" /\ writeNext <= Len(writeList)
  /\ outstanding < cc.cwnd
  /\ LET s    == Numbered(writeList[writeNext])
         n    == MinOf(WindowEnd - s.seq, maxPayloadSize)
         list == SplitAt(writeList, writeNext, s, n)
         out  == list[writeNext]
     IN  /\ s.len > 0 /\ s.seq < WindowEnd
         /\ writeList' = list
         /\ wire' = wire \cup {out}
         /\ sndNxt' = MaxOf(sndNxt, out.seq + out.len)
  /\ outstanding' = outstanding + 1
  /\ writeNext' = writeNext + 1
  /\ UNCHANGED <<appVars, sndNxtList, ackVars, cc, fr, dupAckCount, rtoVars,
                 fixedVars, sndPc, job>>

\* Mistake: the FIN takes no sequence number.
SendFinUnnumbered ==
  /\ sndPc = "send" /\ writeNext <= Len(writeList)
  /\ outstanding < cc.cwnd
  /\ LET s == [Numbered(writeList[writeNext]) EXCEPT !.flags = "fin"]
     IN  /\ s.len = 0
         /\ writeList' = [writeList EXCEPT ![writeNext] = s]
         /\ wire' = wire \cup {s}
  /\ writeNext' = writeNext + 1
  /\ UNCHANGED <<appVars, sndNxtList, ackVars, ccVars, rtoVars, sndNxt,
                 fixedVars, sndPc, job>>

\* An iteration of sendData that sends the FIN, whatever the window.
SendFin ==
  /\ sndPc = "send" /\ writeNext <= Len(writeList)
  /\ outstanding < cc.cwnd
  /\ LET s == [Numbered(writeList[writeNext]) EXCEPT !.flags = "fin"]
     IN  /\ s.len = 0
         /\ writeList' = [writeList EXCEPT ![writeNext] = s]
         /\ wire' = wire \cup {s}
         /\ sndNxt' = MaxOf(sndNxt, s.seq + 1)
  /\ writeNext' = writeNext + 1
  /\ UNCHANGED <<appVars, sndNxtList, ackVars, ccVars, rtoVars, fixedVars,
                 sndPc, job>>

\* Mistake: the timer is armed for what is counted as outstanding, and a FIN
\* is not.
TimerIfOutstanding == resendTimer \/ outstanding > 0

\* The timer runs while something is unacknowledged.
TimerWanted == resendTimer \/ sndUna # sndNxt

\* sendData leaves its loop: the list, the congestion window or the send
\* window is exhausted.
SendStop ==
  /\ sndPc = "send"
  /\ \/ /\ writeNext > Len(writeList) \/ outstanding >= cc.cwnd
        /\ UNCHANGED writeList
     \/ /\ writeNext <= Len(writeList) /\ outstanding < cc.cwnd
        /\ LET s == Numbered(writeList[writeNext])
           IN  /\ s.len > 0 /\ s.seq >= WindowEnd
               /\ writeList' = [writeList EXCEPT ![writeNext] = s]
  /\ resendTimer' = TimerWanted
  /\ sndPc' = "idle"
  /\ UNCHANGED <<appVars, writeNext, sndNxtList, ackVars, ccVars, rto,
                 rttMeasureSeqNum, sndNxt, fixedVars, job, wire>>

\* retransmitTimerExpired: everything unacknowledged is to be sent again.
RetransmitTimerExpired ==
  /\ sndPc = "idle" /\ resendTimer /\ rto < MaxBackoff
  /\ resendTimer' = FALSE
  /\ rto' = rto + 1
  /\ fr' = [fr EXCEPT !.active = FALSE, !.last = sndNxt - 1,
                      !.first = IF fr.active THEN 0 ELSE @,
                      !.maxCwnd = IF fr.active THEN 0 ELSE @]
  /\ dupAckCount' = IF fr.active THEN 0 ELSE dupAckCount
  /\ cc' = [ReduceSlowStartThreshold(cc) EXCEPT !.cwnd = 1]
  /\ outstanding' = 0
  /\ writeNext' = 1
  /\ sndPc' = "send"
  /\ UNCHANGED <<appVars, writeList, sndNxtList, ackVars, rttMeasureSeqNum,
                 sndNxt, fixedVars, job, wire>>

\* retransmitTimerExpired gives up: the connection is reset.
GiveUp ==
  /\ sndPc = "idle" /\ resendTimer /\ rto >= MaxBackoff
  /\ resendTimer' = FALSE
  /\ wire' = wire \cup {[seq |-> sndUna, off |-> 0, len |-> 0,
                         flags |-> "rst"]}
  /\ sndPc' = "dead"
  /\ UNCHANGED <<appVars, listVars, ackVars, ccVars, rto, rttMeasureSeqNum,
                 sndNxt, fixedVars, job>>

-----------------------------------------------------------------------------
(* The path MTU.  Headers and options are left out: an MTU is the payload  *)
(* that it leaves.                                                         *)

\* HandleControlPacket: a router drops a segment and says what it could have
\* carried.
HandleControlPacket(s, m) ==
  /\ sndPc # "dead" /\ tooBigs < MaxTooBig
  /\ s \in wire /\ s.len > m
  /\ wire' = wire \ {s}
  /\ packetTooBigCount' = packetTooBigCount + 1
  /\ sndMTU' = MinOf(sndMTU, m)
  /\ tooBigs' = tooBigs + 1
  /\ UNCHANGED <<appVars, listVars, ackVars, ccVars, rtoVars, sndNxt, sndDone,
                 maxPayloadSize, sndPc, job>>

\* Mistake: the messages have been counted, but nothing is sent again.
NotRewound(m) == writeNext' = writeNext

\* writeNext goes back to the first segment that is too long, if one has been
\* sent.
Rewound(m) ==
  /\ writeNext' \in 1..writeNext
  /\ \A i \in 1..(writeNext' - 1) : writeList[i].len <= m
  /\ writeNext' < writeNext => writeList[writeNext'].len > m

\* The worker handles notifyMTUChanged: updateMaxPayloadSize and sendData.
MtuShrinks ==
  /\ sndPc = "idle" /\ packetTooBigCount > 0 /\ sndMTU < maxPayloadSize
  /\ maxPayloadSize' = sndMTU
  /\ outstanding' = MaxOf(outstanding - packetTooBigCount, 0)
  /\ Rewound(sndMTU)
  /\ packetTooBigCount' = 0
  /\ cc' \in AfterIdle(cc, fr.active)
  /\ sndPc' = "send"
  /\ UNCHANGED <<appVars, writeList, sndNxtList, ackVars, fr, dupAckCount,
                 rtoVars, sndNxt, sndDone, sndMTU, tooBigs, job, wire>>

\* It is already as small as that.
MtuKnown ==
  /\ sndPc = "idle" /\ packetTooBigCount > 0 /\ sndMTU >= maxPayloadSize
  /\ packetTooBigCount' = 0
  /\ UNCHANGED <<appVars, listVars, ackVars, ccVars, rtoVars, sndNxt, sndDone,
                 maxPayloadSize, sndMTU, tooBigs, sndPc, job, wire>>

\* The steps a worker that has begun a handler has yet to take.
SenderWork == \/ HandleWrite \/ HandleClose
              \/ PopAcked \/ AckDone
              \/ SendData \/ SendFin \/ SendStop
=============================================================================
