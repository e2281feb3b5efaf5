--------------------------- MODULE TcpSenderAnyPeer ---------------------------
(***************************************************************************)
(* The sender of TcpSender.tla facing any peer: acks carry any number up   *)
(* to one past what was sent and any window, in any order, and the peer    *)
(* may ack part of a segment and shrink its window.                        *)
(***************************************************************************)
EXTENDS TcpSender

CONSTANTS
  Windows,     \* bound: the windows the peer announces
  WholeAcks    \* the peer acks whole segments only, as this stack does

ASSUME PeerAssumption == Windows \subseteq Nat /\ WholeAcks \in BOOLEAN

AnyWrite == \E n \in 1..MaxWrite : Write(n)

\* The numbers at which a segment on the write list ends.
Boundaries == {SegEnd(writeList[i]) : i \in {j \in DOMAIN writeList :
                                               writeList[j].flags # "none"}}

PeerAcks ==
  \E ack \in 0..(sndNxt + 1), wnd \in Windows :
    /\ WholeAcks => (ack \in Boundaries \/ ack <= sndUna \/ ack > sndNxt)
    /\ SndHandleSegment(ack, wnd)

\* What is sent leaves; the peer's answers are arbitrary anyway.
SegmentLeaves == \E m \in wire : wire' = wire \ {m} /\ UNCHANGED sndState

\* A router on the way cannot carry it.
PathNarrows == \E m \in wire, p \in PathPayloads : HandleControlPacket(m, p)

AnyPeerNext ==
  \/ AnyWrite \/ ShutdownWrite \/ SenderWork \/ PeerAcks
  \/ PathNarrows \/ MtuShrinks \/ MtuKnown
  \/ RetransmitTimerExpired \/ GiveUp \/ SegmentLeaves

AnyPeerSpec == SndInit /\ [][AnyPeerNext]_sndVars

-----------------------------------------------------------------------------
\* Whenever the worker waits for an event with something unacknowledged, the
\* retransmission timer runs (sendData, snd.go:314).
TimerArmed == (sndPc = "idle" /\ sndUna # sndNxt) => resendTimer

\* A worker that waits with unsent segments and nothing in flight waits for
\* the peer's window and for nothing else: the congestion window never
\* stalls a sender that has nothing in flight.  The exception is a path that
\* has narrowed: what is sent again for it is counted twice (see the README).
StallsOnlyOnWindow ==
  (sndPc = "idle" /\ writeNext <= Len(writeList) /\ sndUna = sndNxt
    /\ tooBigs = 0) => sndWnd = 0

\* Nothing longer than the path carries is taken for sent: once the worker
\* knows the path, each such segment has yet to go out in pieces, whatever
\* acks, timeouts and further messages come (snd.go:205).
LongIsSentAgain ==
  \A i \in 1..(writeNext - 1) :
    i \in DOMAIN writeList => writeList[i].len <= maxPayloadSize

\* Fast recovery is left by the ack that covers its range (snd.go:556).
RecoveryEnds == fr.active => (sndUna <= fr.last /\ fr.last < sndNxt)

\* No byte of the stream is dropped before it is acknowledged, nor kept
\* longer: the write list and the queue after it hold what was written from
\* the first unacknowledged byte on, each byte once and in order, and the
\* send buffer is charged for just that.  So the worker never panics: an ack
\* that is taken finds its segments on the list (snd.go:395), a segment
\* without payload is the last one and only such a segment is a FIN
\* (snd.go:256, 265).
Unacked == writeList \o sndQueue

NothingForgotten ==
  /\ \A i \in 1..(Len(Unacked) - 1) :
       Unacked[i + 1].off = Unacked[i].off + Unacked[i].len
  /\ IF Unacked = <<>> THEN sndUna - job.left > written
     ELSE /\ Unacked[1].off = sndUna - job.left
          /\ Unacked[Len(Unacked)].off + Unacked[Len(Unacked)].len = written + 1
  /\ sndBufUsed = written + 1 - sndUna + job.acked
  /\ sndUna <= sndNxt /\ sndNxt <= sndNxtList
  /\ (sndPc = "pop" /\ job.left > 0) => writeList # <<>>
  /\ \A i \in DOMAIN writeList :
       /\ writeList[i].len = 0 => i = Len(writeList)
       /\ writeList[i].flags = "fin" => writeList[i].len = 0

\* What goes out under a sequence number is the stream's data at that
\* number; a retransmission resends "the first segment that was not acked"
\* (snd.go:506).
WellLabelled == \A m \in wire : m.flags = "data" => m.off = m.seq
=============================================================================
