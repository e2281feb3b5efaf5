-------------------------- MODULE TcpReceiverAnyPeer --------------------------
(***************************************************************************)
(* The receiver of TcpReceiver.tla facing any peer that sends one stream:  *)
(* the peer may cut the stream into segments as it likes, and differently  *)
(* each time, put the FIN on a segment with data, ignore the window, and   *)
(* the network may lose, repeat and reorder.  Nothing is assumed but that  *)
(* the bytes of a segment are those its sequence number says, and that the *)
(* FIN is where the stream ends.                                           *)
(***************************************************************************)
EXTENDS TcpReceiver

CONSTANTS
  StreamLen,   \* bytes of the stream
  Resets       \* the peer may also send a reset

ASSUME StreamAssumption == StreamLen \in Nat /\ Resets \in BOOLEAN

\* Every segment of the stream, with and without data.
DataSegments ==
  { s \in [seq : 1..(StreamLen + 1), off : 1..(StreamLen + 1),
           len : 0..StreamLen, flags : {"data", "fin"}] :
      /\ s.off = s.seq
      /\ s.seq + s.len <= StreamLen + 1
      /\ s.flags = "fin" => s.seq + s.len = StreamLen + 1 }

\* Resets, in the window and outside of it.
ResetSegments ==
  IF Resets THEN [seq : 1..(StreamLen + 2), off : {0}, len : {0}, flags : {"rst"}]
  ELSE {}

PeerSends == \E m \in DataSegments : RcvHandleSegment(m)
PeerResets == \E m \in ResetSegments : RcvHandleSegment(m)

\* The acks leave; what the peer makes of them is its own affair.
AckLeaves == /\ acks # <<>> /\ acks' = Tail(acks)
             /\ UNCHANGED <<segVars, maxSentAck, loopVars, readVars>>

AnyStreamNext == PeerSends \/ PeerResets \/ AckLeaves \/ ReceiverWork \/ Read

AnyStreamSpec == RcvInit /\ [][AnyStreamNext]_rcvVars

-----------------------------------------------------------------------------
\* What is put in the receive list is a prefix of the stream: no gap, no
\* repetition, no byte out of place, whatever segments arrive and in
\* whatever order (consumeSegment and the draining of the pending heap).
InOrder == rcvd = [i \in 1..Len(rcvd) |-> i]

\* The next number expected is the one after the bytes delivered, and after
\* the FIN once that was consumed: what is acked is what was delivered.
AckMatchesData == rcvNxt = Len(rcvd) + 1 + (IF rcvClosed THEN 1 ELSE 0)

\* The end of the stream is reported only after its last byte.
ClosedAtEnd == rcvClosed => Len(rcvd) = StreamLen

\* A segment that can be consumed does not wait: once a batch has been
\* handled, nothing in the heap fits the next number expected.
NothingLeftWaiting ==
  rcvPc = "idle" => \A i \in DOMAIN pending : ~Consumable(pending[i])

\* The bytes accounted to the pending heap cover what is in it, so its
\* buffer bounds it (rcv.go:154).
PendingCovered ==
  /\ pending # <<>> => pendingBufUsed > 0
  /\ \A i \in DOMAIN pending : LogicalLen(pending[i]) <= pendingBufUsed
  /\ Len(pending) <= RcvBufSize

\* A window that was announced as zero and is open again will be announced
\* again: the notification of Read is posted until the worker has acted on
\* it (rcv.go:62, endpoint.go:776).
WindowReopens ==
  (rcvPc = "idle" /\ ~ZeroWindow(rcvBufUsed) /\ Scaled(rcvAcc - rcvNxt) = 0)
    => notifyNonZero
=============================================================================
