---------------------------- MODULE TcpConnection ----------------------------
(***************************************************************************)
(* One direction of an established connection between two endpoints of     *)
(* this stack: the sender of one, the receiver of the other, and a network *)
(* that reorders segments and, up to MaxFaults times, loses one, delivers  *)
(* it twice or lets the retransmission timer win.  The network is          *)
(* external: the link endpoints of link/ write packets to a file           *)
(* descriptor and promise nothing about them.                              *)
(***************************************************************************)
EXTENDS TcpSender, TcpReceiver

CONSTANTS
  MaxFaults,     \* bound: segments and acks lost or duplicated, and timers
                 \* that fire early
  AckFaults,     \* acks may be lost
  AckReorder,    \* acks may overtake each other
  EarlyTimeouts  \* the timer may fire while something is on its way

\* The window of the handshake is no larger than the buffer of the receiver
\* that announced it (connect.go:842, 845).
ASSUME ConnectionAssumption ==
  /\ InitialWnd <= RcvBufSize
  /\ MaxFaults \in Nat
  /\ {AckFaults, AckReorder, EarlyTimeouts} \subseteq BOOLEAN

VARIABLES
  faults,
  overtaken   \* an ack has been overtaken by a later one

net  == <<faults, overtaken>>
vars == <<sndVars, rcvVars, net>>

Init == SndInit /\ RcvInit /\ faults = 0 /\ overtaken = FALSE

-----------------------------------------------------------------------------
\* The application of the sender.
AppWrite == \E n \in 1..MaxWrite : Write(n) /\ UNCHANGED <<rcvVars, net>>
AppShutdown == ShutdownWrite /\ UNCHANGED <<rcvVars, net>>

\* The worker of the sender.
SenderStep == SenderWork /\ UNCHANGED <<rcvVars, net>>

RecvAck(i) ==
  /\ SndHandleSegment(acks[i].ack, acks[i].wnd)
  /\ acks' = Without(acks, i)
  /\ overtaken' = (overtaken \/ i # 1)
  /\ UNCHANGED <<segVars, maxSentAck, loopVars, readVars, faults>>

DeliverAck == \E i \in DOMAIN acks : (AckReorder \/ i = 1) /\ RecvAck(i)

\* Nothing is on its way that could still answer the sender.
Quiet == wire = {} /\ acks = <<>> /\ rcvPc \in {"idle", "dead"}

\* The timer fires then, or, as a fault, while something is on its way.
Timeout ==
  /\ RetransmitTimerExpired \/ GiveUp
  /\ \/ Quiet /\ UNCHANGED faults
     \/ ~Quiet /\ EarlyTimeouts /\ faults < MaxFaults /\ faults' = faults + 1
  /\ UNCHANGED <<rcvVars, overtaken>>

\* The worker of the receiver.
DeliverSegment ==
  \E m \in wire :
    /\ RcvHandleSegment(m)
    /\ wire' = wire \ {m}
    /\ UNCHANGED <<sndState, net>>

ReceiverStep == ReceiverWork /\ UNCHANGED <<sndVars, net>>

\* The application of the receiver.
AppRead == Read /\ UNCHANGED <<sndVars, net>>

\* The network.
DuplicateSegment ==
  \E m \in wire :
    /\ faults < MaxFaults /\ faults' = faults + 1
    /\ RcvHandleSegment(m)
    /\ UNCHANGED <<sndVars, overtaken>>

LoseSegment ==
  /\ faults < MaxFaults /\ faults' = faults + 1
  /\ \E m \in wire : wire' = wire \ {m}
  /\ UNCHANGED <<sndState, rcvVars, overtaken>>

LoseAck ==
  /\ AckFaults
  /\ faults < MaxFaults /\ faults' = faults + 1
  /\ \E i \in DOMAIN acks : acks' = Without(acks, i)
  /\ UNCHANGED <<sndVars, segVars, maxSentAck, loopVars, readVars, overtaken>>

Next == \/ AppWrite \/ AppShutdown \/ SenderStep \/ DeliverAck \/ Timeout
        \/ DeliverSegment \/ ReceiverStep \/ AppRead
        \/ DuplicateSegment \/ LoseSegment \/ LoseAck

Spec == Init /\ [][Next]_vars

\* Both workers are goroutines that run until the connection ends; packets
\* that are neither lost nor held back arrive; an enabled timer fires; the
\* reading application keeps reading.  Nothing makes the writer write.
Fairness ==
  /\ WF_vars(SenderStep) /\ WF_vars(DeliverAck) /\ WF_vars(Timeout)
  /\ WF_vars(DeliverSegment) /\ WF_vars(ReceiverStep) /\ WF_vars(AppRead)

FairSpec == Spec /\ Fairness

-----------------------------------------------------------------------------
(* Safety. *)

\* The sender never takes as acknowledged what the receiver has not
\* consumed, nor the receiver expect what was never sent; this holds for
\* every ack still on its way too.
AckedIsReceived ==
  /\ sndUna <= rcvNxt /\ rcvNxt <= sndNxt
  /\ \A i \in DOMAIN acks : acks[i].ack <= rcvNxt

\* A sender that has been closed and has nothing left to be acknowledged,
\* the condition on which protocolMainLoop ends (connect.go:991), has had
\* the whole stream and its end delivered.
CloseIsComplete ==
  (sndDone /\ sndUna = sndNxtList) => (rcvClosed /\ Len(rcvd) = written)

\* The window a sender of this stack is given is never overrun, as long as
\* acks keep their order (snd.go:358 takes the window of any ack): the
\* receive list stays within its buffer, and only a FIN, which ignores the
\* window, is consumed past rcvAcc.
WindowRespected == overtaken \/
  /\ rcvBufUsed <= RcvBufSize
  /\ rcvNxt <= rcvAcc + (IF rcvClosed THEN 1 ELSE 0)

\* The edge of the window never moves back (rcv.go:15: rather than shrink
\* the window, the receiver lets it be used up), nor do the cumulative ack
\* and the next number to be acknowledged.
NeverBack == [][ /\ rcvAcc' >= rcvAcc /\ rcvNxt' >= rcvNxt
                 /\ sndUna' >= sndUna /\ sndNxt' >= sndNxt ]_vars

-----------------------------------------------------------------------------
(* The connection implements the byte stream. *)

Stream == INSTANCE ByteStream WITH in <- written, ended <- sndClosed,
                                   out <- rcvd, eof <- rcvClosed

StreamSpec == Stream!Spec

-----------------------------------------------------------------------------
(* Liveness. *)

\* Again and again everything written so far has been delivered, unless the
\* sender has given up.
Delivered == []<>(Len(rcvd) = written \/ sndPc = "dead")

\* A connection that is shut down ends: the FIN is acknowledged.
Closes == sndClosed ~> (sndDone /\ sndUna = sndNxtList)
=============================================================================
