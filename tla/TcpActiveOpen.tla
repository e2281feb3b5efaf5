----------------------------- MODULE TcpActiveOpen -----------------------------
(***************************************************************************)
(* Endpoints that call Connect, and the network between them and their     *)
(* peers: protocolMainLoop and handshake.execute in tcp/connect.go.  An    *)
(* endpoint that has connected or failed may be closed and the same ports  *)
(* used for a new attempt, with another initial number, while segments of  *)
(* the attempt before are still in the network.  The network loses,        *)
(* repeats and reorders.  Of a connection only what it does with the       *)
(* segments of a handshake is kept.  A segment for an endpoint that is     *)
(* closed gets no answer: HandleUnknownDestinationPacket (protocol.go:90)  *)
(* resets only what does not parse.                                        *)
(***************************************************************************)
EXTENDS TcpHandshake, Sequences, FiniteSets

CONSTANTS
  Ends,      \* the hosts
  PeerOf,    \* PeerOf[e]: whom e connects to
  Isn,       \* Isn[e]: the initial numbers rand gives to e, in order
  WireCap    \* bound: segments in the network; a further one is lost

\* An attempt has a number of its own: the code relies on rand for it.
ASSUME OpenAssumption ==
  \A e \in Ends :
    /\ PeerOf[e] \in Ends \ {e} /\ Isn[e] \in Seq(Value)
    /\ \A i, j \in DOMAIN Isn[e] : Isn[e][i] = Isn[e][j] => i = j

VARIABLES
  opener,    \* of each end its pc, handshake, and numbers drawn
  wire,      \* segments in the network
  opened     \* history: <<e, iss, ackNum>> of the handshakes e completed

openVars == <<opener, wire, opened>>

\* pc is "closed" (not registered), "handshake", "connected", or "failed": the
\* worker is gone, and the endpoint registered until the application closes it.
\* `spent' numbers were drawn before.
OpenInit(spent) ==
  /\ opener = [e \in Ends |->
       [pc |-> "closed", h |-> SynSent(0, TRUE), drawn |-> spent]]
  /\ wire = {} /\ opened = {}

\* `out' enters the network, and s may leave it.
Carries(s, out) ==
  \E left \in {wire, wire \ {s}} :
    wire' = IF Cardinality(left \cup out) <= WireCap THEN left \cup out ELSE left

Emits(out) ==
  wire' = IF Cardinality(wire \cup out) <= WireCap THEN wire \cup out ELSE wire

Draws(e) == opener[e].drawn < Len(Isn[e])
Fresh(e) == IF Draws(e) THEN Isn[e][opener[e].drawn + 1] ELSE 0

\* The worker ends, and what it knew is gone.
Turns(e, pc) ==
  /\ opener' = [opener EXCEPT ![e] = [pc |-> pc, h |-> SynSent(0, TRUE),
                                      drawn |-> @.drawn]]
  /\ UNCHANGED opened

\* Connect: the worker starts the handshake.
Connect(e) ==
  /\ opener[e].pc = "closed" /\ Draws(e)
  /\ LET h == SynSent(Fresh(e), TRUE)
     IN  /\ opener' = [opener EXCEPT ![e] = [pc |-> "handshake", h |-> h,
                                             drawn |-> @.drawn + 1]]
         /\ Emits({SynOf(h, e, PeerOf[e])})
  /\ UNCHANGED opened

\* The timer: the SYN again, after twice the time.
Resends(e) ==
  /\ opener[e].pc = "handshake" /\ Emits({SynOf(opener[e].h, e, PeerOf[e])})
  /\ UNCHANGED <<opener, opened>>

\* ErrTimeout, after a number of resends that is left open.
GivesUp(e) ==
  /\ opener[e].pc = "handshake"
  /\ Turns(e, "failed") /\ UNCHANGED wire

\* Close: ErrAborted for the worker, which cleans up; or the end of a
\* connection, however it came.
Closes(e) ==
  opener[e].pc # "closed" /\ Turns(e, "closed") /\ UNCHANGED wire

\* The demuxer finds an endpoint by both ends of a connection.
IsFor(s, e) == s.dst = e /\ s.src = PeerOf[e]

\* A segment of the queue is handled (processSegments).  A handshake that
\* would start over needs a number to start with: a bound.
OpenerReceives(e, s) ==
  LET r == HandleSegment(opener[e].h, s, Fresh(e))
      over == r.h.state = "synSent" /\ opener[e].h.state = "synRcvd"
      pc == IF r.err # "none" THEN "failed"
            ELSE IF r.h.state = "completed" THEN "connected" ELSE "handshake"
  IN  /\ IsFor(s, e) /\ opener[e].pc = "handshake"
      /\ over => Draws(e)
      /\ opener' = [opener EXCEPT ![e] =
           [pc |-> pc, h |-> IF pc = "failed" THEN SynSent(0, TRUE) ELSE r.h,
            drawn |-> IF over THEN @.drawn + 1 ELSE @.drawn]]
      /\ Carries(s, r.out)
      /\ opened' = IF pc = "connected" THEN opened \cup {<<e, r.h.iss, r.h.ackNum>>}
                   ELSE opened

\* handleSegments of a connection, for the segments of a handshake: what is
\* not acceptable is answered with an ack, a SYN without one is ignored.
AckOf(h, s) == Seg(s.dst, s.src, {"ack"}, Add(h.iss, 1), h.ackNum)

AsksForAck(h, s) ==
  "ack" \in s.flags /\ "rst" \notin s.flags /\ ~InWindow(s.seq, h.ackNum, RcvWnd)

AcksAgain(e, s) ==
  /\ IsFor(s, e) /\ opener[e].pc = "connected" /\ AsksForAck(opener[e].h, s)
  /\ Carries(s, {AckOf(opener[e].h, s)})
  /\ UNCHANGED <<opener, opened>>

\* A reset in the window ends it (ErrConnectionReset), with a reset.
Resets(h, s) == "rst" \in s.flags /\ InWindow(s.seq, h.ackNum, RcvWnd)
ResetOf(h, src, dst) == Seg(src, dst, {"rst", "ack"}, Add(h.iss, 1), h.ackNum)

IsReset(e, s) ==
  /\ IsFor(s, e) /\ opener[e].pc = "connected" /\ Resets(opener[e].h, s)
  /\ Turns(e, "failed") /\ Carries(s, {ResetOf(opener[e].h, e, s.src)})

Loses(s) == wire' = wire \ {s} /\ UNCHANGED <<opener, opened>>

OpenNext(opening) ==
  \/ \E e \in opening : Connect(e) \/ Resends(e) \/ GivesUp(e) \/ Closes(e)
  \/ \E s \in wire :
       Loses(s) \/ \E e \in opening : \/ OpenerReceives(e, s) \/ AcksAgain(e, s)
                                     \/ IsReset(e, s)

-----------------------------------------------------------------------------
\* Two ends that are connected to each other at the same time agree on both
\* numbers: nothing of an attempt before is left in either.
OpenersAgree ==
  \A e, d \in Ends :
    (/\ PeerOf[e] = d /\ PeerOf[d] = e
     /\ opener[e].pc = "connected" /\ opener[d].pc = "connected")
      => opener[e].h.ackNum = Add(opener[d].h.iss, 1)
=============================================================================
