----------------------------- MODULE TcpHandshake -----------------------------
(***************************************************************************)
(* The three-way handshake, tcp/connect.go: what one end of it does with a *)
(* segment.  A handshake is a record of the code's fields; options, window *)
(* scale and MSS, which decide nothing here, are left out, and so is the   *)
(* payload.  `fresh' is the initial number that rand gives when the        *)
(* handshake starts over.                                                  *)
(***************************************************************************)
EXTENDS SeqNum

CONSTANT RcvWnd   \* handshake.rcvWnd

ASSUME HandshakeAssumption == RcvWnd \in 1..Half

Seg(src, dst, flags, seq, ack) ==
  [src |-> src, dst |-> dst, flags |-> flags, seq |-> seq, ack |-> ack]

SynLen(s) == IF "syn" \in s.flags THEN 1 ELSE 0

\* newHandshake, and resetState when a handshake starts over.
SynSent(iss, active) ==
  [state |-> "synSent", active |-> active, flags |-> {"syn"},
   iss |-> iss, ackNum |-> 0]

\* resetToSynRcvd: a listener got the SYN.
SynRcvd(iss, irs) ==
  [state |-> "synRcvd", active |-> FALSE, flags |-> {"syn", "ack"},
   iss |-> iss, ackNum |-> Add(irs, 1)]

\* sendSynTCP, with what the handshake holds.
SynOf(h, src, dst) == Seg(src, dst, h.flags, h.iss, h.ackNum)

\* Mistake: any acknowledgement will do.
NoBadAck(h, s) == FALSE

\* checkAck: it acknowledges what was not sent.
BadAck(h, s) == "ack" \in s.flags /\ s.ack # Add(h.iss, 1)

\* The reset that answers such a segment, and a SYN with another number.
ResetFor(s) ==
  Seg(s.dst, s.src, {"rst", "ack"}, IF "ack" \in s.flags THEN s.ack ELSE 0,
      Add(s.seq, SynLen(s)))

\* What comes of a segment: the handshake after it, the segments sent, and
\* "refused" or "invalid" if it ends the handshake.
Goes(h, out)   == [h |-> h, out |-> out, err |-> "none"]
Fails(h, out, e) == [h |-> h, out |-> out, err |-> e]

\* synRcvdState.
synRcvdState(h, s, fresh) ==
  CASE "rst" \in s.flags ->
         IF InWindow(s.seq, h.ackNum, RcvWnd) THEN Fails(h, {}, "refused")
         ELSE Goes(h, {})
    [] "rst" \notin s.flags /\ BadAck(h, s) -> Goes(h, {ResetFor(s)})
    [] /\ "rst" \notin s.flags /\ ~BadAck(h, s)
       /\ "syn" \in s.flags /\ Add(s.seq, 1) # h.ackNum ->
         IF ~h.active THEN Fails(h, {ResetFor(s)}, "invalid")
         ELSE LET again == SynSent(fresh, TRUE)
              IN  Goes(again, {ResetFor(s), SynOf(again, s.dst, s.src)})
    [] OTHER -> Goes(IF "ack" \in s.flags THEN [h EXCEPT !.state = "completed"]
                     ELSE h, {})

\* synSentState.
synSentState(h, s) ==
  CASE "rst" \in s.flags ->
         IF "ack" \in s.flags /\ s.ack = Add(h.iss, 1) THEN Fails(h, {}, "refused")
         ELSE Goes(h, {})
    [] "rst" \notin s.flags /\ BadAck(h, s) -> Goes(h, {ResetFor(s)})
    [] OTHER ->
         LET got == [h EXCEPT !.ackNum = Add(s.seq, 1), !.flags = @ \cup {"ack"}]
             done == [got EXCEPT !.state = "completed"]
             half == [got EXCEPT !.state = "synRcvd"]
         IN  IF "syn" \notin s.flags THEN Goes(h, {})
             ELSE IF "ack" \in s.flags
             THEN Goes(done, {Seg(s.dst, s.src, {"ack"}, Add(h.iss, 1), got.ackNum)})
             ELSE Goes(half, {SynOf(half, s.dst, s.src)})

\* handleSegment.
HandleSegment(h, s, fresh) ==
  IF h.state = "synRcvd" THEN synRcvdState(h, s, fresh) ELSE synSentState(h, s)
=============================================================================
