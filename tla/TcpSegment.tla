----------------------------- MODULE TcpSegment -----------------------------
(***************************************************************************)
(* TCP segments of one direction of a connection (tcp/segment.go), as the  *)
(* sender of snd.go builds them and the receiver of rcv.go takes them.     *)
(*                                                                         *)
(* Sequence numbers are not wrapped: the initial sequence number is 0, the *)
(* first byte of the stream has number 1, and byte n of the stream has     *)
(* number n.  SeqNum.tla shows that the comparisons of seqnum.go agree     *)
(* with those of the integers on numbers less than 2^31 apart.             *)
(*                                                                         *)
(* The payload of a segment is an interval of the stream, given by `off`,  *)
(* the position of its first byte in what the application wrote, and by    *)
(* `len`.  A segment is well labelled when off = seq; nothing but the code *)
(* keeps the two together.                                                 *)
(***************************************************************************)
EXTENDS Integers, Sequences

\* The flags the two state machines tell apart.  "none" marks a segment that
\* has no sequence number yet (seg.flags == 0 in sendData).
Flags == {"none", "data", "fin", "rst"}

Segment == [seq : Int, off : Int, len : Nat, flags : Flags]

\* Mistake: a FIN takes no sequence number.
PayloadLen(s) == s.len

\* Payload plus one for a FIN.
LogicalLen(s) == s.len + (IF s.flags = "fin" THEN 1 ELSE 0)

\* What is left of a segment once n bytes are trimmed from its front.
TrimFront(s, n) == [s EXCEPT !.off = @ + n, !.len = @ - n]

\* The sequence number after the segment.
SegEnd(s) == s.seq + LogicalLen(s)

MinOf(a, b) == IF a <= b THEN a ELSE b
MaxOf(a, b) == IF a >= b THEN a ELSE b
=============================================================================
