----------------------------- MODULE ByteStream -----------------------------
(***************************************************************************)
(* What one direction of a TCP connection promises its two applications:   *)
(* the bytes come out in the order they went in, none missing and none     *)
(* twice; the end of the stream is seen only after its last byte, and only *)
(* if the writer ended it.  A connection may break, after which nothing    *)
(* more comes out than was written.                                        *)
(*                                                                         *)
(* Byte n of the stream is the number n, so what went in is the number of  *)
(* bytes written and what came out is a sequence of numbers.               *)
(***************************************************************************)
EXTENDS Naturals, Sequences

VARIABLES in,     \* bytes written
          ended,  \* the writer has ended the stream
          out,    \* bytes delivered, in order
          eof     \* the reader has been told that the stream ended

vars == <<in, ended, out, eof>>

Init == in = 0 /\ ended = FALSE /\ out = <<>> /\ eof = FALSE

Put == /\ ~ended
       /\ in' > in
       /\ UNCHANGED <<ended, out, eof>>

End == /\ ~ended
       /\ ended' = TRUE
       /\ UNCHANGED <<in, out, eof>>

\* Any number of the bytes that are next come out at once; the end of the
\* stream may come with the last of them.
Get == /\ ~eof
       /\ \E n \in Len(out)..in : out' = [i \in 1..n |-> i]
       /\ eof' \in {FALSE, ended /\ Len(out') = in}
       /\ UNCHANGED <<in, ended>>

Next == Put \/ End \/ Get

Spec == Init /\ [][Next]_vars
=============================================================================
