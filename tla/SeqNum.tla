------------------------------- MODULE SeqNum -------------------------------
(***************************************************************************)
(* Sequence numbers, protocol/seqnum/seqnum.go: unsigned numbers that wrap *)
(* around, compared by the sign of their difference.  Half is 2^31 in the  *)
(* code (uint32, int32).                                                   *)
(***************************************************************************)
EXTENDS Integers

CONSTANT Half

ASSUME HalfAssumption == Half \in Nat \ {0}

Modulus == 2 * Half

Value == 0..(Modulus - 1)
Size  == 0..(Modulus - 1)

\* The number of position n of an unbounded stream.
Wrap(n) == n % Modulus

\* int32(v-w) < 0.
LessThan(v, w) == (v - w) % Modulus >= Half

LessThanEq(v, w) == v = w \/ LessThan(v, w)

\* v-a < b-a, unsigned: v is in [a, b).
InRange(v, a, b) == (v - a) % Modulus < (b - a) % Modulus

\* The number after the window of size s at v.
Add(v, s) == (v + s) % Modulus

\* The size of the window [v, w).
SizeTo(v, w) == (w - v) % Modulus

InWindow(v, first, size) == InRange(v, first, Add(first, size))

\* The windows [a, a+b) and [x, x+y) meet.
Overlap(a, b, x, y) == LessThan(a, Add(x, y)) /\ LessThan(x, Add(a, b))
=============================================================================
