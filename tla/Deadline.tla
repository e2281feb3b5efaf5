------------------------------- MODULE Deadline -------------------------------
(***************************************************************************)
(* What a timer promises to the worker that uses it: at most one deadline, *)
(* set anew or taken back at will, and reported once, never before its     *)
(* time.                                                                   *)
(***************************************************************************)
EXTENDS Integers

CONSTANTS
  Durations,
  MaxNow       \* bound: the end of time

VARIABLES
  now,
  deadline,    \* NoDeadline when there is none
  reported     \* the last thing that happened to a deadline was its expiry

dlVars == <<now, deadline, reported>>

NoDeadline == -1

Init == now = 0 /\ deadline = NoDeadline /\ reported = FALSE

Tick == now < MaxNow /\ now' = now + 1 /\ UNCHANGED <<deadline, reported>>

Set(d) == deadline' = now + d /\ reported' = FALSE /\ now' = now

Clear == deadline' = NoDeadline /\ reported' = FALSE /\ now' = now

Expire == /\ deadline # NoDeadline /\ deadline <= now
          /\ deadline' = NoDeadline /\ reported' = TRUE /\ now' = now

Next == Tick \/ Clear \/ Expire \/ \E d \in Durations : Set(d)

Spec == Init /\ [][Next]_dlVars
=============================================================================
