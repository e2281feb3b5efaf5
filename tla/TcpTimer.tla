-------------------------------- MODULE TcpTimer --------------------------------
(***************************************************************************)
(* The lazy timer of the TCP worker, tcp/timer.go.  The runtime's timer is *)
(* programmed only if the new target is earlier than the one it has; a     *)
(* timer that is disabled leaves it running ("orphaned") and is told by a  *)
(* spurious wake.  The runtime fires in a goroutine of its own, which      *)
(* asserts the waker; the worker then calls checkExpiration.  All else is  *)
(* called by the worker only.                                              *)
(***************************************************************************)
EXTENDS Integers

CONSTANTS
  Durations,
  MaxNow       \* bound: the end of time

ASSUME TimerAssumption == Durations \subseteq Nat \ {0} /\ MaxNow \in Nat

VARIABLES
  now, state, target, runtimeTarget,
  running,     \* the runtime timer is programmed, for runtimeTarget
  firing,      \* it has gone off, and its goroutine is about to run
  woken,       \* the waker is asserted
  reported     \* history: the last enable ended in an expiry

timerVars == <<now, state, target, runtimeTarget, running, firing, woken, reported>>

TimerInit ==
  /\ now = 0 /\ state = "disabled" /\ target = 0 /\ runtimeTarget = 0
  /\ running = FALSE /\ firing = FALSE /\ woken = FALSE
  /\ reported = FALSE

\* enable.
Enable(d) ==
  /\ target' = now + d
  /\ IF state = "disabled" \/ now + d < runtimeTarget
     THEN runtimeTarget' = now + d /\ running' = TRUE
     ELSE UNCHANGED <<runtimeTarget, running>>
  /\ state' = "enabled" /\ reported' = FALSE
  /\ UNCHANGED <<now, firing, woken>>

\* disable.
Disable ==
  /\ state' = IF state = "disabled" THEN "disabled" ELSE "orphaned"
  /\ reported' = FALSE
  /\ UNCHANGED <<now, target, runtimeTarget, running, firing, woken>>

\* checkExpiration: it was orphaned.
CheckOrphaned ==
  /\ state = "orphaned" /\ state' = "disabled"
  /\ UNCHANGED <<target, runtimeTarget, running, reported>>

\* It went off for an earlier target.
CheckEarly ==
  /\ state # "orphaned" /\ now < target
  /\ runtimeTarget' = target /\ running' = TRUE
  /\ UNCHANGED <<state, target, reported>>

\* Mistake: whenever it is woken it has expired.
CheckAlways ==
  /\ state # "orphaned" /\ state' = "disabled" /\ reported' = TRUE
  /\ UNCHANGED <<target, runtimeTarget, running>>

\* It has expired.
CheckExpired ==
  /\ state # "orphaned" /\ now >= target
  /\ state' = "disabled" /\ reported' = TRUE
  /\ UNCHANGED <<target, runtimeTarget, running>>

checkExpiration == CheckOrphaned \/ CheckEarly \/ CheckExpired

\* The worker fetches the waker and calls checkExpiration.
Wake == /\ woken /\ woken' = FALSE
        /\ checkExpiration
        /\ UNCHANGED <<now, firing>>

\* The runtime: not before the time, and at any time after it.
GoesOff == /\ running /\ runtimeTarget <= now
           /\ running' = FALSE /\ firing' = TRUE
           /\ UNCHANGED <<now, state, target, runtimeTarget, woken, reported>>

Asserts == /\ firing /\ firing' = FALSE /\ woken' = TRUE
           /\ UNCHANGED <<now, state, target, runtimeTarget, running, reported>>

Tick == /\ now < MaxNow /\ now' = now + 1
        /\ UNCHANGED <<state, target, runtimeTarget, running, firing, woken, reported>>

Runtime == GoesOff \/ Asserts \/ Tick

TimerNext == Wake \/ Runtime \/ Disable \/ \E d \in Durations : Enable(d)

TimerSpec == TimerInit /\ [][TimerNext]_timerVars

-----------------------------------------------------------------------------
\* One wake is on its way, and no more.
WakeComes == \/ running /\ ~firing /\ ~woken
             \/ firing /\ ~running /\ ~woken
             \/ woken /\ ~running /\ ~firing

\* A timer that is enabled or orphaned will be told of by one wake, not
\* later than its target; one that is disabled by none (the comment on the
\* states, timer.go:20).  So nobody has to look at a timer but when woken.
WakeIsComing ==
  /\ state # "disabled" => WakeComes
  /\ state = "disabled" => ~running /\ ~firing /\ ~woken
  /\ state = "enabled" /\ running => runtimeTarget <= target

\* The lazy timer keeps the promise of a deadline.
D ==
  INSTANCE Deadline WITH deadline <- IF state = "enabled" THEN target ELSE -1

DeadlineSpec == D!Spec
=============================================================================
