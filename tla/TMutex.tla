------------------------------- MODULE TMutex -------------------------------
(***************************************************************************)
(* The mutex of pkg/tmutex: one atomic word, v, and a channel of capacity  *)
(* one.  v is 1 when the mutex is free, 0 when it is held and nobody has   *)
(* asked to be woken, negative when a locker waits or is about to.  Every  *)
(* atomic operation is a step; mpc[p] is where process p is in Lock,       *)
(* TryLock or Unlock.                                                      *)
(***************************************************************************)
EXTENDS Integers

CONSTANT Procs

VARIABLES
  v,    \* the word
  ch,   \* tokens in the channel
  mpc   \* "out", "load", "swap", "recv", "cas", "in", "post"

mutexVars == <<v, ch, mpc>>

MutexPcs == {"out", "load", "swap", "recv", "cas", "in", "post"}

At(p, here)   == mpc[p] = here
Goto(p, there) == mpc' = [mpc EXCEPT ![p] = there]

\* Init of the Go type, then nobody holds it.
MutexInit == v = 1 /\ ch = 0 /\ mpc = [p \in Procs |-> "out"]

\* Lock: the fast path, then a loop that leaves -1 behind so that whoever
\* holds the mutex posts to the channel.
LockAdd(p) ==
  /\ At(p, "out")
  /\ v' = v - 1
  /\ Goto(p, IF v = 1 THEN "in" ELSE "load")
  /\ UNCHANGED ch

LockLoad(p) ==
  /\ At(p, "load")
  /\ Goto(p, IF v >= 0 THEN "swap" ELSE "recv")
  /\ UNCHANGED <<v, ch>>

LockSwap(p) ==
  /\ At(p, "swap")
  /\ v' = -1
  /\ Goto(p, IF v = 1 THEN "in" ELSE "recv")
  /\ UNCHANGED ch

LockRecv(p) ==
  /\ At(p, "recv") /\ ch = 1
  /\ ch' = 0
  /\ Goto(p, "load")
  /\ UNCHANGED v

\* TryLock looks, then compares and swaps; it fails if another one was
\* there before or comes between.
TryLoad(p) ==
  /\ At(p, "out") /\ v > 0
  /\ Goto(p, "cas")
  /\ UNCHANGED <<v, ch>>

\* Mistake: the word is set whatever it has become.
TryStore(p) ==
  /\ At(p, "cas")
  /\ v' = 0
  /\ Goto(p, "in")
  /\ UNCHANGED ch

TryCas(p) ==
  /\ At(p, "cas") /\ v = 1
  /\ v' = 0
  /\ Goto(p, "in")
  /\ UNCHANGED ch

TryFail(p) ==
  /\ (At(p, "out") /\ v <= 0) \/ (At(p, "cas") /\ v # 1)
  /\ Goto(p, "out")
  /\ UNCHANGED <<v, ch>>

\* Mistake: nobody is told.
UnlockSilent(p) ==
  /\ At(p, "in")
  /\ v' = 1
  /\ Goto(p, "out")
  /\ UNCHANGED ch

\* Unlock posts unless nobody can be waiting.
Unlock(p) ==
  /\ At(p, "in")
  /\ v' = 1
  /\ Goto(p, IF v = 0 THEN "out" ELSE "post")
  /\ UNCHANGED ch

UnlockPost(p) ==
  /\ At(p, "post")
  /\ ch' = 1
  /\ Goto(p, "out")
  /\ UNCHANGED v

LockStep(p) == LockLoad(p) \/ LockSwap(p) \/ LockRecv(p)

MutexNext ==
  \E p \in Procs : \/ LockAdd(p) \/ LockStep(p)
                   \/ TryLoad(p) \/ TryCas(p) \/ TryFail(p)
                   \/ Unlock(p) \/ UnlockPost(p)

MutexSpec == MutexInit /\ [][MutexNext]_mutexVars

-----------------------------------------------------------------------------
\* At most one process is between Lock or TryLock and Unlock.
MutualExclusion ==
  \A p, q \in Procs : (At(p, "in") /\ At(q, "in")) => p = q

\* Whoever waits for the channel will be woken: a token is there, or the
\* holder will see that it has to post one, or somebody is about to do so or
\* to look at the word again.  A token that is dropped because the channel is
\* full, a TryLock that slips in between and a word that was overwritten do
\* not change that.
WaiterIsWoken ==
  (\E p \in Procs : At(p, "recv")) =>
    \/ ch = 1
    \/ v < 0 /\ \E q \in Procs : At(q, "in")
    \/ \E q \in Procs : mpc[q] \in {"load", "swap", "post"}
=============================================================================
