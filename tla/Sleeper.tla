------------------------------ MODULE Sleeper ------------------------------
(***************************************************************************)
(* Sleepers and wakers, pkg/sleep: a lock-free queue of asserted wakers    *)
(* that one goroutine, the owner of the sleeper, takes from and any number *)
(* of goroutines add to.  Every atomic operation on a shared word is a     *)
(* step; what a goroutine does with its own memory belongs to the step     *)
(* before.                                                                 *)
(*                                                                         *)
(* The lists are sequences, not pointers.  That is the same as long as no  *)
(* waker is in two places, which QueuedOnce says.                          *)
(***************************************************************************)
EXTENDS SequencesExt

CONSTANTS Wakers, Sleepers,
          Asserters    \* goroutines that call Assert or AddWaker

VARIABLES
  ws,        \* Waker.s: "nil", "asserted" or a sleeper
  shared,    \* Sleeper.sharedList, the newest first
  local,     \* Sleeper.localList
  allWakers, \* Sleeper.allWakers
  waitingG,  \* Sleeper.waitingG: "none", "preparing" or "g"
  apc,       \* where an asserter is in Assert or enqueueAssertedWaker
  aw,        \* the waker it asserts: [w, s, head, g]
  spc,       \* where the owner is in Fetch or Done
  cur,       \* the sleeper it uses
  pulled     \* locals: [w |-> waker taken, pending |-> those Done waits for]

wakerVars == <<ws, shared, local, allWakers, waitingG>>
sleepVars == <<wakerVars, apc, aw, spc, cur, pulled>>

None == "none"
NoCall == [w |-> None, s |-> None, head |-> None, g |-> None]

SleepInit(first) ==
  /\ ws = [w \in Wakers |-> "nil"]
  /\ shared = [s \in Sleepers |-> <<>>] /\ local = shared
  /\ allWakers = shared
  /\ waitingG = [s \in Sleepers |-> None]
  /\ apc = [p \in Asserters |-> None] /\ aw = [p \in Asserters |-> NoCall]
  /\ spc = "out" /\ cur = first
  /\ pulled = [w |-> None, pending |-> {}]

Top(s) == IF shared[s] = <<>> THEN None ELSE Head(shared[s])

-----------------------------------------------------------------------------
(* Assert and enqueueAssertedWaker. *)

Move(p, there) == apc' = [apc EXCEPT ![p] = there]
Return(p) == Move(p, None) /\ aw' = [aw EXCEPT ![p] = NoCall]

\* p calls w.Assert().
CallAssert(p, w) ==
  /\ apc[p] = None
  /\ Move(p, "assert") /\ aw' = [aw EXCEPT ![p].w = w]

\* The first look: nothing to do for a waker that is asserted.
AssertLoad(p) ==
  /\ apc[p] = "assert"
  /\ IF ws[aw[p].w] = "asserted" THEN Return(p)
                                 ELSE Move(p, "swap") /\ UNCHANGED aw
  /\ UNCHANGED <<wakerVars, spc, cur, pulled>>

\* Only the one who takes the waker away from its sleeper queues it.
AssertSwap(p) ==
  /\ apc[p] = "swap"
  /\ LET s == ws[aw[p].w]
     IN  IF s \in Sleepers
         THEN Move(p, "push") /\ aw' = [aw EXCEPT ![p].s = s]
         ELSE Return(p)
  /\ ws' = [ws EXCEPT ![aw[p].w] = "asserted"]
  /\ UNCHANGED <<shared, local, allWakers, waitingG, spc, cur, pulled>>

PushLoad(p) ==
  /\ apc[p] = "push"
  /\ Move(p, "cas")
  /\ aw' = [aw EXCEPT ![p].head = Top(aw[p].s)]
  /\ UNCHANGED <<wakerVars, spc, cur, pulled>>

PushCas(p) ==
  /\ apc[p] = "cas"
  /\ LET s == aw[p].s
     IN  IF Top(s) = aw[p].head
         THEN /\ shared' = [shared EXCEPT ![s] = <<aw[p].w>> \o @]
              /\ Move(p, "wake")
         ELSE Move(p, "push") /\ UNCHANGED shared
  /\ UNCHANGED <<ws, local, allWakers, waitingG, aw, spc, cur, pulled>>

WakeLoad(p) ==
  /\ apc[p] = "wake"
  /\ LET g == waitingG[aw[p].s]
     IN  IF g = None THEN Return(p)
         ELSE Move(p, "wakecas") /\ aw' = [aw EXCEPT ![p].g = g]
  /\ UNCHANGED <<wakerVars, spc, cur, pulled>>

\* The sleep is called off, or the goroutine that sleeps is made ready.
WakeCas(p) ==
  /\ apc[p] = "wakecas"
  /\ LET s == aw[p].s
     IN  IF waitingG[s] = aw[p].g
         THEN /\ waitingG' = [waitingG EXCEPT ![s] = None]
              /\ spc' = IF aw[p].g = "g" THEN "check" ELSE spc
         ELSE UNCHANGED <<waitingG, spc>>
  /\ Move(p, "wake")
  /\ UNCHANGED <<ws, shared, local, allWakers, aw, cur, pulled>>

AssertStep(p) == \/ AssertLoad(p) \/ AssertSwap(p) \/ PushLoad(p)
                 \/ PushCas(p) \/ WakeLoad(p) \/ WakeCas(p)

-----------------------------------------------------------------------------
(* The owner: AddWaker, nextWaker, Fetch and Done. *)

\* AddWaker: a waker that is asserted already goes to the queue at once.
AddWaker(p, w) ==
  /\ spc = "out" /\ apc[p] = None
  /\ allWakers' = [allWakers EXCEPT ![cur] = <<w>> \o @]
  /\ IF ws[w] = "asserted"
     THEN /\ Move(p, "push") /\ aw' = [aw EXCEPT ![p].w = w, ![p].s = cur]
          /\ UNCHANGED ws
     ELSE ws' = [ws EXCEPT ![w] = cur] /\ UNCHANGED <<apc, aw>>
  /\ UNCHANGED <<shared, local, waitingG, spc, cur, pulled>>

Step(from, to) == spc = from /\ spc' = to

\* Fetch(true), and each further round of it.
CallFetch ==
  /\ Step("out", IF local[cur] = <<>> THEN "check" ELSE "take")
  /\ UNCHANGED <<wakerVars, apc, aw, cur, pulled>>

Check ==
  /\ Step("check", IF shared[cur] = <<>> THEN "prepare" ELSE "pull")
  /\ UNCHANGED <<wakerVars, apc, aw, cur, pulled>>

Prepare ==
  /\ Step("prepare", "recheck")
  /\ waitingG' = [waitingG EXCEPT ![cur] = "preparing"]
  /\ UNCHANGED <<ws, shared, local, allWakers, apc, aw, cur, pulled>>

\* Mistake: the list is not looked at again.
RecheckNothing ==
  /\ Step("recheck", "commit")
  /\ UNCHANGED <<wakerVars, apc, aw, cur, pulled>>

Recheck ==
  /\ Step("recheck", IF shared[cur] = <<>> THEN "commit" ELSE "abort")
  /\ UNCHANGED <<wakerVars, apc, aw, cur, pulled>>

Abort ==
  /\ Step("abort", "pull")
  /\ waitingG' = [waitingG EXCEPT ![cur] = None]
  /\ UNCHANGED <<ws, shared, local, allWakers, apc, aw, cur, pulled>>

\* gopark with commitSleep: the goroutine sleeps unless a waker called it off.
Commit ==
  /\ Step("commit", IF waitingG[cur] = None THEN "check" ELSE "parked")
  /\ waitingG' = [waitingG EXCEPT ![cur] = IF @ = None THEN None ELSE "g"]
  /\ UNCHANGED <<ws, shared, local, allWakers, apc, aw, cur, pulled>>

\* The shared list becomes the local one, the oldest first.
Pull ==
  /\ Step("pull", "take")
  /\ local'  = [local EXCEPT ![cur] = Reverse(shared[cur])]
  /\ shared' = [shared EXCEPT ![cur] = <<>>]
  /\ UNCHANGED <<ws, allWakers, waitingG, apc, aw, cur, pulled>>

\* What nextWaker returns goes back to its sleeper (Fetch), and is skipped if
\* it is no longer asserted; Done crosses it off its list.
Take ==
  /\ spc = "take"
  /\ LET w    == Head(local[cur])
         rest == Tail(local[cur])
         more == IF rest = <<>> THEN "check" ELSE "take"
         left == pulled.pending \ {w}
     IN  /\ local' = [local EXCEPT ![cur] = rest]
         /\ IF pulled.pending = {}
            THEN /\ ws' = [ws EXCEPT ![w] = cur]
                 /\ spc' = IF ws[w] = "asserted" THEN "fetched" ELSE more
                 /\ pulled' = [pulled EXCEPT !.w = w]
            ELSE /\ spc' = IF left = {} THEN "gone" ELSE more
                 /\ pulled' = [pulled EXCEPT !.pending = left]
                 /\ UNCHANGED ws
  /\ UNCHANGED <<shared, allWakers, waitingG, apc, aw, cur>>

\* Done: the wakers that can be taken away at once are, the owner waits for
\* the others.
CallDone ==
  /\ Step("out", "remove")
  /\ UNCHANGED <<wakerVars, apc, aw, cur, pulled>>

Unhook ==
  /\ spc = "remove" /\ allWakers[cur] # <<>>
  /\ LET w == Head(allWakers[cur])
     IN  IF ws[w] = cur
         THEN ws' = [ws EXCEPT ![w] = "nil"] /\ UNCHANGED pulled
         ELSE /\ pulled' = [pulled EXCEPT !.pending = @ \cup {w}]
              /\ UNCHANGED ws
  /\ allWakers' = [allWakers EXCEPT ![cur] = Tail(@)]
  /\ UNCHANGED <<shared, local, waitingG, apc, aw, spc, cur>>

\* Mistake: Done does not wait.
DoneAtOnce ==
  /\ spc = "remove" /\ allWakers[cur] = <<>>
  /\ spc' = "gone"
  /\ pulled' = [pulled EXCEPT !.pending = {}]
  /\ UNCHANGED <<wakerVars, apc, aw, cur>>

DoneWait ==
  /\ spc = "remove" /\ allWakers[cur] = <<>>
  /\ spc' = IF pulled.pending = {} THEN "gone"
            ELSE IF local[cur] = <<>> THEN "check" ELSE "take"
  /\ UNCHANGED <<wakerVars, apc, aw, cur, pulled>>

OwnerStep == \/ Check \/ Prepare \/ Recheck \/ Abort \/ Commit \/ Pull \/ Take
             \/ Unhook \/ DoneWait

-----------------------------------------------------------------------------
\* Where a waker is: in a list of a sleeper, or in the hands of an asserter
\* that is about to put it there.
Places(w, s) ==
  {<<"shared", i>> : i \in {i \in DOMAIN shared[s] : shared[s][i] = w}}
    \cup {<<"local", i>> : i \in {i \in DOMAIN local[s] : local[s][i] = w}}
    \cup {<<"pushed by", p>> : p \in {p \in Asserters :
              apc[p] \in {"push", "cas"} /\ aw[p].w = w /\ aw[p].s = s}}

\* A waker is in one place at most, so its next pointer is never overwritten
\* while a list runs through it, and it belongs to one sleeper only.
QueuedOnce ==
  \A w \in Wakers : \A s, t \in Sleepers :
    \A a \in Places(w, s), b \in Places(w, t) : s = t /\ a = b

\* A sleeping owner has nothing to fetch that nobody will wake it for: what is
\* in its list has an asserter that has yet to look at waitingG, and an
\* asserted waker of its sleeper is in the list or on its way.
NoLostWakeup ==
  spc = "parked" =>
    /\ shared[cur] = <<>> \/ \E p \in Asserters :
         apc[p] \in {"wake", "wakecas"} /\ aw[p].s = cur
    /\ \A i \in DOMAIN allWakers[cur] :
         ws[allWakers[cur][i]] = "asserted" => Places(allWakers[cur][i], cur) # {}
=============================================================================
