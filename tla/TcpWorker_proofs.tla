--------------------------- MODULE TcpWorker_proofs ---------------------------
(***************************************************************************)
(* The hand-over of work to the worker, for any number of threads, calls,  *)
(* notifications and segments: the mutex excludes and wakes (TMutex), a    *)
(* waker is in one place at a time and a sleeping owner has nothing to     *)
(* fetch that nobody will wake it for (Sleeper), and when the worker       *)
(* sleeps and the threads are back from their calls nothing is left        *)
(* (TcpWorker).                                                            *)
(*                                                                         *)
(* The mutex: its word alone says whether it is held.  It is 1 when it is  *)
(* free and less when it is held, so that a process that finds 1 and takes *)
(* it away in one step finds nobody inside.                                *)
(*                                                                         *)
(* The wakers: what a sleeper's lists and the asserters' hands hold        *)
(* (Held) is, waker by waker, what is asserted and hooked to the sleeper   *)
(* or waited for by Done (HeldInv, AttachedInv), and nothing is held twice *)
(* (UniqueInv).  Who is last to look wins: the owner that is about to park *)
(* sees an empty list, or sees its sleep called off, or an asserter has    *)
(* yet to look whether it sleeps (SleepInv).                               *)
(*                                                                         *)
(* The work: what is in a queue has a waker that is asserted or about to   *)
(* be, or is in the worker's hands (WorkInv).                              *)
(*                                                                         *)
(* The last part is about the timer and the keepalive, for all durations,  *)
(* times and counts; it shares no state with the rest.                     *)
(***************************************************************************)
EXTENDS TcpWorker, KeepAlive, TLAPS

-----------------------------------------------------------------------------
(* The mutex. *)

MutexTypeOK == v \in Int /\ ch \in {0, 1} /\ mpc \in [Procs -> MutexPcs]

\* The word is at most 1, and it is 1 exactly when nobody is inside.
WordTellsHeld == v <= 1 /\ (v = 1 <=> \A p \in Procs : ~At(p, "in"))

MutexInv == MutexTypeOK /\ WordTellsHeld /\ MutualExclusion

\* One step of one process.
ProcStep(p) == \/ LockAdd(p) \/ LockLoad(p) \/ LockSwap(p) \/ LockRecv(p)
               \/ TryLoad(p) \/ TryCas(p) \/ TryFail(p)
               \/ Unlock(p) \/ UnlockPost(p)

\* Nobody else moves.
LEMMA GotoOnly ==
  ASSUME MutexTypeOK, NEW p \in Procs, NEW to \in MutexPcs, Goto(p, to)
  PROVE  /\ mpc' \in [Procs -> MutexPcs]
         /\ mpc'[p] = to
         /\ \A q \in Procs : q # p => mpc'[q] = mpc[q]
BY DEF MutexTypeOK, Goto

\* Every step moves one process and leaves the rest where they were.
LEMMA StepMoves ==
  ASSUME MutexTypeOK, NEW p \in Procs, ProcStep(p)
  PROVE  /\ MutexTypeOK'
         /\ \A q \in Procs : q # p => mpc'[q] = mpc[q]
<1>1. /\ mpc' \in [Procs -> MutexPcs]
      /\ \A q \in Procs : q # p => mpc'[q] = mpc[q]
  <2>1. ASSUME NEW to \in MutexPcs, Goto(p, to)
        PROVE  /\ mpc' \in [Procs -> MutexPcs]
               /\ \A q \in Procs : q # p => mpc'[q] = mpc[q]
    BY <2>1, GotoOnly
  <2>2. \E to \in MutexPcs : Goto(p, to)
    BY DEF ProcStep, LockAdd, LockLoad, LockSwap, LockRecv, TryLoad, TryCas,
           TryFail, Unlock, UnlockPost, MutexPcs
  <2> QED BY <2>1, <2>2
<1>2. v' \in Int /\ ch' \in {0, 1}
  BY DEF MutexTypeOK, ProcStep, LockAdd, LockLoad, LockSwap, LockRecv, TryLoad,
         TryCas, TryFail, Unlock, UnlockPost
<1> QED BY <1>1, <1>2 DEF MutexTypeOK

\* What a step does to the word and to the one who takes it: it enters from
\* 1, leaves to 1, or neither enters nor leaves and keeps the word below 1.
LEMMA StepKinds ==
  ASSUME MutexInv, NEW p \in Procs, ProcStep(p)
  PROVE  \/ v = 1 /\ v' < 1 /\ At(p, "in")'
         \/ At(p, "in") /\ v' = 1 /\ ~At(p, "in")'
         \/ ~At(p, "in") /\ ~At(p, "in")' /\ (v = 1 <=> v' = 1) /\ v' <= 1
<1> USE DEF MutexInv, MutexTypeOK, WordTellsHeld, At, Goto
<1>1. CASE LockAdd(p)  BY <1>1 DEF LockAdd
<1>2. CASE LockLoad(p) BY <1>2 DEF LockLoad
<1>3. CASE LockSwap(p) BY <1>3 DEF LockSwap
<1>4. CASE LockRecv(p) BY <1>4 DEF LockRecv
<1>5. CASE TryLoad(p)  BY <1>5 DEF TryLoad
<1>6. CASE TryCas(p)   BY <1>6 DEF TryCas
<1>7. CASE TryFail(p)  BY <1>7 DEF TryFail
<1>8. CASE Unlock(p)   BY <1>8 DEF Unlock
<1>9. CASE UnlockPost(p) BY <1>9 DEF UnlockPost
<1> QED BY <1>1, <1>2, <1>3, <1>4, <1>5, <1>6, <1>7, <1>8, <1>9 DEF ProcStep

\* The mutex keeps its invariant.
LEMMA MutexInvStep ==
  ASSUME MutexInv, [MutexNext]_mutexVars
  PROVE  MutexInv'
<1>1. CASE UNCHANGED mutexVars
  BY <1>1 DEF MutexInv, MutexTypeOK, WordTellsHeld, MutualExclusion, At, mutexVars
<1>2. ASSUME NEW p \in Procs, ProcStep(p)
      PROVE  MutexInv'
  <2>1. /\ MutexTypeOK'
        /\ \A q \in Procs : q # p => mpc'[q] = mpc[q]
    BY <1>2, StepMoves DEF MutexInv
  <2>2. CASE v = 1 /\ v' < 1 /\ At(p, "in")'
    <3>1. \A q \in Procs : q # p => ~At(q, "in")'
      BY <2>1, <2>2 DEF MutexInv, WordTellsHeld, At
    <3> QED BY <2>1, <2>2, <3>1
            DEF MutexInv, MutexTypeOK, WordTellsHeld, MutualExclusion
  <2>3. CASE At(p, "in") /\ v' = 1 /\ ~At(p, "in")'
    <3>1. \A q \in Procs : ~At(q, "in")'
      BY <2>1, <2>3 DEF MutexInv, MutualExclusion, At
    <3> QED BY <2>1, <2>3, <3>1
            DEF MutexInv, MutexTypeOK, WordTellsHeld, MutualExclusion
  <2>4. CASE ~At(p, "in") /\ ~At(p, "in")' /\ (v = 1 <=> v' = 1) /\ v' <= 1
    <3>1. \A q \in Procs : At(q, "in")' <=> At(q, "in")
      BY <2>1, <2>4 DEF At
    <3> QED BY <2>1, <2>4, <3>1
            DEF MutexInv, MutexTypeOK, WordTellsHeld, MutualExclusion
  <2> QED BY <1>2, <2>2, <2>3, <2>4, StepKinds
<1> QED BY <1>1, <1>2 DEF MutexNext, LockStep, ProcStep

\* A free mutex satisfies it.
LEMMA MutexInvInit == MutexInit => MutexInv
BY DEF MutexInit, MutexInv, MutexTypeOK, WordTellsHeld, MutualExclusion, At,
       MutexPcs

\* At most one process is inside, whoever calls Lock and TryLock in whatever
\* order (tmutex.go).
THEOREM MutexExcludes == MutexSpec => []MutualExclusion
<1>1. MutexInv => MutualExclusion BY DEF MutexInv
<1> QED BY <1>1, MutexInvInit, MutexInvStep, PTL DEF MutexSpec

-----------------------------------------------------------------------------
(* Nobody waits for a token that will not come. *)

\* The second disjunct of WaiterIsWoken without the holder, whom the word
\* implies.
SomebodyWillPost ==
  (\E p \in Procs : At(p, "recv")) =>
    \/ ch = 1
    \/ v < 0
    \/ \E q \in Procs : mpc[q] \in {"load", "swap", "post"}

\* Whoever waits for a token keeps somebody who will post it.
LEMMA WillPostStep ==
  ASSUME MutexInv, SomebodyWillPost, [MutexNext]_mutexVars
  PROVE  SomebodyWillPost'
<1>1. CASE UNCHANGED mutexVars BY <1>1 DEF SomebodyWillPost, At, mutexVars
<1>2. ASSUME NEW p \in Procs, ProcStep(p)
      PROVE  SomebodyWillPost'
  <2>0. /\ MutexTypeOK'
        /\ \A q \in Procs : q # p => mpc'[q] = mpc[q]
    BY <1>2, StepMoves DEF MutexInv
  <2> USE DEF MutexInv, MutexTypeOK, SomebodyWillPost, At, Goto
  <2>1. CASE LockAdd(p)  BY <2>0, <2>1 DEF LockAdd, WordTellsHeld
  <2>2. CASE LockLoad(p) BY <2>0, <2>2 DEF LockLoad
  <2>3. CASE LockSwap(p) BY <2>0, <2>3 DEF LockSwap
  <2>4. CASE LockRecv(p) BY <2>0, <2>4 DEF LockRecv
  <2>5. CASE TryLoad(p)  BY <2>0, <2>5 DEF TryLoad
  <2>6. CASE TryCas(p)   BY <2>0, <2>6 DEF TryCas
  <2>7. CASE TryFail(p)  BY <2>0, <2>7 DEF TryFail
  <2>8. CASE Unlock(p)   BY <2>0, <2>8 DEF Unlock
  <2>9. CASE UnlockPost(p) BY <2>0, <2>9 DEF UnlockPost
  <2> QED BY <1>2, <2>1, <2>2, <2>3, <2>4, <2>5, <2>6, <2>7, <2>8, <2>9
          DEF ProcStep
<1> QED BY <1>1, <1>2 DEF MutexNext, LockStep, ProcStep

\* A locker that waits on the channel is not forgotten (tmutex.go:22-27).
THEOREM MutexWakes == MutexSpec => []WaiterIsWoken
<1>1. MutexInit => MutexInv /\ SomebodyWillPost
  BY MutexInvInit DEF MutexInit, SomebodyWillPost, At
<1>2. MutexInv /\ SomebodyWillPost => WaiterIsWoken
  BY DEF MutexInv, MutexTypeOK, WordTellsHeld, SomebodyWillPost, WaiterIsWoken
<1> QED BY <1>1, <1>2, MutexInvStep, WillPostStep, PTL DEF MutexSpec
-----------------------------------------------------------------------------
(* The invariant. *)

OwnerPcs  == {"out", "check", "prepare", "recheck", "abort", "commit", "parked", "pull",
              "take", "fetched", "remove", "gone"}
FetchPcs  == {"check", "prepare", "recheck", "abort", "commit", "parked", "pull", "take"}
AssertPcs == {None, "assert", "swap", "push", "cas", "wake", "wakecas"}
GValues   == {None, "preparing", "g"}
CallOf    == [w : Wakers \cup {None}, s : Sleepers \cup {None},
              head : Wakers \cup {None}, g : GValues]
PulledOf  == [w : Wakers \cup {None}, pending : SUBSET Wakers]

ListsOK == /\ shared \in [Sleepers -> Seq(Wakers)] /\ local \in [Sleepers -> Seq(Wakers)]
           /\ allWakers \in [Sleepers -> Seq(Wakers)]

AsserterOK(p) ==
  /\ apc[p] # None => aw[p].w \in Wakers
  /\ apc[p] \in {"push", "cas", "wake", "wakecas"} => aw[p].s \in Sleepers

SleepTypeOK ==
  /\ ws \in [Wakers -> {"nil", "asserted"} \cup Sleepers] /\ ListsOK
  /\ waitingG \in [Sleepers -> GValues]
  /\ apc \in [Asserters -> AssertPcs] /\ aw \in [Asserters -> CallOf]
  /\ \A p \in Asserters : AsserterOK(p)
  /\ spc \in OwnerPcs /\ cur \in Sleepers /\ pulled \in PulledOf

ProgTypeOK ==
  /\ sndQueue \in Nat /\ segments \in Nat /\ notifyFlags \subseteq Notifications
  /\ tpc \in [Threads -> {"idle", "try", "write", "unlock"}]

InList(q, w) == \E i \in DOMAIN q : q[i] = w
Pushes(p, w, s) == apc[p] \in {"push", "cas"} /\ aw[p].w = w /\ aw[p].s = s

\* w is in a list of s or in the hands of an asserter.
Held(w, s) == \/ InList(shared[s], w) \/ InList(local[s], w)
              \/ \E p \in Asserters : Pushes(p, w, s)

Hooked(w) == InList(allWakers[cur], w)

\* Only asserted wakers of the sleeper in use are held, and all of them are;
\* the others are hooked to it, or free.
HeldInv ==
  \A w \in Wakers : \A s \in Sleepers :
    Held(w, s) => /\ s = cur /\ ws[w] = "asserted"
                  /\ Hooked(w) \/ w \in pulled.pending
AttachedInv ==
  \A w \in Wakers :
    /\ Hooked(w) => ws[w] = cur \/ Held(w, cur)
    /\ w \in pulled.pending => Held(w, cur)
    /\ ws[w] \in Sleepers => ws[w] = cur /\ Hooked(w)

\* Nothing is held twice.
Distinct(q) == \A i, j \in DOMAIN q : q[i] = q[j] => i = j
UniqueOf(w, s) ==
  /\ ~(InList(shared[s], w) /\ InList(local[s], w))
  /\ \A p \in Asserters :
       Pushes(p, w, s) => /\ ~InList(shared[s], w) /\ ~InList(local[s], w)
                          /\ \A q \in Asserters : Pushes(q, w, s) => p = q
UniqueInv ==
  \A s \in Sleepers : /\ Distinct(shared[s]) /\ Distinct(local[s])
                      /\ \A w \in Wakers : UniqueOf(w, s)

StoreInv == HeldInv /\ AttachedInv /\ UniqueInv

\* Which wakers the sleepers have, and what their owner is doing.
Added3 == {<<>>, <<"snd">>, <<"seg", "snd">>, <<"note", "seg", "snd">>}
Added2 == {<<>>, <<"note">>, <<"seg", "note">>}
HookInv ==
  /\ \A s \in Sleepers : s # cur => allWakers[s] = <<>>
  /\ wpc = "add" => allWakers[cur] \in IF cur = "main" THEN Added3 ELSE Added2
  /\ wpc = "gone" => cur = "handshake" /\ allWakers[cur] \in Added2
  /\ wpc = "done" => cur = "handshake"
  /\ wpc \in {"unlock", "fetch", "lock", "handle", "done"} =>
       allWakers[cur] = IF cur = "main" THEN <<"note", "seg", "snd">> ELSE <<"seg", "note">>
PhaseInv ==
  /\ wpc \in {"add", "unlock", "fetch", "lock", "handle", "done", "gone"}
  /\ wpc \in {"add", "unlock", "fetch", "done"} => spc = "out"
  /\ wpc \in {"lock", "handle"} => spc \in FetchPcs \cup {"fetched"}
  /\ wpc = "gone" => spc \in FetchPcs \cup {"remove", "gone"}
  /\ pulled.pending # {} => wpc = "gone" /\ spc # "gone"
  /\ wpc = "gone" /\ spc \in FetchPcs => pulled.pending # {}
  /\ wpc = "gone" /\ spc # "remove" => allWakers[cur] = <<>>
  /\ apc[Worker] # None => spc = "out"

\* What the owner knows of its lists, and who has said that it sleeps.
ListInv ==
  /\ spc = "take" => local[cur] # <<>>
  /\ spc \in {"pull", "abort"} => shared[cur] # <<>>
  /\ spc \in FetchPcs \ {"take"} => local[cur] = <<>>
WaitInv ==
  /\ \A s \in Sleepers :
       /\ waitingG[s] = "g" => s = cur /\ spc = "parked"
       /\ waitingG[s] = "preparing" => s = cur /\ spc \in {"recheck", "commit", "abort"}
  /\ spc = "parked" => waitingG[cur] = "g"

\* It does not go to sleep over something that nobody will tell it.
SleepInv ==
  spc \in {"commit", "parked"} =>
    \/ shared[cur] = <<>> \/ waitingG[cur] = None
    \/ \E p \in Asserters : apc[p] \in {"wake", "wakecas"} /\ aw[p].s = cur

\* w is asserted, or about to be.
Coming(w) == \/ ws[w] = "asserted"
             \/ \E p \in Asserters : apc[p] \in {"assert", "swap"} /\ aw[p].w = w

\* The worker will handle w, or is about to.
Pending(w) == Coming(w) \/ (spc = "fetched" /\ pulled.w = w)

\* Whatever is left in the queues is pending.
WorkInv ==
  /\ sndQueue # 0 => /\ cur = "main"
                     /\ Pending("snd") \/ \E t \in Threads : tpc[t] \in {"try", "write"}
  /\ segments # 0 => Pending("seg")
  /\ notifyFlags # {} => Pending("note")

\* The inductive invariant.
WorkerInv ==
  /\ SleepTypeOK /\ ProgTypeOK /\ StoreInv /\ HookInv /\ PhaseInv
  /\ ListInv /\ WaitInv /\ SleepInv /\ WorkInv

-----------------------------------------------------------------------------
(* Lists. *)

\* A list with one more in front.
LEMMA ConsFacts ==
  ASSUME NEW S, NEW q \in Seq(S), NEW w \in S
  PROVE  /\ <<w>> \o q \in Seq(S) /\ <<w>> \o q # <<>>
         /\ \A x : InList(<<w>> \o q, x) <=> (x = w \/ InList(q, x))
         /\ Distinct(q) /\ ~InList(q, w) => Distinct(<<w>> \o q)
<1>1. PICK c : c = <<w>> \o q
  OBVIOUS
<1>2. /\ c \in Seq(S) /\ Len(c) = Len(q) + 1 /\ Len(q) \in Nat
      /\ \A i \in 1..(Len(q) + 1) : c[i] = IF i = 1 THEN w ELSE q[i - 1]
  BY <1>1
<1>3. DOMAIN c = 1..(Len(q) + 1) /\ DOMAIN q = 1..Len(q)
  BY <1>2
<1>4. c # <<>>
  BY <1>2
<1>5. \A x : InList(c, x) <=> (x = w \/ InList(q, x))
  <2>1. ASSUME NEW x, InList(c, x)
        PROVE  x = w \/ InList(q, x)
    BY <1>2, <1>3, <2>1 DEF InList
  <2>2. ASSUME NEW x, InList(q, x)
        PROVE  InList(c, x)
    <3>1. PICK i \in 1..Len(q) : q[i] = x
      BY <1>3, <2>2 DEF InList
    <3>2. c[i + 1] = x /\ i + 1 \in DOMAIN c
      BY <1>2, <1>3, <3>1
    <3> QED BY <3>2 DEF InList
  <2>3. InList(c, w)
    BY <1>2, <1>3 DEF InList
  <2> QED BY <2>1, <2>2, <2>3
<1>6. ASSUME Distinct(q), ~InList(q, w)
      PROVE  Distinct(c)
  <2> SUFFICES ASSUME NEW i \in DOMAIN c, NEW j \in DOMAIN c, c[i] = c[j]
               PROVE  i = j
    BY DEF Distinct
  <2>1. \A k \in DOMAIN q : q[k] # w
    BY <1>6 DEF InList
  <2>2. \A k, m \in DOMAIN q : q[k] = q[m] => k = m
    BY <1>6 DEF Distinct
  <2>3. CASE i = 1 \/ j = 1
    <3>1. ASSUME NEW k \in DOMAIN c, k # 1
          PROVE  c[k] # w
      <4>1. k - 1 \in DOMAIN q /\ c[k] = q[k - 1]
        BY <1>2, <1>3, <3>1
      <4> QED BY <2>1, <4>1
    <3>2. c[1] = w
      BY <1>2, <1>3
    <3> QED BY <2>3, <3>1, <3>2
  <2>4. CASE i # 1 /\ j # 1
    <3>1. i - 1 \in DOMAIN q /\ j - 1 \in DOMAIN q /\ q[i - 1] = q[j - 1]
      BY <1>2, <1>3, <2>4
    <3>2. i - 1 = j - 1
      BY <2>2, <3>1
    <3> QED BY <1>2, <1>3, <3>2
  <2> QED BY <2>3, <2>4
<1> QED BY <1>1, <1>2, <1>4, <1>5, <1>6

\* A list the other way round.
LEMMA ReverseFacts ==
  ASSUME NEW S, NEW q \in Seq(S)
  PROVE  /\ Reverse(q) \in Seq(S)
         /\ \A x : InList(Reverse(q), x) <=> InList(q, x)
         /\ Distinct(q) => Distinct(Reverse(q))
         /\ q # <<>> => Reverse(q) # <<>>
<1>1. PICK c : c = Reverse(q)
  OBVIOUS
<1>2. PICK n : n = Len(q)
  OBVIOUS
<1>3. n \in Nat /\ DOMAIN q = 1..n /\ \A i \in 1..n : q[i] \in S
  BY <1>2
<1>4. c = [i \in 1..n |-> q[(n - i) + 1]]
  BY <1>1, <1>2 DEF Reverse
<1>5. c \in Seq(S) /\ Len(c) = n /\ DOMAIN c = 1..n /\ \A i \in 1..n : c[i] = q[(n - i) + 1]
  <2>1. \A i \in 1..n : (n - i) + 1 \in 1..n
    BY <1>3
  <2>2. c \in [1..n -> S]
    BY <1>3, <1>4, <2>1
  <2> QED BY <1>3, <1>4, <2>2
<1>6. \A i \in 1..n : (n - i) + 1 \in 1..n /\ c[(n - i) + 1] = q[i]
  <2> SUFFICES ASSUME NEW i \in 1..n
               PROVE  (n - i) + 1 \in 1..n /\ c[(n - i) + 1] = q[i]
    OBVIOUS
  <2>1. PICK j : j = (n - i) + 1
    OBVIOUS
  <2>2. j \in 1..n /\ (n - j) + 1 = i
    BY <1>3, <2>1
  <2> QED BY <1>5, <2>1, <2>2
<1>7. \A x : InList(c, x) <=> InList(q, x)
  BY <1>3, <1>5, <1>6 DEF InList
<1>8. ASSUME Distinct(q)
      PROVE  Distinct(c)
  <2> SUFFICES ASSUME NEW i \in 1..n, NEW j \in 1..n, c[i] = c[j]
               PROVE  i = j
    BY <1>5 DEF Distinct
  <2>1. /\ (n - i) + 1 \in DOMAIN q /\ (n - j) + 1 \in DOMAIN q
        /\ q[(n - i) + 1] = q[(n - j) + 1]
    BY <1>3, <1>5, <1>6
  <2>2. (n - i) + 1 = (n - j) + 1
    BY <1>8, <2>1 DEF Distinct
  <2> QED BY <1>3, <2>2
<1>9. q # <<>> => c # <<>>
  BY <1>2, <1>5
<1> QED BY <1>1, <1>5, <1>7, <1>8, <1>9

\* A list without its first.
LEMMA TailFacts ==
  ASSUME NEW S, NEW q \in Seq(S), q # <<>>
  PROVE  /\ Head(q) \in S /\ Tail(q) \in Seq(S)
         /\ \A x : InList(q, x) <=> (x = Head(q) \/ InList(Tail(q), x))
         /\ Distinct(q) => Distinct(Tail(q)) /\ ~InList(Tail(q), Head(q))
<1>1. PICK c : c = Tail(q)
  OBVIOUS
<1>2. PICK h : h = Head(q)
  OBVIOUS
<1>3. /\ Len(q) \in Nat \ {0} /\ DOMAIN q = 1..Len(q)
      /\ c \in Seq(S) /\ Len(c) = Len(q) - 1 /\ DOMAIN c = 1..(Len(q) - 1)
      /\ h \in S /\ q[1] = h
      /\ \A i \in 1..(Len(q) - 1) : c[i] = q[i + 1]
  BY <1>1, <1>2
<1>4. ASSUME NEW x, InList(q, x)
      PROVE  x = h \/ InList(c, x)
  <2>1. PICK i \in 1..Len(q) : q[i] = x
    BY <1>3, <1>4 DEF InList
  <2>2. CASE i = 1
    BY <1>3, <2>1, <2>2
  <2>3. CASE i # 1
    <3>1. i - 1 \in 1..(Len(q) - 1) /\ (i - 1) + 1 = i
      BY <1>3, <2>3
    <3>2. c[i - 1] = x
      BY <1>3, <2>1, <3>1
    <3> QED BY <1>3, <3>1, <3>2 DEF InList
  <2> QED BY <2>2, <2>3
<1>5. ASSUME NEW x, x = h \/ InList(c, x)
      PROVE  InList(q, x)
  <2>1. CASE x = h
    BY <1>3, <2>1 DEF InList
  <2>2. CASE InList(c, x)
    <3>1. PICK i \in 1..(Len(q) - 1) : c[i] = x
      BY <1>3, <2>2 DEF InList
    <3>2. i + 1 \in DOMAIN q /\ q[i + 1] = x
      BY <1>3, <3>1
    <3> QED BY <3>2 DEF InList
  <2> QED BY <1>5, <2>1, <2>2
<1>6. ASSUME Distinct(q)
      PROVE  Distinct(c) /\ ~InList(c, h)
  <2>1. \A i, j \in 1..Len(q) : q[i] = q[j] => i = j
    BY <1>3, <1>6 DEF Distinct
  <2>2. Distinct(c)
    <3> SUFFICES ASSUME NEW i \in 1..(Len(q) - 1), NEW j \in 1..(Len(q) - 1), c[i] = c[j]
                 PROVE  i = j
      BY <1>3 DEF Distinct
    <3>1. i + 1 \in 1..Len(q) /\ j + 1 \in 1..Len(q) /\ q[i + 1] = q[j + 1]
      BY <1>3
    <3>2. i + 1 = j + 1
      BY <2>1, <3>1
    <3> QED BY <3>2
  <2>3. ~InList(c, h)
    <3> SUFFICES ASSUME NEW i \in 1..(Len(q) - 1), c[i] = h
                 PROVE  FALSE
      BY <1>3 DEF InList
    <3>1. i + 1 \in 1..Len(q) /\ 1 \in 1..Len(q) /\ q[i + 1] = q[1]
      BY <1>3
    <3>2. i + 1 = 1
      BY <2>1, <3>1
    <3> QED BY <3>2
  <2> QED BY <2>2, <2>3
<1> QED BY <1>1, <1>2, <1>3, <1>4, <1>5, <1>6

\* The empty list, and how it is told.
LEMMA EmptyFacts ==
  /\ \A x : ~InList(<<>>, x)
  /\ Distinct(<<>>)
  /\ \A S : \A q \in Seq(S) : (\A x \in S : ~InList(q, x)) => q = <<>>
<1>1. DOMAIN <<>> = {}
  OBVIOUS
<1>2. ASSUME NEW S, NEW q \in Seq(S), q # <<>>
      PROVE  \E x \in S : InList(q, x)
  <2>1. 1 \in DOMAIN q /\ q[1] \in S
    BY <1>2
  <2> QED BY <2>1 DEF InList
<1> QED BY <1>1, <1>2 DEF InList, Distinct

\* The lists of wakers of the two sleepers.
LEMMA HookLists ==
  /\ \A x : InList(<<"note", "seg", "snd">>, x) <=> x \in {"note", "seg", "snd"}
  /\ \A x : InList(<<"seg", "snd">>, x) <=> x \in {"seg", "snd"}
  /\ \A x : InList(<<"snd">>, x) <=> x = "snd"
  /\ \A x : InList(<<"seg", "note">>, x) <=> x \in {"seg", "note"}
  /\ \A x : InList(<<"note">>, x) <=> x = "note"
<1>1. DOMAIN <<"note", "seg", "snd">> = {1, 2, 3} /\ DOMAIN <<"seg", "note">> = {1, 2}
  OBVIOUS
<1>2. DOMAIN <<"seg", "snd">> = {1, 2} /\ DOMAIN <<"snd">> = {1} /\ DOMAIN <<"note">> = {1}
  OBVIOUS
<1> QED BY <1>1, <1>2 DEF InList

-----------------------------------------------------------------------------
(* Asserters. *)

\* What is said of the sleepers, their owner and the asserters.
SleeperInv == /\ SleepTypeOK /\ StoreInv /\ HookInv /\ PhaseInv
              /\ ListInv /\ WaitInv /\ SleepInv

\* The names of the worker's world.
LEMMA Names ==
  /\ Worker \in Asserters /\ Threads \subseteq Asserters
  /\ Asserters = Procs /\ Worker \notin Threads
  /\ Wakers = {"snd", "seg", "note"} /\ Sleepers = {"handshake", "main"}
  /\ None \notin Wakers /\ None \notin Sleepers
  /\ "nil" \notin Sleepers /\ "asserted" \notin Sleepers
<1>1. /\ Asserters = Threads \cup {Worker} /\ Asserters = Procs /\ Worker \notin Threads
      /\ Wakers = {"snd", "seg", "note"} /\ Sleepers = {"handshake", "main"}
  BY WorkerAssumption, Zenon
<1> QED BY <1>1 DEF None

\* Asserter p goes to `there' with d.
Moves(p, there, d) ==
  /\ apc' \in [Asserters -> AssertPcs] /\ aw' \in [Asserters -> CallOf]
  /\ \A q \in Asserters : AsserterOK(q)'
  /\ apc'[p] = there /\ aw'[p] = d
  /\ \A q \in Asserters : q # p => apc'[q] = apc[q] /\ aw'[q] = aw[q]

\* A change of one place of apc and of aw is a move.
LEMMA MovesFacts ==
  ASSUME SleepTypeOK, NEW p \in Asserters, NEW there \in AssertPcs, NEW d \in CallOf,
         apc' = [apc EXCEPT ![p] = there], aw' = [aw EXCEPT ![p] = d],
         there # None => d.w \in Wakers,
         there \in {"push", "cas", "wake", "wakecas"} => d.s \in Sleepers
  PROVE  Moves(p, there, d)
<1>1. apc \in [Asserters -> AssertPcs] /\ aw \in [Asserters -> CallOf]
  BY DEF SleepTypeOK
<1>2. /\ apc' \in [Asserters -> AssertPcs] /\ aw' \in [Asserters -> CallOf]
      /\ apc'[p] = there /\ aw'[p] = d
      /\ \A q \in Asserters : q # p => apc'[q] = apc[q] /\ aw'[q] = aw[q]
  BY <1>1
<1>3. ASSUME NEW q \in Asserters
      PROVE  AsserterOK(q)'
  <2>1. AsserterOK(q)
    BY DEF SleepTypeOK
  <2>2. CASE q = p
    BY <1>2, <2>2 DEF AsserterOK, None
  <2>3. CASE q # p
    <3>1. apc'[q] = apc[q] /\ aw'[q] = aw[q]
      BY <1>2, <2>3
    <3> QED BY <2>1, <3>1 DEF AsserterOK, None
  <2> QED BY <2>2, <2>3
<1> QED BY <1>2, <1>3 DEF Moves

\* Who is in the hands of whom stays as it is.
SamePushes ==
  \A q \in Asserters : \A w \in Wakers : \A s \in Sleepers :
    Pushes(q, w, s)' <=> Pushes(q, w, s)

\* A move that neither takes a waker into a hand nor out of it.
LEMMA MovesSame ==
  ASSUME NEW p \in Asserters, NEW there, NEW d, Moves(p, there, d),
         \/ /\ apc[p] \in {"push", "cas"} /\ there \in {"push", "cas"}
            /\ d.w = aw[p].w /\ d.s = aw[p].s
         \/ apc[p] \notin {"push", "cas"} /\ there \notin {"push", "cas"}
  PROVE  SamePushes
<1> SUFFICES ASSUME NEW q \in Asserters, NEW w \in Wakers, NEW s \in Sleepers
             PROVE  Pushes(q, w, s)' <=> Pushes(q, w, s)
  BY DEF SamePushes
<1>1. CASE q = p
  <2>1. apc'[q] = there /\ aw'[q] = d
    BY <1>1 DEF Moves
  <2> QED BY <1>1, <2>1 DEF Pushes
<1>2. CASE q # p
  <2>1. apc'[q] = apc[q] /\ aw'[q] = aw[q]
    BY <1>2 DEF Moves
  <2> QED BY <2>1 DEF Pushes
<1> QED BY <1>1, <1>2

\* As long as the lists and the hands hold what they held, all is well.
LEMMA StoreSame ==
  ASSUME StoreInv, cur \in Sleepers, SamePushes,
         UNCHANGED <<ws, shared, local, allWakers, cur>>, pulled'.pending = pulled.pending
  PROVE  StoreInv'
<1>1. /\ ws' = ws /\ shared' = shared /\ local' = local /\ allWakers' = allWakers
      /\ cur' = cur
  OBVIOUS
<1>2. ASSUME NEW w \in Wakers, NEW s \in Sleepers
      PROVE  Held(w, s)' <=> Held(w, s)
  BY <1>1 DEF SamePushes, Held, InList
<1>3. \A w \in Wakers : Hooked(w)' <=> Hooked(w)
  BY <1>1 DEF Hooked, InList
<1>4. HeldInv'
  <2> SUFFICES ASSUME NEW w \in Wakers, NEW s \in Sleepers, Held(w, s)'
               PROVE  /\ s = cur' /\ ws'[w] = "asserted"
                      /\ Hooked(w)' \/ w \in pulled'.pending
    BY DEF HeldInv
  <2>1. /\ s = cur /\ ws[w] = "asserted" /\ (Hooked(w) \/ w \in pulled.pending)
    BY <1>2 DEF StoreInv, HeldInv
  <2> QED BY <1>1, <1>3, <2>1
<1>5. AttachedInv'
  <2> SUFFICES ASSUME NEW w \in Wakers
               PROVE  /\ Hooked(w)' => ws'[w] = cur' \/ Held(w, cur)'
                      /\ w \in pulled'.pending => Held(w, cur)'
                      /\ ws'[w] \in Sleepers => ws'[w] = cur' /\ Hooked(w)'
    BY DEF AttachedInv
  <2>1. /\ Hooked(w) => ws[w] = cur \/ Held(w, cur)
        /\ w \in pulled.pending => Held(w, cur)
        /\ ws[w] \in Sleepers => ws[w] = cur /\ Hooked(w)
    BY DEF StoreInv, AttachedInv
  <2>2. Held(w, cur)' <=> Held(w, cur)
    BY <1>1 DEF SamePushes, Held, InList
  <2> QED BY <1>1, <1>3, <2>1, <2>2
<1>6. UniqueInv'
  <2> SUFFICES ASSUME NEW s \in Sleepers
               PROVE  /\ Distinct(shared'[s]) /\ Distinct(local'[s])
                      /\ \A w \in Wakers : UniqueOf(w, s)'
    BY DEF UniqueInv, Distinct
  <2>1. /\ Distinct(shared[s]) /\ Distinct(local[s]) /\ \A w \in Wakers : UniqueOf(w, s)
    BY DEF StoreInv, UniqueInv
  <2>2. ASSUME NEW w \in Wakers
        PROVE  UniqueOf(w, s)'
    <3>1. UniqueOf(w, s)
      BY <2>1
    <3> QED BY <1>1, <3>1 DEF SamePushes, UniqueOf, InList
  <2> QED BY <1>1, <2>1, <2>2
<1> QED BY <1>4, <1>5, <1>6 DEF StoreInv

\* What the owner is doing does not depend on what asserters do, as long as
\* they take nothing away.
LEMMA CtlSame ==
  ASSUME SleeperInv, UNCHANGED <<local, allWakers, cur, pulled, wpc, spc, waitingG>>,
         apc'[Worker] # None => apc[Worker] # None,
         shared[cur] # <<>> => shared'[cur] # <<>>
  PROVE  HookInv' /\ PhaseInv' /\ ListInv' /\ WaitInv'
<1>1. /\ local' = local /\ allWakers' = allWakers /\ cur' = cur /\ pulled' = pulled
      /\ wpc' = wpc /\ spc' = spc /\ waitingG' = waitingG
  OBVIOUS
<1>2. HookInv'
  BY <1>1 DEF SleeperInv, HookInv, Added3, Added2
<1>3. PhaseInv'
  BY <1>1 DEF SleeperInv, PhaseInv, FetchPcs, None
<1>4. ListInv'
  BY <1>1 DEF SleeperInv, ListInv, FetchPcs
<1>5. WaitInv'
  BY <1>1 DEF SleeperInv, WaitInv
<1> QED BY <1>2, <1>3, <1>4, <1>5

\* Who is bound to wake the owner.
Wakes(p, s) == apc[p] \in {"wake", "wakecas"} /\ aw[p].s = s

\* Who was bound to wake the owner still is.
LEMMA SleepSame ==
  ASSUME SleepInv, UNCHANGED <<cur, spc, waitingG, shared>>, NEW c, c = cur,
         \A q \in Asserters : Wakes(q, c) => Wakes(q, c)' \/ waitingG[c] = None
  PROVE  SleepInv'
<1> SUFFICES ASSUME spc' \in {"commit", "parked"}
             PROVE  \/ shared'[c] = <<>> \/ waitingG'[c] = None
                    \/ \E q \in Asserters : Wakes(q, c)'
  BY DEF SleepInv, Wakes, None
<1>1. \/ shared[c] = <<>> \/ waitingG[c] = None
      \/ \E q \in Asserters : Wakes(q, c)
  BY DEF SleepInv, Wakes
<1> QED BY <1>1

\* The types that a step of an asserter keeps.
LEMMA TypeMoves ==
  ASSUME SleepTypeOK, NEW p \in Asserters, NEW there, NEW d, Moves(p, there, d),
         ws' \in [Wakers -> {"nil", "asserted"} \cup Sleepers],
         shared' \in [Sleepers -> Seq(Wakers)],
         waitingG' \in [Sleepers -> GValues], spc' \in OwnerPcs,
         UNCHANGED <<local, allWakers, cur, pulled>>
  PROVE  SleepTypeOK'
<1>1. ListsOK'
  BY DEF SleepTypeOK, ListsOK
<1>2. cur' \in Sleepers /\ pulled' \in PulledOf
  BY DEF SleepTypeOK
<1>3. /\ apc' \in [Asserters -> AssertPcs] /\ aw' \in [Asserters -> CallOf]
      /\ \A q \in Asserters : AsserterOK(q)'
  BY DEF Moves
<1> QED BY <1>1, <1>2, <1>3 DEF SleepTypeOK, AssertPcs, CallOf, GValues, OwnerPcs, PulledOf, None

\* A step of an asserter that only moves on.
LEMMA OnlyMoves ==
  ASSUME SleeperInv, NEW p \in Asserters, NEW there, NEW d, Moves(p, there, d),
         UNCHANGED <<ws, shared, local, allWakers, waitingG, spc, cur, pulled, wpc>>,
         \/ /\ apc[p] \in {"push", "cas"} /\ there \in {"push", "cas"}
            /\ d.w = aw[p].w /\ d.s = aw[p].s
         \/ apc[p] \notin {"push", "cas"} /\ there \notin {"push", "cas"},
         p = Worker /\ there # None => apc[p] # None,
         NEW c, c = cur,
         Wakes(p, c) => \/ there \in {"wake", "wakecas"} /\ d.s = aw[p].s
                        \/ waitingG[c] = None
  PROVE  SleeperInv'
<1>1. SleepTypeOK'
  <2>1. /\ ws \in [Wakers -> {"nil", "asserted"} \cup Sleepers]
        /\ shared \in [Sleepers -> Seq(Wakers)]
        /\ waitingG \in [Sleepers -> GValues] /\ spc \in OwnerPcs
    BY DEF SleeperInv, SleepTypeOK, ListsOK
  <2>2. /\ ws' \in [Wakers -> {"nil", "asserted"} \cup Sleepers]
        /\ shared' \in [Sleepers -> Seq(Wakers)]
        /\ waitingG' \in [Sleepers -> GValues] /\ spc' \in OwnerPcs
    BY <2>1
  <2> QED BY <2>2, TypeMoves DEF SleeperInv
<1>2. StoreInv'
  <2>1. SamePushes
    BY MovesSame
  <2>2. cur \in Sleepers /\ StoreInv
    BY DEF SleeperInv, SleepTypeOK
  <2> QED BY <2>1, <2>2, StoreSame
<1>3. HookInv' /\ PhaseInv' /\ ListInv' /\ WaitInv'
  <2>1. apc'[Worker] # None => apc[Worker] # None
    BY Names DEF Moves
  <2> QED BY <2>1, CtlSame
<1>4. SleepInv'
  <2>1. ASSUME NEW q \in Asserters, Wakes(q, c)
        PROVE  Wakes(q, c)' \/ waitingG[c] = None
    <3>1. CASE q = p
      BY <2>1, <3>1 DEF Moves, Wakes
    <3>2. CASE q # p
      BY <2>1, <3>2 DEF Moves, Wakes
    <3> QED BY <3>1, <3>2
  <2> QED BY <2>1, SleepSame DEF SleeperInv
<1> QED BY <1>1, <1>2, <1>3, <1>4 DEF SleeperInv

\* The calls that asserters make.
LEMMA CallTypes ==
  ASSUME SleepTypeOK, NEW p \in Asserters
  PROVE  /\ aw[p] \in CallOf /\ NoCall \in CallOf /\ AsserterOK(p)
         /\ apc[p] \in AssertPcs
         /\ \A w \in Wakers : [aw[p] EXCEPT !.w = w] \in CallOf
         /\ \A s \in Sleepers : [aw[p] EXCEPT !.s = s] \in CallOf
         /\ \A h \in Wakers \cup {None} : [aw[p] EXCEPT !.head = h] \in CallOf
         /\ \A g \in GValues : [aw[p] EXCEPT !.g = g] \in CallOf
<1>1. aw[p] \in CallOf /\ AsserterOK(p) /\ apc[p] \in AssertPcs
  BY DEF SleepTypeOK
<1>2. NoCall \in CallOf
  BY DEF NoCall, CallOf, GValues, None
<1> QED BY <1>1, <1>2 DEF CallOf

\* Assert is called.
LEMMA CallAssertMoves ==
  ASSUME SleepTypeOK, NEW p \in Asserters, NEW w \in Wakers, CallAssert(p, w)
  PROVE  /\ Moves(p, "assert", [aw[p] EXCEPT !.w = w]) /\ apc[p] = None
<1>1. [aw[p] EXCEPT !.w = w] \in CallOf /\ [aw[p] EXCEPT !.w = w].w = w
  BY CallTypes DEF CallOf
<1>2. PICK d : d = [aw[p] EXCEPT !.w = w]
  OBVIOUS
<1>3. /\ apc' = [apc EXCEPT ![p] = "assert"] /\ aw' = [aw EXCEPT ![p] = d] /\ apc[p] = None
  BY <1>2 DEF CallAssert, Move
<1>4. "assert" \in AssertPcs /\ "assert" \notin {"push", "cas", "wake", "wakecas"}
  BY DEF AssertPcs
<1>5. Moves(p, "assert", d)
  BY <1>1, <1>2, <1>3, <1>4, MovesFacts
<1> QED BY <1>2, <1>3, <1>5

\* A return from Assert.
LEMMA ReturnMoves ==
  ASSUME SleepTypeOK, NEW p \in Asserters, Return(p)
  PROVE  Moves(p, None, NoCall)
<1>1. NoCall \in CallOf
  BY CallTypes
<1>2. apc' = [apc EXCEPT ![p] = None] /\ aw' = [aw EXCEPT ![p] = NoCall]
  BY DEF Return, Move
<1>3. None \in AssertPcs /\ None \notin {"push", "cas", "wake", "wakecas"}
  BY DEF AssertPcs, None
<1> QED BY <1>1, <1>2, <1>3, MovesFacts

\* A step to another pc with the same call.
LEMMA MoveMoves ==
  ASSUME SleepTypeOK, NEW p \in Asserters, NEW there \in AssertPcs, Move(p, there), aw' = aw,
         apc[p] # None,
         there \in {"push", "cas", "wake", "wakecas"} =>
           apc[p] \in {"push", "cas", "wake", "wakecas"}
  PROVE  Moves(p, there, aw[p])
<1>1. aw[p] \in CallOf /\ AsserterOK(p) /\ aw \in [Asserters -> CallOf]
  BY DEF SleepTypeOK
<1>2. apc' = [apc EXCEPT ![p] = there] /\ aw' = [aw EXCEPT ![p] = aw[p]]
  BY <1>1 DEF Move
<1>3. /\ aw[p].w \in Wakers
      /\ there \in {"push", "cas", "wake", "wakecas"} => aw[p].s \in Sleepers
  BY <1>1 DEF AsserterOK
<1> QED BY <1>1, <1>2, <1>3, MovesFacts

-----------------------------------------------------------------------------
(* The steps of Assert. *)

\* The first look of Assert.
LEMMA AssertLoadStep ==
  ASSUME SleeperInv, NEW p \in Asserters, AssertLoad(p), wpc' = wpc
  PROVE  SleeperInv'
<1>1. SleepTypeOK /\ apc[p] = "assert"
  BY DEF SleeperInv, AssertLoad
<1>2. PICK c : c = cur
  OBVIOUS
<1>3. ~Wakes(p, c) /\ apc[p] \notin {"push", "cas"} /\ apc[p] # None
  BY <1>1 DEF Wakes, None
<1>4. UNCHANGED <<ws, shared, local, allWakers, waitingG, spc, cur, pulled, wpc>>
  BY DEF AssertLoad, wakerVars
<1>5. CASE ws[aw[p].w] = "asserted"
  <2>1. Moves(p, None, NoCall)
    BY <1>1, <1>5, ReturnMoves DEF AssertLoad
  <2>2. None \notin {"push", "cas"}
    BY DEF None
  <2> QED BY <1>2, <1>3, <1>4, <2>1, <2>2, OnlyMoves
<1>6. CASE ws[aw[p].w] # "asserted"
  <2>1. Move(p, "swap") /\ aw' = aw
    BY <1>6 DEF AssertLoad
  <2>2. Moves(p, "swap", aw[p])
    BY <1>1, <1>3, <2>1, MoveMoves DEF AssertPcs
  <2>3. "swap" \notin {"push", "cas"}
    OBVIOUS
  <2> QED BY <1>2, <1>3, <1>4, <2>2, <2>3, OnlyMoves
<1> QED BY <1>5, <1>6

\* The head of the list is read before it is replaced.
LEMMA PushLoadStep ==
  ASSUME SleeperInv, NEW p \in Asserters, PushLoad(p), wpc' = wpc
  PROVE  SleeperInv'
<1>1. SleepTypeOK /\ apc[p] = "push"
  BY DEF SleeperInv, PushLoad
<1>2. PICK c : c = cur
  OBVIOUS
<1>3. ~Wakes(p, c) /\ apc[p] \in {"push", "cas"} /\ apc[p] # None
  BY <1>1 DEF Wakes, None
<1>4. UNCHANGED <<ws, shared, local, allWakers, waitingG, spc, cur, pulled, wpc>>
  BY DEF PushLoad, wakerVars
<1>5. PICK h : h = Top(aw[p].s)
  OBVIOUS
<1>6. aw[p].s \in Sleepers /\ aw[p].w \in Wakers /\ aw[p] \in CallOf
  BY <1>1, <1>3 DEF SleepTypeOK, AsserterOK
<1>7. h \in Wakers \cup {None}
  <2>1. shared[aw[p].s] \in Seq(Wakers)
    BY <1>1, <1>6 DEF SleepTypeOK, ListsOK
  <2>2. shared[aw[p].s] # <<>> => Head(shared[aw[p].s]) \in Wakers
    BY <2>1, TailFacts
  <2> QED BY <1>5, <2>2 DEF Top
<1>8. PICK d : d = [aw[p] EXCEPT !.head = h]
  OBVIOUS
<1>9. d \in CallOf /\ d.w = aw[p].w /\ d.s = aw[p].s
  BY <1>6, <1>7, <1>8 DEF CallOf
<1>10. apc' = [apc EXCEPT ![p] = "cas"] /\ aw' = [aw EXCEPT ![p] = d]
  BY <1>5, <1>8 DEF PushLoad, Move
<1>11. "cas" \in AssertPcs /\ "cas" \in {"push", "cas"}
  BY DEF AssertPcs
<1>12. Moves(p, "cas", d)
  BY <1>1, <1>6, <1>9, <1>10, <1>11, MovesFacts
<1> QED BY <1>2, <1>3, <1>4, <1>9, <1>11, <1>12, OnlyMoves

\* The asserter looks whether the owner sleeps.
LEMMA WakeLoadStep ==
  ASSUME SleeperInv, NEW p \in Asserters, WakeLoad(p), wpc' = wpc
  PROVE  SleeperInv'
<1>1. SleepTypeOK /\ apc[p] = "wake"
  BY DEF SleeperInv, WakeLoad
<1>2. PICK c : c = cur
  OBVIOUS
<1>3. apc[p] \notin {"push", "cas"} /\ apc[p] # None
  BY <1>1 DEF None
<1>4. UNCHANGED <<ws, shared, local, allWakers, waitingG, spc, cur, pulled, wpc>>
  BY DEF WakeLoad, wakerVars
<1>5. aw[p].s \in Sleepers /\ aw[p].w \in Wakers /\ aw[p] \in CallOf
  BY <1>1, <1>3 DEF SleepTypeOK, AsserterOK
<1>6. PICK g : g = waitingG[aw[p].s]
  OBVIOUS
<1>7. g \in GValues
  BY <1>1, <1>5, <1>6 DEF SleepTypeOK
<1>8. CASE g = None
  <2>1. Moves(p, None, NoCall)
    BY <1>1, <1>6, <1>8, ReturnMoves DEF WakeLoad
  <2>2. Wakes(p, c) => waitingG[c] = None
    BY <1>6, <1>8 DEF Wakes
  <2>3. None \notin {"push", "cas"}
    BY DEF None
  <2> QED BY <1>2, <1>3, <1>4, <2>1, <2>2, <2>3, OnlyMoves
<1>9. CASE g # None
  <2>1. PICK d : d = [aw[p] EXCEPT !.g = g]
    OBVIOUS
  <2>2. d \in CallOf /\ d.w = aw[p].w /\ d.s = aw[p].s
    BY <1>5, <1>7, <2>1 DEF CallOf
  <2>3. apc' = [apc EXCEPT ![p] = "wakecas"] /\ aw' = [aw EXCEPT ![p] = d]
    BY <1>6, <1>9, <2>1 DEF WakeLoad, Move
  <2>4. "wakecas" \in AssertPcs /\ "wakecas" \notin {"push", "cas"}
        /\ "wakecas" \in {"wake", "wakecas"}
    BY DEF AssertPcs
  <2>5. Moves(p, "wakecas", d)
    BY <1>1, <1>5, <2>2, <2>3, <2>4, MovesFacts
  <2> QED BY <1>2, <1>3, <1>4, <2>2, <2>4, <2>5, OnlyMoves
<1> QED BY <1>8, <1>9

\* The owner's sleep is called off, or it is made ready.
LEMMA WakeCasStep ==
  ASSUME SleeperInv, NEW p \in Asserters, WakeCas(p), wpc' = wpc
  PROVE  SleeperInv'
<1>1. SleepTypeOK /\ apc[p] = "wakecas" /\ cur \in Sleepers
  BY DEF SleeperInv, WakeCas, SleepTypeOK
<1>2. PICK c : c = cur
  OBVIOUS
<1>3. PICK s : s = aw[p].s
  OBVIOUS
<1>4. s \in Sleepers /\ aw[p] \in CallOf /\ apc[p] # None
  BY <1>1, <1>3 DEF SleepTypeOK, AsserterOK, None
<1>5. Moves(p, "wake", aw[p])
  BY <1>1, <1>4, MoveMoves DEF WakeCas, AssertPcs
<1>6. CASE waitingG[s] # aw[p].g
  <2>1. UNCHANGED <<ws, shared, local, allWakers, waitingG, spc, cur, pulled, wpc>>
    BY <1>3, <1>6 DEF WakeCas
  <2>2. /\ apc[p] \notin {"push", "cas"} /\ "wake" \notin {"push", "cas"}
        /\ "wake" \in {"wake", "wakecas"}
    BY <1>1
  <2> QED BY <1>2, <1>4, <1>5, <2>1, <2>2, OnlyMoves
<1>7. CASE waitingG[s] = aw[p].g
  <2>1. PICK g : g = aw[p].g
    OBVIOUS
  <2>2. /\ waitingG' = [waitingG EXCEPT ![s] = None]
        /\ spc' = IF g = "g" THEN "check" ELSE spc
        /\ UNCHANGED <<ws, shared, local, allWakers, cur, pulled, wpc>>
    BY <1>3, <1>7, <2>1 DEF WakeCas
  <2>3. waitingG \in [Sleepers -> GValues] /\ waitingG[s] = g
    BY <1>1, <1>7, <2>1 DEF SleepTypeOK
  <2>4. /\ waitingG' \in [Sleepers -> GValues] /\ waitingG'[s] = None
        /\ \A t \in Sleepers : t # s => waitingG'[t] = waitingG[t]
    BY <1>4, <2>2, <2>3 DEF GValues
  <2>5. g = "g" => s = cur /\ spc = "parked"
    BY <1>4, <2>3 DEF SleeperInv, WaitInv
  <2>6. spc = "parked" /\ g # "g" => s # cur
    BY <2>3 DEF SleeperInv, WaitInv
  <2>7. SleepTypeOK'
    <3>1. /\ ws \in [Wakers -> {"nil", "asserted"} \cup Sleepers]
          /\ shared \in [Sleepers -> Seq(Wakers)] /\ spc \in OwnerPcs
      BY <1>1 DEF SleepTypeOK, ListsOK
    <3>2. spc' \in OwnerPcs
      BY <2>2, <3>1 DEF OwnerPcs
    <3>3. /\ ws' \in [Wakers -> {"nil", "asserted"} \cup Sleepers]
          /\ shared' \in [Sleepers -> Seq(Wakers)]
      BY <2>2, <3>1
    <3> QED BY <1>1, <1>5, <2>2, <2>4, <3>2, <3>3, TypeMoves
  <2>8. StoreInv'
    <3>1. apc[p] \notin {"push", "cas"} /\ "wake" \notin {"push", "cas"}
      BY <1>1
    <3>2. SamePushes
      BY <1>5, <3>1, MovesSame
    <3> QED BY <1>1, <2>2, <3>2, StoreSame DEF SleeperInv
  <2>9. HookInv'
    BY <2>2 DEF SleeperInv, HookInv, Added3, Added2
  <2>10. apc'[Worker] # None => apc[Worker] # None
    BY <1>4, <1>5, Names DEF Moves
  <2>11. PhaseInv' /\ ListInv'
    <3>1. CASE g = "g"
      <4>1. spc = "parked" /\ spc' = "check"
        BY <2>2, <2>5, <3>1
      <4>2. PhaseInv'
        BY <2>2, <2>10, <4>1 DEF SleeperInv, PhaseInv, FetchPcs, None
      <4>3. ListInv'
        BY <2>2, <4>1 DEF SleeperInv, ListInv, FetchPcs
      <4> QED BY <4>2, <4>3
    <3>2. CASE g # "g"
      <4>1. spc' = spc
        BY <2>2, <3>2
      <4>2. PhaseInv'
        BY <2>2, <2>10, <4>1 DEF SleeperInv, PhaseInv, FetchPcs, None
      <4>3. ListInv'
        BY <2>2, <4>1 DEF SleeperInv, ListInv, FetchPcs
      <4> QED BY <4>2, <4>3
    <3> QED BY <3>1, <3>2
  <2>12. WaitInv'
    <3> SUFFICES /\ \A t \in Sleepers :
                      /\ waitingG'[t] = "g" => t = cur' /\ spc' = "parked"
                      /\ waitingG'[t] = "preparing" =>
                           t = cur' /\ spc' \in {"recheck", "commit", "abort"}
                 /\ spc' = "parked" => waitingG'[cur'] = "g"
      BY DEF WaitInv
    <3>1. ASSUME NEW t \in Sleepers, waitingG'[t] # None
          PROVE  t # s /\ waitingG'[t] = waitingG[t]
      BY <2>4, <3>1
    <3>2. ASSUME NEW t \in Sleepers, waitingG'[t] = "g"
          PROVE  t = cur' /\ spc' = "parked"
      <4>1. t # s /\ waitingG[t] = "g"
        BY <3>1, <3>2 DEF None
      <4>2. t = cur /\ spc = "parked"
        BY <4>1 DEF SleeperInv, WaitInv
      <4> QED BY <2>2, <2>5, <4>1, <4>2
    <3>3. ASSUME NEW t \in Sleepers, waitingG'[t] = "preparing"
          PROVE  t = cur' /\ spc' \in {"recheck", "commit", "abort"}
      <4>1. t # s /\ waitingG[t] = "preparing"
        BY <3>1, <3>3 DEF None
      <4>2. t = cur /\ spc \in {"recheck", "commit", "abort"}
        BY <4>1 DEF SleeperInv, WaitInv
      <4> QED BY <2>2, <2>5, <4>1, <4>2
    <3>4. ASSUME spc' = "parked"
          PROVE  waitingG'[cur'] = "g"
      <4>1. g # "g" /\ spc = "parked"
        BY <2>2, <3>4
      <4>2. cur # s /\ waitingG[cur] = "g"
        BY <2>6, <4>1 DEF SleeperInv, WaitInv
      <4> QED BY <1>1, <2>2, <2>4, <4>2
    <3> QED BY <3>2, <3>3, <3>4
  <2>13. SleepInv'
    <3>1. CASE s = cur
      BY <2>2, <2>4, <3>1 DEF SleepInv
    <3>2. CASE s # cur
      <4>1. spc' = spc
        BY <2>2, <2>5, <3>2
      <4>2. waitingG'[c] = waitingG[c] /\ shared' = shared /\ cur' = c
        BY <1>1, <1>2, <2>2, <2>4, <3>2
      <4>3. \A q \in Asserters : Wakes(q, c) => Wakes(q, c)'
        <5> SUFFICES ASSUME NEW q \in Asserters, Wakes(q, c)
                     PROVE  Wakes(q, c)'
          OBVIOUS
        <5>1. q # p
          BY <1>2, <1>3, <3>2 DEF Wakes
        <5>2. apc'[q] = apc[q] /\ aw'[q] = aw[q]
          BY <1>5, <5>1 DEF Moves
        <5> QED BY <5>2 DEF Wakes
      <4>4. spc \in {"commit", "parked"} =>
              \/ shared[c] = <<>> \/ waitingG[c] = None
              \/ \E q \in Asserters : Wakes(q, c)
        BY <1>2 DEF SleeperInv, SleepInv, Wakes
      <4>5. spc' \in {"commit", "parked"} =>
              \/ shared'[c] = <<>> \/ waitingG'[c] = None
              \/ \E q \in Asserters : Wakes(q, c)'
        BY <4>1, <4>2, <4>3, <4>4
      <4> QED BY <4>2, <4>5 DEF SleepInv, Wakes, None
    <3> QED BY <3>1, <3>2
  <2> QED BY <2>7, <2>8, <2>9, <2>11, <2>12, <2>13 DEF SleeperInv
<1> QED BY <1>6, <1>7

-----------------------------------------------------------------------------
(* Wakers that get into the hands of an asserter, and from there into a    *)
(* list.                                                                   *)

\* w, which is asserted now, is taken by p; hooked or not, the others are as
\* they were.
LEMMA StorePush ==
  ASSUME StoreInv, NEW p \in Asserters, NEW w \in Wakers, NEW d, Moves(p, "push", d),
         NEW c \in Sleepers, c = cur,
         d.w = w, d.s = c, apc[p] \notin {"push", "cas"},
         \A s \in Sleepers : ~Held(w, s), ws \in [Wakers -> {"nil", "asserted"} \cup Sleepers],
         ws' = [ws EXCEPT ![w] = "asserted"],
         UNCHANGED <<shared, local, cur, pulled>>,
         \A x \in Wakers : x # w => (Hooked(x)' <=> Hooked(x)),
         Hooked(w)'
  PROVE  StoreInv'
<1>1. /\ shared' = shared /\ local' = local /\ cur' = c /\ pulled' = pulled
      /\ ws'[w] = "asserted" /\ \A x \in Wakers : x # w => ws'[x] = ws[x]
  OBVIOUS
<1>2. ASSUME NEW q \in Asserters, NEW x \in Wakers, NEW s \in Sleepers
      PROVE  Pushes(q, x, s)' <=> (Pushes(q, x, s) \/ (q = p /\ x = w /\ s = c))
  <2>1. CASE q = p
    <3>1. apc'[q] = "push" /\ aw'[q] = d
      BY <2>1 DEF Moves
    <3> QED BY <2>1, <3>1 DEF Pushes
  <2>2. CASE q # p
    <3>1. apc'[q] = apc[q] /\ aw'[q] = aw[q]
      BY <2>2 DEF Moves
    <3> QED BY <2>2, <3>1 DEF Pushes
  <2> QED BY <2>1, <2>2
<1>3. ASSUME NEW x \in Wakers, NEW s \in Sleepers
      PROVE  Held(x, s)' <=> (Held(x, s) \/ (x = w /\ s = c))
  BY <1>1, <1>2 DEF Held, InList
<1>4. HeldInv'
  <2> SUFFICES ASSUME NEW x \in Wakers, NEW s \in Sleepers, Held(x, s)'
               PROVE  /\ s = cur' /\ ws'[x] = "asserted"
                      /\ Hooked(x)' \/ x \in pulled'.pending
    BY DEF HeldInv
  <2>1. CASE x = w
    BY <1>1, <1>3, <2>1
  <2>2. CASE x # w
    <3>1. Held(x, s)
      BY <1>3, <2>2
    <3>2. s = cur /\ ws[x] = "asserted" /\ (Hooked(x) \/ x \in pulled.pending)
      BY <3>1 DEF StoreInv, HeldInv
    <3> QED BY <1>1, <2>2, <3>2
  <2> QED BY <2>1, <2>2
<1>5. AttachedInv'
  <2> SUFFICES ASSUME NEW x \in Wakers
               PROVE  /\ Hooked(x)' => ws'[x] = c \/ Held(x, c)'
                      /\ x \in pulled'.pending => Held(x, c)'
                      /\ ws'[x] \in Sleepers => ws'[x] = c /\ Hooked(x)'
    BY <1>1 DEF AttachedInv, Held
  <2>1. CASE x = w
    <3>1. Held(x, c)'
      BY <1>3, <2>1
    <3>2. ws'[x] \notin Sleepers
      BY <1>1, <2>1, Names
    <3> QED BY <3>1, <3>2
  <2>2. CASE x # w
    <3>1. /\ Hooked(x) => ws[x] = c \/ Held(x, c)
          /\ x \in pulled.pending => Held(x, c)
          /\ ws[x] \in Sleepers => ws[x] = c /\ Hooked(x)
      BY DEF StoreInv, AttachedInv
    <3>2. Held(x, c)' <=> Held(x, c)
      BY <1>3, <2>2
    <3> QED BY <1>1, <2>2, <3>1, <3>2
  <2> QED BY <2>1, <2>2
<1>6. UniqueInv'
  <2> SUFFICES ASSUME NEW s \in Sleepers
               PROVE  /\ Distinct(shared'[s]) /\ Distinct(local'[s])
                      /\ \A x \in Wakers : UniqueOf(x, s)'
    BY DEF UniqueInv, Distinct
  <2>1. /\ Distinct(shared[s]) /\ Distinct(local[s]) /\ \A x \in Wakers : UniqueOf(x, s)
    BY DEF StoreInv, UniqueInv
  <2>2. ASSUME NEW x \in Wakers
        PROVE  UniqueOf(x, s)'
    <3> SUFFICES /\ ~(InList(shared[s], x) /\ InList(local[s], x))
                 /\ \A q \in Asserters :
                      Pushes(q, x, s)' =>
                        /\ ~InList(shared[s], x) /\ ~InList(local[s], x)
                        /\ \A r \in Asserters : Pushes(r, x, s)' => q = r
      BY <1>1 DEF UniqueOf, InList
    <3>1. UniqueOf(x, s)
      BY <2>1
    <3>2. CASE x = w
      <4>1. /\ ~InList(shared[s], x) /\ ~InList(local[s], x)
            /\ \A q \in Asserters : ~Pushes(q, x, s)
        BY <3>2 DEF Held
      <4>2. \A q \in Asserters : Pushes(q, x, s)' => q = p
        BY <1>2, <4>1
      <4> QED BY <4>1, <4>2
    <3>3. CASE x # w
      <4>1. \A q \in Asserters : Pushes(q, x, s)' <=> Pushes(q, x, s)
        BY <1>2, <3>3
      <4> QED BY <3>1, <4>1 DEF UniqueOf
    <3> QED BY <3>2, <3>3
  <2> QED BY <1>1, <2>1, <2>2
<1> QED BY <1>4, <1>5, <1>6 DEF StoreInv

\* Nobody holds what its sleeper has, and what is not hooked.
LEMMA NotHeld ==
  ASSUME StoreInv, cur \in Sleepers, NEW w \in Wakers, ws[w] # "asserted"
  PROVE  /\ \A s \in Sleepers : ~Held(w, s)
         /\ w \notin pulled.pending
<1>1. \A s \in Sleepers : ~Held(w, s)
  BY DEF StoreInv, HeldInv
<1>2. w \in pulled.pending => Held(w, cur)
  BY DEF StoreInv, AttachedInv
<1> QED BY <1>1, <1>2

\* The waker is taken from its sleeper, or was asserted already.
LEMMA AssertSwapStep ==
  ASSUME SleeperInv, NEW p \in Asserters, AssertSwap(p), wpc' = wpc
  PROVE  SleeperInv'
<1>1. SleepTypeOK /\ apc[p] = "swap" /\ cur \in Sleepers /\ StoreInv
      /\ ws \in [Wakers -> {"nil", "asserted"} \cup Sleepers]
      /\ shared \in [Sleepers -> Seq(Wakers)]
      /\ waitingG \in [Sleepers -> GValues] /\ spc \in OwnerPcs
  BY DEF SleeperInv, AssertSwap, SleepTypeOK, ListsOK
<1>2. PICK c : c = cur
  OBVIOUS
<1>3. PICK w : w = aw[p].w
  OBVIOUS
<1>4. /\ ~Wakes(p, c) /\ apc[p] \notin {"push", "cas"} /\ apc[p] # None
      /\ w \in Wakers /\ aw[p] \in CallOf
  BY <1>1, <1>3 DEF Wakes, None, SleepTypeOK, AsserterOK
<1>5. /\ UNCHANGED <<shared, local, allWakers, waitingG, spc, cur, pulled, wpc>>
      /\ ws' = [ws EXCEPT ![w] = "asserted"]
  BY <1>3 DEF AssertSwap
<1>6. PICK s : s = ws[w]
  OBVIOUS
<1>7. /\ ws' \in [Wakers -> {"nil", "asserted"} \cup Sleepers]
      /\ shared' \in [Sleepers -> Seq(Wakers)]
      /\ waitingG' \in [Sleepers -> GValues] /\ spc' \in OwnerPcs
  BY <1>1, <1>4, <1>5
<1>8. \A x \in Wakers : Hooked(x)' <=> Hooked(x)
  BY <1>5 DEF Hooked, InList
<1>9. \E there, d : /\ Moves(p, there, d) /\ there \notin {"wake", "wakecas"}
                    /\ StoreInv'
  <2>1. CASE s \in Sleepers
    <3>1. PICK d : d = [aw[p] EXCEPT !.s = s]
      OBVIOUS
    <3>2. s = c /\ Hooked(w) /\ s # "asserted"
      BY <1>1, <1>2, <1>4, <1>6, <2>1, Names DEF StoreInv, AttachedInv
    <3>3. d \in CallOf /\ d.w = w /\ d.s = c
      BY <1>3, <1>4, <2>1, <3>1, <3>2 DEF CallOf
    <3>4. apc' = [apc EXCEPT ![p] = "push"] /\ aw' = [aw EXCEPT ![p] = d]
      BY <1>3, <1>6, <2>1, <3>1 DEF AssertSwap, Move
    <3>5. "push" \in AssertPcs
      BY DEF AssertPcs
    <3>6. Moves(p, "push", d)
      BY <1>1, <1>2, <1>4, <3>3, <3>4, <3>5, MovesFacts
    <3>7. \A t \in Sleepers : ~Held(w, t)
      BY <1>1, <1>4, <1>6, <3>2, NotHeld
    <3>8. Hooked(w)' /\ c \in Sleepers
      BY <1>4, <1>8, <2>1, <3>2
    <3>9. StoreInv'
      BY <1>1, <1>2, <1>4, <1>5, <1>8, <3>3, <3>6, <3>7, <3>8, StorePush
    <3> QED BY <3>6, <3>9
  <2>2. CASE s \notin Sleepers
    <3>1. Moves(p, None, NoCall)
      BY <1>1, <1>3, <1>6, <2>2, ReturnMoves DEF AssertSwap
    <3>2. None \notin {"push", "cas", "wake", "wakecas"}
      BY DEF None
    <3>3. SamePushes
      BY <1>4, <3>1, <3>2, MovesSame
    <3>4. \A x \in Wakers : \A t \in Sleepers : Held(x, t)' <=> Held(x, t)
      BY <1>5, <3>3 DEF SamePushes, Held, InList
    <3>5. s \in {"nil", "asserted"} /\ s # c
      BY <1>1, <1>2, <1>4, <1>6, <2>2
    <3>6. /\ ws'[w] = "asserted" /\ \A x \in Wakers : x # w => ws'[x] = ws[x]
      BY <1>1, <1>4, <1>5
    <3>7. HeldInv'
      <4> SUFFICES ASSUME NEW x \in Wakers, NEW t \in Sleepers, Held(x, t)'
                   PROVE  /\ t = cur' /\ ws'[x] = "asserted"
                          /\ Hooked(x)' \/ x \in pulled'.pending
        BY DEF HeldInv
      <4>1. t = cur /\ ws[x] = "asserted" /\ (Hooked(x) \/ x \in pulled.pending)
        BY <1>1, <3>4 DEF StoreInv, HeldInv
      <4> QED BY <1>5, <1>8, <3>6, <4>1
    <3>8. AttachedInv'
      <4> SUFFICES ASSUME NEW x \in Wakers
                   PROVE  /\ Hooked(x)' => ws'[x] = c \/ Held(x, c)'
                          /\ x \in pulled'.pending => Held(x, c)'
                          /\ ws'[x] \in Sleepers => ws'[x] = c /\ Hooked(x)'
        BY <1>2, <1>5 DEF AttachedInv, Held
      <4>1. /\ Hooked(x) => ws[x] = c \/ Held(x, c)
            /\ x \in pulled.pending => Held(x, c)
            /\ ws[x] \in Sleepers => ws[x] = c /\ Hooked(x)
        BY <1>1, <1>2 DEF StoreInv, AttachedInv
      <4>2. Held(x, c)' <=> Held(x, c)
        BY <1>1, <1>2, <3>4
      <4>3. ws'[x] \in Sleepers => ws[x] = ws'[x]
        BY <3>6, Names
      <4>4. Hooked(x) /\ x = w => Held(x, c)
        BY <1>6, <3>5, <4>1
      <4>5. Hooked(x)' => ws'[x] = c \/ Held(x, c)'
        BY <1>8, <3>6, <4>1, <4>2, <4>4
      <4> QED BY <1>5, <1>8, <4>1, <4>2, <4>3, <4>5
    <3>9. UniqueInv'
      <4> SUFFICES ASSUME NEW t \in Sleepers
                   PROVE  /\ Distinct(shared'[t]) /\ Distinct(local'[t])
                          /\ \A x \in Wakers : UniqueOf(x, t)'
        BY DEF UniqueInv, Distinct
      <4>1. /\ Distinct(shared[t]) /\ Distinct(local[t]) /\ \A x \in Wakers : UniqueOf(x, t)
        BY <1>1 DEF StoreInv, UniqueInv
      <4>2. ASSUME NEW x \in Wakers
            PROVE  UniqueOf(x, t)'
        <5>1. UniqueOf(x, t)
          BY <4>1
        <5> QED BY <1>5, <3>3, <5>1 DEF SamePushes, UniqueOf, InList
      <4> QED BY <1>5, <4>1, <4>2
    <3> QED BY <3>1, <3>2, <3>7, <3>8, <3>9 DEF StoreInv
  <2> QED BY <2>1, <2>2
<1>10. PICK there, d : /\ Moves(p, there, d) /\ there \notin {"wake", "wakecas"}
                       /\ StoreInv'
  BY <1>9
<1>11. SleepTypeOK'
  BY <1>1, <1>5, <1>7, <1>10, TypeMoves
<1>12. HookInv' /\ PhaseInv' /\ ListInv' /\ WaitInv'
  <2>1. apc'[Worker] # None => apc[Worker] # None
    BY <1>4, <1>10, Names DEF Moves
  <2> QED BY <1>5, <2>1, CtlSame
<1>13. SleepInv'
  <2>1. ASSUME NEW q \in Asserters, Wakes(q, c)
        PROVE  Wakes(q, c)' \/ waitingG[c] = None
    <3>1. q # p
      BY <1>4, <2>1
    <3> QED BY <1>10, <2>1, <3>1 DEF Moves, Wakes
  <2> QED BY <1>2, <1>5, <2>1, SleepSame DEF SleeperInv
<1> QED BY <1>10, <1>11, <1>12, <1>13 DEF SleeperInv

\* The asserter puts its waker at the head of the list, or finds that another
\* one has been quicker.
LEMMA PushCasStep ==
  ASSUME SleeperInv, NEW p \in Asserters, PushCas(p), wpc' = wpc
  PROVE  SleeperInv'
<1>1. SleepTypeOK /\ apc[p] = "cas" /\ cur \in Sleepers /\ StoreInv
      /\ ws \in [Wakers -> {"nil", "asserted"} \cup Sleepers]
      /\ shared \in [Sleepers -> Seq(Wakers)]
      /\ waitingG \in [Sleepers -> GValues] /\ spc \in OwnerPcs
  BY DEF SleeperInv, PushCas, SleepTypeOK, ListsOK
<1>2. PICK c : c = cur
  OBVIOUS
<1>3. PICK s : s = aw[p].s
  OBVIOUS
<1>4. PICK w : w = aw[p].w
  OBVIOUS
<1>5. /\ ~Wakes(p, c) /\ apc[p] \in {"push", "cas"} /\ apc[p] # None
      /\ w \in Wakers /\ s \in Sleepers /\ aw[p] \in CallOf
  BY <1>1, <1>3, <1>4 DEF Wakes, None, SleepTypeOK, AsserterOK
<1>6. CASE Top(s) # aw[p].head
  <2>1. UNCHANGED <<ws, shared, local, allWakers, waitingG, spc, cur, pulled, wpc>>
    BY <1>3, <1>6 DEF PushCas
  <2>2. Move(p, "push") /\ aw' = aw
    BY <1>3, <1>6 DEF PushCas
  <2>3. Moves(p, "push", aw[p])
    BY <1>1, <1>5, <2>2, MoveMoves DEF AssertPcs
  <2>4. "push" \in {"push", "cas"}
    OBVIOUS
  <2> QED BY <1>2, <1>5, <2>1, <2>3, <2>4, OnlyMoves
<1>7. CASE Top(s) = aw[p].head
  <2>1. /\ UNCHANGED <<ws, local, allWakers, waitingG, spc, cur, pulled, wpc>>
        /\ shared' = [shared EXCEPT ![s] = <<w>> \o @]
        /\ Move(p, "wake") /\ aw' = aw
    BY <1>3, <1>4, <1>7 DEF PushCas
  <2>2. Moves(p, "wake", aw[p])
    BY <1>1, <1>5, <2>1, MoveMoves DEF AssertPcs
  <2>3. Pushes(p, w, s)
    BY <1>1, <1>3, <1>4 DEF Pushes
  <2>4. Held(w, s)
    BY <2>3 DEF Held
  <2>5. s = c
    BY <1>1, <1>2, <1>5, <2>4 DEF StoreInv, HeldInv
  <2>6. /\ ~InList(shared[c], w) /\ ~InList(local[c], w)
        /\ \A q \in Asserters : Pushes(q, w, c) => q = p
        /\ Distinct(shared[c]) /\ shared[c] \in Seq(Wakers)
    BY <1>1, <1>5, <2>3, <2>5 DEF StoreInv, UniqueInv, UniqueOf
  <2>7. PICK l : l = <<w>> \o shared[c]
    OBVIOUS
  <2>8. /\ l \in Seq(Wakers) /\ l # <<>> /\ Distinct(l)
        /\ \A x : InList(l, x) <=> (x = w \/ InList(shared[c], x))
    BY <1>5, <2>6, <2>7, ConsFacts
  <2>9. /\ shared' \in [Sleepers -> Seq(Wakers)] /\ shared'[c] = l
        /\ \A t \in Sleepers : t # c => shared'[t] = shared[t]
    BY <1>1, <1>5, <2>1, <2>5, <2>7, <2>8
  <2>10. SleepTypeOK'
    <3>1. /\ ws' \in [Wakers -> {"nil", "asserted"} \cup Sleepers]
          /\ waitingG' \in [Sleepers -> GValues] /\ spc' \in OwnerPcs
      BY <1>1, <2>1
    <3> QED BY <1>1, <2>1, <2>2, <2>9, <3>1, TypeMoves
  <2>11. ASSUME NEW q \in Asserters, NEW x \in Wakers, NEW t \in Sleepers
         PROVE  Pushes(q, x, t)' <=> (Pushes(q, x, t) /\ q # p)
    <3>1. CASE q = p
      <4>1. apc'[q] = "wake"
        BY <2>2, <3>1 DEF Moves
      <4> QED BY <3>1, <4>1 DEF Pushes
    <3>2. CASE q # p
      <4>1. apc'[q] = apc[q] /\ aw'[q] = aw[q]
        BY <2>2, <3>2 DEF Moves
      <4> QED BY <3>2, <4>1 DEF Pushes
    <3> QED BY <3>1, <3>2
  <2>12. \A x \in Wakers : \A t \in Sleepers : Pushes(p, x, t) <=> (x = w /\ t = c)
    BY <1>1, <1>3, <1>4, <2>5 DEF Pushes
  <2>13. ASSUME NEW x \in Wakers, NEW t \in Sleepers
         PROVE  InList(shared'[t], x) <=> (InList(shared[t], x) \/ (x = w /\ t = c))
    <3>1. CASE t = c
      BY <2>8, <2>9, <3>1
    <3>2. CASE t # c
      BY <2>9, <3>2
    <3> QED BY <3>1, <3>2
  <2>14. ASSUME NEW x \in Wakers, NEW t \in Sleepers
         PROVE  Held(x, t)' <=> Held(x, t)
    <3>1. Held(x, t)' <=> \/ InList(shared'[t], x) \/ InList(local[t], x)
                          \/ \E q \in Asserters : Pushes(q, x, t)'
      BY <2>1 DEF Held, InList
    <3>2. CASE x = w /\ t = c
      BY <2>4, <2>5, <2>13, <3>1, <3>2
    <3>3. CASE ~(x = w /\ t = c)
      <4>1. \A q \in Asserters : Pushes(q, x, t)' <=> Pushes(q, x, t)
        BY <2>11, <2>12, <3>3
      <4> QED BY <2>13, <3>1, <3>3, <4>1 DEF Held
    <3> QED BY <3>2, <3>3
  <2>15. \A x \in Wakers : Hooked(x)' <=> Hooked(x)
    BY <2>1 DEF Hooked, InList
  <2>16. HeldInv'
    <3> SUFFICES ASSUME NEW x \in Wakers, NEW t \in Sleepers, Held(x, t)'
                 PROVE  /\ t = cur' /\ ws'[x] = "asserted"
                        /\ Hooked(x)' \/ x \in pulled'.pending
      BY DEF HeldInv
    <3>1. t = cur /\ ws[x] = "asserted" /\ (Hooked(x) \/ x \in pulled.pending)
      BY <1>1, <2>14 DEF StoreInv, HeldInv
    <3> QED BY <2>1, <2>15, <3>1
  <2>17. AttachedInv'
    <3> SUFFICES ASSUME NEW x \in Wakers
                 PROVE  /\ Hooked(x)' => ws'[x] = c \/ Held(x, c)'
                        /\ x \in pulled'.pending => Held(x, c)'
                        /\ ws'[x] \in Sleepers => ws'[x] = c /\ Hooked(x)'
      BY <1>2, <2>1 DEF AttachedInv, Held
    <3>1. /\ Hooked(x) => ws[x] = c \/ Held(x, c)
          /\ x \in pulled.pending => Held(x, c)
          /\ ws[x] \in Sleepers => ws[x] = c /\ Hooked(x)
      BY <1>1, <1>2 DEF StoreInv, AttachedInv
    <3>2. Held(x, c)' <=> Held(x, c)
      BY <1>5, <2>5, <2>14
    <3> QED BY <2>1, <2>15, <3>1, <3>2
  <2>18. UniqueInv'
    <3> SUFFICES ASSUME NEW t \in Sleepers
                 PROVE  /\ Distinct(shared'[t]) /\ Distinct(local'[t])
                        /\ \A x \in Wakers : UniqueOf(x, t)'
      BY DEF UniqueInv, Distinct
    <3>1. /\ Distinct(shared[t]) /\ Distinct(local[t]) /\ \A x \in Wakers : UniqueOf(x, t)
      BY <1>1 DEF StoreInv, UniqueInv
    <3>2. Distinct(shared'[t])
      BY <2>8, <2>9, <3>1
    <3>3. ASSUME NEW x \in Wakers
          PROVE  UniqueOf(x, t)'
      <4> SUFFICES /\ ~(InList(shared'[t], x) /\ InList(local[t], x))
                   /\ \A q \in Asserters :
                        Pushes(q, x, t)' =>
                          /\ ~InList(shared'[t], x) /\ ~InList(local[t], x)
                          /\ \A r \in Asserters : Pushes(r, x, t)' => q = r
        BY <2>1 DEF UniqueOf, InList
      <4>1. UniqueOf(x, t)
        BY <3>1
      <4>2. CASE x = w /\ t = c
        <5>1. \A q \in Asserters : ~Pushes(q, x, t)'
          BY <2>6, <2>11, <4>2
        <5> QED BY <2>6, <4>2, <5>1
      <4>3. CASE ~(x = w /\ t = c)
        <5>1. \A q \in Asserters : Pushes(q, x, t)' <=> Pushes(q, x, t)
          BY <2>11, <2>12, <4>3
        <5> QED BY <2>13, <4>1, <4>3, <5>1 DEF UniqueOf
      <4> QED BY <4>2, <4>3
    <3> QED BY <2>1, <3>1, <3>2, <3>3
  <2>19. HookInv' /\ PhaseInv' /\ ListInv' /\ WaitInv'
    <3>1. apc'[Worker] # None => apc[Worker] # None
      BY <1>5, <2>2, Names DEF Moves
    <3>2. shared'[cur] # <<>>
      BY <1>2, <2>8, <2>9
    <3> QED BY <2>1, <3>1, <3>2, CtlSame
  <2>20. SleepInv'
    <3>1. apc'[p] \in {"wake", "wakecas"} /\ aw'[p].s = cur'
      BY <1>2, <1>3, <2>1, <2>2, <2>5 DEF Moves
    <3> QED BY <3>1 DEF SleepInv
  <2> QED BY <2>10, <2>16, <2>17, <2>18, <2>19, <2>20 DEF SleeperInv, StoreInv
<1> QED BY <1>6, <1>7

\* Assert, as a whole.
LEMMA AssertStepKeeps ==
  ASSUME SleeperInv, NEW p \in Asserters, AssertStep(p), wpc' = wpc
  PROVE  SleeperInv'
BY AssertLoadStep, AssertSwapStep, PushLoadStep, PushCasStep, WakeLoadStep, WakeCasStep
   DEF AssertStep

-----------------------------------------------------------------------------
(* The owner. *)

\* Nothing moves but the owner.
LEMMA Untouched ==
  ASSUME SleeperInv, UNCHANGED <<ws, shared, local, allWakers, apc, aw, cur>>,
         pulled'.pending = pulled.pending
  PROVE  StoreInv'
<1>1. SamePushes
  BY DEF SamePushes, Pushes
<1>2. cur \in Sleepers /\ StoreInv
  BY DEF SleeperInv, SleepTypeOK
<1> QED BY <1>1, <1>2, StoreSame

\* Steps in which the owner only goes on, and says so in waitingG.
LEMMA OwnerGoesOn ==
  ASSUME SleeperInv, UNCHANGED <<ws, shared, local, allWakers, apc, aw, cur, pulled, wpc>>,
         waitingG' \in [Sleepers -> GValues], spc' \in FetchPcs \cup {"gone"},
         spc \in FetchPcs \cup {"remove"}, PhaseInv', ListInv', WaitInv', SleepInv'
  PROVE  SleeperInv'
<1>1. StoreInv'
  <2>1. pulled'.pending = pulled.pending
    OBVIOUS
  <2> QED BY <2>1, Untouched
<1>2. SleepTypeOK'
  <2>1. spc' \in OwnerPcs
    BY DEF FetchPcs, OwnerPcs
  <2>2. ListsOK'
    BY DEF SleeperInv, SleepTypeOK, ListsOK
  <2>3. \A p \in Asserters : AsserterOK(p)'
    BY DEF SleeperInv, SleepTypeOK, AsserterOK, None
  <2> QED BY <2>1, <2>2, <2>3 DEF SleeperInv, SleepTypeOK, AssertPcs, CallOf, GValues, PulledOf, None
<1>3. HookInv'
  BY DEF SleeperInv, HookInv, Added3, Added2
<1> QED BY <1>1, <1>2, <1>3 DEF SleeperInv

\* The owner looks at the shared list.
LEMMA CheckStep ==
  ASSUME SleeperInv, Check, wpc' = wpc
  PROVE  SleeperInv'
<1>1. /\ UNCHANGED <<ws, shared, local, allWakers, apc, aw, cur, pulled, wpc, waitingG>>
      /\ spc = "check" /\ spc' = IF shared[cur] = <<>> THEN "prepare" ELSE "pull"
  BY DEF Check, Step, wakerVars
<1>2. waitingG' \in [Sleepers -> GValues]
  BY <1>1 DEF SleeperInv, SleepTypeOK, GValues, None
<1>3. PhaseInv'
  BY <1>1 DEF SleeperInv, PhaseInv, FetchPcs, None
<1>4. ListInv'
  BY <1>1 DEF SleeperInv, ListInv, FetchPcs
<1>5. WaitInv'
  BY <1>1 DEF SleeperInv, WaitInv
<1>6. SleepInv'
  BY <1>1 DEF SleepInv
<1> QED BY <1>1, <1>2, <1>3, <1>4, <1>5, <1>6, OwnerGoesOn DEF FetchPcs

\* The owner announces that it will sleep.
LEMMA PrepareStep ==
  ASSUME SleeperInv, Prepare, wpc' = wpc
  PROVE  SleeperInv'
<1>1. /\ UNCHANGED <<ws, shared, local, allWakers, apc, aw, cur, pulled, wpc>>
      /\ spc = "prepare" /\ spc' = "recheck"
      /\ waitingG' = [waitingG EXCEPT ![cur] = "preparing"]
  BY DEF Prepare, Step
<1>2. cur \in Sleepers /\ waitingG \in [Sleepers -> GValues]
  BY DEF SleeperInv, SleepTypeOK
<1>3. /\ waitingG' \in [Sleepers -> GValues] /\ waitingG'[cur] = "preparing"
      /\ \A s \in Sleepers : s # cur => waitingG'[s] = waitingG[s]
  BY <1>1, <1>2 DEF GValues
<1>4. PhaseInv'
  BY <1>1 DEF SleeperInv, PhaseInv, FetchPcs, None
<1>5. ListInv'
  BY <1>1 DEF SleeperInv, ListInv, FetchPcs
<1>6. WaitInv'
  BY <1>1, <1>3 DEF SleeperInv, WaitInv
<1>7. SleepInv'
  BY <1>1 DEF SleepInv
<1> QED BY <1>1, <1>3, <1>4, <1>5, <1>6, <1>7, OwnerGoesOn DEF FetchPcs

\* The owner looks again.
LEMMA RecheckStep ==
  ASSUME SleeperInv, Recheck, wpc' = wpc
  PROVE  SleeperInv'
<1>1. /\ UNCHANGED <<ws, shared, local, allWakers, apc, aw, cur, pulled, wpc, waitingG>>
      /\ spc = "recheck" /\ spc' = IF shared[cur] = <<>> THEN "commit" ELSE "abort"
  BY DEF Recheck, Step, wakerVars
<1>2. waitingG' \in [Sleepers -> GValues]
  BY <1>1 DEF SleeperInv, SleepTypeOK, GValues, None
<1>3. PhaseInv'
  BY <1>1 DEF SleeperInv, PhaseInv, FetchPcs, None
<1>4. ListInv'
  BY <1>1 DEF SleeperInv, ListInv, FetchPcs
<1>5. WaitInv'
  BY <1>1 DEF SleeperInv, WaitInv
<1>6. SleepInv'
  BY <1>1 DEF SleepInv
<1> QED BY <1>1, <1>2, <1>3, <1>4, <1>5, <1>6, OwnerGoesOn DEF FetchPcs

\* The owner found something after all.
LEMMA AbortStep ==
  ASSUME SleeperInv, Abort, wpc' = wpc
  PROVE  SleeperInv'
<1>1. /\ UNCHANGED <<ws, shared, local, allWakers, apc, aw, cur, pulled, wpc>>
      /\ spc = "abort" /\ spc' = "pull"
      /\ waitingG' = [waitingG EXCEPT ![cur] = None]
  BY DEF Abort, Step
<1>2. cur \in Sleepers /\ waitingG \in [Sleepers -> GValues]
  BY DEF SleeperInv, SleepTypeOK
<1>3. /\ waitingG' \in [Sleepers -> GValues] /\ waitingG'[cur] = None
      /\ \A s \in Sleepers : s # cur => waitingG'[s] = waitingG[s]
  BY <1>1, <1>2 DEF GValues
<1>4. PhaseInv'
  BY <1>1 DEF SleeperInv, PhaseInv, FetchPcs, None
<1>5. ListInv'
  BY <1>1 DEF SleeperInv, ListInv, FetchPcs
<1>6. WaitInv'
  BY <1>1, <1>3 DEF SleeperInv, WaitInv, None
<1>7. SleepInv'
  BY <1>1 DEF SleepInv
<1> QED BY <1>1, <1>3, <1>4, <1>5, <1>6, <1>7, OwnerGoesOn DEF FetchPcs

\* The owner parks only if its list is empty or somebody has yet to see it.
LEMMA CommitStep ==
  ASSUME SleeperInv, Commit, wpc' = wpc
  PROVE  SleeperInv'
<1>1. /\ UNCHANGED <<ws, shared, local, allWakers, apc, aw, cur, pulled, wpc>>
      /\ spc = "commit" /\ spc' = IF waitingG[cur] = None THEN "check" ELSE "parked"
      /\ waitingG' = [waitingG EXCEPT ![cur] = IF @ = None THEN None ELSE "g"]
  BY DEF Commit, Step
<1>2. cur \in Sleepers /\ waitingG \in [Sleepers -> GValues]
  BY DEF SleeperInv, SleepTypeOK
<1>3. PICK g : g = IF waitingG[cur] = None THEN None ELSE "g"
  OBVIOUS
<1>4. waitingG' = [waitingG EXCEPT ![cur] = g] /\ g \in GValues
  BY <1>1, <1>3 DEF GValues
<1>5. /\ waitingG' \in [Sleepers -> GValues] /\ waitingG'[cur] = g
      /\ \A s \in Sleepers : s # cur => waitingG'[s] = waitingG[s]
  BY <1>2, <1>4
<1>6. PhaseInv'
  BY <1>1 DEF SleeperInv, PhaseInv, FetchPcs, None
<1>7. ListInv'
  BY <1>1 DEF SleeperInv, ListInv, FetchPcs
<1>8. WaitInv'
  <2>1. spc' = "parked" <=> g = "g"
    BY <1>1, <1>3 DEF None
  <2>2. \A s \in Sleepers : s # cur => waitingG[s] \notin {"g", "preparing"}
    BY DEF SleeperInv, WaitInv
  <2>3. g # "preparing"
    BY <1>3 DEF None
  <2> QED BY <1>1, <1>5, <2>1, <2>2, <2>3 DEF WaitInv
<1>9. SleepInv'
  BY <1>1 DEF SleeperInv, SleepInv
<1> QED BY <1>1, <1>5, <1>6, <1>7, <1>8, <1>9, OwnerGoesOn DEF FetchPcs

\* Done has been through all its wakers.
LEMMA DoneWaitStep ==
  ASSUME SleeperInv, DoneWait, wpc' = wpc
  PROVE  SleeperInv'
<1>1. /\ UNCHANGED <<ws, shared, local, allWakers, apc, aw, cur, pulled, wpc, waitingG>>
      /\ spc = "remove" /\ allWakers[cur] = <<>>
      /\ spc' = IF pulled.pending = {} THEN "gone"
                ELSE IF local[cur] = <<>> THEN "check" ELSE "take"
  BY DEF DoneWait, wakerVars
<1>2. waitingG' \in [Sleepers -> GValues]
  BY <1>1 DEF SleeperInv, SleepTypeOK, GValues, None
<1>3. PhaseInv'
  BY <1>1 DEF SleeperInv, PhaseInv, FetchPcs, None
<1>4. ListInv'
  BY <1>1 DEF SleeperInv, ListInv, FetchPcs
<1>5. WaitInv'
  BY <1>1 DEF SleeperInv, WaitInv
<1>6. SleepInv'
  BY <1>1 DEF SleepInv
<1> QED BY <1>1, <1>2, <1>3, <1>4, <1>5, <1>6, OwnerGoesOn DEF FetchPcs

\* The shared list, the other way round, becomes the local one.
LEMMA PullStep ==
  ASSUME SleeperInv, Pull, wpc' = wpc
  PROVE  SleeperInv'
<1>1. PICK c : c = cur
  OBVIOUS
<1>2. PICK q : q = Reverse(shared[c])
  OBVIOUS
<1>3. /\ UNCHANGED <<ws, allWakers, waitingG, apc, aw, cur, pulled, wpc>>
      /\ spc = "pull" /\ spc' = "take"
      /\ local' = [local EXCEPT ![c] = q] /\ shared' = [shared EXCEPT ![c] = <<>>]
  BY <1>1, <1>2 DEF Pull, Step
<1>4. /\ SleepTypeOK /\ StoreInv /\ c \in Sleepers
      /\ local \in [Sleepers -> Seq(Wakers)] /\ shared \in [Sleepers -> Seq(Wakers)]
  BY <1>1 DEF SleeperInv, SleepTypeOK, ListsOK
<1>5. shared[c] # <<>> /\ local[c] = <<>>
  BY <1>1, <1>3 DEF SleeperInv, ListInv, FetchPcs
<1>6. /\ q \in Seq(Wakers) /\ q # <<>> /\ \A x : InList(q, x) <=> InList(shared[c], x)
      /\ Distinct(shared[c]) => Distinct(q)
  BY <1>2, <1>4, <1>5, ReverseFacts
<1>7. /\ local' \in [Sleepers -> Seq(Wakers)] /\ shared' \in [Sleepers -> Seq(Wakers)]
      /\ local'[c] = q /\ shared'[c] = <<>>
      /\ \A s \in Sleepers : s # c => local'[s] = local[s] /\ shared'[s] = shared[s]
  BY <1>3, <1>4, <1>6
<1>8. ASSUME NEW x
      PROVE  /\ ~InList(shared'[c], x) /\ ~InList(local[c], x)
             /\ InList(local'[c], x) <=> InList(shared[c], x)
  BY <1>5, <1>6, <1>7, EmptyFacts
<1>9. \A p \in Asserters : \A x \in Wakers : \A s \in Sleepers : Pushes(p, x, s)' <=> Pushes(p, x, s)
  BY <1>3 DEF Pushes
<1>10. ASSUME NEW x \in Wakers, NEW s \in Sleepers
       PROVE  Held(x, s)' <=> Held(x, s)
  <2>1. Held(x, s)' <=> \/ InList(shared'[s], x) \/ InList(local'[s], x)
                        \/ \E p \in Asserters : Pushes(p, x, s)
    BY <1>9 DEF Held, InList
  <2>2. CASE s = c
    BY <1>8, <2>1, <2>2 DEF Held
  <2>3. CASE s # c
    BY <1>7, <2>1, <2>3 DEF Held
  <2> QED BY <2>2, <2>3
<1>11. \A x \in Wakers : Hooked(x)' <=> Hooked(x)
  BY <1>3 DEF Hooked, InList
<1>12. HeldInv'
  <2> SUFFICES ASSUME NEW x \in Wakers, NEW s \in Sleepers, Held(x, s)'
               PROVE  /\ s = cur' /\ ws'[x] = "asserted"
                      /\ Hooked(x)' \/ x \in pulled'.pending
    BY DEF HeldInv
  <2>1. s = cur /\ ws[x] = "asserted" /\ (Hooked(x) \/ x \in pulled.pending)
    BY <1>4, <1>10 DEF StoreInv, HeldInv
  <2> QED BY <1>3, <1>11, <2>1
<1>13. AttachedInv'
  <2> SUFFICES ASSUME NEW x \in Wakers
               PROVE  /\ Hooked(x)' => ws'[x] = c \/ Held(x, c)'
                      /\ x \in pulled'.pending => Held(x, c)'
                      /\ ws'[x] \in Sleepers => ws'[x] = c /\ Hooked(x)'
    BY <1>1, <1>3 DEF AttachedInv, Held
  <2>1. /\ Hooked(x) => ws[x] = c \/ Held(x, c)
        /\ x \in pulled.pending => Held(x, c)
        /\ ws[x] \in Sleepers => ws[x] = c /\ Hooked(x)
    BY <1>1, <1>4 DEF StoreInv, AttachedInv
  <2>2. Held(x, c)' <=> Held(x, c)
    BY <1>4, <1>10
  <2> QED BY <1>3, <1>11, <2>1, <2>2
<1>14. UniqueInv'
  <2> SUFFICES ASSUME NEW s \in Sleepers
               PROVE  /\ Distinct(shared'[s]) /\ Distinct(local'[s])
                      /\ \A x \in Wakers : UniqueOf(x, s)'
    BY DEF UniqueInv, Distinct
  <2>1. /\ Distinct(shared[s]) /\ Distinct(local[s]) /\ \A x \in Wakers : UniqueOf(x, s)
    BY <1>4 DEF StoreInv, UniqueInv
  <2>2. Distinct(shared'[s]) /\ Distinct(local'[s])
    <3>1. CASE s = c
      BY <1>6, <1>7, <2>1, <3>1, EmptyFacts
    <3>2. CASE s # c
      BY <1>7, <2>1, <3>2
    <3> QED BY <3>1, <3>2
  <2>3. ASSUME NEW x \in Wakers
        PROVE  UniqueOf(x, s)'
    <3> SUFFICES /\ ~(InList(shared'[s], x) /\ InList(local'[s], x))
                 /\ \A p \in Asserters :
                      Pushes(p, x, s)' =>
                        /\ ~InList(shared'[s], x) /\ ~InList(local'[s], x)
                        /\ \A r \in Asserters : Pushes(r, x, s)' => p = r
      BY DEF UniqueOf, InList
    <3>1. UniqueOf(x, s)
      BY <2>1
    <3>2. CASE s = c
      <4>1. \A p \in Asserters : Pushes(p, x, s) =>
              /\ ~InList(shared[s], x) /\ \A r \in Asserters : Pushes(r, x, s) => p = r
        BY <3>1 DEF UniqueOf
      <4> QED BY <1>8, <1>9, <3>2, <4>1
    <3>3. CASE s # c
      BY <1>7, <1>9, <3>1, <3>3 DEF UniqueOf
    <3> QED BY <3>2, <3>3
  <2> QED BY <2>2, <2>3
<1>15. SleepTypeOK'
  <2>1. ListsOK'
    BY <1>3, <1>4, <1>7 DEF SleepTypeOK, ListsOK
  <2>2. \A p \in Asserters : AsserterOK(p)'
    BY <1>3, <1>4 DEF SleepTypeOK, AsserterOK, None
  <2> QED BY <1>3, <1>4, <2>1, <2>2
          DEF SleepTypeOK, AssertPcs, CallOf, GValues, PulledOf, OwnerPcs, None
<1>16. HookInv'
  BY <1>3 DEF SleeperInv, HookInv, Added3, Added2
<1>17. PhaseInv'
  BY <1>3 DEF SleeperInv, PhaseInv, FetchPcs, None
<1>18. ListInv'
  BY <1>1, <1>3, <1>6, <1>7 DEF ListInv, FetchPcs
<1>19. WaitInv'
  BY <1>3 DEF SleeperInv, WaitInv
<1>20. SleepInv'
  BY <1>3 DEF SleepInv
<1> QED BY <1>12, <1>13, <1>14, <1>15, <1>16, <1>17, <1>18, <1>19, <1>20
        DEF SleeperInv, StoreInv

\* A waker is taken from the local list: it goes back to its sleeper, or is
\* crossed off.
LEMMA TakeStep ==
  ASSUME SleeperInv, Take, wpc' = wpc
  PROVE  SleeperInv'
<1>1. PICK c : c = cur
  OBVIOUS
<1>2. PICK w : w = Head(local[c])
  OBVIOUS
<1>3. PICK q : q = Tail(local[c])
  OBVIOUS
<1>4. PICK more : more = IF q = <<>> THEN "check" ELSE "take"
  OBVIOUS
<1>5. PICK left : left = pulled.pending \ {w}
  OBVIOUS
<1>6. /\ UNCHANGED <<shared, allWakers, waitingG, apc, aw, cur, wpc>>
      /\ spc = "take" /\ local' = [local EXCEPT ![c] = q]
      /\ IF pulled.pending = {}
         THEN /\ ws' = [ws EXCEPT ![w] = c]
              /\ spc' = IF ws[w] = "asserted" THEN "fetched" ELSE more
              /\ pulled' = [pulled EXCEPT !.w = w]
         ELSE /\ spc' = IF left = {} THEN "gone" ELSE more
              /\ pulled' = [pulled EXCEPT !.pending = left]
              /\ UNCHANGED ws
  BY <1>1, <1>2, <1>3, <1>4, <1>5 DEF Take
<1>7. /\ SleepTypeOK /\ StoreInv /\ c \in Sleepers /\ pulled \in PulledOf
      /\ local \in [Sleepers -> Seq(Wakers)] /\ ws \in [Wakers -> {"nil", "asserted"} \cup Sleepers]
  BY <1>1 DEF SleeperInv, SleepTypeOK, ListsOK
<1>8. local[c] # <<>> /\ local[c] \in Seq(Wakers)
  BY <1>1, <1>6, <1>7 DEF SleeperInv, ListInv
<1>9. Distinct(local[c])
  BY <1>7 DEF StoreInv, UniqueInv
<1>10. /\ w \in Wakers /\ q \in Seq(Wakers) /\ Distinct(q) /\ ~InList(q, w)
       /\ \A x : InList(local[c], x) <=> (x = w \/ InList(q, x))
  BY <1>2, <1>3, <1>8, <1>9, TailFacts
<1>11. /\ local' \in [Sleepers -> Seq(Wakers)] /\ local'[c] = q
       /\ \A s \in Sleepers : s # c => local'[s] = local[s]
  BY <1>6, <1>7, <1>10
<1>12. \A p \in Asserters : \A x \in Wakers : \A s \in Sleepers : Pushes(p, x, s)' <=> Pushes(p, x, s)
  BY <1>6 DEF Pushes
<1>13. Held(w, c) /\ InList(local[c], w)
  BY <1>10 DEF Held
<1>14. ws[w] = "asserted" /\ (Hooked(w) \/ w \in pulled.pending)
  BY <1>7, <1>10, <1>13 DEF StoreInv, HeldInv
<1>15. /\ ~InList(shared[c], w) /\ \A p \in Asserters : ~Pushes(p, w, c)
  <2>1. UniqueOf(w, c)
    BY <1>7, <1>10 DEF StoreInv, UniqueInv
  <2> QED BY <1>13, <2>1 DEF UniqueOf
<1>16. ASSUME NEW x \in Wakers, NEW s \in Sleepers
       PROVE  Held(x, s)' <=> (Held(x, s) /\ x # w)
  <2>1. Held(x, s)' <=> \/ InList(shared[s], x) \/ InList(local'[s], x)
                        \/ \E p \in Asserters : Pushes(p, x, s)
    BY <1>6, <1>12 DEF Held, InList
  <2>2. CASE s = c
    <3>1. CASE x = w
      BY <1>10, <1>11, <1>15, <2>1, <2>2, <3>1
    <3>2. CASE x # w
      BY <1>10, <1>11, <2>1, <2>2, <3>2 DEF Held
    <3> QED BY <3>1, <3>2
  <2>3. CASE s # c
    <3>1. Held(x, s) => s = c
      BY <1>1, <1>7 DEF StoreInv, HeldInv
    <3> QED BY <1>11, <2>1, <2>3, <3>1 DEF Held
  <2> QED BY <2>2, <2>3
<1>17. \A x \in Wakers : Hooked(x)' <=> Hooked(x)
  BY <1>6 DEF Hooked, InList
<1>18. /\ pulled'.pending = pulled.pending \ {w} /\ pulled' \in PulledOf
       /\ \A x \in Wakers : x # w => ws'[x] = ws[x]
       /\ ws' \in [Wakers -> {"nil", "asserted"} \cup Sleepers]
       /\ ws'[w] = IF pulled.pending = {} THEN c ELSE "asserted"
  <2>1. \/ pulled' = [pulled EXCEPT !.w = w] /\ pulled.pending = {}
        \/ pulled' = [pulled EXCEPT !.pending = left] /\ pulled.pending # {}
    BY <1>6
  <2>2. pulled'.pending = pulled.pending \ {w} /\ pulled' \in PulledOf
    BY <1>5, <1>7, <1>10, <2>1 DEF PulledOf
  <2>3. ws' = IF pulled.pending = {} THEN [ws EXCEPT ![w] = c] ELSE ws
    BY <1>6
  <2>4. /\ \A x \in Wakers : x # w => ws'[x] = ws[x]
        /\ ws' \in [Wakers -> {"nil", "asserted"} \cup Sleepers]
        /\ ws'[w] = IF pulled.pending = {} THEN c ELSE "asserted"
    BY <1>7, <1>10, <1>14, <2>3
  <2> QED BY <2>2, <2>4
<1>19. HeldInv'
  <2> SUFFICES ASSUME NEW x \in Wakers, NEW s \in Sleepers, Held(x, s)'
               PROVE  /\ s = cur' /\ ws'[x] = "asserted"
                      /\ Hooked(x)' \/ x \in pulled'.pending
    BY DEF HeldInv
  <2>1. Held(x, s) /\ x # w
    BY <1>16
  <2>2. s = cur /\ ws[x] = "asserted" /\ (Hooked(x) \/ x \in pulled.pending)
    BY <1>7, <2>1 DEF StoreInv, HeldInv
  <2> QED BY <1>6, <1>17, <1>18, <2>1, <2>2
<1>20. pulled.pending # {} => allWakers[c] = <<>> /\ wpc = "gone"
  BY <1>1, <1>6 DEF SleeperInv, PhaseInv
<1>21. pulled.pending # {} => \A x \in Wakers : ~Hooked(x)
  BY <1>1, <1>20, EmptyFacts DEF Hooked
<1>22. AttachedInv'
  <2> SUFFICES ASSUME NEW x \in Wakers
               PROVE  /\ Hooked(x)' => ws'[x] = c \/ Held(x, c)'
                      /\ x \in pulled'.pending => Held(x, c)'
                      /\ ws'[x] \in Sleepers => ws'[x] = c /\ Hooked(x)'
    BY <1>1, <1>6 DEF AttachedInv, Held
  <2>1. /\ Hooked(x) => ws[x] = c \/ Held(x, c)
        /\ x \in pulled.pending => Held(x, c)
        /\ ws[x] \in Sleepers => ws[x] = c /\ Hooked(x)
    BY <1>1, <1>7 DEF StoreInv, AttachedInv
  <2>2. Held(x, c)' <=> (Held(x, c) /\ x # w)
    BY <1>7, <1>16
  <2>3. CASE x # w
    BY <1>17, <1>18, <2>1, <2>2, <2>3
  <2>4. CASE x = w /\ pulled.pending = {}
    <3>1. ws'[x] = c /\ Hooked(x)'
      BY <1>14, <1>17, <1>18, <2>4
    <3> QED BY <1>18, <2>4, <3>1
  <2>5. CASE x = w /\ pulled.pending # {}
    <3>1. ~Hooked(x)' /\ ws'[x] = "asserted" /\ x \notin pulled'.pending
      BY <1>17, <1>18, <1>21, <2>5
    <3> QED BY <3>1, Names
  <2> QED BY <2>3, <2>4, <2>5
<1>23. UniqueInv'
  <2> SUFFICES ASSUME NEW s \in Sleepers
               PROVE  /\ Distinct(shared'[s]) /\ Distinct(local'[s])
                      /\ \A x \in Wakers : UniqueOf(x, s)'
    BY DEF UniqueInv, Distinct
  <2>1. /\ Distinct(shared[s]) /\ Distinct(local[s]) /\ \A x \in Wakers : UniqueOf(x, s)
    BY <1>7 DEF StoreInv, UniqueInv
  <2>2. Distinct(shared'[s]) /\ Distinct(local'[s])
    BY <1>6, <1>10, <1>11, <2>1
  <2>3. ASSUME NEW x \in Wakers
        PROVE  UniqueOf(x, s)'
    <3> SUFFICES /\ ~(InList(shared[s], x) /\ InList(local'[s], x))
                 /\ \A p \in Asserters :
                      Pushes(p, x, s)' =>
                        /\ ~InList(shared[s], x) /\ ~InList(local'[s], x)
                        /\ \A r \in Asserters : Pushes(r, x, s)' => p = r
      BY <1>6 DEF UniqueOf, InList
    <3>1. UniqueOf(x, s)
      BY <2>1
    <3>2. InList(local'[s], x) => InList(local[s], x)
      BY <1>10, <1>11
    <3> QED BY <1>12, <3>1, <3>2 DEF UniqueOf
  <2> QED BY <2>2, <2>3
<1>24. SleepTypeOK'
  <2>1. ListsOK'
    BY <1>6, <1>7, <1>11 DEF SleepTypeOK, ListsOK
  <2>2. \A p \in Asserters : AsserterOK(p)'
    BY <1>6, <1>7 DEF SleepTypeOK, AsserterOK, None
  <2>3. spc' \in OwnerPcs
    BY <1>4, <1>6 DEF OwnerPcs
  <2> QED BY <1>6, <1>7, <1>18, <2>1, <2>2, <2>3 DEF SleepTypeOK, AssertPcs, CallOf, GValues, None
<1>25. HookInv'
  BY <1>6 DEF SleeperInv, HookInv, Added3, Added2
<1>26. pulled.pending = {} => spc' = "fetched" /\ pulled'.pending = {} /\ wpc \in {"lock", "handle"}
  BY <1>6, <1>14, <1>18 DEF SleeperInv, PhaseInv, FetchPcs
<1>27. pulled.pending # {} => spc' = IF pulled'.pending = {} THEN "gone" ELSE more
  BY <1>5, <1>6, <1>18
<1>28. PhaseInv'
  <2>1. CASE pulled.pending = {}
    BY <1>6, <1>26, <2>1 DEF SleeperInv, PhaseInv, FetchPcs, None
  <2>2. CASE pulled.pending # {}
    BY <1>1, <1>4, <1>6, <1>20, <1>27, <2>2 DEF SleeperInv, PhaseInv, FetchPcs, None
  <2> QED BY <2>1, <2>2
<1>29. ListInv'
  <2>1. spc' = "take" => q # <<>>
    BY <1>4, <1>26, <1>27
  <2>2. spc' \in FetchPcs \ {"take"} => q = <<>>
    BY <1>4, <1>26, <1>27 DEF FetchPcs
  <2>3. spc' \notin {"pull", "abort"}
    BY <1>4, <1>26, <1>27
  <2> QED BY <1>1, <1>6, <1>11, <2>1, <2>2, <2>3 DEF ListInv
<1>30. spc' \notin {"commit", "parked"}
  BY <1>4, <1>26, <1>27
<1>31. WaitInv'
  BY <1>6, <1>30 DEF SleeperInv, WaitInv
<1>32. SleepInv'
  BY <1>30 DEF SleepInv
<1> QED BY <1>19, <1>22, <1>23, <1>24, <1>25, <1>28, <1>29, <1>31, <1>32
        DEF SleeperInv, StoreInv

\* Done takes a waker away, or waits for the one that is on its way.
LEMMA UnhookStep ==
  ASSUME SleeperInv, Unhook, wpc' = wpc
  PROVE  SleeperInv'
<1>1. PICK c : c = cur
  OBVIOUS
<1>2. PICK w : w = Head(allWakers[c])
  OBVIOUS
<1>3. PICK q : q = Tail(allWakers[c])
  OBVIOUS
<1>4. PICK more : more = pulled.pending \cup {w}
  OBVIOUS
<1>5. /\ UNCHANGED <<shared, local, waitingG, apc, aw, spc, cur, wpc>>
      /\ spc = "remove" /\ allWakers[c] # <<>> /\ allWakers' = [allWakers EXCEPT ![c] = q]
      /\ IF ws[w] = c THEN ws' = [ws EXCEPT ![w] = "nil"] /\ UNCHANGED pulled
                      ELSE pulled' = [pulled EXCEPT !.pending = more] /\ UNCHANGED ws
  BY <1>1, <1>2, <1>3, <1>4 DEF Unhook
<1>6. /\ SleepTypeOK /\ StoreInv /\ c \in Sleepers /\ pulled \in PulledOf /\ cur \in Sleepers
      /\ allWakers \in [Sleepers -> Seq(Wakers)]
      /\ ws \in [Wakers -> {"nil", "asserted"} \cup Sleepers]
  BY <1>1 DEF SleeperInv, SleepTypeOK, ListsOK
<1>7. wpc = "gone" /\ cur = "handshake" /\ allWakers[c] \in {<<"note">>, <<"seg", "note">>}
  BY <1>1, <1>5 DEF SleeperInv, PhaseInv, FetchPcs, HookInv, Added2
<1>8. /\ w \in Wakers /\ q \in Seq(Wakers) /\ ~InList(q, w)
      /\ \A x : InList(allWakers[c], x) <=> (x = w \/ InList(q, x))
  <2>1. allWakers[c] \in Seq(Wakers)
    BY <1>6
  <2>2. Distinct(allWakers[c])
    <3>1. DOMAIN <<"seg", "note">> = {1, 2} /\ DOMAIN <<"note">> = {1}
      OBVIOUS
    <3> QED BY <1>7, <3>1 DEF Distinct
  <2> QED BY <1>2, <1>3, <1>5, <2>1, <2>2, TailFacts
<1>9. q \in {<<>>, <<"note">>}
  <2>1. allWakers[c] = <<"note">> => q = <<>>
    BY <1>3
  <2>2. allWakers[c] = <<"seg", "note">> => q = <<"note">>
    BY <1>3
  <2> QED BY <1>7, <2>1, <2>2
<1>10. /\ allWakers' \in [Sleepers -> Seq(Wakers)] /\ allWakers'[c] = q
       /\ \A s \in Sleepers : s # c => allWakers'[s] = allWakers[s]
  BY <1>5, <1>6, <1>8
<1>11. ASSUME NEW x \in Wakers
       PROVE  Hooked(x) <=> (x = w \/ Hooked(x)')
  <2>1. Hooked(x)' <=> InList(allWakers'[c], x)
    BY <1>1, <1>5 DEF Hooked, InList
  <2>2. Hooked(x) <=> InList(allWakers[c], x)
    BY <1>1 DEF Hooked
  <2> QED BY <1>8, <1>10, <2>1, <2>2
<1>12. ~Hooked(w)' /\ Hooked(w)
  <2>1. ~InList(allWakers'[cur'], w)
    BY <1>1, <1>5, <1>8, <1>10
  <2>2. ~Hooked(w)'
    BY <2>1 DEF Hooked, InList
  <2> QED BY <1>8, <1>11, <2>2
<1>13. SamePushes
  BY <1>5 DEF SamePushes, Pushes
<1>14. \A x \in Wakers : \A s \in Sleepers : Held(x, s)' <=> Held(x, s)
  BY <1>5, <1>13 DEF SamePushes, Held, InList
<1>15. /\ IF ws[w] = c THEN ws'[w] = "nil" /\ pulled'.pending = pulled.pending
                       ELSE ws'[w] = ws[w] /\ pulled'.pending = more
       /\ ws' \in [Wakers -> {"nil", "asserted"} \cup Sleepers] /\ pulled' \in PulledOf
       /\ \A x \in Wakers : x # w => ws'[x] = ws[x] /\ (x \in pulled'.pending <=> x \in pulled.pending)
  <2>1. CASE ws[w] = c
    BY <1>5, <1>6, <1>8, <2>1
  <2>2. CASE ws[w] # c
    <3>1. pulled' = [pulled EXCEPT !.pending = more] /\ ws' = ws
      BY <1>5, <2>2
    <3>2. pulled' \in PulledOf /\ pulled'.pending = more
      BY <1>4, <1>6, <1>8, <3>1 DEF PulledOf
    <3> QED BY <1>4, <1>6, <2>2, <3>1, <3>2
  <2> QED BY <2>1, <2>2
<1>16. ws[w] = c => \A s \in Sleepers : ~Held(w, s)
  BY <1>6, <1>8, Names, NotHeld
<1>17. ws[w] = c => w \notin pulled.pending
  BY <1>6, <1>8, Names, NotHeld
<1>18. ws[w] # c => Held(w, c)
  BY <1>1, <1>6, <1>8, <1>12 DEF StoreInv, AttachedInv
<1>19. HeldInv'
  <2> SUFFICES ASSUME NEW x \in Wakers, NEW s \in Sleepers, Held(x, s)'
               PROVE  /\ s = cur' /\ ws'[x] = "asserted"
                      /\ Hooked(x)' \/ x \in pulled'.pending
    BY DEF HeldInv
  <2>1. Held(x, s)
    BY <1>14
  <2>2. s = cur /\ ws[x] = "asserted" /\ (Hooked(x) \/ x \in pulled.pending)
    BY <1>6, <2>1 DEF StoreInv, HeldInv
  <2>3. CASE x = w
    BY <1>4, <1>5, <1>15, <1>16, <2>1, <2>2, <2>3
  <2>4. CASE x # w
    BY <1>5, <1>11, <1>15, <2>2, <2>4
  <2> QED BY <2>3, <2>4
<1>20. AttachedInv'
  <2> SUFFICES ASSUME NEW x \in Wakers
               PROVE  /\ Hooked(x)' => ws'[x] = c \/ Held(x, c)'
                      /\ x \in pulled'.pending => Held(x, c)'
                      /\ ws'[x] \in Sleepers => ws'[x] = c /\ Hooked(x)'
    BY <1>1, <1>5 DEF AttachedInv, Held
  <2>1. /\ Hooked(x) => ws[x] = c \/ Held(x, c)
        /\ x \in pulled.pending => Held(x, c)
        /\ ws[x] \in Sleepers => ws[x] = c /\ Hooked(x)
    BY <1>1, <1>6 DEF StoreInv, AttachedInv
  <2>2. Held(x, c)' <=> Held(x, c)
    BY <1>6, <1>14
  <2>3. CASE x # w
    BY <1>11, <1>15, <2>1, <2>2, <2>3
  <2>4. CASE x = w /\ ws[w] = c
    BY <1>12, <1>15, <1>17, <2>4, Names
  <2>5. CASE x = w /\ ws[w] # c
    BY <1>12, <1>15, <1>18, <2>1, <2>2, <2>5
  <2> QED BY <2>3, <2>4, <2>5
<1>21. UniqueInv'
  <2> SUFFICES ASSUME NEW s \in Sleepers
               PROVE  /\ Distinct(shared'[s]) /\ Distinct(local'[s])
                      /\ \A x \in Wakers : UniqueOf(x, s)'
    BY DEF UniqueInv, Distinct
  <2>1. /\ Distinct(shared[s]) /\ Distinct(local[s]) /\ \A x \in Wakers : UniqueOf(x, s)
    BY <1>6 DEF StoreInv, UniqueInv
  <2>2. ASSUME NEW x \in Wakers
        PROVE  UniqueOf(x, s)'
    <3>1. UniqueOf(x, s)
      BY <2>1
    <3> QED BY <1>5, <1>13, <3>1 DEF SamePushes, UniqueOf, InList
  <2> QED BY <1>5, <2>1, <2>2
<1>22. SleepTypeOK'
  <2>1. ListsOK'
    BY <1>5, <1>6, <1>10 DEF SleepTypeOK, ListsOK
  <2>2. \A p \in Asserters : AsserterOK(p)'
    BY <1>5, <1>6 DEF SleepTypeOK, AsserterOK, None
  <2> QED BY <1>5, <1>6, <1>15, <2>1, <2>2 DEF SleepTypeOK, AssertPcs, CallOf, GValues, None, OwnerPcs
<1>23. HookInv'
  <2>1. \A s \in Sleepers : s # cur' => allWakers'[s] = <<>>
    BY <1>1, <1>5, <1>10 DEF SleeperInv, HookInv
  <2>2. allWakers'[cur'] \in Added2
    BY <1>1, <1>5, <1>9, <1>10 DEF Added2
  <2> QED BY <1>5, <1>7, <2>1, <2>2 DEF HookInv
<1>24. PhaseInv'
  BY <1>5, <1>7 DEF SleeperInv, PhaseInv, FetchPcs, None
<1>25. ListInv'
  BY <1>5 DEF SleeperInv, ListInv, FetchPcs
<1>26. WaitInv'
  BY <1>5 DEF SleeperInv, WaitInv
<1>27. SleepInv'
  BY <1>5 DEF SleepInv
<1> QED BY <1>19, <1>20, <1>21, <1>22, <1>23, <1>24, <1>25, <1>26, <1>27
        DEF SleeperInv, StoreInv

\* Fetch and Done, step by step.
LEMMA OwnerStepKeeps ==
  ASSUME SleeperInv, OwnerStep, wpc' = wpc
  PROVE  SleeperInv'
BY CheckStep, PrepareStep, RecheckStep, AbortStep, CommitStep, PullStep, TakeStep,
   UnhookStep, DoneWaitStep DEF OwnerStep

-----------------------------------------------------------------------------
(* The worker and the threads, as far as the sleepers are concerned. *)

\* The sleepers are left alone.
LEMMA SleepersAlone ==
  ASSUME SleeperInv, UNCHANGED sleepVars,
         \/ wpc' = wpc
         \/ wpc = "unlock" /\ wpc' = "fetch"
         \/ wpc = "lock" /\ wpc' = "handle" /\ spc = "fetched"
  PROVE  SleeperInv'
<1>1. UNCHANGED <<ws, shared, local, allWakers, waitingG, apc, aw, spc, cur, pulled>>
  BY DEF sleepVars, wakerVars
<1>2. SleepTypeOK'
  <2>1. ListsOK'
    BY <1>1 DEF SleeperInv, SleepTypeOK, ListsOK
  <2>2. \A p \in Asserters : AsserterOK(p)'
    BY <1>1 DEF SleeperInv, SleepTypeOK, AsserterOK, None
  <2> QED BY <1>1, <2>1, <2>2 DEF SleeperInv, SleepTypeOK, AssertPcs, CallOf, GValues, PulledOf, OwnerPcs, None
<1>3. StoreInv'
  <2>1. pulled'.pending = pulled.pending
    BY <1>1
  <2> QED BY <1>1, <2>1, Untouched
<1>4. HookInv'
  BY <1>1 DEF SleeperInv, HookInv, Added3, Added2
<1>5. PhaseInv'
  BY <1>1 DEF SleeperInv, PhaseInv, FetchPcs, None
<1>6. ListInv'
  BY <1>1 DEF SleeperInv, ListInv, FetchPcs
<1>7. WaitInv'
  BY <1>1 DEF SleeperInv, WaitInv
<1>8. SleepInv'
  BY <1>1 DEF SleeperInv, SleepInv, None
<1> QED BY <1>2, <1>3, <1>4, <1>5, <1>6, <1>7, <1>8 DEF SleeperInv

\* A thread calls Assert.
LEMMA ThreadAsserts ==
  ASSUME SleeperInv, NEW t \in Threads, NEW w \in Wakers, CallAssert(t, w),
         UNCHANGED <<wakerVars, spc, cur, pulled, wpc>>
  PROVE  SleeperInv'
<1>1. SleepTypeOK /\ t \in Asserters /\ t # Worker
  BY Names DEF SleeperInv
<1>2. PICK d : d = [aw[t] EXCEPT !.w = w]
  OBVIOUS
<1>3. Moves(t, "assert", d) /\ apc[t] = None
  BY <1>1, <1>2, CallAssertMoves
<1>4. UNCHANGED <<ws, shared, local, allWakers, waitingG, spc, cur, pulled, wpc>>
  BY DEF wakerVars
<1>5. PICK c : c = cur
  OBVIOUS
<1>6. ~Wakes(t, c) /\ apc[t] \notin {"push", "cas"} /\ "assert" \notin {"push", "cas"}
  BY <1>3 DEF Wakes, None
<1> QED BY <1>1, <1>3, <1>4, <1>5, <1>6, OnlyMoves

\* The worker is out of Fetch, and may assert a waker before it goes on.
LEMMA GoesOut ==
  ASSUME SleeperInv, UNCHANGED <<wakerVars, cur, pulled>>,
         spc' = "out", spc \in {"out", "fetched"}, wpc \in {"add", "handle"},
         wpc' \in {"unlock", "fetch", "done"}, HookInv',
         UNCHANGED <<apc, aw>> \/ CallAssert(Worker, "seg")
  PROVE  SleeperInv'
<1>1. UNCHANGED <<ws, shared, local, allWakers, waitingG, cur, pulled>>
  BY DEF wakerVars
<1>2. /\ SleepTypeOK /\ StoreInv /\ cur \in Sleepers /\ Worker \in Asserters /\ "seg" \in Wakers
  BY Names DEF SleeperInv, SleepTypeOK
<1>3. /\ apc' \in [Asserters -> AssertPcs] /\ aw' \in [Asserters -> CallOf]
      /\ \A q \in Asserters : AsserterOK(q)'
      /\ SamePushes
  <2>1. CASE UNCHANGED <<apc, aw>>
    <3>1. /\ apc \in [Asserters -> AssertPcs] /\ aw \in [Asserters -> CallOf]
          /\ \A q \in Asserters : AsserterOK(q)
      BY <1>2 DEF SleepTypeOK
    <3>2. SamePushes
      BY <2>1 DEF SamePushes, Pushes
    <3>3. \A q \in Asserters : AsserterOK(q)'
      BY <2>1, <3>1 DEF AsserterOK, None
    <3> QED BY <2>1, <3>1, <3>2, <3>3
  <2>2. CASE CallAssert(Worker, "seg")
    <3>1. PICK d : d = [aw[Worker] EXCEPT !.w = "seg"]
      OBVIOUS
    <3>2. Moves(Worker, "assert", d) /\ apc[Worker] = None
      BY <1>2, <2>2, <3>1, CallAssertMoves
    <3>3. apc[Worker] \notin {"push", "cas"} /\ "assert" \notin {"push", "cas"}
      BY <3>2 DEF None
    <3>4. SamePushes
      BY <1>2, <3>2, <3>3, MovesSame
    <3> QED BY <3>2, <3>4 DEF Moves
  <2> QED BY <2>1, <2>2
<1>4. SleepTypeOK'
  <2>1. ListsOK'
    BY <1>1, <1>2 DEF SleepTypeOK, ListsOK
  <2> QED BY <1>1, <1>2, <1>3, <2>1 DEF SleepTypeOK, GValues, PulledOf, OwnerPcs, None
<1>5. StoreInv'
  <2>1. pulled'.pending = pulled.pending
    BY <1>1
  <2> QED BY <1>1, <1>2, <1>3, <2>1, StoreSame
<1>7. pulled'.pending = {}
  BY <1>1 DEF SleeperInv, PhaseInv
<1>8. PhaseInv'
  BY <1>7 DEF PhaseInv, FetchPcs
<1>9. ListInv'
  BY DEF ListInv, FetchPcs
<1>10. WaitInv'
  BY <1>1 DEF SleeperInv, WaitInv
<1>11. SleepInv'
  BY DEF SleepInv
<1> QED BY <1>4, <1>5, <1>8, <1>9, <1>10, <1>11 DEF SleeperInv

\* Fetch is called, or Done.
LEMMA FetchStep ==
  ASSUME SleeperInv, Fetch
  PROVE  SleeperInv'
<1>1. /\ UNCHANGED <<ws, shared, local, allWakers, waitingG, apc, aw, cur, pulled>>
      /\ spc = "out" /\ spc' = IF local[cur] = <<>> THEN "check" ELSE "take"
      /\ wpc = "fetch" /\ wpc' = (IF cur = "main" THEN "lock" ELSE "handle")
      /\ apc[Worker] = None
  BY DEF Fetch, WorkerAt, Ready, CallFetch, Step, wakerVars
<1>2. SleepTypeOK'
  <2>1. ListsOK'
    BY <1>1 DEF SleeperInv, SleepTypeOK, ListsOK
  <2>2. \A p \in Asserters : AsserterOK(p)'
    BY <1>1 DEF SleeperInv, SleepTypeOK, AsserterOK, None
  <2> QED BY <1>1, <2>1, <2>2 DEF SleeperInv, SleepTypeOK, AssertPcs, CallOf, GValues, PulledOf, OwnerPcs, None
<1>3. StoreInv'
  <2>1. pulled'.pending = pulled.pending
    BY <1>1
  <2> QED BY <1>1, <2>1, Untouched
<1>4. HookInv'
  BY <1>1 DEF SleeperInv, HookInv
<1>5. PhaseInv'
  BY <1>1 DEF SleeperInv, PhaseInv, FetchPcs, None
<1>6. ListInv'
  BY <1>1 DEF ListInv, FetchPcs
<1>7. WaitInv'
  BY <1>1 DEF SleeperInv, WaitInv
<1>8. SleepInv'
  BY <1>1 DEF SleepInv
<1> QED BY <1>2, <1>3, <1>4, <1>5, <1>6, <1>7, <1>8 DEF SleeperInv

\* Done is called for the sleeper of the handshake.
LEMMA HandshakeDoneStep ==
  ASSUME SleeperInv, HandshakeDone
  PROVE  SleeperInv'
<1>1. /\ UNCHANGED <<ws, shared, local, allWakers, waitingG, apc, aw, cur, pulled>>
      /\ spc = "out" /\ spc' = "remove" /\ wpc = "done" /\ wpc' = "gone"
      /\ apc[Worker] = None
  BY DEF HandshakeDone, WorkerAt, Ready, CallDone, Step, wakerVars
<1>2. SleepTypeOK'
  <2>1. ListsOK'
    BY <1>1 DEF SleeperInv, SleepTypeOK, ListsOK
  <2>2. \A p \in Asserters : AsserterOK(p)'
    BY <1>1 DEF SleeperInv, SleepTypeOK, AsserterOK, None
  <2> QED BY <1>1, <2>1, <2>2 DEF SleeperInv, SleepTypeOK, AssertPcs, CallOf, GValues, PulledOf, OwnerPcs, None
<1>3. StoreInv'
  <2>1. pulled'.pending = pulled.pending
    BY <1>1
  <2> QED BY <1>1, <2>1, Untouched
<1>4. HookInv'
  <2>1. cur = "handshake" /\ allWakers[cur] = <<"seg", "note">>
    BY <1>1 DEF SleeperInv, HookInv
  <2>2. allWakers'[cur'] \in Added2
    BY <1>1, <2>1 DEF Added2
  <2> QED BY <1>1, <2>1, <2>2 DEF SleeperInv, HookInv
<1>5. PhaseInv'
  BY <1>1 DEF SleeperInv, PhaseInv, FetchPcs, None
<1>6. ListInv'
  BY <1>1 DEF ListInv, FetchPcs
<1>7. WaitInv'
  BY <1>1 DEF SleeperInv, WaitInv
<1>8. SleepInv'
  BY <1>1 DEF SleepInv
<1> QED BY <1>2, <1>3, <1>4, <1>5, <1>6, <1>7, <1>8 DEF SleeperInv

\* When the sleeper of the handshake is done with, nobody holds a waker of it.
LEMMA HandoverStep ==
  ASSUME SleeperInv, Handover
  PROVE  SleeperInv'
<1>1. /\ UNCHANGED <<ws, shared, local, allWakers, waitingG, apc, aw, pulled>>
      /\ spc = "gone" /\ spc' = "out" /\ wpc = "gone" /\ wpc' = "add" /\ cur' = "main"
      /\ apc[Worker] = None
  BY DEF Handover, WorkerAt, Ready, wakerVars
<1>2. /\ SleepTypeOK /\ StoreInv /\ cur = "handshake" /\ cur \in Sleepers
      /\ Sleepers = {"handshake", "main"}
  BY <1>1, Names DEF SleeperInv, SleepTypeOK, HookInv
<1>3. pulled.pending = {} /\ allWakers[cur] = <<>>
  BY <1>1 DEF SleeperInv, PhaseInv
<1>4. \A s \in Sleepers : allWakers[s] = <<>>
  BY <1>3 DEF SleeperInv, HookInv
<1>5. \A x \in Wakers : ~Hooked(x)
  BY <1>3, EmptyFacts DEF Hooked
<1>6. \A x \in Wakers : ~Hooked(x)'
  <2>1. allWakers'[cur'] = <<>>
    BY <1>1, <1>2, <1>4
  <2>2. \A x \in Wakers : ~InList(allWakers'[cur'], x)
    BY <2>1, EmptyFacts
  <2> QED BY <2>2 DEF Hooked, InList
<1>7. \A x \in Wakers : \A s \in Sleepers : ~Held(x, s)
  BY <1>2, <1>3, <1>5 DEF StoreInv, HeldInv
<1>8. \A x \in Wakers : \A s \in Sleepers : ~Held(x, s)'
  BY <1>1, <1>7 DEF Held, Pushes, InList
<1>9. HeldInv'
  BY <1>8 DEF HeldInv
<1>10. AttachedInv'
  <2> SUFFICES ASSUME NEW x \in Wakers
               PROVE  /\ ~Hooked(x)' /\ x \notin pulled'.pending /\ ws'[x] \notin Sleepers
    BY DEF AttachedInv
  <2>1. ws[x] \notin Sleepers
    BY <1>2, <1>5 DEF StoreInv, AttachedInv
  <2> QED BY <1>1, <1>3, <1>6, <2>1
<1>11. UniqueInv'
  <2> SUFFICES ASSUME NEW s \in Sleepers
               PROVE  /\ Distinct(shared'[s]) /\ Distinct(local'[s])
                      /\ \A x \in Wakers : UniqueOf(x, s)'
    BY DEF UniqueInv, Distinct
  <2>1. /\ Distinct(shared[s]) /\ Distinct(local[s])
    BY <1>2 DEF StoreInv, UniqueInv
  <2>2. \A x \in Wakers : UniqueOf(x, s)'
    BY <1>8 DEF UniqueOf, Held
  <2> QED BY <1>1, <2>1, <2>2
<1>12. SleepTypeOK'
  <2>1. ListsOK'
    BY <1>1, <1>2 DEF SleepTypeOK, ListsOK
  <2>2. \A p \in Asserters : AsserterOK(p)'
    BY <1>1, <1>2 DEF SleepTypeOK, AsserterOK, None
  <2> QED BY <1>1, <1>2, <2>1, <2>2 DEF SleepTypeOK, AssertPcs, CallOf, GValues, PulledOf, OwnerPcs, None
<1>13. HookInv'
  <2>1. allWakers'[cur'] = <<>> /\ \A s \in Sleepers : allWakers'[s] = <<>>
    BY <1>1, <1>2, <1>4
  <2> QED BY <1>1, <2>1 DEF HookInv, Added3
<1>14. PhaseInv'
  BY <1>1, <1>3 DEF PhaseInv, FetchPcs
<1>15. ListInv'
  BY <1>1 DEF ListInv, FetchPcs
<1>16. WaitInv'
  BY <1>1 DEF SleeperInv, WaitInv
<1>17. SleepInv'
  BY <1>1 DEF SleepInv
<1> QED BY <1>9, <1>10, <1>11, <1>12, <1>13, <1>14, <1>15, <1>16, <1>17
        DEF SleeperInv, StoreInv

\* A list is known by its first and the rest.
LEMMA SameList ==
  ASSUME NEW S, NEW q \in Seq(S), NEW w \in S, NEW m \in Seq(S),
         Len(m) = Len(q) + 1, m[1] = w, \A i \in 1..Len(q) : m[i + 1] = q[i]
  PROVE  <<w>> \o q = m
<1>1. PICK c : c = <<w>> \o q
  OBVIOUS
<1>2. /\ c \in Seq(S) /\ Len(c) = Len(q) + 1 /\ Len(q) \in Nat
      /\ \A i \in 1..(Len(q) + 1) : c[i] = IF i = 1 THEN w ELSE q[i - 1]
  BY <1>1
<1>3. \A i \in 1..Len(m) : c[i] = m[i]
  <2> SUFFICES ASSUME NEW i \in 1..(Len(q) + 1)
               PROVE  c[i] = m[i]
    OBVIOUS
  <2>1. CASE i = 1
    BY <1>2, <2>1
  <2>2. CASE i # 1
    <3>1. i - 1 \in 1..Len(q) /\ (i - 1) + 1 = i
      BY <1>2, <2>2
    <3>2. m[(i - 1) + 1] = q[i - 1]
      BY <3>1
    <3> QED BY <1>2, <2>2, <3>1, <3>2
  <2> QED BY <2>1, <2>2
<1>4. c = m
  BY <1>2, <1>3
<1> QED BY <1>1, <1>4

\* The wakers are added one by one, and the list grows as expected.
LEMMA GrowingLists ==
  /\ Len(<<>>) = 0 /\ Len(<<"snd">>) = 1 /\ Len(<<"note">>) = 1
  /\ Len(<<"seg", "snd">>) = 2 /\ Len(<<"seg", "note">>) = 2
  /\ Len(<<"note", "seg", "snd">>) = 3
  /\ <<"snd">> \o <<>> = <<"snd">> /\ <<"seg">> \o <<"snd">> = <<"seg", "snd">>
  /\ <<"note">> \o <<"seg", "snd">> = <<"note", "seg", "snd">>
  /\ <<"note">> \o <<>> = <<"note">> /\ <<"seg">> \o <<"note">> = <<"seg", "note">>
  /\ Len(MainWakers) = 3 /\ Len(HandshakeWakers) = 2
  /\ MainWakers[1] = "snd" /\ MainWakers[2] = "seg" /\ MainWakers[3] = "note"
  /\ HandshakeWakers[1] = "note" /\ HandshakeWakers[2] = "seg"
<1>1. /\ Len(<<>>) = 0 /\ Len(<<"snd">>) = 1 /\ Len(<<"note">>) = 1
      /\ Len(<<"seg", "snd">>) = 2 /\ Len(<<"seg", "note">>) = 2
      /\ Len(<<"note", "seg", "snd">>) = 3
  OBVIOUS
<1>2. /\ Len(MainWakers) = 3 /\ Len(HandshakeWakers) = 2
      /\ MainWakers[1] = "snd" /\ MainWakers[2] = "seg" /\ MainWakers[3] = "note"
      /\ HandshakeWakers[1] = "note" /\ HandshakeWakers[2] = "seg"
  BY DEF MainWakers, HandshakeWakers
<1>3. <<"snd">> \o <<>> = <<"snd">>
  OBVIOUS
<1>4. <<"note">> \o <<>> = <<"note">>
  OBVIOUS
<1>5. \A x, y \in {"snd", "seg", "note"} : <<x>> \o <<y>> = <<x, y>>
  <2> SUFFICES ASSUME NEW x \in {"snd", "seg", "note"}, NEW y \in {"snd", "seg", "note"}
               PROVE  <<x>> \o <<y>> = <<x, y>>
    OBVIOUS
  <2>1. <<y>> \in Seq({"snd", "seg", "note"}) /\ <<x, y>> \in Seq({"snd", "seg", "note"})
    OBVIOUS
  <2>2. /\ Len(<<x, y>>) = Len(<<y>>) + 1 /\ <<x, y>>[1] = x
        /\ \A i \in 1..Len(<<y>>) : <<x, y>>[i + 1] = <<y>>[i]
    OBVIOUS
  <2> QED BY <2>1, <2>2, SameList
<1>6. <<"seg">> \o <<"snd">> = <<"seg", "snd">> /\ <<"seg">> \o <<"note">> = <<"seg", "note">>
  BY <1>5
<1>7. <<"note">> \o <<"seg", "snd">> = <<"note", "seg", "snd">>
  <2>1. /\ <<"seg", "snd">> \in Seq({"snd", "seg", "note"})
        /\ <<"note", "seg", "snd">> \in Seq({"snd", "seg", "note"})
    OBVIOUS
  <2>2. /\ Len(<<"note", "seg", "snd">>) = Len(<<"seg", "snd">>) + 1
        /\ <<"note", "seg", "snd">>[1] = "note"
        /\ \A i \in 1..Len(<<"seg", "snd">>) :
             <<"note", "seg", "snd">>[i + 1] = <<"seg", "snd">>[i]
    OBVIOUS
  <2> QED BY <2>1, <2>2, SameList
<1> QED BY <1>1, <1>2, <1>3, <1>4, <1>5, <1>6, <1>7

\* The next waker to add is new, and brings the list one further.
LEMMA NextWaker ==
  ASSUME NEW l, NEW all,
         \/ l \in Added3 /\ all = MainWakers
         \/ l \in Added2 /\ all = HandshakeWakers,
         Len(l) < Len(all), NEW w, w = all[Len(l) + 1]
  PROVE  /\ w \in {"snd", "seg", "note"} /\ ~InList(l, w)
         /\ all = MainWakers => <<w>> \o l \in Added3
         /\ all = HandshakeWakers => <<w>> \o l \in Added2
<1>1. CASE l \in Added3 /\ all = MainWakers
  <2>1. MainWakers # HandshakeWakers
    BY GrowingLists
  <2>2. l \in {<<>>, <<"snd">>, <<"seg", "snd">>}
    BY <1>1, GrowingLists DEF Added3
  <2>3. CASE l = <<>>
    <3>1. w = "snd" /\ <<w>> \o l = <<"snd">>
      BY <1>1, <2>3, GrowingLists
    <3> QED BY <2>1, <2>3, <1>1, <3>1, EmptyFacts DEF Added3
  <2>4. CASE l = <<"snd">>
    <3>1. w = "seg" /\ <<w>> \o l = <<"seg", "snd">>
      BY <1>1, <2>4, GrowingLists
    <3> QED BY <2>1, <2>4, <1>1, <3>1, HookLists DEF Added3
  <2>5. CASE l = <<"seg", "snd">>
    <3>1. w = "note" /\ <<w>> \o l = <<"note", "seg", "snd">>
      BY <1>1, <2>5, GrowingLists
    <3> QED BY <2>1, <2>5, <1>1, <3>1, HookLists DEF Added3
  <2> QED BY <2>2, <2>3, <2>4, <2>5
<1>2. CASE l \in Added2 /\ all = HandshakeWakers
  <2>1. MainWakers # HandshakeWakers
    BY GrowingLists
  <2>2. l \in {<<>>, <<"note">>}
    BY <1>2, GrowingLists DEF Added2
  <2>3. CASE l = <<>>
    <3>1. w = "note" /\ <<w>> \o l = <<"note">>
      BY <1>2, <2>3, GrowingLists
    <3> QED BY <2>1, <2>3, <1>2, <3>1, EmptyFacts DEF Added2
  <2>4. CASE l = <<"note">>
    <3>1. w = "seg" /\ <<w>> \o l = <<"seg", "note">>
      BY <1>2, <2>4, GrowingLists
    <3> QED BY <2>1, <2>4, <1>2, <3>1, HookLists DEF Added2
  <2> QED BY <2>2, <2>3, <2>4
<1> QED BY <1>1, <1>2

\* AddWaker hooks a waker, or puts it into the list at once.
LEMMA AddStep ==
  ASSUME SleeperInv, Add
  PROVE  SleeperInv'
<1>1. PICK c : c = cur
  OBVIOUS
<1>2. PICK l : l = allWakers[c]
  OBVIOUS
<1>3. PICK all : all = IF c = "main" THEN MainWakers ELSE HandshakeWakers
  OBVIOUS
<1>4. PICK w : w = all[Len(l) + 1]
  OBVIOUS
<1>5. /\ apc[Worker] = None /\ wpc = "add" /\ Len(l) < Len(all) /\ AddWaker(Worker, w)
      /\ wpc' = wpc
  BY <1>1, <1>2, <1>3, <1>4 DEF Add, Ready, Added, progVars
<1>6. PICK m : m = <<w>> \o l
  OBVIOUS
<1>7. /\ UNCHANGED <<shared, local, waitingG, cur, pulled, spc>> /\ spc = "out"
      /\ allWakers' = [allWakers EXCEPT ![c] = m]
      /\ IF ws[w] = "asserted"
         THEN /\ Move(Worker, "push") /\ aw' = [aw EXCEPT ![Worker].w = w, ![Worker].s = c]
              /\ UNCHANGED ws
         ELSE ws' = [ws EXCEPT ![w] = c] /\ UNCHANGED <<apc, aw>>
  BY <1>1, <1>2, <1>5, <1>6 DEF AddWaker
<1>8. /\ SleepTypeOK /\ StoreInv /\ c \in Sleepers /\ cur \in Sleepers /\ Worker \in Asserters
      /\ allWakers \in [Sleepers -> Seq(Wakers)] /\ pulled.pending = {}
      /\ ws \in [Wakers -> {"nil", "asserted"} \cup Sleepers]
  <2>1. pulled.pending = {}
    BY <1>5 DEF SleeperInv, PhaseInv
  <2> QED BY <1>1, <2>1, Names DEF SleeperInv, SleepTypeOK, ListsOK
<1>9. l \in IF c = "main" THEN Added3 ELSE Added2
  BY <1>1, <1>2, <1>5 DEF SleeperInv, HookInv
<1>10. /\ w \in Wakers /\ ~InList(l, w)
       /\ m \in IF c = "main" THEN Added3 ELSE Added2
  <2>1. /\ \/ l \in Added3 /\ all = MainWakers
           \/ l \in Added2 /\ all = HandshakeWakers
        /\ Len(l) < Len(all)
    BY <1>3, <1>5, <1>9
  <2>2. /\ w \in {"snd", "seg", "note"} /\ ~InList(l, w)
        /\ all = MainWakers => <<w>> \o l \in Added3
        /\ all = HandshakeWakers => <<w>> \o l \in Added2
    BY <1>4, <2>1, NextWaker
  <2> QED BY <1>3, <1>6, <2>2, Names
<1>11. l \in Seq(Wakers)
  BY <1>2, <1>8
<1>12. m \in Seq(Wakers) /\ \A x : InList(m, x) <=> (x = w \/ InList(l, x))
  BY <1>6, <1>10, <1>11, ConsFacts
<1>13. /\ allWakers' \in [Sleepers -> Seq(Wakers)] /\ allWakers'[c] = m
       /\ \A s \in Sleepers : s # c => allWakers'[s] = allWakers[s]
  BY <1>7, <1>8, <1>12
<1>14. ASSUME NEW x \in Wakers
       PROVE  /\ Hooked(x)' <=> (x = w \/ Hooked(x))
              /\ Hooked(x) <=> InList(l, x)
  <2>1. Hooked(x)' <=> InList(allWakers'[c], x)
    BY <1>1, <1>7 DEF Hooked, InList
  <2>2. Hooked(x) <=> InList(l, x)
    BY <1>1, <1>2 DEF Hooked
  <2> QED BY <1>12, <1>13, <2>1, <2>2
<1>15. ~Hooked(w) /\ Hooked(w)'
  BY <1>10, <1>14
<1>16. \A s \in Sleepers : ~Held(w, s)
  BY <1>8, <1>10, <1>15 DEF StoreInv, HeldInv
<1>17. \A x \in Wakers : x # w => (Hooked(x)' <=> Hooked(x))
  BY <1>14
<1>18. StoreInv' /\ SleepTypeOK'
  <2>1. CASE ws[w] = "asserted"
    <3>1. PICK d : d = [[aw[Worker] EXCEPT !.w = w] EXCEPT !.s = c]
      OBVIOUS
    <3>2. aw \in [Asserters -> CallOf] /\ aw[Worker] \in CallOf
      BY <1>8 DEF SleepTypeOK
    <3>3. d \in CallOf /\ d.w = w /\ d.s = c
      BY <1>8, <1>10, <3>1, <3>2 DEF CallOf
    <3>4. aw' = [aw EXCEPT ![Worker].w = w, ![Worker].s = c] /\ apc' = [apc EXCEPT ![Worker] = "push"]
      BY <1>7, <2>1 DEF Move
    <3>5. aw' = [aw EXCEPT ![Worker] = d]
      BY <1>8, <3>1, <3>2, <3>4
    <3>6. "push" \in AssertPcs
      BY DEF AssertPcs
    <3>7. Moves(Worker, "push", d)
      BY <1>8, <1>10, <3>3, <3>4, <3>5, <3>6, MovesFacts
    <3>8. ws' = ws /\ ws' = [ws EXCEPT ![w] = "asserted"]
      BY <1>7, <1>8, <1>10, <2>1
    <3>9. apc[Worker] \notin {"push", "cas"}
      BY <1>5 DEF None
    <3>10. StoreInv'
      BY <1>1, <1>7, <1>8, <1>10, <1>15, <1>16, <1>17, <3>3, <3>7, <3>8, <3>9, StorePush
    <3>11. ListsOK'
      BY <1>7, <1>8, <1>13 DEF SleepTypeOK, ListsOK
    <3>12. SleepTypeOK'
      BY <1>7, <1>8, <3>7, <3>8, <3>11 DEF SleepTypeOK, Moves
    <3> QED BY <3>10, <3>12
  <2>2. CASE ws[w] # "asserted"
    <3>1. ws' = [ws EXCEPT ![w] = c] /\ apc' = apc /\ aw' = aw
      BY <1>7, <2>2
    <3>2. /\ ws' \in [Wakers -> {"nil", "asserted"} \cup Sleepers] /\ ws'[w] = c
          /\ \A x \in Wakers : x # w => ws'[x] = ws[x]
      BY <1>8, <1>10, <3>1
    <3>3. SamePushes
      BY <3>1 DEF SamePushes, Pushes
    <3>4. \A x \in Wakers : \A s \in Sleepers : Held(x, s)' <=> Held(x, s)
      BY <1>7, <3>3 DEF SamePushes, Held, InList
    <3>5. HeldInv'
      <4> SUFFICES ASSUME NEW x \in Wakers, NEW s \in Sleepers, Held(x, s)'
                   PROVE  /\ s = cur' /\ ws'[x] = "asserted"
                          /\ Hooked(x)' \/ x \in pulled'.pending
        BY DEF HeldInv
      <4>1. Held(x, s) /\ x # w
        BY <1>16, <3>4
      <4>2. s = cur /\ ws[x] = "asserted" /\ (Hooked(x) \/ x \in pulled.pending)
        BY <1>8, <4>1 DEF StoreInv, HeldInv
      <4> QED BY <1>7, <1>17, <3>2, <4>1, <4>2
    <3>6. AttachedInv'
      <4> SUFFICES ASSUME NEW x \in Wakers
                   PROVE  /\ Hooked(x)' => ws'[x] = c \/ Held(x, c)'
                          /\ x \in pulled'.pending => Held(x, c)'
                          /\ ws'[x] \in Sleepers => ws'[x] = c /\ Hooked(x)'
        BY <1>1, <1>7 DEF AttachedInv, Held
      <4>1. /\ Hooked(x) => ws[x] = c \/ Held(x, c)
            /\ ws[x] \in Sleepers => ws[x] = c /\ Hooked(x)
        BY <1>1, <1>8 DEF StoreInv, AttachedInv
      <4>2. Held(x, c)' <=> Held(x, c)
        BY <1>8, <3>4
      <4>3. x \notin pulled'.pending
        BY <1>7, <1>8
      <4>4. CASE x = w
        BY <1>15, <3>2, <4>3, <4>4
      <4>5. CASE x # w
        BY <1>17, <3>2, <4>1, <4>2, <4>3, <4>5
      <4> QED BY <4>4, <4>5
    <3>7. UniqueInv'
      <4> SUFFICES ASSUME NEW s \in Sleepers
                   PROVE  /\ Distinct(shared'[s]) /\ Distinct(local'[s])
                          /\ \A x \in Wakers : UniqueOf(x, s)'
        BY DEF UniqueInv, Distinct
      <4>1. /\ Distinct(shared[s]) /\ Distinct(local[s]) /\ \A x \in Wakers : UniqueOf(x, s)
        BY <1>8 DEF StoreInv, UniqueInv
      <4>2. ASSUME NEW x \in Wakers
            PROVE  UniqueOf(x, s)'
        <5>1. UniqueOf(x, s)
          BY <4>1
        <5> QED BY <1>7, <3>3, <5>1 DEF SamePushes, UniqueOf, InList
      <4> QED BY <1>7, <4>1, <4>2
    <3>8. ListsOK'
      BY <1>7, <1>8, <1>13 DEF SleepTypeOK, ListsOK
    <3>9. \A p \in Asserters : AsserterOK(p)'
      BY <1>8, <3>1 DEF SleepTypeOK, AsserterOK, None
    <3>10. SleepTypeOK'
      BY <1>7, <1>8, <3>1, <3>2, <3>8, <3>9
         DEF SleepTypeOK, AssertPcs, CallOf, GValues, PulledOf, OwnerPcs, None
    <3> QED BY <3>5, <3>6, <3>7, <3>10 DEF StoreInv
  <2> QED BY <2>1, <2>2
<1>19. HookInv'
  <2>1. \A s \in Sleepers : s # cur' => allWakers'[s] = <<>>
    BY <1>1, <1>7, <1>13 DEF SleeperInv, HookInv
  <2>2. allWakers'[cur'] \in IF cur' = "main" THEN Added3 ELSE Added2
    BY <1>1, <1>7, <1>10, <1>13
  <2> QED BY <1>5, <2>1, <2>2 DEF HookInv
<1>20. PhaseInv'
  BY <1>5, <1>7, <1>8 DEF PhaseInv, FetchPcs
<1>21. ListInv'
  BY <1>7 DEF ListInv, FetchPcs
<1>22. WaitInv'
  BY <1>7 DEF SleeperInv, WaitInv
<1>23. SleepInv'
  BY <1>7 DEF SleepInv
<1> QED BY <1>18, <1>19, <1>20, <1>21, <1>22, <1>23 DEF SleeperInv

\* All wakers are added.
LEMMA AddDoneStep ==
  ASSUME SleeperInv, AddDone
  PROVE  SleeperInv'
<1>1. /\ UNCHANGED <<wakerVars, cur, pulled, spc>> /\ allWakers' = allWakers
      /\ wpc = "add"
      /\ UNCHANGED <<apc, aw>> \/ CallAssert(Worker, "seg")
      /\ IF cur = "main" THEN Len(allWakers[cur]) = Len(MainWakers) /\ wpc' = "unlock"
                         ELSE Len(allWakers[cur]) = Len(HandshakeWakers) /\ wpc' = "fetch"
  BY DEF AddDone, WorkerAt, Added, wakerVars
<1>2. spc = "out" /\ spc' = "out"
  BY <1>1 DEF SleeperInv, PhaseInv
<1>3. allWakers[cur] \in IF cur = "main" THEN Added3 ELSE Added2
  BY <1>1 DEF SleeperInv, HookInv
<1>4. allWakers[cur] = IF cur = "main" THEN <<"note", "seg", "snd">> ELSE <<"seg", "note">>
  <2>1. CASE cur = "main"
    BY <1>1, <1>3, <2>1, GrowingLists DEF Added3
  <2>2. CASE cur # "main"
    BY <1>1, <1>3, <2>2, GrowingLists DEF Added2
  <2> QED BY <2>1, <2>2
<1>5. HookInv'
  BY <1>1, <1>4 DEF SleeperInv, HookInv
<1>6. wpc' \in {"unlock", "fetch", "done"} /\ wpc \in {"add", "handle"} /\ spc \in {"out", "fetched"}
  BY <1>1, <1>2
<1> QED BY <1>1, <1>2, <1>5, <1>6, GoesOut

\* The worker goes back to the head of its loop, or is done with the handshake.
LEMMA HandlerEnds ==
  ASSUME SleeperInv, UNCHANGED <<wakerVars, cur, pulled>>, wpc = "handle", spc = "fetched",
         Again \/ (cur = "handshake" /\ wpc' = "done" /\ spc' = "out"),
         UNCHANGED <<apc, aw>> \/ CallAssert(Worker, "seg")
  PROVE  SleeperInv'
<1>1. wpc' \in {"unlock", "fetch", "done"} /\ spc' = "out" /\ (wpc' = "done" => cur = "handshake")
  BY DEF Again
<1>2. UNCHANGED <<allWakers, cur>>
  BY DEF wakerVars
<1>3. HookInv'
  BY <1>1, <1>2 DEF SleeperInv, HookInv
<1>4. wpc \in {"add", "handle"} /\ spc \in {"out", "fetched"}
  OBVIOUS
<1> QED BY <1>1, <1>3, <1>4, GoesOut

-----------------------------------------------------------------------------
(* What is left in the queues has somebody to see to it. *)

\* A call of Assert makes its waker come, and takes none away.
LEMMA CallComing ==
  ASSUME SleepTypeOK, NEW p \in Asserters, NEW w \in Wakers, ws' = ws, CallAssert(p, w)
  PROVE  /\ Coming(w)'
         /\ \A x \in Wakers : Coming(x) => Coming(x)'
<1>1. PICK d : d = [aw[p] EXCEPT !.w = w]
  OBVIOUS
<1>2. Moves(p, "assert", d) /\ apc[p] = None
  BY <1>1, CallAssertMoves
<1>3. d.w = w
  <2>1. aw[p] \in CallOf
    BY DEF SleepTypeOK
  <2> QED BY <1>1, <2>1 DEF CallOf
<1>4. apc'[p] = "assert" /\ aw'[p] = d
  BY <1>2 DEF Moves
<1>5. Coming(w)'
  BY <1>3, <1>4 DEF Coming
<1>6. ASSUME NEW x \in Wakers, Coming(x)
      PROVE  Coming(x)'
  <2>1. CASE ws[x] = "asserted"
    BY <2>1 DEF Coming
  <2>2. CASE ws[x] # "asserted"
    <3>1. PICK q \in Asserters : apc[q] \in {"assert", "swap"} /\ aw[q].w = x
      BY <1>6, <2>2 DEF Coming
    <3>2. q # p
      BY <1>2, <3>1 DEF None
    <3>3. apc'[q] = apc[q] /\ aw'[q] = aw[q]
      BY <1>2, <3>2 DEF Moves
    <3> QED BY <3>1, <3>3 DEF Coming
  <2> QED BY <2>1, <2>2
<1> QED BY <1>5, <1>6

\* What comes keeps coming.
LEMMA SameComing ==
  ASSUME UNCHANGED <<ws, apc, aw>>
  PROVE  \A x \in Wakers : Coming(x) => Coming(x)'
BY DEF Coming

\* What comes arrives: a step of Assert leaves its waker coming or asserted.
LEMMA AssertComing ==
  ASSUME SleepTypeOK, NEW p \in Asserters, AssertStep(p)
  PROVE  \A x \in Wakers : Coming(x) => Coming(x)'
<1>1. apc \in [Asserters -> AssertPcs] /\ aw \in [Asserters -> CallOf] /\ AsserterOK(p)
  BY DEF SleepTypeOK
<1>2. ASSUME NEW q \in Asserters, q # p
      PROVE  apc'[q] = apc[q] /\ aw'[q] = aw[q]
  BY <1>1, <1>2 DEF AssertStep, AssertLoad, AssertSwap, PushLoad, PushCas, WakeLoad, WakeCas, Move, Return
<1>3. CASE apc[p] = "assert"
  <2>1. AssertLoad(p)
    BY <1>3 DEF AssertStep, AssertLoad, AssertSwap, PushLoad, PushCas, WakeLoad, WakeCas
  <2>2. ws' = ws
    BY <2>1 DEF AssertLoad, wakerVars
  <2>3. ws[aw[p].w] = "asserted" \/ (apc'[p] = "swap" /\ aw' = aw)
    BY <1>1, <2>1 DEF AssertLoad, Move
  <2>4. ASSUME NEW x \in Wakers, Coming(x), ws[x] # "asserted"
        PROVE  Coming(x)'
    <3>1. PICK q \in Asserters : apc[q] \in {"assert", "swap"} /\ aw[q].w = x
      BY <2>4 DEF Coming
    <3>2. CASE q = p
      <4>1. apc'[p] = "swap" /\ aw' = aw
        BY <2>3, <2>4, <3>1, <3>2
      <4> QED BY <3>1, <3>2, <4>1 DEF Coming
    <3>3. CASE q # p
      BY <1>2, <3>1, <3>3 DEF Coming
    <3> QED BY <3>2, <3>3
  <2>5. \A x \in Wakers : ws[x] = "asserted" => Coming(x)'
    BY <2>2 DEF Coming
  <2> QED BY <2>4, <2>5
<1>4. CASE apc[p] = "swap"
  <2>1. AssertSwap(p)
    BY <1>4 DEF AssertStep, AssertLoad, AssertSwap, PushLoad, PushCas, WakeLoad, WakeCas
  <2>2. PICK w : w = aw[p].w
    OBVIOUS
  <2>3. ws' = [ws EXCEPT ![w] = "asserted"] /\ w \in Wakers
    BY <1>1, <1>4, <2>1, <2>2 DEF AssertSwap, AsserterOK, None
  <2>4. \A x \in Wakers : ws[x] = "asserted" \/ x = w => ws'[x] = "asserted"
    BY <2>3 DEF SleepTypeOK
  <2>5. ASSUME NEW x \in Wakers, Coming(x), ws'[x] # "asserted"
        PROVE  Coming(x)'
    <3>1. PICK q \in Asserters : apc[q] \in {"assert", "swap"} /\ aw[q].w = x
      BY <2>4, <2>5 DEF Coming
    <3>2. q # p
      BY <2>2, <2>4, <2>5, <3>1
    <3> QED BY <1>2, <3>1, <3>2 DEF Coming
  <2>6. \A x \in Wakers : ws'[x] = "asserted" => Coming(x)'
    BY DEF Coming
  <2> QED BY <2>5, <2>6
<1>5. CASE apc[p] \notin {"assert", "swap"}
  <2>1. ws' = ws
    BY <1>5 DEF AssertStep, AssertLoad, AssertSwap, PushLoad, PushCas, WakeLoad, WakeCas, wakerVars
  <2>2. ASSUME NEW x \in Wakers, Coming(x), ws[x] # "asserted"
        PROVE  Coming(x)'
    <3>1. PICK q \in Asserters : apc[q] \in {"assert", "swap"} /\ aw[q].w = x
      BY <2>2 DEF Coming
    <3>2. q # p
      BY <1>5, <3>1
    <3> QED BY <1>2, <3>1, <3>2 DEF Coming
  <2>3. \A x \in Wakers : ws[x] = "asserted" => Coming(x)'
    BY <2>1 DEF Coming
  <2> QED BY <2>2, <2>3
<1> QED BY <1>3, <1>4, <1>5

\* The owner takes an asserted waker only to hand it to the worker.
LEMMA OwnerPending ==
  ASSUME SleeperInv, OwnerStep
  PROVE  \A x \in Wakers : Pending(x) => Pending(x)'
<1>1. spc # "fetched" /\ UNCHANGED <<apc, aw>>
  BY DEF OwnerStep, Check, Prepare, Recheck, Abort, Commit, Pull, Take, Unhook, DoneWait, Step
<1>2. ws \in [Wakers -> {"nil", "asserted"} \cup Sleepers] /\ cur \in Sleepers
  BY DEF SleeperInv, SleepTypeOK
<1>3. CASE UNCHANGED ws
  BY <1>1, <1>3 DEF Pending, Coming
<1>4. CASE Unhook
  <2>1. PICK w : w = Head(allWakers[cur])
    OBVIOUS
  <2>2. ws' = ws \/ (ws' = [ws EXCEPT ![w] = "nil"] /\ ws[w] = cur)
    BY <1>4, <2>1 DEF Unhook
  <2>3. \A x \in Wakers : ws[x] = "asserted" => ws'[x] = "asserted"
    BY <1>2, <2>2, Names
  <2> QED BY <1>1, <2>3 DEF Pending, Coming
<1>5. CASE Take
  <2>1. PICK w : w = Head(local[cur])
    OBVIOUS
  <2>2. \/ ws' = ws
        \/ /\ ws' = [ws EXCEPT ![w] = cur] /\ pulled' = [pulled EXCEPT !.w = w]
           /\ ws[w] = "asserted" => spc' = "fetched"
    BY <1>5, <2>1 DEF Take
  <2>3. pulled \in PulledOf
    BY DEF SleeperInv, SleepTypeOK
  <2>4. ASSUME NEW x \in Wakers, ws[x] = "asserted"
        PROVE  ws'[x] = "asserted" \/ (spc' = "fetched" /\ pulled'.w = x)
    <3>1. CASE x = w
      BY <1>2, <2>2, <2>3, <2>4, <3>1 DEF PulledOf
    <3>2. CASE x # w
      BY <1>2, <2>2, <2>4, <3>2
    <3> QED BY <3>1, <3>2
  <2> QED BY <1>1, <2>4 DEF Pending, Coming
<1>6. UNCHANGED ws \/ Unhook \/ Take
  BY DEF OwnerStep, Check, Prepare, Recheck, Abort, Commit, Pull, DoneWait, wakerVars
<1> QED BY <1>3, <1>4, <1>5, <1>6

\* A step of an asserter does not disturb the worker in its handler.
LEMMA AssertPending ==
  ASSUME SleeperInv, NEW p \in Asserters, AssertStep(p)
  PROVE  \A x \in Wakers : Pending(x) => Pending(x)'
<1>1. \A x \in Wakers : Coming(x) => Coming(x)'
  BY AssertComing DEF SleeperInv
<1>2. pulled' = pulled
  BY DEF AssertStep, AssertLoad, AssertSwap, PushLoad, PushCas, WakeLoad, WakeCas
<1>3. spc = "fetched" => spc' = "fetched"
  <2>1. CASE WakeCas(p)
    <3>1. PICK s : s = aw[p].s
      OBVIOUS
    <3>2. s \in Sleepers
      BY <2>1, <3>1 DEF SleeperInv, SleepTypeOK, AsserterOK, WakeCas, None
    <3>3. spc' = spc \/ waitingG[s] = "g"
      BY <2>1, <3>1 DEF WakeCas
    <3>4. waitingG[s] = "g" => spc = "parked"
      BY <3>2 DEF SleeperInv, WaitInv
    <3> QED BY <3>3, <3>4
  <2>2. CASE ~WakeCas(p)
    BY <2>2 DEF AssertStep, AssertLoad, AssertSwap, PushLoad, PushCas, WakeLoad
  <2> QED BY <2>1, <2>2
<1> QED BY <1>1, <1>2, <1>3 DEF Pending

\* As long as nothing is taken away, the queues may stay as they are.
LEMMA WorkSame ==
  ASSUME WorkInv, UNCHANGED <<shared3, tpc>>, cur' = cur \/ cur' = "main",
         {"snd", "seg", "note"} \subseteq Wakers,
         \A x \in Wakers : Pending(x) => Pending(x)'
  PROVE  WorkInv'
<1>1. sndQueue' = sndQueue /\ segments' = segments /\ notifyFlags' = notifyFlags /\ tpc' = tpc
  BY DEF shared3
<1>2. /\ Pending("snd") => Pending("snd")'
      /\ Pending("seg") => Pending("seg")'
      /\ Pending("note") => Pending("note")'
  OBVIOUS
<1> QED BY <1>1, <1>2 DEF WorkInv

-----------------------------------------------------------------------------
(* The steps of the whole. *)

\* What a thread does in Write keeps the others where they were.
LEMMA ThreadMoves ==
  ASSUME ProgTypeOK, NEW t \in Threads, NEW from, NEW to \in {"idle", "try", "write", "unlock"},
         ThreadAt(t, from, to)
  PROVE  /\ tpc' \in [Threads -> {"idle", "try", "write", "unlock"}]
         /\ tpc[t] = from /\ tpc'[t] = to /\ \A u \in Threads : u # t => tpc'[u] = tpc[u]
BY DEF ProgTypeOK, ThreadAt

\* The steps of the threads.
LEMMA ThreadStepKeeps ==
  ASSUME WorkerInv, NEW t \in Threads, ThreadStep(t)
  PROVE  WorkerInv'
<1>1. SleeperInv /\ ProgTypeOK /\ WorkInv /\ SleepTypeOK
  BY DEF WorkerInv, SleeperInv
<1>2. t \in Asserters /\ {"snd", "seg", "note"} \subseteq Wakers
  BY Names
<1> SUFFICES SleeperInv' /\ ProgTypeOK' /\ WorkInv'
  BY DEF WorkerInv, SleeperInv
<1>3. /\ sndQueue \in Nat /\ segments \in Nat /\ notifyFlags \subseteq Notifications
      /\ tpc \in [Threads -> {"idle", "try", "write", "unlock"}]
  BY <1>1 DEF ProgTypeOK
<1>4. ASSUME UNCHANGED sleepVars
      PROVE  /\ UNCHANGED <<ws, apc, aw, spc, pulled, cur>>
             /\ \A x \in Wakers : Pending(x) => Pending(x)'
  <2>1. UNCHANGED <<ws, apc, aw, spc, pulled, cur>>
    BY <1>4 DEF sleepVars, wakerVars
  <2> QED BY <2>1 DEF Pending, Coming
<1>5. CASE Write(t)
  <2>1. /\ cur = "main" /\ sndQueue' = sndQueue + 1 /\ ThreadAt(t, "idle", "try")
        /\ UNCHANGED sleepVars /\ UNCHANGED <<segments, notifyFlags, wpc>>
    BY <1>5 DEF Write, Connected
  <2>2. SleeperInv'
    BY <1>1, <2>1, SleepersAlone
  <2>3. tpc' \in [Threads -> {"idle", "try", "write", "unlock"}] /\ tpc'[t] = "try"
    BY <1>1, <2>1, ThreadMoves
  <2>4. ProgTypeOK'
    BY <1>3, <2>1, <2>3 DEF ProgTypeOK
  <2>5. Pending("seg") => Pending("seg")'
    BY <1>2, <1>4, <2>1
  <2>6. Pending("note") => Pending("note")'
    BY <1>2, <1>4, <2>1
  <2>7. cur' = "main"
    BY <1>4, <2>1
  <2>8. WorkInv'
    BY <1>1, <2>1, <2>3, <2>5, <2>6, <2>7 DEF WorkInv
  <2> QED BY <2>2, <2>4, <2>8
<1>6. CASE WriteTry(t)
  <2>1. UNCHANGED sleepVars /\ UNCHANGED <<shared3, tpc, wpc>>
    BY <1>6 DEF WriteTry, progVars
  <2>2. SleeperInv'
    BY <1>1, <2>1, SleepersAlone
  <2>3. WorkInv'
    BY <1>1, <1>2, <1>4, <2>1, WorkSame
  <2>4. ProgTypeOK'
    BY <1>3, <2>1 DEF ProgTypeOK, shared3
  <2> QED BY <2>2, <2>3, <2>4
<1>7. CASE WriteLocked(t)
  <2>1. /\ UNCHANGED sleepVars /\ ThreadAt(t, "try", "write")
        /\ UNCHANGED <<sndQueue, segments, notifyFlags, wpc>>
    BY <1>7 DEF WriteLocked, shared3
  <2>2. SleeperInv'
    BY <1>1, <2>1, SleepersAlone
  <2>3. tpc' \in [Threads -> {"idle", "try", "write", "unlock"}] /\ tpc'[t] = "write"
    BY <1>1, <2>1, ThreadMoves
  <2>4. ProgTypeOK'
    BY <1>3, <2>1, <2>3 DEF ProgTypeOK
  <2>5. Pending("seg") => Pending("seg")'
    BY <1>2, <1>4, <2>1
  <2>6. Pending("note") => Pending("note")'
    BY <1>2, <1>4, <2>1
  <2>7. cur' = cur
    BY <1>4, <2>1
  <2>8. WorkInv'
    BY <1>1, <2>1, <2>3, <2>5, <2>6, <2>7 DEF WorkInv
  <2> QED BY <2>2, <2>4, <2>8
<1>8. CASE WriteBusy(t)
  <2>1. /\ CallAssert(t, "snd") /\ ThreadAt(t, "try", "idle")
        /\ UNCHANGED <<wakerVars, spc, cur, pulled, sndQueue, segments, notifyFlags, wpc>>
    BY <1>8 DEF WriteBusy, shared3
  <2>2. SleeperInv'
    BY <1>1, <1>2, <2>1, ThreadAsserts
  <2>3. tpc' \in [Threads -> {"idle", "try", "write", "unlock"}]
    BY <1>1, <2>1, ThreadMoves
  <2>4. ProgTypeOK'
    BY <1>3, <2>1, <2>3 DEF ProgTypeOK
  <2>5. ws' = ws
    BY <2>1 DEF wakerVars
  <2>6. Coming("snd")' /\ \A x \in Wakers : Coming(x) => Coming(x)'
    BY <1>1, <1>2, <2>1, <2>5, CallComing
  <2>7. Pending("snd")' /\ \A x \in Wakers : Pending(x) => Pending(x)'
    BY <2>1, <2>6 DEF Pending
  <2>8. (Pending("seg") => Pending("seg")') /\ (Pending("note") => Pending("note")')
    BY <1>2, <2>7
  <2>9. WorkInv'
    BY <1>1, <2>1, <2>7, <2>8 DEF WorkInv
  <2> QED BY <2>2, <2>4, <2>9
<1>9. CASE WriteHandle(t)
  <2>1. /\ UNCHANGED sleepVars /\ ThreadAt(t, "write", "unlock") /\ sndQueue' = 0
        /\ UNCHANGED <<segments, notifyFlags, wpc>>
    BY <1>9 DEF WriteHandle
  <2>2. SleeperInv'
    BY <1>1, <2>1, SleepersAlone
  <2>3. tpc' \in [Threads -> {"idle", "try", "write", "unlock"}]
    BY <1>1, <2>1, ThreadMoves
  <2>4. ProgTypeOK'
    BY <1>3, <2>1, <2>3 DEF ProgTypeOK
  <2>5. (Pending("seg") => Pending("seg")') /\ (Pending("note") => Pending("note")')
    BY <1>2, <1>4, <2>1
  <2>6. WorkInv'
    BY <1>1, <2>1, <2>5 DEF WorkInv
  <2> QED BY <2>2, <2>4, <2>6
<1>10. CASE WriteUnlock(t)
  <2>1. /\ UNCHANGED sleepVars /\ ThreadAt(t, "unlock", "idle")
        /\ UNCHANGED <<sndQueue, segments, notifyFlags, wpc>>
    BY <1>10 DEF WriteUnlock, shared3
  <2>2. SleeperInv'
    BY <1>1, <2>1, SleepersAlone
  <2>3. /\ tpc' \in [Threads -> {"idle", "try", "write", "unlock"}] /\ tpc[t] = "unlock"
        /\ \A u \in Threads : u # t => tpc'[u] = tpc[u]
    BY <1>1, <2>1, ThreadMoves
  <2>4. ProgTypeOK'
    BY <1>3, <2>1, <2>3 DEF ProgTypeOK
  <2>5. /\ Pending("seg") => Pending("seg")'
        /\ Pending("note") => Pending("note")'
        /\ Pending("snd") => Pending("snd")'
    BY <1>2, <1>4, <2>1
  <2>6. (\E u \in Threads : tpc[u] \in {"try", "write"}) => \E u \in Threads : tpc'[u] \in {"try", "write"}
    <3> SUFFICES ASSUME NEW u \in Threads, tpc[u] \in {"try", "write"}
                 PROVE  tpc'[u] \in {"try", "write"}
      OBVIOUS
    <3> QED BY <2>3
  <2>7. cur' = cur
    BY <1>4, <2>1
  <2>8. WorkInv'
    BY <1>1, <2>1, <2>5, <2>6, <2>7 DEF WorkInv
  <2> QED BY <2>2, <2>4, <2>8
<1>11. CASE HandlePacket(t)
  <2>1. /\ CallAssert(t, "seg") /\ segments' = segments + 1
        /\ UNCHANGED <<wakerVars, spc, cur, pulled, sndQueue, notifyFlags, wpc, tpc>>
    BY <1>11 DEF HandlePacket
  <2>2. SleeperInv'
    BY <1>1, <1>2, <2>1, ThreadAsserts
  <2>3. ProgTypeOK'
    BY <1>3, <2>1 DEF ProgTypeOK
  <2>4. ws' = ws
    BY <2>1 DEF wakerVars
  <2>5. Coming("seg")' /\ \A x \in Wakers : Coming(x) => Coming(x)'
    BY <1>1, <1>2, <2>1, <2>4, CallComing
  <2>6. Pending("seg")' /\ \A x \in Wakers : Pending(x) => Pending(x)'
    BY <2>1, <2>5 DEF Pending
  <2>7. (Pending("snd") => Pending("snd")') /\ (Pending("note") => Pending("note")')
    BY <1>2, <2>6
  <2>8. WorkInv'
    BY <1>1, <2>1, <2>6, <2>7 DEF WorkInv
  <2> QED BY <2>2, <2>3, <2>8
<1>12. CASE Notify(t)
  <2>1. /\ \E n \in Notifications \ notifyFlags : notifyFlags' = notifyFlags \cup {n}
        /\ IF notifyFlags = {} THEN CallAssert(t, "note") ELSE UNCHANGED <<apc, aw>>
        /\ UNCHANGED <<wakerVars, spc, cur, pulled, sndQueue, segments, wpc, tpc>>
    BY <1>12 DEF Notify
  <2>2. ProgTypeOK'
    BY <1>3, <2>1 DEF ProgTypeOK
  <2>3. ws' = ws
    BY <2>1 DEF wakerVars
  <2>4. CASE notifyFlags = {}
    <3>1. CallAssert(t, "note")
      BY <2>1, <2>4
    <3>2. SleeperInv'
      BY <1>1, <1>2, <2>1, <3>1, ThreadAsserts
    <3>3. Coming("note")' /\ \A x \in Wakers : Coming(x) => Coming(x)'
      BY <1>1, <1>2, <2>3, <3>1, CallComing
    <3>4. Pending("note")' /\ \A x \in Wakers : Pending(x) => Pending(x)'
      BY <2>1, <3>3 DEF Pending
    <3>5. (Pending("snd") => Pending("snd")') /\ (Pending("seg") => Pending("seg")')
      BY <1>2, <3>4
    <3>6. WorkInv'
      BY <1>1, <2>1, <3>4, <3>5 DEF WorkInv
    <3> QED BY <2>2, <3>2, <3>6
  <2>5. CASE notifyFlags # {}
    <3>1. UNCHANGED sleepVars /\ wpc' = wpc
      BY <2>1, <2>5 DEF sleepVars
    <3>2. SleeperInv'
      BY <1>1, <3>1, SleepersAlone
    <3>3. /\ Pending("snd") => Pending("snd")'
          /\ Pending("seg") => Pending("seg")'
          /\ Pending("note") => Pending("note")'
      BY <1>2, <1>4, <3>1
    <3>4. WorkInv'
      BY <1>1, <2>1, <2>5, <3>3 DEF WorkInv
    <3> QED BY <2>2, <3>2, <3>4
  <2> QED BY <2>4, <2>5
<1>13. CASE UnlockPost(t) /\ UNCHANGED <<sleepVars, progVars>>
  <2>1. UNCHANGED sleepVars /\ UNCHANGED <<shared3, tpc, wpc>>
    BY <1>13 DEF progVars
  <2>2. SleeperInv'
    BY <1>1, <2>1, SleepersAlone
  <2>3. WorkInv'
    BY <1>1, <1>2, <1>4, <2>1, WorkSame
  <2>4. ProgTypeOK'
    BY <1>3, <2>1 DEF ProgTypeOK, shared3
  <2> QED BY <2>2, <2>3, <2>4
<1>14. CASE AssertStep(t) /\ UNCHANGED <<mutexVars, progVars>>
  <2>1. UNCHANGED <<shared3, tpc, wpc>>
    BY <1>14 DEF progVars
  <2>2. SleeperInv'
    BY <1>1, <1>2, <1>14, <2>1, AssertStepKeeps
  <2>3. \A x \in Wakers : Pending(x) => Pending(x)'
    BY <1>1, <1>2, <1>14, AssertPending
  <2>4. cur' = cur
    BY <1>14 DEF AssertStep, AssertLoad, AssertSwap, PushLoad, PushCas, WakeLoad, WakeCas
  <2>5. WorkInv'
    BY <1>1, <1>2, <2>1, <2>3, <2>4, WorkSame
  <2>6. ProgTypeOK'
    BY <1>3, <2>1 DEF ProgTypeOK, shared3
  <2> QED BY <2>2, <2>5, <2>6
<1> QED BY <1>5, <1>6, <1>7, <1>8, <1>9, <1>10, <1>11, <1>12, <1>13, <1>14 DEF ThreadStep

\* A handler that empties the queue of the waker it was called for, or calls
\* Assert on it again.
LEMMA HandlerPending ==
  ASSUME SleepTypeOK, UNCHANGED <<wakerVars, pulled>>,
         UNCHANGED <<apc, aw>> \/ CallAssert(Worker, "seg")
  PROVE  /\ \A x \in Wakers : Pending(x) /\ (spc = "fetched" => x # pulled.w) => Pending(x)'
         /\ CallAssert(Worker, "seg") => Pending("seg")'
<1>1. ws' = ws /\ Worker \in Asserters /\ "seg" \in Wakers
  BY Names DEF wakerVars
<1>2. \A x \in Wakers : Coming(x) => Coming(x)'
  <2>1. CASE UNCHANGED <<apc, aw>>
    BY <1>1, <2>1, SameComing
  <2>2. CASE CallAssert(Worker, "seg")
    BY <1>1, <2>2, CallComing
  <2> QED BY <2>1, <2>2
<1>3. CallAssert(Worker, "seg") => Coming("seg")'
  BY <1>1, CallComing
<1> QED BY <1>2, <1>3 DEF Pending

\* The steps of the worker.
LEMMA WorkerStepKeeps ==
  ASSUME WorkerInv, WorkerStep
  PROVE  WorkerInv'
<1>1. SleeperInv /\ ProgTypeOK /\ WorkInv /\ SleepTypeOK
  BY DEF WorkerInv, SleeperInv
<1>2. /\ Worker \in Asserters /\ {"snd", "seg", "note"} \subseteq Wakers
  BY Names
<1> SUFFICES SleeperInv' /\ ProgTypeOK' /\ WorkInv'
  BY DEF WorkerInv, SleeperInv
<1>3. /\ sndQueue \in Nat /\ segments \in Nat /\ notifyFlags \subseteq Notifications
      /\ tpc \in [Threads -> {"idle", "try", "write", "unlock"}]
  BY <1>1 DEF ProgTypeOK
<1>4. ASSUME UNCHANGED sleepVars
      PROVE  \A x \in Wakers : Pending(x) => Pending(x)'
  <2>1. UNCHANGED <<ws, apc, aw, spc, pulled>>
    BY <1>4 DEF sleepVars, wakerVars
  <2> QED BY <2>1 DEF Pending, Coming
<1>5. ASSUME UNCHANGED <<shared3, tpc>>
      PROVE  ProgTypeOK'
  BY <1>3, <1>5 DEF ProgTypeOK, shared3
<1>6. CASE Add
  <2>1. SleeperInv'
    BY <1>1, <1>6, AddStep
  <2>2. UNCHANGED <<shared3, tpc, cur, spc, pulled>>
    BY <1>6 DEF Add, AddWaker, progVars
  <2>3. PICK w : AddWaker(Worker, w)
    BY <1>6 DEF Add
  <2>4. ws \in [Wakers -> {"nil", "asserted"} \cup Sleepers] /\ apc[Worker] = None
        /\ apc \in [Asserters -> AssertPcs] /\ aw \in [Asserters -> CallOf]
    BY <1>1, <2>3 DEF SleepTypeOK, AddWaker
  <2>5. \A x \in Wakers : ws[x] = "asserted" => ws'[x] = "asserted"
    BY <2>3, <2>4 DEF AddWaker
  <2>6. ASSUME NEW q \in Asserters, apc[q] \in {"assert", "swap"}
        PROVE  apc'[q] = apc[q] /\ aw'[q] = aw[q]
    <3>1. q # Worker
      BY <2>4, <2>6 DEF None
    <3> QED BY <2>3, <2>4, <3>1 DEF AddWaker, Move
  <2>7. \A x \in Wakers : Coming(x) => Coming(x)'
    <3> SUFFICES ASSUME NEW x \in Wakers, Coming(x), ws[x] # "asserted"
                 PROVE  \E p \in Asserters : apc'[p] \in {"assert", "swap"} /\ aw'[p].w = x
      BY <2>5 DEF Coming
    <3>1. PICK q \in Asserters : apc[q] \in {"assert", "swap"} /\ aw[q].w = x
      BY DEF Coming
    <3> QED BY <2>6, <3>1
  <2>8. \A x \in Wakers : Pending(x) => Pending(x)'
    BY <2>2, <2>7 DEF Pending
  <2> QED BY <1>1, <1>2, <1>5, <2>1, <2>2, <2>8, WorkSame
<1>7. CASE AddDone
  <2>1. SleeperInv'
    BY <1>1, <1>7, AddDoneStep
  <2>2. /\ UNCHANGED <<wakerVars, spc, cur, pulled, shared3, tpc>> /\ wpc = "add"
        /\ \/ UNCHANGED <<apc, aw>>
           \/ CallAssert(Worker, "seg")
    BY <1>7 DEF AddDone, WorkerAt
  <2>3. spc = "out"
    BY <1>1, <2>2 DEF SleeperInv, PhaseInv
  <2>4. \A x \in Wakers : Pending(x) => Pending(x)'
    BY <1>1, <2>2, <2>3, HandlerPending
  <2> QED BY <1>1, <1>2, <1>5, <2>1, <2>2, <2>4, WorkSame
<1>8. CASE MainUnlock
  <2>1. UNCHANGED sleepVars /\ UNCHANGED <<shared3, tpc>> /\ wpc = "unlock" /\ wpc' = "fetch"
    BY <1>8 DEF MainUnlock, WorkerAt
  <2>2. cur' = cur
    BY <2>1 DEF sleepVars
  <2> QED BY <1>1, <1>2, <1>4, <1>5, <2>1, <2>2, SleepersAlone, WorkSame
<1>9. CASE Fetch
  <2>1. SleeperInv'
    BY <1>1, <1>9, FetchStep
  <2>2. /\ UNCHANGED <<ws, apc, aw, cur, pulled>> /\ UNCHANGED <<shared3, tpc>> /\ spc = "out"
    BY <1>9 DEF Fetch, CallFetch, Step, wakerVars
  <2>3. \A x \in Wakers : Pending(x) => Pending(x)'
    BY <2>2 DEF Pending, Coming
  <2> QED BY <1>1, <1>2, <1>5, <2>1, <2>2, <2>3, WorkSame
<1>10. CASE MainLock
  <2>1. /\ UNCHANGED sleepVars /\ UNCHANGED <<shared3, tpc>>
        /\ wpc = "lock" /\ wpc' = "handle" /\ spc = "fetched"
    BY <1>10 DEF MainLock, WorkerAt
  <2>2. cur' = cur
    BY <2>1 DEF sleepVars
  <2> QED BY <1>1, <1>2, <1>4, <1>5, <2>1, <2>2, SleepersAlone, WorkSame
<1>11. CASE HandleWrite
  <2>1. /\ UNCHANGED <<wakerVars, cur, pulled, apc, aw, segments, notifyFlags, tpc>>
        /\ wpc = "handle" /\ spc = "fetched" /\ pulled.w = "snd" /\ sndQueue' = 0 /\ Again
    BY <1>11 DEF HandleWrite, Handling
  <2>2. SleeperInv'
    BY <1>1, <2>1, HandlerEnds
  <2>3. (Pending("seg") => Pending("seg")') /\ (Pending("note") => Pending("note")')
    <3>1. \A x \in Wakers : Pending(x) /\ (spc = "fetched" => x # pulled.w) => Pending(x)'
      BY <1>1, <2>1, HandlerPending
    <3> QED BY <1>2, <2>1, <3>1
  <2>4. WorkInv'
    BY <1>1, <2>1, <2>3 DEF WorkInv
  <2>5. ProgTypeOK'
    BY <1>3, <2>1 DEF ProgTypeOK
  <2> QED BY <2>2, <2>4, <2>5
<1>12. CASE HandleNotification
  <2>1. /\ UNCHANGED <<wakerVars, cur, pulled, apc, aw, sndQueue, segments, tpc>>
        /\ wpc = "handle" /\ spc = "fetched" /\ pulled.w = "note" /\ notifyFlags' = {} /\ Again
    BY <1>12 DEF HandleNotification, Handling
  <2>2. SleeperInv'
    BY <1>1, <2>1, HandlerEnds
  <2>3. (Pending("seg") => Pending("seg")') /\ (Pending("snd") => Pending("snd")')
    <3>1. \A x \in Wakers : Pending(x) /\ (spc = "fetched" => x # pulled.w) => Pending(x)'
      BY <1>1, <2>1, HandlerPending
    <3> QED BY <1>2, <2>1, <3>1
  <2>4. WorkInv'
    BY <1>1, <2>1, <2>3 DEF WorkInv
  <2>5. ProgTypeOK'
    BY <1>3, <2>1 DEF ProgTypeOK
  <2> QED BY <2>2, <2>4, <2>5
<1>13. CASE Dequeue
  <2>1. /\ UNCHANGED sleepVars /\ UNCHANGED <<sndQueue, notifyFlags, wpc, tpc>>
        /\ segments > 0 /\ segments' = segments - 1
    BY <1>13 DEF Dequeue
  <2>2. SleeperInv'
    BY <1>1, <2>1, SleepersAlone
  <2>3. /\ Pending("snd") => Pending("snd")'
        /\ Pending("seg") => Pending("seg")'
        /\ Pending("note") => Pending("note")'
    BY <1>2, <1>4, <2>1
  <2>4. cur' = cur /\ segments # 0 /\ segments' \in Nat
    BY <1>3, <2>1 DEF sleepVars
  <2>5. WorkInv'
    BY <1>1, <2>1, <2>3, <2>4 DEF WorkInv
  <2>6. ProgTypeOK'
    BY <1>3, <2>1, <2>4 DEF ProgTypeOK
  <2> QED BY <2>2, <2>5, <2>6
<1>14. CASE QueueEmpty \/ BatchDone \/ HandshakeCompleted
  <2>1. /\ UNCHANGED <<wakerVars, cur, pulled, sndQueue, segments, notifyFlags, tpc>>
        /\ wpc = "handle" /\ spc = "fetched" /\ pulled.w = "seg"
        /\ Again \/ (cur = "handshake" /\ wpc' = "done" /\ spc' = "out")
        /\ UNCHANGED <<apc, aw>> \/ CallAssert(Worker, "seg")
        /\ segments = 0 \/ CallAssert(Worker, "seg")
    BY <1>3, <1>14 DEF QueueEmpty, BatchDone, HandshakeCompleted, Handling, shared3
  <2>2. SleeperInv'
    BY <1>1, <2>1, HandlerEnds
  <2>3. /\ Pending("snd") => Pending("snd")'
        /\ Pending("note") => Pending("note")'
        /\ segments # 0 => Pending("seg")'
    <3>1. /\ \A x \in Wakers : Pending(x) /\ (spc = "fetched" => x # pulled.w) => Pending(x)'
          /\ CallAssert(Worker, "seg") => Pending("seg")'
      BY <1>1, <2>1, HandlerPending
    <3> QED BY <1>2, <2>1, <3>1
  <2>4. WorkInv'
    BY <1>1, <2>1, <2>3 DEF WorkInv
  <2>5. ProgTypeOK'
    BY <1>3, <2>1 DEF ProgTypeOK
  <2> QED BY <2>2, <2>4, <2>5
<1>15. CASE HandshakeDone
  <2>1. SleeperInv'
    BY <1>1, <1>15, HandshakeDoneStep
  <2>2. /\ UNCHANGED <<ws, apc, aw, cur, pulled>> /\ UNCHANGED <<shared3, tpc>> /\ spc = "out"
    BY <1>15 DEF HandshakeDone, CallDone, Step, wakerVars
  <2>3. \A x \in Wakers : Pending(x) => Pending(x)'
    BY <2>2 DEF Pending, Coming
  <2> QED BY <1>1, <1>2, <1>5, <2>1, <2>2, <2>3, WorkSame
<1>16. CASE Handover
  <2>1. SleeperInv'
    BY <1>1, <1>16, HandoverStep
  <2>2. /\ UNCHANGED <<ws, apc, aw, pulled>> /\ UNCHANGED <<shared3, tpc>> /\ spc = "gone"
        /\ cur' = "main"
    BY <1>16 DEF Handover, wakerVars
  <2>3. \A x \in Wakers : Pending(x) => Pending(x)'
    BY <2>2 DEF Pending, Coming
  <2> QED BY <1>1, <1>2, <1>5, <2>1, <2>2, <2>3, WorkSame
<1>17. CASE UNCHANGED <<sleepVars, progVars>>
  <2>1. UNCHANGED sleepVars /\ UNCHANGED <<shared3, tpc, wpc>>
    BY <1>17 DEF progVars
  <2>2. cur' = cur
    BY <2>1 DEF sleepVars
  <2> QED BY <1>1, <1>2, <1>4, <1>5, <2>1, <2>2, SleepersAlone, WorkSame
<1>18. CASE AssertStep(Worker) /\ UNCHANGED <<mutexVars, progVars>>
  <2>1. UNCHANGED <<shared3, tpc, wpc>>
    BY <1>18 DEF progVars
  <2>2. SleeperInv'
    BY <1>1, <1>2, <1>18, <2>1, AssertStepKeeps
  <2>3. \A x \in Wakers : Pending(x) => Pending(x)'
    BY <1>1, <1>2, <1>18, AssertPending
  <2>4. cur' = cur
    BY <1>18 DEF AssertStep, AssertLoad, AssertSwap, PushLoad, PushCas, WakeLoad, WakeCas
  <2> QED BY <1>1, <1>2, <1>5, <2>1, <2>2, <2>3, <2>4, WorkSame
<1>19. CASE OwnerStep /\ UNCHANGED <<mutexVars, progVars>>
  <2>1. UNCHANGED <<shared3, tpc, wpc>>
    BY <1>19 DEF progVars
  <2>2. SleeperInv'
    BY <1>1, <1>19, <2>1, OwnerStepKeeps
  <2>3. \A x \in Wakers : Pending(x) => Pending(x)'
    BY <1>1, <1>19, OwnerPending
  <2>4. cur' = cur
    BY <1>19 DEF OwnerStep, Check, Prepare, Recheck, Abort, Commit, Pull, Take, Unhook, DoneWait
  <2> QED BY <1>1, <1>2, <1>5, <2>1, <2>2, <2>3, <2>4, WorkSame
<1> QED BY <1>6, <1>7, <1>8, <1>9, <1>10, <1>11, <1>12, <1>13, <1>14, <1>15, <1>16, <1>17,
           <1>18, <1>19 DEF WorkerStep

\* At first nothing is asserted and nothing is hooked.
LEMMA WorkerInvInit == Init => WorkerInv
<1> SUFFICES ASSUME Init PROVE WorkerInv
  OBVIOUS
<1>1. /\ \A w \in Wakers : ws[w] = "nil"
      /\ \A s \in Sleepers : /\ shared[s] = <<>> /\ local[s] = <<>> /\ allWakers[s] = <<>>
                             /\ waitingG[s] = None
      /\ \A p \in Asserters : apc[p] = None
      /\ spc = "out" /\ cur = "handshake" /\ pulled.pending = {}
      /\ sndQueue = 0 /\ segments = 0 /\ notifyFlags = {} /\ wpc = "add"
      /\ Worker \in Asserters /\ cur \in Sleepers
  BY Names DEF Init, SleepInit
<1>2. SleepTypeOK
  <2>1. ws \in [Wakers -> {"nil", "asserted"} \cup Sleepers] /\ waitingG \in [Sleepers -> GValues]
    BY DEF Init, SleepInit, GValues
  <2>2. <<>> \in Seq(Wakers)
    OBVIOUS
  <2>3. shared = [s \in Sleepers |-> <<>>] /\ local = shared /\ allWakers = shared
    BY DEF Init, SleepInit
  <2>4. ListsOK
    BY <2>2, <2>3 DEF ListsOK
  <2>5. apc \in [Asserters -> AssertPcs] /\ aw \in [Asserters -> CallOf]
    BY DEF Init, SleepInit, AssertPcs, NoCall, CallOf, GValues, None
  <2>6. \A p \in Asserters : AsserterOK(p)
    BY <1>1 DEF AsserterOK, None
  <2>7. spc \in OwnerPcs /\ pulled \in PulledOf
    BY DEF Init, SleepInit, OwnerPcs, PulledOf, None
  <2> QED BY <1>1, <2>1, <2>4, <2>5, <2>6, <2>7 DEF SleepTypeOK
<1>3. ProgTypeOK
  BY <1>1 DEF Init, ProgTypeOK
<1>4. \A x \in Wakers : ~Hooked(x)
  BY <1>1, EmptyFacts DEF Hooked
<1>5. \A p \in Asserters : \A x \in Wakers : \A s \in Sleepers : ~Pushes(p, x, s)
  BY <1>1 DEF Pushes, None
<1>6. \A x \in Wakers : \A s \in Sleepers : ~Held(x, s)
  BY <1>1, <1>5, EmptyFacts DEF Held
<1>7. HeldInv
  BY <1>6 DEF HeldInv
<1>8. AttachedInv
  BY <1>1, <1>4, Names DEF AttachedInv
<1>9. UniqueInv
  <2>1. \A s \in Sleepers : Distinct(shared[s]) /\ Distinct(local[s])
    BY <1>1, EmptyFacts
  <2>2. \A s \in Sleepers : \A w \in Wakers : UniqueOf(w, s)
    BY <1>1, <1>5, EmptyFacts DEF UniqueOf
  <2> QED BY <2>1, <2>2 DEF UniqueInv
<1>10. HookInv
  BY <1>1 DEF HookInv, Added2
<1>11. PhaseInv
  BY <1>1 DEF PhaseInv, FetchPcs
<1>12. ListInv /\ WaitInv /\ SleepInv
  BY <1>1 DEF ListInv, FetchPcs, WaitInv, SleepInv, None
<1>13. WorkInv
  BY <1>1 DEF WorkInv
<1> QED BY <1>2, <1>3, <1>7, <1>8, <1>9, <1>10, <1>11, <1>12, <1>13 DEF WorkerInv, StoreInv

\* Every step keeps the invariant.
LEMMA WorkerInvStep ==
  ASSUME WorkerInv, [Next]_vars
  PROVE  WorkerInv'
<1>1. CASE UNCHANGED vars
  <2>1. UNCHANGED sleepVars /\ wpc' = wpc /\ UNCHANGED <<shared3, tpc, cur>>
    BY <1>1 DEF vars, progVars, sleepVars
  <2>2. SleeperInv'
    BY <2>1, SleepersAlone DEF WorkerInv, SleeperInv
  <2>3. UNCHANGED <<ws, apc, aw, spc, pulled>>
    BY <2>1 DEF sleepVars, wakerVars
  <2>4. \A x \in Wakers : Pending(x) => Pending(x)'
    BY <2>3 DEF Pending, Coming
  <2>5. WorkInv'
    BY <2>1, <2>4, Names, WorkSame DEF WorkerInv
  <2>6. ProgTypeOK'
    BY <2>1 DEF WorkerInv, ProgTypeOK, shared3
  <2> QED BY <2>2, <2>5, <2>6 DEF WorkerInv, SleeperInv
<1>2. CASE WorkerStep
  BY <1>2, WorkerStepKeeps
<1>3. CASE \E t \in Threads : ThreadStep(t)
  BY <1>3, ThreadStepKeeps
<1> QED BY <1>1, <1>2, <1>3 DEF Next

\* Nothing is left when the worker sleeps.
LEMMA ParkedHasNothing ==
  ASSUME WorkerInv, spc = "parked", \A p \in Asserters : apc[p] = None,
         \A t \in Threads : tpc[t] = "idle"
  PROVE  sndQueue = 0 /\ segments = 0 /\ notifyFlags = {}
<1>1. cur \in Sleepers /\ StoreInv /\ {"snd", "seg", "note"} \subseteq Wakers
  BY Names DEF WorkerInv, SleepTypeOK
<1>2. shared[cur] = <<>> /\ local[cur] = <<>>
  <2>1. waitingG[cur] # None
    BY DEF WorkerInv, WaitInv, None
  <2>2. shared[cur] = <<>>
    BY <2>1 DEF WorkerInv, SleepInv, None
  <2>3. local[cur] = <<>>
    BY DEF WorkerInv, ListInv, FetchPcs
  <2> QED BY <2>2, <2>3
<1>3. \A x \in Wakers : ~Held(x, cur)
  <2>1. \A p \in Asserters : \A x \in Wakers : ~Pushes(p, x, cur)
    BY DEF Pushes, None
  <2> QED BY <1>2, <2>1, EmptyFacts DEF Held
<1>4. \A x \in Wakers : Hooked(x) => ws[x] # "asserted"
  BY <1>1, <1>3, Names DEF StoreInv, AttachedInv
<1>5. pulled.pending = {}
  BY <1>1, <1>3 DEF StoreInv, AttachedInv, WorkerInv, SleepTypeOK, PulledOf
<1>6. wpc \in {"lock", "handle"}
  BY <1>5 DEF WorkerInv, PhaseInv, FetchPcs
<1>7. allWakers[cur] = IF cur = "main" THEN <<"note", "seg", "snd">> ELSE <<"seg", "note">>
  BY <1>6 DEF WorkerInv, HookInv
<1>8. Hooked("seg") /\ Hooked("note") /\ (cur = "main" => Hooked("snd"))
  BY <1>7, HookLists DEF Hooked
<1>9. \A x \in Wakers : Pending(x) => ws[x] = "asserted"
  BY DEF Pending, Coming, None
<1>10. ~Pending("seg") /\ ~Pending("note") /\ (cur = "main" => ~Pending("snd"))
  BY <1>1, <1>4, <1>8, <1>9
<1>11. \A t \in Threads : tpc[t] \notin {"try", "write"}
  OBVIOUS
<1> QED BY <1>10, <1>11 DEF WorkerInv, WorkInv

-----------------------------------------------------------------------------
(* What follows. *)

\* One place at a time: the lists tell the places apart.
LEMMA InvQueuedOnce == WorkerInv => QueuedOnce
<1> SUFFICES ASSUME WorkerInv, NEW w \in Wakers, NEW s \in Sleepers, NEW t \in Sleepers,
                    NEW a \in Places(w, s), NEW b \in Places(w, t)
             PROVE  s = t /\ a = b
  BY DEF QueuedOnce
<1>1. StoreInv
  BY DEF WorkerInv
<1>2. ASSUME NEW r \in Sleepers, NEW x \in Places(w, r)
      PROVE  /\ Held(w, r)
             /\ \/ \E i \in DOMAIN shared[r] : shared[r][i] = w /\ x = <<"shared", i>>
                \/ \E i \in DOMAIN local[r] : local[r][i] = w /\ x = <<"local", i>>
                \/ \E p \in Asserters : Pushes(p, w, r) /\ x = <<"pushed by", p>>
  <2>1. \/ \E i \in DOMAIN shared[r] : shared[r][i] = w /\ x = <<"shared", i>>
        \/ \E i \in DOMAIN local[r] : local[r][i] = w /\ x = <<"local", i>>
        \/ \E p \in Asserters : Pushes(p, w, r) /\ x = <<"pushed by", p>>
    BY DEF Places, Pushes
  <2>2. Held(w, r)
    BY <2>1 DEF Held, InList
  <2> QED BY <2>1, <2>2
<1>3. s = t
  <2>1. Held(w, s) /\ Held(w, t)
    BY <1>2
  <2> QED BY <1>1, <2>1 DEF StoreInv, HeldInv
<1>4. UniqueOf(w, s) /\ Distinct(shared[s]) /\ Distinct(local[s])
  BY <1>1 DEF StoreInv, UniqueInv
<1>5. /\ ~(InList(shared[s], w) /\ InList(local[s], w))
      /\ \A p \in Asserters :
           Pushes(p, w, s) => /\ ~InList(shared[s], w) /\ ~InList(local[s], w)
                              /\ \A q \in Asserters : Pushes(q, w, s) => p = q
      /\ \A i, j \in DOMAIN shared[s] : shared[s][i] = shared[s][j] => i = j
      /\ \A i, j \in DOMAIN local[s] : local[s][i] = local[s][j] => i = j
  BY <1>4 DEF UniqueOf, Distinct
<1>6. CASE \E i \in DOMAIN shared[s] : shared[s][i] = w /\ a = <<"shared", i>>
  <2>1. InList(shared[s], w)
    BY <1>6 DEF InList
  <2>2. \E i \in DOMAIN shared[s] : shared[s][i] = w /\ b = <<"shared", i>>
    BY <1>2, <1>3, <1>5, <2>1 DEF InList
  <2> QED BY <1>3, <1>5, <1>6, <2>2
<1>7. CASE \E i \in DOMAIN local[s] : local[s][i] = w /\ a = <<"local", i>>
  <2>1. InList(local[s], w)
    BY <1>7 DEF InList
  <2>2. \E i \in DOMAIN local[s] : local[s][i] = w /\ b = <<"local", i>>
    BY <1>2, <1>3, <1>5, <2>1 DEF InList
  <2> QED BY <1>3, <1>5, <1>7, <2>2
<1>8. CASE \E p \in Asserters : Pushes(p, w, s) /\ a = <<"pushed by", p>>
  <2>1. ~InList(shared[s], w) /\ ~InList(local[s], w)
    BY <1>5, <1>8
  <2>2. \E p \in Asserters : Pushes(p, w, s) /\ b = <<"pushed by", p>>
    BY <1>2, <1>3, <2>1 DEF InList
  <2> QED BY <1>3, <1>5, <1>8, <2>2
<1> QED BY <1>2, <1>6, <1>7, <1>8

\* A parked owner: its list is empty or an asserter is on its way.
LEMMA InvNoLostWakeup == WorkerInv => NoLostWakeup
<1> SUFFICES ASSUME WorkerInv, spc = "parked"
             PROVE  /\ shared[cur] = <<>> \/ \E p \in Asserters :
                         apc[p] \in {"wake", "wakecas"} /\ aw[p].s = cur
                    /\ \A i \in DOMAIN allWakers[cur] :
                         ws[allWakers[cur][i]] = "asserted" => Places(allWakers[cur][i], cur) # {}
  BY DEF NoLostWakeup
<1>1. cur \in Sleepers /\ StoreInv /\ allWakers[cur] \in Seq(Wakers)
  BY DEF WorkerInv, SleepTypeOK, ListsOK
<1>2. waitingG[cur] # None
  BY DEF WorkerInv, WaitInv, None
<1>3. shared[cur] = <<>> \/ \E p \in Asserters : apc[p] \in {"wake", "wakecas"} /\ aw[p].s = cur
  BY <1>2 DEF WorkerInv, SleepInv
<1>4. ASSUME NEW i \in DOMAIN allWakers[cur], ws[allWakers[cur][i]] = "asserted"
      PROVE  Places(allWakers[cur][i], cur) # {}
  <2>1. PICK w : w = allWakers[cur][i]
    OBVIOUS
  <2>2. w \in Wakers /\ Hooked(w)
    BY <1>1, <2>1 DEF Hooked, InList
  <2>3. ws[w] # cur
    BY <1>1, <1>4, <2>1, Names
  <2>4. Held(w, cur)
    BY <1>1, <2>2, <2>3 DEF StoreInv, AttachedInv
  <2>5. CASE \E j \in DOMAIN shared[cur] : shared[cur][j] = w
    <3>1. PICK j \in DOMAIN shared[cur] : shared[cur][j] = w
      BY <2>5
    <3>2. <<"shared", j>> \in Places(w, cur)
      BY <3>1 DEF Places
    <3> QED BY <2>1, <3>2
  <2>6. CASE \E j \in DOMAIN local[cur] : local[cur][j] = w
    <3>1. PICK j \in DOMAIN local[cur] : local[cur][j] = w
      BY <2>6
    <3>2. <<"local", j>> \in Places(w, cur)
      BY <3>1 DEF Places
    <3> QED BY <2>1, <3>2
  <2>7. CASE \E p \in Asserters : Pushes(p, w, cur)
    <3>1. PICK p \in Asserters : Pushes(p, w, cur)
      BY <2>7
    <3>2. <<"pushed by", p>> \in Places(w, cur)
      BY <3>1 DEF Places, Pushes
    <3> QED BY <2>1, <3>2
  <2> QED BY <2>4, <2>5, <2>6, <2>7 DEF Held, InList
<1> QED BY <1>3, <1>4

\* A parked owner while nobody calls: its queues are empty.
LEMMA InvNothingLeftBehind == WorkerInv => NothingLeftBehind
<1> SUFFICES ASSUME WorkerInv, spc = "parked", \A t \in Threads : Idle(t)
             PROVE  sndQueue = 0 /\ segments = 0 /\ notifyFlags = {}
  BY DEF NothingLeftBehind
<1>1. Asserters = Threads \cup {Worker}
  BY WorkerAssumption, Zenon
<1>2. apc[Worker] = None
  BY DEF WorkerInv, PhaseInv
<1>3. \A p \in Asserters : apc[p] = None
  BY <1>1, <1>2 DEF Idle
<1>4. \A t \in Threads : tpc[t] = "idle"
  BY DEF Idle
<1> QED BY <1>3, <1>4, ParkedHasNothing

\* A waker is in one place at most, so its next pointer is never overwritten
\* while a list runs through it, and never in two sleepers: Done of the
\* handshake waits for those that are on their way (sleep_unsafe.go:173-219).
THEOREM WakersQueuedOnce == Spec => []QueuedOnce
<1> QED BY WorkerInvInit, WorkerInvStep, InvQueuedOnce, PTL DEF Spec

\* The owner never sleeps over an asserted waker that nobody will tell it of,
\* whatever asserters come between its announcement, its second look and
\* commitSleep (sleep_unsafe.go:89-122, 221-246).
THEOREM NoWakeupIsLost == Spec => []NoLostWakeup
<1> QED BY WorkerInvInit, WorkerInvStep, InvNoLostWakeup, PTL DEF Spec

\* While the worker sleeps and every thread is back from its call, no chunk,
\* segment or flag waits: Write, HandlePacket and notifyProtocolGoroutine
\* always reach it, through the handshake, the change of sleepers and a full
\* batch (endpoint.go:843, 285, 248; connect.go:730).
THEOREM WorkerLeavesNothing == Spec => []NothingLeftBehind
<1> QED BY WorkerInvInit, WorkerInvStep, InvNothingLeftBehind, PTL DEF Spec

\* The worker and its threads use the mutex as it is meant to be used.
LEMMA NextUsesMutex ==
  ASSUME [Next]_vars
  PROVE  [MutexNext]_mutexVars
<1>0. Worker \in Procs /\ Threads \subseteq Procs
  BY Names
<1>1. CASE UNCHANGED vars
  BY <1>1 DEF vars
<1>2. ASSUME NEW t \in Threads, ThreadStep(t)
      PROVE  [MutexNext]_mutexVars
  <2>1. \/ TryLoad(t) \/ TryCas(t) \/ TryFail(t) \/ Unlock(t) \/ UnlockPost(t)
        \/ UNCHANGED mutexVars
    BY <1>2 DEF ThreadStep, Write, WriteTry, WriteLocked, WriteBusy, WriteHandle, WriteUnlock,
                HandlePacket, Notify
  <2> QED BY <1>0, <2>1 DEF MutexNext
<1>3. CASE WorkerStep
  <2>1. \/ LockAdd(Worker) \/ LockStep(Worker) \/ Unlock(Worker) \/ UnlockPost(Worker)
        \/ UNCHANGED mutexVars
    BY <1>3 DEF WorkerStep, Add, AddDone, MainUnlock, Fetch, MainLock, HandleWrite,
                HandleNotification, Dequeue, QueueEmpty, BatchDone, HandshakeCompleted,
                HandshakeDone, Handover
  <2> QED BY <1>0, <2>1 DEF MutexNext
<1> QED BY <1>1, <1>2, <1>3 DEF Next

\* newEndpoint takes the mutex for the worker.
LEMMA WorkerMutexInit == Init => MutexInv /\ SomebodyWillPost
<1> SUFFICES ASSUME Init PROVE MutexInv /\ SomebodyWillPost
  OBVIOUS
<1>1. v = 0 /\ ch = 0 /\ Worker \in Procs /\ mpc = [p \in Procs |-> IF p = Worker THEN "in" ELSE "out"]
  BY Names DEF Init
<1>2. \A p \in Procs : mpc[p] = (IF p = Worker THEN "in" ELSE "out")
  BY <1>1
<1>3. MutexTypeOK
  BY <1>1 DEF MutexTypeOK, MutexPcs
<1>4. WordTellsHeld /\ MutualExclusion /\ SomebodyWillPost
  BY <1>1, <1>2 DEF WordTellsHeld, MutualExclusion, SomebodyWillPost, At
<1> QED BY <1>3, <1>4 DEF MutexInv

\* The worker and the writers never handle the send queue at the same time
\* (endpoint.go:843-847, connect.go:991-998).
THEOREM WorkMutexExcludes == Spec => []MutualExclusion
<1>1. MutexInv => MutualExclusion BY DEF MutexInv
<1> QED BY <1>1, WorkerMutexInit, NextUsesMutex, MutexInvStep, PTL DEF Spec

\* A worker that waits for a writer to unlock is not forgotten.
THEOREM WorkMutexWakes == Spec => []WaiterIsWoken
<1>1. MutexInv /\ SomebodyWillPost => WaiterIsWoken
  BY DEF MutexInv, MutexTypeOK, WordTellsHeld, SomebodyWillPost, WaiterIsWoken
<1> QED BY <1>1, WorkerMutexInit, NextUsesMutex, MutexInvStep, WillPostStep, PTL DEF Spec

-----------------------------------------------------------------------------
(***************************************************************************)
(* The lazy timer implements a deadline, and keepalive on top of it is     *)
(* neither deaf nor hasty.                                                 *)
(*                                                                         *)
(* That an expiry is reported only for a deadline that is set needs that a *)
(* disabled timer has no wake on its way; and that needs that at most one  *)
(* ever is, since an expiry disables the timer.  A second one would come   *)
(* from programming the runtime timer again after it went off: enable does *)
(* so only for a target before runtimeTarget, which is then in the past.   *)
(***************************************************************************)
TimerTypeOK ==
  /\ now \in Nat /\ target \in Nat /\ runtimeTarget \in Nat
  /\ state \in {"disabled", "enabled", "orphaned"}
  /\ running \in BOOLEAN /\ firing \in BOOLEAN /\ woken \in BOOLEAN
  /\ reported \in BOOLEAN

\* At most one wake is on its way, after its time, and none to a timer that is
\* disabled.
OneWake ==
  /\ running => ~firing /\ ~woken
  /\ firing => ~woken
  /\ firing \/ woken => runtimeTarget <= now
  /\ state = "disabled" => ~running /\ ~firing /\ ~woken

TimerInv == TimerTypeOK /\ OneWake

-----------------------------------------------------------------------------
(* Each operation of the timer: the invariant, and the step of Deadline. *)

LEMMA InitInv == TimerInit => TimerInv
<1> SUFFICES ASSUME TimerInit PROVE TimerInv
  OBVIOUS
<1>1. now \in Nat /\ target \in Nat /\ runtimeTarget \in Nat
  BY DEF TimerInit
<1>2. state = "disabled" /\ ~running /\ ~firing /\ ~woken
  BY Zenon DEF TimerInit
<1>3. /\ running \in BOOLEAN /\ firing \in BOOLEAN /\ woken \in BOOLEAN
      /\ reported \in BOOLEAN
  BY Zenon DEF TimerInit
<1>4. TimerTypeOK
  BY <1>1, <1>2, <1>3, Zenon DEF TimerTypeOK
<1>5. OneWake
  BY <1>2, Zenon DEF OneWake
<1> QED BY <1>4, <1>5 DEF TimerInv

LEMMA EnableInv ==
  ASSUME TimerInv, NEW d \in Nat \ {0}, Enable(d)
  PROVE  TimerInv'
<1>1. TimerTypeOK'
  <2>1. now' \in Nat /\ now + d \in Nat /\ target' = now + d
    BY DEF TimerInv, TimerTypeOK, Enable
  <2>2. runtimeTarget' \in {runtimeTarget, now + d}
    BY Zenon DEF Enable
  <2>3. runtimeTarget' \in Nat
    BY <2>1, <2>2 DEF TimerInv, TimerTypeOK
  <2>4. /\ running' \in BOOLEAN /\ firing' \in BOOLEAN /\ woken' \in BOOLEAN
        /\ reported' \in BOOLEAN /\ state' = "enabled"
    BY Zenon DEF TimerInv, TimerTypeOK, Enable
  <2> QED BY <2>1, <2>3, <2>4, Zenon DEF TimerTypeOK
<1>2. CASE state = "disabled" \/ now + d < runtimeTarget
  <2>1. ~firing /\ ~woken
    BY <1>2 DEF TimerInv, TimerTypeOK, OneWake
  <2> QED BY <1>1, <2>1 DEF TimerInv, OneWake, Enable
<1>3. CASE ~(state = "disabled" \/ now + d < runtimeTarget)
  BY <1>1, <1>3 DEF TimerInv, OneWake, Enable
<1> QED BY <1>2, <1>3

LEMMA DisableInv == TimerInv /\ Disable => TimerInv'
<1> SUFFICES ASSUME TimerInv, Disable PROVE TimerInv'
  OBVIOUS
<1>1. /\ state' \in {"disabled", "orphaned"}
      /\ state' = "disabled" => state = "disabled"
  BY Zenon DEF Disable
<1>2. /\ reported' \in BOOLEAN
      /\ UNCHANGED <<now, target, runtimeTarget, running, firing, woken>>
  BY Zenon DEF Disable
<1>3. TimerTypeOK'
  BY <1>1, <1>2, Zenon DEF TimerInv, TimerTypeOK
<1>4. OneWake'
  BY <1>1, <1>2, Zenon DEF TimerInv, OneWake
<1> QED BY <1>3, <1>4 DEF TimerInv

\* What the worker does when it is woken, as long as it looks at the timer.
LEMMA CheckInv ==
  ASSUME TimerInv, woken, ~woken', checkExpiration, UNCHANGED <<now, firing>>,
         woken' \in BOOLEAN
  PROVE  TimerInv'
<1>1. ~running /\ ~firing
  BY DEF TimerInv, OneWake
<1>2. CASE CheckOrphaned
  BY <1>1, <1>2 DEF TimerInv, TimerTypeOK, OneWake, CheckOrphaned
<1>3. CASE CheckEarly
  <2>1. state # "disabled"
    BY DEF TimerInv, OneWake
  <2> QED BY <1>1, <1>3, <2>1 DEF TimerInv, TimerTypeOK, OneWake, CheckEarly
<1>4. CASE CheckExpired
  BY <1>1, <1>4 DEF TimerInv, TimerTypeOK, OneWake, CheckExpired
<1> QED BY <1>2, <1>3, <1>4 DEF checkExpiration

LEMMA RuntimeInv == TimerInv /\ Runtime => TimerInv'
<1> SUFFICES ASSUME TimerInv, Runtime PROVE TimerInv'
  OBVIOUS
<1>1. CASE GoesOff
  BY <1>1 DEF TimerInv, TimerTypeOK, OneWake, GoesOff
<1>2. CASE Asserts
  BY <1>2 DEF TimerInv, TimerTypeOK, OneWake, Asserts
<1>3. CASE Tick
  BY <1>3 DEF TimerInv, TimerTypeOK, OneWake, Tick
<1> QED BY <1>1, <1>2, <1>3 DEF Runtime

LEMMA EnableSets ==
  ASSUME NEW d \in Durations, Enable(d)
  PROVE  D!Set(d)
  BY DEF Enable, D!Set

LEMMA DisableClears == Disable => D!Clear
<1> SUFFICES ASSUME Disable PROVE D!Clear
  OBVIOUS
<1>1. state' # "enabled" /\ reported' = FALSE /\ now' = now
  BY DEF Disable
<1> QED BY <1>1, Zenon DEF D!Clear, D!NoDeadline

\* A check reports the deadline that is due, or leaves it alone.
LEMMA CheckExpires ==
  ASSUME TimerInv, woken, checkExpiration, UNCHANGED now
  PROVE  D!Expire \/ UNCHANGED <<now, IF state = "enabled" THEN target ELSE -1, reported>>
<1>1. state # "disabled"
  BY DEF TimerInv, OneWake
<1>2. CASE CheckOrphaned
  BY <1>2 DEF CheckOrphaned
<1>3. CASE CheckEarly
  BY <1>3 DEF CheckEarly
<1>4. CASE CheckExpired
  <2>1. /\ state = "enabled" /\ state' = "disabled"
        /\ target # -1 /\ target <= now
    BY <1>1, <1>4 DEF TimerInv, TimerTypeOK, CheckExpired
  <2>2. reported' = TRUE /\ now' = now
    BY <1>4, Zenon DEF CheckExpired
  <2>3. state' # "enabled"
    BY <2>1
  <2> QED BY <2>1, <2>2, <2>3, Zenon DEF D!Expire, D!NoDeadline
<1> QED BY <1>2, <1>3, <1>4 DEF checkExpiration

LEMMA RuntimeTicks ==
  Runtime => \/ D!Tick
             \/ UNCHANGED <<now, IF state = "enabled" THEN target ELSE -1, reported>>
<1>1. ASSUME Tick PROVE D!Tick
  BY <1>1, Zenon DEF Tick, D!Tick
<1>2. ASSUME GoesOff \/ Asserts
      PROVE  UNCHANGED <<now, IF state = "enabled" THEN target ELSE -1, reported>>
  BY <1>2, Zenon DEF GoesOff, Asserts
<1> QED BY <1>1, <1>2 DEF Runtime

-----------------------------------------------------------------------------
(* The timer alone, as the retransmission timer of the sender uses it. *)

LEMMA TimerNextInv == TimerInv /\ [TimerNext]_timerVars => TimerInv'
<1> SUFFICES ASSUME TimerInv, [TimerNext]_timerVars PROVE TimerInv'
  OBVIOUS
<1>1. CASE Wake
  BY <1>1, CheckInv DEF Wake
<1>2. CASE Runtime
  BY <1>2, RuntimeInv
<1>3. CASE Disable
  BY <1>3, DisableInv
<1>4. CASE \E d \in Durations : Enable(d)
  BY <1>4, EnableInv, TimerAssumption
<1>5. CASE UNCHANGED timerVars
  BY <1>5 DEF timerVars, TimerInv, TimerTypeOK, OneWake
<1> QED BY <1>1, <1>2, <1>3, <1>4, <1>5 DEF TimerNext

LEMMA TimerNextSimulates ==
  TimerInv /\ [TimerNext]_timerVars => [D!Next]_(D!dlVars)
<1> SUFFICES ASSUME TimerInv, [TimerNext]_timerVars PROVE [D!Next]_(D!dlVars)
  OBVIOUS
<1>1. CASE Wake
  BY <1>1, CheckExpires DEF Wake, D!Next, D!dlVars
<1>2. CASE Runtime
  BY <1>2, RuntimeTicks DEF D!Next, D!dlVars
<1>3. CASE Disable
  BY <1>3, DisableClears DEF D!Next
<1>4. CASE \E d \in Durations : Enable(d)
  BY <1>4, EnableSets DEF D!Next
<1>5. CASE UNCHANGED timerVars
  BY <1>5 DEF timerVars, D!dlVars
<1> QED BY <1>1, <1>2, <1>3, <1>4, <1>5 DEF TimerNext

LEMMA InitDeadline == TimerInit => D!Init
  BY DEF TimerInit, D!Init, D!NoDeadline

\* Whatever the worker does with the timer, and however late the runtime
\* fires, it is a deadline: reported once, never early (timer.go:66-96).
THEOREM TimerImplementsDeadline == TimerSpec => DeadlineSpec
<1>1. TimerInit => TimerInv
  BY InitInv
<1>2. TimerInv /\ [TimerNext]_timerVars => TimerInv'
  BY TimerNextInv
<1>3. TimerInit => D!Init
  BY InitDeadline
<1>4. TimerInv /\ [TimerNext]_timerVars => [D!Next]_(D!dlVars)
  BY TimerNextSimulates
<1> QED BY <1>1, <1>2, <1>3, <1>4, PTL DEF TimerSpec, DeadlineSpec, D!Spec

LEMMA WakeIsComingNext ==
  ASSUME TimerInv, WakeIsComing, [TimerNext]_timerVars
  PROVE  WakeIsComing'
<1>1. CASE Wake
  <2>1. ~running /\ ~firing /\ state # "disabled" /\ ~woken' /\ ~firing'
    BY <1>1, Zenon DEF TimerInv, OneWake, Wake
  <2>2. CASE CheckOrphaned
    BY <2>1, <2>2, Zenon DEF WakeIsComing, CheckOrphaned
  <2>3. CASE CheckEarly
    <3>1. running' /\ state' = state /\ runtimeTarget' = target'
      BY <2>3, Zenon DEF CheckEarly
    <3>2. runtimeTarget' <= target'
      BY <2>3 DEF CheckEarly, TimerInv, TimerTypeOK
    <3> QED BY <2>1, <3>1, <3>2, Zenon DEF WakeIsComing, WakeComes
  <2>4. CASE CheckExpired
    <3>1. state' = "disabled" /\ ~running' /\ state' # "enabled"
      BY <2>1, <2>4 DEF CheckExpired
    <3> QED BY <2>1, <3>1, Zenon DEF WakeIsComing
  <2> QED BY <1>1, <2>2, <2>3, <2>4 DEF Wake, checkExpiration
<1>2. CASE GoesOff
  BY <1>2, Zenon DEF WakeIsComing, WakeComes, GoesOff
<1>3. CASE Asserts
  BY <1>3, Zenon DEF WakeIsComing, WakeComes, Asserts
<1>4. CASE Tick
  BY <1>4, Zenon DEF WakeIsComing, WakeComes, Tick
<1>5. CASE Disable
  <2>1. state' # "enabled" /\ (state' = "disabled" <=> state = "disabled")
    BY <1>5 DEF Disable, TimerInv, TimerTypeOK
  <2> QED BY <1>5, <2>1, Zenon DEF WakeIsComing, WakeComes, Disable
<1>6. ASSUME NEW d \in Durations, Enable(d)
      PROVE  WakeIsComing'
  <2>1. state' = "enabled" /\ state' # "disabled" /\ target' = now + d
    BY <1>6 DEF Enable
  <2>2. CASE state = "disabled" \/ now + d < runtimeTarget
    <3>1. ~firing /\ ~woken
      BY <2>2, <1>6, TimerAssumption DEF TimerInv, TimerTypeOK, OneWake
    <3>2. running' /\ ~firing' /\ ~woken' /\ runtimeTarget' = now + d
      BY <1>6, <2>2, <3>1, Zenon DEF Enable
    <3>3. runtimeTarget' <= target'
      BY <2>1, <3>2, <1>6, TimerAssumption DEF TimerInv, TimerTypeOK
    <3> QED BY <2>1, <3>2, <3>3, Zenon DEF WakeIsComing, WakeComes
  <2>3. CASE ~(state = "disabled" \/ now + d < runtimeTarget)
    <3>1. UNCHANGED <<runtimeTarget, running, firing, woken>>
      BY <1>6, <2>3, Zenon DEF Enable
    <3>2. runtimeTarget' <= target'
      BY <2>1, <2>3, <3>1, <1>6, TimerAssumption DEF TimerInv, TimerTypeOK
    <3> QED BY <2>1, <2>3, <3>1, <3>2, Zenon DEF WakeIsComing, WakeComes
  <2> QED BY <2>2, <2>3
<1>7. CASE UNCHANGED timerVars
  BY <1>7, Zenon DEF WakeIsComing, WakeComes, timerVars
<1> QED BY <1>1, <1>2, <1>3, <1>4, <1>5, <1>6, <1>7 DEF TimerNext, Runtime

\* The worker need not look at a timer but when it is woken: as long as it
\* does, it will be (timer.go:20-30).
THEOREM TimerWakes == TimerSpec => []WakeIsComing
<1>1. TimerInit => TimerInv
  BY InitInv
<1>2. TimerInv /\ [TimerNext]_timerVars => TimerInv'
  BY TimerNextInv
<1>3. TimerInit => WakeIsComing
  <2> SUFFICES ASSUME TimerInit PROVE WakeIsComing
    OBVIOUS
  <2>1. state = "disabled" /\ state # "enabled"
    BY DEF TimerInit
  <2> QED BY <2>1, Zenon DEF TimerInit, WakeIsComing
<1>4. TimerInv /\ WakeIsComing /\ [TimerNext]_timerVars => WakeIsComing'
  BY WakeIsComingNext
<1> QED BY <1>1, <1>2, <1>3, <1>4, PTL DEF TimerSpec
-----------------------------------------------------------------------------
(* Keepalive. *)

\* The steps of keepalive are steps of the timer, but for a wake that is
\* ignored.
LEMMA ResetStep ==
  ASSUME NEW received \in BOOLEAN, NEW data \in BOOLEAN,
         resetKeepaliveTimer(received, data)
  PROVE  /\ TimerNext
         /\ unacked' = 0 \/ (~received /\ unacked' = unacked)
         /\ (kaEnabled /\ ~data) => state' = "enabled"
<1>1. unacked' = 0 \/ (~received /\ unacked' = unacked)
  BY Zenon DEF resetKeepaliveTimer
<1>2. CASE ~kaEnabled \/ data
  <2>1. Disable
    BY <1>2, Zenon DEF resetKeepaliveTimer
  <2> QED BY <1>1, <1>2, <2>1, Zenon DEF TimerNext
<1>3. CASE kaEnabled /\ ~data
  <2>1. PICK d \in Durations : Enable(d)
    BY <1>3, KeepAliveAssumption, Zenon DEF resetKeepaliveTimer
  <2>2. state' = "enabled"
    BY <2>1, Zenon DEF Enable
  <2> QED BY <1>1, <2>1, <2>2, Zenon DEF TimerNext
<1> QED BY <1>2, <1>3

LEMMA WokenStep ==
  ASSUME woken, woken' = FALSE, checkExpiration, UNCHANGED <<now, firing>>
  PROVE  TimerNext
  BY Zenon DEF TimerNext, Wake

KaTypeOK ==
  /\ kaEnabled \in BOOLEAN /\ kaNotified \in BOOLEAN /\ inFlight \in BOOLEAN
  /\ unacked \in Nat /\ unheard \in Nat

\* Nothing in flight and nothing to be told: the timer is set.
SetWhenIdle ==
  (kaEnabled /\ ~kaNotified /\ ~inFlight /\ kaPc = "idle") => state = "enabled"

\* The inductive invariant.
KaInv ==
  /\ TimerInv /\ KaTypeOK /\ SetWhenIdle
  /\ ~ignored => WakeIsComing
  /\ unacked <= unheard
  /\ GivesUpLate

LEMMA KaStep ==
  ASSUME KaInv, [KaNext]_kaVars
  PROVE  \/ [TimerNext]_timerVars /\ ignored' = ignored
         \/ WakeIgnored
<1>1. CASE OptionChanged
  BY <1>1, ResetStep DEF OptionChanged, KaInv, KaTypeOK
<1>2. CASE SendsData
  BY <1>2, Zenon DEF SendsData, TimerNext
<1>3. CASE SendsNothing
  BY <1>3, ResetStep DEF SendsNothing
<1>4. CASE Hears
  BY <1>4, ResetStep DEF Hears
<1>5. CASE WakeSpurious
  BY <1>5, WokenStep, Zenon DEF WakeSpurious, checkExpiration
<1>6. CASE Probes
  BY <1>6, WokenStep, Zenon DEF Probes, checkExpiration
<1>7. CASE AfterProbe
  BY <1>7, ResetStep DEF AfterProbe, KaInv, KaTypeOK
<1>8. CASE KaRuntime
  BY <1>8, Zenon DEF KaRuntime, TimerNext
<1>9. CASE \E b \in BOOLEAN : SetEnabled(b)
  BY <1>9, Zenon DEF SetEnabled
<1>10. CASE UNCHANGED kaVars
  BY <1>10, Zenon DEF kaVars
<1> QED
  BY <1>1, <1>2, <1>3, <1>4, <1>5, <1>6, <1>7, <1>8, <1>9, <1>10 DEF KaNext

LEMMA IgnoredInv == TimerInv /\ WakeIgnored => TimerInv'
<1> SUFFICES ASSUME TimerInv, WakeIgnored PROVE TimerInv'
  OBVIOUS
<1>1. /\ UNCHANGED <<now, state, target, runtimeTarget, running, firing, reported>>
      /\ woken' = FALSE /\ woken
  BY Zenon DEF WakeIgnored
<1>2. TimerTypeOK'
  BY <1>1, Zenon DEF TimerInv, TimerTypeOK
<1>3. OneWake'
  BY <1>1, Zenon DEF TimerInv, OneWake
<1> QED BY <1>2, <1>3 DEF TimerInv

LEMMA KaTimerInv ==
  ASSUME KaInv, [KaNext]_kaVars
  PROVE  TimerInv' /\ (~ignored' => WakeIsComing')
<1>1. CASE [TimerNext]_timerVars /\ ignored' = ignored
  BY <1>1, TimerNextInv, WakeIsComingNext, Zenon DEF KaInv
<1>2. CASE WakeIgnored
  <2>1. ignored'
    BY <1>2, Zenon DEF WakeIgnored
  <2> QED BY <1>2, <2>1, IgnoredInv, Zenon DEF KaInv
<1> QED BY <1>1, <1>2, KaStep

LEMMA KaSimulates ==
  ASSUME KaInv, [KaNext]_kaVars
  PROVE  [D!Next]_(D!dlVars)
<1>1. CASE [TimerNext]_timerVars
  BY <1>1, TimerNextSimulates DEF KaInv
<1>2. CASE WakeIgnored
  BY <1>2, Zenon DEF WakeIgnored, D!dlVars
<1> QED BY <1>1, <1>2, KaStep

LEMMA KaOwnInv ==
  ASSUME KaInv, [KaNext]_kaVars
  PROVE  KaTypeOK' /\ SetWhenIdle' /\ (unacked <= unheard)' /\ GivesUpLate'
<1>1. CASE OptionChanged
  <2>1. /\ unacked' = 0 /\ UNCHANGED <<kaEnabled, inFlight, kaPc, unheard>>
        /\ kaNotified' = FALSE
        /\ (kaEnabled /\ ~inFlight) => state' = "enabled"
    BY <1>1, ResetStep DEF OptionChanged, KaInv, KaTypeOK
  <2>2. 0 \in Nat /\ unacked' <= unheard'
    BY <2>1 DEF KaInv, KaTypeOK
  <2> QED BY <2>1, <2>2, Zenon DEF KaInv, KaTypeOK, SetWhenIdle, GivesUpLate
<1>2. CASE SendsData
  BY <1>2, Zenon DEF SendsData, KaInv, KaTypeOK, SetWhenIdle, GivesUpLate
<1>3. CASE SendsNothing
  <2>1. /\ UNCHANGED <<kaEnabled, kaNotified, inFlight, kaPc, unheard>>
        /\ unacked' \in {0, unacked}
        /\ kaEnabled => state' = "enabled"
    BY <1>3, ResetStep DEF SendsNothing
  <2>2. unacked' \in Nat /\ unacked' <= unheard'
    BY <2>1 DEF KaInv, KaTypeOK
  <2> QED BY <2>1, <2>2, Zenon DEF KaInv, KaTypeOK, SetWhenIdle, GivesUpLate
<1>4. CASE Hears
  <2>1. /\ UNCHANGED <<kaEnabled, kaNotified, kaPc>>
        /\ inFlight' \in BOOLEAN /\ unacked' = 0 /\ unheard' = 0 /\ kaPc = "idle"
        /\ (kaEnabled /\ ~inFlight') => state' = "enabled"
    BY <1>4, ResetStep DEF Hears
  <2>2. 0 \in Nat /\ unacked' <= unheard' /\ kaPc' # "reset"
    BY <2>1
  <2> QED BY <2>1, <2>2, Zenon DEF KaInv, KaTypeOK, SetWhenIdle, GivesUpLate
<1>5. CASE WakeIgnored
  BY <1>5, Zenon DEF WakeIgnored, KaInv, KaTypeOK, SetWhenIdle, GivesUpLate
<1>6. CASE WakeSpurious
  <2>1. UNCHANGED <<kaEnabled, unacked, kaNotified, inFlight, kaPc, unheard>>
    BY <1>6, Zenon DEF WakeSpurious
  <2>2. state = "enabled" => state' = "enabled"
    BY <1>6 DEF WakeSpurious, CheckOrphaned, CheckEarly
  <2> QED BY <2>1, <2>2, Zenon DEF KaInv, KaTypeOK, SetWhenIdle, GivesUpLate
<1>7. CASE Probes
  <2>1. UNCHANGED <<kaEnabled, kaNotified, inFlight>> /\ kaPc = "idle"
    BY <1>7, Zenon DEF Probes
  <2>2. CASE unacked >= Count
    <3>1. kaPc' = "reset" /\ UNCHANGED <<unacked, unheard>>
      BY <1>7, <2>2, Zenon DEF Probes
    <3>2. unheard' >= Count /\ kaPc' # "idle"
      BY <2>2, <3>1, KeepAliveAssumption DEF KaInv, KaTypeOK
    <3> QED BY <2>1, <3>1, <3>2, Zenon DEF KaInv, KaTypeOK, SetWhenIdle, GivesUpLate
  <2>3. CASE ~(unacked >= Count)
    <3>1. kaPc' = "probe" /\ unacked' = unacked + 1 /\ unheard' = unheard + 1
      BY <1>7, <2>3, Zenon DEF Probes
    <3>2. /\ unacked' \in Nat /\ unheard' \in Nat /\ unacked' <= unheard'
          /\ kaPc' # "idle" /\ kaPc' # "reset"
      BY <3>1 DEF KaInv, KaTypeOK
    <3> QED BY <2>1, <3>2, Zenon DEF KaInv, KaTypeOK, SetWhenIdle, GivesUpLate
  <2> QED BY <2>2, <2>3
<1>8. CASE AfterProbe
  <2>1. /\ UNCHANGED <<kaEnabled, kaNotified, inFlight, unheard>>
        /\ unacked' \in {0, unacked} /\ kaPc' = "idle"
        /\ (kaEnabled /\ ~inFlight) => state' = "enabled"
    BY <1>8, ResetStep DEF AfterProbe, KaInv, KaTypeOK
  <2>2. unacked' \in Nat /\ unacked' <= unheard' /\ kaPc' # "reset"
    BY <2>1 DEF KaInv, KaTypeOK
  <2> QED BY <2>1, <2>2, Zenon DEF KaInv, KaTypeOK, SetWhenIdle, GivesUpLate
<1>9. CASE KaRuntime
  <2>1. UNCHANGED <<kaEnabled, unacked, kaNotified, inFlight, kaPc, unheard>>
    BY <1>9, Zenon DEF KaRuntime
  <2>2. state' = state
    BY <1>9, Zenon DEF KaRuntime, Runtime, GoesOff, Asserts, Tick
  <2> QED BY <2>1, <2>2, Zenon DEF KaInv, KaTypeOK, SetWhenIdle, GivesUpLate
<1>10. ASSUME NEW b \in BOOLEAN, SetEnabled(b)
       PROVE  KaTypeOK' /\ SetWhenIdle' /\ (unacked <= unheard)' /\ GivesUpLate'
  BY <1>10, Zenon DEF SetEnabled, KaInv, KaTypeOK, SetWhenIdle, GivesUpLate
<1>11. CASE UNCHANGED kaVars
  BY <1>11, Zenon DEF kaVars, timerVars, KaInv, KaTypeOK, SetWhenIdle, GivesUpLate
<1> QED
  BY <1>1, <1>2, <1>3, <1>4, <1>5, <1>6, <1>7, <1>8, <1>9, <1>10, <1>11 DEF KaNext

LEMMA KaInitInv == KaInit => KaInv
<1> SUFFICES ASSUME KaInit PROVE KaInv
  OBVIOUS
<1>1. TimerInv
  BY InitInv DEF KaInit
<1>2. KaTypeOK /\ unacked <= unheard
  <2>1. unacked = 0 /\ unheard = 0 /\ 0 \in Nat /\ 0 <= 0
    BY DEF KaInit
  <2> QED BY <2>1, Zenon DEF KaInit, KaTypeOK
<1>3. SetWhenIdle
  BY Zenon DEF KaInit, SetWhenIdle
<1>4. WakeIsComing
  <2>1. state = "disabled" /\ state # "enabled"
    BY DEF KaInit, TimerInit
  <2> QED BY <2>1, Zenon DEF KaInit, TimerInit, WakeIsComing
<1>5. GivesUpLate
  BY DEF KaInit, GivesUpLate
<1> QED BY <1>1, <1>2, <1>3, <1>4, <1>5, Zenon DEF KaInv

LEMMA KaNextInv == KaInv /\ [KaNext]_kaVars => KaInv'
  BY KaTimerInv, KaOwnInv, Zenon DEF KaInv

\* While keepalive is on and nothing is in flight the worker will be woken,
\* and a connection is given up only after Count unanswered probes
\* (connect.go:741-767), for all times and counts.
THEOREM KeepaliveSound == KaSpec => []KeepaliveIsSound
<1>1. KaInit => KaInv
  BY KaInitInv
<1>2. KaInv /\ [KaNext]_kaVars => KaInv'
  BY KaNextInv
<1>3. KaInv => KeepaliveIsSound
  <2> SUFFICES ASSUME KaInv PROVE KeepaliveArmed
    BY Zenon DEF KeepaliveIsSound, KaInv
  <2>1. state = "enabled" => state # "disabled"
    OBVIOUS
  <2> QED BY <2>1, Zenon DEF KeepaliveArmed, KaInv, SetWhenIdle, WakeIsComing
<1> QED BY <1>1, <1>2, <1>3, PTL DEF KaSpec

\* Also the timer of keepalive is a deadline, although the worker may ignore
\* a wake of it: it is then late, but never early.
THEOREM KeepaliveTimerImplementsDeadline == KaSpec => DeadlineSpec
<1>1. KaInit => KaInv
  BY KaInitInv
<1>2. KaInv /\ [KaNext]_kaVars => KaInv'
  BY KaNextInv
<1>3. KaInit => D!Init
  BY InitDeadline DEF KaInit
<1>4. KaInv /\ [KaNext]_kaVars => [D!Next]_(D!dlVars)
  BY KaSimulates
<1> QED BY <1>1, <1>2, <1>3, <1>4, PTL DEF KaSpec, DeadlineSpec, D!Spec
=============================================================================
