----------------------------- MODULE TcpWorker -----------------------------
(***************************************************************************)
(* The goroutines of one TCP endpoint: the worker (protocolMainLoop of     *)
(* tcp/connect.go, with the handshake before it) and the threads that call *)
(* Write, HandlePacket and notifyProtocolGoroutine.  They meet in the work *)
(* mutex, in the wakers, and in three shared things: the send queue, the   *)
(* segment queue and the notification flags.  What the handlers do with    *)
(* segments is in TcpSender and TcpReceiver; here only who runs them when. *)
(***************************************************************************)
EXTENDS TMutex, Sleeper, FiniteSets

CONSTANTS
  Worker, Threads,
  Notifications,      \* bits of notifyFlags
  MaxSegmentsPerWake, \* connect.go
  SegmentLimit,       \* segmentQueue.limit, in segments
  MaxCalls            \* bound: calls of the threads in all

ASSUME WorkerAssumption ==
  /\ Worker \notin Threads
  /\ Procs = Threads \cup {Worker} /\ Asserters = Procs
  /\ Wakers = {"snd", "seg", "note"} /\ Sleepers = {"handshake", "main"}
  /\ MaxSegmentsPerWake \in Nat \ {0} /\ SegmentLimit \in Nat \ {0}
  /\ MaxCalls \in Nat

VARIABLES
  sndQueue,    \* chunks written and not yet taken by handleWrite
  segments,    \* length of the segment queue
  notifyFlags,
  wpc,         \* where the worker is
  batch,       \* segments handled since it woke up
  tpc,         \* where a thread is in Write
  calls

shared3 == <<sndQueue, segments, notifyFlags>>
progVars == <<shared3, wpc, batch, tpc, calls>>
vars == <<mutexVars, sleepVars, progVars>>

\* The wakers in the order they are added.
HandshakeWakers == <<"note", "seg">>
MainWakers      == <<"snd", "seg", "note">>

\* newEndpoint takes the mutex for the worker.
Init ==
  /\ v = 0 /\ ch = 0
  /\ mpc = [p \in Procs |-> IF p = Worker THEN "in" ELSE "out"]
  /\ SleepInit("handshake")
  /\ sndQueue = 0 /\ segments = 0 /\ notifyFlags = {}
  /\ wpc = "add" /\ batch = 0
  /\ tpc = [t \in Threads |-> "idle"] /\ calls = 0

-----------------------------------------------------------------------------
(* The threads. *)

Idle(t) == tpc[t] = "idle" /\ At(t, "out") /\ apc[t] = None

Call(t) == Idle(t) /\ calls < MaxCalls /\ calls' = calls + 1

ThreadAt(t, from, to) == tpc[t] = from /\ tpc' = [tpc EXCEPT ![t] = to]

Connected == cur = "main"

\* Write: the chunk is queued under sndBufMu.
Write(t) ==
  /\ Call(t) /\ Connected
  /\ sndQueue' = sndQueue + 1
  /\ ThreadAt(t, "idle", "try")
  /\ UNCHANGED <<mutexVars, sleepVars, segments, notifyFlags, wpc, batch>>

WriteTry(t) ==
  /\ tpc[t] = "try" /\ TryLoad(t)
  /\ UNCHANGED <<sleepVars, progVars>>

\* With the mutex the thread runs handleWrite itself.
WriteLocked(t) ==
  /\ ThreadAt(t, "try", "write") /\ TryCas(t)
  /\ UNCHANGED <<sleepVars, shared3, wpc, batch, calls>>

\* Without, it wakes the worker.
WriteBusy(t) ==
  /\ ThreadAt(t, "try", "idle") /\ TryFail(t)
  /\ CallAssert(t, "snd")
  /\ UNCHANGED <<wakerVars, spc, cur, pulled, shared3, wpc, batch, calls>>

WriteHandle(t) ==
  /\ ThreadAt(t, "write", "unlock")
  /\ sndQueue' = 0
  /\ UNCHANGED <<mutexVars, sleepVars, segments, notifyFlags, wpc, batch, calls>>

WriteUnlock(t) ==
  /\ ThreadAt(t, "unlock", "idle") /\ Unlock(t)
  /\ UNCHANGED <<sleepVars, shared3, wpc, batch, calls>>

\* HandlePacket: a segment is queued if there is room, or dropped.
HandlePacket(t) ==
  /\ Call(t)
  /\ segments < SegmentLimit
  /\ segments' = segments + 1
  /\ CallAssert(t, "seg")
  /\ UNCHANGED <<mutexVars, wakerVars, spc, cur, pulled, sndQueue, notifyFlags,
                 wpc, batch, tpc>>

\* notifyProtocolGoroutine: only the first flag wakes the worker.
Notify(t) ==
  /\ Call(t)
  /\ \E n \in Notifications \ notifyFlags : notifyFlags' = notifyFlags \cup {n}
  /\ IF notifyFlags = {} THEN CallAssert(t, "note") ELSE UNCHANGED <<apc, aw>>
  /\ UNCHANGED <<mutexVars, wakerVars, spc, cur, pulled, sndQueue, segments,
                 wpc, batch, tpc>>

ThreadStep(t) ==
  \/ Write(t) \/ WriteTry(t) \/ WriteLocked(t) \/ WriteBusy(t)
  \/ WriteHandle(t) \/ WriteUnlock(t) \/ HandlePacket(t) \/ Notify(t)
  \/ UnlockPost(t) /\ UNCHANGED <<sleepVars, progVars>>
  \/ AssertStep(t) /\ UNCHANGED <<mutexVars, progVars>>

-----------------------------------------------------------------------------
(* The worker. *)

\* The worker is between two of its own steps.
Ready == apc[Worker] = None

WorkerAt(from, to) == Ready /\ wpc = from /\ wpc' = to

Added == Len(allWakers[cur])

\* AddWaker for each waker, with both sleepers.
Add ==
  LET all == IF cur = "main" THEN MainWakers ELSE HandshakeWakers
  IN  /\ Ready /\ wpc = "add" /\ Added < Len(all)
      /\ AddWaker(Worker, all[Added + 1])
      /\ UNCHANGED <<mutexVars, progVars>>

\* The main loop first looks whether segments came with the handshake.
AddDone ==
  /\ IF cur = "main" THEN /\ Added = Len(MainWakers)
                          /\ WorkerAt("add", "unlock")
                          /\ IF segments > 0 THEN CallAssert(Worker, "seg")
                                             ELSE UNCHANGED <<apc, aw>>
     ELSE /\ Added = Len(HandshakeWakers)
          /\ WorkerAt("add", "fetch")
          /\ UNCHANGED <<apc, aw>>
  /\ UNCHANGED <<mutexVars, wakerVars, spc, cur, pulled, shared3, batch, tpc,
                 calls>>

MainUnlock ==
  /\ WorkerAt("unlock", "fetch") /\ Unlock(Worker)
  /\ UNCHANGED <<sleepVars, shared3, batch, tpc, calls>>

\* The handshake keeps the mutex while it sleeps.
Fetch ==
  /\ WorkerAt("fetch", IF cur = "main" THEN "lock" ELSE "handle")
  /\ mpc[Worker] \in {"in", "out"}
  /\ CallFetch
  /\ UNCHANGED <<mutexVars, shared3, batch, tpc, calls>>

MainLock ==
  /\ WorkerAt("lock", "handle") /\ spc = "fetched" /\ LockAdd(Worker)
  /\ UNCHANGED <<sleepVars, shared3, batch, tpc, calls>>

\* Back to the head of the loop.
Again == wpc' = (IF cur = "main" THEN "unlock" ELSE "fetch") /\ spc' = "out"

Handling(w) == /\ Ready /\ wpc = "handle" /\ spc = "fetched"
               /\ At(Worker, "in") /\ pulled.w = w

HandleWrite ==
  /\ Handling("snd")
  /\ sndQueue' = 0
  /\ Again
  /\ UNCHANGED <<mutexVars, wakerVars, apc, aw, cur, pulled, segments,
                 notifyFlags, batch, tpc, calls>>

HandleNotification ==
  /\ Handling("note")
  /\ notifyFlags' = {}
  /\ Again
  /\ UNCHANGED <<mutexVars, wakerVars, apc, aw, cur, pulled, sndQueue, segments,
                 batch, tpc, calls>>

\* handleSegments and processSegments: one segment.
Dequeue ==
  /\ Handling("seg") /\ batch < MaxSegmentsPerWake /\ segments > 0
  /\ segments' = segments - 1 /\ batch' = batch + 1
  /\ UNCHANGED <<mutexVars, sleepVars, sndQueue, notifyFlags, wpc, tpc, calls>>

\* The queue was empty when it was looked at: nothing more to do.
QueueEmpty ==
  /\ Handling("seg") /\ batch < MaxSegmentsPerWake /\ segments = 0
  /\ batch' = 0
  /\ Again
  /\ UNCHANGED <<mutexVars, wakerVars, apc, aw, cur, pulled, shared3, tpc, calls>>

\* Mistake: the rest of the queue is left for the next packet.
BatchDoneSilently ==
  /\ Handling("seg") /\ batch = MaxSegmentsPerWake
  /\ batch' = 0
  /\ Again
  /\ UNCHANGED <<mutexVars, wakerVars, apc, aw, cur, pulled, shared3, tpc, calls>>

\* The batch is full: the worker wakes itself if there is more.
BatchDone ==
  /\ Handling("seg") /\ batch = MaxSegmentsPerWake
  /\ IF segments > 0 THEN CallAssert(Worker, "seg") ELSE UNCHANGED <<apc, aw>>
  /\ batch' = 0
  /\ Again
  /\ UNCHANGED <<mutexVars, wakerVars, cur, pulled, shared3, tpc, calls>>

\* A segment completed the handshake: the rest is left to the main loop, and
\* the sleeper is done with.
HandshakeCompleted ==
  /\ cur = "handshake" /\ Handling("seg") /\ batch > 0
  /\ IF segments > 0 THEN CallAssert(Worker, "seg") ELSE UNCHANGED <<apc, aw>>
  /\ batch' = 0
  /\ wpc' = "done" /\ spc' = "out"
  /\ UNCHANGED <<mutexVars, wakerVars, cur, pulled, shared3, tpc, calls>>

HandshakeDone ==
  /\ WorkerAt("done", "gone") /\ CallDone
  /\ UNCHANGED <<mutexVars, shared3, batch, tpc, calls>>

\* The main loop has a sleeper of its own.
Handover ==
  /\ WorkerAt("gone", "add") /\ spc = "gone" /\ spc' = "out"
  /\ cur' = "main"
  /\ UNCHANGED <<mutexVars, wakerVars, apc, aw, pulled, shared3, batch, tpc,
                 calls>>

WorkerStep ==
  \/ Add \/ AddDone \/ MainUnlock \/ Fetch \/ MainLock
  \/ HandleWrite \/ HandleNotification \/ Dequeue \/ QueueEmpty \/ BatchDone
  \/ HandshakeCompleted \/ HandshakeDone \/ Handover
  \/ (LockStep(Worker) \/ UnlockPost(Worker)) /\ UNCHANGED <<sleepVars, progVars>>
  \/ (AssertStep(Worker) \/ OwnerStep) /\ UNCHANGED <<mutexVars, progVars>>

Next == WorkerStep \/ \E t \in Threads : ThreadStep(t)

Spec == Init /\ [][Next]_vars

-----------------------------------------------------------------------------
\* When the worker sleeps and every thread is back from its call, nothing is
\* left that the worker was to be told about: no chunk whose writer found the
\* mutex taken, no segment behind a full batch or behind the one that
\* completed the handshake, no flag set by the second of two notifiers.
NothingLeftBehind ==
  (spc = "parked" /\ \A t \in Threads : Idle(t)) =>
    sndQueue = 0 /\ segments = 0 /\ notifyFlags = {}
=============================================================================
