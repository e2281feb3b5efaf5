------------------------------ MODULE TcpListener ------------------------------
(***************************************************************************)
(* A listening endpoint, tcp/accept.go: its loop, the goroutine per SYN,   *)
(* the SYN cookies, the accept channel, and Accept and Close of the        *)
(* application, with the clients of TcpActiveOpen.  An endpoint that the   *)
(* listener creates is one of Conns; it is unregistered and free again     *)
(* when it is closed.                                                      *)
(*                                                                         *)
(* e.mu of the listener is a sync.RWMutex: a delivery holds it for reading *)
(* while it waits for room in the channel, and a writer that waits keeps   *)
(* new readers out.                                                        *)
(***************************************************************************)
EXTENDS TcpActiveOpen

CONSTANTS
  Server,
  Conns,                  \* endpoints that may exist at a time: a bound
  SynRcvdCountThreshold,
  CookieHash,             \* what a cookie adds to irs, by epoch of 64 seconds
  MaxTSDiff               \* epochs for which a cookie is good

ASSUME ListenAssumption ==
  Server \in Ends /\ 0 \notin Conns /\ SynRcvdCountThreshold \in Nat

\* Two epochs do not give two attempts of a client the same cookie: the code
\* relies on the hash for it.
ASSUME CookieAssumption ==
  /\ \A t \in DOMAIN CookieHash : CookieHash[t] \in Value
  /\ \A e \in Ends : \A i, j \in DOMAIN Isn[e] : \A t, u \in DOMAIN CookieHash :
       (i # j /\ t # u) =>
         Add(Isn[e][i], CookieHash[t]) # Add(Isn[e][j], CookieHash[u])

VARIABLES
  lst,       \* the listener: listening, registered, running (its worker),
             \* cleanup (workerCleanup), notified (notifyClose), backlog
  loop,      \* "run", "delivers" (an endpoint), "exits", or "gone"
  app,       \* "accepts", "shuts" or "closes" (in Close), or "closed"
  lq,        \* segments queued for the loop; bound: one
  accepted,  \* acceptedChan
  conn,      \* of each endpoint its pc, handshake, peer, isRegistered, byLoop
  owner,     \* who is registered for the ports of a client; None: the listener
  synRcvdCount,
  epoch

listenVars == <<lst, loop, app, lq, accepted, conn, owner, synRcvdCount, epoch>>

None == 0
Epochs == DOMAIN CookieHash

Unused == [pc |-> "free", h |-> SynRcvd(0, 0), peer |-> Server,
           isRegistered |-> FALSE, byLoop |-> FALSE]

\* The objects are alike: one that is free.
NextFree == IF \E n \in Conns : conn[n].pc = "free"
            THEN CHOOSE n \in Conns : conn[n].pc = "free"
            ELSE None

\* After Listen(backlog), or without a listener.
ListenInit(listening, backlog, start) ==
  /\ lst = [listening |-> listening, registered |-> listening,
            running |-> listening, cleanup |-> FALSE, notified |-> FALSE,
            backlog |-> backlog]
  /\ loop = IF listening THEN "run" ELSE "gone"
  /\ app = IF listening THEN "accepts" ELSE "closed"
  /\ lq = {} /\ accepted = <<>> /\ conn = [n \in Conns |-> Unused]
  /\ owner = [e \in Ends |-> None] /\ synRcvdCount = 0 /\ epoch = start

\* e.mu: who holds it to read, and who waits to write.
Delivering    == {n \in Conns : conn[n].pc = "sends"}
WriterWaits   == app \in {"shuts", "closes"} \/ loop = "exits"
CanRead       == ~WriterWaits

\* Mistake: a delivery only looks at the state under the lock.
WritesAnyway == TRUE

CanWrite      == Delivering = {}

\* createCookie and isCookieValid; the hash tells cookies and epochs apart.
Cookie(irs) == Add(irs, CookieHash[epoch])
IsCookieValid(cookie, irs) ==
  \E t \in Epochs : /\ t <= epoch /\ epoch - t <= MaxTSDiff
                    /\ cookie = Add(irs, CookieHash[t])

-----------------------------------------------------------------------------
(* The endpoints. *)

\* Mistake: the ports are unregistered whoever has them.
CleanedAnyway(c, o, n) ==
  [c |-> [c EXCEPT ![n] = Unused], o |-> [o EXCEPT ![c[n].peer] = None]]

\* Close of an endpoint that no worker runs, with cleanupLocked.
Cleaned(c, o, n) ==
  [c |-> [c EXCEPT ![n] = Unused],
   o |-> IF c[n].isRegistered THEN [o EXCEPT ![c[n].peer] = None] ELSE o]

CloseConn(n) ==
  conn' = Cleaned(conn, owner, n).c /\ owner' = Cleaned(conn, owner, n).o

\* newEndpoint in createConnectedEndpoint, and its registration.
Created(s, iss, irs, pc, byLoop) ==
  [pc |-> pc, h |-> SynRcvd(iss, irs), peer |-> s.src,
   isRegistered |-> FALSE, byLoop |-> byLoop]

Handshaking(c, iss) ==
  [c EXCEPT !.pc = "handshake", !.h.iss = iss, !.isRegistered = TRUE]

\* The deferred decSynRcvdCount of handleSynSegment.
GivesBack(n) == synRcvdCount' = IF conn[n].byLoop THEN synRcvdCount ELSE synRcvdCount - 1

LoopGoesOn(n) == loop' = IF conn[n].byLoop THEN "run" ELSE loop

\* handleSynSegment: the endpoint is created, with a cookie for its number,
\* and its handshake sends SYN|ACK; or the ports are taken.
StartsHandshake(n) ==
  LET e    == conn[n].peer
      made == Handshaking(conn[n], Cookie(Add(conn[n].h.ackNum, -1)))
  IN  /\ conn[n].pc = "starts"
      /\ IF owner[e] = None
         THEN /\ owner' = [owner EXCEPT ![e] = n] /\ conn' = [conn EXCEPT ![n] = made]
              /\ Emits({SynOf(made.h, Server, e)}) /\ UNCHANGED synRcvdCount
         ELSE CloseConn(n) /\ GivesBack(n) /\ UNCHANGED wire
      /\ UNCHANGED <<opener, opened, lst, loop, app, lq, accepted, epoch>>

ResendsSynAck(n) ==
  /\ conn[n].pc = "handshake"
  /\ Emits({SynOf(conn[n].h, Server, conn[n].peer)})
  /\ UNCHANGED <<opener, opened, listenVars>>

HandshakeFails(n) == CloseConn(n) /\ GivesBack(n)

HalfOpenGivesUp(n) ==
  /\ conn[n].pc = "handshake"
  /\ HandshakeFails(n)
  /\ UNCHANGED <<openVars, lst, loop, app, lq, accepted, epoch>>

HalfOpenReceives(n, s) ==
  LET r == HandleSegment(conn[n].h, s, 0)
  IN  /\ s.dst = Server /\ owner[s.src] = n /\ conn[n].pc = "handshake"
      /\ IF r.err # "none" THEN HandshakeFails(n)
         ELSE /\ conn' = [conn EXCEPT ![n].h = r.h,
                            ![n].pc = IF r.h.state = "completed" THEN "delivers" ELSE @]
              /\ UNCHANGED <<owner, synRcvdCount>>
      /\ Carries(s, r.out)
      /\ UNCHANGED <<opener, opened, lst, loop, app, lq, accepted, epoch>>

\* deliverAccepted takes the lock; a listener that no longer listens has the
\* endpoint closed.
LocksToDeliver(n) ==
  /\ conn[n].pc = "delivers" /\ CanRead
  /\ IF lst.listening
     THEN /\ conn' = [conn EXCEPT ![n].pc = "sends"]
          /\ UNCHANGED <<owner, synRcvdCount, loop>>
     ELSE CloseConn(n) /\ GivesBack(n) /\ LoopGoesOn(n)
  /\ UNCHANGED <<openVars, lst, app, lq, accepted, epoch>>

\* It waits for room, sends, and releases the lock.
Sends(n) ==
  /\ conn[n].pc = "sends" /\ Len(accepted) < lst.backlog
  /\ accepted' = Append(accepted, n)
  /\ conn' = [conn EXCEPT ![n].pc = "queued"] /\ GivesBack(n) /\ LoopGoesOn(n)
  /\ UNCHANGED <<openVars, lst, app, lq, owner, epoch>>

Delivers(n) == LocksToDeliver(n) \/ Sends(n)

\* What an accepted endpoint does with segments of a handshake, and its end.
AcceptedAcks(n, s) ==
  /\ s.dst = Server /\ owner[s.src] = n /\ conn[n].pc = "accepted"
  /\ AsksForAck(conn[n].h, s) /\ Carries(s, {AckOf(conn[n].h, s)})
  /\ UNCHANGED <<opener, opened, listenVars>>

AcceptedIsReset(n, s) ==
  /\ s.dst = Server /\ owner[s.src] = n /\ conn[n].pc = "accepted"
  /\ Resets(conn[n].h, s) /\ Carries(s, {ResetOf(conn[n].h, Server, s.src)})
  /\ conn' = [conn EXCEPT ![n].pc = "failed"]
  /\ UNCHANGED <<opener, opened, lst, loop, app, lq, accepted, owner,
                 synRcvdCount, epoch>>

AcceptedCloses(n) ==
  /\ conn[n].pc \in {"accepted", "failed"} /\ CloseConn(n)
  /\ UNCHANGED <<openVars, lst, loop, app, lq, accepted, synRcvdCount, epoch>>

-----------------------------------------------------------------------------
(* The loop. *)

\* HandlePacket: a segment that no endpoint of Conns is registered for.
Queues(s) ==
  /\ s.dst = Server /\ owner[s.src] = None /\ lst.registered /\ lq = {}
  /\ lq' = {s} /\ Carries(s, {})
  /\ UNCHANGED <<opener, opened, lst, loop, app, accepted, conn, owner,
                 synRcvdCount, epoch>>

\* handleListenSegment, for a SYN: a goroutine, or a cookie if there are too
\* many.
StartsGoroutine(s, n) ==
  /\ s.flags = {"syn"} /\ synRcvdCount < SynRcvdCountThreshold
  /\ n = NextFree
  /\ synRcvdCount' = synRcvdCount + 1
  /\ conn' = [conn EXCEPT ![n] = Created(s, 0, s.seq, "starts", FALSE)]
  /\ UNCHANGED <<wire, loop, owner>>

SendsCookie(s) ==
  /\ s.flags = {"syn"} /\ synRcvdCount >= SynRcvdCountThreshold
  /\ Emits({SynOf(SynRcvd(Cookie(s.seq), s.seq), Server, s.src)})
  /\ UNCHANGED <<loop, conn, owner, synRcvdCount>>

\* For an ACK with a good cookie: an endpoint, which the loop itself delivers.
TakesCookie(s, n) ==
  /\ s.flags = {"ack"} /\ IsCookieValid(Add(s.ack, -1), Add(s.seq, -1))
  /\ n = NextFree
  /\ IF owner[s.src] = None
     THEN /\ conn' = [conn EXCEPT ![n] =
               [Created(s, Add(s.ack, -1), Add(s.seq, -1), "delivers", TRUE)
                  EXCEPT !.isRegistered = TRUE]]
          /\ owner' = [owner EXCEPT ![s.src] = n] /\ loop' = "delivers"
     ELSE UNCHANGED <<conn, owner, loop>>
  /\ UNCHANGED <<wire, synRcvdCount>>

Ignores(s) ==
  /\ s.flags # {"syn"}
  /\ ~(s.flags = {"ack"} /\ IsCookieValid(Add(s.ack, -1), Add(s.seq, -1)))
  /\ UNCHANGED <<wire, loop, conn, owner, synRcvdCount>>

HandlesQueued ==
  /\ loop = "run" /\ lq' = {}
  /\ \E s \in lq : \/ \E n \in Conns : StartsGoroutine(s, n) \/ TakesCookie(s, n)
                   \/ SendsCookie(s) \/ Ignores(s)
  /\ UNCHANGED <<opener, opened, lst, app, accepted, epoch>>

LoopStops ==
  /\ loop = "run" /\ lst.notified /\ loop' = "exits"
  /\ UNCHANGED <<openVars, lst, app, lq, accepted, conn, owner, synRcvdCount, epoch>>

\* Mistake: what is queued is left to Accept.
KeepsQueued(l) ==
  /\ lst' = [l EXCEPT !.registered = FALSE, !.cleanup = FALSE]
  /\ UNCHANGED <<wire, accepted, conn, owner>>

\* cleanupLocked: the channel is closed, and what is in it reset and closed.
CleansUp(l) ==
  LET queued == {n \in Conns : conn[n].pc = "queued"}
  IN  /\ lst' = [l EXCEPT !.registered = FALSE, !.cleanup = FALSE]
      /\ accepted' = <<>>
      /\ conn' = [n \in Conns |-> IF n \in queued THEN Unused ELSE conn[n]]
      /\ owner' = [e \in Ends |-> IF owner[e] \in queued THEN None ELSE owner[e]]
      /\ Emits({ResetOf(conn[n].h, Server, conn[n].peer) : n \in queued})

\* The deferred end of the loop, with completeWorkerLocked.
LoopEnds ==
  /\ loop = "exits" /\ CanWrite /\ loop' = "gone" /\ lq' = {}
  /\ LET ended == [lst EXCEPT !.listening = FALSE, !.running = FALSE]
     IN  IF lst.cleanup THEN CleansUp(ended)
         ELSE lst' = ended /\ UNCHANGED <<wire, accepted, conn, owner>>
  /\ UNCHANGED <<opener, opened, app, synRcvdCount, epoch>>

LoopWork == HandlesQueued \/ LoopStops \/ LoopEnds

-----------------------------------------------------------------------------
(* The application. *)

\* Accept: the head of the channel, or, without a buffer, what a sender holds.
AcceptsHead ==
  /\ app = "accepts" /\ CanRead /\ lst.listening /\ accepted # <<>>
  /\ accepted' = Tail(accepted)
  /\ conn' = [conn EXCEPT ![Head(accepted)].pc = "accepted"]
  /\ UNCHANGED <<openVars, lst, loop, app, lq, owner, synRcvdCount, epoch>>

AcceptsFrom(n) ==
  /\ app = "accepts" /\ CanRead /\ lst.listening /\ accepted = <<>>
  /\ conn[n].pc = "sends" /\ conn' = [conn EXCEPT ![n].pc = "accepted"]
  /\ GivesBack(n) /\ LoopGoesOn(n)
  /\ UNCHANGED <<openVars, lst, app, lq, accepted, owner, epoch>>

CallsClose ==
  /\ app = "accepts" /\ app' = "shuts"
  /\ UNCHANGED <<openVars, lst, loop, lq, accepted, conn, owner, synRcvdCount, epoch>>

\* The Shutdown in Close, then the rest, each under the lock.
ShutsDown ==
  /\ app = "shuts" /\ CanWrite /\ app' = "closes"
  /\ lst' = [lst EXCEPT !.notified = TRUE]
  /\ UNCHANGED <<openVars, loop, lq, accepted, conn, owner, synRcvdCount, epoch>>

CloseListener ==
  /\ app = "closes" /\ CanWrite /\ app' = "closed"
  /\ IF lst.running
     THEN /\ lst' = [lst EXCEPT !.registered = FALSE, !.cleanup = TRUE,
                                !.notified = TRUE]
          /\ UNCHANGED <<wire, accepted, conn, owner>>
     ELSE CleansUp(lst)
  /\ UNCHANGED <<opener, opened, loop, lq, synRcvdCount, epoch>>

CloseWork == ShutsDown \/ CloseListener

Ticks ==
  /\ epoch + 1 \in Epochs /\ epoch' = epoch + 1
  /\ UNCHANGED <<openVars, lst, loop, app, lq, accepted, conn, owner, synRcvdCount>>

ListenNext ==
  \/ \E n \in Conns : StartsHandshake(n) \/ ResendsSynAck(n) \/ HalfOpenGivesUp(n)
                      \/ Delivers(n) \/ AcceptedCloses(n) \/ AcceptsFrom(n)
  \/ \E s \in wire : \/ \E n \in Conns : \/ HalfOpenReceives(n, s)
                                         \/ AcceptedAcks(n, s) \/ AcceptedIsReset(n, s)
                     \/ Queues(s)
  \/ LoopWork \/ AcceptsHead \/ CallsClose \/ CloseWork \/ Ticks

ListenFairness ==
  /\ WF_<<openVars, listenVars>>(LoopWork)
  /\ WF_<<openVars, listenVars>>(CloseWork)
  /\ \A n \in Conns : WF_<<openVars, listenVars>>(Delivers(n))

-----------------------------------------------------------------------------
\* What an endpoint took it gives back once: the count of half-open
\* connections is that of the goroutines, whether a handshake fails, the ports
\* are taken or the listener is closed (accept.go:261); and the ports stay with
\* the one that registered them, whatever becomes of others that were created
\* for the same client.
GivenBack ==
  /\ synRcvdCount =
       Cardinality({n \in Conns : /\ ~conn[n].byLoop
                                  /\ conn[n].pc \in {"starts", "handshake",
                                                     "delivers", "sends"}})
  /\ synRcvdCount <= SynRcvdCountThreshold
  /\ \A n \in Conns : conn[n].isRegistered => owner[conn[n].peer] = n

\* An endpoint is only sent into an open channel, and a closed listener has
\* nothing left in it (accept.go:241, endpoint.go:699).
DeliversToListener ==
  /\ Delivering # {} => lst.listening
  /\ accepted # <<>> => lst.listening \/ app = "closes"

\* What the listener takes for a connection, by a handshake or by a cookie, is
\* one that its client completed, with the same two numbers.
ServerAgrees ==
  \A n \in Conns :
    conn[n].pc \in {"delivers", "sends", "queued", "accepted"} =>
      <<conn[n].peer, Add(conn[n].h.ackNum, -1), Add(conn[n].h.iss, 1)>> \in opened

\* Close comes to an end, the loop too, and nothing is left in the channel,
\* unless a delivery waits for room that Accept can no longer make.
Stuck == Delivering # {} /\ Len(accepted) >= lst.backlog

CloseEnds ==
  app = "shuts" ~> \/ app = "closed" /\ loop = "gone" /\ accepted = <<>>
                   \/ Stuck

\* What Close says of itself (endpoint.go:659): it closes the endpoint and
\* frees what it has.
CloseReturns == app = "shuts" ~> app = "closed"
=============================================================================
