---------------------------- MODULE LinkAddrCache ----------------------------
(***************************************************************************)
(* The link address cache, stack/linkaddrcache.go: a ring of entries, a    *)
(* map from addresses to the entries in use, and one goroutine for every   *)
(* resolution.  An entry is "incomplete" while its address is being        *)
(* resolved; when it leaves that state its wakers are asserted and its     *)
(* channel is closed.                                                      *)
(*                                                                         *)
(* Its clients are the handshake of TCP (resolveRoute), which sleeps on a  *)
(* waker, and the Write of UDP, which removes its waker at once and leaves *)
(* the caller the channel.  A resolver and a caller hold the channel of    *)
(* the entry they started from, also when the entry is used again for      *)
(* another address: `ring index' while it is open, Closed afterwards.      *)
(***************************************************************************)
EXTENDS Naturals, FiniteSets

CONSTANTS
  Addrs,
  Answers,     \* what may be said: pairs of an address and a link address
  CacheSize,   \* linkAddrCacheSize
  Attempts,    \* resolutionAttempts
  Clients,
  Resolvers    \* bound: goroutines that resolve at the same time

\* The ring has an entry, and what is said is said of an address.
ASSUME LinkAssumption ==
  /\ CacheSize \in Nat \ {0} /\ Attempts \in Nat
  /\ Resolvers \subseteq Nat /\ "" \notin Addrs
  /\ \A x \in Answers : x[1] \in Addrs

VARIABLES
  entries, cache, next,
  resolvers,   \* of each goroutine its pc, address, channel and attempt
  clients,     \* of each client its pc, address and channel
  asserted,    \* clients whose waker has been asserted
  told         \* history: what each address in the map was last said to be

linkVars == <<entries, cache, next, resolvers, clients, asserted, told>>

Closed == 0
NoAddr == ""
Ring   == 1..CacheSize

Idle == [pc |-> "idle", addr |-> NoAddr, ch |-> Closed]

LinkInit ==
  /\ entries = [i \in Ring |-> [addr |-> NoAddr, linkAddr |-> NoAddr,
                                s |-> "incomplete", old |-> FALSE, wakers |-> {}]]
  /\ cache = <<>> /\ next = 1
  /\ resolvers = [r \in Resolvers |-> [pc |-> "idle", addr |-> NoAddr, ch |-> Closed,
                                       attempt |-> 0]]
  /\ clients = [c \in Clients |-> Idle]
  /\ asserted = {}
  /\ told = [k \in Addrs |-> NoAddr]

-----------------------------------------------------------------------------
(* States of an entry. *)

\* changeState: what it does not allow panics.
Changed(e, ns) ==
  IF e.s = ns THEN e
  ELSE [e EXCEPT !.s = IF \/ @ = "incomplete"
                          \/ @ \in {"ready", "failed"} /\ ns = "expired"
                       THEN ns ELSE "panic",
                 !.wakers = {}]

\* state: an entry that is past its age expires when it is looked at.
Looked(e) == IF e.old THEN Changed(e, "expired") ELSE e

Cached(k) == k \in DOMAIN cache
Found(k)  == Looked(entries[cache[k]])
Has(k, s) == Cached(k) /\ Found(k).s = s

\* Looking k up in the map: the entries afterwards.
LookedUp(k) == IF Cached(k) THEN [entries EXCEPT ![cache[k]] = Looked(@)]
               ELSE entries

\* The entry of k if looking at it makes it expire.
Expiring(k) == {cache[x] : x \in {x \in {k} \cap DOMAIN cache :
                                    entries[cache[x]].old}}

\* The entries of S that leave "incomplete" in this step.
Leaving(S) == {i \in S : entries[i].s = "incomplete"}

\* Their wakers are asserted and their channels closed.
Notified(left) == asserted \cup UNION {entries[i].wakers : i \in left}
Shut(f, left) ==
  [x \in DOMAIN f |-> [f[x] EXCEPT !.ch = IF @ \in left THEN Closed ELSE @]]

\* Mistake: the address of the entry that is used again stays in the map.
PutOver(k, v, s, ws) ==
  /\ entries' = [LookedUp(k) EXCEPT ![next] =
       [addr |-> k, linkAddr |-> v, s |-> s, old |-> FALSE, wakers |-> ws]]
  /\ cache' = [x \in {k} \cup DOMAIN cache |-> IF x = k THEN next ELSE cache[x]]
  /\ next' = (next % CacheSize) + 1
  /\ told' = [x \in Addrs |-> IF x = k THEN v
                              ELSE IF x \in DOMAIN cache' THEN told[x] ELSE NoAddr]

\* makeAndAddEntry: the oldest entry of the ring is used again, for k.
Put(k, v, s, ws) ==
  /\ entries' = [LookedUp(k) EXCEPT ![next] =
       [addr |-> k, linkAddr |-> v, s |-> s, old |-> FALSE, wakers |-> ws]]
  /\ cache' = [x \in {k} \cup {y \in DOMAIN cache : cache[y] # next} |->
                 IF x = k THEN next ELSE cache[x]]
  /\ next' = (next % CacheSize) + 1
  /\ told' = [x \in Addrs |-> IF x = k THEN v
                              ELSE IF x \in DOMAIN cache' THEN told[x] ELSE NoAddr]

-----------------------------------------------------------------------------
(* add: an ARP reply, or a request for one of our addresses, says that k   *)
(* is at v.                                                                *)

\* The answer that a resolution is waiting for.
AnswerWaiting(k, v) ==
  /\ Has(k, "incomplete")
  /\ LET i == cache[k]  left == Leaving({i}) IN
       /\ entries' = [entries EXCEPT ![i] = Changed([@ EXCEPT !.linkAddr = v], "ready")]
       /\ asserted' = Notified(left)
       /\ resolvers' = Shut(resolvers, left) /\ clients' = Shut(clients, left)
  /\ told' = [told EXCEPT ![k] = v]
  /\ UNCHANGED <<cache, next>>

\* A new or another address; one that is known is left as it is.
AnswerNew(k, v) ==
  /\ ~Has(k, "incomplete")
  /\ Cached(k) => Has(k, "expired") \/ entries[cache[k]].linkAddr # v
  /\ Put(k, v, "ready", {})
  /\ LET left == Leaving(Expiring(k) \cup {next}) IN
       /\ asserted' = Notified(left)
       /\ resolvers' = Shut(resolvers, left) /\ clients' = Shut(clients, left)

-----------------------------------------------------------------------------
(* get, for client c, which waits as `how' says if it has to.              *)

\* The address is known, or known not to resolve.
GetKnown(c, k) ==
  /\ Has(k, "ready") \/ Has(k, "failed")
  /\ clients' = [clients EXCEPT ![c] = Idle]
  /\ asserted' = asserted \ {c}
  /\ UNCHANGED <<entries, cache, next, resolvers, told>>

\* The address is being resolved.
GetWaits(c, k, how) ==
  /\ Has(k, "incomplete")
  /\ entries' = [entries EXCEPT ![cache[k]].wakers = @ \cup {c}]
  /\ clients' = [clients EXCEPT ![c] = [pc |-> how, addr |-> k, ch |-> cache[k]]]
  /\ asserted' = asserted \ {c}
  /\ UNCHANGED <<cache, next, resolvers, told>>

\* The address is resolved anew, by a goroutine of its own.
GetStarts(c, k, how) ==
  /\ ~Cached(k) \/ Has(k, "expired")
  /\ Put(k, NoAddr, "incomplete", {c})
  /\ LET left == Leaving(Expiring(k) \cup {next}) IN
       /\ \E r \in Resolvers :
            /\ resolvers[r].pc = "idle"
            /\ \A q \in Resolvers : resolvers[q].pc = "idle" => r <= q
            /\ resolvers' = [Shut(resolvers, left) EXCEPT ![r] =
                 [pc |-> "select", addr |-> k, ch |-> next, attempt |-> 0]]
       /\ clients' = [Shut(clients, left) EXCEPT ![c] =
                        [pc |-> how, addr |-> k, ch |-> next]]
       /\ asserted' = Notified(left) \ {c}

Resolve(c, k, how) == GetKnown(c, k) \/ GetWaits(c, k, how) \/ GetStarts(c, k, how)

\* A handshake asks, sleeps on its waker, and asks again when it is woken.
HandshakeAsks(c, k) == clients[c].pc = "idle" /\ Resolve(c, k, "waiting")
HandshakeWoken(c) == /\ clients[c].pc = "waiting" /\ c \in asserted
                     /\ Resolve(c, clients[c].addr, "waiting")

\* Write asks, with a waker of its own that it removes.
WriteAsks(c, k) == clients[c].pc = "idle" /\ Resolve(c, k, "removing")

\* removeWaker, by address: from the entry that is in the map now.
WakersWithout(c, k) ==
  IF Cached(k) THEN [entries EXCEPT ![cache[k]].wakers = @ \ {c}] ELSE entries

\* The endpoint is closed while the handshake waits.
HandshakeAborts(c) ==
  /\ clients[c].pc = "waiting"
  /\ entries' = WakersWithout(c, clients[c].addr)
  /\ clients' = [clients EXCEPT ![c] = Idle] /\ asserted' = asserted \ {c}
  /\ UNCHANGED <<cache, next, resolvers, told>>

WriteRemovesWaker(c) ==
  /\ clients[c].pc = "removing"
  /\ entries' = WakersWithout(c, clients[c].addr)
  /\ clients' = [clients EXCEPT ![c].pc = "channel"] /\ asserted' = asserted \ {c}
  /\ UNCHANGED <<cache, next, resolvers, told>>

\* The caller of Write was waiting for the channel.
WriteReady(c) ==
  /\ clients[c].pc = "channel" /\ clients[c].ch = Closed
  /\ clients' = [clients EXCEPT ![c] = Idle]
  /\ UNCHANGED <<entries, cache, next, resolvers, asserted, told>>

-----------------------------------------------------------------------------
(* startAddressResolution: a request, and then whichever comes first, the  *)
(* timeout or the channel.  When both have come the select takes either.   *)

ResolverTimeout(r) ==
  /\ resolvers[r].pc = "select"
  /\ resolvers' = [resolvers EXCEPT ![r].pc = "check"]
  /\ UNCHANGED <<entries, cache, next, clients, asserted, told>>

ResolverDone(r) ==
  /\ resolvers[r].pc = "select" /\ resolvers[r].ch = Closed
  /\ resolvers' = [resolvers EXCEPT ![r].pc = "idle"]
  /\ UNCHANGED <<entries, cache, next, clients, asserted, told>>

\* checkLinkRequest finds its address resolving, and asks once more.
CheckAgain(r) ==
  /\ resolvers[r].pc = "check" /\ Has(resolvers[r].addr, "incomplete")
  /\ resolvers[r].attempt + 1 < Attempts
  /\ resolvers' = [resolvers EXCEPT ![r].pc = "select", ![r].attempt = @ + 1]
  /\ UNCHANGED <<entries, cache, next, clients, asserted, told>>

\* Mistake: the resolver gives up without a word.
CheckStopsSilently(r) ==
  LET k == resolvers[r].addr IN
  /\ resolvers[r].pc = "check"
  /\ Has(k, "incomplete") => resolvers[r].attempt + 1 >= Attempts
  /\ resolvers' = [resolvers EXCEPT ![r].pc = "idle"]
  /\ UNCHANGED <<entries, clients, asserted, cache, next, told>>

\* It was the last attempt, or there is nothing left to resolve.
CheckStops(r) ==
  LET k      == resolvers[r].addr
      fails  == Has(k, "incomplete")
      left   == Leaving(IF fails THEN {cache[k]} ELSE Expiring(k))
  IN  /\ resolvers[r].pc = "check"
      /\ fails => resolvers[r].attempt + 1 >= Attempts
      /\ entries' = IF fails THEN [entries EXCEPT ![cache[k]] = Changed(@, "failed")]
                    ELSE LookedUp(k)
      /\ resolvers' = [Shut(resolvers, left) EXCEPT ![r].pc = "idle"]
      /\ clients' = Shut(clients, left) /\ asserted' = Notified(left)
      /\ UNCHANGED <<cache, next, told>>

\* Time: the entry of k is past its age.
Aging(k) ==
  /\ Cached(k) /\ ~entries[cache[k]].old
  /\ entries' = [entries EXCEPT ![cache[k]].old = TRUE]
  /\ UNCHANGED <<cache, next, resolvers, clients, asserted, told>>

ResolverWork(r) == \/ ResolverTimeout(r) \/ ResolverDone(r)
                   \/ CheckAgain(r) \/ CheckStops(r)

LinkNext ==
  \/ \E x \in Answers : AnswerWaiting(x[1], x[2]) \/ AnswerNew(x[1], x[2])
  \/ \E c \in Clients, k \in Addrs : HandshakeAsks(c, k) \/ WriteAsks(c, k)
  \/ \E c \in Clients : \/ HandshakeWoken(c) \/ HandshakeAborts(c)
                        \/ WriteRemovesWaker(c) \/ WriteReady(c)
  \/ \E r \in Resolvers : ResolverWork(r)
  \/ \E k \in Addrs : Aging(k)

\* The resolvers are goroutines that nothing blocks but the cache's lock.
LinkFairness == \A r \in Resolvers : WF_linkVars(ResolverWork(r))

LinkSpec == LinkInit /\ [][LinkNext]_linkVars /\ LinkFairness

-----------------------------------------------------------------------------
\* Nothing that answers, attempts, ages and evictions do to an entry, in
\* whatever order they get the lock, is a transition that panics
\* (linkaddrcache.go:83).
LegalTransitions == \A i \in Ring : entries[i].s # "panic"

\* A goroutine works for entry i and its channel will tell it.
BeingResolved(i) ==
  /\ i # Closed /\ entries[i].s = "incomplete" /\ cache[entries[i].addr] = i
  /\ \E r \in Resolvers : /\ resolvers[r].pc # "idle" /\ resolvers[r].ch = i
                          /\ resolvers[r].addr = entries[i].addr

\* Nobody waits for an entry that no goroutine resolves: whoever sleeps on
\* its waker has been told or is in the set of such an entry, and whoever
\* waits for a channel waits for an open one of such an entry, although
\* entries are used again for other addresses at any time.
WaitersAreServed ==
  \A c \in Clients :
    /\ clients[c].pc = "waiting" =>
         \/ c \in asserted
         \/ \E i \in Ring : c \in entries[i].wakers /\ BeingResolved(i)
    /\ clients[c].pc = "channel" /\ clients[c].ch # Closed
         => BeingResolved(clients[c].ch)

\* What the cache answers is what was said last of that address, also when
\* it was said while an attempt was failing or the entry was expiring.
CacheIsCurrent ==
  \A k \in DOMAIN cache :
    /\ entries[cache[k]].addr = k
    /\ entries[cache[k]].s = "ready" => entries[cache[k]].linkAddr = told[k]

Untold(c) == \/ clients[c].pc = "waiting" /\ c \notin asserted
             \/ clients[c].pc = "channel" /\ clients[c].ch # Closed

\* Who waits for an address is told in the end: resolved, failed, expired or
\* evicted (the comment on wakers, linkaddrcache.go:42).
WaitersAreTold == \A c \in Clients : Untold(c) ~> ~Untold(c)

\* The safety of the cache, in one: no panic, nobody left waiting, and no
\* stale answer.
CacheIsSound == LegalTransitions /\ WaitersAreServed /\ CacheIsCurrent
=============================================================================
