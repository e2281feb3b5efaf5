------------------------------ MODULE NicAddress ------------------------------
(***************************************************************************)
(* The network endpoints of a NIC and the references to them: stack/nic.go *)
(* with the routes of stack/route.go, FindRoute and CheckLocalAddress of   *)
(* stack/stack.go, and the echo queue of network/ipv4.                     *)
(*                                                                         *)
(* An endpoint stands for one address.  It lives while its count of        *)
(* references is not zero: one for being inserted by AddAddress, one for   *)
(* each packet in HandlePacket and each route.  Counts are changed without *)
(* the NIC's lock, the map and the list under it, so that an endpoint may  *)
(* be found after its count has reached zero and before it has been taken  *)
(* from the map.  In promiscuous mode, or with spoofing, endpoints are     *)
(* made as they are needed; both modes are options that may change at any  *)
(* time, so a lookup may or may not find them set.                         *)
(***************************************************************************)
EXTENDS Integers, FiniteSets, Sequences, SequencesExt

CONSTANTS
  Locals,
  Objects,      \* referencedNetworkEndpoints, used again when nobody has them
  Threads,      \* goroutines that use the NIC
  EchoQueue,    \* capacity of echoRequests
  OwnerOnly     \* TRUE: an address is removed only by who has added it

\* No endpoint is the nil reference, and goroutines are finitely many.
ASSUME NicAssumption ==
  0 \notin Objects /\ IsFiniteSet(Threads) /\ EchoQueue \in Nat /\ OwnerOnly \in BOOLEAN

VARIABLES
  ref,       \* of each object: address, refs, holdsInsertRef, open
  map,       \* NIC.endpoints: the object of an address, or None
  primary,   \* NIC.primary[protocol]
  echo,      \* requests in the queue of an object, each with a route
  replier,   \* its echoReplier: "wait", "reply", "zero"
  thread,    \* of each goroutine its pc, address and object
  owned,     \* addresses that the application has added and not removed
  nicPanic

nicVars == <<ref, map, primary, echo, replier, thread, owned, nicPanic>>

None == 0
Resting == [pc |-> "idle", addr |-> None, obj |-> None]

NicInit ==
  /\ ref = [o \in Objects |-> [addr |-> None, refs |-> 0, holdsInsertRef |-> FALSE,
                               open |-> FALSE]]
  /\ map = [a \in Locals |-> None] /\ primary = <<>>
  /\ echo = [o \in Objects |-> 0] /\ replier = [o \in Objects |-> "wait"]
  /\ thread = [t \in Threads |-> Resting]
  /\ owned = {} /\ nicPanic = FALSE

\* Nobody has object o: it is garbage.
Unused(o) == /\ ~ref[o].open /\ echo[o] = 0 /\ replier[o] = "wait"
             /\ \A t \in Threads : thread[t].obj # o
Fresh == CHOOSE o \in Objects : Unused(o)
CanCreate == \E o \in Objects : Unused(o)

At(o, pc)  == {t \in Threads : thread[t].obj = o /\ thread[t].pc = pc}
Holding(o) == At(o, "holding")

Goto(t, pc, a, o) == thread' = [thread EXCEPT ![t] = [pc |-> pc, addr |-> a, obj |-> o]]

\* tryIncRef on the object of a succeeds: its count is not zero.
Alive(o) == o # None /\ ref[o].refs # 0

-----------------------------------------------------------------------------
(* The map, under the lock. *)

\* Mistake: whatever is in the map for the address goes.
RemovesByAddress(o) == map[ref[o].addr] # None

\* removeEndpointLocked does nothing if o has been replaced in the map.
Removes(o) == map[ref[o].addr] = o

\* ilist's Remove: the entry of o leaves the list, if it is in it.
Unlisted(o) ==
  IF o \in ToSet(primary)
  THEN RemoveAt(primary, CHOOSE i \in DOMAIN primary : primary[i] = o) ELSE primary

\* removeEndpointLocked: out of the map and the list, and closed.
Removed(o) ==
  /\ map' = IF Removes(o) THEN [map EXCEPT ![ref[o].addr] = None] ELSE map
  /\ primary' = IF Removes(o) THEN Unlisted(o) ELSE primary
  /\ ref' = IF Removes(o) THEN [ref EXCEPT ![o].open = FALSE] ELSE ref
  /\ nicPanic' = (nicPanic \/ (Removes(o) /\ ref[o].holdsInsertRef))

\* addAddressLocked: a new object for a, in the place of one whose count is
\* zero and whose removal is still to come.
Inserted(a, biased) ==
  LET o   == Fresh
      old == map[a]
  IN  /\ ref' = [x \in Objects |->
           IF x = o THEN [addr |-> a, refs |-> 1, holdsInsertRef |-> biased, open |-> TRUE]
           ELSE IF x = old THEN [ref[x] EXCEPT !.open = FALSE] ELSE ref[x]]
      /\ map' = [map EXCEPT ![a] = o]
      /\ \E front \in BOOLEAN :     \* FirstPrimaryEndpoint or the default
           primary' = IF front THEN <<o>> \o Unlisted(old) ELSE Append(Unlisted(old), o)
      /\ nicPanic' = (nicPanic \/ (old # None /\ ref[old].holdsInsertRef))

-----------------------------------------------------------------------------
(* The application. *)

\* AddAddress: an address that is in the map, for whatever reason, is a
\* duplicate.
AddAddress(a) ==
  /\ map[a] = None /\ CanCreate
  /\ Inserted(a, TRUE)
  /\ owned' = owned \cup {a}
  /\ UNCHANGED <<echo, replier, thread>>

\* RemoveAddress, under the lock: the reference of the insertion is given up.
RemoveAddress(t, a) ==
  /\ thread[t].pc = "idle"
  /\ OwnerOnly => a \in owned
  /\ map[a] # None /\ ref[map[a]].holdsInsertRef
  /\ ref' = [ref EXCEPT ![map[a]].holdsInsertRef = FALSE]
  /\ Goto(t, "dropping", a, map[a])
  /\ owned' = owned \ {a}
  /\ UNCHANGED <<map, primary, echo, replier, nicPanic>>

-----------------------------------------------------------------------------
(* Taking a reference. *)

\* The lookup under the read lock, of getRef and of findEndpoint; and if it
\* fails and the mode allows it, on to the lookup under the lock.
Lookup(t, a, next) ==
  /\ thread[t].pc = "idle"
  /\ IF Alive(map[a])
     THEN /\ ref' = [ref EXCEPT ![map[a]].refs = @ + 1]
          /\ Goto(t, "holding", a, map[a])
     ELSE /\ Goto(t, next, a, None)
          /\ UNCHANGED ref
  /\ UNCHANGED <<map, primary, echo, replier, owned, nicPanic>>

\* A packet for a arrives (getRef); FindRoute or CheckLocalAddress look for
\* the local address a (findEndpoint).
Receive(t, a) == Lookup(t, a, "receiving")
FindLocal(t, a) == Lookup(t, a, "finding")

\* Somebody else has made the endpoint meanwhile.
LookupAgain(t) ==
  LET a == thread[t].addr IN
  /\ thread[t].pc \in {"receiving", "finding"} /\ Alive(map[a])
  /\ ref' = [ref EXCEPT ![map[a]].refs = @ + 1]
  /\ Goto(t, "holding", a, map[a])
  /\ UNCHANGED <<map, primary, echo, replier, owned, nicPanic>>

\* findEndpoint makes the endpoint, without the reference of the insertion.
MakeSpoofed(t) ==
  LET a == thread[t].addr IN
  /\ thread[t].pc = "finding" /\ ~Alive(map[a]) /\ CanCreate
  /\ Inserted(a, FALSE)
  /\ Goto(t, "holding", a, Fresh)
  /\ UNCHANGED <<echo, replier, owned>>

\* getRef makes the endpoint, and unlocks before it takes back the
\* reference of the insertion.
MakeTemporary(t) ==
  LET a == thread[t].addr IN
  /\ thread[t].pc = "receiving" /\ ~Alive(map[a]) /\ CanCreate
  /\ Inserted(a, TRUE)
  /\ Goto(t, "made", a, Fresh)
  /\ UNCHANGED <<echo, replier, owned>>

TakeTemporary(t) ==
  /\ thread[t].pc = "made"
  /\ ref' = [ref EXCEPT ![thread[t].obj].holdsInsertRef = FALSE]
  /\ Goto(t, "holding", thread[t].addr, thread[t].obj)
  /\ UNCHANGED <<map, primary, echo, replier, owned, nicPanic>>

\* primaryEndpoint: the first of the list that is alive.
FindPrimary(t) ==
  /\ thread[t].pc = "idle"
  /\ \E i \in DOMAIN primary :
       /\ Alive(primary[i]) /\ \A j \in 1..(i - 1) : ~Alive(primary[j])
       /\ ref' = [ref EXCEPT ![primary[i]].refs = @ + 1]
       /\ Goto(t, "holding", ref[primary[i]].addr, primary[i])
  /\ UNCHANGED <<map, primary, echo, replier, owned, nicPanic>>

\* A forwarded packet looks its endpoint up under the lock and takes the
\* reference after it (DeliverNetworkPacket).
Forward(t, a) ==
  /\ thread[t].pc = "idle" /\ map[a] # None
  /\ Goto(t, "forwarding", a, map[a])
  /\ UNCHANGED <<ref, map, primary, echo, replier, owned, nicPanic>>

\* Mistake: the reference is taken without a look at the count.
ForwardAnyway(t) ==
  /\ thread[t].pc = "forwarding"
  /\ Goto(t, "holding", thread[t].addr, thread[t].obj)
  /\ ref' = [ref EXCEPT ![thread[t].obj].refs = @ + 1]
  /\ UNCHANGED <<map, primary, echo, replier, owned, nicPanic>>

\* An endpoint that has died meanwhile is passed over: the packet goes out.
ForwardDelivers(t) ==
  /\ thread[t].pc = "forwarding"
  /\ IF Alive(thread[t].obj)
     THEN /\ Goto(t, "holding", thread[t].addr, thread[t].obj)
          /\ ref' = [ref EXCEPT ![thread[t].obj].refs = @ + 1]
     ELSE thread' = [thread EXCEPT ![t] = Resting] /\ UNCHANGED ref
  /\ UNCHANGED <<map, primary, echo, replier, owned, nicPanic>>

-----------------------------------------------------------------------------
(* Giving a reference back. *)

\* decRef: who takes the count to zero removes the endpoint, a step later.
Drops(o) == ref' = [ref EXCEPT ![o].refs = @ - 1]

\* Release of a route, the end of HandlePacket, the end of RemoveAddress.
DecRef(t) ==
  LET o == thread[t].obj IN
  /\ thread[t].pc \in {"holding", "dropping"}
  /\ Drops(o)
  /\ IF ref[o].refs = 1 THEN Goto(t, "zero", thread[t].addr, o)
                        ELSE thread' = [thread EXCEPT ![t] = Resting]
  /\ UNCHANGED <<map, primary, echo, replier, owned, nicPanic>>

RemoveEndpoint(t) ==
  /\ thread[t].pc = "zero"
  /\ Removed(thread[t].obj)
  /\ thread' = [thread EXCEPT ![t] = Resting]
  /\ UNCHANGED <<echo, replier, owned>>

\* handleICMP: an echo request takes a clone of the route along, if the
\* queue has room; sending on the queue of a closed endpoint panics.
Echo(t) ==
  LET o == thread[t].obj IN
  /\ thread[t].pc = "holding" /\ echo[o] < EchoQueue
  /\ ref' = [ref EXCEPT ![o].refs = @ + 1]
  /\ echo' = [echo EXCEPT ![o] = @ + 1]
  /\ nicPanic' = (nicPanic \/ ~ref[o].open)
  /\ UNCHANGED <<map, primary, replier, thread, owned>>

\* echoReplier: a request is taken, answered, and its route released.
ReplierTakes(o) ==
  /\ replier[o] = "wait" /\ echo[o] > 0
  /\ echo' = [echo EXCEPT ![o] = @ - 1]
  /\ replier' = [replier EXCEPT ![o] = "reply"]
  /\ UNCHANGED <<ref, map, primary, thread, owned, nicPanic>>

ReplierReleases(o) ==
  /\ replier[o] = "reply"
  /\ Drops(o)
  /\ replier' = [replier EXCEPT ![o] = IF ref[o].refs = 1 THEN "zero" ELSE "wait"]
  /\ UNCHANGED <<map, primary, echo, thread, owned, nicPanic>>

ReplierRemoves(o) ==
  /\ replier[o] = "zero"
  /\ Removed(o)
  /\ replier' = [replier EXCEPT ![o] = "wait"]
  /\ UNCHANGED <<echo, thread, owned>>

NicNext ==
  \/ \E a \in Locals : AddAddress(a)
  \/ \E t \in Threads, a \in Locals :
       RemoveAddress(t, a) \/ Receive(t, a) \/ FindLocal(t, a) \/ Forward(t, a)
  \/ \E t \in Threads :
       \/ LookupAgain(t) \/ MakeSpoofed(t) \/ MakeTemporary(t) \/ TakeTemporary(t)
       \/ FindPrimary(t) \/ ForwardDelivers(t)
       \/ DecRef(t) \/ RemoveEndpoint(t) \/ Echo(t)
  \/ \E o \in Objects : ReplierTakes(o) \/ ReplierReleases(o) \/ ReplierRemoves(o)

NicSpec == NicInit /\ [][NicNext]_nicVars

-----------------------------------------------------------------------------
\* The count of an endpoint is the number of those who rely on it: the
\* goroutines in or on their way out of it, the requests in its queue and in
\* the hands of its replier, and the insertion.
RefsAreHolders ==
  \A o \in Objects :
    ref[o].refs = Cardinality(Holding(o)) + echo[o]
      + Cardinality(At(o, "dropping"))
      + (IF replier[o] = "reply" THEN 1 ELSE 0)
      + (IF ref[o].holdsInsertRef THEN 1 ELSE 0)

\* Who has a reference has an endpoint that is open and that the NIC finds:
\* it is not closed under a packet, a route or an echo request.
HeldIsOpen ==
  \A o \in Objects :
    (Holding(o) # {} \/ echo[o] > 0 \/ replier[o] = "reply") =>
      ref[o].open /\ map[ref[o].addr] = o

\* An address that was added and not removed is served, whatever goroutines
\* are still busy with an endpoint that had the address before: a late
\* removal does not take the new endpoint.
OwnedIsServed ==
  \A a \in owned : map[a] # None /\ ref[map[a]].open /\ ref[map[a]].holdsInsertRef

\* No endpoint is forgotten: one that is open is in the map and in the list,
\* once, and somebody has a reference or is about to remove it.
OpenIsFound ==
  /\ {o \in Objects : ref[o].open} = {map[a] : a \in Locals} \ {None}
  /\ ToSet(primary) = {map[a] : a \in Locals} \ {None}
  /\ Len(primary) = Cardinality(ToSet(primary))
  /\ \A o \in Objects : ref[o].open =>
       \/ ref[o].refs > 0 \/ replier[o] = "zero" \/ At(o, "zero") # {}

\* removeEndpointLocked finds no endpoint that is still inserted (nic.go:265),
\* and nobody sends to, or closes, a queue that is closed.
NicNoPanic == ~nicPanic

\* References are sound, in one: the count is right, so nothing is closed
\* under its user, nothing is forgotten, and nothing panics.
ReferencesAreSound == RefsAreHolders /\ HeldIsOpen /\ OpenIsFound /\ NicNoPanic
=============================================================================
