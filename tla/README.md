# A TLA+ model of the network stack

This directory is a verification development for the user-space network stack
in `src/` (Go): TLA+ modules translated from the code, TLC configurations that
check them on small instances, and theorems that TLAPS checks for every value
of the constants. `PROJECT.json` is the index: which definition models which
lines (`map`), what every run checks (`runs`), which change of the code breaks
every property (`mutants`), what can go wrong in this code and which property
would notice (`hazards`), and what is proved (`theorems`).

## 1. Inventory

The stack has no tests of its own and few comments; the code is the reference.

    application    Write / Read / Connect / Listen / Accept / Close
        |
    transport      tcp: endpoint + one worker goroutine     udp: endpoint
        |               (handshake, then protocolMainLoop)
        |          ports: PortManager      stack: TransportDemuxer (NIC, stack)
    network        ipv4, ipv6, arp, icmp; fragmentation; link address cache
        |
    link           fdbased (dispatch loop on a descriptor), loopback, channel
    helpers        pkg/sleep, pkg/tmutex, pkg/waiter, seqnum, buffer, ilist

| component | code | state it keeps | operations | meets the others by |
|---|---|---|---|---|
| TCP sender | `tcp/snd.go`, `reno.go` | write list with `writeNext`, `sndUna`, `sndNxt`, window, `cwnd`, fast recovery, timer | `sendData`, `handleRcvdSegment`, `resendSegment`, `retransmitTimerExpired` | run by the worker; fed by `handleWrite`/`handleClose` from the send queue of `Write` and `Shutdown` |
| TCP receiver | `tcp/rcv.go`, `segment_heap.go` | `rcvNxt`, `rcvAcc`, the heap of out-of-order segments and its account, the receive list | `handleRcvdSegment`, `consumeSegment`, `nonZeroWindow`, `Read` | run by the worker; `Read` runs in the application's goroutine and posts a notification |
| established connection | `tcp/connect.go` | batch counter, `lastAck` | `handleSegments`, handlers of `protocolMainLoop` | calls the sender and the receiver; the network carries segments |
| worker scheduling | `connect.go`, `endpoint.go`, `segment_queue.go` | send queue, segment queue, `notifyFlags`, three wakers, the work mutex | `Write`, `HandlePacket`, `notifyProtocolGoroutine`, the two loops | atomics, `tmutex`, `sleep` |
| mutex | `pkg/tmutex` | one atomic word and a channel of one | `Lock`, `TryLock`, `Unlock` | held by the worker between two sleeps, tried by `Write` |
| sleepers and wakers | `pkg/sleep` | `sharedList`, `localList`, `waitingG`; `Waker.s` | `AddWaker`, `Fetch`, `Done`, `Assert` | atomics only |
| port manager | `ports/ports.go` | reserved (network, transport, port, address) | `ReservePort`, `IsPortAvailable`, `ReleasePort` | called by `Bind`, `Connect`, `Close` |
| transport demuxer | `stack/transport_demuxer.go` | id to endpoint, per network and transport, in each NIC and in the stack | register, unregister, deliver | called by endpoints and by the NIC |
| UDP endpoint | `udp/endpoint.go` | `state`, `id`, `effectiveNetProtos`, registration, receive list | `Bind`, `Connect`, `Shutdown`, `Close`, `HandlePacket`, `Read` | port manager and demuxer |
| TCP endpoint | `tcp/endpoint.go` | the same, with `isPortReserved`, `isRegistered`, `workerRunning`, `workerCleanup` | `Bind`, `Connect`, `Listen`, `Shutdown`, `Close`, `cleanup` | as UDP, and the worker |
| sequence numbers | `seqnum/seqnum.go` | none | `LessThan`, `LessThanEq`, `InRange`, `InWindow`, `Add`, `Size` | used by all of TCP |
| TCP handshake | `tcp/connect.go` | `handshake`: state, `flags`, `iss`, `ackNum`, `active` | `synSentState`, `synRcvdState`, `checkAck`, `execute`, retransmission | run by the worker, or by a goroutine of the listener, before the main loop |
| TCP listener | `tcp/accept.go` | `synRcvdCount`, cookie nonces and epoch, the accept channel, the lock of the endpoint | `handleListenSegment`, `handleSynSegment`, `deliverAccepted`, `Accept`, `Close`, `cleanup` | a goroutine per SYN; demuxer for what it creates |
| waiter queue | `pkg/waiter` | list of entries with masks, a channel of one for each | `EventRegister`, `EventUnregister`, `Notify` | every endpoint notifies it after its own lock is released |
| link address cache | `stack/linkaddrcache.go` | ring of entries, map of addresses, `state`, wakers, channel | `add`, `get`, `removeWaker`, `startAddressResolution` | ARP answers; the handshake and UDP's `Write` wait |
| fragmentation | `network/fragmentation` | reassemblers by id, holes, heap of fragments, memory in use | `Process`, `process`, `release` | IPv4, from every NIC that dispatches |
| NIC and stack | `stack/nic.go`, `stack.go`, `route.go` | `endpoints` and `primary`, reference counts, `holdsInsertRef` | `AddAddress`, `RemoveAddress`, `getRef`, `FindRoute`, `DeliverNetworkPacket`, `decRef` | all |
| SACK blocks | `tcp/sack.go` | `SACKInfo` | `UpdateSACKBlocks`, `TrimSACKBlockList` | called by the receiver |
| timer | `tcp/timer.go` | `state`, `target`, `runtimeTarget` | `enable`, `disable`, `checkExpiration` | a goroutine of the runtime asserts its waker |
| keepalive | `tcp/connect.go` | `enabled`, `unacked`, the timer | `resetKeepaliveTimer`, `keepaliveTimerExpired` | worker; socket options of the application |
| CUBIC | `tcp/cubic.go` | window curve | | sender |

**What is hard in it.** Packets are lost, repeated and reordered, and nothing
below TCP promises anything else. An endpoint's state is touched by its
worker, by application goroutines and by the goroutine that delivers packets;
they share the work through a hand-written mutex and hand-written lock-free
queues of wakers, and every hand-over ("I could not take the mutex, but the
worker will see my chunk") is an argument over interleavings. The receiver
keeps books over buffers whose content is trimmed later. Windows close and are
reopened by a single segment. Ports and registrations live in two tables that
several half-finished calls of one endpoint may leave in disagreement. Nothing
is persisted: there is no crash recovery.

**What makes each component correct.**
Sender: no byte leaves the books before it is acknowledged; numbers are
ordered; something unacknowledged always has a timer; recovery ends.
Receiver: what is delivered is a prefix of the stream and is what is acked;
nothing that could be consumed waits; a reopened window is announced.
Connection: it is a byte stream, and with fair scheduling everything arrives.
Mutex and wakers: exclusion, no lost wake-up, nobody in two queues.
Worker: when it sleeps there is nothing it should have been told about.
Endpoints: tables agree with the endpoints' states; what is reserved stays
reserved and is given back.
Handshake: both ends know each other's numbers, also when segments of an
earlier attempt are about. Listener: every half-open connection is given back,
and a listener can be closed at any moment.
Link cache and wait queue: whoever waits is told. Timer: never early, never
forgotten. NIC: an endpoint lives exactly as long as somebody refers to it.
Fragmentation: what is delivered is the datagram, in bounded memory.

## 2. Modules

| module | models | what a step is |
|---|---|---|
| `TcpSegment` | `segment`: `seq`, `len`, `flags`, and `off`, the place in the stream where its payload really starts | |
| `TcpSender` | sender, with `Write`, `Shutdown`, `handleWrite`, `handleClose`, the timer, Reno | one pass of a loop of the code: one segment taken from the queue, popped, sent |
| `TcpReceiver` | receiver, with the batch loop, `Read`, `nonZeroWindow` | one segment handled, one pass of the draining loop |
| `TcpSenderAnyPeer` | the sender, facing arbitrary acks and a path that narrows | the peer acks any number with any window; a router drops what is too long and says so |
| `TcpReceiverAnyPeer` | the receiver, facing any cutting of one stream | the peer sends any segment of its stream, at any time, again |
| `TcpConnection` | both, over a network with faults | as above; one segment or ack delivered, lost, repeated |
| `ByteStream` | abstract: what one direction promises | `Put`, `End`, `Get` |
| `TcpSack` | the SACK blocks, on top of `TcpReceiverAnyPeer` | the steps of the receiver, each with what it does to the blocks |
| `SeqNum` | wrapping numbers, for any even size of their space | pure |
| `TcpHandshake` | one end of a handshake: its reaction to every segment | pure: a handshake is a record |
| `TcpActiveOpen` | endpoints that call `Connect`, and a faulty network | one segment handled, one (re)transmission, one loss |
| `TcpListener` | the listen loop, its goroutines, cookies, `Accept`, `Close` | one critical section, or one operation on the channel |
| `MCTcpOpen` | both: simultaneous open, or a client and a listener | |
| `TMutex` | `pkg/tmutex` | one atomic operation |
| `Sleeper` | `pkg/sleep` | one atomic operation |
| `TcpWorker` | the worker and the threads that hand it work; uses both | one atomic operation, or one segment or chunk taken under a lock |
| `PortManager` | `ports.go` | operators used in the steps of the endpoints |
| `TransportDemuxer` | both levels of the demuxer | the same |
| `TransportEndpoint` | what UDP and TCP endpoints share: id, addresses, networks | |
| `UdpEndpoint`, `TcpEndpoint` | life of an endpoint | one call, under the lock of the endpoint; `cleanup` of the worker |
| `TransportEndpoints` | several endpoints of one transport | |
| `MCEndpoint` | instance of `TcpWorker` and of `TransportEndpoints` | |
| `LinkAddrCache` | the cache, its resolution goroutines and its two kinds of clients | one critical section, one attempt or wait of a goroutine |
| `WaiterQueue` | `pkg/waiter`, with callers that wait as `cmd/tcp/main.go` does | one operation on a channel or under the lock; `Notify` one entry a step |
| `Deadline` | abstract: what a timer promises | set, clear, expire |
| `TcpTimer` | the lazy timer, its runtime timer and the goroutine that asserts | one call of the worker, one step of the runtime |
| `KeepAlive` | keepalive, on top of `TcpTimer` | one point of the worker at which it is touched |
| `MCServices` | instance of cache, queue and keepalive | |
| `NicAddress` | addresses of a NIC and the references to them | one critical section, one atomic operation on a count |
| `Fragmentation` | `Process` by several dispatchers | one critical section: of the fragmentation, of the reassembler, again of the fragmentation |
| `MCNetwork` | instance of both | |
| `*_proofs` | theorems | |
| `FiniteFolds` | lemmas: induction over finite sets, folds | |

Conventions. A byte of the stream is its number, so data is a range of numbers
and a segment under the wrong number is visible (`off # seq`). Numbers of the
connection are integers, starting at 1 (the number after the SYN); wrapping is
the subject of `SeqNum`, and the theorems there say when comparing wrapped
numbers is comparing integers. The handshake and the listener use wrapping
numbers, since there the initial numbers meet. A loop of the code whose intermediate states
other goroutines can see has a program counter (`sndPc`, `rcvPc`, `wpc`,
`spc`, `apc`, `mpc`, and the `pc` of a record for a goroutine that comes and
goes). Objects that the code allocates (reassemblers, network endpoints,
endpoints of a listener) are taken from a bounded pool and go back to it when
nobody can reach them any more. Each operation has the name of its function. Operators
that a comment introduces with "Mistake:" are not part of any specification:
each is a plausible error in the operation above it, and the run named in
`PROJECT.json` must fail when it takes that operation's place. They show that
the property depends on the code.

How the variables correspond: `writeList`/`writeNext`, `sndUna`, `sndNxt`,
`sndNxtList`, `sndWnd`, `sndCwnd`, `outstanding`, `fr` are the fields of `sender` and
`fastRecovery`; `rcvNxt`, `rcvAcc`, `pending`, `pendingBufUsed` those of
`receiver`; `rcvBufUsed`, `rcvd`, `rcvClosed`, `sndQueue`, `sndBufUsed`,
`sndClosed` those of `endpoint`. `written`, `overtaken`, `held`, `refused`,
`opened`, `owned`, `unheard`, `ignored` and `reported` are history that no code
keeps; `rcvd` is the receive list together with what the
application has already read. `lst` gathers the fields of a listening endpoint, `thread[t]` the
place of a goroutine in the NIC and what it holds, `ref[o]` a
`referencedNetworkEndpoint`, `entries`/`next`/`cache` the ring and the map of
the link address cache.

Three MC modules instantiate components that share no state: a variable `part`,
chosen initially, says which one moves. That keeps one configuration for one
layer; it composes nothing, and a property of one part is checked in the
behaviours of that part. Where components do interact they are composed:
sender, receiver and network in `TcpConnection`; mutex and wakers in
`TcpWorker`; ports, demuxer and both kinds of endpoints in
`TransportEndpoints`; client, network and listener in `TcpListener`; receiver
and SACK in `TcpSack`; keepalive and timer in `KeepAlive`.

## 3. Runs

| run | question | bounds, and why they are enough |
|---|---|---|
| `recv_any` | does the receiver deliver a prefix, keep its books, report sound SACK blocks and reopen its window, whatever arrives? | 4 bytes, buffer of 4, window in units of 2, two segments a batch, one or two SACK blocks: heaps of several overlapping segments, a window that rounds down to zero, blocks that are dropped because there are too many, FIN with and without data, resets |
| `send_any` | does the sender keep its list, its timer and its recovery in order, whatever is acked? | 3 bytes, segments of 2, a window of 1 that becomes 0 or 2, two duplicates to start recovery, one doubling of the timeout, two "packet too big" messages: splitting by window and by path, partial acks, acks beyond what was sent, timeouts inside recovery, a path that narrows in any of these |
| `send_partial_ack` | *violated*: is what goes out labelled with its own number? | as above |
| `conn_safety` | does a connection implement `ByteStream`, and do the two sides' books agree? | 3 bytes in segments of up to 2, buffer of 2, one fault: a loss, a repetition, a lost ack or a premature timeout, with acks in any order |
| `conn_live` | does everything written arrive, and does a closed connection end? | 2 bytes, buffer of 1 so that the window closes after each; one lost or repeated data segment |
| `conn_update_lost` | *violated*: the same with one lost ack | as above |
| `open` | do the two ends of an opening agree, and does a listener give back what it took and close when told to? | 16 numbers that wrap, two initial numbers for each host, a network of two segments; one half-open connection before cookies, two epochs, two endpoints of the listener at a time; backlog 0 or 1. Three starting points: two hosts that connect to each other; two attempts of a client on the same ports within an epoch; one attempt over two epochs with no room in the channel |
| `open_close_stuck` | *violated*: does `Close` of a listener return? | as above |
| `endpoints` | is the hand-over between threads and worker sound, down to the atomic operations? do port table, demuxer and endpoints agree? | two threads, four calls, a queue of two segments, a batch of one: a batch overflows, the mutex is contended, notifiers meet, `Done` meets an `Assert`. Two endpoints of either family, a fixed and an ephemeral port, three peers on two networks: every clash of addresses, wild cards and families between two endpoints |
| `endpoints_port_leak` | *violated*: is what an endpoint reserved given back? | as above |
| `services` | is whoever waits for an address or an event told? is the lazy timer a deadline, and keepalive neither deaf nor hasty? | two addresses in a ring of two with one client and two resolvers of two attempts, so that an entry expires, is evicted while it is being resolved and is used again; two waiters, two notifiers, two events, overlapping masks; six units of time, two probes |
| `network` | do references keep an endpoint of a NIC alive exactly as long as it is used? is a datagram delivered intact, in bounded memory, and its reassembler released once? | one address, three goroutines, four objects: an endpoint is found while it is being removed, and a new one takes its address before. Two datagrams of three units in overlapping cuts, two dispatchers, a limit of three units: a reassembler is evicted, or completed, while another dispatcher is inside it |

Deadlock is not checked in any run, because in all of them the system may stop:
calls, faults, bytes and time are bounded, and a connection, a closed endpoint
or a closed listener ends.

### Properties worth reading

- `StreamSpec` (conn_safety): every step of two endpoints of this stack over
  a faulty network is a step of `ByteStream` or leaves it alone.
- `NothingForgotten`: the write list and the send queue after it are exactly the
  unacknowledged rest of the stream, each byte once and in order, whatever was
  split, trimmed, popped and reset.
- `CloseIsComplete`: the condition on which the main loop ends
  (`connect.go:991`) implies that the peer has everything.
- `WindowRespected`: a sender of this stack never overruns the buffer, unless
  an ack was overtaken by a later one. The exception is real: the sender takes
  the window of every ack (`snd.go:358`), so an old one widens it.
- `WindowReopens`: `Read`, in its own goroutine, decides by a window that the
  worker changes; a zero window that was announced and is open again always
  has a notification posted.
- `StallsOnlyOnWindow`: with nothing in flight only the peer can stop the
  sender, never its own congestion window. The exception, a path that has
  narrowed, is real (see below).
- `NothingLeftBehind`: while the worker sleeps no chunk, segment or flag lies
  there unseen.
- `RegistrationsMatch`: an endpoint is found under exactly the id it has, on
  exactly its networks, also after a call that failed half way.

- `LongIsSentAgain`: once the worker knows what the path carries, nothing
  longer counts as sent, whatever acks, timeouts and messages come.
- `SackIsSound`: a SACK block claims only bytes that wait in the heap (or that
  the code reports although it had no room for them); blocks lie apart, also
  after a segment has bridged several of them, and are no more than
  `MaxSACKBlocks`. At every step, not only after a batch.
- `OpenersAgree`, `ServerAgrees`: whoever completes a handshake does so with
  numbers that the other side chose for it. Segments of an earlier attempt may
  not complete a new one.
- `GivenBack`: the count of half-open connections is that of the goroutines that
  have one, on every path; and the one of two endpoints for a client that lost
  the registration does not take it away from the other when it is closed.
- `DeliversToListener`, `CloseEnds`: an endpoint that completes while its
  listener is closed meets an open channel or is closed itself; and when the
  lock can be had, closing ends and leaves nobody behind in the channel.
- `CacheIsSound`: whatever order attempts, answers, ageing and eviction take, no
  transition is one that panics, and the map and the ring agree.
- `WaitersAreTold`, `WaitersWake`: nobody waits for ever for an address that is
  resolved, given up or evicted, or for an event that has come.
- `DeadlineSpec`: the lazy timer, with a runtime timer that runs on after it was
  disabled, is a step-by-step implementation of `Deadline`: never early, and a
  wake for an old target reports nothing.
- `KeepaliveIsSound`: a silent peer is noticed, and given up only after as many
  unanswered probes as configured.
- `ReferencesAreSound`, `OwnedIsServed`: an endpoint is closed exactly when the
  last reference goes, nobody uses it after that, and the removal of an old one
  leaves the new one at its address alone.
- `DatagramIntact`, `MemoryIsBounded`, `ReleasedOnce`: a delivered datagram is
  the one that was sent; no reassembler is released twice, also when it was
  found by one dispatcher and evicted by another, and the memory in use is never
  counted too low.

### Fairness

Safety runs assume none. `conn_live` and `conn_update_lost` use `FairSpec`:
weak fairness of `SenderStep` and `ReceiverStep` (the workers are goroutines
that loop until the connection ends, and the handlers they run do not block),
of `Timeout` (an armed Go timer fires), of `DeliverSegment` and `DeliverAck`
(what the network does not lose it delivers; losses are bounded by
`MaxFaults`), and of `AppRead` (the application keeps reading). Nothing makes
an application write or shut down. In these two runs a timer fires only when
nothing is on its way, since a network slower than every timeout delivers
nothing to anybody. Each fault is also a choice the system need not make, so
the fault-free behaviours are included.

`services` uses `LinkFairness`, weak fairness of the goroutine of each
resolution (it sleeps for a bounded time and takes a mutex that nobody keeps),
and `WqFairness`: weak fairness of a notifier that is inside `Notify` and of a
waiter that is to block or has a token. Nobody has to ask, answer or make an
event. Lost ARP answers are behaviours in which the answer never comes.
`open` uses `ListenFairness`: weak fairness of the listen loop, of the rest of a
`Close` that was begun, and of a delivery to the accept channel that can
proceed. There is none for clients, the network, or `Accept`. `CloseEnds` says
what then follows once no delivery is stuck; `CloseReturns`, without that
proviso, is violated.

### Disagreements between the code and what it says

Four runs end in a counterexample:

1. `send_partial_ack`. When an ack covers part of a segment its payload is
   trimmed and its number is not moved (`snd.go:399`): the rest is sent again
   under the number of what was acked. A receiver of this stack acks whole
   segments, which is why `StreamSpec` holds all the same.
2. `conn_update_lost`. The ack that reopens a window is sent once and nothing
   probes a zero window (`rcv.go:61`): lost with nothing in flight, it stops
   the connection for good.
3. `endpoints_port_leak`. A UDP endpoint bound to every address releases, after
   `Connect`, the address of its route (`udp/endpoint.go:533`): the reservation
   that `Bind` made stays.
4. `open_close_stuck`. `deliverAccepted` sends into the accept channel with the
   lock of the listener held for reading (`accept.go:242`). When the channel is
   full `Close` waits for the write lock, and `Accept`, the only one that could
   make room, waits behind it.

Others were met while modelling. They are in the model as the code has them,
without a run of their own.

Sender and receiver:

- When a path narrows, `updateMaxPayloadSize` takes `writeNext` back to the
  first segment that is too long and subtracts the messages from `outstanding`
  (`snd.go:196`); `sendData` then counts everything from there a second time
  (`snd.go:289`). What is counted too much stays counted when nothing is in
  flight any more, and once `sndCwnd` is no more than that (it is reduced after
  an idle time, `snd.go:230`) the sender stops for good with no timer running.
  `StallsOnlyOnWindow` excepts a path that has narrowed; without the exception
  TLC finds the stall in `TcpSenderAnyPeer` with `InitialCwnd = 1`,
  `StreamBound = 6`, `SndBufSize = 6`, `MaxTooBig = 1`, `MaxBackoff = 0` and a
  constant window of 9.
- The heap of out-of-order segments is charged a segment's whole length
  (`rcv.go:155`) and refunded what is left after its front was trimmed
  (`rcv.go:183`): overlapping segments leave a debt, and in the end an empty heap
  refuses every segment. `PendingCovered` is the half that holds.
- A SACK block is reported also for a segment that was refused for lack of room;
  `SackIsSound` says so.
- A FIN that waits in the heap and is next is skipped (`rcv.go:176`, a length of
  zero minus one wraps), and the peer must send it again; after the FIN the
  receiver answers nothing, not even the FIN repeated (`rcv.go:135`).
- A segment that overlaps the end of the window moves `rcvNxt` past `rcvAcc`
  (`rcv.go:45`).

Endpoints and opening:

- A second `Connect` of a UDP endpoint to the peer it already has releases its
  own port (`udp/endpoint.go:809`), which is why the reservations are checked for
  TCP only (`TcpReservationsAreKept`); a failed `Connect` of a TCP endpoint
  leaves the id changed (`tcp/endpoint.go:369`).
- An ACK of an earlier attempt that is still a good cookie makes a connection
  that its client does not have; the client of an endpoint that is closed before
  it was delivered is not told (`n.Close` sends nothing).

Services and network layer:

- `keepaliveTimerExpired` returns before it looks at the timer when the option is
  off (`connect.go:751`). The timer then believes that its runtime timer still
  runs, and the next enable starts none: `KeepaliveArmed` excepts that history.
- `getRef` makes an endpoint under the lock and clears `holdsInsertRef` after it
  (`nic.go:428`), so a `RemoveAddress` in between gives up the reference that
  `getRef` keeps. The run lets only the owner of an address remove it
  (`OwnerOnly`); with `FALSE`, `ReferencesAreSound` is violated.
- `AddAddress` of an address that exists leaves the goroutine of the echo replier
  it has made behind.
- Two dispatchers that complete one datagram: the second finds nothing missing
  and an empty heap, and takes from it (`fragPanic = "empty"` ends a behaviour).

Outside the model: `protocol.go:90` answers only what does not parse; a short
frame ends the dispatch loop (`fdbased/endpoint.go:180`); after `notifyReset` the
main loop goes on (`connect.go:926`); datagrams without payload are queued
without limit (`udp/endpoint.go:861`); there is no TIME_WAIT; pieces of two
datagrams under one fragment id are reassembled together.

## 4. Proofs

TLC checks the instances above. The following holds for all constants that
satisfy the named assumptions of the modules.

**Receiver** (`TcpReceiverAnyPeer_proofs`, from `ReceiverAssumption` and
`StreamAssumption`: sizes are naturals, not zero where the code divides by them).
For every buffer, scale, batch and stream, against every cutting and order of
segments: `ReceiverInOrder`, `ReceiverAckMatchesData`, `ReceiverClosedAtEnd`,
`ReceiverLeavesNothing` (`NothingLeftWaiting`), `ReceiverPendingCovered`,
`ReceiverWindowReopens` and `ReceiverType`. The inductive invariant is

    RcvInv(n) == RcvTypeOK /\ PendingOfStream(n) /\ InOrder
                 /\ AckMatchesData /\ Within(n)

for a stream of n bytes, and `AnyStreamInv` adds the three below. `n` is a
parameter because in `TcpConnection` the stream is what was written so far.
`InOrder` alone is not inductive: a step out of the heap appends a segment that
arrived long before, so the invariant must say that what waits is a piece of
the stream (`PendingOfStream`), and that the number expected is the length of
what was delivered (`AckMatchesData`), or trimming the segment to that number
would not fit it to the end. `ConsumeStep`, `TrimmedOfStream` and
`PrefixExtends` are the lemmas about one consumed segment; then there is one
lemma per operation.

`WaitInv` is `NothingLeftWaiting` extended to the batch: a new segment that is in order
starts the draining loop, any other is not consumable when it is added, and the
loop ends only when its first element, which has the least number, cannot be
consumed. `PendingCovered` bounds a sum over the heap. A sum would need
induction over the heap; instead `AccountInv` says that there is a function
`f` (an account) in which every segment is charged at least its length, and that
each of the heap's operations leaves one (`AccountAppend`, `AccountRemove`).
`ReopenInv` relates three things that two goroutines change apart: what was
acked last, the window announced then (`rcvAcc - rcvNxt`), and the notification
of `Read`; `WindowReopens` follows because the worker waits only after the ack
that ends a batch.

**SACK blocks** (`TcpSack_proofs`, from `SackAssumption`, that at least one block is
kept, and the assumptions of the receiver). `ReceiverSackIsSound`
(`SackIsSound`): for any stream, order and overlap of segments, and any number
of blocks. The inductive invariant is `AnyStreamInv` with

    SackInv == SackIsSound /\ blocks and what was refused are of the stream
               /\ (while the heap is drained, blocks lie beyond what was delivered)

(written out in the module). The last part is about a segment in the heap that the
loop skips, because all of it has been delivered meanwhile: it leaves the heap
without the blocks being trimmed, so no block may claim any of it. They lie
beyond. `SackRefines` says that the blocks leave the receiver alone
(`SackSpec => AnyStreamSpec`), so that its invariant can be used. The two loops of
`sack.go` are left folds over the blocks. `MergedWell` and `TrimmedWell` say
what they have made of the blocks at some of the positions; `AbsorbWell` and
`ShrinkWell` are the step of each, `LeftFoldKeeps` the conclusion for all. A
block that the first loop kept must still be apart from the new one after that
has grown: `HullIs` shows it from the blocks having been apart before, which is
why being apart and being honest have to be proved together.

**Sender** (`TcpSenderAnyPeer_proofs`, from `SenderAssumption` and
`PeerAssumption`: sizes are naturals, positive where the code divides by them or
cuts segments to them). `SenderKeepsTheStream` (`NothingForgotten`),
`SenderTimerArmed`, `SenderRecoveryEnds`, `SenderSendsLongAgain`,
`SenderStallsOnlyOnWindow` and `SenderTypeCorrect`: against any acks with any
windows, any path that narrows any number of times, and for any stream. The
inductive invariant is

    SndInv == SndTypeOK /\ ListInv /\ QueueInv /\ DataInv /\ NumberInv
              /\ CountInv /\ TimerArmed /\ RecoveryEnds /\ LongIsSentAgain

`NothingForgotten` speaks of the list and the queue end to end, which no step
keeps by itself. The invariant says of each apart that its segments lie end to
end between two numbers (`Tiles`): the list from `sndUna - job.left`, which
moves as the loop of an ack pops, to `sndNxtList`; the queue from there to what
was written. A pop must not go past what was sent, so a segment is sent whole or
not at all (`InList`), which a split keeps because both pieces get numbers of
their own, and a partial ack keeps although it leaves a wrong number behind
(`s.seq <= s.off`, not `=`: see `send_partial_ack`). Only the FIN has no payload,
and it can only be last, because no byte written is behind it (`DataInv`). For
`StallsOnlyOnWindow` the count of what is outstanding is bounded by what precedes
`writeNext` (`CountInv`): that is where the exception for a narrowed path enters.
The lemmas about lists (`TilesTail`, `TilesConcat`, `SplitTiles`, `TilesOne`) say
what popping, taking the queue, splitting and trimming do; then there is one
lemma per operation of the sender, for any number and any window.

**Connection** (`TcpConnection_proofs`, from the assumptions above and
`ConnectionAssumption`: the first window is no larger than the buffer of the
receiver that announced it). For any number of faults, early timeouts, any order
of segments and acks, any stream, buffers and paths: `ConnectionIsStream`
(`Spec => StreamSpec`), `ConnectionAcksReceived` (`AckedIsReceived`),
`ConnectionCloseIsComplete`, `ConnectionWindowRespected` and the action property
`ConnectionNeverBack`. The inductive invariant is

    ConnInv == SndInv /\ LabelInv /\ WireInv /\ CloseInv /\ TakenInv /\ AckInv

`SndInv` and `RcvInv(written)` are taken over from the two halves. What joins
them is `Sent`: a segment on the wire or in the heap is a piece of what was
written, under its own number, and ends where a segment of the write list ends
or before the list. Without the last part (`IsBoundary`) the invariant is false
to the code: an ack in the middle of a segment would make the sender trim it and
send the rest under a wrong number. The receiver takes whole segments and acks
where they end, a retransmission may cut a segment, which only adds ends, so
every ack that can come back is at such an end. For the refinement
a step that consumes is a `Get`, with the bytes `rcvd'` that `InOrder'` fixes,
bounded by `Within(written)'`; `Write` and `ShutdownWrite` are `Put` and `End`;
all other steps leave the stream alone. For the window

    WindowInv == overtaken \/ (SendWindow /\ BufferFits)

is added: the sender's edge is at or before the receiver's, data sent ends there
(a FIN may not), acks that are on their way are in order, and the room announced
and the room used make up the buffer. An ack that overtakes another breaks the
first part: the code takes the window of any ack.

**NIC** (`Network_proofs`, from `NicAssumption`: goroutines are finitely many
and no endpoint is nil). For any number of addresses, endpoints and goroutines
and any length of the echo queue: `NicReferencesAreSound` (`ReferencesAreSound`)
and `NicOwnedIsServed` (`OwnedIsServed`), both under `OwnerOnly`, which is about
the caller, not the NIC: without it both the model and the code go wrong, as
said in section 3. The inductive invariant is

    NicInv == NicTypeOK /\ RefsInv /\ MapInv /\ ListInv /\ LifeInv
              /\ MadeInv /\ OwnedIsServed /\ NicNoPanic

A right count alone is not inductive. `LifeInv` says that an open endpoint
without references has somebody on the way to remove it, and that one on its way
out has none and gets none: `tryIncRef` refuses it. `MapInv` and `ListInv` say
that map, list and open endpoints agree at every step, so that a late removal
finds either its own endpoint or another's, never a closed one. `MadeInv` is
about the step of `getRef` outside the lock: the reference of its insertion is
nobody else's until it is taken back. The count is a sum over sets of
goroutines; `StepCount` and `UsesCount` say how their cardinalities change when
one goroutine moves, and `ListWithout` and `ListWith` what the list of primary
endpoints is after a removal and an insertion.

**Fragments** (`Network_proofs`, from `FragAssumption`: the limits are as
`NewFragmentation` leaves them, a cut is at least a unit of the datagram, there
are finitely many datagrams and goroutines, and always another reassembler to be
had). For any number of datagrams and goroutines, any length, cuts and limits:
`FragDatagramIntact` (`DatagramIntact`), `FragReleasedOnce` (`ReleasedOnce`) and
`FragMemoryIsBounded` (`MemoryIsBounded`). The inductive invariant is

    FragInv == FragTypeOK /\ BooksInv /\ SizeInv /\ DataInv /\ DatagramIntact

`BooksInv` says that map, list and marks agree: in both, and once, is what is
not done; and that a goroutine between its two sections either has the
reassembler of its own datagram or one that is done. `SizeInv` is the account:
the memory charged and the memory that is yet to be charged cover what the live
reassemblers hold; and the memory charged is within the limit, or all that is
held is yet to be charged. The second half is what eviction leaves behind. It
gives the bound once nobody is in `Process`, and it is not the bound itself:
while fragments wait to be charged, more than the limit may be held. `DataInv`
says that each unit of a datagram is missing or there until nothing is missing,
and that the heap is empty after that. `HolesCover` is the step of
`updateHoles`; `ReassembledDense` says that popping the fragments in the order
of their offsets, ties in any order, and trimming their fronts gives every unit
once, if none is missing before the end of one.

The size held is a sum over a set of reassemblers and `reassemble` a fold over a
set of fragments, so that both need induction over data. The induction theorems
of the library cannot be used (they take an operator), so it is done with sets,
in `FiniteFolds`, which serves the SACK blocks too: `NaturalsByStep` and `SubsetsByElement` say that a set that is closed under a
step is all of the naturals, or all subsets of a finite set; `FoldExists`, that
there is a function that obeys the recursion of a fold, which `CHOOSE` then
gives; `SumStep`, `SumOfPart` and `SumSame` are what the account uses.

**Link address cache** (`Network_proofs`, from `LinkAssumption`: the ring
has an entry, goroutines are numbers, and what is said is said of an address).
`CacheStaysSound` (`CacheIsSound`), for any ring, number of attempts, clients,
goroutines and answers. The inductive invariant is

    LinkInv == LinkTypeOK /\ LiveInv /\ ResolverInv /\ ClientInv /\ CacheIsCurrent

That nobody waits for an entry that no goroutine resolves is not inductive: a
goroutine that gives up looks its entry up by address, while clients and the
goroutine hold a channel of an entry, which may have been used again. `LiveInv`
says that an entry that is being resolved is the one in the map and has a
goroutine with its open channel; `ResolverInv`, that an open channel is that of
such an entry for the address its goroutine works on, so that the entry found by
address is the goroutine's own whenever it has anybody waiting. `ClientInv` says
the same of clients, already while `Write` has not removed its waker. `PutFacts`
says what using an entry again leaves of all this, `SameCache` what any other
change of state does; the rest is one lemma per operation.

**Worker, wakers and mutex** (`TcpWorker_proofs`, from `WorkerAssumption`: the
worker and any set of threads, the two sleepers and the three wakers of the
code; any number of calls, notifications, sizes of queue and batch).

`MutexExcludes` and `MutexWakes` are about the mutex alone, for any set of
processes: `MutexInv == MutexTypeOK /\ WordTellsHeld /\ MutualExclusion`, where
`WordTellsHeld` says that the word is 1 exactly when nobody is inside, and
`SomebodyWillPost`, carried over each step by `WillPostStep`. `WorkMutexExcludes`
and `WorkMutexWakes` say the same of the worker and the writers, whose steps are
steps of the mutex (`NextUsesMutex`).

`WakersQueuedOnce`, `NoWakeupIsLost` and `WorkerLeavesNothing` have one invariant,

    WorkerInv == SleepTypeOK /\ ProgTypeOK /\ StoreInv /\ HookInv /\ PhaseInv
                   /\ ListInv /\ WaitInv /\ SleepInv /\ WorkInv

None of the three is inductive. A waker that is in one list today can be in two
tomorrow if somebody else asserts it, so `StoreInv` says what a waker's word has
to do with where it is: what is in a list or in an asserter's hands is asserted
and belongs to the sleeper in use, all that is hooked is either with its sleeper
or so held, what `Done` waits for is held, and nothing is held twice. `HookInv`
and `PhaseInv` say which wakers are hooked while the worker adds, uses and
removes them; without them a waker could be added while the old sleeper still
has it. `SleepInv`, on the way to sleep, is the argument of announce, look again,
sleep: the list is empty, or the sleep has been called off, or an asserter has
yet to look. `WorkInv` ties the queues to the wakers: what is in a queue has a
waker that is asserted, about to be, or in the worker's hands. There is one lemma
for each step of `Assert`, `Fetch` and `Done` (`StorePush` and `PushCasStep`,
`PullStep` and `TakeStep` carry the lists) and one for each kind of step of the
worker; `WorkSame` and `HandlerPending` do the queues.

**Timer and keepalive** (`TcpWorker_proofs`, from `TimerAssumption` and
`KeepAliveAssumption`: durations are positive, and the idle time and the
interval are among them). `TimerImplementsDeadline` and
`KeepaliveTimerImplementsDeadline` are refinements, `TimerSpec => DeadlineSpec`
and `KaSpec => DeadlineSpec`: every step of the lazy timer is a step of
`Deadline` or leaves it alone. That a disabled timer reports nothing needs
`OneWake`: at most one wake is on its way, after its time, and none to a timer
that is disabled. Each operation has a lemma for the invariant and one for the
step of `Deadline`; the steps of keepalive are then shown to be steps of the
timer (`KaStep`), but for the wake that the code ignores. `TimerWakes` shows
that the worker need not look at a timer but when woken. `KeepaliveSound` is
`KeepaliveIsSound` for all counts and times, with `KaInv` (no probe is counted
that was not sent since the last segment; an idle connection with keepalive on
has an enabled timer).

**Ports and registrations** (`TransportEndpoints_proofs`, from `PortAssumption`
and `EndpointAssumption`: ports are positive numbers, ephemeral ones among them,
and a peer is on one of the two networks). For any endpoints, addresses and ports
`TcpPortsAreKept` (`TcpReservationsAreKept`) and `EndpointsAreRegistered`
(`RegistrationsMatch`, for UDP and TCP). The inductive invariant is

    EpInv == EpTypeOK /\ UdpTypeOK /\ TcpTypeOK /\ RegInv
             /\ (transport = "udp" => UdpInv)
             /\ (transport = "tcp" => TcpInv /\ HeldInv /\ ReservationsAreKept)

`RegInv` adds to `RegistrationsMatch` that no two endpoints claim the same entry
(`Apart`). Without it taking out the entries of one endpoint might take out
another's; with it each change is one of three (`TakeOut`, `PutIn`, `Unmoved`).
`HeldInv` says what an endpoint releases: its reservation is for its present
address or, since `Connect` may have chosen another address after an automatic
bind, for every address. The port is never changed while it is held.
`FreeIsApart` is the port manager's part: what it finds free clashes with
nothing. For UDP no such theorem holds, as said in section 3: there `Close`
releases what was not reserved.

**Listener** (`TransportEndpoints_proofs`, from `ListenAssumption`: the server is a host,
0 names no connection, the threshold is a number). For any hosts that connect at any time, any
backlog and threshold, and any segments that a host may have sent:
`ListenerGivesBack` (`GivenBack`) and `ListenerChannelIsEmptied`
(`DeliversToListener`). The inductive invariant is

    LstInv == WireInv /\ ConnInv /\ OwnerInv /\ CountInv
              /\ ChannelInv /\ CloseInv /\ LoopInv /\ DeliversToListener

Neither property is inductive. A closed listener resets what is in the channel,
and one endpoint that were in it twice would be cleaned up twice, hence
`ChannelInv`. The loop delivers one endpoint at a time (`LoopInv`); with two on
their way the second delivery would set a loop running that has ended since.
`CloseInv` says where the application and the loop are on the way to the end:
the loop ends only when told to, and the listener listens until it is cleaned
up. The count is a cardinality; `CountOf` says what becomes of it when one
connection moves.

**Two hosts that connect to each other** (`TransportEndpoints_proofs`, from
`OpenAssumption`: a host connects to another host, and each attempt has a number
of its own, for which the code relies on `rand`). For any hosts, any number of
attempts and any loss, repetition and reordering: `TwoOpenersAgree`
(`OpenersAgree`). The inductive invariant `OpenInv` says of every segment in
the network which attempts it is from (`SegInv`), of every host that its numbers
are those of its present attempt and of one its peer has made (`HostInv`), and,
for each pair of hosts, two things about who has heard whom. `Heard` collects the
evidence for that: a segment, or the state of a host.

- `OneInv`: an attempt hears one attempt of the peer. It is needed because
  `synRcvdState` does not compare the sequence number of an ack without SYN: the
  ack alone has to show that it is from the attempt that the host has heard.
- `OrderInv`: when an attempt has heard attempt `l` of the peer, no attempt
  before `l` has heard a later one of this host. Without it each host might be
  connected to a past attempt of the other.

**A listener and its clients** (`TransportEndpoints_proofs`, from
`OpenAssumption`, `ListenAssumption` and `CookieAssumption`: two epochs do not
give two attempts of a client the same cookie, for which the code relies on
its hash). For any hosts, which connect to the listener or to one another at any
time, any attempts, endpoints, backlog and threshold: `ListenerAgrees`
(`ServerAgrees`), where the server itself does not connect from the port it
listens on. Its inductive invariant is `SrvInv` together with `LstInv`. A
client acks only what it has completed (`ToServer`), and the listener answers
only a number of the client, with a cookie for it (`FromServer`); whoever has
ports is registered for them (`PortsInv`). So an ack names a handshake that
some attempt of the client completed, and `CookieTells` makes it the attempt
that this endpoint of the listener answered.

**Sequence numbers** (`TransportEndpoints_proofs`, for any even number of numbers).
`LessThanAgrees`, `InRangeAgrees`: on integers less than half the space apart
(one lap, for ranges) the wrapped comparisons are the integers' own. This is
what justifies plain integers in the TCP modules; the lemmas are about `%`.

Only model-checked: liveness (fairness and ENABLED are beyond the prover), and
what recursively computed values are for every input (induction over data is
too, but for the sums and folds above).

## 5. Not modelled

In the modelled components: timestamps; options of the handshake and data in it; the cap of 0xffff on an unscaled
window; changing a buffer's size; the reset that `Shutdown` of the read side
sends when data is unread; `drain` and restoring (save and restore of a whole
stack); `v6only`; UDP sockets bound to one NIC; sending datagrams and
multicast; a second `Listen`, which resizes the accept channel; the answer to a
segment without an endpoint; `Fetch` without blocking, `Clear` and `IsAsserted`
of the wakers; subnets, the route table and the demultiplexing of protocols by
the NIC, which are lookups in tables that are set up once; the rest of ARP and
ICMP, which keep no state. The random nonces of the cookies are a given sum for
each epoch, so that a forged cookie is not considered. Fragments under one id
are of one datagram: the id of a datagram is only 16 bits and a sum over the
addresses, and with pieces of two datagrams the code reassembles a mixture.

Whole components: CUBIC (floating point over wall-clock time); headers and
checksums (no state); link endpoints and commands (system calls); buffers and
lists (sequential containers whose effect is in the modules that use them).

## 6. Plan

What is left, the most important first:

1. `Shutdown` with unread data: `notifyReset` and a main loop that goes on.
2. The successor of a connection under the same id, without TIME_WAIT, composed
   of `TcpConnection` and `TcpActiveOpen`.
3. Abstract specifications: a mutex with a single holder for `TMutex`; a set of
   asserted wakers for `Sleeper`; a table of half-open connections for the
   listener.
