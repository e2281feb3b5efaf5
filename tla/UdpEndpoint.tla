---------------------------- MODULE UdpEndpoint ----------------------------
(***************************************************************************)
(* UDP endpoints, udp/endpoint.go: binding, connecting, closing, and the   *)
(* delivery of datagrams, which finds the endpoint under the demuxer's     *)
(* lock and hands over the datagram later.  Bind, Connect and Close hold   *)
(* the endpoint's lock throughout.  The endpoint is not bound to a NIC.    *)
(***************************************************************************)
EXTENDS TransportEndpoint

CONSTANT RcvMax     \* rcvBufSizeMax, in datagrams

VARIABLES
  rcvList,   \* length of the receive list
  rcvClosed,
  rcvReady,
  delivery   \* endpoints that were found and are about to get a datagram

udpVars == <<rcvList, rcvClosed, rcvReady, delivery>>

UdpInit ==
  /\ rcvList = [e \in Endpoints |-> 0]
  /\ rcvClosed = [e \in Endpoints |-> FALSE] /\ rcvReady = rcvClosed
  /\ delivery = {}

Bound(e) == state[e] \in {"bound", "connected"}

\* bindLocked, by Bind or by the first Write (prepareForWrite, with port 0).
\* If the id is taken, the port just reserved is released: nothing changes.
UdpBind(e, arg, port) ==
  /\ ~closed[e] /\ state[e] = "initial"
  /\ SameLength(e, arg)
  /\ \E p \in Reservable(BindProtos(arg), "udp", arg.addr, port) :
       LET new  == ID(p, arg.addr, NoPeer)
           nets == BindProtos(arg)
       IN  /\ Registrable("stack", nets, "udp", new)
           /\ allocated'  = Reserved(nets, "udp", arg.addr, p)
           /\ registered' = Registered("stack", nets, "udp", new, e)
           /\ id' = Set(id, e, new)
           /\ protos' = Set(protos, e, nets)
           /\ held' = Set(held, e, Reservations(nets, "udp", arg.addr, p))
  /\ state' = Set(state, e, "bound")
  /\ rcvReady' = Set(rcvReady, e, TRUE)
  /\ UNCHANGED <<family, closed, rcvList, rcvClosed, delivery>>

ConnectProtos(e, p) == IF p.net = 6 THEN {4, 6} ELSE {p.net}

\* The ports registerWithStack may use: it reserves one only if the endpoint
\* has none.
PortsFor(e, p) ==
  IF id[e].port # 0 THEN {id[e].port}
  ELSE Reservable(ConnectProtos(e, p), "udp", RouteLocal(e, p), 0)

\* The new id is registered before the old one is removed.
ConnectDone(e, p, port) ==
  LET new  == ID(port, RouteLocal(e, p), p)
      nets == ConnectProtos(e, p)
      ours == IF id[e].port = 0
              THEN Reservations(nets, "udp", new.addr, port) ELSE {}
  IN  /\ Registrable("stack", nets, "udp", new)
      /\ allocated' = allocated \cup ours
      /\ registered' =
           LET regs == Registered("stack", nets, "udp", new, e)
           IN  IF id[e].port = 0 THEN regs
               ELSE Unregistered(regs, "stack", protos[e], "udp", id[e])
      /\ held' = Set(held, e, held[e] \cup ours)
      /\ id' = Set(id, e, new)
      /\ protos' = Set(protos, e, nets)
      /\ state' = Set(state, e, "connected")
      /\ rcvReady' = Set(rcvReady, e, TRUE)

\* When the id is taken the port is released, whether or not this call
\* reserved it.
ConnectFailed(e, p, port) ==
  LET nets == ConnectProtos(e, p)
  IN  /\ ~Registrable("stack", nets, "udp", ID(port, RouteLocal(e, p), p))
      /\ allocated' = Released(nets, "udp", RouteLocal(e, p), port)
      /\ UNCHANGED <<registered, held, id, protos, state, rcvReady>>

UdpConnect(e, p) ==
  /\ ~closed[e] /\ (state[e] = "initial" \/ Bound(e))
  /\ SameLength(e, p)
  /\ \E port \in PortsFor(e, p) : ConnectDone(e, p, port) \/ ConnectFailed(e, p, port)
  /\ UNCHANGED <<family, closed, rcvList, rcvClosed, delivery>>

UdpShutdownRead(e) ==
  /\ ~closed[e] /\ Bound(e) /\ ~rcvClosed[e]
  /\ rcvClosed' = Set(rcvClosed, e, TRUE)
  /\ UNCHANGED <<allocated, registered, idVars, rcvList, rcvReady, delivery>>

UdpClose(e) ==
  /\ ~closed[e]
  /\ closed' = Set(closed, e, TRUE)
  /\ IF Bound(e)
     THEN /\ registered' = Unregistered(registered, "stack", protos[e], "udp", id[e])
          /\ allocated' = Released(protos[e], "udp", id[e].addr, id[e].port)
     ELSE UNCHANGED <<registered, allocated>>
  /\ held' = Set(held, e, {})
  /\ rcvClosed' = Set(rcvClosed, e, TRUE)
  /\ rcvList' = Set(rcvList, e, 0)
  /\ state' = Set(state, e, "closed")
  /\ UNCHANGED <<family, id, protos, rcvReady, delivery>>

\* deliverPacket finds the endpoint of a datagram.
UdpArrive(net, port, p) ==
  /\ \E e \in Find(net, "udp", ID(port, LocalOf(net), p)) :
       e \notin delivery /\ delivery' = delivery \cup {e}
  /\ UNCHANGED <<allocated, registered, idVars, rcvList, rcvClosed, rcvReady>>

\* HandlePacket: the datagram is queued, or dropped.
UdpHandlePacket(e) ==
  /\ e \in delivery /\ delivery' = delivery \ {e}
  /\ IF rcvReady[e] /\ ~rcvClosed[e] /\ rcvList[e] < RcvMax
     THEN rcvList' = Set(rcvList, e, rcvList[e] + 1)
     ELSE UNCHANGED rcvList
  /\ UNCHANGED <<allocated, registered, idVars, rcvClosed, rcvReady>>

UdpRead(e) ==
  /\ rcvList[e] > 0
  /\ rcvList' = Set(rcvList, e, rcvList[e] - 1)
  /\ UNCHANGED <<allocated, registered, idVars, rcvClosed, rcvReady, delivery>>

UdpStep(e) ==
  \/ \E arg \in Addresses(e), port \in Ports \cup {0} : UdpBind(e, arg, port)
  \/ \E p \in PeersOf(e) : UdpConnect(e, p)
  \/ UdpShutdownRead(e) \/ UdpClose(e) \/ UdpHandlePacket(e) \/ UdpRead(e)

UdpNext ==
  \/ \E e \in Endpoints : UdpStep(e)
  \/ \E p \in Peers, port \in Ports : UdpArrive(p.net, port, p)
=============================================================================
