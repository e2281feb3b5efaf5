---------------------------- MODULE TcpEndpoint ----------------------------
(***************************************************************************)
(* The life of TCP endpoints, tcp/endpoint.go: Bind, Connect, Listen,      *)
(* Shutdown and Close by the application, and the worker goroutine, which  *)
(* cleans up after a Close that found it running.  What the worker does in *)
(* between is in TcpConnection.                                            *)
(***************************************************************************)
EXTENDS TransportEndpoint

VARIABLES
  level,          \* boundNICID: "stack" for 0
  portReserved,   \* isPortReserved
  isRegistered,
  worker,         \* workerRunning
  cleanup,        \* workerCleanup
  stopListening   \* notifyClose is posted to a listener

tcpVars == <<level, portReserved, isRegistered, worker, cleanup, stopListening>>

TcpInit ==
  /\ level = [e \in Endpoints |-> "stack"]
  /\ portReserved = [e \in Endpoints |-> FALSE]
  /\ isRegistered = portReserved /\ worker = portReserved
  /\ cleanup = portReserved /\ stopListening = portReserved

\* Bind reserves the port; only Listen and Connect register.  A local address
\* ties the endpoint to its NIC.
TcpBind(e, arg, port) ==
  /\ ~closed[e] /\ state[e] = "initial"
  /\ arg.addr = AnyAddr \/ SameLength(e, arg)
  /\ \E p \in Reservable(BindProtos(arg), "tcp", arg.addr, port) :
       /\ allocated' = Reserved(BindProtos(arg), "tcp", arg.addr, p)
       /\ held' = Set(held, e, Reservations(BindProtos(arg), "tcp", arg.addr, p))
       /\ id' = Set(id, e, IF arg.addr = AnyAddr THEN [id[e] EXCEPT !.port = p]
                           ELSE [id[e] EXCEPT !.port = p, !.addr = arg.addr])
  /\ protos' = Set(protos, e, BindProtos(arg))
  /\ portReserved' = Set(portReserved, e, TRUE)
  /\ level' = Set(level, e, IF arg.addr = AnyAddr THEN level[e] ELSE "nic")
  /\ state' = Set(state, e, "bound")
  /\ UNCHANGED <<registered, family, closed, isRegistered, worker, cleanup,
                 stopListening>>

\* A connection that has no port takes an ephemeral one that is neither
\* reserved nor registered, without reserving it.
ConnectPorts(e, p) ==
  {q \in IF id[e].port # 0 THEN {id[e].port} ELSE Ephemeral :
     /\ id[e].port # 0 \/ IsPortAvailable({p.net}, "tcp", RouteLocal(e, p), q)
     /\ Registrable(level[e], {p.net}, "tcp", ID(q, RouteLocal(e, p), p))}

\* Connect starts the worker.  The port that Bind reserved is released: the
\* registration keeps the connection apart from others.
TcpConnect(e, p) ==
  /\ ~closed[e] /\ state[e] \in {"initial", "bound"}
  /\ SameLength(e, p)
  /\ \E q \in ConnectPorts(e, p) :
       LET new == ID(q, RouteLocal(e, p), p)
       IN  /\ registered' = Registered(level[e], {p.net}, "tcp", new, e)
           /\ id' = Set(id, e, new)
  /\ allocated' = IF portReserved[e]
                  THEN Released(protos[e], "tcp", id[e].addr, id[e].port)
                  ELSE allocated
  /\ held' = Set(held, e, {})
  /\ portReserved' = Set(portReserved, e, FALSE)
  /\ isRegistered' = Set(isRegistered, e, TRUE)
  /\ protos' = Set(protos, e, {p.net})
  /\ state' = Set(state, e, "connecting")
  /\ worker' = Set(worker, e, TRUE)
  /\ UNCHANGED <<family, closed, level, cleanup, stopListening>>

\* The id is taken: Connect fails, but the endpoint keeps the local address
\* and the peer that Connect wrote into its id (endpoint.go:369).
TcpConnectFailed(e, p) ==
  /\ ~closed[e] /\ state[e] \in {"initial", "bound"}
  /\ SameLength(e, p)
  /\ ConnectPorts(e, p) = {}
  /\ id' = Set(id, e, ID(id[e].port, RouteLocal(e, p), p))
  /\ UNCHANGED <<allocated, registered, family, state, protos, held, closed,
                 tcpVars>>

TcpListen(e) ==
  /\ ~closed[e] /\ state[e] = "bound"
  /\ Registrable(level[e], protos[e], "tcp", id[e])
  /\ registered' = Registered(level[e], protos[e], "tcp", id[e], e)
  /\ isRegistered' = Set(isRegistered, e, TRUE)
  /\ state' = Set(state, e, "listen")
  /\ worker' = Set(worker, e, TRUE)
  /\ UNCHANGED <<allocated, family, id, protos, held, closed, level,
                 portReserved, cleanup, stopListening>>

TcpShutdownListener(e) ==
  /\ ~closed[e] /\ state[e] = "listen" /\ ~stopListening[e]
  /\ stopListening' = Set(stopListening, e, TRUE)
  /\ UNCHANGED <<allocated, registered, idVars, level, portReserved,
                 isRegistered, worker, cleanup>>

\* The worker completes the handshake, or stops: the handshake failed, the
\* connection ended or was reset, or the listener was told to.
TcpEstablished(e) ==
  /\ worker[e] /\ state[e] = "connecting"
  /\ state' = Set(state, e, "connected")
  /\ UNCHANGED <<allocated, registered, family, id, protos, held, closed, tcpVars>>

\* Mistake: nobody cleans up.
WorkerGone(e) ==
  /\ worker[e]
  /\ state[e] = "listen" => stopListening[e]
  /\ state' = Set(state, e, "ended")
  /\ worker' = Set(worker, e, FALSE)
  /\ UNCHANGED <<allocated, registered, family, id, protos, held, closed, level,
                 portReserved, isRegistered, cleanup, stopListening>>

\* completeWorkerLocked, with the cleanup that Close left to the worker.
WorkerEnds(e) ==
  /\ worker[e]
  /\ state[e] = "listen" => stopListening[e]
  /\ state' = Set(state, e, "ended")
  /\ worker' = Set(worker, e, FALSE)
  /\ cleanup' = Set(cleanup, e, FALSE)
  /\ registered' = IF cleanup[e] /\ isRegistered[e]
                   THEN Unregistered(registered, level[e], protos[e], "tcp", id[e])
                   ELSE registered
  /\ UNCHANGED <<allocated, family, id, protos, held, closed, level,
                 portReserved, isRegistered, stopListening>>

\* Close releases the port at once, and with it the registration of a
\* listener, and cleans up itself if the worker is not there to do it.
TcpClose(e) ==
  /\ ~closed[e]
  /\ closed' = Set(closed, e, TRUE)
  /\ held' = Set(held, e, {})
  /\ allocated' = IF portReserved[e]
                  THEN Released(protos[e], "tcp", id[e].addr, id[e].port)
                  ELSE allocated
  /\ portReserved' = Set(portReserved, e, FALSE)
  /\ isRegistered' = Set(isRegistered, e, isRegistered[e] /\ ~portReserved[e])
  /\ registered' = IF isRegistered[e] /\ (portReserved[e] \/ ~worker[e])
                   THEN Unregistered(registered, level[e], protos[e], "tcp", id[e])
                   ELSE registered
  /\ cleanup' = Set(cleanup, e, worker[e])
  /\ stopListening' = Set(stopListening, e, worker[e])
  /\ UNCHANGED <<family, state, id, protos, level, worker>>

TcpStep(e) ==
  \/ \E arg \in Addresses(e), port \in Ports \cup {0} : TcpBind(e, arg, port)
  \/ \E p \in PeersOf(e) : TcpConnect(e, p) \/ TcpConnectFailed(e, p)
  \/ TcpListen(e) \/ TcpShutdownListener(e) \/ TcpClose(e)
  \/ TcpEstablished(e) \/ WorkerEnds(e)

TcpNext == \E e \in Endpoints : TcpStep(e)
=============================================================================
