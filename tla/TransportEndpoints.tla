------------------------- MODULE TransportEndpoints -------------------------
(***************************************************************************)
(* Several endpoints of one transport that compete for ports and for       *)
(* registrations.  TCP and UDP have separate ports and separate demuxers,  *)
(* so each behaviour has one of them, chosen at the start.                 *)
(***************************************************************************)
EXTENDS UdpEndpoint, TcpEndpoint

VARIABLE transport

epVars == <<allocated, registered, idVars, udpVars, tcpVars, transport>>

EpInit ==
  /\ PortInit /\ DemuxInit /\ EndpointInit /\ UdpInit /\ TcpInit
  /\ transport \in {"udp", "tcp"}

EpNext ==
  \/ transport = "udp" /\ UdpNext /\ UNCHANGED <<tcpVars, transport>>
  \/ transport = "tcp" /\ TcpNext /\ UNCHANGED <<udpVars, transport>>

-----------------------------------------------------------------------------
Clash(r, s) == /\ r[1] = s[1] /\ r[2] = s[2] /\ r[3] = s[3]
               /\ r[4] = s[4] \/ AnyAddr \in {r[4], s[4]}

\* A port that an endpoint has reserved is its own: no other one reserves it
\* on an address that overlaps (ports.go:99), and nothing that another one
\* does, also nothing that fails, gives it away.
ReservationsAreKept ==
  \A e \in Endpoints :
    /\ held[e] \subseteq allocated
    /\ \A f \in Endpoints \ {e} : \A r \in held[e], s \in held[f] : ~Clash(r, s)

\* So it is for TCP.
TcpReservationsAreKept == transport = "tcp" => ReservationsAreKept

\* The networks on which an endpoint wants packets, and those on which it is
\* registered, with its present id and no other.
Wanted(e) ==
  IF transport = "udp" THEN (IF Bound(e) THEN protos[e] ELSE {})
  ELSE IF isRegistered[e] /\ (~closed[e] \/ worker[e]) THEN protos[e] ELSE {}

\* Nobody is found under an id it no longer has, or after it has been closed
\* and its worker has ended; and who waits for packets is found.  Connect
\* changes the id of a registered endpoint, Close leaves the registration of
\* a connection to the worker, and a failed call must leave it as it was.
\* A datagram whose endpoint was found before Close does not end up in the
\* closed endpoint, where nobody would free it.
RegistrationsMatch ==
  /\ registered = UNION {{<<IF transport = "udp" THEN "stack" ELSE level[e], n,
                            transport, id[e], e>> : n \in Wanted(e)} : e \in Endpoints}
  /\ \A e \in Endpoints : (closed[e] /\ transport = "udp") => rcvList[e] = 0

\* Close gives back what the endpoint has reserved (udp/endpoint.go:523,
\* tcp/endpoint.go:669): a port is reserved only for an endpoint that has it.
ReservationsAreReleased == allocated \subseteq UNION {held[e] : e \in Endpoints}
=============================================================================
