------------------------- MODULE TransportEndpoint -------------------------
(***************************************************************************)
(* What the endpoints of udp/ and tcp/ have in common: their id, the       *)
(* networks they use, and the addresses the application names.  One NIC    *)
(* has one address on each network.                                        *)
(***************************************************************************)
EXTENDS TransportDemuxer, FiniteSets

CONSTANTS
  Endpoints,
  Peers       \* remote address and port; a peer is [net, name]

ASSUME EndpointAssumption == \A p \in Peers : p.net \in {4, 6}

VARIABLES
  family,   \* endpoint.netProto: 4 or 6
  state,    \* endpoint.state
  id,       \* endpoint.id
  protos,   \* effectiveNetProtos
  held,     \* reservations the endpoint made and has not given back
  closed    \* Close was called

idVars == <<family, state, id, protos, held, closed>>

EndpointInit ==
  /\ family \in [Endpoints -> {4, 6}]
  /\ state = [e \in Endpoints |-> "initial"]
  /\ id = [e \in Endpoints |-> NoID]
  /\ protos = [e \in Endpoints |-> {}]
  /\ held = [e \in Endpoints |-> {}]
  /\ closed = [e \in Endpoints |-> FALSE]

LocalOf(net) == IF net = 4 THEN "a4" ELSE "a6"

\* The addresses that Bind may be given: all of them or the local one, on
\* the family of the endpoint or, for IPv6, mapped from IPv4.
Addresses(e) ==
  {arg \in [net : 4..family[e], addr : {AnyAddr, "a4", "a6"}] :
     arg.net # 5 /\ arg.addr \in {AnyAddr, LocalOf(arg.net)}}

PeersOf(e) == {p \in Peers : p.net <= family[e]}

\* Binding every address on IPv6 takes IPv4 too.
BindProtos(arg) == IF arg = [net |-> 6, addr |-> AnyAddr] THEN {4, 6} ELSE {arg.net}

\* checkV4Mapped: the address has the length of the one that is bound.
SameLength(e, arg) == id[e].addr = AnyAddr \/ id[e].addr = LocalOf(arg.net)

\* FindRoute: the local address of the route to a peer.
RouteLocal(e, p) == IF id[e].addr = AnyAddr THEN LocalOf(p.net) ELSE id[e].addr

Set(f, e, val) == [f EXCEPT ![e] = val]
=============================================================================
