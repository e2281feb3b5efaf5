-------------------------- MODULE TransportDemuxer --------------------------
(***************************************************************************)
(* Which endpoint gets a packet, stack/transport_demuxer.go.  There is one *)
(* demuxer for the stack and one for each NIC; a registration is a tuple   *)
(* <<level, network, transport, id, endpoint>> with the level "stack" or   *)
(* "nic".  The peer of an id stands for the remote address and port.       *)
(***************************************************************************)
EXTENDS PortManager

VARIABLE registered

DemuxInit == registered = {}

NoPeer == [net |-> 0, name |-> "nobody"]
ID(port, addr, peer) == [port |-> port, addr |-> addr, peer |-> peer]
NoID == ID(0, AnyAddr, NoPeer)

\* registerEndpoint succeeds on every network or, undoing what it did, on
\* none.
Registrable(level, nets, trans, id) ==
  \A r \in registered :
    ~(r[1] = level /\ r[2] \in nets /\ r[3] = trans /\ r[4] = id)

Registered(level, nets, trans, id, ep) ==
  registered \cup ({level} \X nets \X {trans} \X {id} \X {ep})

\* unregisterEndpoint removes whoever is registered under the id.
Unregistered(regs, level, nets, trans, id) ==
  {r \in regs :
     ~(r[1] = level /\ r[2] \in nets /\ r[3] = trans /\ r[4] = id)}

\* findEndpointLocked: the exact id, then any local address, then any peer,
\* then both; the demuxer of the NIC comes first (nic.go).
Match(level, net, trans, id) ==
  {r[5] : r \in {r \in registered :
     r[1] = level /\ r[2] = net /\ r[3] = trans /\ r[4] = id}}

FindAt(level, net, trans, id) ==
  LET exact  == Match(level, net, trans, id)
      anyLoc == Match(level, net, trans, [id EXCEPT !.addr = AnyAddr])
      anyRem == Match(level, net, trans, [id EXCEPT !.peer = NoPeer])
      both   == Match(level, net, trans, ID(id.port, AnyAddr, NoPeer))
  IN  IF exact # {} THEN exact ELSE IF anyLoc # {} THEN anyLoc
      ELSE IF anyRem # {} THEN anyRem ELSE both

Find(net, trans, id) ==
  LET own == FindAt("nic", net, trans, id)
  IN  IF own # {} THEN own ELSE FindAt("stack", net, trans, id)
=============================================================================
