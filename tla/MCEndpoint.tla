------------------------------ MODULE MCEndpoint ------------------------------
(***************************************************************************)
(* Two sides of an endpoint that share nothing here: the goroutines of one *)
(* TCP endpoint, and the ports and registrations of two endpoints of any   *)
(* family.  A behaviour is one of one of them.                             *)
(***************************************************************************)
EXTENDS TcpWorker, TransportEndpoints, TLC

VARIABLE part

\* One fixed and one ephemeral port, two peers on IPv4 and one on IPv6.
MCPeers == {[net |-> 4, name |-> "r4"], [net |-> 4, name |-> "s4"],
            [net |-> 6, name |-> "r6"]}

MCSymmetry == Permutations(Threads) \cup Permutations(Notifications)
                \cup Permutations(Endpoints)

MCInit == /\ part \in {"worker", "transport"}
          /\ Init /\ EpInit
          /\ part = "worker" =>
                transport = "tcp" /\ \A e \in Endpoints : family[e] = 4

MCNext == /\ part' = part
          /\ \/ part = "worker" /\ Next /\ UNCHANGED epVars
             \/ part = "transport" /\ EpNext /\ UNCHANGED vars

MCSpec == MCInit /\ [][MCNext]_<<part, vars, epVars>>
=============================================================================
