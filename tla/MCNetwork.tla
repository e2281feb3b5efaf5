------------------------------- MODULE MCNetwork -------------------------------
(***************************************************************************)
(* Two parts of the network layer that share nothing: the addresses of a   *)
(* NIC and their references, and the reassembly of IPv4 datagrams.  A      *)
(* behaviour is one of one of them.                                        *)
(***************************************************************************)
EXTENDS NicAddress, Fragmentation

VARIABLE part

MCCuts == {<<0, 1>>, <<1, 1>>, <<1, 2>>}
MCSymmetry == Permutations(Threads) \cup Permutations(Locals)
                \cup Permutations(Ids) \cup Permutations(Dispatchers)

Init == part \in {"nic", "fragments"} /\ NicInit /\ FragInit

Next == /\ part' = part
        /\ \/ part = "nic" /\ NicNext /\ UNCHANGED fragVars
           \/ part = "fragments" /\ FragNext /\ UNCHANGED nicVars

Spec == Init /\ [][Next]_<<part, nicVars, fragVars>>
=============================================================================
