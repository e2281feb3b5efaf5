------------------------------ MODULE MCServices ------------------------------
(***************************************************************************)
(* Three services that the endpoints use, and that share nothing: the link *)
(* address cache, the wait queue, and the timer of keepalive.  A behaviour *)
(* is one of one of them; the others stay as they were.                    *)
(***************************************************************************)
EXTENDS LinkAddrCache, WaiterQueue, KeepAlive

VARIABLE part

MCAnswers == {<<"a", "x">>, <<"a", "y">>, <<"b", "x">>}
MCMasks   == {{"in"}, {"in", "out"}}

Init == part \in {"link", "queue", "alive"} /\ LinkInit /\ WqInit /\ KaInit

Next == /\ part' = part
        /\ \/ part = "link" /\ LinkNext /\ UNCHANGED <<wqVars, kaVars>>
           \/ part = "queue" /\ WqNext /\ UNCHANGED <<linkVars, kaVars>>
           \/ part = "alive" /\ KaNext /\ UNCHANGED <<linkVars, wqVars>>

Spec == /\ Init /\ [][Next]_<<part, linkVars, wqVars, kaVars>>
        /\ LinkFairness /\ WqFairness
=============================================================================
