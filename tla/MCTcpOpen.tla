------------------------------- MODULE MCTcpOpen -------------------------------
(***************************************************************************)
(* How a connection comes to be: "a" connects to a listener of "b", or the *)
(* two connect to each other at the same time.                             *)
(***************************************************************************)
EXTENDS TcpListener

VARIABLE opening   \* who calls Connect

MCPeerOf     == [e \in Ends |-> IF e = "a" THEN "b" ELSE "a"]
MCIsn        == [e \in Ends |-> IF e = "a" THEN <<15, 3>> ELSE <<7, 11>>]
MCCookieHash == <<5, 8>>

\* Two attempts to connect to each other; two to a listener, in one epoch; or
\* one to a listener without room in its channel, in two epochs.
Init == \/ opening = {"a", "b"} /\ OpenInit(0) /\ ListenInit(FALSE, 0, 1)
        \/ opening = {"a"} /\ OpenInit(0) /\ ListenInit(TRUE, 1, 2)
        \/ opening = {"a"} /\ OpenInit(1) /\ ListenInit(TRUE, 0, 1)

Next == /\ opening' = opening
        /\ \/ OpenNext(opening) /\ UNCHANGED listenVars
           \/ opening = {"a"} /\ ListenNext

Spec == Init /\ [][Next]_<<opening, openVars, listenVars>> /\ ListenFairness
=============================================================================
