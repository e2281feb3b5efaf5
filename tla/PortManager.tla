---------------------------- MODULE PortManager ----------------------------
(***************************************************************************)
(* Port reservations, protocol/ports/ports.go.  A reservation is a tuple   *)
(* <<network, transport, port, address>>; the two levels of maps of the    *)
(* code are one set.  Each operation runs under the manager's lock.        *)
(***************************************************************************)
EXTENDS Integers

CONSTANTS
  Ports, Ephemeral   \* FirstEphemeral and up

ASSUME PortAssumption == Ephemeral \subseteq Ports /\ Ports \subseteq Nat \ {0}

\* Address "" of the code: every local address.
AnyAddr == "any"

VARIABLE allocated   \* allocatedPorts

PortInit == allocated = {}

Reservations(nets, trans, addr, port) == nets \X {trans} \X {port} \X {addr}

\* Mistake: the address decides, also when one of the two is every address.
FreeIfOther(b, addr) == addr \notin b

\* bindAddresses.isAvailable, for the set b of addresses taken.
Free(b, addr) == IF addr = AnyAddr THEN b = {} ELSE AnyAddr \notin b /\ addr \notin b

IsPortAvailable(nets, trans, addr, port) ==
  \A n \in nets :
    Free({a \in {r[4] : r \in allocated} : <<n, trans, port, a>> \in allocated},
         addr)

\* The ports that ReservePort may answer with; 0 asks for an ephemeral one.
Reservable(nets, trans, addr, port) ==
  {p \in IF port = 0 THEN Ephemeral ELSE {port} :
     IsPortAvailable(nets, trans, addr, p)}

\* What becomes of the reservations.
Reserved(nets, trans, addr, port) ==
  allocated \cup Reservations(nets, trans, addr, port)

Released(nets, trans, addr, port) ==
  allocated \ Reservations(nets, trans, addr, port)
=============================================================================
