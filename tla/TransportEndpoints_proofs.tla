---------------------- MODULE TransportEndpoints_proofs ----------------------
(***************************************************************************)
(* Endpoints.  The first part is about their ports and registrations, the  *)
(* second about the books of a listener, the last two about the numbers of *)
(* a handshake: of hosts that connect to each other, and of a listener and *)
(* its clients.  The first shares no state with the others.                *)
(*                                                                         *)
(* Ports and registrations for any number of endpoints, ports and peers:   *)
(* what a TCP endpoint has reserved stays its own, and the demuxer has     *)
(* every endpoint that waits for packets under its present id, and nobody  *)
(* else.                                                                   *)
(*                                                                         *)
(* The demuxer is compared with the set Entries of what it should have.    *)
(* TakeOut, PutIn and Unmoved say what becomes of Entries when one         *)
(* endpoint is unregistered, registered, or changed while nobody can find  *)
(* it; the rest is one lemma per operation.                                *)
(***************************************************************************)
EXTENDS TransportEndpoints, TcpListener, FiniteSetTheorems, TLAPS

EpSpec == EpInit /\ [][EpNext]_epVars

-----------------------------------------------------------------------------
(* The invariant. *)

Addrs == {AnyAddr, "a4", "a6"}
IDs == [port : Ports \cup {0}, addr : Addrs, peer : Peers \cup {NoPeer}]
AllReservations == {4, 6} \X {"udp", "tcp"} \X Ports \X Addrs

EpTypeOK ==
  /\ transport \in {"udp", "tcp"}
  /\ allocated \subseteq AllReservations
  /\ family \in [Endpoints -> {4, 6}]
  /\ state \in [Endpoints -> {"initial", "bound", "connecting", "connected",
                              "listen", "ended", "closed"}]
  /\ id \in [Endpoints -> IDs]
  /\ protos \in [Endpoints -> SUBSET {4, 6}]
  /\ held \in [Endpoints -> SUBSET AllReservations]
  /\ closed \in [Endpoints -> BOOLEAN]

UdpTypeOK ==
  /\ rcvList \in [Endpoints -> Nat]
  /\ rcvClosed \in [Endpoints -> BOOLEAN] /\ rcvReady \in [Endpoints -> BOOLEAN]

TcpTypeOK ==
  /\ level \in [Endpoints -> {"stack", "nic"}]
  /\ portReserved \in [Endpoints -> BOOLEAN]
  /\ isRegistered \in [Endpoints -> BOOLEAN]
  /\ worker \in [Endpoints -> BOOLEAN] /\ cleanup \in [Endpoints -> BOOLEAN]
  /\ stopListening \in [Endpoints -> BOOLEAN]

\* What a TCP endpoint holds is what Bind reserved, for the address it has now
\* or, if a Connect that failed has changed that, for every address.
HeldInv ==
  \A e \in Endpoints :
    IF portReserved[e]
    THEN \E a \in {AnyAddr, id[e].addr} :
           held[e] = Reservations(protos[e], "tcp", a, id[e].port)
    ELSE held[e] = {}

UdpInv ==
  \A e \in Endpoints :
    /\ Bound(e) => id[e].port # 0 /\ ~closed[e]
    /\ state[e] = "initial" => id[e].port = 0
    /\ closed[e] => rcvClosed[e] /\ rcvList[e] = 0

TcpInv ==
  \A e \in Endpoints :
    /\ state[e] \in {"initial", "bound"} => ~isRegistered[e] /\ ~worker[e]
    /\ cleanup[e] <=> closed[e] /\ worker[e]

\* The entries of endpoints that want packets on the networks W, at the levels
\* L, under the ids I; and nobody is in another's way.
Entries(W, L, I, trans) ==
  UNION {{<<L[e], n, trans, I[e], e>> : n \in W[e]} : e \in Endpoints}

Apart(W, L, I) ==
  \A e, f \in Endpoints, n \in {4, 6} :
    (n \in W[e] /\ n \in W[f] /\ L[e] = L[f] /\ I[e] = I[f]) => e = f

WantedBy == [e \in Endpoints |-> Wanted(e)]
LevelBy  == [e \in Endpoints |-> IF transport = "udp" THEN "stack" ELSE level[e]]

RegInv == /\ registered = Entries(WantedBy, LevelBy, id, transport)
          /\ Apart(WantedBy, LevelBy, id)

\* The inductive invariant.
EpInv ==
  /\ EpTypeOK /\ UdpTypeOK /\ TcpTypeOK /\ RegInv
  /\ transport = "udp" => UdpInv
  /\ transport = "tcp" => TcpInv /\ HeldInv /\ ReservationsAreKept

-----------------------------------------------------------------------------
(* Entries. *)

Netsets == SUBSET {4, 6}

LEMMA EntryOf ==
  ASSUME NEW W, NEW L, NEW I, NEW trans, NEW r
  PROVE  r \in Entries(W, L, I, trans) <=>
           \E e \in Endpoints : \E n \in W[e] : r = <<L[e], n, trans, I[e], e>>
  BY DEF Entries

\* An endpoint is taken out: others, which are apart from it, stay.
LEMMA TakeOut ==
  ASSUME NEW W \in [Endpoints -> Netsets], NEW W2 \in [Endpoints -> Netsets],
         NEW L, NEW L2, NEW I, NEW I2, NEW trans, NEW e \in Endpoints,
         Apart(W, L, I), W2[e] = {},
         \A f \in Endpoints \ {e} : W2[f] = W[f] /\ L2[f] = L[f] /\ I2[f] = I[f]
  PROVE  /\ Entries(W2, L2, I2, trans) =
              Unregistered(Entries(W, L, I, trans), L[e], W[e], trans, I[e])
         /\ Apart(W2, L2, I2)
<1> DEFINE new == Entries(W2, L2, I2, trans)
           old == Entries(W, L, I, trans)
           left == Unregistered(old, L[e], W[e], trans, I[e])
<1>1. ASSUME NEW r \in new
      PROVE  r \in left
  <2>1. PICK f \in Endpoints : \E n \in W2[f] : r = <<L2[f], n, trans, I2[f], f>>
    BY <1>1, EntryOf
  <2>2. PICK n \in W2[f] : r = <<L2[f], n, trans, I2[f], f>>
    BY <2>1
  <2>3. f # e
    BY <2>2
  <2>4. n \in W[f] /\ L2[f] = L[f] /\ I2[f] = I[f] /\ n \in {4, 6}
    BY <2>2, <2>3 DEF Netsets
  <2>5. r \in old
    BY <2>2, <2>4, EntryOf
  <2>6. ~(L[f] = L[e] /\ n \in W[e] /\ I[f] = I[e])
    BY <2>3, <2>4 DEF Apart
  <2>7. r[1] = L[f] /\ r[2] = n /\ r[4] = I[f]
    BY <2>2, <2>4
  <2> QED BY <2>5, <2>6, <2>7 DEF Unregistered
<1>2. ASSUME NEW r \in left
      PROVE  r \in new
  <2>1. r \in old /\ ~(r[1] = L[e] /\ r[2] \in W[e] /\ r[3] = trans /\ r[4] = I[e])
    BY <1>2 DEF Unregistered
  <2>2. PICK f \in Endpoints : \E n \in W[f] : r = <<L[f], n, trans, I[f], f>>
    BY <2>1, EntryOf
  <2>3. PICK n \in W[f] : r = <<L[f], n, trans, I[f], f>>
    BY <2>2
  <2>4. f # e
    BY <2>1, <2>3
  <2>5. n \in W2[f] /\ r = <<L2[f], n, trans, I2[f], f>>
    BY <2>3, <2>4
  <2> QED BY <2>5, EntryOf
<1>3. Apart(W2, L2, I2)
  BY DEF Apart
<1>4. new \subseteq left /\ left \subseteq new
  BY <1>1, <1>2
<1> HIDE DEF new, left, old
<1>5. new = left
  BY <1>4
<1> QED BY <1>3, <1>5 DEF new, left, old

COROLLARY TakeOutOnly ==
  ASSUME NEW W \in [Endpoints -> Netsets], NEW W2 \in [Endpoints -> Netsets],
         NEW L, NEW I, NEW trans, NEW e \in Endpoints,
         Apart(W, L, I), W2[e] = {}, \A f \in Endpoints \ {e} : W2[f] = W[f]
  PROVE  /\ Entries(W2, L, I, trans) =
              Unregistered(Entries(W, L, I, trans), L[e], W[e], trans, I[e])
         /\ Apart(W2, L, I)
<1> DEFINE L2 == [f \in Endpoints |-> L[f]]
           I2 == [f \in Endpoints |-> I[f]]
<1>1. \A f \in Endpoints \ {e} : W2[f] = W[f] /\ L2[f] = L[f] /\ I2[f] = I[f]
  OBVIOUS
<1>2. \A f \in Endpoints : L2[f] = L[f] /\ I2[f] = I[f]
  OBVIOUS
<1> HIDE DEF L2, I2
<1>3. /\ Entries(W2, L2, I2, trans) =
           Unregistered(Entries(W, L, I, trans), L[e], W[e], trans, I[e])
      /\ Apart(W2, L2, I2)
  BY <1>1, TakeOut, SMTT(60)
<1>4. /\ Entries(W2, L2, I2, trans) = Entries(W2, L, I, trans)
      /\ Apart(W2, L, I)
  BY <1>2, <1>3 DEF Entries, Apart
<1> QED BY <1>3, <1>4

\* An endpoint that nobody could find is registered under an id that is free.
LEMMA PutIn ==
  ASSUME NEW W \in [Endpoints -> Netsets], NEW W2 \in [Endpoints -> Netsets],
         NEW L, NEW L2, NEW I, NEW I2, NEW trans, NEW e \in Endpoints,
         Apart(W, L, I), W[e] = {},
         \A f \in Endpoints \ {e} : W2[f] = W[f] /\ L2[f] = L[f] /\ I2[f] = I[f],
         \A r \in Entries(W, L, I, trans) :
           ~(r[1] = L2[e] /\ r[2] \in W2[e] /\ r[3] = trans /\ r[4] = I2[e])
  PROVE  /\ Entries(W2, L2, I2, trans) = Entries(W, L, I, trans) \cup
              ({L2[e]} \X W2[e] \X {trans} \X {I2[e]} \X {e})
         /\ Apart(W2, L2, I2)
<1> DEFINE new == Entries(W2, L2, I2, trans)
           old == Entries(W, L, I, trans)
           ours == {L2[e]} \X W2[e] \X {trans} \X {I2[e]} \X {e}
<1>1. ASSUME NEW r \in new
      PROVE  r \in old \cup ours
  <2>1. PICK f \in Endpoints : \E n \in W2[f] : r = <<L2[f], n, trans, I2[f], f>>
    BY <1>1, EntryOf
  <2>2. PICK n \in W2[f] : r = <<L2[f], n, trans, I2[f], f>>
    BY <2>1
  <2>3. CASE f = e
    BY <2>2, <2>3
  <2>4. CASE f # e
    <3>1. n \in W[f] /\ r = <<L[f], n, trans, I[f], f>>
      BY <2>2, <2>4
    <3>2. r \in old
      BY <3>1, EntryOf
    <3> QED BY <3>2
  <2> QED BY <2>3, <2>4
<1>2. ASSUME NEW r \in old
      PROVE  r \in new
  <2>1. PICK f \in Endpoints : \E n \in W[f] : r = <<L[f], n, trans, I[f], f>>
    BY <1>2, EntryOf
  <2>2. PICK n \in W[f] : r = <<L[f], n, trans, I[f], f>>
    BY <2>1
  <2>3. f # e
    BY <2>2
  <2>4. n \in W2[f] /\ r = <<L2[f], n, trans, I2[f], f>>
    BY <2>2, <2>3
  <2> QED BY <2>4, EntryOf
<1>3. ASSUME NEW r \in ours
      PROVE  r \in new
  <2>1. PICK n \in W2[e] : r = <<L2[e], n, trans, I2[e], e>>
    BY <1>3
  <2> QED BY <2>1, EntryOf
<1>4. ASSUME NEW f \in Endpoints, NEW n \in {4, 6}, f # e,
             n \in W2[f], n \in W2[e], L2[f] = L2[e], I2[f] = I2[e]
      PROVE  FALSE
  <2> DEFINE r == <<L[f], n, trans, I[f], f>>
  <2>1. r \in old
    BY <1>4, EntryOf
  <2>2. r[1] = L2[e] /\ r[2] \in W2[e] /\ r[3] = trans /\ r[4] = I2[e]
    BY <1>4
  <2> QED BY <2>1, <2>2
<1>5. Apart(W2, L2, I2)
  <2> SUFFICES ASSUME NEW f \in Endpoints, NEW g \in Endpoints, NEW n \in {4, 6},
                      n \in W2[f], n \in W2[g], L2[f] = L2[g], I2[f] = I2[g]
               PROVE  f = g
    BY DEF Apart
  <2>1. CASE f = e \/ g = e
    BY <2>1, <1>4
  <2>2. CASE f # e /\ g # e
    BY <2>2 DEF Apart
  <2> QED BY <2>1, <2>2
<1>6. new \subseteq old \cup ours /\ old \cup ours \subseteq new
  BY <1>1, <1>2, <1>3
<1> HIDE DEF new, old, ours
<1>7. new = old \cup ours
  BY <1>6
<1> QED BY <1>5, <1>7 DEF new, old, ours

\* Levels and ids of those whom nobody can find do not matter.
LEMMA Unmoved ==
  ASSUME NEW W \in [Endpoints -> Netsets],
         NEW L, NEW L2, NEW I, NEW I2, NEW trans,
         Apart(W, L, I),
         \A f \in Endpoints : W[f] # {} => L2[f] = L[f] /\ I2[f] = I[f]
  PROVE  /\ Entries(W, L2, I2, trans) = Entries(W, L, I, trans)
         /\ Apart(W, L2, I2)
<1>1. ASSUME NEW r
      PROVE  r \in Entries(W, L2, I2, trans) <=> r \in Entries(W, L, I, trans)
  <2>1. ASSUME NEW f \in Endpoints, NEW n \in W[f]
        PROVE  <<L2[f], n, trans, I2[f], f>> = <<L[f], n, trans, I[f], f>>
    BY <2>1
  <2> QED BY <2>1, EntryOf
<1>2. Apart(W, L2, I2)
  BY DEF Apart
<1> QED BY <1>1, <1>2

-----------------------------------------------------------------------------
(* The demuxer after a step of one endpoint. *)

OthersStay(e) ==
  \A f \in Endpoints \ {e} :
    Wanted(f)' = Wanted(f) /\ LevelBy'[f] = LevelBy[f] /\ id'[f] = id[f]

LEMMA WantedType ==
  /\ EpTypeOK => WantedBy \in [Endpoints -> Netsets]
  /\ EpTypeOK' => WantedBy' \in [Endpoints -> Netsets]
  BY DEF EpTypeOK, WantedBy, Wanted, Netsets

\* It is unregistered.
LEMMA RegUnregisters ==
  ASSUME EpTypeOK, EpTypeOK', RegInv, transport' = transport,
         NEW e \in Endpoints, OthersStay(e), Wanted(e)' = {},
         registered' = Unregistered(registered, LevelBy[e], Wanted(e), transport, id[e])
  PROVE  RegInv'
<1>1. WantedBy \in [Endpoints -> Netsets] /\ WantedBy' \in [Endpoints -> Netsets]
  BY WantedType
<1>2. WantedBy'[e] = {} /\ WantedBy[e] = Wanted(e)
  BY DEF WantedBy
<1>3. \A f \in Endpoints \ {e} : /\ WantedBy'[f] = WantedBy[f]
                                 /\ LevelBy'[f] = LevelBy[f] /\ id'[f] = id[f]
  BY DEF OthersStay, WantedBy
<1>4. Apart(WantedBy, LevelBy, id)
  BY DEF RegInv
<1>5. /\ Entries(WantedBy', LevelBy', id', transport) =
           Unregistered(Entries(WantedBy, LevelBy, id, transport), LevelBy[e],
                        WantedBy[e], transport, id[e])
      /\ Apart(WantedBy', LevelBy', id')
  BY <1>1, <1>2, <1>3, <1>4, TakeOut
<1> QED BY <1>2, <1>5 DEF RegInv

\* It is registered under an id that was free.
LEMMA RegRegisters ==
  ASSUME EpTypeOK, EpTypeOK', RegInv, transport' = transport,
         NEW e \in Endpoints, OthersStay(e), Wanted(e) = {},
         Registrable(LevelBy'[e], Wanted(e)', transport, id'[e]),
         registered' = Registered(LevelBy'[e], Wanted(e)', transport, id'[e], e)
  PROVE  RegInv'
<1>1. WantedBy \in [Endpoints -> Netsets] /\ WantedBy' \in [Endpoints -> Netsets]
  BY WantedType
<1>2. WantedBy'[e] = Wanted(e)' /\ WantedBy[e] = {}
  BY DEF WantedBy
<1>3. \A f \in Endpoints \ {e} : /\ WantedBy'[f] = WantedBy[f]
                                 /\ LevelBy'[f] = LevelBy[f] /\ id'[f] = id[f]
  BY DEF OthersStay, WantedBy
<1>4. Apart(WantedBy, LevelBy, id) /\ registered = Entries(WantedBy, LevelBy, id, transport)
  BY DEF RegInv
<1>5. \A r \in Entries(WantedBy, LevelBy, id, transport) :
        ~(r[1] = LevelBy'[e] /\ r[2] \in WantedBy'[e] /\ r[3] = transport /\ r[4] = id'[e])
  BY <1>2, <1>4 DEF Registrable
<1>6. /\ Entries(WantedBy', LevelBy', id', transport) =
           Entries(WantedBy, LevelBy, id, transport) \cup
             ({LevelBy'[e]} \X WantedBy'[e] \X {transport} \X {id'[e]} \X {e})
      /\ Apart(WantedBy', LevelBy', id')
  BY <1>1, <1>2, <1>3, <1>4, <1>5, PutIn
<1> QED BY <1>2, <1>4, <1>6 DEF RegInv, Registered

\* It is registered anew, and then its old id removed.
LEMMA RegMoves ==
  ASSUME EpTypeOK, EpTypeOK', RegInv, transport' = transport,
         NEW e \in Endpoints, OthersStay(e), LevelBy'[e] = LevelBy[e],
         Registrable(LevelBy[e], Wanted(e)', transport, id'[e]),
         registered' =
           Unregistered(Registered(LevelBy[e], Wanted(e)', transport, id'[e], e),
                        LevelBy[e], Wanted(e), transport, id[e])
  PROVE  RegInv'
<1> DEFINE W == [WantedBy EXCEPT ![e] = {}]
           R == Unregistered(registered, LevelBy[e], Wanted(e), transport, id[e])
           ours == {LevelBy[e]} \X Wanted(e)' \X {transport} \X {id'[e]} \X {e}
<1>1. /\ WantedBy \in [Endpoints -> Netsets] /\ WantedBy' \in [Endpoints -> Netsets]
      /\ W \in [Endpoints -> Netsets]
  <2>1. WantedBy \in [Endpoints -> Netsets] /\ WantedBy' \in [Endpoints -> Netsets]
    BY WantedType
  <2> QED BY <2>1 DEF Netsets
<1>2. W[e] = {} /\ WantedBy'[e] = Wanted(e)' /\ WantedBy[e] = Wanted(e)
  BY DEF WantedBy
<1>3. \A f \in Endpoints \ {e} : /\ W[f] = WantedBy[f] /\ WantedBy'[f] = W[f]
                                 /\ LevelBy'[f] = LevelBy[f] /\ id'[f] = id[f]
  BY DEF OthersStay, WantedBy
<1>4. Apart(WantedBy, LevelBy, id) /\ registered = Entries(WantedBy, LevelBy, id, transport)
  BY DEF RegInv
<1>5. R = Entries(W, LevelBy, id, transport) /\ Apart(W, LevelBy, id)
  <2>1. \A f \in Endpoints \ {e} : W[f] = WantedBy[f]
    BY <1>3
  <2> HIDE DEF W
  <2>2. /\ Entries(W, LevelBy, id, transport) =
             Unregistered(Entries(WantedBy, LevelBy, id, transport), LevelBy[e],
                          WantedBy[e], transport, id[e])
        /\ Apart(W, LevelBy, id)
    BY <1>1, <1>2, <1>4, <2>1, TakeOutOnly
  <2> QED BY <1>2, <1>4, <2>2
<1>6. R \subseteq registered
  BY DEF Unregistered
<1>7. \A r \in Entries(W, LevelBy, id, transport) :
        ~(r[1] = LevelBy'[e] /\ r[2] \in WantedBy'[e] /\ r[3] = transport /\ r[4] = id'[e])
  BY <1>2, <1>5, <1>6 DEF Registrable
<1>8. /\ Entries(WantedBy', LevelBy', id', transport) =
           Entries(W, LevelBy, id, transport) \cup
             ({LevelBy'[e]} \X WantedBy'[e] \X {transport} \X {id'[e]} \X {e})
      /\ Apart(WantedBy', LevelBy', id')
  <2> HIDE DEF W, R
  <2> QED BY <1>1, <1>2, <1>3, <1>5, <1>7, PutIn
<1>9. registered' = R \cup ours
  <2>1. ASSUME NEW r \in ours
        PROVE  ~(r[1] = LevelBy[e] /\ r[2] \in Wanted(e) /\ r[3] = transport /\ r[4] = id[e])
    <3>1. PICK n \in Wanted(e)' : r = <<LevelBy[e], n, transport, id'[e], e>>
      OBVIOUS
    <3> SUFFICES ASSUME n \in Wanted(e), id'[e] = id[e]
                 PROVE  FALSE
      BY <3>1
    <3> DEFINE old == <<LevelBy[e], n, transport, id[e], e>>
    <3>2. old \in registered
      BY <1>2, <1>4, EntryOf
    <3>3. old[1] = LevelBy[e] /\ old[2] \in Wanted(e)' /\ old[3] = transport /\ old[4] = id'[e]
      OBVIOUS
    <3> QED BY <3>2, <3>3 DEF Registrable
  <2>2. registered' = Unregistered(registered \cup ours, LevelBy[e], Wanted(e), transport, id[e])
    BY DEF Registered
  <2> HIDE DEF ours
  <2> QED BY <2>1, <2>2 DEF Unregistered
<1> QED BY <1>2, <1>5, <1>8, <1>9 DEF RegInv

\* Nobody's registration changes.
LEMMA RegStays ==
  ASSUME EpTypeOK, EpTypeOK', RegInv, transport' = transport, registered' = registered,
         \A f \in Endpoints :
           /\ Wanted(f)' = Wanted(f)
           /\ Wanted(f) # {} => LevelBy'[f] = LevelBy[f] /\ id'[f] = id[f]
  PROVE  RegInv'
<1>1. WantedBy \in [Endpoints -> Netsets]
  BY WantedType
<1>2. WantedBy' = WantedBy
  BY DEF WantedBy
<1>3. \A f \in Endpoints : WantedBy[f] # {} => LevelBy'[f] = LevelBy[f] /\ id'[f] = id[f]
  BY DEF WantedBy
<1>4. Apart(WantedBy, LevelBy, id)
  BY DEF RegInv
<1>5. /\ Entries(WantedBy, LevelBy', id', transport) = Entries(WantedBy, LevelBy, id, transport)
      /\ Apart(WantedBy, LevelBy', id')
  BY <1>1, <1>3, <1>4, Unmoved
<1> QED BY <1>2, <1>5 DEF RegInv

-----------------------------------------------------------------------------
(* UDP. *)

UdpStays == transport = "udp" /\ UNCHANGED <<tcpVars, transport>>

LEMMA ArgType ==
  ASSUME EpTypeOK, NEW e \in Endpoints, NEW arg \in Addresses(e)
  PROVE  /\ arg.net \in {4, 6} /\ arg.addr \in Addrs
         /\ BindProtos(arg) \subseteq {4, 6}
<1>1. family[e] \in {4, 6}
  BY DEF EpTypeOK
<1>2. arg.net \in 4..family[e] /\ arg.net # 5 /\ arg.addr \in Addrs
  BY DEF Addresses, Addrs
<1>3. arg.net \in {4, 6}
  BY <1>1, <1>2
<1> QED BY <1>2, <1>3 DEF BindProtos

LEMMA PortType ==
  ASSUME NEW nets, NEW trans, NEW addr, NEW port \in Ports \cup {0},
         NEW p \in Reservable(nets, trans, addr, port)
  PROVE  p \in Ports /\ p # 0
  BY PortAssumption DEF Reservable

LEMMA ReservationType ==
  ASSUME NEW nets \in Netsets, NEW trans \in {"udp", "tcp"}, NEW addr \in Addrs,
         NEW port \in Ports
  PROVE  Reservations(nets, trans, addr, port) \subseteq AllReservations
  BY DEF Reservations, AllReservations, Netsets

LEMMA RouteType ==
  ASSUME EpTypeOK, NEW e \in Endpoints, NEW p
  PROVE  RouteLocal(e, p) \in Addrs
  BY DEF EpTypeOK, IDs, Addrs, RouteLocal, LocalOf

LEMMA UdpBindKeeps ==
  ASSUME EpInv, UdpStays, NEW e \in Endpoints, NEW arg \in Addresses(e),
         NEW port \in Ports \cup {0}, UdpBind(e, arg, port)
  PROVE  EpInv'
<1> DEFINE nets == BindProtos(arg)
<1>1. PICK p \in Reservable(nets, "udp", arg.addr, port) :
        /\ Registrable("stack", nets, "udp", ID(p, arg.addr, NoPeer))
        /\ allocated'  = Reserved(nets, "udp", arg.addr, p)
        /\ registered' = Registered("stack", nets, "udp", ID(p, arg.addr, NoPeer), e)
        /\ id' = [id EXCEPT ![e] = ID(p, arg.addr, NoPeer)]
        /\ protos' = [protos EXCEPT ![e] = nets]
        /\ held' = [held EXCEPT ![e] = Reservations(nets, "udp", arg.addr, p)]
  BY DEF UdpBind, Set
<1>2. /\ ~closed[e] /\ state[e] = "initial"
      /\ state' = [state EXCEPT ![e] = "bound"]
      /\ rcvReady' = [rcvReady EXCEPT ![e] = TRUE]
      /\ family' = family /\ closed' = closed /\ rcvList' = rcvList
      /\ rcvClosed' = rcvClosed
  BY DEF UdpBind, Set
<1>3. /\ transport = "udp" /\ transport' = "udp" /\ level' = level
      /\ portReserved' = portReserved /\ isRegistered' = isRegistered
      /\ worker' = worker /\ cleanup' = cleanup /\ stopListening' = stopListening
  BY DEF UdpStays, tcpVars
<1>4. EpTypeOK /\ UdpTypeOK /\ TcpTypeOK /\ RegInv /\ UdpInv
  BY <1>3 DEF EpInv
<1>5. p \in Ports /\ p # 0 /\ arg.addr \in Addrs /\ nets \in Netsets
  BY <1>1, <1>4, ArgType, PortType DEF Netsets
<1> HIDE DEF nets
<1>6. ID(p, arg.addr, NoPeer) \in IDs /\ ID(p, arg.addr, NoPeer).port = p
  BY <1>5 DEF ID, IDs
<1>7. EpTypeOK'
  <2>1. Reservations(nets, "udp", arg.addr, p) \subseteq AllReservations
    BY <1>5, ReservationType
  <2> QED BY <1>1, <1>2, <1>3, <1>4, <1>5, <1>6, <2>1 DEF EpTypeOK, Reserved, Netsets
<1>8. UdpTypeOK' /\ TcpTypeOK'
  BY <1>2, <1>3, <1>4 DEF UdpTypeOK, TcpTypeOK
<1>9. UdpInv'
  BY <1>1, <1>2, <1>4, <1>5, <1>6 DEF UdpInv, EpTypeOK, Bound
<1>10. RegInv'
  <2>1. Wanted(e) = {} /\ Wanted(e)' = nets
    BY <1>1, <1>2, <1>3, <1>4 DEF Wanted, Bound, EpTypeOK
  <2>2. LevelBy'[e] = "stack" /\ id'[e] = ID(p, arg.addr, NoPeer)
    BY <1>1, <1>3, <1>4 DEF LevelBy, EpTypeOK
  <2>3. OthersStay(e)
    BY <1>1, <1>2, <1>3, <1>4 DEF OthersStay, Wanted, LevelBy, Bound, EpTypeOK
  <2>4. /\ Registrable(LevelBy'[e], Wanted(e)', transport, id'[e])
        /\ registered' = Registered(LevelBy'[e], Wanted(e)', transport, id'[e], e)
    BY <1>1, <1>3, <2>1, <2>2
  <2> QED BY <1>3, <1>4, <1>7, <2>1, <2>3, <2>4, RegRegisters
<1> QED BY <1>3, <1>7, <1>8, <1>9, <1>10 DEF EpInv

LEMMA UdpConnectKeeps ==
  ASSUME EpInv, UdpStays, NEW e \in Endpoints, NEW p \in PeersOf(e), UdpConnect(e, p)
  PROVE  EpInv'
<1> DEFINE nets == ConnectProtos(e, p)
           addr == RouteLocal(e, p)
<1>1. PICK port \in PortsFor(e, p) : ConnectDone(e, p, port) \/ ConnectFailed(e, p, port)
  BY DEF UdpConnect
<1>2. /\ ~closed[e] /\ (state[e] = "initial" \/ Bound(e))
      /\ family' = family /\ closed' = closed /\ rcvList' = rcvList
      /\ rcvClosed' = rcvClosed
  BY DEF UdpConnect
<1>3. /\ transport = "udp" /\ transport' = "udp" /\ level' = level
      /\ portReserved' = portReserved /\ isRegistered' = isRegistered
      /\ worker' = worker /\ cleanup' = cleanup /\ stopListening' = stopListening
  BY DEF UdpStays, tcpVars
<1>4. EpTypeOK /\ UdpTypeOK /\ TcpTypeOK /\ RegInv /\ UdpInv
  BY <1>3 DEF EpInv
<1>5. /\ port \in Ports /\ port # 0 /\ addr \in Addrs
      /\ nets \in Netsets /\ p \in Peers
      /\ id[e].port # 0 => port = id[e].port
  <2>1. p \in Peers /\ p.net \in {4, 6}
    BY EndpointAssumption DEF PeersOf
  <2>2. id[e].port \in Ports \cup {0}
    BY <1>4 DEF EpTypeOK, IDs
  <2>3. id[e].port # 0 => port = id[e].port
    BY <1>1 DEF PortsFor
  <2>4. ASSUME id[e].port = 0
        PROVE  port \in Ports /\ port # 0
    <3>1. port \in Reservable(nets, "udp", addr, 0)
      BY <2>4, <1>1 DEF PortsFor
    <3> QED BY <3>1, <2>4, PortType
  <2> QED BY <1>4, <2>1, <2>2, <2>3, <2>4, RouteType DEF ConnectProtos, Netsets
<1>6. CASE ConnectFailed(e, p, port)
  <2>1. /\ allocated' = Released(nets, "udp", addr, port)
        /\ registered' = registered /\ held' = held /\ id' = id
        /\ protos' = protos /\ state' = state /\ rcvReady' = rcvReady
    BY <1>6 DEF ConnectFailed
  <2>2. EpTypeOK' /\ UdpTypeOK' /\ TcpTypeOK'
    BY <1>2, <1>3, <1>4, <2>1 DEF EpTypeOK, UdpTypeOK, TcpTypeOK, Released
  <2>3. UdpInv'
    BY <1>2, <1>4, <2>1 DEF UdpInv, Bound
  <2>4. \A f \in Endpoints : /\ Wanted(f)' = Wanted(f)
                             /\ LevelBy'[f] = LevelBy[f] /\ id'[f] = id[f]
    BY <1>3, <2>1 DEF Wanted, Bound, LevelBy
  <2>5. RegInv'
    BY <1>3, <1>4, <2>1, <2>2, <2>4, RegStays
  <2> QED BY <1>3, <2>2, <2>3, <2>5 DEF EpInv
<1>7. CASE ConnectDone(e, p, port)
  <2> DEFINE new == ID(port, addr, p)
             ours == IF id[e].port = 0 THEN Reservations(nets, "udp", addr, port) ELSE {}
  <2>1. /\ Registrable("stack", nets, "udp", new)
        /\ allocated' = allocated \cup ours
        /\ held' = [held EXCEPT ![e] = held[e] \cup ours]
        /\ id' = [id EXCEPT ![e] = new] /\ protos' = [protos EXCEPT ![e] = nets]
        /\ state' = [state EXCEPT ![e] = "connected"]
        /\ rcvReady' = [rcvReady EXCEPT ![e] = TRUE]
    BY <1>7 DEF ConnectDone, Set, ID
  <2>2. registered' =
          IF id[e].port = 0 THEN Registered("stack", nets, "udp", new, e)
          ELSE Unregistered(Registered("stack", nets, "udp", new, e), "stack",
                            protos[e], "udp", id[e])
    BY <1>7 DEF ConnectDone
  <2>3. new \in IDs /\ new.port = port
    BY <1>5 DEF ID, IDs
  <2>4. ours \subseteq AllReservations
    BY <1>5, ReservationType
  <2> HIDE DEF new, ours, nets, addr
  <2>5. EpTypeOK'
    BY <1>2, <1>3, <1>4, <1>5, <2>1, <2>3, <2>4 DEF EpTypeOK, Netsets
  <2>6. UdpTypeOK' /\ TcpTypeOK'
    BY <1>2, <1>3, <1>4, <2>1 DEF UdpTypeOK, TcpTypeOK
  <2>7. UdpInv'
    BY <1>2, <1>4, <1>5, <2>1, <2>3 DEF UdpInv, EpTypeOK, Bound
  <2>8. /\ Wanted(e)' = nets /\ LevelBy'[e] = "stack" /\ LevelBy[e] = "stack"
        /\ id'[e] = new
    BY <1>3, <1>4, <2>1 DEF Wanted, Bound, LevelBy, EpTypeOK
  <2>9. OthersStay(e)
    BY <1>3, <1>4, <2>1 DEF OthersStay, Wanted, LevelBy, Bound, EpTypeOK
  <2>10. CASE state[e] = "initial"
    <3>1. id[e].port = 0 /\ Wanted(e) = {}
      BY <1>3, <1>4, <2>10 DEF UdpInv, Wanted, Bound
    <3>2. /\ Registrable(LevelBy'[e], Wanted(e)', transport, id'[e])
          /\ registered' = Registered(LevelBy'[e], Wanted(e)', transport, id'[e], e)
      BY <1>3, <2>1, <2>2, <2>8, <3>1
    <3>3. RegInv'
      BY <1>3, <1>4, <2>5, <2>9, <3>1, <3>2, RegRegisters
    <3> QED BY <1>3, <2>5, <2>6, <2>7, <3>3 DEF EpInv
  <2>11. CASE Bound(e)
    <3>1. id[e].port # 0 /\ Wanted(e) = protos[e]
      BY <1>3, <1>4, <2>11 DEF UdpInv, Wanted
    <3>2. /\ LevelBy'[e] = LevelBy[e]
          /\ Registrable(LevelBy[e], Wanted(e)', transport, id'[e])
          /\ registered' =
               Unregistered(Registered(LevelBy[e], Wanted(e)', transport, id'[e], e),
                            LevelBy[e], Wanted(e), transport, id[e])
      BY <1>3, <2>1, <2>2, <2>8, <3>1
    <3>3. RegInv'
      BY <1>3, <1>4, <2>5, <2>9, <3>1, <3>2, RegMoves
    <3> QED BY <1>3, <2>5, <2>6, <2>7, <3>3 DEF EpInv
  <2> QED BY <1>2, <2>10, <2>11
<1> QED BY <1>1, <1>6, <1>7

LEMMA UdpCloseKeeps ==
  ASSUME EpInv, UdpStays, NEW e \in Endpoints, UdpClose(e)
  PROVE  EpInv'
<1>1. /\ ~closed[e] /\ closed' = [closed EXCEPT ![e] = TRUE]
      /\ held' = [held EXCEPT ![e] = {}]
      /\ rcvClosed' = [rcvClosed EXCEPT ![e] = TRUE]
      /\ rcvList' = [rcvList EXCEPT ![e] = 0]
      /\ state' = [state EXCEPT ![e] = "closed"]
      /\ family' = family /\ id' = id /\ protos' = protos /\ rcvReady' = rcvReady
  BY DEF UdpClose, Set
<1>2. IF Bound(e)
      THEN /\ registered' = Unregistered(registered, "stack", protos[e], "udp", id[e])
           /\ allocated' = Released(protos[e], "udp", id[e].addr, id[e].port)
      ELSE registered' = registered /\ allocated' = allocated
  BY DEF UdpClose
<1>3. /\ transport = "udp" /\ transport' = "udp" /\ level' = level
      /\ portReserved' = portReserved /\ isRegistered' = isRegistered
      /\ worker' = worker /\ cleanup' = cleanup /\ stopListening' = stopListening
  BY DEF UdpStays, tcpVars
<1>4. EpTypeOK /\ UdpTypeOK /\ TcpTypeOK /\ RegInv /\ UdpInv
  BY <1>3 DEF EpInv
<1>5. EpTypeOK' /\ UdpTypeOK' /\ TcpTypeOK'
  BY <1>1, <1>2, <1>3, <1>4 DEF EpTypeOK, UdpTypeOK, TcpTypeOK, Released
<1>6. UdpInv'
  BY <1>1, <1>4 DEF UdpInv, EpTypeOK, UdpTypeOK, Bound
<1>7. OthersStay(e) /\ Wanted(e)' = {} /\ LevelBy[e] = "stack"
  BY <1>1, <1>3, <1>4 DEF OthersStay, Wanted, LevelBy, Bound, EpTypeOK
<1>8. RegInv'
  <2>1. CASE Bound(e)
    <3>1. registered' = Unregistered(registered, LevelBy[e], Wanted(e), transport, id[e])
      BY <1>2, <1>3, <1>7, <2>1 DEF Wanted
    <3> QED BY <1>3, <1>4, <1>5, <1>7, <3>1, RegUnregisters
  <2>2. CASE ~Bound(e)
    <3>1. Wanted(e) = {}
      BY <1>3, <2>2 DEF Wanted
    <3>2. \A f \in Endpoints :
            /\ Wanted(f)' = Wanted(f)
            /\ Wanted(f) # {} => LevelBy'[f] = LevelBy[f] /\ id'[f] = id[f]
      BY <1>7, <3>1 DEF OthersStay
    <3> QED BY <1>2, <1>3, <1>4, <1>5, <2>2, <3>2, RegStays
  <2> QED BY <2>1, <2>2
<1> QED BY <1>3, <1>5, <1>6, <1>8 DEF EpInv

\* What else there is leaves ports and registrations alone.
LEMMA UdpReceiveKeeps ==
  ASSUME EpInv, UdpStays,
         \/ \E e \in Endpoints : UdpShutdownRead(e) \/ UdpHandlePacket(e) \/ UdpRead(e)
         \/ \E p \in Peers, port \in Ports : UdpArrive(p.net, port, p)
  PROVE  EpInv'
<1>1. UNCHANGED <<allocated, registered, idVars, rcvReady>>
  BY DEF UdpShutdownRead, UdpHandlePacket, UdpRead, UdpArrive
<1>2. /\ allocated' = allocated /\ registered' = registered /\ family' = family
      /\ state' = state /\ id' = id /\ protos' = protos /\ held' = held
      /\ closed' = closed /\ rcvReady' = rcvReady
  BY <1>1 DEF idVars
<1>3. /\ transport = "udp" /\ transport' = "udp" /\ level' = level
      /\ portReserved' = portReserved /\ isRegistered' = isRegistered
      /\ worker' = worker /\ cleanup' = cleanup /\ stopListening' = stopListening
  BY DEF UdpStays, tcpVars
<1>4. EpTypeOK /\ UdpTypeOK /\ TcpTypeOK /\ RegInv /\ UdpInv
  BY <1>3 DEF EpInv
<1>5. /\ rcvList' \in [Endpoints -> Nat] /\ rcvClosed' \in [Endpoints -> BOOLEAN]
      /\ \A e \in Endpoints :
           /\ rcvClosed[e] => rcvClosed'[e]
           /\ rcvClosed[e] /\ rcvList[e] = 0 => rcvList'[e] = 0
  <2>1. CASE \E e \in Endpoints : UdpShutdownRead(e)
    BY <1>4, <2>1 DEF UdpShutdownRead, Set, UdpTypeOK
  <2>2. CASE \E e \in Endpoints : UdpHandlePacket(e)
    BY <1>4, <2>2 DEF UdpHandlePacket, Set, UdpTypeOK
  <2>3. CASE \E e \in Endpoints : UdpRead(e)
    BY <1>4, <2>3 DEF UdpRead, Set, UdpTypeOK
  <2>4. CASE \E p \in Peers, port \in Ports : UdpArrive(p.net, port, p)
    BY <1>4, <2>4 DEF UdpArrive, UdpTypeOK
  <2> QED BY <2>1, <2>2, <2>3, <2>4
<1>6. EpTypeOK' /\ UdpTypeOK' /\ TcpTypeOK'
  BY <1>2, <1>3, <1>4, <1>5 DEF EpTypeOK, UdpTypeOK, TcpTypeOK
<1>7. UdpInv'
  BY <1>2, <1>4, <1>5 DEF UdpInv, Bound
<1>8. \A f \in Endpoints : /\ Wanted(f)' = Wanted(f)
                           /\ LevelBy'[f] = LevelBy[f] /\ id'[f] = id[f]
  BY <1>2, <1>3 DEF Wanted, Bound, LevelBy
<1>9. RegInv'
  BY <1>2, <1>3, <1>4, <1>6, <1>8, RegStays
<1> QED BY <1>3, <1>6, <1>7, <1>9 DEF EpInv

-----------------------------------------------------------------------------
(* TCP: reservations. *)

TcpStays == transport = "tcp" /\ UNCHANGED <<udpVars, transport>>

\* What is free clashes with nothing that is reserved.
LEMMA FreeIsApart ==
  ASSUME NEW nets \in Netsets, NEW addr \in Addrs, NEW p, EpTypeOK,
         IsPortAvailable(nets, "tcp", addr, p),
         NEW r \in Reservations(nets, "tcp", addr, p), NEW s \in allocated
  PROVE  ~Clash(r, s) /\ ~Clash(s, r)
<1>1. r[1] \in nets /\ r[2] = "tcp" /\ r[3] = p /\ r[4] = addr
  BY DEF Reservations
<1>2. s = <<s[1], s[2], s[3], s[4]>>
  BY DEF EpTypeOK, AllReservations
<1> DEFINE b == {a \in {x[4] : x \in allocated} : <<r[1], "tcp", p, a>> \in allocated}
<1>3. Free(b, addr)
  BY <1>1 DEF IsPortAvailable
<1>4. SUFFICES ASSUME s[1] = r[1], s[2] = "tcp", s[3] = p,
                      s[4] = addr \/ addr = AnyAddr \/ s[4] = AnyAddr
               PROVE  FALSE
  BY <1>1 DEF Clash
<1>5. s[4] \in b
  BY <1>2, <1>4
<1> HIDE DEF b
<1> QED BY <1>3, <1>4, <1>5 DEF Free

\* What an endpoint releases is not what another one holds.
LEMMA ReleasedIsOwn ==
  ASSUME EpTypeOK, HeldInv, ReservationsAreKept, NEW e \in Endpoints, portReserved[e],
         NEW f \in Endpoints \ {e}
  PROVE  held[f] \cap Reservations(protos[e], "tcp", id[e].addr, id[e].port) = {}
<1>1. PICK a \in {AnyAddr, id[e].addr} :
        held[e] = Reservations(protos[e], "tcp", a, id[e].port)
  BY DEF HeldInv
<1>2. ASSUME NEW s \in held[f],
             s \in Reservations(protos[e], "tcp", id[e].addr, id[e].port)
      PROVE  FALSE
  <2>1. s[1] \in protos[e] /\ s[2] = "tcp" /\ s[3] = id[e].port /\ s[4] = id[e].addr
    BY <1>2 DEF Reservations
  <2> DEFINE r == <<s[1], "tcp", id[e].port, a>>
  <2>2. r \in held[e]
    BY <1>1, <2>1 DEF Reservations
  <2>3. Clash(r, s)
    BY <1>1, <2>1 DEF Clash
  <2> QED BY <1>2, <2>2, <2>3 DEF ReservationsAreKept
<1> QED BY <1>2

\* Connect and Close release what the endpoint has reserved.
ReleasesOwn(e) ==
  /\ allocated' = IF portReserved[e]
                  THEN Released(protos[e], "tcp", id[e].addr, id[e].port)
                  ELSE allocated
  /\ held' = [held EXCEPT ![e] = {}]
  /\ portReserved' = [portReserved EXCEPT ![e] = FALSE]

LEMMA ReleaseKeeps ==
  ASSUME EpTypeOK, TcpTypeOK, HeldInv, ReservationsAreKept,
         NEW e \in Endpoints, ReleasesOwn(e),
         \A f \in Endpoints \ {e} : protos'[f] = protos[f] /\ id'[f] = id[f]
  PROVE  HeldInv' /\ ReservationsAreKept'
<1>1. held'[e] = {} /\ ~portReserved'[e]
  BY DEF ReleasesOwn, EpTypeOK, TcpTypeOK
<1>2. ASSUME NEW f \in Endpoints \ {e}
      PROVE  held'[f] = held[f] /\ portReserved'[f] = portReserved[f]
  BY DEF ReleasesOwn, EpTypeOK, TcpTypeOK
<1>3. HeldInv'
  BY <1>1, <1>2 DEF HeldInv
<1>4. ASSUME NEW f \in Endpoints
      PROVE  held'[f] \subseteq allocated'
  <2>1. CASE f = e
    BY <1>1, <2>1
  <2>2. CASE f # e
    <3>1. held'[f] \subseteq allocated
      BY <1>2, <2>2 DEF ReservationsAreKept
    <3>2. CASE portReserved[e]
      BY <1>2, <2>2, <3>1, <3>2, ReleasedIsOwn DEF ReleasesOwn, Released
    <3>3. CASE ~portReserved[e]
      BY <3>1, <3>3 DEF ReleasesOwn
    <3> QED BY <3>2, <3>3
  <2> QED BY <2>1, <2>2
<1>5. ASSUME NEW f \in Endpoints, NEW g \in Endpoints \ {f},
             NEW r \in held'[f], NEW s \in held'[g]
      PROVE  ~Clash(r, s)
  BY <1>1, <1>2, <1>5 DEF ReservationsAreKept
<1> QED BY <1>3, <1>4, <1>5 DEF ReservationsAreKept

\* Nothing is reserved or released.
LEMMA ReservedStays ==
  ASSUME HeldInv, ReservationsAreKept,
         UNCHANGED <<allocated, held, portReserved, protos>>,
         \A f \in Endpoints : id'[f].port = id[f].port /\ id[f].addr \in {AnyAddr, id'[f].addr}
  PROVE  HeldInv' /\ ReservationsAreKept'
  BY DEF HeldInv, ReservationsAreKept

-----------------------------------------------------------------------------
(* TCP: operations. *)

LEMMA TcpBindKeeps ==
  ASSUME EpInv, TcpStays, NEW e \in Endpoints, NEW arg \in Addresses(e),
         NEW port \in Ports \cup {0}, TcpBind(e, arg, port)
  PROVE  EpInv'
<1> DEFINE nets == BindProtos(arg)
<1>1. PICK p \in Reservable(nets, "tcp", arg.addr, port) :
        /\ allocated' = Reserved(nets, "tcp", arg.addr, p)
        /\ held' = [held EXCEPT ![e] = Reservations(nets, "tcp", arg.addr, p)]
        /\ id' = [id EXCEPT ![e] = IF arg.addr = AnyAddr THEN [id[e] EXCEPT !.port = p]
                                   ELSE [id[e] EXCEPT !.port = p, !.addr = arg.addr]]
  BY DEF TcpBind, Set
<1>2. /\ ~closed[e] /\ state[e] = "initial"
      /\ protos' = [protos EXCEPT ![e] = nets]
      /\ portReserved' = [portReserved EXCEPT ![e] = TRUE]
      /\ level' = [level EXCEPT ![e] = IF arg.addr = AnyAddr THEN level[e] ELSE "nic"]
      /\ state' = [state EXCEPT ![e] = "bound"]
      /\ registered' = registered /\ family' = family /\ closed' = closed
      /\ isRegistered' = isRegistered /\ worker' = worker /\ cleanup' = cleanup
      /\ stopListening' = stopListening
  BY DEF TcpBind, Set
<1>3. /\ transport = "tcp" /\ transport' = "tcp" /\ rcvList' = rcvList
      /\ rcvClosed' = rcvClosed /\ rcvReady' = rcvReady
  BY DEF TcpStays, udpVars
<1>4. EpTypeOK /\ UdpTypeOK /\ TcpTypeOK /\ RegInv /\ TcpInv /\ HeldInv /\ ReservationsAreKept
  BY <1>3 DEF EpInv
<1>5. p \in Ports /\ arg.addr \in Addrs /\ nets \in Netsets
      /\ IsPortAvailable(nets, "tcp", arg.addr, p)
  <2>1. IsPortAvailable(nets, "tcp", arg.addr, p)
    BY <1>1 DEF Reservable
  <2> QED BY <1>1, <1>4, <2>1, ArgType, PortType DEF Netsets
<1> HIDE DEF nets
<1>6. Reservations(nets, "tcp", arg.addr, p) \subseteq AllReservations
  BY <1>5, ReservationType
<1>7. EpTypeOK' /\ UdpTypeOK' /\ TcpTypeOK'
  <2>1. id[e] \in IDs
    BY <1>4 DEF EpTypeOK
  <2>2. id'[e] \in IDs /\ id' = [id EXCEPT ![e] = id'[e]]
    BY <1>1, <1>4, <1>5, <2>1 DEF IDs, EpTypeOK
  <2>3. EpTypeOK'
    BY <1>1, <1>2, <1>3, <1>4, <1>5, <1>6, <2>2 DEF EpTypeOK, Reserved, Netsets
  <2> QED BY <1>2, <1>3, <1>4, <2>3 DEF UdpTypeOK, TcpTypeOK
<1>8. TcpInv'
  BY <1>2, <1>4 DEF TcpInv, EpTypeOK
<1>9. id'[e].port = p /\ (arg.addr = AnyAddr \/ id'[e].addr = arg.addr)
  BY <1>1, <1>4 DEF EpTypeOK, IDs
<1>10. HeldInv'
  <2>1. held'[e] = Reservations(protos'[e], "tcp", arg.addr, id'[e].port)
    BY <1>1, <1>2, <1>4, <1>9 DEF EpTypeOK
  <2>2. arg.addr \in {AnyAddr, id'[e].addr}
    BY <1>9
  <2>3. \A f \in Endpoints \ {e} : /\ held'[f] = held[f] /\ id'[f] = id[f]
                                   /\ protos'[f] = protos[f]
                                   /\ portReserved'[f] = portReserved[f]
    BY <1>1, <1>2, <1>4 DEF EpTypeOK, TcpTypeOK
  <2>4. portReserved'[e]
    BY <1>2, <1>4 DEF TcpTypeOK
  <2> QED BY <1>4, <2>1, <2>2, <2>3, <2>4 DEF HeldInv
<1>11. ReservationsAreKept'
  <2>1. /\ held'[e] = Reservations(nets, "tcp", arg.addr, p)
        /\ \A f \in Endpoints \ {e} : held'[f] = held[f]
        /\ allocated' = allocated \cup Reservations(nets, "tcp", arg.addr, p)
    BY <1>1, <1>4 DEF EpTypeOK, Reserved
  <2>2. \A f \in Endpoints : held[f] \subseteq allocated
    BY <1>4 DEF ReservationsAreKept
  <2>3. \A f \in Endpoints : held'[f] \subseteq allocated'
    BY <2>1, <2>2
  <2>4. \A r \in held'[e], s \in allocated : ~Clash(r, s) /\ ~Clash(s, r)
    BY <1>4, <1>5, <2>1, FreeIsApart
  <2>5. ASSUME NEW f \in Endpoints, NEW g \in Endpoints \ {f},
               NEW r \in held'[f], NEW s \in held'[g]
        PROVE  ~Clash(r, s)
    <3>1. CASE f = e
      BY <2>1, <2>2, <2>4, <3>1
    <3>2. CASE g = e
      BY <2>1, <2>2, <2>4, <3>2
    <3>3. CASE f # e /\ g # e
      BY <1>4, <2>1, <3>3 DEF ReservationsAreKept
    <3> QED BY <3>1, <3>2, <3>3
  <2> QED BY <2>3, <2>5 DEF ReservationsAreKept
<1>12. RegInv'
  <2>1. ~isRegistered[e] /\ isRegistered'[e] = isRegistered[e]
    BY <1>2, <1>4 DEF TcpInv
  <2>2. \A f \in Endpoints : /\ Wanted(f)' = Wanted(f)
                             /\ Wanted(f) # {} => LevelBy'[f] = LevelBy[f] /\ id'[f] = id[f]
    BY <1>1, <1>2, <1>3, <1>4, <2>1 DEF Wanted, LevelBy, EpTypeOK, TcpTypeOK
  <2> QED BY <1>2, <1>3, <1>4, <1>7, <2>2, RegStays
<1> QED BY <1>3, <1>7, <1>8, <1>10, <1>11, <1>12 DEF EpInv

LEMMA TcpConnectKeeps ==
  ASSUME EpInv, TcpStays, NEW e \in Endpoints, NEW p \in PeersOf(e), TcpConnect(e, p)
  PROVE  EpInv'
<1>1. PICK q \in ConnectPorts(e, p) :
        /\ registered' = Registered(level[e], {p.net}, "tcp", ID(q, RouteLocal(e, p), p), e)
        /\ id' = [id EXCEPT ![e] = ID(q, RouteLocal(e, p), p)]
  BY DEF TcpConnect, Set
<1> DEFINE new == ID(q, RouteLocal(e, p), p)
<1>2. /\ ~closed[e] /\ state[e] \in {"initial", "bound"}
      /\ isRegistered' = [isRegistered EXCEPT ![e] = TRUE]
      /\ protos' = [protos EXCEPT ![e] = {p.net}]
      /\ state' = [state EXCEPT ![e] = "connecting"]
      /\ worker' = [worker EXCEPT ![e] = TRUE]
      /\ family' = family /\ closed' = closed /\ level' = level
      /\ cleanup' = cleanup /\ stopListening' = stopListening
      /\ ReleasesOwn(e)
  BY DEF TcpConnect, Set, ReleasesOwn
<1>3. /\ transport = "tcp" /\ transport' = "tcp" /\ rcvList' = rcvList
      /\ rcvClosed' = rcvClosed /\ rcvReady' = rcvReady
  BY DEF TcpStays, udpVars
<1>4. EpTypeOK /\ UdpTypeOK /\ TcpTypeOK /\ RegInv /\ TcpInv /\ HeldInv /\ ReservationsAreKept
  BY <1>3 DEF EpInv
<1>5. p \in Peers /\ {p.net} \in Netsets
  BY EndpointAssumption DEF PeersOf, Netsets
<1>6. new \in IDs
  <2>1. q \in Ports \cup {0}
    BY <1>1, <1>4, PortAssumption DEF ConnectPorts, EpTypeOK, IDs
  <2> QED BY <1>4, <1>5, <2>1, RouteType DEF ID, IDs
<1>7. Registrable(level[e], {p.net}, "tcp", new)
  BY <1>1 DEF ConnectPorts
<1> HIDE DEF new
<1>8. EpTypeOK' /\ UdpTypeOK' /\ TcpTypeOK'
  <2>1. id' \in [Endpoints -> IDs]
    BY <1>1, <1>4, <1>6 DEF EpTypeOK, new
  <2>2. EpTypeOK'
    BY <1>2, <1>3, <1>4, <1>5, <2>1 DEF EpTypeOK, Released, Netsets, ReleasesOwn
  <2> QED BY <1>2, <1>3, <1>4, <2>2 DEF UdpTypeOK, TcpTypeOK, ReleasesOwn
<1>9. TcpInv'
  BY <1>2, <1>4 DEF TcpInv, EpTypeOK, TcpTypeOK
<1>10. HeldInv' /\ ReservationsAreKept'
  <2>1. \A f \in Endpoints \ {e} : protos'[f] = protos[f] /\ id'[f] = id[f]
    BY <1>1, <1>2, <1>4 DEF EpTypeOK
  <2> QED BY <1>2, <1>4, <2>1, ReleaseKeeps
<1>11. RegInv'
  <2>1. ~isRegistered[e] /\ isRegistered'[e] /\ worker'[e]
    BY <1>2, <1>4 DEF TcpInv, TcpTypeOK
  <2>2. Wanted(e) = {} /\ Wanted(e)' = {p.net}
    BY <1>2, <1>3, <1>4, <2>1 DEF Wanted, EpTypeOK
  <2>3. LevelBy'[e] = level[e] /\ id'[e] = new
    BY <1>1, <1>2, <1>3, <1>4 DEF LevelBy, EpTypeOK, new
  <2>4. OthersStay(e)
    BY <1>1, <1>2, <1>3, <1>4 DEF OthersStay, Wanted, LevelBy, EpTypeOK, TcpTypeOK
  <2>5. /\ Registrable(LevelBy'[e], Wanted(e)', transport, id'[e])
        /\ registered' = Registered(LevelBy'[e], Wanted(e)', transport, id'[e], e)
    BY <1>1, <1>3, <1>7, <2>2, <2>3 DEF new
  <2> QED BY <1>3, <1>4, <1>8, <2>2, <2>4, <2>5, RegRegisters
<1> QED BY <1>3, <1>8, <1>9, <1>10, <1>11 DEF EpInv

LEMMA TcpConnectFailedKeeps ==
  ASSUME EpInv, TcpStays, NEW e \in Endpoints, NEW p \in PeersOf(e), TcpConnectFailed(e, p)
  PROVE  EpInv'
<1>1. /\ state[e] \in {"initial", "bound"}
      /\ id' = [id EXCEPT ![e] = ID(id[e].port, RouteLocal(e, p), p)]
      /\ allocated' = allocated /\ registered' = registered /\ family' = family
      /\ state' = state /\ protos' = protos /\ held' = held /\ closed' = closed
      /\ level' = level /\ portReserved' = portReserved
      /\ isRegistered' = isRegistered /\ worker' = worker /\ cleanup' = cleanup
      /\ stopListening' = stopListening
  BY DEF TcpConnectFailed, Set, tcpVars
<1>3. /\ transport = "tcp" /\ transport' = "tcp" /\ rcvList' = rcvList
      /\ rcvClosed' = rcvClosed /\ rcvReady' = rcvReady
  BY DEF TcpStays, udpVars
<1>4. EpTypeOK /\ UdpTypeOK /\ TcpTypeOK /\ RegInv /\ TcpInv /\ HeldInv /\ ReservationsAreKept
  BY <1>3 DEF EpInv
<1>5. ID(id[e].port, RouteLocal(e, p), p) \in IDs
  BY <1>4, RouteType DEF ID, IDs, EpTypeOK, PeersOf
<1>6. EpTypeOK' /\ UdpTypeOK' /\ TcpTypeOK'
  <2>1. id' \in [Endpoints -> IDs]
    BY <1>1, <1>4, <1>5 DEF EpTypeOK
  <2>2. EpTypeOK'
    BY <1>1, <1>3, <1>4, <2>1 DEF EpTypeOK
  <2> QED BY <1>1, <1>3, <1>4, <2>2 DEF UdpTypeOK, TcpTypeOK
<1>7. TcpInv'
  BY <1>1, <1>4 DEF TcpInv
<1>8. HeldInv' /\ ReservationsAreKept'
  <2>1. \A f \in Endpoints : id'[f].port = id[f].port /\ id[f].addr \in {AnyAddr, id'[f].addr}
    BY <1>1, <1>4 DEF EpTypeOK, ID, RouteLocal
  <2> QED BY <1>1, <1>4, <2>1, ReservedStays
<1>9. RegInv'
  <2>1. Wanted(e) = {}
    BY <1>1, <1>3, <1>4 DEF Wanted, TcpInv
  <2>2. \A f \in Endpoints : /\ Wanted(f)' = Wanted(f)
                             /\ Wanted(f) # {} => LevelBy'[f] = LevelBy[f] /\ id'[f] = id[f]
    BY <1>1, <1>3, <1>4, <2>1 DEF Wanted, LevelBy, EpTypeOK
  <2> QED BY <1>1, <1>3, <1>4, <1>6, <2>2, RegStays
<1> QED BY <1>3, <1>6, <1>7, <1>8, <1>9 DEF EpInv

LEMMA TcpListenKeeps ==
  ASSUME EpInv, TcpStays, NEW e \in Endpoints, TcpListen(e)
  PROVE  EpInv'
<1>1. /\ ~closed[e] /\ state[e] = "bound"
      /\ Registrable(level[e], protos[e], "tcp", id[e])
      /\ registered' = Registered(level[e], protos[e], "tcp", id[e], e)
      /\ isRegistered' = [isRegistered EXCEPT ![e] = TRUE]
      /\ state' = [state EXCEPT ![e] = "listen"]
      /\ worker' = [worker EXCEPT ![e] = TRUE]
      /\ allocated' = allocated /\ family' = family /\ id' = id /\ protos' = protos
      /\ held' = held /\ closed' = closed /\ level' = level
      /\ portReserved' = portReserved /\ cleanup' = cleanup
      /\ stopListening' = stopListening
  BY DEF TcpListen, Set
<1>3. /\ transport = "tcp" /\ transport' = "tcp" /\ rcvList' = rcvList
      /\ rcvClosed' = rcvClosed /\ rcvReady' = rcvReady
  BY DEF TcpStays, udpVars
<1>4. EpTypeOK /\ UdpTypeOK /\ TcpTypeOK /\ RegInv /\ TcpInv /\ HeldInv /\ ReservationsAreKept
  BY <1>3 DEF EpInv
<1>5. EpTypeOK' /\ UdpTypeOK' /\ TcpTypeOK'
  BY <1>1, <1>3, <1>4 DEF EpTypeOK, UdpTypeOK, TcpTypeOK
<1>6. TcpInv'
  BY <1>1, <1>4 DEF TcpInv, EpTypeOK, TcpTypeOK
<1>7. HeldInv' /\ ReservationsAreKept'
  BY <1>1, <1>4, ReservedStays
<1>8. RegInv'
  <2>1. ~isRegistered[e] /\ isRegistered'[e] /\ worker'[e]
    BY <1>1, <1>4 DEF TcpInv, TcpTypeOK
  <2>2. Wanted(e) = {} /\ Wanted(e)' = protos[e]
    BY <1>1, <1>3, <1>4, <2>1 DEF Wanted
  <2>3. LevelBy'[e] = level[e] /\ id'[e] = id[e]
    BY <1>1, <1>3 DEF LevelBy
  <2>4. OthersStay(e)
    BY <1>1, <1>3, <1>4 DEF OthersStay, Wanted, LevelBy, EpTypeOK, TcpTypeOK
  <2>5. /\ Registrable(LevelBy'[e], Wanted(e)', transport, id'[e])
        /\ registered' = Registered(LevelBy'[e], Wanted(e)', transport, id'[e], e)
    BY <1>1, <1>3, <2>2, <2>3
  <2> QED BY <1>3, <1>4, <1>5, <2>2, <2>4, <2>5, RegRegisters
<1> QED BY <1>3, <1>5, <1>6, <1>7, <1>8 DEF EpInv

LEMMA WorkerEndsKeeps ==
  ASSUME EpInv, TcpStays, NEW e \in Endpoints, WorkerEnds(e)
  PROVE  EpInv'
<1>1. /\ worker[e]
      /\ state' = [state EXCEPT ![e] = "ended"]
      /\ worker' = [worker EXCEPT ![e] = FALSE]
      /\ cleanup' = [cleanup EXCEPT ![e] = FALSE]
      /\ allocated' = allocated /\ family' = family /\ id' = id /\ protos' = protos
      /\ held' = held /\ closed' = closed /\ level' = level
      /\ portReserved' = portReserved /\ isRegistered' = isRegistered
      /\ stopListening' = stopListening
  BY DEF WorkerEnds, Set
<1>2. registered' = IF cleanup[e] /\ isRegistered[e]
                    THEN Unregistered(registered, level[e], protos[e], "tcp", id[e])
                    ELSE registered
  BY DEF WorkerEnds
<1>3. /\ transport = "tcp" /\ transport' = "tcp" /\ rcvList' = rcvList
      /\ rcvClosed' = rcvClosed /\ rcvReady' = rcvReady
  BY DEF TcpStays, udpVars
<1>4. EpTypeOK /\ UdpTypeOK /\ TcpTypeOK /\ RegInv /\ TcpInv /\ HeldInv /\ ReservationsAreKept
  BY <1>3 DEF EpInv
<1>5. EpTypeOK' /\ UdpTypeOK' /\ TcpTypeOK'
  <2>1. EpTypeOK' /\ UdpTypeOK'
    BY <1>1, <1>2, <1>3, <1>4 DEF EpTypeOK, UdpTypeOK
  <2> QED BY <1>1, <1>3, <1>4, <2>1 DEF TcpTypeOK
<1>6. TcpInv'
  BY <1>1, <1>4 DEF TcpInv, EpTypeOK, TcpTypeOK
<1>7. HeldInv' /\ ReservationsAreKept'
  BY <1>1, <1>4, ReservedStays
<1>8. OthersStay(e) /\ LevelBy'[e] = LevelBy[e] /\ LevelBy[e] = level[e] /\ id'[e] = id[e]
  BY <1>1, <1>3, <1>4 DEF OthersStay, Wanted, LevelBy, EpTypeOK, TcpTypeOK
<1>9. ~worker'[e] /\ (cleanup[e] <=> closed[e])
  BY <1>1, <1>4 DEF TcpInv, TcpTypeOK
<1>10. RegInv'
  <2>1. CASE cleanup[e] /\ isRegistered[e]
    <3>1. Wanted(e) = protos[e] /\ Wanted(e)' = {}
      BY <1>1, <1>3, <1>9, <2>1 DEF Wanted
    <3>2. registered' = Unregistered(registered, LevelBy[e], Wanted(e), transport, id[e])
      BY <1>2, <1>3, <1>8, <2>1, <3>1
    <3> QED BY <1>3, <1>4, <1>5, <1>8, <3>1, <3>2, RegUnregisters
  <2>2. CASE ~(cleanup[e] /\ isRegistered[e])
    <3>1. Wanted(e)' = Wanted(e)
      BY <1>1, <1>3, <1>9, <2>2 DEF Wanted
    <3>2. \A f \in Endpoints :
            /\ Wanted(f)' = Wanted(f)
            /\ Wanted(f) # {} => LevelBy'[f] = LevelBy[f] /\ id'[f] = id[f]
      BY <1>8, <3>1 DEF OthersStay
    <3>3. registered' = registered
      BY <1>2, <2>2
    <3> QED BY <1>3, <1>4, <1>5, <3>2, <3>3, RegStays
  <2> QED BY <2>1, <2>2
<1> QED BY <1>3, <1>5, <1>6, <1>7, <1>10 DEF EpInv

LEMMA TcpCloseKeeps ==
  ASSUME EpInv, TcpStays, NEW e \in Endpoints, TcpClose(e)
  PROVE  EpInv'
<1>1. /\ ~closed[e] /\ closed' = [closed EXCEPT ![e] = TRUE]
      /\ isRegistered' = [isRegistered EXCEPT ![e] = isRegistered[e] /\ ~portReserved[e]]
      /\ cleanup' = [cleanup EXCEPT ![e] = worker[e]]
      /\ stopListening' = [stopListening EXCEPT ![e] = worker[e]]
      /\ family' = family /\ state' = state /\ id' = id /\ protos' = protos
      /\ level' = level /\ worker' = worker
      /\ ReleasesOwn(e)
  BY DEF TcpClose, Set, ReleasesOwn
<1>2. registered' = IF isRegistered[e] /\ (portReserved[e] \/ ~worker[e])
                    THEN Unregistered(registered, level[e], protos[e], "tcp", id[e])
                    ELSE registered
  BY DEF TcpClose
<1>3. /\ transport = "tcp" /\ transport' = "tcp" /\ rcvList' = rcvList
      /\ rcvClosed' = rcvClosed /\ rcvReady' = rcvReady
  BY DEF TcpStays, udpVars
<1>4. EpTypeOK /\ UdpTypeOK /\ TcpTypeOK /\ RegInv /\ TcpInv /\ HeldInv /\ ReservationsAreKept
  BY <1>3 DEF EpInv
<1>5. EpTypeOK' /\ UdpTypeOK' /\ TcpTypeOK'
  <2>1. EpTypeOK' /\ UdpTypeOK'
    BY <1>1, <1>3, <1>4 DEF EpTypeOK, UdpTypeOK, ReleasesOwn, Released
  <2>2. (isRegistered[e] /\ ~portReserved[e]) \in BOOLEAN /\ worker[e] \in BOOLEAN
    BY <1>4 DEF TcpTypeOK
  <2>3. /\ isRegistered' \in [Endpoints -> BOOLEAN] /\ cleanup' \in [Endpoints -> BOOLEAN]
        /\ stopListening' \in [Endpoints -> BOOLEAN]
        /\ portReserved' \in [Endpoints -> BOOLEAN]
    BY <1>1, <1>4, <2>2 DEF TcpTypeOK, ReleasesOwn
  <2> QED BY <1>1, <1>4, <2>1, <2>3 DEF TcpTypeOK
<1>6. isRegistered'[e] = (isRegistered[e] /\ ~portReserved[e]) /\ closed'[e]
      /\ cleanup'[e] = worker[e]
  BY <1>1, <1>4 DEF EpTypeOK, TcpTypeOK
<1>7. \A f \in Endpoints \ {e} :
        /\ isRegistered'[f] = isRegistered[f] /\ closed'[f] = closed[f]
        /\ cleanup'[f] = cleanup[f]
  BY <1>1, <1>4 DEF EpTypeOK, TcpTypeOK
<1>8. TcpInv'
  BY <1>1, <1>4, <1>6, <1>7, Zenon DEF TcpInv
<1>9. HeldInv' /\ ReservationsAreKept'
  BY <1>1, <1>4, ReleaseKeeps
<1>10. OthersStay(e) /\ LevelBy'[e] = LevelBy[e] /\ LevelBy[e] = level[e] /\ id'[e] = id[e]
  BY <1>1, <1>3, <1>7 DEF OthersStay, Wanted, LevelBy
<1>11. Wanted(e) = (IF isRegistered[e] THEN protos[e] ELSE {})
  BY <1>1, <1>3 DEF Wanted
<1>12. Wanted(e)' = IF isRegistered[e] /\ ~portReserved[e] /\ worker[e] THEN protos[e] ELSE {}
  BY <1>1, <1>3, <1>6 DEF Wanted
<1>13. RegInv'
  <2>1. CASE isRegistered[e] /\ (portReserved[e] \/ ~worker[e])
    <3>1. Wanted(e) = protos[e] /\ Wanted(e)' = {}
      BY <1>11, <1>12, <2>1
    <3>2. registered' = Unregistered(registered, LevelBy[e], Wanted(e), transport, id[e])
      BY <1>2, <1>3, <1>10, <2>1, <3>1
    <3> QED BY <1>3, <1>4, <1>5, <1>10, <3>1, <3>2, RegUnregisters
  <2>2. CASE ~(isRegistered[e] /\ (portReserved[e] \/ ~worker[e]))
    <3>1. Wanted(e)' = Wanted(e)
      BY <1>11, <1>12, <2>2
    <3>2. \A f \in Endpoints :
            /\ Wanted(f)' = Wanted(f)
            /\ Wanted(f) # {} => LevelBy'[f] = LevelBy[f] /\ id'[f] = id[f]
      BY <1>10, <3>1 DEF OthersStay
    <3>3. registered' = registered
      BY <1>2, <2>2
    <3> QED BY <1>3, <1>4, <1>5, <3>2, <3>3, RegStays
  <2> QED BY <2>1, <2>2
<1> QED BY <1>3, <1>5, <1>8, <1>9, <1>13 DEF EpInv

\* The worker completes the handshake; a listener is told to stop.
LEMMA TcpOtherKeeps ==
  ASSUME EpInv, TcpStays, NEW e \in Endpoints, TcpEstablished(e) \/ TcpShutdownListener(e)
  PROVE  EpInv'
<1>1. /\ \/ state' = state
         \/ worker[e] /\ state' = [state EXCEPT ![e] = "connected"]
      /\ stopListening' = stopListening
         \/ stopListening' = [stopListening EXCEPT ![e] = TRUE]
      /\ allocated' = allocated /\ registered' = registered /\ family' = family
      /\ id' = id /\ protos' = protos /\ held' = held /\ closed' = closed
      /\ level' = level /\ portReserved' = portReserved
      /\ isRegistered' = isRegistered /\ worker' = worker /\ cleanup' = cleanup
  BY DEF TcpEstablished, TcpShutdownListener, Set, idVars, tcpVars
<1>3. /\ transport = "tcp" /\ transport' = "tcp" /\ rcvList' = rcvList
      /\ rcvClosed' = rcvClosed /\ rcvReady' = rcvReady
  BY DEF TcpStays, udpVars
<1>4. EpTypeOK /\ UdpTypeOK /\ TcpTypeOK /\ RegInv /\ TcpInv /\ HeldInv /\ ReservationsAreKept
  BY <1>3 DEF EpInv
<1>5. EpTypeOK' /\ UdpTypeOK' /\ TcpTypeOK'
  <2>1. stopListening' \in [Endpoints -> BOOLEAN]
    BY <1>1, <1>4 DEF TcpTypeOK
  <2> QED BY <1>1, <1>3, <1>4, <2>1 DEF EpTypeOK, UdpTypeOK, TcpTypeOK
<1>6. TcpInv'
  BY <1>1, <1>4 DEF TcpInv, EpTypeOK
<1>7. HeldInv' /\ ReservationsAreKept'
  BY <1>1, <1>4, ReservedStays
<1>8. \A f \in Endpoints : /\ Wanted(f)' = Wanted(f)
                           /\ LevelBy'[f] = LevelBy[f] /\ id'[f] = id[f]
  BY <1>1, <1>3 DEF Wanted, LevelBy
<1>9. RegInv'
  BY <1>1, <1>3, <1>4, <1>5, <1>8, RegStays
<1> QED BY <1>3, <1>5, <1>6, <1>7, <1>9 DEF EpInv

-----------------------------------------------------------------------------
(* The theorems. *)

LEMMA EpInvInit == EpInit => EpInv
<1> SUFFICES ASSUME EpInit PROVE EpInv
  OBVIOUS
<1> USE DEF EpInit, PortInit, DemuxInit, EndpointInit, UdpInit, TcpInit
<1>1. NoID \in IDs /\ NoID.port = 0
  BY DEF NoID, ID, IDs, Addrs
<1>2. EpTypeOK /\ UdpTypeOK /\ TcpTypeOK
  BY <1>1 DEF EpTypeOK, UdpTypeOK, TcpTypeOK
<1>3. transport = "udp" => UdpInv
  BY <1>1 DEF UdpInv, Bound
<1>4. transport = "tcp" => TcpInv /\ HeldInv /\ ReservationsAreKept
  BY DEF TcpInv, HeldInv, ReservationsAreKept
<1>5. \A e \in Endpoints : Wanted(e) = {}
  BY DEF Wanted, Bound
<1>6. RegInv
  BY <1>5 DEF RegInv, WantedBy, Entries, Apart
<1> QED BY <1>2, <1>3, <1>4, <1>6 DEF EpInv

LEMMA EpInvStep == EpInv /\ [EpNext]_epVars => EpInv'
<1> SUFFICES ASSUME EpInv, [EpNext]_epVars PROVE EpInv'
  OBVIOUS
<1>1. CASE transport = "udp" /\ UdpNext /\ UNCHANGED <<tcpVars, transport>>
  <2>1. UdpStays
    BY <1>1 DEF UdpStays
  <2>2. CASE \E e \in Endpoints : UdpStep(e)
    <3>1. PICK e \in Endpoints : UdpStep(e)
      BY <2>2
    <3>2. CASE \E arg \in Addresses(e), port \in Ports \cup {0} : UdpBind(e, arg, port)
      BY <2>1, <3>2, UdpBindKeeps
    <3>3. CASE \E p \in PeersOf(e) : UdpConnect(e, p)
      BY <2>1, <3>3, UdpConnectKeeps
    <3>4. CASE UdpClose(e)
      BY <2>1, <3>4, UdpCloseKeeps
    <3>5. CASE UdpShutdownRead(e) \/ UdpHandlePacket(e) \/ UdpRead(e)
      BY <2>1, <3>5, UdpReceiveKeeps
    <3> QED BY <3>1, <3>2, <3>3, <3>4, <3>5 DEF UdpStep
  <2>3. CASE \E p \in Peers, port \in Ports : UdpArrive(p.net, port, p)
    BY <2>1, <2>3, UdpReceiveKeeps
  <2> QED BY <1>1, <2>2, <2>3 DEF UdpNext
<1>2. CASE transport = "tcp" /\ TcpNext /\ UNCHANGED <<udpVars, transport>>
  <2>1. TcpStays
    BY <1>2 DEF TcpStays
  <2>2. PICK e \in Endpoints : TcpStep(e)
    BY <1>2 DEF TcpNext
  <2>3. CASE \E arg \in Addresses(e), port \in Ports \cup {0} : TcpBind(e, arg, port)
    BY <2>1, <2>3, TcpBindKeeps
  <2>4. CASE \E p \in PeersOf(e) : TcpConnect(e, p)
    BY <2>1, <2>4, TcpConnectKeeps
  <2>5. CASE \E p \in PeersOf(e) : TcpConnectFailed(e, p)
    BY <2>1, <2>5, TcpConnectFailedKeeps
  <2>6. CASE TcpListen(e)
    BY <2>1, <2>6, TcpListenKeeps
  <2>7. CASE TcpClose(e)
    BY <2>1, <2>7, TcpCloseKeeps
  <2>8. CASE WorkerEnds(e)
    BY <2>1, <2>8, WorkerEndsKeeps
  <2>9. CASE TcpEstablished(e) \/ TcpShutdownListener(e)
    BY <2>1, <2>9, TcpOtherKeeps
  <2> QED BY <2>2, <2>3, <2>4, <2>5, <2>6, <2>7, <2>8, <2>9 DEF TcpStep
<1>3. CASE UNCHANGED epVars
  <2>1. UNCHANGED <<allocated, registered, idVars, udpVars, tcpVars, transport>>
    BY <1>3 DEF epVars
  <2> QED BY <2>1 DEF idVars, udpVars, tcpVars, EpInv, EpTypeOK, UdpTypeOK, TcpTypeOK,
                      RegInv, WantedBy, LevelBy, Wanted, Bound, UdpInv, TcpInv, HeldInv,
                      ReservationsAreKept, Entries, Apart
<1> QED BY <1>1, <1>2, <1>3 DEF EpNext

\* For any number of TCP endpoints, ports and peers: a port that an endpoint
\* has reserved is never reserved by another one on an address that overlaps,
\* and nothing that another one does, also nothing that fails, gives it away.
THEOREM TcpPortsAreKept == EpSpec => []TcpReservationsAreKept
<1>1. EpInv => TcpReservationsAreKept
  BY DEF EpInv, TcpReservationsAreKept
<1> QED BY <1>1, EpInvInit, EpInvStep, PTL DEF EpSpec

\* For any number of UDP or TCP endpoints: the demuxer has those who wait for
\* packets under their present ids, and nobody else, and no datagram stays in a
\* closed endpoint.
THEOREM EndpointsAreRegistered == EpSpec => []RegistrationsMatch
<1>1. EpInv => RegistrationsMatch
  <2> SUFFICES ASSUME EpInv PROVE RegistrationsMatch
    OBVIOUS
  <2>1. Entries(WantedBy, LevelBy, id, transport) =
          UNION {{<<IF transport = "udp" THEN "stack" ELSE level[e], n, transport,
                    id[e], e>> : n \in Wanted(e)} : e \in Endpoints}
    BY DEF Entries, WantedBy, LevelBy
  <2>2. \A e \in Endpoints : (closed[e] /\ transport = "udp") => rcvList[e] = 0
    BY DEF EpInv, UdpInv
  <2> QED BY <2>1, <2>2 DEF EpInv, RegInv, RegistrationsMatch
<1> QED BY <1>1, EpInvInit, EpInvStep, PTL DEF EpSpec

-----------------------------------------------------------------------------
(***************************************************************************)
(* The books of a listener, for any number of clients, endpoints, room in  *)
(* its channel and threshold: it counts the half-open connections it has,  *)
(* an endpoint keeps the ports it registered until it is closed, and a     *)
(* closed listener leaves nothing in its channel.                          *)
(*                                                                         *)
(* What arrives does not matter: of the segments the proof uses only that  *)
(* they come from some host, so it holds for any initial numbers, cookies  *)
(* and faults of the network.                                              *)
(***************************************************************************)
\* Any hosts connect at any time, also to a listener that has been closed.
lstVars == <<openVars, listenVars>>

LstInit ==
  \E spent \in Nat, listening \in BOOLEAN, backlog \in Nat, start \in Epochs :
    OpenInit(spent) /\ ListenInit(listening, backlog, start)

LstNext == \/ \E opening \in SUBSET Ends : OpenNext(opening) /\ UNCHANGED listenVars
           \/ ListenNext

LstSpec == LstInit /\ [][LstNext]_lstVars

-----------------------------------------------------------------------------
(* The invariant. *)

FromHosts(S) == \A s \in S : s.src \in Ends

WireInv == FromHosts(wire) /\ FromHosts(lq)

\* An endpoint has the fields of Created.
HasFields(c) == DOMAIN c = {"pc", "h", "peer", "isRegistered", "byLoop"}

ConnInv ==
  /\ DOMAIN conn = Conns
  /\ \A n \in Conns : HasFields(conn[n]) /\ conn[n].peer \in Ends

\* The ports of a client stay with the endpoint that registered them.
OwnerInv ==
  /\ DOMAIN owner = Ends
  /\ \A n \in Conns : conn[n].isRegistered => owner[conn[n].peer] = n

IsHalfOpen(c) == ~c.byLoop /\ c.pc \in {"starts", "handshake", "delivers", "sends"}
HalfOpen == {n \in Conns : IsHalfOpen(conn[n])}

CountInv == /\ IsFiniteSet(HalfOpen) /\ synRcvdCount = Cardinality(HalfOpen)
            /\ synRcvdCount <= SynRcvdCountThreshold

\* What is in the channel is in it once.
ChannelInv ==
  /\ accepted \in Seq(Conns)
  /\ \A i \in 1..Len(accepted) :
       /\ conn[accepted[i]].pc = "queued"
       /\ \A j \in 1..Len(accepted) : accepted[i] = accepted[j] => i = j

\* Where the listener and the application are on the way to its end.
CloseInv ==
  /\ lst.listening \in BOOLEAN /\ lst.cleanup \in BOOLEAN /\ lst.notified \in BOOLEAN
  /\ DOMAIN lst = {"listening", "registered", "running", "cleanup", "notified", "backlog"}
  /\ lst.running = lst.listening
  /\ loop = "exits" => lst.notified
  /\ lst.notified => app \in {"closes", "closed"}
  /\ (app = "closed" /\ lst.listening) => lst.cleanup

\* The loop delivers one endpoint at a time, made from a cookie, and until it
\* ends the listener listens.
ByLoop(c) == c.byLoop /\ c.pc \in {"delivers", "sends"}

LoopInv ==
  /\ loop # "gone" => lst.listening
  /\ \A n \in Conns :
       /\ conn[n].byLoop => conn[n].pc \notin {"starts", "handshake"}
       /\ ByLoop(conn[n]) =>
            loop = "delivers" /\ \A m \in Conns : ByLoop(conn[m]) => m = n

\* The inductive invariant.
LstInv == /\ WireInv /\ ConnInv /\ OwnerInv /\ CountInv
          /\ ChannelInv /\ CloseInv /\ LoopInv /\ DeliversToListener

-----------------------------------------------------------------------------
(* The network. *)

LEMMA CarriesFromHosts ==
  ASSUME NEW s, NEW out, FromHosts(wire), FromHosts(out), Carries(s, out)
  PROVE  FromHosts(wire')
<1>1. wire' \subseteq wire \cup out
  BY Zenon DEF Carries
<1> QED BY <1>1, Zenon DEF FromHosts

LEMMA EmitsFromHosts ==
  ASSUME NEW out, FromHosts(wire), FromHosts(out), Emits(out)
  PROVE  FromHosts(wire')
<1>1. wire' \subseteq wire \cup out
  BY Zenon DEF Emits
<1> QED BY <1>1, Zenon DEF FromHosts

LEMMA SegFrom ==
  ASSUME NEW src, NEW dst, NEW flags, NEW seq, NEW ack
  PROVE  Seg(src, dst, flags, seq, ack).src = src
  BY DEF Seg

\* Whatever answers a segment goes back to where it came from.
LEMMA Answers ==
  ASSUME NEW h, NEW s, NEW fresh
  PROVE  \A x \in HandleSegment(h, s, fresh).out : x.src = s.dst /\ x.dst = s.src
<1> DEFINE back(out) == \A x \in out : x.src = s.dst /\ x.dst = s.src
<1>1. ResetFor(s).src = s.dst /\ ResetFor(s).dst = s.src
  BY DEF ResetFor, Seg
<1>2. \A g : SynOf(g, s.dst, s.src).src = s.dst /\ SynOf(g, s.dst, s.src).dst = s.src
  BY DEF SynOf, Seg
<1>3. back(synRcvdState(h, s, fresh).out)
  <2>1. CASE "rst" \in s.flags
    BY <2>1, <1>1, <1>2 DEF synRcvdState, Goes, Fails
  <2>2. CASE "rst" \notin s.flags /\ BadAck(h, s)
    BY <2>2, <1>1, <1>2 DEF synRcvdState, Goes, Fails
  <2>3. CASE /\ "rst" \notin s.flags /\ ~BadAck(h, s)
             /\ "syn" \in s.flags /\ Add(s.seq, 1) # h.ackNum
    BY <2>3, <1>1, <1>2 DEF synRcvdState, Goes, Fails
  <2>4. CASE /\ "rst" \notin s.flags /\ ~BadAck(h, s)
             /\ ~("syn" \in s.flags /\ Add(s.seq, 1) # h.ackNum)
    BY <2>4, <1>1, <1>2 DEF synRcvdState, Goes, Fails
  <2> QED BY <2>1, <2>2, <2>3, <2>4
<1>4. back(synSentState(h, s).out)
  <2>1. CASE "rst" \in s.flags
    BY <2>1, <1>1, <1>2 DEF synSentState, Goes, Fails
  <2>2. CASE "rst" \notin s.flags /\ BadAck(h, s)
    BY <2>2, <1>1, <1>2 DEF synSentState, Goes, Fails
  <2>3. CASE "rst" \notin s.flags /\ ~BadAck(h, s)
    <3>1. \A iss, ack : LET m == Seg(s.dst, s.src, {"ack"}, iss, ack)
                        IN  m.src = s.dst /\ m.dst = s.src
      BY DEF Seg
    <3> QED BY <2>3, <1>1, <1>2, <3>1 DEF synSentState, Goes, Fails
  <2> QED BY <2>1, <2>2, <2>3
<1> QED BY <1>3, <1>4 DEF HandleSegment

LEMMA AnswersFrom ==
  ASSUME NEW h, NEW s, NEW fresh, s.dst \in Ends
  PROVE  FromHosts(HandleSegment(h, s, fresh).out)
BY Answers DEF FromHosts

-----------------------------------------------------------------------------
(* The endpoints of the listener. *)

Books == ConnInv /\ OwnerInv /\ CountInv

\* The number of half-open connections when endpoint n becomes c.
LEMMA CountOf ==
  ASSUME ConnInv, CountInv, NEW n \in Conns, NEW c, conn' = [conn EXCEPT ![n] = c],
         synRcvdCount' = synRcvdCount + (IF IsHalfOpen(c) THEN 1 ELSE 0)
                                      - (IF IsHalfOpen(conn[n]) THEN 1 ELSE 0),
         synRcvdCount' <= SynRcvdCountThreshold
  PROVE  CountInv'
<1>1. conn'[n] = c /\ \A m \in Conns \ {n} : conn'[m] = conn[m]
  BY DEF ConnInv
<1> DEFINE old == HalfOpen
<1>2. /\ IsFiniteSet(old) /\ Cardinality(old) \in Nat /\ synRcvdCount = Cardinality(old)
      /\ n \in old <=> IsHalfOpen(conn[n])
  BY FS_CardinalityType DEF CountInv, HalfOpen
<1>3. HalfOpen' = IF IsHalfOpen(c) THEN old \cup {n} ELSE old \ {n}
  BY <1>1 DEF HalfOpen
<1> HIDE DEF old
<1>4. /\ IsFiniteSet(old \cup {n})
      /\ Cardinality(old \cup {n}) = IF n \in old THEN Cardinality(old) ELSE Cardinality(old) + 1
  BY <1>2, FS_AddElement
<1>5. /\ IsFiniteSet(old \ {n})
      /\ Cardinality(old \ {n}) = IF n \in old THEN Cardinality(old) - 1 ELSE Cardinality(old)
  BY <1>2, FS_RemoveElement
<1>6. CASE IsHalfOpen(c)
  <2>1. IsFiniteSet(HalfOpen') /\ Cardinality(HalfOpen') = synRcvdCount'
    BY <1>2, <1>3, <1>4, <1>6
  <2> QED BY <2>1 DEF CountInv
<1>7. CASE ~IsHalfOpen(c)
  <2>1. IsFiniteSet(HalfOpen') /\ Cardinality(HalfOpen') = synRcvdCount'
    BY <1>2, <1>3, <1>5, <1>7
  <2> QED BY <2>1 DEF CountInv
<1> QED BY <1>6, <1>7

LEMMA CountType == CountInv => synRcvdCount \in Nat
  BY FS_CardinalityType DEF CountInv

\* An endpoint goes on, with the ports it has.
LEMMA GoesOn ==
  ASSUME Books, NEW n \in Conns, NEW c, conn' = [conn EXCEPT ![n] = c],
         HasFields(c), c.peer = conn[n].peer, c.isRegistered = conn[n].isRegistered,
         owner' = owner, CountInv'
  PROVE  Books'
<1>1. conn'[n] = c /\ DOMAIN conn' = Conns /\ \A m \in Conns \ {n} : conn'[m] = conn[m]
  BY DEF Books, ConnInv
<1>2. ConnInv'
  BY <1>1 DEF Books, ConnInv
<1>3. OwnerInv'
  BY <1>1 DEF Books, OwnerInv
<1> QED BY <1>2, <1>3 DEF Books

\* One that was not half open closes, or one that was has given back.
LEMMA CloseConnKeeps ==
  ASSUME Books, NEW n \in Conns, CloseConn(n), CountInv'
  PROVE  Books'
<1>1. /\ conn' = [conn EXCEPT ![n] = Unused]
      /\ owner' = IF conn[n].isRegistered THEN [owner EXCEPT ![conn[n].peer] = None] ELSE owner
  BY DEF CloseConn, Cleaned
<1>2. conn'[n] = Unused /\ DOMAIN conn' = Conns /\ \A m \in Conns \ {n} : conn'[m] = conn[m]
  BY <1>1 DEF Books, ConnInv
<1>3. HasFields(Unused) /\ Unused.peer \in Ends /\ ~Unused.isRegistered
  BY ListenAssumption DEF HasFields, Unused
<1>4. ConnInv'
  BY <1>2, <1>3 DEF Books, ConnInv
<1>5. DOMAIN owner' = Ends
  BY <1>1 DEF Books, OwnerInv
<1>6. ASSUME NEW m \in Conns, conn'[m].isRegistered
      PROVE  owner'[conn'[m].peer] = m
  <2>1. m # n /\ conn'[m] = conn[m]
    BY <1>2, <1>3, <1>6
  <2>2. owner[conn[m].peer] = m /\ conn[m].peer \in Ends
    BY <1>6, <2>1 DEF Books, OwnerInv, ConnInv
  <2>3. conn[n].isRegistered => conn[n].peer # conn[m].peer
    BY <2>1, <2>2 DEF Books, OwnerInv
  <2> QED BY <1>1, <2>1, <2>2, <2>3 DEF Books, OwnerInv
<1> QED BY <1>4, <1>5, <1>6 DEF Books, OwnerInv

\* An endpoint takes ports that nobody has.
LEMMA RegistersKeeps ==
  ASSUME Books, NEW n \in Conns, NEW c, conn' = [conn EXCEPT ![n] = c],
         HasFields(c), c.peer \in Ends, owner[c.peer] = None,
         owner' = [owner EXCEPT ![c.peer] = n], CountInv'
  PROVE  Books'
<1>1. conn'[n] = c /\ DOMAIN conn' = Conns /\ \A m \in Conns \ {n} : conn'[m] = conn[m]
  BY DEF Books, ConnInv
<1>2. ConnInv'
  BY <1>1 DEF Books, ConnInv
<1>3. OwnerInv'
  <2>1. \A m \in Conns : conn[m].isRegistered => conn[m].peer # c.peer
    BY ListenAssumption DEF Books, OwnerInv, None
  <2> QED BY <1>1, <2>1 DEF Books, OwnerInv
<1> QED BY <1>2, <1>3 DEF Books

LEMMA GivesBackCount ==
  ASSUME Books, NEW n \in Conns, NEW c, conn' = [conn EXCEPT ![n] = c], GivesBack(n),
         conn[n].pc \in {"starts", "handshake", "delivers", "sends"}, ~IsHalfOpen(c)
  PROVE  CountInv'
<1>1. IsHalfOpen(conn[n]) <=> ~conn[n].byLoop
  BY DEF IsHalfOpen
<1>2. synRcvdCount \in Nat /\ synRcvdCount <= SynRcvdCountThreshold
  BY CountType DEF Books, CountInv
<1>3. synRcvdCount' = synRcvdCount + 0 - (IF IsHalfOpen(conn[n]) THEN 1 ELSE 0)
  BY <1>1, <1>2 DEF GivesBack
<1>4. synRcvdCount' <= SynRcvdCountThreshold
  BY <1>2, <1>3, ListenAssumption
<1> QED BY <1>2, <1>3, <1>4, CountOf DEF Books

\* Nothing is taken or given back.
LEMMA CountStays ==
  ASSUME Books, NEW n \in Conns, NEW c, conn' = [conn EXCEPT ![n] = c],
         synRcvdCount' = synRcvdCount, IsHalfOpen(c) <=> IsHalfOpen(conn[n])
  PROVE  CountInv'
<1>1. synRcvdCount \in Nat /\ synRcvdCount <= SynRcvdCountThreshold
  BY CountType DEF Books, CountInv
<1>2. synRcvdCount' = synRcvdCount + (IF IsHalfOpen(c) THEN 1 ELSE 0)
                                   - (IF IsHalfOpen(conn[n]) THEN 1 ELSE 0)
  BY <1>1
<1> QED BY <1>1, <1>2, CountOf DEF Books

LEMMA HalfOpenCloses ==
  ASSUME Books, NEW n \in Conns, CloseConn(n), GivesBack(n),
         conn[n].pc \in {"starts", "handshake", "delivers", "sends"}
  PROVE  Books'
<1>1. conn' = [conn EXCEPT ![n] = Unused]
  BY DEF CloseConn, Cleaned
<1>2. ~IsHalfOpen(Unused)
  BY DEF IsHalfOpen, Unused
<1> QED BY <1>1, <1>2, GivesBackCount, CloseConnKeeps

\* Only the state of an endpoint is changed.
LEMMA FieldsOf ==
  ASSUME NEW c, HasFields(c), NEW pc
  PROVE  LET d == [c EXCEPT !.pc = pc]
         IN  /\ HasFields(d) /\ d.pc = pc /\ d.peer = c.peer
             /\ d.byLoop = c.byLoop /\ d.isRegistered = c.isRegistered
  BY DEF HasFields

-----------------------------------------------------------------------------
(* The listener and its channel. *)

Others == ChannelInv /\ CloseInv /\ LoopInv /\ DeliversToListener

\* An endpoint that is not in the channel changes.
LEMMA OthersKeep ==
  ASSUME LstInv, NEW n \in Conns, NEW c, conn' = [conn EXCEPT ![n] = c],
         conn[n].pc # "queued",
         c.pc = "sends" => conn[n].pc = "sends" \/ lst.listening,
         c.byLoop => c.pc \notin {"starts", "handshake"},
         UNCHANGED <<lst, app, accepted>>,
         \/ loop' = loop /\ (ByLoop(c) => ByLoop(conn[n]))
         \/ loop' = "run" /\ ByLoop(conn[n]) /\ ~ByLoop(c)
         \/ loop' = "delivers" /\ loop = "run"
  PROVE  Others'
<1>1. conn'[n] = c /\ \A m \in Conns \ {n} : conn'[m] = conn[m]
  BY DEF LstInv, ConnInv
<1>2. ChannelInv'
  <2>1. \A i \in 1..Len(accepted) : accepted[i] \in Conns /\ accepted[i] # n
    BY DEF LstInv, ChannelInv
  <2> QED BY <1>1, <2>1 DEF LstInv, ChannelInv
<1>3. CloseInv'
  BY DEF LstInv, CloseInv
<1>5. LoopInv'
  <2>1. (loop' # "gone" => lst'.listening)
    BY DEF LstInv, LoopInv
  <2>2. ASSUME NEW m \in Conns
        PROVE  conn'[m].byLoop => conn'[m].pc \notin {"starts", "handshake"}
    BY <1>1 DEF LstInv, LoopInv
  <2>3. ASSUME NEW m \in Conns, ByLoop(conn'[m])
        PROVE  loop' = "delivers" /\ \A k \in Conns : ByLoop(conn'[k]) => k = m
    <3>1. CASE loop' = loop /\ (ByLoop(c) => ByLoop(conn[n]))
      <4>1. \A k \in Conns : ByLoop(conn'[k]) => ByLoop(conn[k])
        BY <1>1, <3>1
      <4> QED BY <2>3, <3>1, <4>1 DEF LstInv, LoopInv
    <3>2. CASE loop' = "run" /\ ByLoop(conn[n]) /\ ~ByLoop(c)
      <4>1. m # n /\ ByLoop(conn[m])
        BY <1>1, <2>3, <3>2
      <4> QED BY <3>2, <4>1 DEF LstInv, LoopInv
    <3>3. CASE loop' = "delivers" /\ loop = "run"
      <4>1. \A k \in Conns : ~ByLoop(conn[k])
        BY <3>3 DEF LstInv, LoopInv
      <4>2. \A k \in Conns : ByLoop(conn'[k]) => k = n
        BY <1>1, <4>1
      <4> QED BY <2>3, <3>3, <4>2
    <3> QED BY <3>1, <3>2, <3>3
  <2> QED BY <2>1, <2>2, <2>3 DEF LoopInv
<1>4. DeliversToListener'
  <2>1. ASSUME NEW m \in Conns, conn'[m].pc = "sends"
        PROVE  lst.listening
    BY <1>1, <2>1 DEF LstInv, DeliversToListener, Delivering
  <2> QED BY <2>1 DEF LstInv, DeliversToListener, Delivering
<1> QED BY <1>2, <1>3, <1>4, <1>5 DEF Others

\* No endpoint changes.
LEMMA BooksStay ==
  ASSUME LstInv, UNCHANGED <<conn, owner, synRcvdCount>>
  PROVE  Books'
  BY DEF LstInv, Books, ConnInv, OwnerInv, CountInv, HalfOpen

LEMMA ChannelStays ==
  ASSUME LstInv, UNCHANGED <<conn, accepted>>
  PROVE  ChannelInv'
  BY DEF LstInv, ChannelInv

\* cleanupLocked leaves no endpoint that is in the channel.
LEMMA CleansUpKeeps ==
  ASSUME LstInv, NEW l, CleansUp(l), UNCHANGED synRcvdCount
  PROVE  /\ Books' /\ ChannelInv' /\ FromHosts(wire')
         /\ Delivering' = Delivering /\ accepted' = <<>>
         /\ \A n \in Conns : conn'[n].byLoop => /\ conn'[n].byLoop = conn[n].byLoop
                                               /\ conn'[n].pc = conn[n].pc
<1> DEFINE queued == {n \in Conns : conn[n].pc = "queued"}
<1>1. /\ accepted' = <<>>
      /\ conn' = [n \in Conns |-> IF n \in queued THEN Unused ELSE conn[n]]
      /\ owner' = [e \in Ends |-> IF owner[e] \in queued THEN None ELSE owner[e]]
      /\ Emits({ResetOf(conn[n].h, Server, conn[n].peer) : n \in queued})
  BY DEF CleansUp
<1>2. FromHosts(wire')
  <2>1. \A n \in queued : ResetOf(conn[n].h, Server, conn[n].peer).src \in Ends
    BY SegFrom, ListenAssumption DEF ResetOf
  <2>2. FromHosts({ResetOf(conn[n].h, Server, conn[n].peer) : n \in queued})
    BY <2>1 DEF FromHosts
  <2> QED BY <1>1, <2>2, EmitsFromHosts DEF LstInv, WireInv
<1>3. /\ HasFields(Unused) /\ Unused.peer \in Ends /\ ~Unused.isRegistered
      /\ ~IsHalfOpen(Unused) /\ Unused.pc = "free" /\ ~Unused.byLoop
  BY ListenAssumption DEF HasFields, Unused, IsHalfOpen
<1>4. ConnInv'
  BY <1>1, <1>3 DEF LstInv, ConnInv
<1>5. HalfOpen' = HalfOpen /\ Delivering' = Delivering
  BY <1>1, <1>3 DEF HalfOpen, IsHalfOpen, Delivering
<1>6. CountInv'
  BY <1>5 DEF LstInv, CountInv
<1>7. OwnerInv'
  <2>1. ASSUME NEW m \in Conns, conn'[m].isRegistered
        PROVE  owner'[conn'[m].peer] = m
    <3>1. m \notin queued /\ conn'[m] = conn[m]
      BY <1>1, <1>3, <2>1
    <3>2. owner[conn[m].peer] = m /\ conn[m].peer \in Ends
      BY <2>1, <3>1 DEF LstInv, OwnerInv, ConnInv
    <3> QED BY <1>1, <3>1, <3>2
  <2>2. DOMAIN owner' = Ends
    BY <1>1
  <2> QED BY <2>1, <2>2 DEF OwnerInv
<1>8. ChannelInv'
  BY <1>1 DEF ChannelInv
<1>9. \A n \in Conns : conn'[n].byLoop => conn'[n] = conn[n]
  BY <1>1, <1>3
<1> QED BY <1>1, <1>2, <1>4, <1>5, <1>6, <1>7, <1>8, <1>9 DEF Books

-----------------------------------------------------------------------------
(* Operations: the endpoints. *)

LEMMA StartsHandshakeKeeps ==
  ASSUME LstInv, NEW n \in Conns, StartsHandshake(n)
  PROVE  LstInv'
<1> DEFINE e == conn[n].peer
           made == Handshaking(conn[n], Cookie(Add(conn[n].h.ackNum, -1)))
<1>1. /\ conn[n].pc = "starts" /\ UNCHANGED <<lst, loop, app, lq, accepted>>
      /\ e \in Ends /\ HasFields(conn[n]) /\ Books /\ ~conn[n].byLoop
  BY DEF StartsHandshake, LstInv, ConnInv, Books, LoopInv
<1>2. CASE owner[e] = None
  <2>1. /\ owner' = [owner EXCEPT ![e] = n] /\ conn' = [conn EXCEPT ![n] = made]
        /\ Emits({SynOf(made.h, Server, e)}) /\ UNCHANGED synRcvdCount
    BY <1>2 DEF StartsHandshake
  <2>2. /\ HasFields(made) /\ made.peer = e /\ made.pc = "handshake"
        /\ made.byLoop = conn[n].byLoop
    BY <1>1 DEF HasFields, Handshaking
  <2> HIDE DEF made
  <2>3. IsHalfOpen(made) <=> IsHalfOpen(conn[n])
    BY <1>1, <2>2 DEF IsHalfOpen
  <2>4. CountInv'
    BY <1>1, <2>1, <2>3, CountStays
  <2>5. Books'
    BY <1>1, <1>2, <2>1, <2>2, <2>4, RegistersKeeps
  <2>6. Others'
    BY <1>1, <2>1, <2>2, OthersKeep DEF ByLoop
  <2>7. SynOf(made.h, Server, e).src = Server
    BY SegFrom DEF SynOf
  <2>8. FromHosts({SynOf(made.h, Server, e)})
    BY <2>7, ListenAssumption DEF FromHosts
  <2>9. WireInv'
    BY <1>1, <2>1, <2>8, EmitsFromHosts DEF LstInv, WireInv
  <2> QED BY <2>5, <2>6, <2>9 DEF LstInv, Books, Others
<1>3. CASE owner[e] # None
  <2>1. CloseConn(n) /\ GivesBack(n) /\ wire' = wire
    BY <1>3 DEF StartsHandshake
  <2>2. Books'
    BY <1>1, <2>1, HalfOpenCloses
  <2>3. conn' = [conn EXCEPT ![n] = Unused] /\ Unused.pc = "free" /\ ~Unused.byLoop
    BY <2>1 DEF CloseConn, Cleaned, Unused
  <2>4. Others'
    BY <1>1, <2>3, OthersKeep DEF ByLoop
  <2>5. WireInv'
    BY <1>1, <2>1 DEF LstInv, WireInv
  <2> QED BY <2>2, <2>4, <2>5 DEF LstInv, Books, Others
<1> QED BY <1>2, <1>3

\* An endpoint that was not in the channel closes.
LEMMA ClosesKeeps ==
  ASSUME LstInv, NEW n \in Conns, CloseConn(n), CountInv', conn[n].pc # "queued",
         UNCHANGED <<lst, app, accepted>>,
         loop' = loop \/ (loop' = "run" /\ ByLoop(conn[n]))
  PROVE  Books' /\ Others'
<1>1. Books'
  BY CloseConnKeeps DEF LstInv, Books
<1>2. conn' = [conn EXCEPT ![n] = Unused] /\ Unused.pc = "free" /\ ~Unused.byLoop
  BY DEF CloseConn, Cleaned, Unused
<1>4. ~ByLoop(Unused)
  BY <1>2 DEF ByLoop
<1>3. Others'
  BY <1>2, <1>4, OthersKeep
<1> QED BY <1>1, <1>3

LEMMA HalfOpenClosesKeeps ==
  ASSUME LstInv, NEW n \in Conns, CloseConn(n), GivesBack(n),
         conn[n].pc \in {"starts", "handshake", "delivers", "sends"},
         UNCHANGED <<lst, app, accepted>>,
         loop' = loop \/ (loop' = "run" /\ ByLoop(conn[n]))
  PROVE  Books' /\ Others'
<1>1. Books'
  BY HalfOpenCloses DEF LstInv, Books
<1> QED BY <1>1, ClosesKeeps DEF Books

\* An endpoint changes its state, and nothing is taken or given back.
LEMMA MovesKeeps ==
  ASSUME LstInv, NEW n \in Conns, NEW c, conn' = [conn EXCEPT ![n] = c],
         HasFields(c), c.peer = conn[n].peer, c.isRegistered = conn[n].isRegistered,
         IsHalfOpen(c) <=> IsHalfOpen(conn[n]), conn[n].pc # "queued",
         c.pc = "sends" => conn[n].pc = "sends" \/ lst.listening,
         c.byLoop = conn[n].byLoop, c.pc \notin {"starts", "handshake"} \/ ~c.byLoop,
         c.byLoop /\ c.pc \in {"delivers", "sends"} => conn[n].pc = "delivers",
         UNCHANGED <<lst, app, accepted, owner, synRcvdCount, loop>>
  PROVE  Books' /\ Others'
<1>1. Books
  BY DEF LstInv, Books
<1>2. CountInv'
  BY <1>1, CountStays
<1>3. Books'
  BY <1>1, <1>2, GoesOn
<1>4. ByLoop(c) => ByLoop(conn[n])
  BY DEF ByLoop
<1>5. Others'
  BY <1>4, OthersKeep
<1> QED BY <1>3, <1>5

LEMMA HalfOpenReceivesKeeps ==
  ASSUME LstInv, NEW n \in Conns, NEW s \in wire, HalfOpenReceives(n, s)
  PROVE  LstInv'
<1> DEFINE r == HandleSegment(conn[n].h, s, 0)
           d == [conn[n] EXCEPT !.h = r.h,
                   !.pc = IF r.h.state = "completed" THEN "delivers" ELSE @]
<1>1. /\ s.dst = Server /\ conn[n].pc = "handshake" /\ Carries(s, r.out)
      /\ UNCHANGED <<lst, loop, app, lq, accepted>> /\ HasFields(conn[n])
      /\ ~conn[n].byLoop
  BY DEF HalfOpenReceives, LstInv, ConnInv, LoopInv
<1>2. WireInv'
  <2>1. FromHosts(r.out)
    BY <1>1, AnswersFrom, ListenAssumption
  <2> HIDE DEF r
  <2> QED BY <1>1, <2>1, CarriesFromHosts DEF LstInv, WireInv
<1>3. Books' /\ Others'
  <2>1. CASE r.err # "none"
    <3>1. CloseConn(n) /\ GivesBack(n)
      BY <2>1 DEF HalfOpenReceives, HandshakeFails
    <3> QED BY <1>1, <3>1, HalfOpenClosesKeeps
  <2>2. CASE r.err = "none"
    <3>1. conn' = [conn EXCEPT ![n] = d] /\ UNCHANGED <<owner, synRcvdCount>>
      BY <2>2 DEF HalfOpenReceives
    <3>2. /\ HasFields(d) /\ d.peer = conn[n].peer /\ d.byLoop = conn[n].byLoop
          /\ d.isRegistered = conn[n].isRegistered /\ d.pc \in {"handshake", "delivers"}
      <4> HIDE DEF r
      <4> QED BY <1>1 DEF HasFields
    <3> HIDE DEF d, r
    <3>3. IsHalfOpen(d) <=> IsHalfOpen(conn[n])
      BY <1>1, <3>2 DEF IsHalfOpen
    <3> QED BY <1>1, <3>1, <3>2, <3>3, MovesKeeps
  <2> QED BY <2>1, <2>2
<1> QED BY <1>2, <1>3 DEF LstInv, Books, Others

LEMMA LocksToDeliverKeeps ==
  ASSUME LstInv, NEW n \in Conns, LocksToDeliver(n)
  PROVE  LstInv'
<1>1. /\ conn[n].pc = "delivers" /\ UNCHANGED <<wire, lst, app, lq, accepted>>
      /\ HasFields(conn[n])
  BY DEF LocksToDeliver, openVars, LstInv, ConnInv
<1>2. WireInv'
  BY <1>1 DEF LstInv, WireInv
<1>3. Books' /\ Others'
  <2>1. CASE lst.listening
    <3> DEFINE d == [conn[n] EXCEPT !.pc = "sends"]
    <3>1. conn' = [conn EXCEPT ![n] = d] /\ UNCHANGED <<owner, synRcvdCount, loop>>
      BY <2>1 DEF LocksToDeliver
    <3>2. /\ HasFields(d) /\ d.peer = conn[n].peer /\ d.byLoop = conn[n].byLoop
          /\ d.isRegistered = conn[n].isRegistered /\ d.pc = "sends"
      BY <1>1, FieldsOf
    <3> HIDE DEF d
    <3>3. IsHalfOpen(d) <=> IsHalfOpen(conn[n])
      BY <1>1, <3>2 DEF IsHalfOpen
    <3> QED BY <1>1, <2>1, <3>1, <3>2, <3>3, MovesKeeps
  <2>2. CASE ~lst.listening
    <3>1. CloseConn(n) /\ GivesBack(n) /\ LoopGoesOn(n)
      BY <2>2 DEF LocksToDeliver
    <3>2. loop' = loop \/ (loop' = "run" /\ ByLoop(conn[n]))
      BY <1>1, <3>1 DEF LoopGoesOn, ByLoop
    <3> QED BY <1>1, <3>1, <3>2, HalfOpenClosesKeeps
  <2> QED BY <2>1, <2>2
<1> QED BY <1>2, <1>3 DEF LstInv, Books, Others

\* An endpoint reaches the application or its channel, and gives back.
LEMMA GivenToBooks ==
  ASSUME LstInv, NEW n \in Conns, NEW pc \in {"queued", "accepted"},
         conn[n].pc = "sends", conn' = [conn EXCEPT ![n].pc = pc],
         GivesBack(n), owner' = owner
  PROVE  Books'
<1> DEFINE d == [conn[n] EXCEPT !.pc = pc]
<1>1. conn' = [conn EXCEPT ![n] = d] /\ HasFields(conn[n]) /\ Books
  BY DEF LstInv, ConnInv, Books
<1>2. /\ HasFields(d) /\ d.peer = conn[n].peer /\ d.byLoop = conn[n].byLoop
      /\ d.isRegistered = conn[n].isRegistered /\ d.pc = pc
  BY <1>1, FieldsOf
<1> HIDE DEF d
<1>3. ~IsHalfOpen(d)
  BY <1>2 DEF IsHalfOpen
<1>4. CountInv'
  BY <1>1, <1>3, GivesBackCount
<1> QED BY <1>1, <1>2, <1>4, GoesOn

LEMMA DeliveredLeaves ==
  ASSUME LstInv, NEW n \in Conns, conn[n].pc = "sends", LoopGoesOn(n), lst' = lst,
         conn'[n].pc \in {"queued", "accepted"},
         \A m \in Conns \ {n} : conn'[m] = conn[m]
  PROVE  LoopInv'
<1>1. ~ByLoop(conn'[n])
  BY DEF ByLoop
<1>2. \A m \in Conns : ByLoop(conn'[m]) => m # n /\ ByLoop(conn[m])
  BY <1>1
<1>3. \A m \in Conns : conn'[m].byLoop => conn'[m].pc \notin {"starts", "handshake"}
  BY DEF LstInv, LoopInv
<1>4. CASE conn[n].byLoop
  <2>1. ByLoop(conn[n]) /\ loop' = "run"
    BY <1>4 DEF ByLoop, LoopGoesOn
  <2>2. \A m \in Conns : ~ByLoop(conn'[m])
    BY <1>2, <2>1 DEF LstInv, LoopInv
  <2> QED BY <1>3, <2>1, <2>2 DEF LstInv, LoopInv
<1>5. CASE ~conn[n].byLoop
  <2>1. loop' = loop
    BY <1>5 DEF LoopGoesOn
  <2> QED BY <1>2, <1>3, <2>1 DEF LstInv, LoopInv
<1> QED BY <1>4, <1>5

LEMMA SendsKeeps ==
  ASSUME LstInv, NEW n \in Conns, Sends(n)
  PROVE  LstInv'
<1>1. /\ conn[n].pc = "sends" /\ conn' = [conn EXCEPT ![n].pc = "queued"]
      /\ accepted' = Append(accepted, n) /\ GivesBack(n) /\ LoopGoesOn(n)
      /\ UNCHANGED <<wire, lst, app, lq, owner>>
  BY DEF Sends, openVars
<1>2. Books'
  BY <1>1, GivenToBooks
<1>3. WireInv'
  BY <1>1 DEF LstInv, WireInv
<1>4. conn'[n].pc = "queued" /\ \A m \in Conns \ {n} : conn'[m] = conn[m]
  BY <1>1 DEF LstInv, ConnInv, HasFields
<1>5. ChannelInv'
  <2>1. accepted \in Seq(Conns) /\ accepted' \in Seq(Conns)
        /\ Len(accepted') = Len(accepted) + 1 /\ accepted'[Len(accepted) + 1] = n
    BY <1>1 DEF LstInv, ChannelInv
  <2>2. \A i \in 1..Len(accepted) : /\ accepted'[i] = accepted[i] /\ accepted[i] \in Conns
                                     /\ accepted[i] # n /\ conn[accepted[i]].pc = "queued"
    BY <1>1, <2>1 DEF LstInv, ChannelInv
  <2>3. \A i \in 1..Len(accepted') : i = Len(accepted) + 1 \/ i \in 1..Len(accepted)
    BY <2>1
  <2>4. \A i \in 1..Len(accepted') : conn'[accepted'[i]].pc = "queued"
    BY <1>4, <2>1, <2>2, <2>3
  <2>5. \A i, j \in 1..Len(accepted) : accepted[i] = accepted[j] => i = j
    BY DEF LstInv, ChannelInv
  <2>6. \A i, j \in 1..Len(accepted') : accepted'[i] = accepted'[j] => i = j
    BY <2>1, <2>2, <2>3, <2>5
  <2> QED BY <2>1, <2>4, <2>6 DEF ChannelInv
<1>6. CloseInv'
  BY <1>1 DEF LstInv, CloseInv, LoopGoesOn
<1>7. DeliversToListener'
  BY <1>1, <1>4 DEF LstInv, DeliversToListener, Delivering
<1>8. LoopInv'
  BY <1>1, <1>4, DeliveredLeaves
<1> QED BY <1>2, <1>3, <1>5, <1>6, <1>7, <1>8 DEF LstInv, Books

LEMMA AcceptedKeeps ==
  ASSUME LstInv, NEW n \in Conns,
         \/ AcceptedCloses(n)
         \/ \E s \in wire : AcceptedAcks(n, s) \/ AcceptedIsReset(n, s)
  PROVE  LstInv'
<1>1. CASE AcceptedCloses(n)
  <2>1. /\ conn[n].pc \in {"accepted", "failed"} /\ CloseConn(n)
        /\ UNCHANGED <<wire, lst, loop, app, lq, accepted, synRcvdCount>>
        /\ conn' = [conn EXCEPT ![n] = Unused]
    BY <1>1 DEF AcceptedCloses, openVars, CloseConn, Cleaned
  <2>2. ~IsHalfOpen(Unused) /\ ~IsHalfOpen(conn[n])
    BY <2>1 DEF IsHalfOpen, Unused
  <2>3. CountInv'
    BY <2>1, <2>2, CountStays DEF LstInv, Books
  <2>4. Books' /\ Others'
    BY <2>1, <2>3, ClosesKeeps
  <2> QED BY <2>1, <2>4 DEF LstInv, Books, Others, WireInv
<1>2. ASSUME NEW s \in wire, AcceptedAcks(n, s)
      PROVE  LstInv'
  <2>1. /\ s.dst = Server /\ Carries(s, {AckOf(conn[n].h, s)})
        /\ UNCHANGED <<conn, owner, synRcvdCount, accepted, lst, loop, app, lq>>
    BY <1>2 DEF AcceptedAcks, listenVars
  <2>2. AckOf(conn[n].h, s).src = Server
    BY <2>1, SegFrom DEF AckOf
  <2>3. FromHosts({AckOf(conn[n].h, s)})
    BY <2>2, ListenAssumption DEF FromHosts
  <2>4. WireInv'
    BY <2>1, <2>3, CarriesFromHosts DEF LstInv, WireInv
  <2>5. Books' /\ ChannelInv'
    BY <2>1, BooksStay, ChannelStays
  <2> QED BY <2>1, <2>4, <2>5 DEF LstInv, Books, CloseInv, LoopInv, DeliversToListener, Delivering
<1>3. ASSUME NEW s \in wire, AcceptedIsReset(n, s)
      PROVE  LstInv'
  <2> DEFINE d == [conn[n] EXCEPT !.pc = "failed"]
  <2>1. /\ conn[n].pc = "accepted" /\ Carries(s, {ResetOf(conn[n].h, Server, s.src)})
        /\ conn' = [conn EXCEPT ![n] = d] /\ HasFields(conn[n])
        /\ UNCHANGED <<owner, synRcvdCount, accepted, lst, loop, app, lq>>
    BY <1>3 DEF AcceptedIsReset, LstInv, ConnInv
  <2>2. ResetOf(conn[n].h, Server, s.src).src = Server
    BY SegFrom DEF ResetOf
  <2>3. FromHosts({ResetOf(conn[n].h, Server, s.src)})
    BY <2>2, ListenAssumption DEF FromHosts
  <2>4. WireInv'
    BY <2>1, <2>3, CarriesFromHosts DEF LstInv, WireInv
  <2>5. /\ HasFields(d) /\ d.peer = conn[n].peer /\ d.byLoop = conn[n].byLoop
        /\ d.isRegistered = conn[n].isRegistered /\ d.pc = "failed"
    BY <2>1, FieldsOf
  <2> HIDE DEF d
  <2>6. IsHalfOpen(d) <=> IsHalfOpen(conn[n])
    BY <2>1, <2>5 DEF IsHalfOpen
  <2>7. Books' /\ Others'
    BY <2>1, <2>5, <2>6, MovesKeeps
  <2> QED BY <2>4, <2>7 DEF LstInv, Books, Others
<1> QED BY <1>1, <1>2, <1>3

-----------------------------------------------------------------------------
(* Operations: the loop. *)

\* A segment that nobody of Conns is registered for.
LEMMA QueuesKeeps ==
  ASSUME LstInv, NEW s \in wire, Queues(s)
  PROVE  LstInv'
<1>1. /\ lq' = {s} /\ Carries(s, {})
      /\ UNCHANGED <<conn, owner, synRcvdCount, accepted, lst, loop, app>>
  BY DEF Queues
<1>2. FromHosts(wire')
  BY <1>1, CarriesFromHosts DEF FromHosts, LstInv, WireInv
<1>3. WireInv'
  BY <1>1, <1>2 DEF FromHosts, LstInv, WireInv
<1>4. Books' /\ ChannelInv'
  BY <1>1, BooksStay, ChannelStays
<1> QED BY <1>1, <1>3, <1>4 DEF LstInv, Books, CloseInv, LoopInv, DeliversToListener, Delivering

LEMMA FreeIsFound ==
  ASSUME NEW n \in Conns, n = NextFree
  PROVE  conn[n].pc = "free"
<1>1. n # None
  BY ListenAssumption DEF None
<1> QED BY <1>1 DEF NextFree

LEMMA StartsGoroutineKeeps ==
  ASSUME LstInv, NEW s \in lq, NEW n \in Conns, StartsGoroutine(s, n),
         UNCHANGED <<lst, app, accepted>>
  PROVE  Books' /\ Others' /\ FromHosts(wire')
<1> DEFINE c == Created(s, 0, s.seq, "starts", FALSE)
<1>1. /\ synRcvdCount < SynRcvdCountThreshold /\ synRcvdCount' = synRcvdCount + 1
      /\ conn' = [conn EXCEPT ![n] = c] /\ UNCHANGED <<wire, loop, owner>>
      /\ conn[n].pc = "free"
  BY FreeIsFound DEF StartsGoroutine
<1>2. /\ HasFields(c) /\ c.peer \in Ends /\ ~c.isRegistered /\ IsHalfOpen(c)
      /\ c.pc = "starts" /\ ~c.byLoop /\ ~IsHalfOpen(conn[n])
  BY <1>1 DEF HasFields, Created, IsHalfOpen, LstInv, WireInv, FromHosts
<1> HIDE DEF c
<1>3. CountInv'
  <2>1. synRcvdCount \in Nat
    BY CountType DEF LstInv
  <2>2. synRcvdCount' = synRcvdCount + (IF IsHalfOpen(c) THEN 1 ELSE 0)
                                     - (IF IsHalfOpen(conn[n]) THEN 1 ELSE 0)
    BY <1>1, <1>2, <2>1
  <2>3. synRcvdCount' <= SynRcvdCountThreshold
    BY <1>1, <2>1, ListenAssumption
  <2> QED BY <1>1, <2>2, <2>3, CountOf DEF LstInv
<1>4. conn'[n] = c /\ DOMAIN conn' = Conns /\ \A m \in Conns \ {n} : conn'[m] = conn[m]
  BY <1>1 DEF LstInv, ConnInv
<1>5. ConnInv' /\ OwnerInv'
  BY <1>1, <1>2, <1>4 DEF LstInv, ConnInv, OwnerInv
<1>6. Others'
  BY <1>1, <1>2, OthersKeep DEF ByLoop
<1> QED BY <1>1, <1>3, <1>5, <1>6 DEF Books, LstInv, WireInv

LEMMA TakesCookieKeeps ==
  ASSUME LstInv, NEW s \in lq, NEW n \in Conns, TakesCookie(s, n),
         UNCHANGED <<lst, app, accepted>>, loop = "run"
  PROVE  Books' /\ Others' /\ FromHosts(wire')
<1> DEFINE c == [Created(s, Add(s.ack, -1), Add(s.seq, -1), "delivers", TRUE)
                   EXCEPT !.isRegistered = TRUE]
<1>1. UNCHANGED <<wire, synRcvdCount>> /\ conn[n].pc = "free" /\ Books
  BY FreeIsFound DEF TakesCookie, LstInv, Books
<1>2. FromHosts(wire')
  BY <1>1 DEF LstInv, WireInv
<1>3. CASE owner[s.src] = None
  <2>1. /\ conn' = [conn EXCEPT ![n] = c] /\ owner' = [owner EXCEPT ![s.src] = n]
        /\ loop' = "delivers"
    BY <1>3 DEF TakesCookie
  <2>2. /\ HasFields(c) /\ c.peer = s.src /\ s.src \in Ends /\ c.byLoop = TRUE
        /\ c.pc = "delivers"
    BY DEF HasFields, Created, LstInv, WireInv, FromHosts
  <2> HIDE DEF c
  <2>3. ~IsHalfOpen(c) /\ ~IsHalfOpen(conn[n])
    BY <1>1, <2>2 DEF IsHalfOpen
  <2>4. CountInv'
    BY <1>1, <2>1, <2>3, CountStays
  <2>5. Books'
    BY <1>1, <1>3, <2>1, <2>2, <2>4, RegistersKeeps
  <2> QED BY <1>1, <1>2, <2>1, <2>2, <2>5, OthersKeep
<1>4. CASE owner[s.src] # None
  <2>1. UNCHANGED <<conn, owner, loop>>
    BY <1>4 DEF TakesCookie
  <2>2. Books' /\ ChannelInv'
    BY <1>1, <2>1, BooksStay, ChannelStays
  <2> QED BY <1>2, <2>1, <2>2 DEF LstInv, Others, CloseInv, LoopInv, DeliversToListener, Delivering
<1> QED BY <1>3, <1>4

LEMMA HandlesQueuedKeeps ==
  ASSUME LstInv, HandlesQueued
  PROVE  LstInv'
<1>1. lq' = {} /\ UNCHANGED <<lst, app, accepted>> /\ loop = "run"
  BY DEF HandlesQueued
<1>2. PICK s \in lq : \/ \E n \in Conns : StartsGoroutine(s, n) \/ TakesCookie(s, n)
                      \/ SendsCookie(s) \/ Ignores(s)
  BY DEF HandlesQueued
<1>3. Books' /\ Others' /\ FromHosts(wire')
  <2>1. CASE \E n \in Conns : StartsGoroutine(s, n)
    BY <1>1, <2>1, StartsGoroutineKeeps
  <2>2. CASE \E n \in Conns : TakesCookie(s, n)
    BY <1>1, <2>2, TakesCookieKeeps
  <2>3. CASE SendsCookie(s) \/ Ignores(s)
    <3> DEFINE m == SynOf(SynRcvd(Cookie(s.seq), s.seq), Server, s.src)
    <3>1. UNCHANGED <<loop, conn, owner, synRcvdCount>> /\ (wire' = wire \/ Emits({m}))
      BY <2>3 DEF SendsCookie, Ignores
    <3>2. m.src = Server
      BY SegFrom DEF SynOf
    <3> HIDE DEF m
    <3>3. FromHosts({m})
      BY <3>2, ListenAssumption DEF FromHosts
    <3>4. FromHosts(wire')
      BY <3>1, <3>3, EmitsFromHosts DEF LstInv, WireInv
    <3>5. Books' /\ ChannelInv'
      BY <1>1, <3>1, BooksStay, ChannelStays
    <3> QED BY <1>1, <3>1, <3>4, <3>5
            DEF LstInv, Others, CloseInv, LoopInv, DeliversToListener, Delivering
  <2> QED BY <1>2, <2>1, <2>2, <2>3
<1> QED BY <1>1, <1>3 DEF LstInv, Books, Others, WireInv, FromHosts

LEMMA LoopEndsKeeps ==
  ASSUME LstInv, LoopEnds
  PROVE  LstInv'
<1> DEFINE ended == [lst EXCEPT !.listening = FALSE, !.running = FALSE]
<1>1. /\ loop = "exits" /\ Delivering = {} /\ loop' = "gone" /\ lq' = {}
      /\ UNCHANGED <<app, synRcvdCount>>
  BY DEF LoopEnds, CanWrite
<1>2. /\ DOMAIN ended = {"listening", "registered", "running", "cleanup", "notified", "backlog"}
      /\ ~ended.listening /\ ended.listening \in BOOLEAN /\ ended.running = ended.listening
      /\ ended.cleanup = lst.cleanup /\ ended.notified = lst.notified
  BY DEF LstInv, CloseInv
<1>3. lst.notified /\ lst.listening /\ app \in {"closes", "closed"}
  BY <1>1 DEF LstInv, CloseInv, LoopInv
<1>6. \A n \in Conns : ~ByLoop(conn[n])
  BY <1>1 DEF LstInv, LoopInv
<1>4. CASE lst.cleanup
  <2>1. CleansUp(ended)
    BY <1>4 DEF LoopEnds
  <2>2. lst' = [ended EXCEPT !.registered = FALSE, !.cleanup = FALSE]
    BY <2>1 DEF CleansUp
  <2>3. /\ DOMAIN lst' = {"listening", "registered", "running", "cleanup", "notified", "backlog"}
        /\ ~lst'.listening /\ lst'.listening \in BOOLEAN /\ lst'.running = lst'.listening
        /\ ~lst'.cleanup /\ lst'.cleanup \in BOOLEAN /\ lst'.notified = lst.notified
    BY <1>2, <2>2
  <2>4. /\ Books' /\ ChannelInv' /\ FromHosts(wire')
        /\ Delivering' = Delivering /\ accepted' = <<>>
        /\ \A n \in Conns : conn'[n].byLoop => /\ conn'[n].byLoop = conn[n].byLoop
                                              /\ conn'[n].pc = conn[n].pc
    BY <1>1, <2>1, CleansUpKeeps
  <2>5. CloseInv'
    BY <1>1, <1>3, <2>3 DEF LstInv, CloseInv
  <2>7. LoopInv'
    BY <1>1, <1>6, <2>4 DEF LstInv, LoopInv, ByLoop
  <2>6. DeliversToListener'
    BY <1>1, <2>4 DEF DeliversToListener
  <2> QED BY <1>1, <2>4, <2>5, <2>6, <2>7 DEF LstInv, Books, WireInv, FromHosts
<1>5. CASE ~lst.cleanup
  <2>1. lst' = ended /\ UNCHANGED <<wire, accepted, conn, owner>>
    BY <1>5 DEF LoopEnds
  <2>2. app = "closes"
    BY <1>3, <1>5 DEF LstInv, CloseInv
  <2> HIDE DEF ended
  <2>3. Books' /\ ChannelInv'
    BY <1>1, <2>1, BooksStay, ChannelStays
  <2>4. CloseInv'
    BY <1>1, <1>2, <2>1, <2>2 DEF LstInv, CloseInv
  <2>5. DeliversToListener'
    BY <1>1, <2>1, <2>2 DEF DeliversToListener, Delivering
  <2>6. LoopInv'
    BY <1>1, <1>6, <2>1 DEF LstInv, LoopInv, ByLoop
  <2> QED BY <1>1, <2>1, <2>3, <2>4, <2>5, <2>6 DEF LstInv, Books, WireInv, FromHosts
<1> QED BY <1>4, <1>5

-----------------------------------------------------------------------------
(* Operations: the application. *)

LEMMA AcceptsHeadKeeps ==
  ASSUME LstInv, AcceptsHead
  PROVE  LstInv'
<1> DEFINE n == Head(accepted)
           d == [conn[n] EXCEPT !.pc = "accepted"]
<1>1. /\ accepted # <<>> /\ accepted' = Tail(accepted) /\ conn' = [conn EXCEPT ![n] = d]
      /\ UNCHANGED <<wire, lst, loop, app, lq, owner, synRcvdCount>>
  BY DEF AcceptsHead, openVars
<1>2. /\ accepted \in Seq(Conns) /\ Len(accepted) >= 1 /\ n = accepted[1]
  BY <1>1 DEF LstInv, ChannelInv
<1>3. n \in Conns /\ conn[n].pc = "queued" /\ HasFields(conn[n])
  BY <1>2 DEF LstInv, ChannelInv, ConnInv
<1>4. /\ HasFields(d) /\ d.peer = conn[n].peer /\ d.byLoop = conn[n].byLoop
      /\ d.isRegistered = conn[n].isRegistered /\ d.pc = "accepted"
  BY <1>3, FieldsOf
<1> HIDE DEF d
<1>5. IsHalfOpen(d) <=> IsHalfOpen(conn[n])
  BY <1>3, <1>4 DEF IsHalfOpen
<1>6. Books'
  <2>1. Books
    BY DEF LstInv, Books
  <2>2. CountInv'
    BY <1>1, <1>3, <1>5, <2>1, CountStays
  <2> QED BY <1>1, <1>3, <1>4, <2>1, <2>2, GoesOn
<1>7. conn'[n] = d /\ \A m \in Conns \ {n} : conn'[m] = conn[m]
  BY <1>1, <1>3 DEF LstInv, ConnInv
<1>8. ChannelInv'
  <2>1. /\ accepted' \in Seq(Conns) /\ Len(accepted') = Len(accepted) - 1
        /\ \A i \in 1..Len(accepted') : /\ accepted'[i] = accepted[i + 1]
                                         /\ i + 1 \in 1..Len(accepted)
    BY <1>1, <1>2
  <2>2. ASSUME NEW i \in 1..Len(accepted')
        PROVE  accepted'[i] \in Conns \ {n} /\ conn[accepted'[i]].pc = "queued"
    <3>1. accepted[i + 1] # accepted[1]
      BY <1>2, <2>1 DEF LstInv, ChannelInv
    <3> QED BY <1>2, <2>1, <3>1 DEF LstInv, ChannelInv
  <2>3. ASSUME NEW i \in 1..Len(accepted'), NEW j \in 1..Len(accepted'),
               accepted'[i] = accepted'[j]
        PROVE  i = j
    <3>1. i + 1 = j + 1
      BY <2>1, <2>3 DEF LstInv, ChannelInv
    <3> QED BY <3>1
  <2> HIDE DEF n
  <2> QED BY <1>7, <2>1, <2>2, <2>3 DEF ChannelInv
<1>9. CloseInv' /\ LoopInv'
  <2>1. \A m \in Conns : ByLoop(conn'[m]) => ByLoop(conn[m])
    <3> HIDE DEF n
    <3> QED BY <1>4, <1>7 DEF ByLoop
  <2>2. \A m \in Conns : conn'[m].byLoop => conn'[m].pc \notin {"starts", "handshake"}
    <3> HIDE DEF n
    <3> QED BY <1>4, <1>7 DEF LstInv, LoopInv
  <2>3. CloseInv'
    BY <1>1 DEF LstInv, CloseInv
  <2> QED BY <1>1, <2>1, <2>2, <2>3 DEF LstInv, LoopInv
<1>10. DeliversToListener'
  <2>1. Delivering' = Delivering
    <3> HIDE DEF n
    <3> QED BY <1>3, <1>4, <1>7 DEF Delivering
  <2> QED BY <1>1, <2>1 DEF LstInv, DeliversToListener
<1> QED BY <1>1, <1>6, <1>8, <1>9, <1>10 DEF LstInv, Books, WireInv

LEMMA AcceptsFromKeeps ==
  ASSUME LstInv, NEW n \in Conns, AcceptsFrom(n)
  PROVE  LstInv'
<1> DEFINE d == [conn[n] EXCEPT !.pc = "accepted"]
<1>1. /\ conn[n].pc = "sends" /\ conn' = [conn EXCEPT ![n].pc = "accepted"]
      /\ GivesBack(n) /\ LoopGoesOn(n)
      /\ UNCHANGED <<wire, lst, app, lq, accepted, owner>>
  BY DEF AcceptsFrom, openVars
<1>2. Books'
  BY <1>1, GivenToBooks
<1>3. conn' = [conn EXCEPT ![n] = d] /\ d.pc = "accepted"
  BY <1>1 DEF LstInv, ConnInv, HasFields
<1> HIDE DEF d
<1>5. \/ loop' = loop /\ (ByLoop(d) => ByLoop(conn[n]))
      \/ loop' = "run" /\ ByLoop(conn[n]) /\ ~ByLoop(d)
  BY <1>1, <1>3 DEF LoopGoesOn, ByLoop
<1>4. Others'
  BY <1>1, <1>3, <1>5, OthersKeep
<1> QED BY <1>1, <1>2, <1>4 DEF LstInv, Books, Others, WireInv

LEMMA CloseListenerKeeps ==
  ASSUME LstInv, CloseListener
  PROVE  LstInv'
<1>1. /\ app = "closes" /\ Delivering = {} /\ app' = "closed"
      /\ UNCHANGED <<loop, lq, synRcvdCount>>
  BY DEF CloseListener, CanWrite
<1>2. CASE lst.running
  <2>1. /\ lst' = [lst EXCEPT !.registered = FALSE, !.cleanup = TRUE, !.notified = TRUE]
        /\ UNCHANGED <<wire, accepted, conn, owner>>
    BY <1>2 DEF CloseListener
  <2>2. Books' /\ ChannelInv'
    BY <1>1, <2>1, BooksStay, ChannelStays
  <2>3. /\ DOMAIN lst' = {"listening", "registered", "running", "cleanup", "notified", "backlog"}
        /\ lst'.listening = lst.listening /\ lst'.running = lst.running
        /\ lst'.cleanup = TRUE /\ lst'.notified = TRUE
    BY <2>1 DEF LstInv, CloseInv
  <2>4. lst.listening
    BY <1>2 DEF LstInv, CloseInv
  <2>5. CloseInv'
    BY <1>1, <2>3, <2>4 DEF LstInv, CloseInv
  <2>6. DeliversToListener'
    BY <2>3, <2>4 DEF DeliversToListener
  <2>7. LoopInv'
    BY <1>1, <2>1, <2>3 DEF LstInv, LoopInv
  <2> QED BY <1>1, <2>1, <2>2, <2>5, <2>6, <2>7 DEF LstInv, Books, WireInv
<1>3. CASE ~lst.running
  <2>1. CleansUp(lst)
    BY <1>3 DEF CloseListener
  <2>2. lst' = [lst EXCEPT !.registered = FALSE, !.cleanup = FALSE]
    BY <2>1 DEF CleansUp
  <2>3. /\ DOMAIN lst' = {"listening", "registered", "running", "cleanup", "notified", "backlog"}
        /\ lst'.listening = lst.listening /\ lst'.running = lst.running
        /\ lst'.cleanup = FALSE /\ lst'.notified = lst.notified
    BY <2>2 DEF LstInv, CloseInv
  <2>4. /\ Books' /\ ChannelInv' /\ FromHosts(wire')
        /\ Delivering' = Delivering /\ accepted' = <<>>
        /\ \A n \in Conns : conn'[n].byLoop => /\ conn'[n].byLoop = conn[n].byLoop
                                              /\ conn'[n].pc = conn[n].pc
    BY <1>1, <2>1, CleansUpKeeps
  <2>8. LoopInv'
    <3>1. \A m \in Conns : ByLoop(conn'[m]) => ByLoop(conn[m])
      BY <2>4 DEF ByLoop
    <3>2. \A m \in Conns : conn'[m].byLoop => conn'[m].pc \notin {"starts", "handshake"}
      BY <2>4 DEF LstInv, LoopInv
    <3> QED BY <1>1, <2>3, <3>1, <3>2 DEF LstInv, LoopInv
  <2>5. ~lst.listening
    BY <1>3 DEF LstInv, CloseInv
  <2>6. CloseInv'
    BY <1>1, <2>3, <2>5 DEF LstInv, CloseInv
  <2>7. DeliversToListener'
    BY <1>1, <2>4 DEF DeliversToListener
  <2> QED BY <1>1, <2>4, <2>6, <2>7, <2>8 DEF LstInv, Books, WireInv
<1> QED BY <1>2, <1>3

\* Close begins, its first half, the loop that is told to stop, and time.
LEMMA StopsKeeps ==
  ASSUME LstInv, CallsClose \/ ShutsDown \/ LoopStops \/ Ticks
  PROVE  LstInv'
<1>1. UNCHANGED <<wire, lq, accepted, conn, owner, synRcvdCount>>
  BY DEF CallsClose, ShutsDown, LoopStops, Ticks, openVars
<1>2. Books' /\ ChannelInv'
  BY <1>1, BooksStay, ChannelStays
<1>3. Delivering' = Delivering
  BY <1>1 DEF Delivering
<1>4. CloseInv' /\ LoopInv' /\ DeliversToListener'
  <2>1. CASE CallsClose
    BY <1>1, <1>3, <2>1 DEF CallsClose, LstInv, CloseInv, LoopInv,
                              DeliversToListener
  <2>2. CASE ShutsDown
    <3>1. /\ app = "shuts" /\ app' = "closes" /\ loop' = loop
          /\ lst' = [lst EXCEPT !.notified = TRUE]
      BY <2>2 DEF ShutsDown
    <3>2. /\ DOMAIN lst' = {"listening", "registered", "running", "cleanup", "notified", "backlog"}
          /\ lst'.listening = lst.listening /\ lst'.running = lst.running
          /\ lst'.cleanup = lst.cleanup /\ lst'.notified = TRUE
      BY <3>1 DEF LstInv, CloseInv
    <3> QED BY <1>1, <1>3, <3>1, <3>2 DEF LstInv, CloseInv, LoopInv, DeliversToListener
  <2>3. CASE LoopStops
    <3>1. lst.notified /\ loop' = "exits" /\ loop = "run" /\ UNCHANGED <<lst, app>>
      BY <2>3 DEF LoopStops
    <3>2. lst.listening /\ \A n \in Conns : ~ByLoop(conn[n])
      BY <3>1 DEF LstInv, LoopInv
    <3> QED BY <1>1, <1>3, <3>1, <3>2 DEF LstInv, CloseInv, LoopInv, DeliversToListener
  <2>4. CASE Ticks
    BY <1>1, <1>3, <2>4 DEF Ticks, LstInv, CloseInv, LoopInv, DeliversToListener
  <2> QED BY <2>1, <2>2, <2>3, <2>4
<1> QED BY <1>1, <1>2, <1>4 DEF LstInv, Books, WireInv

LEMMA ResendsSynAckKeeps ==
  ASSUME LstInv, NEW n \in Conns, ResendsSynAck(n)
  PROVE  FromHosts(wire') /\ UNCHANGED listenVars
<1> DEFINE m == SynOf(conn[n].h, Server, conn[n].peer)
<1>1. Emits({m}) /\ UNCHANGED listenVars
  BY DEF ResendsSynAck
<1>2. m.src = Server
  BY SegFrom DEF SynOf
<1> HIDE DEF m
<1>3. FromHosts({m})
  BY <1>2, ListenAssumption DEF FromHosts
<1> QED BY <1>1, <1>3, EmitsFromHosts DEF LstInv, WireInv

\* Only the network changes.
LEMMA WireChanges ==
  ASSUME LstInv, FromHosts(wire'), UNCHANGED listenVars
  PROVE  LstInv'
<1>1. UNCHANGED <<lst, loop, app, lq, accepted, conn, owner, synRcvdCount>>
  BY DEF listenVars
<1>2. Books' /\ ChannelInv'
  BY <1>1, BooksStay, ChannelStays
<1> QED BY <1>1, <1>2 DEF LstInv, Books, WireInv, CloseInv, LoopInv,
                                 DeliversToListener, Delivering

\* What the hosts that connect do.
LEMMA OpenersKeep ==
  ASSUME LstInv, NEW opening \in SUBSET Ends, OpenNext(opening)
  PROVE  FromHosts(wire')
<1>1. ASSUME NEW e \in opening, Connect(e) \/ Resends(e) \/ GivesUp(e) \/ Closes(e)
      PROVE  FromHosts(wire')
  <2>1. \/ wire' = wire
        \/ \E h : Emits({SynOf(h, e, PeerOf[e])})
    BY <1>1 DEF Connect, Resends, GivesUp, Closes
  <2>2. ASSUME NEW h, Emits({SynOf(h, e, PeerOf[e])})
        PROVE  FromHosts(wire')
    <3>1. SynOf(h, e, PeerOf[e]).src = e
      BY SegFrom DEF SynOf
    <3>2. FromHosts({SynOf(h, e, PeerOf[e])})
      BY <3>1 DEF FromHosts
    <3> QED BY <2>2, <3>2, EmitsFromHosts DEF LstInv, WireInv
  <2> QED BY <2>1, <2>2 DEF LstInv, WireInv
<1>2. ASSUME NEW s \in wire, NEW e \in opening,
             OpenerReceives(e, s) \/ AcksAgain(e, s) \/ IsReset(e, s)
      PROVE  FromHosts(wire')
  <2>1. s.dst = e
    BY <1>2 DEF OpenerReceives, AcksAgain, IsReset, IsFor
  <2>2. PICK out : Carries(s, out) /\ out \in {HandleSegment(opener[e].h, s, Fresh(e)).out,
                                             {AckOf(opener[e].h, s)},
                                             {ResetOf(opener[e].h, e, s.src)}}
    BY <1>2 DEF OpenerReceives, AcksAgain, IsReset
  <2>3. FromHosts(HandleSegment(opener[e].h, s, Fresh(e)).out)
    BY <2>1, AnswersFrom
  <2>4. AckOf(opener[e].h, s).src = e /\ ResetOf(opener[e].h, e, s.src).src = e
    BY <2>1, SegFrom DEF AckOf, ResetOf
  <2>5. FromHosts({AckOf(opener[e].h, s)}) /\ FromHosts({ResetOf(opener[e].h, e, s.src)})
    BY <2>4 DEF FromHosts
  <2>6. FromHosts(out)
    BY <2>2, <2>3, <2>5
  <2> QED BY <2>2, <2>6, CarriesFromHosts DEF LstInv, WireInv
<1>3. ASSUME NEW s \in wire, Loses(s)
      PROVE  FromHosts(wire')
  BY <1>3 DEF Loses, LstInv, WireInv, FromHosts
<1> QED BY <1>1, <1>2, <1>3 DEF OpenNext

-----------------------------------------------------------------------------
(* The theorem. *)

LEMMA LstInvInit == LstInit => LstInv
<1> SUFFICES ASSUME LstInit PROVE LstInv
  OBVIOUS
<1>1. PICK spent \in Nat, listening \in BOOLEAN, backlog \in Nat, start \in Epochs :
        OpenInit(spent) /\ ListenInit(listening, backlog, start)
  BY DEF LstInit
<1> USE <1>1 DEF ListenInit
<1>2. WireInv
  BY DEF OpenInit, WireInv, FromHosts
<1>3. /\ HasFields(Unused) /\ Unused.peer \in Ends /\ ~Unused.isRegistered
      /\ ~IsHalfOpen(Unused) /\ Unused.pc = "free" /\ ~Unused.byLoop
  BY ListenAssumption DEF HasFields, Unused, IsHalfOpen
<1>4. ConnInv /\ OwnerInv
  BY <1>3 DEF ConnInv, OwnerInv
<1>5. CountInv
  <2>1. HalfOpen = {}
    BY <1>3 DEF HalfOpen
  <2>2. IsFiniteSet(HalfOpen) /\ Cardinality(HalfOpen) = 0
    BY <2>1, FS_EmptySet
  <2> QED BY <2>2, ListenAssumption DEF CountInv
<1>6. ChannelInv
  BY DEF ChannelInv
<1>7. CloseInv
  BY DEF CloseInv
<1>8. LoopInv
  BY <1>3 DEF LoopInv, ByLoop
<1>9. DeliversToListener
  BY <1>3 DEF DeliversToListener, Delivering
<1> QED BY <1>2, <1>4, <1>5, <1>6, <1>7, <1>8, <1>9 DEF LstInv

LEMMA LstInvStep == LstInv /\ [LstNext]_lstVars => LstInv'
<1> SUFFICES ASSUME LstInv, [LstNext]_lstVars PROVE LstInv'
  OBVIOUS
<1>1. CASE \E opening \in SUBSET Ends : OpenNext(opening) /\ UNCHANGED listenVars
  BY <1>1, OpenersKeep, WireChanges
<1>2. ASSUME NEW n \in Conns,
             StartsHandshake(n) \/ ResendsSynAck(n) \/ HalfOpenGivesUp(n)
               \/ Delivers(n) \/ AcceptedCloses(n) \/ AcceptsFrom(n)
      PROVE  LstInv'
  <2>1. CASE HalfOpenGivesUp(n)
    <3>1. /\ CloseConn(n) /\ GivesBack(n) /\ conn[n].pc = "handshake"
          /\ UNCHANGED <<wire, lst, loop, app, lq, accepted>>
      BY <2>1 DEF HalfOpenGivesUp, HandshakeFails, openVars
    <3>2. Books' /\ Others'
      BY <3>1, HalfOpenClosesKeeps
    <3> QED BY <3>1, <3>2 DEF LstInv, Books, Others, WireInv
  <2>2. CASE Delivers(n)
    BY <2>2, LocksToDeliverKeeps, SendsKeeps DEF Delivers
  <2>3. CASE ResendsSynAck(n)
    BY <2>3, ResendsSynAckKeeps, WireChanges
  <2> QED BY <1>2, <2>1, <2>2, <2>3, StartsHandshakeKeeps, AcceptedKeeps, AcceptsFromKeeps
<1>3. ASSUME NEW s \in wire,
             \/ \E n \in Conns : \/ HalfOpenReceives(n, s)
                                \/ AcceptedAcks(n, s) \/ AcceptedIsReset(n, s)
             \/ Queues(s)
      PROVE  LstInv'
  BY <1>3, HalfOpenReceivesKeeps, AcceptedKeeps, QueuesKeeps
<1>4. CASE LoopWork \/ AcceptsHead \/ CallsClose \/ CloseWork \/ Ticks
  BY <1>4, HandlesQueuedKeeps, LoopEndsKeeps, AcceptsHeadKeeps, CloseListenerKeeps,
     StopsKeeps DEF LoopWork, CloseWork
<1>5. CASE UNCHANGED lstVars
  <2>1. UNCHANGED listenVars /\ wire' = wire
    BY <1>5 DEF lstVars, openVars
  <2> QED BY <2>1, WireChanges DEF LstInv, WireInv
<1> QED BY <1>1, <1>2, <1>3, <1>4, <1>5 DEF LstNext, ListenNext

\* For any number of clients, connections, room in the channel and threshold:
\* half-open connections are counted right, whatever becomes of a handshake,
\* and ports stay with the endpoint that registered them (accept.go:261).
THEOREM ListenerGivesBack == LstSpec => []GivenBack
<1>1. LstInv => GivenBack
  BY DEF LstInv, CountInv, OwnerInv, GivenBack, HalfOpen, IsHalfOpen
<1> QED BY <1>1, LstInvInit, LstInvStep, PTL DEF LstSpec

\* An endpoint is only sent into an open channel, and nothing is left in that of
\* a closed listener (accept.go:241, endpoint.go:699), however Close, the loop
\* and the goroutines that deliver meet.
THEOREM ListenerChannelIsEmptied == LstSpec => []DeliversToListener
<1>1. LstInv => DeliversToListener
  BY DEF LstInv
<1> QED BY <1>1, LstInvInit, LstInvStep, PTL DEF LstSpec

-----------------------------------------------------------------------------
(* Sequence numbers.  The comparisons of seqnum.go agree with those of the *)
(* integers on the numbers of an unbounded stream, for every width, as     *)
(* long as the numbers compared are less than half the number space apart. *)
(* This is what lets the other TCP modules number the bytes of a stream    *)
(* without wrapping; the handshake and the listener wrap.                  *)

LEMMA ModulusPositive == Modulus \in Nat \ {0} /\ Modulus = Half + Half
  BY HalfAssumption DEF Modulus

LEMMA ModUnique ==
  ASSUME NEW M \in Nat \ {0}, NEW q \in Int, NEW r \in 0..(M - 1)
  PROVE  ((q * M) + r) % M = r
  BY SMTT(30)

LEMMA ModDef ==
  ASSUME NEW M \in Nat \ {0}, NEW d \in Int
  PROVE  /\ d \div M \in Int
         /\ d % M \in 0..(M - 1)
         /\ d = ((d \div M) * M) + (d % M)
  BY SMTT(30)

LEMMA ModShift ==
  ASSUME NEW M \in Nat \ {0}, NEW d \in Int, NEW q \in Int
  PROVE  (d + (q * M)) % M = d % M
<1> DEFINE k == d \div M
           r == d % M
<1>1. k \in Int /\ r \in 0..(M - 1) /\ d = (k * M) + r
  BY ModDef
<1>2. d + (q * M) = ((k + q) * M) + r
  BY <1>1, SMTT(30)
<1>3. (((k + q) * M) + r) % M = r
  <2>1. k + q \in Int
    BY <1>1
  <2> HIDE DEF k, r
  <2> QED BY <2>1, <1>1, ModUnique
<1> QED BY <1>2, <1>3

\* Wrapping two numbers first does not change their wrapped difference.
LEMMA WrappedDifference ==
  ASSUME NEW x \in Int, NEW y \in Int
  PROVE  (Wrap(x) - Wrap(y)) % Modulus = (x - y) % Modulus
<1> DEFINE p == x \div Modulus
           q == y \div Modulus
<1>1. /\ p \in Int /\ q \in Int
      /\ Wrap(x) \in Int /\ x = (p * Modulus) + Wrap(x)
      /\ Wrap(y) \in Int /\ y = (q * Modulus) + Wrap(y)
  <2>1. Modulus \in Nat \ {0}
    BY ModulusPositive
  <2>2. p \in Int /\ x % Modulus \in 0..(Modulus - 1)
        /\ x = (p * Modulus) + (x % Modulus)
    BY <2>1, ModDef
  <2>3. q \in Int /\ y % Modulus \in 0..(Modulus - 1)
        /\ y = (q * Modulus) + (y % Modulus)
    BY <2>1, ModDef
  <2> HIDE DEF p, q
  <2>4. x % Modulus \in Int /\ y % Modulus \in Int
    BY <2>1, <2>2, <2>3
  <2> QED BY <2>2, <2>3, <2>4 DEF Wrap
<1> HIDE DEF p, q
<1>2. x - y = (Wrap(x) - Wrap(y)) + ((p - q) * Modulus)
  BY <1>1, ModulusPositive, SMTT(30)
<1>3. p - q \in Int /\ Wrap(x) - Wrap(y) \in Int
  BY <1>1
<1> QED BY <1>2, <1>3, ModShift, ModulusPositive

LEMMA ModSmall ==
  ASSUME NEW d \in Int
  PROVE  /\ (0 <= d /\ d < Modulus) => d % Modulus = d
         /\ (-Modulus <= d /\ d < 0) => d % Modulus = d + Modulus
  BY ModulusPositive, SMTT(30)

\* LessThan is the order of the integers on numbers less than 2^31 apart.
THEOREM LessThanAgrees ==
  ASSUME NEW x \in Int, NEW y \in Int,
         x - y < Half, y - x <= Half
  PROVE  LessThan(Wrap(x), Wrap(y)) <=> x < y
<1>1. (Wrap(x) - Wrap(y)) % Modulus = (x - y) % Modulus
  BY WrappedDifference
<1>2. /\ x - y >= 0 => (x - y) % Modulus = x - y
      /\ x - y < 0 => (x - y) % Modulus = (x - y) + Modulus
  BY ModSmall, ModulusPositive, HalfAssumption
<1> QED BY <1>1, <1>2, ModulusPositive, HalfAssumption DEF LessThan

\* InRange is membership of [a, b) for every number within the number space
\* above a or below b.
THEOREM InRangeAgrees ==
  ASSUME NEW v \in Int, NEW a \in Int, NEW b \in Int,
         a <= b, b - a < Modulus, v - a < Modulus, b - v <= Modulus
  PROVE  InRange(Wrap(v), Wrap(a), Wrap(b)) <=> (a <= v /\ v < b)
<1>1. /\ (Wrap(v) - Wrap(a)) % Modulus = (v - a) % Modulus
      /\ (Wrap(b) - Wrap(a)) % Modulus = b - a
  <2>1. (b - a) % Modulus = b - a
    <3>1. b - a \in Int /\ 0 <= b - a
      OBVIOUS
    <3> QED BY <3>1, ModSmall
  <2> QED BY <2>1, WrappedDifference
<1>2. /\ v - a >= 0 => (v - a) % Modulus = v - a
      /\ v - a < 0 => (v - a) % Modulus = (v - a) + Modulus
  BY ModSmall, ModulusPositive
<1> QED BY <1>1, <1>2, ModulusPositive DEF InRange

-----------------------------------------------------------------------------
(***************************************************************************)
(* Two hosts that connect to each other, for any number of hosts and of    *)
(* attempts: whoever is connected has the numbers that the other has now.  *)
(*                                                                         *)
(* An attempt is known by its number.  What says that one attempt has      *)
(* heard another is a segment, or the state of a host (Heard).  Of this,   *)
(* a step adds only what a host hears itself: a handshake is completed by  *)
(* an ack, and that the ack was sent for the very number that the host     *)
(* has heard follows from OneInv, also where the code does not look        *)
(* (synRcvdState, on an ack without a SYN).  OrderInv excludes that each   *)
(* is connected to an attempt of the other that is over.                   *)
(***************************************************************************)
OpenSpec == (\E spent \in Nat : OpenInit(spent)) /\ [][OpenNext(Ends)]_openVars

Pair(e, d) == e \in Ends /\ d \in Ends /\ PeerOf[e] = d /\ PeerOf[d] = e

\* The attempts a host has made; it is in the last one, or in none.
Attempts(e) == {k \in DOMAIN Isn[e] : k <= opener[e].drawn}
Active(e)   == opener[e].pc \in {"handshake", "connected"}
Knows(e)    == Active(e) /\ opener[e].h.state # "synSent"

\* s says that attempt k of e has heard attempt l of d: it is from e, or the
\* ack with which d completed its own.
Tells(s, e, d, k, l) ==
  \/ s = Seg(e, d, {"syn", "ack"}, Isn[e][k], Add(Isn[d][l], 1))
  \/ s = Seg(e, d, {"ack"}, Add(Isn[e][k], 1), Add(Isn[d][l], 1))
  \/ s = Seg(d, e, {"ack"}, Add(Isn[d][l], 1), Add(Isn[e][k], 1))

\* A host says it of itself, and one that is connected of the other.
Heeds(e, d, k, l) ==
  Knows(e) /\ opener[e].h.iss = Isn[e][k] /\ opener[e].h.ackNum = Add(Isn[d][l], 1)

Heard(e, d, k, l) ==
  \/ \E s \in wire : Tells(s, e, d, k, l)
  \/ Heeds(e, d, k, l)
  \/ opener[d].pc = "connected" /\ Heeds(d, e, l, k)

-----------------------------------------------------------------------------
(* The invariant. *)

\* What is in the network is of attempts that were made.
SegInv(s) ==
  /\ s.src \in Ends /\ s.dst = PeerOf[s.src]
  /\ \/ "rst" \in s.flags
     \/ \E k \in Attempts(s.src) : s = Seg(s.src, s.dst, {"syn"}, Isn[s.src][k], 0)
     \/ \E k \in Attempts(s.src), l \in Attempts(s.dst) : Tells(s, s.src, s.dst, k, l)

IsHandshake(h, phase, iss, ackNum) ==
  /\ DOMAIN h = {"state", "active", "flags", "iss", "ackNum"}
  /\ h.state = phase /\ h.active = TRUE /\ h.iss = iss /\ h.ackNum = ackNum
  /\ h.flags = IF phase = "synSent" THEN {"syn"} ELSE {"syn", "ack"}

\* A host in an attempt has the number of that attempt, and has heard an attempt
\* that its peer has made.
HostInv(e) ==
  /\ opener[e].drawn \in Nat
  /\ opener[e].pc \in {"closed", "handshake", "connected", "failed"}
  /\ Active(e) =>
       /\ opener[e].drawn \in DOMAIN Isn[e]
       /\ IsHandshake(opener[e].h, opener[e].h.state, Isn[e][opener[e].drawn],
                      opener[e].h.ackNum)
       /\ opener[e].h.state \in {"synSent", "synRcvd", "completed"}
       /\ opener[e].pc = "connected" <=> opener[e].h.state = "completed"
       /\ ~Knows(e) => opener[e].h.ackNum = 0
  /\ Knows(e) =>
       /\ Pair(e, PeerOf[e])
       /\ \E l \in Attempts(PeerOf[e]) : opener[e].h.ackNum = Add(Isn[PeerOf[e]][l], 1)

\* An attempt hears one attempt of the peer.
OneInv(e, d) ==
  \A k \in DOMAIN Isn[e], l \in DOMAIN Isn[d] :
    Heard(e, d, k, l) /\ Active(e) /\ opener[e].drawn = k
      => Knows(e) /\ opener[e].h.ackNum = Add(Isn[d][l], 1)

\* When k heard l, i was not made yet; when j heard i, l was not.
OrderInv(e, d) ==
  \A k, i \in DOMAIN Isn[e], l, j \in DOMAIN Isn[d] :
    Heard(e, d, k, l) /\ Heard(d, e, j, i) => ~(k < i /\ j < l)

OpenInv ==
  /\ \A s \in wire : SegInv(s)
  /\ DOMAIN opener = Ends
  /\ \A e \in Ends : DOMAIN opener[e] = {"pc", "h", "drawn"} /\ HostInv(e)
  /\ \A e, d \in Ends : Pair(e, d) => OneInv(e, d) /\ OrderInv(e, d)

-----------------------------------------------------------------------------
(* Numbers. *)

LEMMA ModIn ==
  ASSUME NEW d \in Int
  PROVE  d % Modulus \in 0..(Modulus - 1)
BY ModDef, ModulusPositive

\* One more and one less.
LEMMA AddOne ==
  ASSUME NEW x \in Value
  PROVE  /\ Add(x, 1) \in Value /\ Add(x, -1) \in Value
         /\ Add(Add(x, 1), -1) = x /\ Add(Add(x, -1), 1) = x
<1>1. x \in Int /\ 0 <= x /\ x < Modulus /\ Modulus \in Nat \ {0} /\ Modulus \in Int
  BY ModulusPositive DEF Value
<1>2. /\ x + 1 < Modulus => (x + 1) % Modulus = x + 1
      /\ x + 1 = Modulus => (x + 1) % Modulus = 0
  <2>1. (1 * Modulus + 0) % Modulus = 0
    BY <1>1, ModUnique
  <2>2. x + 1 = Modulus => x + 1 = 1 * Modulus + 0
    BY <1>1
  <2> QED BY <1>1, <2>1, <2>2, ModSmall
<1>3. /\ x > 0 => (x + (-1)) % Modulus = x - 1
      /\ x = 0 => (x + (-1)) % Modulus = Modulus - 1
  <2>1. x > 0 => 0 <= x + (-1) /\ x + (-1) < Modulus /\ x + (-1) = x - 1
    BY <1>1
  <2>2. x = 0 => -Modulus <= x + (-1) /\ x + (-1) < 0 /\ (x + (-1)) + Modulus = Modulus - 1
    BY <1>1
  <2> QED BY <1>1, <2>1, <2>2, ModSmall
<1>4. /\ x < Modulus - 1 => ((x + 1) + (-1)) % Modulus = x
      /\ (0 + (-1)) % Modulus = Modulus - 1
      /\ ((Modulus - 1) + 1) % Modulus = 0
      /\ x > 0 => ((x - 1) + 1) % Modulus = x
  <2>1. ((x + 1) + (-1)) = x /\ (x - 1) + 1 = x
    BY <1>1
  <2>2. x % Modulus = x
    BY <1>1, ModSmall
  <2>3. (0 + (-1)) % Modulus = Modulus - 1
    <3>1. -Modulus <= 0 + (-1) /\ 0 + (-1) < 0 /\ (0 + (-1)) + Modulus = Modulus - 1
      BY <1>1
    <3> QED BY <3>1, <1>1, ModSmall
  <2>4. ((Modulus - 1) + 1) % Modulus = 0
    <3>1. (Modulus - 1) + 1 = 1 * Modulus + 0
      BY <1>1
    <3> QED BY <3>1, <1>1, ModUnique
  <2> QED BY <2>1, <2>2, <2>3, <2>4
<1>5. Add(x, 1) = IF x + 1 < Modulus THEN x + 1 ELSE 0
  BY <1>1, <1>2 DEF Add
<1>6. Add(x, -1) = IF x > 0 THEN x - 1 ELSE Modulus - 1
  BY <1>1, <1>3 DEF Add
<1>7. Add(x, 1) \in Value /\ Add(x, -1) \in Value
  BY <1>1, <1>5, <1>6 DEF Value
<1>8. Add(Add(x, 1), -1) = x
  BY <1>1, <1>4, <1>5 DEF Add
<1>9. Add(Add(x, -1), 1) = x
  BY <1>1, <1>4, <1>6 DEF Add
<1> QED BY <1>7, <1>8, <1>9

\* An attempt is known by its number, and by the next.
LEMMA NumbersTell ==
  ASSUME NEW e \in Ends, NEW i \in DOMAIN Isn[e], NEW j \in DOMAIN Isn[e]
  PROVE  /\ Isn[e][i] \in Value /\ i \in Nat
         /\ Isn[e][i] = Isn[e][j] => i = j
         /\ Add(Isn[e][i], 1) = Add(Isn[e][j], 1) => i = j
<1>1. /\ Isn[e] \in Seq(Value)
      /\ \A k, l \in DOMAIN Isn[e] : Isn[e][k] = Isn[e][l] => k = l
  BY OpenAssumption
<1>2. Isn[e][i] \in Value /\ Isn[e][j] \in Value /\ i \in Nat
  BY <1>1
<1>3. Add(Isn[e][i], 1) = Add(Isn[e][j], 1) => Isn[e][i] = Isn[e][j]
  BY <1>2, AddOne
<1> QED BY <1>1, <1>2, <1>3

-----------------------------------------------------------------------------
(* What is told. *)

LEMMA PairApart ==
  ASSUME NEW e, NEW d, Pair(e, d)
  PROVE  e \in Ends /\ d \in Ends /\ e # d /\ Pair(d, e) /\ PeerOf[e] = d /\ PeerOf[d] = e
BY OpenAssumption DEF Pair

LEMMA FlagsDiffer ==
  /\ {"syn"} # {"syn", "ack"} /\ {"syn"} # {"ack"} /\ {"ack"} # {"syn", "ack"}
  /\ "rst" \notin {"syn"} /\ "rst" \notin {"ack"} /\ "rst" \notin {"syn", "ack"}
  /\ "ack" \notin {"syn"} /\ "syn" \notin {"ack"}
OBVIOUS

LEMMA SegFields ==
  ASSUME NEW src, NEW dst, NEW flags, NEW seq, NEW ack
  PROVE  LET s == Seg(src, dst, flags, seq, ack)
         IN  s.src = src /\ s.dst = dst /\ s.flags = flags /\ s.seq = seq /\ s.ack = ack
BY DEF Seg

LEMMA TellsIs ==
  ASSUME NEW s, NEW e, NEW d, NEW k, NEW l, Tells(s, e, d, k, l)
  PROVE  \/ /\ s.src = e /\ s.dst = d /\ s.flags = {"syn", "ack"}
            /\ s.seq = Isn[e][k] /\ s.ack = Add(Isn[d][l], 1)
         \/ /\ s.src = e /\ s.dst = d /\ s.flags = {"ack"}
            /\ s.seq = Add(Isn[e][k], 1) /\ s.ack = Add(Isn[d][l], 1)
         \/ /\ s.src = d /\ s.dst = e /\ s.flags = {"ack"}
            /\ s.ack = Add(Isn[e][k], 1) /\ s.seq = Add(Isn[d][l], 1)
<1>1. CASE s = Seg(e, d, {"syn", "ack"}, Isn[e][k], Add(Isn[d][l], 1))
  BY <1>1, SegFields
<1>2. CASE s = Seg(e, d, {"ack"}, Add(Isn[e][k], 1), Add(Isn[d][l], 1))
  BY <1>2, SegFields
<1>3. CASE s = Seg(d, e, {"ack"}, Add(Isn[d][l], 1), Add(Isn[e][k], 1))
  BY <1>3, SegFields
<1> QED BY <1>1, <1>2, <1>3 DEF Tells

\* What is told of a segment of the network is of attempts that were made.
LEMMA ToldIsMade ==
  ASSUME OpenInv, NEW e, NEW d, Pair(e, d), NEW s \in wire,
         NEW k \in DOMAIN Isn[e], NEW l \in DOMAIN Isn[d], Tells(s, e, d, k, l)
  PROVE  k \in Attempts(e) /\ l \in Attempts(d)
<1> USE FlagsDiffer
<1>1. e \in Ends /\ d \in Ends /\ e # d
  BY PairApart
<1>2. /\ s.src \in {e, d} /\ s.flags \in {{"ack"}, {"syn", "ack"}}
      /\ s.src = e => s.dst = d
      /\ s.src = d => s.dst = e
  BY <1>1, TellsIs
<1>3. SegInv(s)
  BY DEF OpenInv
<1>4. ASSUME NEW i \in Attempts(s.src), s = Seg(s.src, s.dst, {"syn"}, Isn[s.src][i], 0)
      PROVE  FALSE
  BY <1>2, <1>4, SegFields
<1>5. PICK i \in Attempts(s.src), j \in Attempts(s.dst) : Tells(s, s.src, s.dst, i, j)
  BY <1>2, <1>3, <1>4 DEF SegInv
<1>6. i \in DOMAIN Isn[s.src] /\ j \in DOMAIN Isn[s.dst]
  BY <1>5 DEF Attempts
<1>7. \/ /\ s.flags = {"syn", "ack"}
         /\ s.seq = Isn[s.src][i] /\ s.ack = Add(Isn[s.dst][j], 1)
      \/ /\ s.flags = {"ack"}
         /\ s.seq = Add(Isn[s.src][i], 1) /\ s.ack = Add(Isn[s.dst][j], 1)
  BY <1>1, <1>2, <1>5, TellsIs
<1>8. CASE s.src = e
  <2>1. s.dst = d
    BY <1>2, <1>8
  <2>2. \/ /\ s.flags = {"syn", "ack"}
           /\ s.seq = Isn[e][k] /\ s.ack = Add(Isn[d][l], 1)
        \/ /\ s.flags = {"ack"}
           /\ s.seq = Add(Isn[e][k], 1) /\ s.ack = Add(Isn[d][l], 1)
    BY <1>1, <1>8, TellsIs
  <2>3. i = k /\ j = l
    BY <1>1, <1>6, <1>7, <1>8, <2>1, <2>2, NumbersTell
  <2> QED BY <1>5, <1>8, <2>1, <2>3
<1>9. CASE s.src = d
  <2>1. s.dst = e
    BY <1>2, <1>9
  <2>2. /\ s.flags = {"ack"}
        /\ s.ack = Add(Isn[e][k], 1) /\ s.seq = Add(Isn[d][l], 1)
    BY <1>1, <1>9, TellsIs
  <2>3. i = l /\ j = k
    BY <1>1, <1>6, <1>7, <1>9, <2>1, <2>2, NumbersTell
  <2> QED BY <1>5, <1>9, <2>1, <2>3
<1> QED BY <1>2, <1>8, <1>9

\* A host in an attempt.
LEMMA ActiveHost ==
  ASSUME OpenInv, NEW e \in Ends, Active(e)
  PROVE  LET n == opener[e].drawn
             h == opener[e].h
         IN  /\ n \in Attempts(e) /\ n \in DOMAIN Isn[e] /\ n \in Nat
             /\ h.iss = Isn[e][n] /\ h.active = TRUE
             /\ h.flags = IF h.state = "synSent" THEN {"syn"} ELSE {"syn", "ack"}
             /\ h.state \in {"synSent", "synRcvd", "completed"}
             /\ opener[e].pc = "connected" <=> h.state = "completed"
             /\ ~Knows(e) => h.ackNum = 0
<1>1. HostInv(e)
  BY DEF OpenInv
<1>2. IsHandshake(opener[e].h, opener[e].h.state, Isn[e][opener[e].drawn],
                  opener[e].h.ackNum)
  BY <1>1 DEF HostInv
<1> QED BY <1>1, <1>2 DEF HostInv, Attempts, IsHandshake

LEMMA HeedsIs ==
  ASSUME OpenInv, NEW e, NEW d, Pair(e, d),
         NEW k \in DOMAIN Isn[e], NEW l \in DOMAIN Isn[d], Heeds(e, d, k, l)
  PROVE  k = opener[e].drawn /\ k \in Attempts(e) /\ l \in Attempts(d)
<1>1. e \in Ends /\ d \in Ends /\ Active(e)
  BY PairApart DEF Heeds, Knows
<1>2. k = opener[e].drawn /\ k \in Attempts(e)
  <2>1. PICK n : n = opener[e].drawn
    OBVIOUS
  <2>2. n \in Attempts(e) /\ n \in DOMAIN Isn[e] /\ opener[e].h.iss = Isn[e][n]
    BY <1>1, <2>1, ActiveHost
  <2>3. Isn[e][n] = Isn[e][k]
    BY <2>2 DEF Heeds
  <2>4. n = k
    BY <1>1, <2>2, <2>3, NumbersTell
  <2> QED BY <2>1, <2>2, <2>4
<1>3. PICK j \in Attempts(d) : opener[e].h.ackNum = Add(Isn[d][j], 1)
  <2>1. PeerOf[e] = d
    BY PairApart
  <2> QED BY <1>1, <2>1 DEF OpenInv, HostInv, Heeds
<1>4. j = l
  <2>1. j \in DOMAIN Isn[d]
    BY DEF Attempts
  <2> QED BY <1>1, <1>3, <2>1, NumbersTell DEF Heeds
<1> QED BY <1>2, <1>4

LEMMA HeardIsMade ==
  ASSUME OpenInv, NEW e, NEW d, Pair(e, d),
         NEW k \in DOMAIN Isn[e], NEW l \in DOMAIN Isn[d], Heard(e, d, k, l)
  PROVE  k \in Attempts(e) /\ l \in Attempts(d)
<1>1. CASE \E s \in wire : Tells(s, e, d, k, l)
  BY <1>1, ToldIsMade
<1>2. CASE Heeds(e, d, k, l)
  BY <1>2, HeedsIs
<1>3. CASE opener[d].pc = "connected" /\ Heeds(d, e, l, k)
  BY <1>3, PairApart, HeedsIs
<1> QED BY <1>1, <1>2, <1>3 DEF Heard

-----------------------------------------------------------------------------
(* A step of a host. *)

\* What a host sends tells what it is by then.
IsTrueOf(g, s) ==
  /\ s.src = g /\ s.dst = PeerOf[g]
  /\ \/ "rst" \in s.flags
     \/ /\ Active(g) /\ ~Knows(g)
        /\ s = Seg(g, PeerOf[g], {"syn"}, opener[g].h.iss, 0)
     \/ /\ Knows(g)
        /\ s = Seg(g, PeerOf[g], {"syn", "ack"}, opener[g].h.iss, opener[g].h.ackNum)
     \/ /\ opener[g].pc = "connected"
        /\ s = Seg(g, PeerOf[g], {"ack"}, Add(opener[g].h.iss, 1), opener[g].h.ackNum)

\* It goes on with what it knows, has nothing any more, begins an attempt, or
\* hears the peer.
Persists(g) == /\ Active(g) /\ Active(g)' /\ (Knows(g)' <=> Knows(g))
             /\ opener'[g].drawn = opener[g].drawn
             /\ opener'[g].h.ackNum = opener[g].h.ackNum
Ceases(g) == ~Active(g)' /\ opener'[g].drawn = opener[g].drawn
Begins(g) == Active(g)' /\ ~Knows(g)' /\ opener'[g].drawn = opener[g].drawn + 1
Hears(g)  == /\ Active(g) /\ ~Knows(g) /\ Knows(g)' /\ Pair(g, PeerOf[g])
             /\ opener'[g].drawn = opener[g].drawn

\* It completes a handshake only if the peer has heard this attempt.
Answered(g) ==
  (opener'[g].pc = "connected" /\ opener[g].pc # "connected") =>
     \E l \in DOMAIN Isn[PeerOf[g]] :
        /\ opener'[g].h.ackNum = Add(Isn[PeerOf[g]][l], 1)
        /\ Heard(PeerOf[g], g, l, opener[g].drawn)

HostStep(g, out) ==
  /\ g \in Ends /\ DOMAIN opener' = Ends
  /\ \A e \in Ends \ {g} : opener'[e] = opener[e]
  /\ DOMAIN opener'[g] = {"pc", "h", "drawn"} /\ HostInv(g)'
  /\ wire' \subseteq wire \cup out /\ \A s \in out : IsTrueOf(g, s)'
  /\ Persists(g) \/ Ceases(g) \/ Begins(g) \/ Hears(g)
  /\ Answered(g)

LEMMA AttemptsGrow ==
  ASSUME OpenInv, NEW g, NEW out, HostStep(g, out), NEW e \in Ends
  PROVE  Attempts(e) \subseteq Attempts(e)'
<1>1. opener[e].drawn \in Nat
  BY DEF OpenInv, HostInv
<1>2. opener'[e].drawn \in {opener[e].drawn, opener[e].drawn + 1}
  BY DEF HostStep, Persists, Ceases, Begins, Hears
<1>3. \A k \in DOMAIN Isn[e] : k \in Nat
  BY NumbersTell
<1> QED BY <1>1, <1>2, <1>3 DEF Attempts

\* The hosts that do nothing.
LEMMA OthersAreSame ==
  ASSUME OpenInv, NEW g, NEW out, HostStep(g, out), NEW e \in Ends, e # g
  PROVE  /\ opener'[e] = opener[e] /\ HostInv(e)'
         /\ Active(e)' = Active(e) /\ Knows(e)' = Knows(e)
         /\ \A d, k, l : Heeds(e, d, k, l)' <=> Heeds(e, d, k, l)
<1>1. opener'[e] = opener[e]
  BY DEF HostStep
<1>2. Active(e)' = Active(e)
  BY <1>1 DEF Active
<1>3. Knows(e)' = Knows(e)
  BY <1>1, <1>2 DEF Knows
<1>4. HostInv(e)
  BY DEF OpenInv
<1>5. Pair(e, PeerOf[e]) => Attempts(PeerOf[e]) \subseteq Attempts(PeerOf[e])'
  BY PairApart, AttemptsGrow
<1>6. HostInv(e)'
  <2>1. Pair(e, PeerOf[e])' <=> Pair(e, PeerOf[e])
    BY DEF Pair
  <2>2. CASE ~Knows(e)
    BY <1>1, <1>2, <1>3, <1>4, <2>1, <2>2 DEF HostInv
  <2>3. CASE Knows(e)
    <3>1. PICK l \in Attempts(PeerOf[e]) : opener[e].h.ackNum = Add(Isn[PeerOf[e]][l], 1)
      BY <1>4, <2>3 DEF HostInv
    <3>2. l \in Attempts(PeerOf[e])'
      BY <1>4, <1>5, <2>3, <3>1 DEF HostInv
    <3> QED BY <1>1, <1>2, <1>3, <1>4, <2>1, <2>3, <3>1, <3>2 DEF HostInv
  <2> QED BY <2>2, <2>3
<1>7. \A d, k, l : Heeds(e, d, k, l)' <=> Heeds(e, d, k, l)
  BY <1>1, <1>3 DEF Heeds
<1> QED BY <1>1, <1>2, <1>3, <1>6, <1>7

\* What is in the network after it.
LEMMA SegInvKeeps ==
  ASSUME OpenInv, NEW g, NEW out, HostStep(g, out), NEW s \in wire'
  PROVE  SegInv(s)'
<1>1. CASE s \in wire
  <2>1. SegInv(s) /\ s.src \in Ends /\ s.dst \in Ends
    BY <1>1, OpenAssumption DEF OpenInv, SegInv
  <2>2. /\ Attempts(s.src) \subseteq Attempts(s.src)'
        /\ Attempts(s.dst) \subseteq Attempts(s.dst)'
    BY <2>1, AttemptsGrow
  <2>3. \A e, d, k, l : Tells(s, e, d, k, l)' <=> Tells(s, e, d, k, l)
    BY DEF Tells
  <2> QED BY <2>1, <2>2, <2>3 DEF SegInv
<1>2. CASE s \in out
  <2>1. IsTrueOf(g, s)' /\ g \in Ends /\ HostInv(g)'
    BY <1>2 DEF HostStep
  <2>2. s.src = g /\ s.dst = PeerOf[g]
    BY <2>1 DEF IsTrueOf
  <2>3. PICK n, x : n = opener'[g].drawn /\ x = opener'[g].h.ackNum
    OBVIOUS
  <2>4. Active(g)' => n \in Attempts(g)' /\ opener'[g].h.iss = Isn[g][n]
    <3>1. Active(g)' => n \in DOMAIN Isn[g] /\ n \in Nat
      BY <2>1, <2>3 DEF HostInv
    <3>2. Active(g)' => IsHandshake(opener'[g].h, opener'[g].h.state, Isn[g][n], x)
      BY <2>1, <2>3 DEF HostInv
    <3>3. Active(g)' => opener'[g].h.iss = Isn[g][n]
      BY <3>2 DEF IsHandshake
    <3> QED BY <2>3, <3>1, <3>3 DEF Attempts
  <2>5. opener'[g].pc = "connected" => Knows(g)'
    BY <2>1 DEF HostInv, Knows, Active
  <2>6. Knows(g)' => Active(g)'
    BY DEF Knows
  <2>7. CASE "rst" \in s.flags
    BY <2>1, <2>2, <2>7 DEF SegInv
  <2>8. CASE /\ Active(g)' /\ ~Knows(g)'
             /\ s = Seg(g, PeerOf[g], {"syn"}, opener'[g].h.iss, 0)
    BY <2>1, <2>2, <2>4, <2>8 DEF SegInv
  <2>9. ASSUME Knows(g)',
               \/ s = Seg(g, PeerOf[g], {"syn", "ack"}, opener'[g].h.iss, x)
               \/ s = Seg(g, PeerOf[g], {"ack"}, Add(opener'[g].h.iss, 1), x)
        PROVE  SegInv(s)'
    <3>1. PICK l \in Attempts(PeerOf[g])' : x = Add(Isn[PeerOf[g]][l], 1)
      BY <2>1, <2>3, <2>9 DEF HostInv
    <3>2. Tells(s, g, PeerOf[g], n, l)'
      BY <2>4, <2>6, <2>9, <3>1 DEF Tells
    <3> QED BY <2>1, <2>2, <2>4, <2>6, <2>9, <3>1, <3>2 DEF SegInv
  <2>10. \/ "rst" \in s.flags
         \/ /\ Active(g)' /\ ~Knows(g)'
            /\ s = Seg(g, PeerOf[g], {"syn"}, opener'[g].h.iss, 0)
         \/ /\ Knows(g)'
            /\ \/ s = Seg(g, PeerOf[g], {"syn", "ack"}, opener'[g].h.iss, x)
               \/ s = Seg(g, PeerOf[g], {"ack"}, Add(opener'[g].h.iss, 1), x)
    BY <2>1, <2>3, <2>5 DEF IsTrueOf
  <2> QED BY <2>7, <2>8, <2>9, <2>10
<1> QED BY <1>1, <1>2 DEF HostStep

\* What the host that acts knows after the step it knew before, or it has just
\* heard it.
LEMMA HeedsAfter ==
  ASSUME OpenInv, NEW g, NEW out, HostStep(g, out), NEW d, Pair(g, d),
         NEW k \in DOMAIN Isn[g], NEW l \in DOMAIN Isn[d], Heeds(g, d, k, l)'
  PROVE  /\ k = opener[g].drawn
         /\ Active(g) /\ opener'[g].drawn = opener[g].drawn
         /\ Heeds(g, d, k, l) \/ Hears(g)
<1>1. g \in Ends /\ HostInv(g)' /\ Knows(g)' /\ Active(g)'
  BY DEF HostStep, Heeds, Knows
<1>2. PICK n, i : n = opener'[g].drawn /\ i = opener'[g].h.iss
  OBVIOUS
<1>3. n \in DOMAIN Isn[g] /\ i = Isn[g][n]
  <2>1. IsHandshake(opener'[g].h, opener'[g].h.state, Isn[g][n], opener'[g].h.ackNum)
    BY <1>1, <1>2 DEF HostInv
  <2>2. opener'[g].h.iss = Isn[g][n]
    BY <2>1 DEF IsHandshake
  <2> QED BY <1>1, <1>2, <2>2 DEF HostInv
<1>4. i = Isn[g][k]
  BY <1>2 DEF Heeds
<1>5. k = n
  BY <1>1, <1>3, <1>4, NumbersTell
<1>6. Persists(g) \/ Hears(g)
  BY <1>1 DEF HostStep, Ceases, Begins
<1>7. Active(g) /\ opener'[g].drawn = opener[g].drawn
  BY <1>6 DEF Persists, Hears
<1>8. ASSUME Persists(g) PROVE Heeds(g, d, k, l)
  <2>1. Knows(g) /\ opener[g].h.ackNum = opener'[g].h.ackNum
    BY <1>1, <1>8 DEF Persists
  <2>2. opener[g].h.iss = Isn[g][opener[g].drawn]
    BY <1>1, <1>7, ActiveHost
  <2>3. opener'[g].h.ackNum = Add(Isn[d][l], 1)
    BY DEF Heeds
  <2> QED BY <1>2, <1>5, <1>7, <2>1, <2>2, <2>3 DEF Heeds
<1> QED BY <1>2, <1>5, <1>6, <1>7, <1>8

\* A step adds to what has been heard only what the host hears.
LEMMA HeardAfter ==
  ASSUME OpenInv, NEW g, NEW out, HostStep(g, out), NEW e, NEW d, Pair(e, d),
         NEW k \in DOMAIN Isn[e], NEW l \in DOMAIN Isn[d], Heard(e, d, k, l)'
  PROVE  \/ Heard(e, d, k, l)
         \/ e = g /\ Hears(g) /\ Heeds(e, d, k, l)'
<1>1. /\ e \in Ends /\ d \in Ends /\ e # d /\ Pair(d, e)
      /\ PeerOf[e] = d /\ PeerOf[d] = e
  BY PairApart
<1>2. ASSUME Heeds(e, d, k, l)'
      PROVE  Heard(e, d, k, l) \/ (e = g /\ Hears(g) /\ Heeds(e, d, k, l)')
  <2>1. CASE e = g
    BY <1>2, <2>1, HeedsAfter DEF Heard
  <2>2. CASE e # g
    BY <1>1, <1>2, <2>2, OthersAreSame DEF Heard
  <2> QED BY <2>1, <2>2
<1>3. ASSUME opener'[d].pc = "connected", Heeds(d, e, l, k)'
      PROVE  Heard(e, d, k, l)
  <2>1. CASE d # g
    BY <1>1, <1>3, <2>1, OthersAreSame DEF Heard
  <2>2. CASE d = g /\ opener[d].pc = "connected"
    <3>1. Knows(d)
      BY <1>1, <2>2 DEF OpenInv, HostInv, Knows, Active
    <3>2. Heeds(d, e, l, k)
      BY <1>1, <1>3, <2>2, <3>1, HeedsAfter DEF Hears
    <3> QED BY <2>2, <3>2 DEF Heard
  <2>3. CASE d = g /\ opener[d].pc # "connected"
    <3>1. PICK i \in DOMAIN Isn[e] :
            opener'[d].h.ackNum = Add(Isn[e][i], 1) /\ Heard(e, d, i, opener[d].drawn)
      BY <1>1, <1>3, <2>3 DEF HostStep, Answered
    <3>2. l = opener[d].drawn
      BY <1>1, <1>3, <2>3, HeedsAfter
    <3>3. opener'[d].h.ackNum = Add(Isn[e][k], 1)
      BY <1>3 DEF Heeds
    <3>4. i = k
      BY <1>1, <3>1, <3>3, NumbersTell
    <3> QED BY <3>1, <3>2, <3>4
  <2> QED BY <2>1, <2>2, <2>3
<1>4. ASSUME NEW s \in wire', Tells(s, e, d, k, l)
      PROVE  Heard(e, d, k, l) \/ (e = g /\ Hears(g) /\ Heeds(e, d, k, l)')
  <2>1. CASE s \in wire
    BY <1>4, <2>1 DEF Heard
  <2>2. CASE s \in out
    <3> USE FlagsDiffer
    <3>1. IsTrueOf(g, s)' /\ HostInv(g)'
      BY <2>2 DEF HostStep
    <3>2. PICK i, a : i = opener'[g].h.iss /\ a = opener'[g].h.ackNum
      OBVIOUS
    <3>3. opener'[g].pc = "connected" => Knows(g)'
      BY <3>1 DEF HostInv, Knows, Active
    <3>4. s.src = g /\ s.dst = PeerOf[g] /\ s.flags \in {{"ack"}, {"syn", "ack"}}
      BY <1>4, <3>1, TellsIs DEF IsTrueOf
    <3>5. \/ /\ Knows(g)' /\ s.flags = {"syn", "ack"} /\ s.seq = i /\ s.ack = a
          \/ /\ opener'[g].pc = "connected" /\ Knows(g)'
             /\ s.flags = {"ack"} /\ s.seq = Add(i, 1) /\ s.ack = a
      <4>1. "rst" \notin s.flags /\ s.flags # {"syn"}
        BY <3>4
      <4>2. CASE s = Seg(g, PeerOf[g], {"syn"}, opener'[g].h.iss, 0)
        BY <4>1, <4>2, SegFields
      <4>3. CASE Knows(g)' /\ s = Seg(g, PeerOf[g], {"syn", "ack"}, i, a)
        BY <4>3, SegFields
      <4>4. CASE opener'[g].pc = "connected" /\ s = Seg(g, PeerOf[g], {"ack"}, Add(i, 1), a)
        BY <3>3, <4>4, SegFields
      <4> QED BY <3>1, <3>2, <4>1, <4>2, <4>3, <4>4 DEF IsTrueOf
    <3>6. PICK n \in DOMAIN Isn[g] : i = Isn[g][n]
      <4>1. Active(g)' /\ IsHandshake(opener'[g].h, opener'[g].h.state,
                                        Isn[g][opener'[g].drawn], a)
        BY <3>1, <3>2, <3>5 DEF HostInv, Knows
      <4>2. i = Isn[g][opener'[g].drawn]
        BY <3>2, <4>1 DEF IsHandshake
      <4> QED BY <3>1, <4>1, <4>2 DEF HostInv
    <3>7. CASE g = e
      <4>1. i = Isn[e][k] /\ a = Add(Isn[d][l], 1)
        BY <1>1, <1>4, <3>4, <3>5, <3>6, <3>7, TellsIs, NumbersTell
      <4>2. Heeds(e, d, k, l)'
        BY <3>2, <3>5, <3>7, <4>1 DEF Heeds
      <4> QED BY <1>2, <4>2
    <3>8. CASE g = d
      <4>1. /\ s.flags = {"ack"} /\ s.ack = Add(Isn[e][k], 1)
            /\ s.seq = Add(Isn[d][l], 1)
        BY <1>1, <1>4, <3>4, <3>8, TellsIs
      <4>2. i = Isn[d][l] /\ a = Add(Isn[e][k], 1) /\ opener'[d].pc = "connected"
        BY <1>1, <3>5, <3>6, <3>8, <4>1, NumbersTell
      <4>3. Heeds(d, e, l, k)'
        BY <3>2, <3>5, <3>8, <4>2 DEF Heeds
      <4> QED BY <1>3, <4>2, <4>3
    <3> QED BY <1>4, <3>4, <3>7, <3>8, TellsIs
  <2> QED BY <2>1, <2>2 DEF HostStep
<1>5. \A s : Tells(s, e, d, k, l)' <=> Tells(s, e, d, k, l)
  BY DEF Tells
<1> QED BY <1>2, <1>3, <1>4, <1>5 DEF Heard

LEMMA OneInvKeeps ==
  ASSUME OpenInv, NEW g, NEW out, HostStep(g, out), NEW e, NEW d, Pair(e, d)
  PROVE  OneInv(e, d)'
<1> SUFFICES ASSUME NEW k \in DOMAIN Isn[e], NEW l \in DOMAIN Isn[d],
                    Heard(e, d, k, l)', Active(e)', opener'[e].drawn = k
             PROVE  Knows(e)' /\ opener'[e].h.ackNum = Add(Isn[d][l], 1)
  BY DEF OneInv
<1>1. e \in Ends /\ d \in Ends /\ OneInv(e, d)
  BY PairApart DEF OpenInv
<1>2. CASE Heeds(e, d, k, l)'
  BY <1>2 DEF Heeds
<1>3. CASE Heard(e, d, k, l) /\ e # g
  BY <1>1, <1>3, OthersAreSame DEF OneInv
<1>4. CASE Heard(e, d, k, l) /\ e = g
  <2>1. k \in Attempts(e) /\ k \in Nat /\ opener[e].drawn \in Nat
    BY <1>1, <1>4, HeardIsMade, NumbersTell DEF OpenInv, HostInv
  <2>2. ~Begins(g)
    BY <1>4, <2>1 DEF Begins, Attempts
  <2>3. Active(e) /\ opener[e].drawn = k
    BY <1>4, <2>2 DEF HostStep, Persists, Hears, Ceases
  <2>4. Knows(e) /\ opener[e].h.ackNum = Add(Isn[d][l], 1)
    BY <1>1, <1>4, <2>3 DEF OneInv
  <2>5. Persists(g)
    BY <1>4, <2>2, <2>4 DEF HostStep, Hears, Ceases
  <2> QED BY <1>4, <2>4, <2>5 DEF Persists
<1> QED BY <1>2, <1>3, <1>4, HeardAfter

LEMMA OrderInvKeeps ==
  ASSUME OpenInv, NEW g, NEW out, HostStep(g, out), NEW e, NEW d, Pair(e, d)
  PROVE  OrderInv(e, d)'
<1> SUFFICES ASSUME NEW k \in DOMAIN Isn[e], NEW i \in DOMAIN Isn[e],
                    NEW l \in DOMAIN Isn[d], NEW j \in DOMAIN Isn[d],
                    Heard(e, d, k, l)', Heard(d, e, j, i)', k < i, j < l
             PROVE  FALSE
  BY DEF OrderInv
<1>1. /\ e \in Ends /\ d \in Ends /\ e # d /\ Pair(d, e) /\ OrderInv(e, d)
      /\ k \in Nat /\ i \in Nat /\ l \in Nat /\ j \in Nat
  BY PairApart, NumbersTell DEF OpenInv
<1>2. CASE Heard(e, d, k, l) /\ Heard(d, e, j, i)
  BY <1>1, <1>2 DEF OrderInv
<1>3. CASE e = g /\ Heeds(e, d, k, l)' /\ Heard(d, e, j, i)
  <2>1. k = opener[e].drawn
    BY <1>3, HeedsAfter
  <2>2. i \in Attempts(e)
    BY <1>1, <1>3, HeardIsMade
  <2> QED BY <1>1, <2>1, <2>2 DEF Attempts
<1>4. CASE d = g /\ Heeds(d, e, j, i)' /\ Heard(e, d, k, l)
  <2>1. j = opener[d].drawn
    BY <1>1, <1>4, HeedsAfter
  <2>2. l \in Attempts(d)
    BY <1>4, HeardIsMade
  <2> QED BY <1>1, <2>1, <2>2 DEF Attempts
<1>5. /\ Heard(e, d, k, l) \/ (e = g /\ Heeds(e, d, k, l)')
      /\ Heard(d, e, j, i) \/ (d = g /\ Heeds(d, e, j, i)')
  BY <1>1, HeardAfter
<1> QED BY <1>1, <1>2, <1>3, <1>4, <1>5

LEMMA HostStepKeeps ==
  ASSUME OpenInv, NEW g, NEW out, HostStep(g, out)
  PROVE  OpenInv'
<1>1. \A s \in wire' : SegInv(s)'
  BY SegInvKeeps
<1>2. \A e \in Ends : DOMAIN opener'[e] = {"pc", "h", "drawn"} /\ HostInv(e)'
  BY OthersAreSame DEF HostStep, OpenInv
<1>3. \A e, d \in Ends : Pair(e, d)' => OneInv(e, d)' /\ OrderInv(e, d)'
  BY OneInvKeeps, OrderInvKeeps DEF Pair
<1> QED BY <1>1, <1>2, <1>3 DEF OpenInv, HostStep

-----------------------------------------------------------------------------
(* The operations. *)

LEMMA CarriesOnly ==
  ASSUME NEW s, NEW out, Carries(s, out) \/ Emits(out)
  PROVE  wire' \subseteq wire \cup out
<1>1. CASE Carries(s, out)
  BY <1>1, Zenon DEF Carries
<1>2. CASE Emits(out)
  BY <1>2, Zenon DEF Emits
<1> QED BY <1>1, <1>2

\* A host that is in no attempt after the step.
LEMMA TurnsKeeps ==
  ASSUME OpenInv, NEW g \in Ends, NEW pc \in {"closed", "failed"}, Turns(g, pc),
         NEW out, wire' \subseteq wire \cup out,
         \A s \in out : s.src = g /\ s.dst = PeerOf[g] /\ "rst" \in s.flags
  PROVE  OpenInv'
<1>1. /\ DOMAIN opener = Ends /\ DOMAIN opener[g] = {"pc", "h", "drawn"}
      /\ opener[g].drawn \in Nat
  BY DEF OpenInv, HostInv
<1>2. /\ DOMAIN opener' = Ends /\ \A e \in Ends \ {g} : opener'[e] = opener[e]
      /\ opener'[g] = [pc |-> pc, h |-> SynSent(0, TRUE), drawn |-> opener[g].drawn]
  BY <1>1 DEF Turns
<1>3. opener'[g].pc = pc /\ opener'[g].drawn = opener[g].drawn
  BY <1>2
<1>4. ~Active(g)' /\ ~Knows(g)'
  BY <1>3 DEF Active, Knows
<1>5. HostInv(g)'
  BY <1>1, <1>3, <1>4 DEF HostInv
<1>6. HostStep(g, out)
  BY <1>2, <1>3, <1>4, <1>5 DEF HostStep, Ceases, Answered, IsTrueOf
<1> QED BY <1>6, HostStepKeeps

\* A host that is in an attempt, with the number it drew last.
Fits(g, pc, phase, a) ==
  \/ pc = "handshake" /\ phase = "synSent" /\ a = 0
  \/ /\ <<pc, phase>> \in {<<"handshake", "synRcvd">>, <<"connected", "completed">>}
     /\ Pair(g, PeerOf[g])
     /\ \E l \in Attempts(PeerOf[g]) : a = Add(Isn[PeerOf[g]][l], 1)

Becomes(g, pc, phase, n, a) ==
  \E h : /\ IsHandshake(h, phase, Isn[g][n], a)
         /\ opener' = [opener EXCEPT ![g] = [pc |-> pc, h |-> h, drawn |-> n]]

LEMMA InAttempt ==
  ASSUME OpenInv, NEW g \in Ends, NEW pc, NEW phase, NEW n \in DOMAIN Isn[g], NEW a,
         Fits(g, pc, phase, a), Becomes(g, pc, phase, n, a)
  PROVE  /\ DOMAIN opener' = Ends /\ \A e \in Ends \ {g} : opener'[e] = opener[e]
         /\ DOMAIN opener'[g] = {"pc", "h", "drawn"}
         /\ opener'[g].pc = pc /\ opener'[g].drawn = n
         /\ opener'[g].h.ackNum = a /\ opener'[g].h.iss = Isn[g][n]
         /\ Active(g)' /\ (Knows(g)' <=> phase # "synSent") /\ HostInv(g)'
<1>1. DOMAIN opener = Ends
  BY DEF OpenInv
<1>0. PICK h : /\ IsHandshake(h, phase, Isn[g][n], a)
               /\ opener' = [opener EXCEPT ![g] = [pc |-> pc, h |-> h, drawn |-> n]]
  BY DEF Becomes
<1>2. /\ DOMAIN opener' = Ends /\ \A e \in Ends \ {g} : opener'[e] = opener[e]
      /\ opener'[g] = [pc |-> pc, h |-> h, drawn |-> n]
  BY <1>0, <1>1
<1>3. /\ DOMAIN opener'[g] = {"pc", "h", "drawn"}
      /\ opener'[g].pc = pc /\ opener'[g].drawn = n
      /\ IsHandshake(opener'[g].h, phase, Isn[g][n], a)
  BY <1>0, <1>2
<1>4. /\ opener'[g].h.state = phase /\ opener'[g].h.iss = Isn[g][n]
      /\ opener'[g].h.ackNum = a
  BY <1>3 DEF IsHandshake
<1>5. Active(g)' /\ (Knows(g)' <=> phase # "synSent")
  BY <1>3, <1>4 DEF Active, Knows, Fits
<1>6. n \in Nat
  BY NumbersTell
<1>7. HostInv(g)'
  <2>1. CASE pc = "handshake" /\ phase = "synSent" /\ a = 0
    BY <1>3, <1>4, <1>5, <1>6, <2>1 DEF HostInv
  <2>2. CASE /\ <<pc, phase>> \in {<<"handshake", "synRcvd">>, <<"connected", "completed">>}
             /\ Pair(g, PeerOf[g])
             /\ \E l \in Attempts(PeerOf[g]) : a = Add(Isn[PeerOf[g]][l], 1)
    <3>1. PICK l \in Attempts(PeerOf[g]) : a = Add(Isn[PeerOf[g]][l], 1)
      BY <2>2
    <3>2. Attempts(PeerOf[g])' = Attempts(PeerOf[g])
      <4>1. PeerOf[g] \in Ends \ {g}
        BY <2>2, PairApart
      <4> QED BY <1>2, <4>1 DEF Attempts
    <3>3. Pair(g, PeerOf[g])'
      BY <2>2 DEF Pair
    <3> QED BY <1>3, <1>4, <1>5, <1>6, <2>2, <3>1, <3>2, <3>3 DEF HostInv
  <2> QED BY <2>1, <2>2 DEF Fits
<1> QED BY <1>2, <1>3, <1>4, <1>5, <1>7

\* What it says of itself then.
Speaks(g, pc, phase, n, a, s) ==
  /\ s.src = g /\ s.dst = PeerOf[g]
  /\ \/ "rst" \in s.flags
     \/ phase = "synSent" /\ s = Seg(g, PeerOf[g], {"syn"}, Isn[g][n], 0)
     \/ phase # "synSent" /\ s = Seg(g, PeerOf[g], {"syn", "ack"}, Isn[g][n], a)
     \/ pc = "connected" /\ s = Seg(g, PeerOf[g], {"ack"}, Add(Isn[g][n], 1), a)

\* The attempt goes on, with what it had heard or with something new, or
\* another begins.
Moves(g, phase, n, a) ==
  \/ /\ Active(g) /\ n = opener[g].drawn /\ (Knows(g) <=> phase # "synSent")
     /\ a = opener[g].h.ackNum
  \/ Active(g) /\ n = opener[g].drawn /\ ~Knows(g) /\ phase # "synSent"
  \/ n = opener[g].drawn + 1 /\ phase = "synSent"

Utters(g, pc, phase, n, a, out) ==
  wire' \subseteq wire \cup out /\ \A s \in out : Speaks(g, pc, phase, n, a, s)

\* It is connected only if the peer has heard this attempt.
Confirmed(g, pc, a) ==
  (pc = "connected" /\ opener[g].pc # "connected") =>
     \E l \in DOMAIN Isn[PeerOf[g]] :
        a = Add(Isn[PeerOf[g]][l], 1) /\ Heard(PeerOf[g], g, l, opener[g].drawn)

LEMMA BecomesKeeps ==
  ASSUME OpenInv, NEW g \in Ends, NEW pc, NEW phase, NEW n \in DOMAIN Isn[g], NEW a,
         Fits(g, pc, phase, a), Becomes(g, pc, phase, n, a), Moves(g, phase, n, a),
         NEW out, Utters(g, pc, phase, n, a, out), Confirmed(g, pc, a)
  PROVE  OpenInv'
<1>1. /\ DOMAIN opener' = Ends /\ \A e \in Ends \ {g} : opener'[e] = opener[e]
      /\ DOMAIN opener'[g] = {"pc", "h", "drawn"}
      /\ opener'[g].pc = pc /\ opener'[g].drawn = n
      /\ opener'[g].h.ackNum = a /\ opener'[g].h.iss = Isn[g][n]
      /\ Active(g)' /\ (Knows(g)' <=> phase # "synSent") /\ HostInv(g)'
  BY InAttempt, Zenon
<1>2. ASSUME NEW s \in out PROVE IsTrueOf(g, s)'
  <2>1. Speaks(g, pc, phase, n, a, s)
    BY <1>2 DEF Utters
  <2> QED BY <1>1, <2>1 DEF IsTrueOf, Speaks
<1>3. Persists(g) \/ Begins(g) \/ Hears(g)
  <2>1. CASE /\ Active(g) /\ n = opener[g].drawn /\ (Knows(g) <=> phase # "synSent")
             /\ a = opener[g].h.ackNum
    <3>1. Knows(g)' <=> Knows(g)
      BY <1>1, <2>1, Zenon
    <3> QED BY <1>1, <2>1, <3>1, Zenon DEF Persists
  <2>2. CASE Active(g) /\ n = opener[g].drawn /\ ~Knows(g) /\ phase # "synSent"
    <3>1. Pair(g, PeerOf[g])
      BY <2>2 DEF Fits
    <3> QED BY <1>1, <2>2, <3>1, Zenon DEF Hears
  <2>3. CASE n = opener[g].drawn + 1 /\ phase = "synSent"
    BY <1>1, <2>3, Zenon DEF Begins
  <2> QED BY <2>1, <2>2, <2>3 DEF Moves
<1>4. Answered(g)
  BY <1>1, Zenon DEF Answered, Confirmed
<1>5. HostStep(g, out)
  BY <1>1, <1>2, <1>3, <1>4, Zenon DEF HostStep, Utters
<1> QED BY <1>5, HostStepKeeps

\* A host that is as it was, whatever it sends and the network does.
LEMMA SameHostKeeps ==
  ASSUME OpenInv, NEW g \in Ends, opener' = opener,
         NEW out, wire' \subseteq wire \cup out, \A s \in out : IsTrueOf(g, s)
  PROVE  OpenInv'
<1>1. Active(g)' = Active(g)
  BY DEF Active
<1>2. Knows(g)' = Knows(g)
  BY <1>1 DEF Knows
<1>3. HostInv(g)' /\ DOMAIN opener' = Ends /\ DOMAIN opener'[g] = {"pc", "h", "drawn"}
  BY <1>1, <1>2 DEF OpenInv, HostInv, Attempts, Pair
<1>4. \A s \in out : IsTrueOf(g, s)'
  BY <1>1, <1>2 DEF IsTrueOf
<1>5. HostStep(g, out)
  BY <1>1, <1>2, <1>3, <1>4 DEF HostStep, Persists, Ceases, Answered
<1> QED BY <1>5, HostStepKeeps

\* What a host in an attempt says of itself.
LEMMA SynIsTrue ==
  ASSUME OpenInv, NEW g \in Ends, opener[g].pc = "handshake"
  PROVE  IsTrueOf(g, SynOf(opener[g].h, g, PeerOf[g]))
<1>1. Active(g)
  BY DEF Active
<1>2. /\ opener[g].h.flags = IF Knows(g) THEN {"syn", "ack"} ELSE {"syn"}
      /\ ~Knows(g) => opener[g].h.ackNum = 0
  BY <1>1, ActiveHost DEF Knows
<1>3. SynOf(opener[g].h, g, PeerOf[g]) =
        Seg(g, PeerOf[g], IF Knows(g) THEN {"syn", "ack"} ELSE {"syn"},
            opener[g].h.iss, IF Knows(g) THEN opener[g].h.ackNum ELSE 0)
  BY <1>2 DEF SynOf
<1>4. /\ SynOf(opener[g].h, g, PeerOf[g]).src = g
      /\ SynOf(opener[g].h, g, PeerOf[g]).dst = PeerOf[g]
  BY SegFields DEF SynOf
<1> QED BY <1>1, <1>3, <1>4 DEF IsTrueOf

LEMMA ConnectKeeps ==
  ASSUME OpenInv, NEW g \in Ends, Connect(g)
  PROVE  OpenInv'
<1>1. PICK n : n = opener[g].drawn + 1
  OBVIOUS
<1>2. opener[g].drawn \in Nat /\ n \in DOMAIN Isn[g] /\ Fresh(g) = Isn[g][n]
  <2>1. Isn[g] \in Seq(Value)
    BY OpenAssumption
  <2> QED BY <1>1, <2>1 DEF OpenInv, HostInv, Connect, Draws, Fresh
<1>3. PICK h : h = SynSent(Fresh(g), TRUE)
  OBVIOUS
<1>4. IsHandshake(h, "synSent", Isn[g][n], 0)
  BY <1>2, <1>3 DEF SynSent, IsHandshake
<1>5. PICK s : s = SynOf(h, g, PeerOf[g])
  OBVIOUS
<1>6. /\ opener' = [opener EXCEPT ![g] = [pc |-> "handshake", h |-> h, drawn |-> n]]
      /\ Emits({s})
  <2>1. DOMAIN opener = Ends
    BY DEF OpenInv
  <2> QED BY <1>1, <1>3, <1>5, <2>1 DEF Connect
<1>7. Becomes(g, "handshake", "synSent", n, 0) /\ Fits(g, "handshake", "synSent", 0)
  BY <1>4, <1>6 DEF Becomes, Fits
<1>8. s = Seg(g, PeerOf[g], {"syn"}, Isn[g][n], 0)
  <2>1. h.flags = {"syn"} /\ h.iss = Isn[g][n] /\ h.ackNum = 0
    BY <1>4 DEF IsHandshake
  <2> QED BY <1>5, <2>1 DEF SynOf
<1>9. Speaks(g, "handshake", "synSent", n, 0, s)
  BY <1>8, SegFields DEF Speaks
<1>10. Moves(g, "synSent", n, 0)
  BY <1>1 DEF Moves
<1>11. Utters(g, "handshake", "synSent", n, 0, {s}) /\ Confirmed(g, "handshake", 0)
  BY <1>6, <1>9, CarriesOnly DEF Utters, Confirmed
<1> QED BY <1>2, <1>7, <1>10, <1>11, BecomesKeeps

\* What a handshake makes of a segment.
LEMMA SynSentGoes ==
  ASSUME NEW iss, NEW a, NEW h, IsHandshake(h, "synSent", iss, a), NEW s, NEW fresh
  PROVE  LET r == HandleSegment(h, s, fresh)
         IN  \/ r.err # "none" /\ r.h = h /\ r.out = {}
             \/ r.err = "none" /\ r.h = h /\ r.out \subseteq {ResetFor(s)}
             \/ /\ r.err = "none" /\ "rst" \notin s.flags /\ "syn" \in s.flags
                /\ "ack" \notin s.flags
                /\ IsHandshake(r.h, "synRcvd", iss, Add(s.seq, 1))
                /\ r.out = {SynOf(r.h, s.dst, s.src)}
             \/ /\ r.err = "none" /\ "rst" \notin s.flags /\ "syn" \in s.flags
                /\ "ack" \in s.flags /\ s.ack = Add(iss, 1)
                /\ IsHandshake(r.h, "completed", iss, Add(s.seq, 1))
                /\ r.out = {Seg(s.dst, s.src, {"ack"}, Add(iss, 1), Add(s.seq, 1))}
<1>1. /\ DOMAIN h = {"state", "active", "flags", "iss", "ackNum"}
      /\ h.state = "synSent" /\ h.iss = iss /\ h.ackNum = a /\ h.flags = {"syn"}
      /\ h.active = TRUE
  BY DEF IsHandshake
<1>2. HandleSegment(h, s, fresh) = synSentState(h, s)
  BY <1>1 DEF HandleSegment
<1>3. CASE "rst" \in s.flags
  BY <1>2, <1>3 DEF synSentState, Goes, Fails
<1>4. CASE "rst" \notin s.flags /\ BadAck(h, s)
  BY <1>2, <1>4 DEF synSentState, Goes
<1>5. CASE "rst" \notin s.flags /\ ~BadAck(h, s) /\ "syn" \notin s.flags
  BY <1>2, <1>5 DEF synSentState, Goes
<1>6. CASE "rst" \notin s.flags /\ ~BadAck(h, s) /\ "syn" \in s.flags
  <2> DEFINE got == [h EXCEPT !.ackNum = Add(s.seq, 1), !.flags = @ \cup {"ack"}]
             with(phase) == [got EXCEPT !.state = phase]
  <2>1. /\ DOMAIN got = {"state", "active", "flags", "iss", "ackNum"}
        /\ got.active = TRUE /\ got.iss = iss /\ got.ackNum = Add(s.seq, 1)
        /\ got.flags = {"syn", "ack"}
    BY <1>1
  <2>2. ASSUME NEW phase, phase # "synSent"
        PROVE  IsHandshake(with(phase), phase, iss, Add(s.seq, 1))
    <3> HIDE DEF got
    <3> QED BY <2>1, <2>2 DEF IsHandshake
  <2>3. CASE "ack" \in s.flags
    <3>1. HandleSegment(h, s, fresh) =
            Goes(with("completed"),
                 {Seg(s.dst, s.src, {"ack"}, Add(h.iss, 1), got.ackNum)})
      BY <1>2, <1>6, <2>3 DEF synSentState
    <3>2. s.ack = Add(iss, 1)
      BY <1>1, <1>6, <2>3 DEF BadAck
    <3>3. IsHandshake(with("completed"), "completed", iss, Add(s.seq, 1))
      BY <2>2
    <3> HIDE DEF got, with
    <3> QED BY <1>1, <1>6, <2>1, <2>3, <3>1, <3>2, <3>3 DEF Goes
  <2>4. CASE "ack" \notin s.flags
    <3>1. HandleSegment(h, s, fresh) =
            Goes(with("synRcvd"), {SynOf(with("synRcvd"), s.dst, s.src)})
      BY <1>2, <1>6, <2>4 DEF synSentState
    <3>2. IsHandshake(with("synRcvd"), "synRcvd", iss, Add(s.seq, 1))
      BY <2>2
    <3> HIDE DEF got, with
    <3> QED BY <1>1, <1>6, <2>4, <3>1, <3>2 DEF Goes
  <2> QED BY <1>6, <2>3, <2>4
<1> QED BY <1>3, <1>4, <1>5, <1>6

LEMMA SynRcvdGoes ==
  ASSUME NEW iss, NEW a, NEW h, IsHandshake(h, "synRcvd", iss, a), NEW s, NEW fresh
  PROVE  LET r == HandleSegment(h, s, fresh)
         IN  \/ r.err # "none" /\ r.h = h /\ r.out = {}
             \/ r.err = "none" /\ r.h = h /\ r.out \subseteq {ResetFor(s)}
             \/ /\ r.err = "none" /\ IsHandshake(r.h, "synSent", fresh, 0)
                /\ r.out = {ResetFor(s), SynOf(r.h, s.dst, s.src)}
             \/ /\ r.err = "none" /\ "rst" \notin s.flags
                /\ "ack" \in s.flags /\ s.ack = Add(iss, 1)
                /\ "syn" \in s.flags => Add(s.seq, 1) = a
                /\ IsHandshake(r.h, "completed", iss, a) /\ r.out = {}
<1>1. /\ DOMAIN h = {"state", "active", "flags", "iss", "ackNum"}
      /\ h.state = "synRcvd" /\ h.iss = iss /\ h.ackNum = a /\ h.flags = {"syn", "ack"}
      /\ h.active = TRUE
  BY DEF IsHandshake
<1>2. HandleSegment(h, s, fresh) = synRcvdState(h, s, fresh)
  BY <1>1 DEF HandleSegment
<1>3. CASE "rst" \in s.flags
  <2>1. CASE InWindow(s.seq, h.ackNum, RcvWnd)
    <3>1. HandleSegment(h, s, fresh) = Fails(h, {}, "refused")
      BY <1>2, <1>3, <2>1 DEF synRcvdState
    <3> QED BY <3>1 DEF Fails
  <2>2. CASE ~InWindow(s.seq, h.ackNum, RcvWnd)
    <3>1. HandleSegment(h, s, fresh) = Goes(h, {})
      BY <1>2, <1>3, <2>2 DEF synRcvdState
    <3> QED BY <3>1 DEF Goes
  <2> QED BY <2>1, <2>2
<1>4. CASE "rst" \notin s.flags /\ BadAck(h, s)
  BY <1>2, <1>4 DEF synRcvdState, Goes
<1>5. CASE /\ "rst" \notin s.flags /\ ~BadAck(h, s)
           /\ "syn" \in s.flags /\ Add(s.seq, 1) # h.ackNum
  <2> DEFINE again == SynSent(fresh, TRUE)
  <2>1. IsHandshake(again, "synSent", fresh, 0)
    BY DEF SynSent, IsHandshake
  <2>2. HandleSegment(h, s, fresh) = Goes(again, {ResetFor(s), SynOf(again, s.dst, s.src)})
    BY <1>1, <1>2, <1>5 DEF synRcvdState
  <2> HIDE DEF again
  <2> QED BY <2>1, <2>2 DEF Goes
<1>6. CASE /\ "rst" \notin s.flags /\ ~BadAck(h, s)
           /\ ~("syn" \in s.flags /\ Add(s.seq, 1) # h.ackNum)
  <2> DEFINE done == [h EXCEPT !.state = "completed"]
  <2>1. HandleSegment(h, s, fresh) = Goes(IF "ack" \in s.flags THEN done ELSE h, {})
    BY <1>2, <1>6 DEF synRcvdState
  <2>2. IsHandshake(done, "completed", iss, a)
    BY <1>1 DEF IsHandshake
  <2> HIDE DEF done
  <2> QED BY <1>1, <1>6, <2>1, <2>2 DEF Goes, BadAck
<1> QED BY <1>3, <1>4, <1>5, <1>6

LEMMA ReceivedIs ==
  ASSUME OpenInv, NEW g \in Ends, NEW s \in wire, IsFor(s, g)
  PROVE  /\ Pair(g, PeerOf[g]) /\ PeerOf[g] \in Ends
         /\ s.src = PeerOf[g] /\ s.dst = g /\ SegInv(s)
         /\ ResetFor(s).src = g /\ ResetFor(s).dst = PeerOf[g]
         /\ "rst" \in ResetFor(s).flags
<1>1. s.src = PeerOf[g] /\ s.dst = g
  BY DEF IsFor
<1>2. SegInv(s)
  BY DEF OpenInv
<1>3. PeerOf[g] \in Ends
  BY OpenAssumption
<1>4. PeerOf[PeerOf[g]] = g
  BY <1>1, <1>2 DEF SegInv
<1> QED BY <1>1, <1>2, <1>3, <1>4, SegFields DEF Pair, ResetFor

\* The step of a host that receives, in the terms above.
After(g, phase, m, a, out) ==
  LET pc == IF phase = "completed" THEN "connected" ELSE "handshake"
  IN  Becomes(g, pc, phase, m, a) /\ wire' \subseteq wire \cup out

LEMMA ReceivesBecomes ==
  ASSUME OpenInv, NEW g \in Ends, NEW s, OpenerReceives(g, s),
         NEW phase, NEW a, NEW m,
         m = IF phase = "synSent" /\ opener[g].h.state = "synRcvd"
             THEN opener[g].drawn + 1 ELSE opener[g].drawn,
         HandleSegment(opener[g].h, s, Fresh(g)).err = "none",
         IsHandshake(HandleSegment(opener[g].h, s, Fresh(g)).h, phase, Isn[g][m], a)
  PROVE  After(g, phase, m, a, HandleSegment(opener[g].h, s, Fresh(g)).out)
<1>1. PICK r : r = HandleSegment(opener[g].h, s, Fresh(g))
  OBVIOUS
<1>2. r.err = "none" /\ IsHandshake(r.h, phase, Isn[g][m], a) /\ r.h.state = phase
  BY <1>1 DEF IsHandshake
<1>3. PICK pc : pc = IF phase = "completed" THEN "connected" ELSE "handshake"
  OBVIOUS
<1>4. opener' = [opener EXCEPT ![g] = [pc |-> pc, h |-> r.h, drawn |-> m]]
  BY <1>1, <1>2, <1>3 DEF OpenerReceives
<1>5. wire' \subseteq wire \cup r.out
  <2>1. Carries(s, r.out)
    BY <1>1 DEF OpenerReceives
  <2> QED BY <2>1, CarriesOnly
<1>6. Becomes(g, pc, phase, m, a)
  BY <1>2, <1>4 DEF Becomes
<1> QED BY <1>1, <1>3, <1>5, <1>6 DEF After

\* A handshake that fails.
LEMMA ReceivesFails ==
  ASSUME OpenInv, NEW g \in Ends, NEW s, OpenerReceives(g, s),
         HandleSegment(opener[g].h, s, Fresh(g)).err # "none",
         HandleSegment(opener[g].h, s, Fresh(g)).h = opener[g].h,
         HandleSegment(opener[g].h, s, Fresh(g)).out = {}
  PROVE  OpenInv'
<1>1. PICK r : r = HandleSegment(opener[g].h, s, Fresh(g))
  OBVIOUS
<1>2. Turns(g, "failed")
  <2>1. opener' = [opener EXCEPT ![g] = [pc |-> "failed", h |-> SynSent(0, TRUE),
                                         drawn |-> opener[g].drawn]]
    BY <1>1 DEF OpenerReceives
  <2>2. opened' = opened
    BY <1>1 DEF OpenerReceives
  <2>3. DOMAIN opener = Ends
    BY DEF OpenInv
  <2> QED BY <2>1, <2>2, <2>3 DEF Turns
<1>3. wire' \subseteq wire \cup {}
  <2>1. Carries(s, {})
    BY <1>1 DEF OpenerReceives
  <2> QED BY <2>1, CarriesOnly
<1> QED BY <1>2, <1>3, TurnsKeeps, Zenon

\* A handshake that goes on as it was, with a reset at most.
LEMMA ReceivesNothing ==
  ASSUME OpenInv, NEW g \in Ends, NEW s \in wire, OpenerReceives(g, s),
         HandleSegment(opener[g].h, s, Fresh(g)).err = "none",
         HandleSegment(opener[g].h, s, Fresh(g)).h = opener[g].h,
         HandleSegment(opener[g].h, s, Fresh(g)).out \subseteq {ResetFor(s)}
  PROVE  OpenInv'
<1>1. Active(g) /\ opener[g].pc = "handshake" /\ IsFor(s, g)
  BY DEF OpenerReceives, Active
<1>2. PICK phase, n, a : phase = opener[g].h.state /\ n = opener[g].drawn
                         /\ a = opener[g].h.ackNum
  OBVIOUS
<1>3. /\ HostInv(g) /\ n \in DOMAIN Isn[g] /\ IsHandshake(opener[g].h, phase, Isn[g][n], a)
      /\ phase \in {"synSent", "synRcvd"} /\ (~Knows(g) => a = 0)
  BY <1>1, <1>2 DEF OpenInv, HostInv
<1>4. Knows(g) <=> phase # "synSent"
  BY <1>1, <1>2 DEF Knows
<1>5. After(g, phase, n, a, {ResetFor(s)})
  <2>1. After(g, phase, n, a, HandleSegment(opener[g].h, s, Fresh(g)).out)
    <3>1. ~(phase = "synSent" /\ opener[g].h.state = "synRcvd")
      BY <1>2
    <3>2. n = IF phase = "synSent" /\ opener[g].h.state = "synRcvd"
              THEN opener[g].drawn + 1 ELSE opener[g].drawn
      BY <1>2, <3>1
    <3>3. IsHandshake(HandleSegment(opener[g].h, s, Fresh(g)).h, phase, Isn[g][n], a)
      BY <1>3
    <3> QED BY <3>2, <3>3, ReceivesBecomes
  <2> QED BY <2>1 DEF After
<1>6. Becomes(g, "handshake", phase, n, a) /\ wire' \subseteq wire \cup {ResetFor(s)}
  BY <1>3, <1>5 DEF After
<1>7. Fits(g, "handshake", phase, a)
  <2>1. CASE phase = "synSent"
    BY <1>3, <1>4, <2>1 DEF Fits
  <2>2. CASE phase = "synRcvd"
    BY <1>2, <1>3, <1>4, <2>2 DEF Fits, HostInv
  <2> QED BY <1>3, <2>1, <2>2
<1>8. Moves(g, phase, n, a)
  BY <1>1, <1>2, <1>4, Zenon DEF Moves
<1>9. Utters(g, "handshake", phase, n, a, {ResetFor(s)})
  BY <1>1, <1>6, ReceivedIs DEF Utters, Speaks
<1>10. Confirmed(g, "handshake", a)
  BY DEF Confirmed
<1> QED BY <1>3, <1>6, <1>7, <1>8, <1>9, <1>10, BecomesKeeps

\* In synSent the host hears the peer, and is connected if the peer has heard
\* it too.
LEMMA SynSentReceives ==
  ASSUME OpenInv, NEW g \in Ends, NEW s \in wire, OpenerReceives(g, s),
         opener[g].h.state = "synSent"
  PROVE  OpenInv'
<1>1. Active(g) /\ opener[g].pc = "handshake" /\ IsFor(s, g) /\ ~Knows(g)
  BY DEF OpenerReceives, Active, Knows
<1>2. PICK n, a, r, p : /\ n = opener[g].drawn /\ a = opener[g].h.ackNum
                        /\ r = HandleSegment(opener[g].h, s, Fresh(g)) /\ p = PeerOf[g]
  OBVIOUS
<1>3. /\ n \in DOMAIN Isn[g] /\ n \in Attempts(g) /\ n \in Nat
      /\ IsHandshake(opener[g].h, "synSent", Isn[g][n], a)
  <2>1. n \in DOMAIN Isn[g] /\ IsHandshake(opener[g].h, "synSent", Isn[g][n], a)
    BY <1>1, <1>2 DEF OpenInv, HostInv
  <2> QED BY <1>1, <1>2, <2>1, ActiveHost
<1>4. /\ Pair(g, p) /\ p \in Ends /\ s.src = p /\ s.dst = g /\ SegInv(s) /\ g # p
      /\ Pair(p, g)
  BY <1>1, <1>2, ReceivedIs, PairApart
<1>5. \/ r.err # "none" /\ r.h = opener[g].h /\ r.out = {}
      \/ r.err = "none" /\ r.h = opener[g].h /\ r.out \subseteq {ResetFor(s)}
      \/ /\ r.err = "none" /\ "rst" \notin s.flags /\ "syn" \in s.flags
         /\ "ack" \notin s.flags
         /\ IsHandshake(r.h, "synRcvd", Isn[g][n], Add(s.seq, 1))
         /\ r.out = {SynOf(r.h, s.dst, s.src)}
      \/ /\ r.err = "none" /\ "rst" \notin s.flags /\ "syn" \in s.flags
         /\ "ack" \in s.flags /\ s.ack = Add(Isn[g][n], 1)
         /\ IsHandshake(r.h, "completed", Isn[g][n], Add(s.seq, 1))
         /\ r.out = {Seg(s.dst, s.src, {"ack"}, Add(Isn[g][n], 1), Add(s.seq, 1))}
  BY <1>2, <1>3, SynSentGoes
<1>6. ASSUME NEW l \in Attempts(p), s.seq = Isn[p][l],
             NEW pc, NEW phase,
             <<pc, phase>> \in {<<"handshake", "synRcvd">>, <<"connected", "completed">>},
             r.err = "none", IsHandshake(r.h, phase, Isn[g][n], Add(s.seq, 1)),
             \A m \in r.out : Speaks(g, pc, phase, n, Add(s.seq, 1), m),
             pc = "connected" => Heard(p, g, l, n)
      PROVE  OpenInv'
  <2>1. /\ phase # "synSent" /\ l \in DOMAIN Isn[p]
        /\ pc = IF phase = "completed" THEN "connected" ELSE "handshake"
    BY <1>6 DEF Attempts
  <2>2. After(g, phase, n, Add(s.seq, 1), r.out)
    BY <1>2, <1>6, <2>1, ReceivesBecomes
  <2>3. Becomes(g, pc, phase, n, Add(s.seq, 1)) /\ wire' \subseteq wire \cup r.out
    BY <2>1, <2>2 DEF After
  <2>4. Fits(g, pc, phase, Add(s.seq, 1))
    BY <1>2, <1>4, <1>6 DEF Fits
  <2>5. Moves(g, phase, n, Add(s.seq, 1))
    BY <1>1, <1>2, <2>1, Zenon DEF Moves
  <2>6. Utters(g, pc, phase, n, Add(s.seq, 1), r.out)
    BY <1>6, <2>3 DEF Utters
  <2>7. Confirmed(g, pc, Add(s.seq, 1))
    BY <1>2, <1>6, <2>1 DEF Confirmed
  <2> QED BY <1>3, <2>3, <2>4, <2>5, <2>6, <2>7, BecomesKeeps
<1>7. CASE r.err # "none" /\ r.h = opener[g].h /\ r.out = {}
  BY <1>2, <1>7, ReceivesFails
<1>8. CASE r.err = "none" /\ r.h = opener[g].h /\ r.out \subseteq {ResetFor(s)}
  BY <1>2, <1>8, ReceivesNothing
<1>9. CASE /\ r.err = "none" /\ "rst" \notin s.flags /\ "syn" \in s.flags
           /\ "ack" \notin s.flags
           /\ IsHandshake(r.h, "synRcvd", Isn[g][n], Add(s.seq, 1))
           /\ r.out = {SynOf(r.h, s.dst, s.src)}
  <2>1. ASSUME NEW k \in Attempts(p), NEW l \in Attempts(g), Tells(s, p, g, k, l)
        PROVE  FALSE
    BY <1>9, <2>1, TellsIs
  <2>2. PICK l \in Attempts(p) : s = Seg(p, g, {"syn"}, Isn[p][l], 0)
    BY <1>4, <1>9, <2>1 DEF SegInv
  <2>3. s.seq = Isn[p][l]
    BY <2>2, SegFields
  <2>4. SynOf(r.h, s.dst, s.src) =
          Seg(g, p, {"syn", "ack"}, Isn[g][n], Add(s.seq, 1))
    BY <1>4, <1>9 DEF SynOf, IsHandshake
  <2>5. Speaks(g, "handshake", "synRcvd", n, Add(s.seq, 1), SynOf(r.h, s.dst, s.src))
    BY <1>2, <2>4, SegFields DEF Speaks
  <2>6. \A m \in r.out : Speaks(g, "handshake", "synRcvd", n, Add(s.seq, 1), m)
    BY <1>9, <2>5
  <2> QED BY <1>6, <1>9, <2>3, <2>6
<1>10. CASE /\ r.err = "none" /\ "rst" \notin s.flags /\ "syn" \in s.flags
            /\ "ack" \in s.flags /\ s.ack = Add(Isn[g][n], 1)
            /\ IsHandshake(r.h, "completed", Isn[g][n], Add(s.seq, 1))
            /\ r.out = {Seg(s.dst, s.src, {"ack"}, Add(Isn[g][n], 1), Add(s.seq, 1))}
  <2>1. ASSUME NEW k \in Attempts(p), s = Seg(p, g, {"syn"}, Isn[p][k], 0)
        PROVE  FALSE
    <3>1. s.flags = {"syn"}
      BY <2>1, SegFields
    <3> QED BY <1>10, <3>1
  <2>2. PICK k \in Attempts(p), l \in Attempts(g) : Tells(s, p, g, k, l)
    BY <1>4, <1>10, <2>1 DEF SegInv
  <2>3. s.seq = Isn[p][k] /\ s.ack = Add(Isn[g][l], 1)
    BY <1>4, <1>10, <2>2, TellsIs
  <2>4. l = n
    BY <1>3, <1>10, <2>3, NumbersTell DEF Attempts
  <2>5. Heard(p, g, k, n)
    BY <2>2, <2>4 DEF Heard
  <2>6. Speaks(g, "connected", "completed", n, Add(s.seq, 1),
               Seg(g, p, {"ack"}, Add(Isn[g][n], 1), Add(s.seq, 1)))
    BY <1>2, SegFields DEF Speaks
  <2>7. \A m \in r.out : Speaks(g, "connected", "completed", n, Add(s.seq, 1), m)
    BY <1>4, <1>10, <2>6
  <2> QED BY <1>6, <1>10, <2>3, <2>5, <2>7
<1> QED BY <1>5, <1>7, <1>8, <1>9, <1>10

\* In synRcvd it is connected by an ack; one without a SYN has no number that
\* the code compares, but it comes from an attempt that this one has heard.
LEMMA SynRcvdReceives ==
  ASSUME OpenInv, NEW g \in Ends, NEW s \in wire, OpenerReceives(g, s),
         opener[g].h.state = "synRcvd"
  PROVE  OpenInv'
<1>1. Active(g) /\ opener[g].pc = "handshake" /\ IsFor(s, g) /\ Knows(g)
  BY DEF OpenerReceives, Active, Knows
<1>2. PICK n, a, r, p : /\ n = opener[g].drawn /\ a = opener[g].h.ackNum
                        /\ r = HandleSegment(opener[g].h, s, Fresh(g)) /\ p = PeerOf[g]
  OBVIOUS
<1>3. /\ n \in DOMAIN Isn[g] /\ n \in Attempts(g) /\ n \in Nat
      /\ IsHandshake(opener[g].h, "synRcvd", Isn[g][n], a)
  <2>1. n \in DOMAIN Isn[g] /\ IsHandshake(opener[g].h, "synRcvd", Isn[g][n], a)
    BY <1>1, <1>2 DEF OpenInv, HostInv
  <2> QED BY <1>1, <1>2, <2>1, ActiveHost
<1>4. /\ Pair(g, p) /\ p \in Ends /\ s.src = p /\ s.dst = g /\ SegInv(s) /\ g # p
      /\ Pair(p, g) /\ OneInv(g, p)
      /\ ResetFor(s).src = g /\ ResetFor(s).dst = p /\ "rst" \in ResetFor(s).flags
  BY <1>1, <1>2, ReceivedIs, PairApart DEF OpenInv
<1>5. \/ r.err # "none" /\ r.h = opener[g].h /\ r.out = {}
      \/ r.err = "none" /\ r.h = opener[g].h /\ r.out \subseteq {ResetFor(s)}
      \/ /\ r.err = "none" /\ IsHandshake(r.h, "synSent", Fresh(g), 0)
         /\ r.out = {ResetFor(s), SynOf(r.h, s.dst, s.src)}
      \/ /\ r.err = "none" /\ "rst" \notin s.flags
         /\ "ack" \in s.flags /\ s.ack = Add(Isn[g][n], 1)
         /\ "syn" \in s.flags => Add(s.seq, 1) = a
         /\ IsHandshake(r.h, "completed", Isn[g][n], a) /\ r.out = {}
  BY <1>2, <1>3, SynRcvdGoes
<1>7. CASE r.err # "none" /\ r.h = opener[g].h /\ r.out = {}
  BY <1>2, <1>7, ReceivesFails
<1>8. CASE r.err = "none" /\ r.h = opener[g].h /\ r.out \subseteq {ResetFor(s)}
  BY <1>2, <1>8, ReceivesNothing
<1>9. CASE /\ r.err = "none" /\ IsHandshake(r.h, "synSent", Fresh(g), 0)
           /\ r.out = {ResetFor(s), SynOf(r.h, s.dst, s.src)}
  <2>1. PICK m : m = n + 1
    OBVIOUS
  <2>2. m \in DOMAIN Isn[g] /\ Fresh(g) = Isn[g][m]
    <3>1. r.h.state = "synSent"
      BY <1>9 DEF IsHandshake
    <3>2. Draws(g)
      BY <1>2, <3>1 DEF OpenerReceives
    <3>3. Isn[g] \in Seq(Value)
      BY OpenAssumption
    <3> QED BY <1>2, <1>3, <2>1, <3>2, <3>3 DEF Draws, Fresh
  <2>3. After(g, "synSent", m, 0, r.out)
    BY <1>2, <1>9, <2>1, <2>2, ReceivesBecomes
  <2>4. Becomes(g, "handshake", "synSent", m, 0) /\ wire' \subseteq wire \cup r.out
    BY <2>3 DEF After
  <2>5. /\ Fits(g, "handshake", "synSent", 0) /\ Moves(g, "synSent", m, 0)
        /\ Confirmed(g, "handshake", 0)
    BY <1>2, <2>1 DEF Fits, Moves, Confirmed
  <2>6. SynOf(r.h, s.dst, s.src) = Seg(g, p, {"syn"}, Isn[g][m], 0)
    BY <1>4, <1>9, <2>2 DEF SynOf, IsHandshake
  <2>7. /\ Speaks(g, "handshake", "synSent", m, 0, SynOf(r.h, s.dst, s.src))
        /\ Speaks(g, "handshake", "synSent", m, 0, ResetFor(s))
    BY <1>2, <1>4, <2>6, SegFields DEF Speaks
  <2>8. Utters(g, "handshake", "synSent", m, 0, r.out)
    BY <1>9, <2>4, <2>7 DEF Utters
  <2> QED BY <2>2, <2>4, <2>5, <2>8, BecomesKeeps
<1>10. CASE /\ r.err = "none" /\ "rst" \notin s.flags
            /\ "ack" \in s.flags /\ s.ack = Add(Isn[g][n], 1)
            /\ "syn" \in s.flags => Add(s.seq, 1) = a
            /\ IsHandshake(r.h, "completed", Isn[g][n], a) /\ r.out = {}
  <2>1. ASSUME NEW k \in Attempts(p), s = Seg(p, g, {"syn"}, Isn[p][k], 0)
        PROVE  FALSE
    <3>1. s.flags = {"syn"}
      BY <2>1, SegFields
    <3> QED BY <1>10, <3>1
  <2>2. PICK k \in Attempts(p), l \in Attempts(g) : Tells(s, p, g, k, l)
    BY <1>4, <1>10, <2>1 DEF SegInv
  <2>3. k \in DOMAIN Isn[p] /\ l \in DOMAIN Isn[g]
    BY DEF Attempts
  <2>4. /\ s.ack = Add(Isn[g][l], 1)
        /\ \/ s.flags = {"syn", "ack"} /\ s.seq = Isn[p][k]
           \/ s.flags = {"ack"} /\ s = Seg(p, g, {"ack"}, Add(Isn[p][k], 1), Add(Isn[g][l], 1))
    BY <1>4, <2>2, SegFields DEF Tells
  <2>5. l = n
    BY <1>3, <1>10, <2>3, <2>4, NumbersTell
  <2>6. Heard(p, g, k, n)
    BY <2>2, <2>5 DEF Heard
  <2>7. a = Add(Isn[p][k], 1)
    <3>1. CASE s.flags = {"syn", "ack"} /\ s.seq = Isn[p][k]
      BY <1>10, <3>1
    <3>2. CASE s = Seg(p, g, {"ack"}, Add(Isn[p][k], 1), Add(Isn[g][l], 1))
      <4>1. Tells(s, g, p, n, k)
        BY <2>5, <3>2 DEF Tells
      <4>2. Heard(g, p, n, k)
        BY <4>1 DEF Heard
      <4> QED BY <1>1, <1>2, <1>3, <1>4, <2>3, <4>2 DEF OneInv
    <3> QED BY <2>4, <3>1, <3>2
  <2>8. After(g, "completed", n, a, r.out)
    BY <1>2, <1>10, ReceivesBecomes
  <2>9. Becomes(g, "connected", "completed", n, a) /\ wire' \subseteq wire \cup r.out
    BY <2>8 DEF After
  <2>10. Fits(g, "connected", "completed", a)
    BY <1>2, <1>4, <2>7 DEF Fits
  <2>11. Moves(g, "completed", n, a)
    BY <1>1, <1>2, Zenon DEF Moves
  <2>12. Confirmed(g, "connected", a)
    BY <1>2, <2>3, <2>6, <2>7 DEF Confirmed
  <2>13. Utters(g, "connected", "completed", n, a, r.out)
    BY <1>10, <2>9 DEF Utters
  <2> QED BY <1>3, <2>9, <2>10, <2>11, <2>12, <2>13, BecomesKeeps
<1> QED BY <1>5, <1>7, <1>8, <1>9, <1>10

LEMMA OpenerReceivesKeeps ==
  ASSUME OpenInv, NEW g \in Ends, NEW s \in wire, OpenerReceives(g, s)
  PROVE  OpenInv'
<1>1. opener[g].pc = "handshake" /\ Active(g)
  BY DEF OpenerReceives, Active
<1>2. opener[g].h.state \in {"synSent", "synRcvd"}
  BY <1>1 DEF OpenInv, HostInv
<1> QED BY <1>2, SynSentReceives, SynRcvdReceives

LEMMA AcksAgainKeeps ==
  ASSUME OpenInv, NEW g \in Ends, NEW s \in wire, AcksAgain(g, s)
  PROVE  OpenInv'
<1>1. IsFor(s, g) /\ opener[g].pc = "connected" /\ opener' = opener
  BY DEF AcksAgain
<1>2. wire' \subseteq wire \cup {AckOf(opener[g].h, s)}
  BY CarriesOnly DEF AcksAgain
<1>3. s.src = PeerOf[g] /\ s.dst = g
  BY <1>1 DEF IsFor
<1>4. AckOf(opener[g].h, s) =
        Seg(g, PeerOf[g], {"ack"}, Add(opener[g].h.iss, 1), opener[g].h.ackNum)
  BY <1>3 DEF AckOf
<1>5. IsTrueOf(g, AckOf(opener[g].h, s))
  BY <1>1, <1>4, SegFields DEF IsTrueOf
<1>6. PICK out : out = {AckOf(opener[g].h, s)}
  OBVIOUS
<1>7. \A m \in out : IsTrueOf(g, m)
  BY <1>5, <1>6
<1> QED BY <1>1, <1>2, <1>6, <1>7, SameHostKeeps

LEMMA OpenStepKeeps ==
  ASSUME OpenInv, [OpenNext(Ends)]_openVars
  PROVE  OpenInv'
<1>1. ASSUME NEW g \in Ends, Connect(g) PROVE OpenInv'
  BY <1>1, ConnectKeeps
<1>2. ASSUME NEW g \in Ends, Resends(g) PROVE OpenInv'
  <2>1. wire' \subseteq wire \cup {SynOf(opener[g].h, g, PeerOf[g])}
    BY <1>2, CarriesOnly DEF Resends
  <2>2. IsTrueOf(g, SynOf(opener[g].h, g, PeerOf[g])) /\ opener' = opener
    BY <1>2, SynIsTrue DEF Resends
  <2>3. PICK out : out = {SynOf(opener[g].h, g, PeerOf[g])}
    OBVIOUS
  <2>4. wire' \subseteq wire \cup out /\ \A m \in out : IsTrueOf(g, m)
    BY <2>1, <2>2, <2>3
  <2> QED BY <2>2, <2>4, SameHostKeeps
<1>3. ASSUME NEW g \in Ends, GivesUp(g) \/ Closes(g) PROVE OpenInv'
  <2>1. PICK pc \in {"closed", "failed"} : Turns(g, pc)
    BY <1>3 DEF GivesUp, Closes
  <2>2. PICK out : out = {}
    OBVIOUS
  <2>3. /\ wire' \subseteq wire \cup out
        /\ \A s \in out : s.src = g /\ s.dst = PeerOf[g] /\ "rst" \in s.flags
    BY <1>3, <2>2 DEF GivesUp, Closes
  <2> QED BY <2>1, <2>3, TurnsKeeps
<1>4. ASSUME NEW s \in wire, Loses(s) PROVE OpenInv'
  <2>1. s.src \in Ends
    BY DEF OpenInv, SegInv
  <2>2. PICK out : out = {}
    OBVIOUS
  <2>3. /\ opener' = opener /\ wire' \subseteq wire \cup out
        /\ \A m \in out : IsTrueOf(s.src, m)
    BY <1>4, <2>2 DEF Loses
  <2> QED BY <2>1, <2>3, SameHostKeeps
<1>5. ASSUME NEW s \in wire, NEW g \in Ends, OpenerReceives(g, s) PROVE OpenInv'
  BY <1>5, OpenerReceivesKeeps
<1>6. ASSUME NEW s \in wire, NEW g \in Ends, AcksAgain(g, s) PROVE OpenInv'
  BY <1>6, AcksAgainKeeps
<1>7. ASSUME NEW s \in wire, NEW g \in Ends, IsReset(g, s) PROVE OpenInv'
  <2>1. s.src = PeerOf[g] /\ Turns(g, "failed")
    BY <1>7 DEF IsReset, IsFor
  <2>2. PICK m : m = ResetOf(opener[g].h, g, s.src)
    OBVIOUS
  <2>3. wire' \subseteq wire \cup {m}
    BY <1>7, <2>2, CarriesOnly DEF IsReset
  <2>4. m.src = g /\ m.dst = PeerOf[g] /\ "rst" \in m.flags
    BY <2>1, <2>2, SegFields DEF ResetOf
  <2>5. PICK out : out = {m}
    OBVIOUS
  <2>6. /\ wire' \subseteq wire \cup out
        /\ \A x \in out : x.src = g /\ x.dst = PeerOf[g] /\ "rst" \in x.flags
    BY <2>3, <2>4, <2>5
  <2> QED BY <2>1, <2>6, TurnsKeeps
<1>8. CASE UNCHANGED openVars
  <2>1. opener' = opener /\ wire' = wire
    BY <1>8 DEF openVars
  <2> QED BY <2>1 DEF OpenInv, SegInv, HostInv, OneInv, OrderInv, Heard, Heeds, Knows,
                      Active, Attempts, Tells, Pair
<1> QED BY <1>1, <1>2, <1>3, <1>4, <1>5, <1>6, <1>7, <1>8 DEF OpenNext

LEMMA OpenInvInit ==
  ASSUME NEW spent \in Nat, OpenInit(spent)
  PROVE  OpenInv
<1>1. /\ opener = [e \in Ends |->
           [pc |-> "closed", h |-> SynSent(0, TRUE), drawn |-> spent]]
      /\ wire = {}
  BY DEF OpenInit
<1>2. \A e \in Ends : /\ DOMAIN opener[e] = {"pc", "h", "drawn"}
                      /\ opener[e].pc = "closed" /\ opener[e].drawn = spent
  BY <1>1
<1>3. \A e \in Ends : ~Active(e) /\ ~Knows(e)
  BY <1>2 DEF Active, Knows
<1>4. ASSUME NEW e, NEW d, Pair(e, d), NEW k, NEW l
      PROVE  ~Heard(e, d, k, l)
  <2>1. e \in Ends /\ d \in Ends
    BY <1>4 DEF Pair
  <2> QED BY <1>1, <1>2, <1>3, <2>1 DEF Heard, Heeds
<1>5. DOMAIN opener = Ends
  BY <1>1
<1> QED BY <1>1, <1>2, <1>3, <1>4, <1>5 DEF OpenInv, HostInv, OneInv, OrderInv

\* Whoever of two hosts is connected to the other, while the other is connected
\* to it, agrees on both numbers (connect.go, synRcvdState and synSentState).
THEOREM TwoOpenersAgree == OpenSpec => []OpenersAgree
<1>1. OpenInv => OpenersAgree
  <2> SUFFICES ASSUME OpenInv, NEW e \in Ends, NEW d \in Ends,
                      PeerOf[e] = d, PeerOf[d] = e,
                      opener[e].pc = "connected", opener[d].pc = "connected"
               PROVE  opener[e].h.ackNum = Add(opener[d].h.iss, 1)
    BY DEF OpenersAgree
  <2>1. Pair(e, d) /\ Pair(d, e)
    BY DEF Pair
  <2>2. PICK k, j : k = opener[e].drawn /\ j = opener[d].drawn
    OBVIOUS
  <2>3. Active(e) /\ Active(d)
    BY DEF Active
  <2>4. /\ k \in DOMAIN Isn[e] /\ k \in Nat /\ opener[e].h.iss = Isn[e][k]
        /\ j \in DOMAIN Isn[d] /\ j \in Nat /\ opener[d].h.iss = Isn[d][j]
        /\ Knows(e) /\ Knows(d)
    BY <2>2, <2>3, ActiveHost DEF Knows
  <2>5. PICK l \in Attempts(d) : opener[e].h.ackNum = Add(Isn[d][l], 1)
    BY <2>4 DEF OpenInv, HostInv
  <2>6. PICK i \in Attempts(e) : opener[d].h.ackNum = Add(Isn[e][i], 1)
    BY <2>4 DEF OpenInv, HostInv
  <2>7. /\ i \in DOMAIN Isn[e] /\ i \in Nat /\ i <= k
        /\ l \in DOMAIN Isn[d] /\ l \in Nat /\ l <= j
    BY <2>2, NumbersTell DEF Attempts
  <2>8. Heeds(e, d, k, l) /\ Heeds(d, e, j, i)
    BY <2>4, <2>5, <2>6 DEF Heeds
  <2>9. Heard(e, d, i, j) /\ Heard(d, e, l, k)
    BY <2>8 DEF Heard
  <2>10. OrderInv(e, d) /\ OneInv(e, d) /\ OneInv(d, e)
    BY <2>1 DEF OpenInv
  <2>11. ~(i < k /\ l < j)
    BY <2>4, <2>7, <2>9, <2>10 DEF OrderInv
  <2>12. CASE i = k
    BY <2>2, <2>3, <2>4, <2>9, <2>10, <2>12 DEF OneInv
  <2>13. CASE l = j
    BY <2>4, <2>5, <2>13
  <2> QED BY <2>4, <2>7, <2>11, <2>12, <2>13
<1>2. (\E spent \in Nat : OpenInit(spent)) => OpenInv
  BY OpenInvInit
<1>3. OpenInv /\ [OpenNext(Ends)]_openVars => OpenInv'
  BY OpenStepKeeps
<1> QED BY <1>1, <1>2, <1>3, PTL DEF OpenSpec

-----------------------------------------------------------------------------
(***************************************************************************)
(* What a listener takes for a connection, for any number of hosts that    *)
(* connect to it or to others, of attempts, endpoints, room in its channel *)
(* and threshold: its client completed that handshake, with the same two   *)
(* numbers.                                                                *)
(*                                                                         *)
(* A client acks only what it has completed, so the ack that the listener  *)
(* gets, with a cookie or for a handshake, names an entry of `opened'.     *)
(* What is left is that a handshake of the listener completes with the ack *)
(* of its own attempt: a cookie is one of one attempt only.                *)
(***************************************************************************)
\* The server listens; it does not connect from the same port.
SrvNext ==
  \/ \E opening \in SUBSET (Ends \ {Server}) :
       OpenNext(opening) /\ UNCHANGED listenVars
  \/ ListenNext

SrvSpec == LstInit /\ [][SrvNext]_lstVars

\* Who connects to the listener.
Clients == {e \in Ends \ {Server} : PeerOf[e] = Server}

IsNumber(e, x) == \E k \in DOMAIN Isn[e] : x = Isn[e][k]
IsCookie(x, y) == \E t \in Epochs : y = Add(x, CookieHash[t])

\* An endpoint sends an ack only of what it has completed; the listener answers
\* a number of the client with a cookie for it.
ToServer(s) ==
  /\ s.src \in Clients
  /\ \/ "rst" \in s.flags
     \/ s.flags = {"syn"} /\ IsNumber(s.src, s.seq)
     \/ s.flags = {"ack"} /\ <<s.src, Add(s.seq, -1), s.ack>> \in opened

FromServer(s) ==
  /\ s.dst \in Clients
  /\ \/ "rst" \in s.flags
     \/ s.flags = {"ack"}
     \/ /\ s.flags = {"syn", "ack"}
        /\ \E k \in DOMAIN Isn[s.dst] :
             s.ack = Add(Isn[s.dst][k], 1) /\ IsCookie(Isn[s.dst][k], s.seq)

SrvSeg(s) == (s.dst = Server => ToServer(s)) /\ (s.src = Server => FromServer(s))

\* What a client has completed was answered.
OpenedIs(o) ==
  o[1] \in Clients => /\ IsNumber(o[1], o[2])
                      /\ \E t \in Epochs : o[3] = Add(Add(o[2], CookieHash[t]), 1)

ClientInv(e) ==
  /\ opener[e].drawn \in Nat
  /\ opener[e].pc = "handshake" =>
       /\ IsHandshake(opener[e].h, "synSent", opener[e].h.iss, opener[e].h.ackNum)
       /\ IsNumber(e, opener[e].h.iss)
  /\ opener[e].pc = "connected" =>
       <<e, opener[e].h.iss, opener[e].h.ackNum>> \in opened

\* A passive handshake, for a number of its client.
IsPassive(h, phase, iss, ackNum) ==
  /\ DOMAIN h = {"state", "active", "flags", "iss", "ackNum"}
  /\ h.state = phase /\ h.active = FALSE /\ h.flags = {"syn", "ack"}
  /\ h.iss = iss /\ h.ackNum = ackNum

Established(c) == c.pc \in {"delivers", "sends", "queued", "accepted"}

Agreed(c) == <<c.peer, Add(c.h.ackNum, -1), Add(c.h.iss, 1)>> \in opened

EndInv(c) ==
  /\ c.pc \in {"free", "starts"} => ~c.isRegistered
  /\ c.pc # "free" => c.peer \in Clients
  /\ c.pc \in {"starts", "handshake"} =>
       /\ IsPassive(c.h, "synRcvd", c.h.iss, c.h.ackNum)
       /\ \E k \in DOMAIN Isn[c.peer] :
            /\ c.h.ackNum = Add(Isn[c.peer][k], 1)
            /\ c.pc = "handshake" => IsCookie(Isn[c.peer][k], c.h.iss)
  /\ Established(c) => Agreed(c)

\* Who has ports is registered for them.
PortsInv ==
  \A e \in Ends : owner[e] \in Conns =>
    conn[owner[e]].peer = e /\ conn[owner[e]].isRegistered

SrvInv ==
  /\ \A s \in wire \cup lq : SrvSeg(s)
  /\ \A o \in opened : OpenedIs(o)
  /\ DOMAIN opener = Ends /\ \A e \in Clients : ClientInv(e)
  /\ \A n \in Conns : EndInv(conn[n])
  /\ PortsInv /\ epoch \in Epochs

-----------------------------------------------------------------------------
(* Numbers. *)

LEMMA AddCancels ==
  ASSUME NEW x \in Value, NEW y \in Value, NEW a \in Value, Add(x, a) = Add(y, a)
  PROVE  x = y
<1>1. /\ x \in Int /\ 0 <= x /\ x < Modulus /\ y \in Int /\ 0 <= y /\ y < Modulus
      /\ a \in Int /\ Modulus \in Nat \ {0} /\ Modulus \in Int
  BY ModulusPositive DEF Value
<1>2. PICK p, q, r : /\ p \in Int /\ q \in Int /\ r \in Int
                     /\ x + a = (p * Modulus) + r /\ y + a = (q * Modulus) + r
  <2>1. PICK s, t : s = x + a /\ t = y + a
    OBVIOUS
  <2>2. s \in Int /\ t \in Int /\ s % Modulus = t % Modulus
    BY <1>1, <2>1 DEF Add
  <2>3. /\ s \div Modulus \in Int /\ t \div Modulus \in Int
        /\ s % Modulus \in 0..(Modulus - 1)
        /\ s = ((s \div Modulus) * Modulus) + (s % Modulus)
        /\ t = ((t \div Modulus) * Modulus) + (t % Modulus)
    BY <1>1, <2>2, ModDef
  <2>4. s % Modulus \in Int
    BY <1>1, <2>3
  <2> QED BY <2>1, <2>2, <2>3, <2>4
<1>3. PICK k \in Int : x - y = k * Modulus
  <2>1. x - y = (p - q) * Modulus
    BY <1>1, <1>2, SMTT(30)
  <2>2. p - q \in Int
    BY <1>2
  <2> QED BY <2>1, <2>2
<1>4. (x - y) % Modulus = 0
  <2>1. 0 \in 0..(Modulus - 1)
    BY <1>1
  <2>2. ((k * Modulus) + 0) % Modulus = 0
    BY <1>1, <2>1, ModUnique
  <2>3. (k * Modulus) + 0 = x - y
    BY <1>1, <1>3
  <2> QED BY <2>2, <2>3
<1>5. PICK d : d = x - y
  OBVIOUS
<1>6. d \in Int /\ -Modulus < d /\ d < Modulus /\ d % Modulus = 0
  BY <1>1, <1>4, <1>5
<1>7. /\ (0 <= d /\ d < Modulus) => d % Modulus = d
      /\ (-Modulus <= d /\ d < 0) => d % Modulus = d + Modulus
  BY <1>6, ModSmall
<1>8. d = 0
  BY <1>1, <1>6, <1>7
<1> QED BY <1>1, <1>5, <1>8

LEMMA AddInValue ==
  ASSUME NEW x \in Value, NEW y \in Value
  PROVE  Add(x, y) \in Value
<1>1. x + y \in Int
  BY ModulusPositive DEF Value
<1> QED BY <1>1, ModIn DEF Add, Value

\* A cookie is one of one attempt only.
LEMMA CookieTells ==
  ASSUME NEW e \in Ends, NEW i \in DOMAIN Isn[e], NEW j \in DOMAIN Isn[e],
         NEW t \in Epochs, NEW u \in Epochs,
         Add(Isn[e][i], CookieHash[t]) = Add(Isn[e][j], CookieHash[u])
  PROVE  i = j
<1>1. /\ Isn[e][i] \in Value /\ Isn[e][j] \in Value
      /\ Isn[e][i] = Isn[e][j] => i = j
  BY NumbersTell
<1>2. CookieHash[t] \in Value
  BY CookieAssumption DEF Epochs
<1>3. CASE t = u
  BY <1>1, <1>2, <1>3, AddCancels
<1>4. CASE t # u
  BY <1>4, CookieAssumption DEF Epochs
<1> QED BY <1>3, <1>4

LEMMA CookieInValue ==
  ASSUME NEW e \in Ends, NEW x, IsNumber(e, x), NEW y, IsCookie(x, y)
  PROVE  x \in Value /\ y \in Value
<1>1. x \in Value
  BY NumbersTell DEF IsNumber
<1> QED BY <1>1, AddInValue, CookieAssumption DEF IsCookie, Epochs

-----------------------------------------------------------------------------
(* The hosts that connect. *)

LEMMA ClientIs ==
  /\ Server \in Ends /\ Server \notin Clients
  /\ \A e \in Ends \ {Server} : e \in Clients <=> PeerOf[e] = Server
  /\ Clients \subseteq Ends
BY ListenAssumption DEF Clients

\* What is true of a segment stays true.
LEMMA NetworkKeeps ==
  ASSUME SrvInv, opened \subseteq opened', NEW out, \A s \in out : SrvSeg(s)',
         wire' \subseteq wire \cup out, lq' \subseteq lq \cup wire
  PROVE  \A s \in wire' \cup lq' : SrvSeg(s)'
<1>1. ASSUME NEW s \in wire \cup lq PROVE SrvSeg(s)'
  <2>1. SrvSeg(s)
    BY DEF SrvInv
  <2> QED BY <2>1 DEF SrvSeg, ToServer, FromServer
<1> QED BY <1>1

LEMMA ClientStepKeeps ==
  ASSUME SrvInv, NEW g \in Ends \ {Server}, UNCHANGED listenVars,
         opened \subseteq opened', \A o \in opened' : OpenedIs(o),
         DOMAIN opener' = Ends, \A e \in Ends \ {g} : opener'[e] = opener[e],
         g \in Clients => ClientInv(g)',
         NEW out, wire' \subseteq wire \cup out, \A s \in out : SrvSeg(s)'
  PROVE  SrvInv'
<1>1. UNCHANGED <<lq, conn, owner, epoch>>
  BY DEF listenVars
<1>2. \A s \in wire' \cup lq' : SrvSeg(s)'
  BY <1>1, NetworkKeeps
<1>3. ASSUME NEW e \in Clients PROVE ClientInv(e)'
  <2>1. CASE e = g
    BY <2>1
  <2>2. CASE e # g
    <3>1. opener'[e] = opener[e] /\ ClientInv(e)
      BY <2>2, ClientIs DEF SrvInv
    <3> QED BY <3>1 DEF ClientInv
  <2> QED BY <2>1, <2>2
<1>4. ASSUME NEW n \in Conns PROVE EndInv(conn[n])'
  <2>1. EndInv(conn[n]) /\ conn'[n] = conn[n]
    BY <1>1 DEF SrvInv
  <2> QED BY <2>1 DEF EndInv, Established, Agreed
<1>5. PortsInv'
  BY <1>1 DEF SrvInv, PortsInv
<1>6. \A o \in opened' : OpenedIs(o)'
  BY DEF OpenedIs
<1> QED BY <1>1, <1>2, <1>3, <1>4, <1>5, <1>6 DEF SrvInv

\* A segment from a host to its peer.
LEMMA FromHost ==
  ASSUME NEW g \in Ends \ {Server}, NEW s, s.src = g, s.dst = PeerOf[g],
         g \in Clients =>
           \/ "rst" \in s.flags
           \/ s.flags = {"syn"} /\ IsNumber(g, s.seq)
           \/ s.flags = {"ack"} /\ <<g, Add(s.seq, -1), s.ack>> \in opened'
  PROVE  SrvSeg(s)'
<1>1. CASE g \in Clients
  <2>1. ToServer(s)'
    BY <1>1 DEF ToServer
  <2> QED BY <2>1 DEF SrvSeg
<1>2. CASE g \notin Clients
  BY <1>2, ClientIs DEF SrvSeg
<1> QED BY <1>1, <1>2

\* A host whose attempt has ended.
LEMMA EndedKeeps ==
  ASSUME SrvInv, NEW g \in Ends \ {Server}, NEW pc \in {"closed", "failed"},
         Turns(g, pc), UNCHANGED listenVars, NEW out, wire' \subseteq wire \cup out,
         \A s \in out : s.src = g /\ s.dst = PeerOf[g] /\ "rst" \in s.flags
  PROVE  SrvInv'
<1>1. /\ DOMAIN opener' = Ends /\ \A e \in Ends \ {g} : opener'[e] = opener[e]
      /\ opener'[g] = [pc |-> pc, h |-> SynSent(0, TRUE), drawn |-> opener[g].drawn]
      /\ opened' = opened
  BY DEF SrvInv, Turns
<1>2. opener'[g].pc = pc /\ opener'[g].drawn = opener[g].drawn
  BY <1>1
<1>3. g \in Clients => ClientInv(g)'
  BY <1>2 DEF ClientInv, SrvInv
<1>4. \A s \in out : SrvSeg(s)'
  BY FromHost
<1>5. \A o \in opened' : OpenedIs(o)
  BY <1>1 DEF SrvInv
<1> QED BY <1>1, <1>3, <1>4, <1>5, ClientStepKeeps

\* A host that sends, and is as it was.
LEMMA SendsMore ==
  ASSUME SrvInv, NEW g \in Ends \ {Server}, UNCHANGED <<opener, opened, listenVars>>,
         NEW s, wire' \subseteq wire \cup {s}, s.src = g, s.dst = PeerOf[g],
         g \in Clients =>
           \/ "rst" \in s.flags
           \/ s.flags = {"syn"} /\ IsNumber(g, s.seq)
           \/ s.flags = {"ack"} /\ <<g, Add(s.seq, -1), s.ack>> \in opened
  PROVE  SrvInv'
<1>1. opened' = opened /\ UNCHANGED listenVars
  BY Zenon
<1>2. SrvSeg(s)'
  BY <1>1, FromHost
<1>3. PICK out : out = {s}
  OBVIOUS
<1>4. wire' \subseteq wire \cup out /\ \A m \in out : SrvSeg(m)'
  BY <1>2, <1>3
<1>5. /\ DOMAIN opener' = Ends /\ \A e \in Ends \ {g} : opener'[e] = opener[e]
      /\ \A o \in opened' : OpenedIs(o)
      /\ g \in Clients => ClientInv(g)'
  BY DEF SrvInv, ClientInv
<1> QED BY <1>1, <1>4, <1>5, ClientStepKeeps

LEMMA ClientConnects ==
  ASSUME SrvInv, NEW g \in Ends \ {Server}, Connect(g), UNCHANGED listenVars
  PROVE  SrvInv'
<1>1. PICK n, x : n = opener[g].drawn + 1 /\ x = Fresh(g)
  OBVIOUS
<1>2. g \in Clients => opener[g].drawn \in Nat /\ n \in Nat /\ IsNumber(g, x)
  <2>1. Isn[g] \in Seq(Value)
    BY OpenAssumption
  <2>2. g \in Clients => opener[g].drawn \in Nat
    BY DEF SrvInv, ClientInv
  <2>3. g \in Clients => n \in DOMAIN Isn[g] /\ n \in Nat /\ x = Isn[g][n]
    BY <1>1, <2>1, <2>2 DEF Connect, Draws, Fresh
  <2> QED BY <2>2, <2>3 DEF IsNumber
<1>3. PICK h : h = SynSent(x, TRUE)
  OBVIOUS
<1>4. IsHandshake(h, "synSent", x, 0) /\ h.iss = x /\ h.ackNum = 0 /\ h.flags = {"syn"}
  BY <1>3 DEF SynSent, IsHandshake
<1>5. PICK s : s = SynOf(h, g, PeerOf[g])
  OBVIOUS
<1>6. /\ opener' = [opener EXCEPT ![g] = [pc |-> "handshake", h |-> h, drawn |-> n]]
      /\ Emits({s}) /\ opened' = opened
  <2>1. DOMAIN opener = Ends
    BY DEF SrvInv
  <2> QED BY <1>1, <1>3, <1>5, <2>1 DEF Connect
<1>7. /\ DOMAIN opener' = Ends /\ \A e \in Ends \ {g} : opener'[e] = opener[e]
      /\ opener'[g] = [pc |-> "handshake", h |-> h, drawn |-> n]
      /\ \A o \in opened' : OpenedIs(o)
  BY <1>6 DEF SrvInv
<1>8. opener'[g].pc = "handshake" /\ opener'[g].h = h /\ opener'[g].drawn = n
  BY <1>7
<1>9. g \in Clients => ClientInv(g)'
  BY <1>2, <1>4, <1>8 DEF ClientInv
<1>10. s.src = g /\ s.dst = PeerOf[g] /\ s.flags = {"syn"} /\ s.seq = x
  BY <1>4, <1>5, SegFields DEF SynOf
<1>11. SrvSeg(s)'
  BY <1>2, <1>10, FromHost
<1>12. PICK out : out = {s}
  OBVIOUS
<1>13. wire' \subseteq wire \cup out /\ \A m \in out : SrvSeg(m)'
  BY <1>6, <1>11, <1>12, CarriesOnly
<1>14. opened \subseteq opened'
  BY <1>6
<1> QED BY <1>7, <1>9, <1>13, <1>14, ClientStepKeeps


LEMMA ClientReceives ==
  ASSUME SrvInv, NEW g \in Clients, NEW s \in wire, OpenerReceives(g, s),
         UNCHANGED listenVars
  PROVE  SrvInv'
<1> USE FlagsDiffer
<1>1. /\ g \in Ends \ {Server} /\ PeerOf[g] = Server /\ s.src = Server /\ s.dst = g
      /\ opener[g].pc = "handshake"
  BY ClientIs DEF OpenerReceives, IsFor
<1>2. PICK iss, a, n, r : /\ iss = opener[g].h.iss /\ a = opener[g].h.ackNum
                          /\ n = opener[g].drawn
                          /\ r = HandleSegment(opener[g].h, s, Fresh(g))
  OBVIOUS
<1>3. /\ IsHandshake(opener[g].h, "synSent", iss, a) /\ IsNumber(g, iss) /\ n \in Nat
      /\ opener[g].h.state = "synSent"
  BY <1>1, <1>2 DEF SrvInv, ClientInv, IsHandshake
<1>4. FromServer(s)
  BY <1>1 DEF SrvInv, SrvSeg
<1>5. \/ r.err # "none" /\ r.h = opener[g].h /\ r.out = {}
      \/ r.err = "none" /\ r.h = opener[g].h /\ r.out \subseteq {ResetFor(s)}
      \/ /\ r.err = "none" /\ "rst" \notin s.flags /\ "syn" \in s.flags
         /\ "ack" \notin s.flags
      \/ /\ r.err = "none" /\ "rst" \notin s.flags /\ "syn" \in s.flags
         /\ "ack" \in s.flags /\ s.ack = Add(iss, 1)
         /\ IsHandshake(r.h, "completed", iss, Add(s.seq, 1))
         /\ r.out = {Seg(s.dst, s.src, {"ack"}, Add(iss, 1), Add(s.seq, 1))}
  BY <1>2, <1>3, SynSentGoes
<1>6. wire' \subseteq wire \cup r.out
  <2>1. Carries(s, r.out)
    BY <1>2 DEF OpenerReceives
  <2> QED BY <2>1, CarriesOnly
<1>7. DOMAIN opener = Ends
  BY DEF SrvInv
<1>8. CASE r.err # "none" /\ r.h = opener[g].h /\ r.out = {}
  <2>1. opener' = [opener EXCEPT ![g] = [pc |-> "failed", h |-> SynSent(0, TRUE),
                                         drawn |-> opener[g].drawn]]
    BY <1>2, <1>3, <1>8 DEF OpenerReceives
  <2>2. opened' = opened
    BY <1>2, <1>8 DEF OpenerReceives
  <2>3. Turns(g, "failed")
    BY <1>7, <2>1, <2>2 DEF Turns
  <2>4. PICK out : out = {}
    OBVIOUS
  <2>5. /\ wire' \subseteq wire \cup out
        /\ \A m \in out : m.src = g /\ m.dst = PeerOf[g] /\ "rst" \in m.flags
    BY <1>6, <1>8, <2>4
  <2> QED BY <1>1, <2>3, <2>5, EndedKeeps
<1>9. ASSUME NEW pc \in {"handshake", "connected"},
             opener' = [opener EXCEPT ![g] = [pc |-> pc, h |-> r.h, drawn |-> n]]
      PROVE  /\ DOMAIN opener' = Ends /\ \A e \in Ends \ {g} : opener'[e] = opener[e]
             /\ opener'[g].pc = pc /\ opener'[g].h = r.h /\ opener'[g].drawn = n
  <2>1. /\ DOMAIN opener' = Ends /\ \A e \in Ends \ {g} : opener'[e] = opener[e]
        /\ opener'[g] = [pc |-> pc, h |-> r.h, drawn |-> n]
    BY <1>1, <1>7, <1>9
  <2> QED BY <2>1
<1>10. CASE r.err = "none" /\ r.h = opener[g].h /\ r.out \subseteq {ResetFor(s)}
  <2>1. opener' = [opener EXCEPT ![g] = [pc |-> "handshake", h |-> r.h, drawn |-> n]]
    BY <1>2, <1>3, <1>10 DEF OpenerReceives
  <2>2. opened' = opened
    BY <1>2, <1>3, <1>10 DEF OpenerReceives
  <2>3. /\ DOMAIN opener' = Ends /\ \A e \in Ends \ {g} : opener'[e] = opener[e]
        /\ opener'[g].pc = "handshake" /\ opener'[g].h = r.h /\ opener'[g].drawn = n
    BY <1>9, <2>1
  <2>4. ClientInv(g)'
    BY <1>2, <1>3, <1>10, <2>3 DEF ClientInv
  <2>5. /\ ResetFor(s).src = g /\ ResetFor(s).dst = PeerOf[g]
        /\ "rst" \in ResetFor(s).flags
    BY <1>1, SegFields DEF ResetFor
  <2>6. \A m \in r.out : SrvSeg(m)'
    BY <1>1, <1>10, <2>5, FromHost
  <2>7. \A o \in opened' : OpenedIs(o)
    BY <2>2 DEF SrvInv
  <2> QED BY <1>1, <1>6, <2>2, <2>3, <2>4, <2>6, <2>7, ClientStepKeeps
<1>11. CASE /\ r.err = "none" /\ "rst" \notin s.flags /\ "syn" \in s.flags
            /\ "ack" \notin s.flags
  BY <1>4, <1>11 DEF FromServer
<1>12. CASE /\ r.err = "none" /\ "rst" \notin s.flags /\ "syn" \in s.flags
            /\ "ack" \in s.flags /\ s.ack = Add(iss, 1)
            /\ IsHandshake(r.h, "completed", iss, Add(s.seq, 1))
            /\ r.out = {Seg(s.dst, s.src, {"ack"}, Add(iss, 1), Add(s.seq, 1))}
  <2>1. r.h.state = "completed" /\ r.h.iss = iss /\ r.h.ackNum = Add(s.seq, 1)
    BY <1>12 DEF IsHandshake
  <2>2. opener' = [opener EXCEPT ![g] = [pc |-> "connected", h |-> r.h, drawn |-> n]]
    BY <1>2, <1>3, <1>12, <2>1 DEF OpenerReceives
  <2>3. opened' = opened \cup {<<g, iss, Add(s.seq, 1)>>}
    BY <1>2, <1>12, <2>1 DEF OpenerReceives
  <2>4. /\ DOMAIN opener' = Ends /\ \A e \in Ends \ {g} : opener'[e] = opener[e]
        /\ opener'[g].pc = "connected" /\ opener'[g].h = r.h /\ opener'[g].drawn = n
    BY <1>9, <2>2
  <2>5. ClientInv(g)'
    BY <1>3, <2>1, <2>3, <2>4 DEF ClientInv
  <2>6. PICK k \in DOMAIN Isn[g] :
          s.ack = Add(Isn[g][k], 1) /\ IsCookie(Isn[g][k], s.seq)
    BY <1>1, <1>4, <1>12 DEF FromServer
  <2>7. iss = Isn[g][k] /\ iss \in Value
    BY <1>1, <1>3, <1>12, <2>6, NumbersTell DEF IsNumber
  <2>8. OpenedIs(<<g, iss, Add(s.seq, 1)>>)
    BY <1>3, <2>6, <2>7 DEF OpenedIs, IsCookie
  <2>9. \A o \in opened' : OpenedIs(o)
    BY <2>3, <2>8 DEF SrvInv
  <2>10. PICK m : m = Seg(s.dst, s.src, {"ack"}, Add(iss, 1), Add(s.seq, 1))
    OBVIOUS
  <2>11. /\ m.src = g /\ m.dst = PeerOf[g] /\ m.flags = {"ack"}
         /\ Add(m.seq, -1) = iss /\ m.ack = Add(s.seq, 1)
    BY <1>1, <2>7, <2>10, AddOne, SegFields
  <2>12. SrvSeg(m)'
    BY <1>1, <2>3, <2>11, FromHost
  <2>13. \A x \in r.out : SrvSeg(x)'
    BY <1>12, <2>10, <2>12
  <2>14. opened \subseteq opened'
    BY <2>3
  <2> QED BY <1>1, <1>6, <2>4, <2>5, <2>9, <2>13, <2>14, ClientStepKeeps
<1> QED BY <1>5, <1>8, <1>10, <1>11, <1>12

\* A host that connects to another.
LEMMA StrangerReceives ==
  ASSUME SrvInv, NEW g \in Ends \ {Server}, g \notin Clients, NEW s \in wire,
         OpenerReceives(g, s), UNCHANGED listenVars
  PROVE  SrvInv'
<1>1. s.src = PeerOf[g] /\ s.dst = g /\ PeerOf[g] # Server
  BY ClientIs DEF OpenerReceives, IsFor
<1>2. PICK r : r = HandleSegment(opener[g].h, s, Fresh(g))
  OBVIOUS
<1>3. wire' \subseteq wire \cup r.out
  <2>1. Carries(s, r.out)
    BY <1>2 DEF OpenerReceives
  <2> QED BY <2>1, CarriesOnly
<1>4. \A m \in r.out : m.src = g /\ m.dst = PeerOf[g]
  BY <1>1, <1>2, Answers
<1>5. \A m \in r.out : SrvSeg(m)'
  BY <1>1, <1>4 DEF SrvSeg
<1>6. DOMAIN opener' = Ends /\ \A e \in Ends \ {g} : opener'[e] = opener[e]
  BY DEF OpenerReceives, SrvInv
<1>7. opened' = opened \/ opened' = opened \cup {<<g, r.h.iss, r.h.ackNum>>}
  BY <1>2 DEF OpenerReceives
<1>8. OpenedIs(<<g, r.h.iss, r.h.ackNum>>)
  BY DEF OpenedIs
<1>9. opened \subseteq opened' /\ \A o \in opened' : OpenedIs(o)
  BY <1>7, <1>8 DEF SrvInv
<1> QED BY <1>3, <1>5, <1>6, <1>9, ClientStepKeeps

LEMMA HostsKeep ==
  ASSUME SrvInv, NEW opening \in SUBSET (Ends \ {Server}), OpenNext(opening),
         UNCHANGED listenVars
  PROVE  SrvInv'
<1>1. ASSUME NEW g \in Ends \ {Server}, Connect(g) PROVE SrvInv'
  BY <1>1, ClientConnects
<1>2. ASSUME NEW g \in Ends \ {Server}, Resends(g) PROVE SrvInv'
  <2>1. PICK s : s = SynOf(opener[g].h, g, PeerOf[g])
    OBVIOUS
  <2>2. opener[g].pc = "handshake" /\ Emits({s}) /\ opener' = opener /\ opened' = opened
    BY <1>2, <2>1 DEF Resends
  <2>3. s.src = g /\ s.dst = PeerOf[g] /\ s.flags = opener[g].h.flags
        /\ s.seq = opener[g].h.iss
    BY <2>1, SegFields DEF SynOf
  <2>4. g \in Clients => s.flags = {"syn"} /\ IsNumber(g, s.seq)
    BY <2>2, <2>3 DEF SrvInv, ClientInv, IsHandshake
  <2>5. wire' \subseteq wire \cup {s}
    BY <2>2, CarriesOnly
  <2> QED BY <2>2, <2>3, <2>4, <2>5, SendsMore
<1>3. ASSUME NEW g \in Ends \ {Server}, GivesUp(g) \/ Closes(g) PROVE SrvInv'
  <2>1. PICK pc \in {"closed", "failed"} : Turns(g, pc)
    BY <1>3 DEF GivesUp, Closes
  <2>2. PICK out : out = {}
    OBVIOUS
  <2>3. /\ wire' \subseteq wire \cup out
        /\ \A m \in out : m.src = g /\ m.dst = PeerOf[g] /\ "rst" \in m.flags
    BY <1>3, <2>2 DEF GivesUp, Closes
  <2> QED BY <2>1, <2>3, EndedKeeps
<1>4. ASSUME NEW s \in wire, Loses(s) PROVE SrvInv'
  <2>1. UNCHANGED <<opener, opened, lq, conn, owner, epoch>> /\ wire' \subseteq wire
    BY <1>4 DEF Loses, listenVars
  <2>2. \A m \in wire' \cup lq' : SrvSeg(m)'
    BY <2>1 DEF SrvInv, SrvSeg, ToServer, FromServer
  <2> QED BY <2>1, <2>2 DEF SrvInv, OpenedIs, ClientInv, EndInv, Established, Agreed, PortsInv
<1>5. ASSUME NEW s \in wire, NEW g \in Ends \ {Server}, OpenerReceives(g, s) PROVE SrvInv'
  BY <1>5, ClientReceives, StrangerReceives
<1>6. ASSUME NEW s \in wire, NEW g \in Ends \ {Server}, AcksAgain(g, s) PROVE SrvInv'
  <2>1. PICK m : m = AckOf(opener[g].h, s)
    OBVIOUS
  <2>2. /\ s.src = PeerOf[g] /\ s.dst = g /\ opener[g].pc = "connected"
        /\ Carries(s, {m}) /\ opener' = opener /\ opened' = opened
    BY <1>6, <2>1 DEF AcksAgain, IsFor
  <2>3. /\ m.src = g /\ m.dst = PeerOf[g] /\ m.flags = {"ack"}
        /\ m.seq = Add(opener[g].h.iss, 1) /\ m.ack = opener[g].h.ackNum
    BY <2>1, <2>2, SegFields DEF AckOf
  <2>4. ASSUME g \in Clients
        PROVE  <<g, Add(m.seq, -1), m.ack>> \in opened
    <3>1. PICK o : o = <<g, opener[g].h.iss, opener[g].h.ackNum>>
      OBVIOUS
    <3>2. o \in opened /\ OpenedIs(o) /\ o[1] = g /\ o[2] = opener[g].h.iss
      BY <2>2, <2>4, <3>1 DEF SrvInv, ClientInv
    <3>3. opener[g].h.iss \in Value
      BY <2>4, <3>2, NumbersTell DEF OpenedIs, IsNumber
    <3> QED BY <2>3, <3>1, <3>2, <3>3, AddOne
  <2>5. wire' \subseteq wire \cup {m}
    BY <2>2, CarriesOnly
  <2> QED BY <2>2, <2>3, <2>4, <2>5, SendsMore
<1>7. ASSUME NEW s \in wire, NEW g \in Ends \ {Server}, IsReset(g, s) PROVE SrvInv'
  <2>1. s.src = PeerOf[g] /\ Turns(g, "failed")
    BY <1>7 DEF IsReset, IsFor
  <2>2. PICK m : m = ResetOf(opener[g].h, g, s.src)
    OBVIOUS
  <2>3. wire' \subseteq wire \cup {m}
    BY <1>7, <2>2, CarriesOnly DEF IsReset
  <2>4. m.src = g /\ m.dst = PeerOf[g] /\ "rst" \in m.flags
    BY <2>1, <2>2, SegFields DEF ResetOf
  <2>5. PICK out : out = {m}
    OBVIOUS
  <2>6. /\ wire' \subseteq wire \cup out
        /\ \A x \in out : x.src = g /\ x.dst = PeerOf[g] /\ "rst" \in x.flags
    BY <2>3, <2>4, <2>5
  <2> QED BY <2>1, <2>6, EndedKeeps
<1> QED BY <1>1, <1>2, <1>3, <1>4, <1>5, <1>6, <1>7 DEF OpenNext

-----------------------------------------------------------------------------
(* The endpoints of the listener. *)

\* Nothing of the hosts that connect changes.
LEMMA ListenerStepKeeps ==
  ASSUME SrvInv, UNCHANGED <<opener, opened>>,
         NEW out, wire' \subseteq wire \cup out, \A s \in out : SrvSeg(s),
         lq' \subseteq lq \cup wire,
         \A n \in Conns : EndInv(conn'[n]), PortsInv', epoch' \in Epochs
  PROVE  SrvInv'
<1>1. \A s \in out : SrvSeg(s)'
  BY DEF SrvSeg, ToServer, FromServer
<1>2. \A s \in wire' \cup lq' : SrvSeg(s)'
  BY <1>1, NetworkKeeps
<1>3. \A n \in Conns : EndInv(conn[n])'
  BY DEF EndInv, Established, Agreed
<1>4. \A e \in Clients : ClientInv(e)'
  BY DEF SrvInv, ClientInv
<1>5. \A o \in opened' : OpenedIs(o)'
  BY DEF SrvInv, OpenedIs
<1> QED BY <1>2, <1>3, <1>4, <1>5 DEF SrvInv

\* An endpoint becomes c: with the ports it has, or as one that has none, or
\* with those of c.
HasPorts(n, c) ==
  \/ owner' = owner /\ c.peer = conn[n].peer /\ c.isRegistered = conn[n].isRegistered
  \/ owner' = owner /\ ~conn[n].isRegistered
  \/ /\ owner' = [owner EXCEPT ![c.peer] = n]
     /\ ~conn[n].isRegistered /\ c.isRegistered

LEMMA EndBecomes ==
  ASSUME SrvInv, LstInv, NEW n \in Conns, NEW c, EndInv(c), HasPorts(n, c),
         conn' = [conn EXCEPT ![n] = c]
  PROVE  (\A m \in Conns : EndInv(conn'[m])) /\ PortsInv'
<1>1. /\ DOMAIN conn = Conns /\ DOMAIN owner = Ends
      /\ conn'[n] = c /\ \A m \in Conns \ {n} : conn'[m] = conn[m]
  BY DEF LstInv, ConnInv, OwnerInv
<1>2. \A m \in Conns : EndInv(conn'[m])
  BY <1>1 DEF SrvInv
<1>3. \A e \in Ends : owner[e] \in Conns =>
        conn[owner[e]].peer = e /\ conn[owner[e]].isRegistered
  BY DEF SrvInv, PortsInv
<1>4. PortsInv'
  <2>1. CASE owner' = owner /\ c.peer = conn[n].peer /\ c.isRegistered = conn[n].isRegistered
    BY <1>1, <1>3, <2>1 DEF PortsInv
  <2>2. CASE owner' = owner /\ ~conn[n].isRegistered
    BY <1>1, <1>3, <2>2 DEF PortsInv
  <2>3. CASE /\ owner' = [owner EXCEPT ![c.peer] = n]
             /\ ~conn[n].isRegistered /\ c.isRegistered
    <3>1. ASSUME NEW e \in Ends, owner'[e] \in Conns
          PROVE  conn'[owner'[e]].peer = e /\ conn'[owner'[e]].isRegistered
      <4>1. CASE e = c.peer
        BY <1>1, <2>3, <4>1
      <4>2. CASE e # c.peer
        <5>1. owner'[e] = owner[e] /\ owner[e] # n
          BY <1>1, <1>3, <2>3, <3>1, <4>2
        <5> QED BY <1>1, <1>3, <3>1, <5>1
      <4> QED BY <4>1, <4>2
    <3> QED BY <3>1 DEF PortsInv
  <2> QED BY <2>1, <2>2, <2>3 DEF HasPorts
<1> QED BY <1>2, <1>4

LEMMA EndCloses ==
  ASSUME SrvInv, LstInv, NEW n \in Conns, CloseConn(n)
  PROVE  (\A m \in Conns : EndInv(conn'[m])) /\ PortsInv'
<1>1. /\ conn' = [conn EXCEPT ![n] = Unused]
      /\ owner' = IF conn[n].isRegistered THEN [owner EXCEPT ![conn[n].peer] = None] ELSE owner
  BY DEF CloseConn, Cleaned
<1>2. /\ DOMAIN conn = Conns /\ DOMAIN owner = Ends /\ conn[n].peer \in Ends
      /\ conn'[n] = Unused /\ \A m \in Conns \ {n} : conn'[m] = conn[m]
  BY <1>1 DEF LstInv, ConnInv, OwnerInv
<1>3. EndInv(Unused)
  BY DEF EndInv, Established, Unused
<1>4. \A e \in Ends : owner[e] \in Conns =>
        conn[owner[e]].peer = e /\ conn[owner[e]].isRegistered
  BY DEF SrvInv, PortsInv
<1>5. None \notin Conns
  BY ListenAssumption DEF None
<1>6. ASSUME NEW e \in Ends, owner'[e] \in Conns
      PROVE  conn'[owner'[e]].peer = e /\ conn'[owner'[e]].isRegistered
  <2>1. owner'[e] = owner[e] /\ owner[e] # n
    BY <1>1, <1>2, <1>4, <1>5, <1>6
  <2> QED BY <1>2, <1>4, <1>6, <2>1
<1> QED BY <1>2, <1>3, <1>6 DEF SrvInv, PortsInv

\* A step of one endpoint.
LEMMA EndStepKeeps ==
  ASSUME SrvInv, LstInv, UNCHANGED <<opener, opened>>, UNCHANGED <<lq, epoch>>,
         NEW n \in Conns,
         \/ CloseConn(n)
         \/ \E c : EndInv(c) /\ HasPorts(n, c) /\ conn' = [conn EXCEPT ![n] = c],
         NEW out, wire' \subseteq wire \cup out, \A s \in out : SrvSeg(s)
  PROVE  SrvInv'
<1>1. (\A m \in Conns : EndInv(conn'[m])) /\ PortsInv'
  BY EndBecomes, EndCloses
<1>2. epoch' \in Epochs /\ lq' \subseteq lq \cup wire
  BY DEF SrvInv
<1> QED BY <1>1, <1>2, ListenerStepKeeps

\* No endpoint changes.
LEMMA EndsStay ==
  ASSUME SrvInv, UNCHANGED <<conn, owner>>
  PROVE  (\A m \in Conns : EndInv(conn'[m])) /\ PortsInv'
BY DEF SrvInv, PortsInv

LEMMA FromListener ==
  ASSUME NEW s, s.src = Server, s.dst \in Clients,
         "rst" \in s.flags \/ s.flags = {"ack"}
  PROVE  SrvSeg(s)
BY ClientIs DEF SrvSeg, FromServer

\* SYN|ACK of a passive handshake.
LEMMA SynAckIs ==
  ASSUME NEW e \in Clients, NEW h, NEW k \in DOMAIN Isn[e],
         IsPassive(h, h.state, h.iss, h.ackNum),
         h.ackNum = Add(Isn[e][k], 1), IsCookie(Isn[e][k], h.iss)
  PROVE  SrvSeg(SynOf(h, Server, e))
<1>1. PICK s : s = SynOf(h, Server, e)
  OBVIOUS
<1>2. /\ s.src = Server /\ s.dst = e /\ s.flags = {"syn", "ack"}
      /\ s.seq = h.iss /\ s.ack = h.ackNum
  BY <1>1, SegFields DEF SynOf, IsPassive
<1>3. FromServer(s)
  BY <1>2 DEF FromServer
<1> QED BY <1>1, <1>2, <1>3, ClientIs DEF SrvSeg

LEMMA CookieIsOne ==
  ASSUME SrvInv, NEW x
  PROVE  IsCookie(x, Cookie(x))
BY DEF SrvInv, IsCookie, Cookie

LEMMA SrvStartsHandshake ==
  ASSUME SrvInv, LstInv, NEW n \in Conns, StartsHandshake(n)
  PROVE  SrvInv'
<1>1. PICK e, x, made : /\ e = conn[n].peer /\ x = Add(conn[n].h.ackNum, -1)
                        /\ made = Handshaking(conn[n], Cookie(x))
  OBVIOUS
<1>2. /\ conn[n].pc = "starts" /\ UNCHANGED <<opener, opened>> /\ UNCHANGED <<lq, epoch>>
      /\ EndInv(conn[n]) /\ HasFields(conn[n])
  BY DEF StartsHandshake, SrvInv, LstInv, ConnInv
<1>3. /\ e \in Clients /\ ~conn[n].isRegistered
      /\ IsPassive(conn[n].h, "synRcvd", conn[n].h.iss, conn[n].h.ackNum)
  BY <1>1, <1>2 DEF EndInv
<1>4. PICK k \in DOMAIN Isn[e] : conn[n].h.ackNum = Add(Isn[e][k], 1)
  BY <1>1, <1>2 DEF EndInv
<1>5. x = Isn[e][k]
  BY <1>1, <1>3, <1>4, ClientIs, NumbersTell, AddOne
<1>6. CASE owner[e] = None
  <2>1. /\ owner' = [owner EXCEPT ![e] = n] /\ conn' = [conn EXCEPT ![n] = made]
        /\ Emits({SynOf(made.h, Server, e)})
    BY <1>1, <1>6 DEF StartsHandshake
  <2>2. /\ made.peer = e /\ made.pc = "handshake" /\ made.isRegistered
        /\ IsPassive(made.h, "synRcvd", Cookie(x), conn[n].h.ackNum)
    BY <1>1, <1>2, <1>3 DEF HasFields, Handshaking, IsPassive
  <2>3. /\ made.h.iss = Cookie(x) /\ made.h.ackNum = Add(Isn[e][k], 1)
        /\ IsPassive(made.h, "synRcvd", made.h.iss, made.h.ackNum)
        /\ IsPassive(made.h, made.h.state, made.h.iss, made.h.ackNum)
    BY <1>4, <2>2 DEF IsPassive
  <2>4. IsCookie(Isn[e][k], made.h.iss)
    BY <1>5, <2>3, CookieIsOne
  <2>5. EndInv(made)
    BY <1>3, <2>2, <2>3, <2>4 DEF EndInv, Established
  <2>6. HasPorts(n, made)
    BY <1>3, <2>1, <2>2 DEF HasPorts
  <2>7. PICK out : out = {SynOf(made.h, Server, e)}
    OBVIOUS
  <2>8. wire' \subseteq wire \cup out /\ \A s \in out : SrvSeg(s)
    BY <1>3, <2>1, <2>3, <2>4, <2>7, CarriesOnly, SynAckIs
  <2> QED BY <1>2, <2>1, <2>5, <2>6, <2>8, EndStepKeeps
<1>7. CASE owner[e] # None
  <2>1. CloseConn(n) /\ wire' = wire
    BY <1>1, <1>7 DEF StartsHandshake
  <2>2. PICK out : out = {}
    OBVIOUS
  <2>3. wire' \subseteq wire \cup out /\ \A s \in out : SrvSeg(s)
    BY <2>1, <2>2
  <2> QED BY <1>2, <2>1, <2>3, EndStepKeeps
<1> QED BY <1>6, <1>7

\* What a passive handshake makes of a segment.
LEMMA PassiveGoes ==
  ASSUME NEW iss, NEW a, NEW h, IsPassive(h, "synRcvd", iss, a), NEW s, NEW fresh
  PROVE  LET r == HandleSegment(h, s, fresh)
         IN  \/ r.err # "none" /\ r.out \subseteq {ResetFor(s)}
             \/ r.err = "none" /\ r.h = h /\ r.out \subseteq {ResetFor(s)}
             \/ /\ r.err = "none" /\ "rst" \notin s.flags
                /\ "ack" \in s.flags /\ s.ack = Add(iss, 1)
                /\ IsPassive(r.h, "completed", iss, a) /\ r.out = {}
<1>1. /\ DOMAIN h = {"state", "active", "flags", "iss", "ackNum"}
      /\ h.state = "synRcvd" /\ h.iss = iss /\ h.ackNum = a /\ h.flags = {"syn", "ack"}
      /\ h.active = FALSE
  BY DEF IsPassive
<1>2. HandleSegment(h, s, fresh) = synRcvdState(h, s, fresh)
  BY <1>1 DEF HandleSegment
<1>3. CASE "rst" \in s.flags
  <2>1. CASE InWindow(s.seq, h.ackNum, RcvWnd)
    <3>1. HandleSegment(h, s, fresh) = Fails(h, {}, "refused")
      BY <1>2, <1>3, <2>1 DEF synRcvdState
    <3> QED BY <3>1 DEF Fails
  <2>2. CASE ~InWindow(s.seq, h.ackNum, RcvWnd)
    <3>1. HandleSegment(h, s, fresh) = Goes(h, {})
      BY <1>2, <1>3, <2>2 DEF synRcvdState
    <3> QED BY <3>1 DEF Goes
  <2> QED BY <2>1, <2>2
<1>4. CASE "rst" \notin s.flags /\ BadAck(h, s)
  BY <1>2, <1>4 DEF synRcvdState, Goes
<1>5. CASE /\ "rst" \notin s.flags /\ ~BadAck(h, s)
           /\ "syn" \in s.flags /\ Add(s.seq, 1) # h.ackNum
  <2>1. HandleSegment(h, s, fresh) = Fails(h, {ResetFor(s)}, "invalid")
    BY <1>1, <1>2, <1>5 DEF synRcvdState
  <2> QED BY <2>1 DEF Fails
<1>6. CASE /\ "rst" \notin s.flags /\ ~BadAck(h, s)
           /\ ~("syn" \in s.flags /\ Add(s.seq, 1) # h.ackNum)
  <2> DEFINE done == [h EXCEPT !.state = "completed"]
  <2>1. HandleSegment(h, s, fresh) = Goes(IF "ack" \in s.flags THEN done ELSE h, {})
    BY <1>2, <1>6 DEF synRcvdState
  <2>2. IsPassive(done, "completed", iss, a)
    BY <1>1 DEF IsPassive
  <2> HIDE DEF done
  <2> QED BY <1>1, <1>6, <2>1, <2>2 DEF Goes, BadAck
<1> QED BY <1>3, <1>4, <1>5, <1>6

\* The reverse of what ports have; nobody has those of an endpoint without any.
LEMMA OwnerIs ==
  ASSUME SrvInv, NEW e \in Ends, NEW n \in Conns, owner[e] = n
  PROVE  conn[n].peer = e
BY DEF SrvInv, PortsInv

\* A segment for an endpoint that is not free comes from its client.
LEMMA FromItsClient ==
  ASSUME SrvInv, NEW s \in wire, s.dst = Server, NEW n \in Conns, owner[s.src] = n
  PROVE  /\ ToServer(s) /\ s.src \in Clients /\ conn[n].peer = s.src
<1>1. ToServer(s) /\ s.src \in Clients /\ s.src \in Ends
  BY ClientIs DEF SrvInv, SrvSeg, ToServer
<1> QED BY <1>1, OwnerIs

\* A handshake of the listener is completed by the ack of its own attempt.
LEMMA SrvHalfOpenReceives ==
  ASSUME SrvInv, LstInv, NEW n \in Conns, NEW s \in wire, HalfOpenReceives(n, s)
  PROVE  SrvInv'
<1> USE FlagsDiffer
<1>1. PICK e, r, iss, a : /\ e = conn[n].peer /\ r = HandleSegment(conn[n].h, s, 0)
                          /\ iss = conn[n].h.iss /\ a = conn[n].h.ackNum
  OBVIOUS
<1>2. /\ s.dst = Server /\ owner[s.src] = n /\ conn[n].pc = "handshake"
      /\ Carries(s, r.out) /\ UNCHANGED <<opener, opened>> /\ UNCHANGED <<lq, epoch>>
      /\ EndInv(conn[n]) /\ HasFields(conn[n])
  BY <1>1 DEF HalfOpenReceives, SrvInv, LstInv, ConnInv
<1>3. ToServer(s) /\ s.src = e /\ e \in Clients /\ e \in Ends
  BY <1>1, <1>2, FromItsClient, ClientIs
<1>4. IsPassive(conn[n].h, "synRcvd", iss, a)
  BY <1>1, <1>2 DEF EndInv
<1>5. PICK k \in DOMAIN Isn[e] : a = Add(Isn[e][k], 1) /\ IsCookie(Isn[e][k], iss)
  BY <1>1, <1>2 DEF EndInv
<1>6. \/ r.err # "none" /\ r.out \subseteq {ResetFor(s)}
      \/ r.err = "none" /\ r.h = conn[n].h /\ r.out \subseteq {ResetFor(s)}
      \/ /\ r.err = "none" /\ "rst" \notin s.flags
         /\ "ack" \in s.flags /\ s.ack = Add(iss, 1)
         /\ IsPassive(r.h, "completed", iss, a) /\ r.out = {}
  BY <1>1, <1>4, PassiveGoes
<1>7. wire' \subseteq wire \cup r.out
  BY <1>2, CarriesOnly
<1>8. r.out \subseteq {ResetFor(s)} => \A m \in r.out : SrvSeg(m)
  <2>1. /\ ResetFor(s).src = Server /\ ResetFor(s).dst = e
        /\ "rst" \in ResetFor(s).flags
    BY <1>2, <1>3, SegFields DEF ResetFor
  <2> QED BY <1>3, <2>1, FromListener
<1>9. CASE r.err # "none" /\ r.out \subseteq {ResetFor(s)}
  <2>1. CloseConn(n)
    BY <1>1, <1>9 DEF HalfOpenReceives, HandshakeFails
  <2> QED BY <1>2, <1>7, <1>8, <1>9, <2>1, EndStepKeeps
<1>10. PICK d : d = [conn[n] EXCEPT !.h = r.h,
                       !.pc = IF r.h.state = "completed" THEN "delivers" ELSE @]
  OBVIOUS
<1>11. /\ d.peer = e /\ d.isRegistered = conn[n].isRegistered /\ d.h = r.h
       /\ d.pc = IF r.h.state = "completed" THEN "delivers" ELSE "handshake"
  BY <1>1, <1>2, <1>10 DEF HasFields
<1>12. r.err = "none" =>
         conn' = [conn EXCEPT ![n] = d] /\ owner' = owner /\ HasPorts(n, d)
  <2>1. ASSUME r.err = "none"
        PROVE  conn' = [conn EXCEPT ![n] = d] /\ owner' = owner
    BY <1>1, <1>10, <2>1 DEF HalfOpenReceives
  <2> QED BY <1>1, <1>11, <2>1 DEF HasPorts
<1>13. CASE r.err = "none" /\ r.h = conn[n].h /\ r.out \subseteq {ResetFor(s)}
  <2>1. r.h.state = "synRcvd"
    BY <1>4, <1>13 DEF IsPassive
  <2>2. EndInv(d)
    BY <1>1, <1>2, <1>11, <1>13, <2>1 DEF EndInv, Established
  <2> QED BY <1>2, <1>7, <1>8, <1>12, <1>13, <2>2, EndStepKeeps
<1>14. CASE /\ r.err = "none" /\ "rst" \notin s.flags
            /\ "ack" \in s.flags /\ s.ack = Add(iss, 1)
            /\ IsPassive(r.h, "completed", iss, a) /\ r.out = {}
  <2>1. r.h.state = "completed" /\ r.h.iss = iss /\ r.h.ackNum = a
    BY <1>14 DEF IsPassive
  <2>2. <<e, Add(s.seq, -1), s.ack>> \in opened
    BY <1>3, <1>14 DEF ToServer
  <2>3. PICK x, o : x = Add(s.seq, -1) /\ o = <<e, x, s.ack>>
    OBVIOUS
  <2>4. o \in opened /\ o[1] = e /\ o[2] = x /\ o[3] = s.ack
    BY <2>2, <2>3
  <2>5. OpenedIs(o)
    BY <2>4 DEF SrvInv
  <2>6. PICK j \in DOMAIN Isn[e] : x = Isn[e][j]
    BY <1>3, <2>4, <2>5 DEF OpenedIs, IsNumber
  <2>7. PICK t \in Epochs : s.ack = Add(Add(x, CookieHash[t]), 1)
    BY <1>3, <2>4, <2>5 DEF OpenedIs
  <2>8. PICK u \in Epochs : iss = Add(Isn[e][k], CookieHash[u])
    BY <1>5 DEF IsCookie
  <2>9. j = k
    <3>1. PICK v, w : v = Add(x, CookieHash[t]) /\ w = Add(Isn[e][k], CookieHash[u])
      OBVIOUS
    <3>2. v \in Value /\ w \in Value
      <4>1. x \in Value /\ Isn[e][k] \in Value
        BY <1>3, <2>6, NumbersTell
      <4>2. CookieHash[t] \in Value /\ CookieHash[u] \in Value
        BY CookieAssumption DEF Epochs
      <4> QED BY <3>1, <4>1, <4>2, AddInValue
    <3>3. v = w
      BY <1>14, <2>7, <2>8, <3>1, <3>2, AddOne
    <3>4. Add(Isn[e][j], CookieHash[t]) = Add(Isn[e][k], CookieHash[u])
      BY <2>6, <3>1, <3>3
    <3> QED BY <1>3, <3>4, CookieTells
  <2>10. Add(a, -1) = x
    BY <1>3, <1>5, <2>6, <2>9, NumbersTell, AddOne
  <2>11. Agreed(d)
    BY <1>11, <1>14, <2>1, <2>2, <2>3, <2>10 DEF Agreed
  <2>12. EndInv(d)
    BY <1>3, <1>11, <2>1, <2>11 DEF EndInv, Established
  <2>13. \A m \in r.out : SrvSeg(m)
    BY <1>14
  <2> QED BY <1>2, <1>7, <1>12, <1>14, <2>12, <2>13, EndStepKeeps
<1> QED BY <1>6, <1>9, <1>13, <1>14

\* An established endpoint goes on.
LEMMA PcChanges ==
  ASSUME SrvInv, LstInv, NEW n \in Conns, Established(conn[n]),
         NEW pc \in {"sends", "queued", "accepted", "failed"},
         conn' = [conn EXCEPT ![n].pc = pc], owner' = owner,
         UNCHANGED <<opener, opened>>, UNCHANGED <<lq, epoch>>,
         NEW out, wire' \subseteq wire \cup out, \A s \in out : SrvSeg(s)
  PROVE  SrvInv'
<1>1. HasFields(conn[n]) /\ DOMAIN conn = Conns
  BY DEF LstInv, ConnInv
<1>2. PICK d : d = [conn[n] EXCEPT !.pc = pc]
  OBVIOUS
<1>3. conn' = [conn EXCEPT ![n] = d]
  BY <1>1, <1>2
<1>4. /\ d.pc = pc /\ d.peer = conn[n].peer /\ d.h = conn[n].h
      /\ d.isRegistered = conn[n].isRegistered
  BY <1>1, <1>2 DEF HasFields
<1>5. EndInv(d)
  <2>1. EndInv(conn[n]) /\ Agreed(conn[n]) /\ conn[n].pc # "free"
    BY DEF SrvInv, EndInv, Established
  <2> QED BY <1>4, <2>1 DEF EndInv, Established, Agreed
<1>6. HasPorts(n, d)
  BY <1>4 DEF HasPorts
<1> QED BY <1>3, <1>5, <1>6, EndStepKeeps

LEMMA SrvDelivers ==
  ASSUME SrvInv, LstInv, NEW n \in Conns,
         Delivers(n) \/ AcceptsFrom(n) \/ AcceptedCloses(n) \/ HalfOpenGivesUp(n)
  PROVE  SrvInv'
<1>1. UNCHANGED <<opener, opened>> /\ UNCHANGED <<lq, epoch>> /\ wire' = wire
  BY DEF Delivers, LocksToDeliver, Sends, AcceptsFrom, AcceptedCloses, HalfOpenGivesUp,
         openVars
<1>2. PICK out : out = {}
  OBVIOUS
<1>3. wire' \subseteq wire \cup out /\ \A s \in out : SrvSeg(s)
  BY <1>1, <1>2
<1>4. CASE CloseConn(n)
  BY <1>1, <1>3, <1>4, EndStepKeeps
<1>5. CASE /\ Established(conn[n]) /\ owner' = owner
           /\ \E pc \in {"sends", "queued", "accepted", "failed"} :
                conn' = [conn EXCEPT ![n].pc = pc]
  BY <1>1, <1>3, <1>5, PcChanges
<1>6. \/ CloseConn(n)
      \/ /\ Established(conn[n]) /\ owner' = owner
         /\ \E pc \in {"sends", "queued", "accepted", "failed"} :
              conn' = [conn EXCEPT ![n].pc = pc]
  BY DEF Delivers, LocksToDeliver, Sends, AcceptsFrom, AcceptedCloses, HalfOpenGivesUp,
         HandshakeFails, Established
<1> QED BY <1>4, <1>5, <1>6

\* An endpoint sends, and is as it was.
LEMMA SrvSends ==
  ASSUME SrvInv, LstInv, UNCHANGED <<opener, opened>>, UNCHANGED <<conn, owner, epoch>>,
         lq' \subseteq lq \cup wire, NEW s, wire' \subseteq wire \cup {s}, SrvSeg(s)
  PROVE  SrvInv'
<1>1. PICK out : out = {s}
  OBVIOUS
<1>2. wire' \subseteq wire \cup out /\ \A m \in out : SrvSeg(m)
  BY <1>1
<1>3. (\A m \in Conns : EndInv(conn'[m])) /\ PortsInv'
  BY EndsStay
<1>4. epoch' \in Epochs
  BY DEF SrvInv
<1> QED BY <1>2, <1>3, <1>4, ListenerStepKeeps

LEMMA SrvResends ==
  ASSUME SrvInv, LstInv, NEW n \in Conns, ResendsSynAck(n)
  PROVE  SrvInv'
<1>1. PICK e, s : e = conn[n].peer /\ s = SynOf(conn[n].h, Server, e)
  OBVIOUS
<1>2. /\ conn[n].pc = "handshake" /\ Emits({s}) /\ UNCHANGED <<opener, opened>>
      /\ UNCHANGED <<conn, owner, epoch>> /\ lq' \subseteq lq \cup wire
  BY <1>1 DEF ResendsSynAck, listenVars
<1>3. EndInv(conn[n])
  BY DEF SrvInv
<1>4. /\ e \in Clients /\ IsPassive(conn[n].h, "synRcvd", conn[n].h.iss, conn[n].h.ackNum)
  BY <1>1, <1>2, <1>3 DEF EndInv
<1>5. PICK k \in DOMAIN Isn[e] :
        conn[n].h.ackNum = Add(Isn[e][k], 1) /\ IsCookie(Isn[e][k], conn[n].h.iss)
  BY <1>1, <1>2, <1>3 DEF EndInv
<1>6. IsPassive(conn[n].h, conn[n].h.state, conn[n].h.iss, conn[n].h.ackNum)
  BY <1>4 DEF IsPassive
<1>7. SrvSeg(s)
  BY <1>1, <1>4, <1>5, <1>6, SynAckIs
<1>8. wire' \subseteq wire \cup {s}
  BY <1>2, CarriesOnly
<1> QED BY <1>2, <1>7, <1>8, SrvSends

LEMMA SrvAccepted ==
  ASSUME SrvInv, LstInv, NEW n \in Conns, NEW s \in wire,
         AcceptedAcks(n, s) \/ AcceptedIsReset(n, s)
  PROVE  SrvInv'
<1>1. s.dst = Server /\ owner[s.src] = n /\ conn[n].pc = "accepted"
  BY DEF AcceptedAcks, AcceptedIsReset
<1>2. s.src \in Clients
  BY <1>1, FromItsClient
<1>3. CASE AcceptedAcks(n, s)
  <2>1. PICK m : m = AckOf(conn[n].h, s)
    OBVIOUS
  <2>2. m.src = Server /\ m.dst = s.src /\ m.flags = {"ack"}
    BY <1>1, <2>1, SegFields DEF AckOf
  <2>3. wire' \subseteq wire \cup {m}
    BY <1>3, <2>1, CarriesOnly DEF AcceptedAcks
  <2>4. /\ UNCHANGED <<opener, opened>> /\ UNCHANGED <<conn, owner, epoch>>
        /\ lq' \subseteq lq \cup wire
    BY <1>3 DEF AcceptedAcks, listenVars
  <2> QED BY <1>2, <2>2, <2>3, <2>4, FromListener, SrvSends
<1>4. CASE AcceptedIsReset(n, s)
  <2>1. PICK m, out : m = ResetOf(conn[n].h, Server, s.src) /\ out = {m}
    OBVIOUS
  <2>2. m.src = Server /\ m.dst = s.src /\ "rst" \in m.flags
    BY <2>1, SegFields DEF ResetOf
  <2>3. Carries(s, out)
    BY <1>4, <2>1 DEF AcceptedIsReset
  <2>4. wire' \subseteq wire \cup out /\ \A x \in out : SrvSeg(x)
    BY <1>2, <2>1, <2>2, <2>3, CarriesOnly, FromListener
  <2>5. /\ UNCHANGED <<opener, opened>> /\ UNCHANGED <<lq, epoch>> /\ owner' = owner
        /\ conn' = [conn EXCEPT ![n].pc = "failed"] /\ Established(conn[n])
    BY <1>1, <1>4 DEF AcceptedIsReset, Established
  <2> QED BY <2>4, <2>5, PcChanges
<1> QED BY <1>3, <1>4

-----------------------------------------------------------------------------
(* The loop and the application. *)

\* An endpoint is made for what the loop handles.
LEMMA SrvMakes ==
  ASSUME SrvInv, LstInv, NEW s \in lq, s.dst = Server, NEW n \in Conns,
         StartsGoroutine(s, n) \/ TakesCookie(s, n),
         UNCHANGED <<opener, opened, epoch>>, lq' = {}
  PROVE  SrvInv'
<1> USE FlagsDiffer
<1>1. PICK e : e = s.src
  OBVIOUS
<1>2. ToServer(s) /\ e \in Clients /\ e \in Ends
  BY <1>1, ClientIs DEF SrvInv, SrvSeg, ToServer
<1>3. conn[n].pc = "free" /\ ~conn[n].isRegistered
  <2>1. conn[n].pc = "free"
    BY FreeIsFound DEF StartsGoroutine, TakesCookie
  <2> QED BY <2>1 DEF SrvInv, EndInv
<1>4. wire' = wire
  BY DEF StartsGoroutine, TakesCookie
<1>5. PICK out : out = {}
  OBVIOUS
<1>6. /\ wire' \subseteq wire \cup out /\ \A m \in out : SrvSeg(m)
      /\ lq' \subseteq lq \cup wire /\ epoch' \in Epochs /\ UNCHANGED <<opener, opened>>
  BY <1>4, <1>5 DEF SrvInv
<1>7. CASE StartsGoroutine(s, n)
  <2>1. PICK c : c = Created(s, 0, s.seq, "starts", FALSE)
    OBVIOUS
  <2>2. /\ conn' = [conn EXCEPT ![n] = c] /\ owner' = owner /\ s.flags = {"syn"}
    BY <1>7, <2>1 DEF StartsGoroutine
  <2>3. /\ c.pc = "starts" /\ c.peer = e /\ ~c.isRegistered
        /\ c.h = SynRcvd(0, s.seq)
    BY <1>1, <2>1 DEF Created
  <2>4. IsPassive(c.h, "synRcvd", c.h.iss, c.h.ackNum) /\ c.h.ackNum = Add(s.seq, 1)
    BY <2>3 DEF SynRcvd, IsPassive
  <2>5. IsNumber(e, s.seq)
    BY <1>1, <1>2, <2>2 DEF ToServer
  <2>6. EndInv(c)
    BY <1>2, <2>3, <2>4, <2>5 DEF EndInv, Established, IsNumber
  <2>7. HasPorts(n, c)
    BY <1>3, <2>2 DEF HasPorts
  <2>8. (\A m \in Conns : EndInv(conn'[m])) /\ PortsInv'
    BY <2>2, <2>6, <2>7, EndBecomes
  <2> QED BY <1>6, <2>8, ListenerStepKeeps
<1>8. CASE TakesCookie(s, n) /\ owner[e] = None
  <2>1. PICK h, c : /\ h = SynRcvd(Add(s.ack, -1), Add(s.seq, -1))
                    /\ c = [Created(s, Add(s.ack, -1), Add(s.seq, -1), "delivers", TRUE)
                              EXCEPT !.isRegistered = TRUE]
    OBVIOUS
  <2>2. /\ conn' = [conn EXCEPT ![n] = c] /\ owner' = [owner EXCEPT ![e] = n]
        /\ s.flags = {"ack"}
    BY <1>1, <1>8, <2>1 DEF TakesCookie
  <2>3. c.pc = "delivers" /\ c.peer = e /\ c.isRegistered /\ c.h = h
    BY <1>1, <2>1 DEF Created
  <2>4. h.iss = Add(s.ack, -1) /\ h.ackNum = Add(Add(s.seq, -1), 1)
    BY <2>1 DEF SynRcvd
  <2>5. PICK x, o : x = Add(s.seq, -1) /\ o = <<e, x, s.ack>>
    OBVIOUS
  <2>6. o \in opened /\ o[1] = e /\ o[2] = x /\ o[3] = s.ack
    BY <1>1, <1>2, <2>2, <2>5 DEF ToServer
  <2>7. IsNumber(e, x) /\ \E t \in Epochs : s.ack = Add(Add(x, CookieHash[t]), 1)
    BY <1>2, <2>6 DEF SrvInv, OpenedIs
  <2>8. PICK t \in Epochs : s.ack = Add(Add(x, CookieHash[t]), 1)
    BY <2>7
  <2>9. PICK v : v = Add(x, CookieHash[t])
    OBVIOUS
  <2>10. x \in Value /\ v \in Value
    BY <1>2, <2>7, <2>9, CookieInValue DEF IsCookie
  <2>11. Add(h.ackNum, -1) = x /\ Add(h.iss, 1) = s.ack
    BY <2>4, <2>5, <2>8, <2>9, <2>10, AddOne
  <2>12. Agreed(c)
    BY <2>3, <2>5, <2>6, <2>11 DEF Agreed
  <2>13. EndInv(c)
    BY <1>2, <2>3, <2>12 DEF EndInv
  <2>14. HasPorts(n, c)
    BY <1>3, <2>2, <2>3 DEF HasPorts
  <2>15. (\A m \in Conns : EndInv(conn'[m])) /\ PortsInv'
    BY <2>2, <2>13, <2>14, EndBecomes
  <2> QED BY <1>6, <2>15, ListenerStepKeeps
<1>9. CASE TakesCookie(s, n) /\ owner[e] # None
  <2>1. UNCHANGED <<conn, owner>>
    BY <1>1, <1>9 DEF TakesCookie
  <2> QED BY <1>6, <2>1, EndsStay, ListenerStepKeeps
<1> QED BY <1>7, <1>8, <1>9

\* The loop has only what is for the server.
ForServer == \A s \in lq : s.dst = Server

LEMMA SrvHandlesQueued ==
  ASSUME SrvInv, LstInv, ForServer, HandlesQueued
  PROVE  SrvInv'
<1>1. lq' = {} /\ UNCHANGED <<opener, opened, epoch>>
  BY DEF HandlesQueued
<1>2. PICK s \in lq : \/ \E n \in Conns : StartsGoroutine(s, n) \/ TakesCookie(s, n)
                      \/ SendsCookie(s) \/ Ignores(s)
  BY DEF HandlesQueued
<1>3. s.dst = Server /\ ToServer(s)
  BY DEF ForServer, SrvInv, SrvSeg
<1>4. CASE \E n \in Conns : StartsGoroutine(s, n) \/ TakesCookie(s, n)
  BY <1>1, <1>3, <1>4, SrvMakes
<1>5. UNCHANGED <<opener, opened>> /\ epoch' = epoch /\ lq' \subseteq lq \cup wire
  BY <1>1
<1>6. CASE SendsCookie(s)
  <2>1. PICK h, m : h = SynRcvd(Cookie(s.seq), s.seq) /\ m = SynOf(h, Server, s.src)
    OBVIOUS
  <2>2. Emits({m}) /\ s.flags = {"syn"} /\ UNCHANGED <<conn, owner>>
    BY <1>6, <2>1 DEF SendsCookie
  <2>3. PICK k \in DOMAIN Isn[s.src] : s.seq = Isn[s.src][k]
    BY <1>3, <2>2, FlagsDiffer DEF ToServer, IsNumber
  <2>4. /\ IsPassive(h, h.state, h.iss, h.ackNum)
        /\ h.ackNum = Add(Isn[s.src][k], 1) /\ h.iss = Cookie(Isn[s.src][k])
    BY <2>1, <2>3 DEF SynRcvd, IsPassive
  <2>5. SrvSeg(m)
    BY <1>3, <2>1, <2>4, CookieIsOne, SynAckIs DEF ToServer
  <2>6. wire' \subseteq wire \cup {m}
    BY <2>2, CarriesOnly
  <2> QED BY <1>5, <2>2, <2>5, <2>6, SrvSends
<1>7. CASE Ignores(s)
  <2>1. UNCHANGED <<wire, conn, owner>>
    BY <1>7 DEF Ignores
  <2>2. wire' \subseteq wire \cup {s} /\ SrvSeg(s)
    BY <2>1 DEF SrvInv
  <2> QED BY <1>5, <2>1, <2>2, SrvSends
<1> QED BY <1>2, <1>4, <1>6, <1>7

\* cleanupLocked.
LEMMA SrvCleansUp ==
  ASSUME SrvInv, LstInv, NEW l, CleansUp(l), UNCHANGED <<opener, opened>>,
         lq' \subseteq lq, epoch' = epoch
  PROVE  SrvInv'
<1>1. PICK queued, out :
        /\ queued = {n \in Conns : conn[n].pc = "queued"}
        /\ out = {ResetOf(conn[n].h, Server, conn[n].peer) : n \in queued}
  OBVIOUS
<1>2. /\ conn' = [n \in Conns |-> IF n \in queued THEN Unused ELSE conn[n]]
      /\ owner' = [e \in Ends |-> IF owner[e] \in queued THEN None ELSE owner[e]]
      /\ Emits(out)
  BY <1>1 DEF CleansUp
<1>3. ASSUME NEW n \in queued
      PROVE  SrvSeg(ResetOf(conn[n].h, Server, conn[n].peer))
  <2>1. conn[n].peer \in Clients
    BY <1>1 DEF SrvInv, EndInv
  <2>2. PICK m : m = ResetOf(conn[n].h, Server, conn[n].peer)
    OBVIOUS
  <2>3. m.src = Server /\ m.dst = conn[n].peer /\ "rst" \in m.flags
    BY <2>2, SegFields DEF ResetOf
  <2>4. SrvSeg(m)
    BY <2>1, <2>3, FromListener
  <2> QED BY <2>2, <2>4
<1>4. wire' \subseteq wire \cup out /\ \A s \in out : SrvSeg(s)
  BY <1>1, <1>2, <1>3, CarriesOnly
<1>5. EndInv(Unused)
  BY DEF EndInv, Established, Unused
<1>6. \A n \in Conns : EndInv(conn'[n])
  BY <1>2, <1>5 DEF SrvInv
<1>7. PortsInv'
  <2>1. ASSUME NEW e \in Ends, owner'[e] \in Conns
        PROVE  conn'[owner'[e]].peer = e /\ conn'[owner'[e]].isRegistered
    <3>1. owner'[e] = owner[e] /\ owner[e] \notin queued
      BY <1>2, <2>1, ListenAssumption DEF None
    <3>2. conn'[owner'[e]] = conn[owner[e]]
      BY <1>2, <2>1, <3>1
    <3> QED BY <2>1, <3>1, <3>2 DEF SrvInv, PortsInv
  <2> QED BY <2>1 DEF PortsInv
<1>8. epoch' \in Epochs /\ lq' \subseteq lq \cup wire
  BY DEF SrvInv
<1> QED BY <1>4, <1>6, <1>7, <1>8, ListenerStepKeeps

\* Steps in which no endpoint changes and nothing is sent.
LEMMA SrvRests ==
  ASSUME SrvInv, LstInv, UNCHANGED <<opener, opened>>, UNCHANGED <<conn, owner>>,
         wire' \subseteq wire, lq' \subseteq lq \cup wire, epoch' \in Epochs
  PROVE  SrvInv'
<1>1. PICK out : out = {}
  OBVIOUS
<1>2. wire' \subseteq wire \cup out /\ \A s \in out : SrvSeg(s)
  BY <1>1
<1> QED BY <1>2, EndsStay, ListenerStepKeeps

LEMMA SrvLoopAndApp ==
  ASSUME SrvInv, LstInv, ForServer,
         \/ LoopWork \/ AcceptsHead \/ CallsClose \/ CloseWork \/ Ticks
         \/ \E s \in wire : Queues(s)
  PROVE  SrvInv'
<1>1. CASE HandlesQueued
  BY <1>1, SrvHandlesQueued
<1>2. CASE LoopEnds \/ CloseListener
  <2>1. /\ UNCHANGED <<opener, opened>> /\ epoch' = epoch /\ lq' \subseteq lq
        /\ (\E l : CleansUp(l)) \/ UNCHANGED <<wire, conn, owner>>
    BY <1>2 DEF LoopEnds, CloseListener
  <2>2. CASE \E l : CleansUp(l)
    BY <2>1, <2>2, SrvCleansUp
  <2>3. CASE UNCHANGED <<wire, conn, owner>>
    <3>1. UNCHANGED <<conn, owner>> /\ wire' \subseteq wire
      BY <2>3
    <3>2. epoch' \in Epochs /\ lq' \subseteq lq \cup wire
      BY <2>1 DEF SrvInv
    <3> QED BY <2>1, <3>1, <3>2, SrvRests
  <2> QED BY <2>1, <2>2, <2>3
<1>3. CASE AcceptsHead
  <2>1. PICK n : n = Head(accepted)
    OBVIOUS
  <2>2. n \in Conns /\ Established(conn[n])
    <3>1. /\ accepted \in Seq(Conns) /\ accepted # <<>>
      BY <1>3 DEF AcceptsHead, LstInv, ChannelInv
    <3>2. Len(accepted) >= 1 /\ n = accepted[1]
      BY <2>1, <3>1
    <3>3. n \in Conns /\ conn[n].pc = "queued"
      BY <3>1, <3>2 DEF LstInv, ChannelInv
    <3> QED BY <3>3 DEF Established
  <2>3. /\ conn' = [conn EXCEPT ![n].pc = "accepted"] /\ owner' = owner
        /\ UNCHANGED <<opener, opened>> /\ UNCHANGED <<lq, epoch>> /\ wire' = wire
    BY <1>3, <2>1 DEF AcceptsHead, openVars
  <2>4. PICK out : out = {}
    OBVIOUS
  <2>5. wire' \subseteq wire \cup out /\ \A s \in out : SrvSeg(s)
    BY <2>3, <2>4
  <2> QED BY <2>2, <2>3, <2>5, PcChanges
<1>4. CASE LoopStops \/ CallsClose \/ ShutsDown \/ Ticks
  <2>1. /\ UNCHANGED <<opener, opened>> /\ UNCHANGED <<conn, owner>>
        /\ wire' \subseteq wire /\ lq' \subseteq lq \cup wire
    BY <1>4 DEF LoopStops, CallsClose, ShutsDown, Ticks, openVars
  <2>2. epoch' \in Epochs
    BY <1>4 DEF LoopStops, CallsClose, ShutsDown, Ticks, SrvInv
  <2> QED BY <2>1, <2>2, SrvRests
<1>5. ASSUME NEW s \in wire, Queues(s) PROVE SrvInv'
  <2>1. /\ UNCHANGED <<opener, opened>> /\ UNCHANGED <<conn, owner>>
        /\ lq' \subseteq lq \cup wire /\ epoch' \in Epochs
    BY <1>5 DEF Queues, SrvInv
  <2>2. wire' \subseteq wire \cup {}
    <3>1. Carries(s, {})
      BY <1>5 DEF Queues
    <3> QED BY <3>1, CarriesOnly
  <2>3. wire' \subseteq wire
    BY <2>2
  <2> QED BY <2>1, <2>3, SrvRests
<1> QED BY <1>1, <1>2, <1>3, <1>4, <1>5 DEF LoopWork, CloseWork

-----------------------------------------------------------------------------
(* The theorem. *)

LEMMA SrvIsLst == [SrvNext]_lstVars => [LstNext]_lstVars
  BY DEF SrvNext, LstNext

LEMMA ForServerStays ==
  ASSUME ForServer, [SrvNext]_lstVars
  PROVE  ForServer'
<1>1. lq' \subseteq lq \/ \E s \in wire : s.dst = Server /\ lq' = {s}
  <2>1. CASE UNCHANGED listenVars
    BY <2>1 DEF listenVars
  <2>2. CASE ListenNext
    BY <2>2 DEF ListenNext, StartsHandshake, ResendsSynAck, HalfOpenGivesUp, Delivers,
         LocksToDeliver, Sends, AcceptedCloses, AcceptsFrom, HalfOpenReceives,
         AcceptedAcks, AcceptedIsReset, Queues, LoopWork, HandlesQueued, LoopStops,
         LoopEnds, AcceptsHead, CallsClose, CloseWork, ShutsDown, CloseListener, Ticks,
         listenVars
  <2>3. CASE UNCHANGED lstVars
    BY <2>3 DEF lstVars, listenVars
  <2> QED BY <2>1, <2>2, <2>3 DEF SrvNext
<1> QED BY <1>1 DEF ForServer

LEMMA SrvInvInit == LstInit => SrvInv /\ ForServer
<1> SUFFICES ASSUME LstInit PROVE SrvInv /\ ForServer
  OBVIOUS
<1>1. PICK spent \in Nat, listening \in BOOLEAN, backlog \in Nat, start \in Epochs :
        OpenInit(spent) /\ ListenInit(listening, backlog, start)
  BY DEF LstInit
<1>2. /\ wire = {} /\ opened = {} /\ lq = {} /\ epoch = start
      /\ opener = [e \in Ends |->
           [pc |-> "closed", h |-> SynSent(0, TRUE), drawn |-> spent]]
      /\ conn = [n \in Conns |-> Unused] /\ owner = [e \in Ends |-> None]
  BY <1>1 DEF OpenInit, ListenInit
<1>3. EndInv(Unused)
  BY DEF EndInv, Established, Unused
<1>4. \A e \in Clients : ClientInv(e)
  <2>1. \A e \in Ends : opener[e].pc = "closed" /\ opener[e].drawn = spent
    BY <1>2
  <2> QED BY <2>1, ClientIs DEF ClientInv
<1>5. PortsInv
  BY <1>2, ListenAssumption DEF PortsInv, None
<1> QED BY <1>1, <1>2, <1>3, <1>4, <1>5 DEF SrvInv, ForServer

LEMMA SrvInvStep ==
  ASSUME SrvInv, LstInv, ForServer, [SrvNext]_lstVars
  PROVE  SrvInv'
<1>1. ASSUME NEW opening \in SUBSET (Ends \ {Server}), OpenNext(opening), UNCHANGED listenVars
      PROVE  SrvInv'
  BY <1>1, HostsKeep
<1>2. ASSUME NEW n \in Conns,
             StartsHandshake(n) \/ ResendsSynAck(n) \/ HalfOpenGivesUp(n)
               \/ Delivers(n) \/ AcceptedCloses(n) \/ AcceptsFrom(n)
      PROVE  SrvInv'
  BY <1>2, SrvStartsHandshake, SrvResends, SrvDelivers
<1>3. ASSUME NEW s \in wire, NEW n \in Conns,
             HalfOpenReceives(n, s) \/ AcceptedAcks(n, s) \/ AcceptedIsReset(n, s)
      PROVE  SrvInv'
  BY <1>3, SrvHalfOpenReceives, SrvAccepted
<1>4. CASE \/ LoopWork \/ AcceptsHead \/ CallsClose \/ CloseWork \/ Ticks
           \/ \E s \in wire : Queues(s)
  BY <1>4, SrvLoopAndApp
<1>5. CASE UNCHANGED lstVars
  BY <1>5, SrvRests DEF lstVars, openVars, listenVars, SrvInv
<1> QED BY <1>1, <1>2, <1>3, <1>4, <1>5 DEF SrvNext, ListenNext

\* What the listener takes for a connection, from a handshake (accept.go:218) or
\* from a cookie (accept.go:301), its client has completed with the same two
\* numbers, whatever of attempts before is still in the network.
THEOREM ListenerAgrees == SrvSpec => []ServerAgrees
<1>1. SrvInv => ServerAgrees
  BY DEF SrvInv, EndInv, Established, Agreed, ServerAgrees
<1>2. LstInit => SrvInv /\ LstInv /\ ForServer
  BY SrvInvInit, LstInvInit
<1>3. SrvInv /\ LstInv /\ ForServer /\ [SrvNext]_lstVars
        => (SrvInv /\ LstInv /\ ForServer)'
  BY SrvInvStep, SrvIsLst, LstInvStep, ForServerStays
<1> QED BY <1>1, <1>2, <1>3, PTL DEF SrvSpec
=============================================================================
