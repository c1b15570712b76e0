------------------------------ MODULE MeshHarness ------------------------------
(***************************************************************************)
(* The mesh harness of tb/models/noc_tb.py: traffic on the four local      *)
(* ports of noc_top, whose routers are joined by registered links.         *)
(***************************************************************************)
EXTENDS PortHost

CONSTANTS MeshY,    \* rows, at least one
          Traffic   \* workloads: sets of packets, each generated at most once,
                    \* which are records [id, src, dst, vnet, len]

NumTiles == MeshX * MeshY
Tile == 0 .. NumTiles - 1

ASSUME MeshAssumption ==
    /\ MeshY \in Nat \ {0}
    /\ \A w \in Traffic : w \subseteq Packets /\ \A k \in w : k.src \in Tile /\ k.dst \in Tile

VARIABLES rtr, host, inject, eject_credit, todo, sent, ejected

vars == <<rtr, host, inject, eject_credit, todo, sent, ejected>>

Init ==
    /\ rtr = [t \in Tile |-> ResetRouter]
    /\ host = [t \in Tile |-> NewHost]
    /\ inject = [t \in Tile |-> NoFlit]
    /\ eject_credit = [t \in Tile |-> NoCredit]
    /\ todo \in Traffic
    /\ sent = [t \in Tile |-> <<>>]
    /\ ejected = [t \in Tile |-> <<>>]

---------------------------------------------------------------------------
(* Links *)

Side == Port \ {PORT_LOCAL}

Opposite(p) == CASE p = PORT_NORTH -> PORT_SOUTH [] p = PORT_SOUTH -> PORT_NORTH
                 [] p = PORT_EAST -> PORT_WEST [] OTHER -> PORT_EAST

\* The tile on side p of t, in a set that is empty at the edge of the mesh.
Neighbour(t, p) ==
    {u \in Tile : \/ p = PORT_EAST /\ TileX(t) + 1 = TileX(u) /\ TileY(t) = TileY(u)
                  \/ p = PORT_WEST /\ TileX(t) = TileX(u) + 1 /\ TileY(t) = TileY(u)
                  \/ p = PORT_SOUTH /\ TileY(t) + 1 = TileY(u) /\ TileX(t) = TileX(u)
                  \/ p = PORT_NORTH /\ TileY(t) = TileY(u) + 1 /\ TileX(t) = TileX(u)}

FlitIn(t, p) ==
    IF p = PORT_LOCAL THEN inject[t]
    ELSE IF Neighbour(t, p) = {} THEN NoFlit
    ELSE rtr[CHOOSE u \in Neighbour(t, p) : TRUE].out[Opposite(p)]

CreditIn(t, p) ==
    IF p = PORT_LOCAL THEN eject_credit[t]
    ELSE IF Neighbour(t, p) = {} THEN NoCredit
    ELSE rtr[CHOOSE u \in Neighbour(t, p) : TRUE].ret[Opposite(p)]

---------------------------------------------------------------------------
(* Actions *)

generate(k) ==
    /\ k \in todo
    /\ todo' = todo \ {k}
    /\ host' = [host EXCEPT ![k.src].pending = Append(@, k)]
    /\ UNCHANGED <<rtr, inject, eject_credit, sent, ejected>>

Clocked(g) ==
    [t \in Tile |-> Clock(rtr[t], g[t], t, [p \in Port |-> FlitIn(t, p)], [p \in Port |-> CreditIn(t, p)])]

_sample(r) ==
    [t \in Tile |-> Sampled(host[t], r[t].out[PORT_LOCAL], r[t].ret[PORT_LOCAL])]

_drive(h) ==
    /\ host' = [t \in Tile |-> Driven(h[t])]
    /\ inject' = [t \in Tile |-> FlitDriven(h[t])]
    /\ eject_credit' = [t \in Tile |-> CreditDriven(h[t])]
    /\ sent' = [t \in Tile |-> IF FlitDriven(h[t]) = NoFlit THEN sent[t]
                               ELSE Append(sent[t], FlitDriven(h[t]))]

tick ==
    \E g \in {[t \in Tile |-> Grants(rtr[t])]} :
    \E r \in {Clocked(g)} :
    \E seen \in {_sample(r)} :
    \E h \in {[t \in Tile |-> StartPacket(seen[t])]} :
        /\ rtr' = r
        /\ ejected' = [t \in Tile |-> IF r[t].out[PORT_LOCAL] = NoFlit THEN ejected[t]
                                      ELSE Append(ejected[t], r[t].out[PORT_LOCAL])]
        /\ _drive(h)
        /\ UNCHANGED todo

Next == tick \/ \E k \in UNION Traffic : generate(k)

Spec == Init /\ [][Next]_vars

\* The tests' loops call tick for as long as they run.
LiveSpec == Init /\ [][Next]_vars /\ WF_vars(tick)

backlog == Cardinality({t \in Tile : host[t].in_flight # NoPacket \/ host[t].pending # <<>>})

---------------------------------------------------------------------------
(* Properties *)

\* The type of the queues and counters.
TypeOK ==
    \A t \in Tile : \A p \in Port, v \in Vc :
        /\ rtr[t].credits[p][v] \in 0 .. VcDepth
        /\ Len(rtr[t].ivc[p][v].buf) \in 0 .. VcDepth
        /\ rtr[t].va1[p] \in Vc /\ rtr[t].sa1[p] \in Vc
        /\ rtr[t].sa2[p] \in Port /\ rtr[t].va2[p][v] \in Port

\* On a link between two routers the sender's credits, the flit and the
\* credit on the wires and the buffered flits are VcDepth for every VC.
LinkCreditsConserved ==
    \A t \in Tile, p \in Side, v \in Vc : \A u \in Neighbour(t, p) :
        rtr[t].credits[p][v] + One(Sends(rtr[t].out[p], v))
          + Len(rtr[u].ivc[Opposite(p)][v].buf) + One(Returned(rtr[u].ret[Opposite(p)], v)) = VcDepth

\* A router gives a VC of its neighbour to a packet only when the neighbour's
\* is idle and empty (input_unit.sv a_head_only_when_idle, on every link).
HeadFindsIdleVc ==
    \A t \in Tile, p \in Port :
        LET f == FlitIn(t, p) IN
        (f # NoFlit /\ IsHead(f)) =>
            rtr[t].ivc[p][f.vc].st = "IDLE" /\ rtr[t].ivc[p][f.vc].buf = <<>>

\* Nothing leaves the mesh at an edge, and a tile ejects only its own flits
\* (the assertions of noc_top.sv).
NoEscape ==
    \A t \in Tile :
        /\ \A p \in Side : Neighbour(t, p) = {} => rtr[t].out[p] = NoFlit
        /\ rtr[t].out[PORT_LOCAL] # NoFlit => rtr[t].out[PORT_LOCAL].pkt.dst = t

\* No VC buffer ever fills, as coverage.py claims of packets one flit shorter
\* than a buffer: the next packet is not let in before the last has gone.
NeverFull == \A t \in Tile, p \in Port, v \in Vc : Len(rtr[t].ivc[p][v].buf) < VcDepth

\* The links between the routers keep their credits, a head finds its VC
\* idle, no flit leaves where it should not, and no buffer ever fills.
MeshSafe == TypeOK /\ LinkCreditsConserved /\ HeadFindsIdleVc /\ NoEscape /\ NeverFull

Chan == Tile \X Vc \X Tile

OnChan(s, c) == SelectSeq(s, LAMBDA f : f.pkt.src = c[1] /\ f.vc = c[2] /\ f.pkt.dst = c[3])

Sent(c) == OnChan(sent[c[1]], c)

Got(c) == OnChan(ejected[c[3]], c)

Net == INSTANCE FifoNet WITH
    Channel <- Chan,
    transit <- [c \in Chan |-> SubSeq(Sent(c), Len(Got(c)) + 1, Len(Sent(c)))],
    delivered <- [c \in Chan |-> Got(c)]

\* The mesh is a network of FIFO channels, one per source, VC and destination:
\* what Coherence assumes of it.
ImplementsFifoNet == Net!Spec

Ejected(k) == \E n \in DOMAIN ejected[k.dst] : ejected[k.dst][n].pkt = k /\ IsTail(ejected[k.dst][n])

\* The mesh always drains: every packet generated so far is ejected at its
\* tile, tail included (test_noc_mesh.py waits for it).
AlwaysDrains == []<>(backlog = 0 /\ \A t \in Tile : \A n \in DOMAIN sent[t] : Ejected(sent[t][n].pkt))

===============================================================================
