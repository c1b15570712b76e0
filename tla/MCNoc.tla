---------------------------------- MODULE MCNoc ----------------------------------
(***************************************************************************)
(* The network for TLC: a mesh under its harness, or one router under the  *)
(* harness of its own, each with one of the workloads below.  A behaviour  *)
(* is of one of the two; the other stays as reset left it.                 *)
(***************************************************************************)
EXTENDS MeshHarness, RouterHarness

VARIABLE part

all == <<part, vars, routerVars>>

\* Four tiles: packets that meet on the way to one tile, and packets that
\* queue on one VC behind one another, by the other two directions.
Pkt(id, src, dst, vnet, len) == [id |-> id, src |-> src, dst |-> dst, vnet |-> vnet, len |-> len]

Hotspot == {Pkt(1, 0, 3, 0, 2), Pkt(2, 0, 3, 0, 1), Pkt(3, 1, 3, 0, 2)}

Queueing == {Pkt(5, 3, 0, 0, 2), Pkt(6, 3, 0, 0, 2), Pkt(7, 3, 0, 0, 2)}

MeshTraffic == {Hotspot, Queueing}

\* The router of tile 0, with tile 1 to the east: packets longer than a buffer,
\* or one after another on a VC, from two ports for one output; and packets of
\* a virtual network that downstream never reads beside one that it does.
RPkt(id, in, vnet, len) == [id |-> id, in |-> in, dst |-> 1, vnet |-> vnet, len |-> len]

Contending == {RPkt(1, PORT_WEST, 1, 4), RPkt(2, PORT_WEST, 1, 1), RPkt(3, PORT_WEST, 1, 1), RPkt(4, PORT_LOCAL, 1, 2)}

AcrossVnets == {RPkt(5, PORT_WEST, 0, 4), RPkt(6, PORT_LOCAL, 0, 2), RPkt(7, PORT_LOCAL, 1, 1)}

RouterWorkloads == {Contending, AcrossVnets}

AllPackets == UNION (MeshTraffic \cup RouterWorkloads)

NocInit ==
    /\ part \in {"mesh", "router"}
    /\ Init /\ RouterInit
    /\ part = "mesh" => queueable = Contending
    /\ part = "router" => todo = Hotspot

MeshMoves == part = "mesh" /\ Next /\ UNCHANGED <<part, routerVars>>

RouterMoves == part = "router" /\ RouterNext /\ UNCHANGED <<part, vars>>

Tick ==
    \/ part = "mesh" /\ tick /\ UNCHANGED <<part, routerVars>>
    \/ part = "router" /\ router_tick /\ UNCHANGED <<part, vars>>

\* Both test loops call tick for as long as they run.
NocSpec == NocInit /\ [][MeshMoves \/ RouterMoves]_all /\ WF_all(Tick)

---------------------------------------------------------------------------
(* The harnesses' properties, as each part's run checks them *)

\* One router keeps credits, the discipline of its links and its types.
RouterSafe == part = "router" => RegistersOK /\ CreditsConserved /\ LinkDiscipline

\* On each VC of an output of a router packets come out whole.
PacketsWhole == part = "router" => ComeOutWhole

\* A router and a mesh are both networks of FIFO channels.
ImplementsFifo == ImplementsFifoNet /\ RouterIsFifoNet
===============================================================================
