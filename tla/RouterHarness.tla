----------------------------- MODULE RouterHarness -----------------------------
(***************************************************************************)
(* The router harness of tb/models/noc_tb.py around one router.  A packet  *)
(* is queued on an input port at any time; a tick lets the router clock on *)
(* the values driven last, samples its registered outputs and drives the   *)
(* next ones.                                                              *)
(***************************************************************************)
EXTENDS PortHost

CONSTANTS Me,             \* the tile the router stands at
          RouterTraffic,  \* workloads: sets of packets, each queued at most once,
                          \* which are records [id, in, dst, vnet, len]
          StalledVnets    \* virtual networks whose flits downstream never reads

ASSUME RouterAssumption == \A w \in RouterTraffic : w \subseteq Packets /\ \A k \in w : k.in \in Port

VARIABLES router, ports, flit_i, credit_i, queueable, driven, received

routerVars == <<router, ports, flit_i, credit_i, queueable, driven, received>>

RouterInit ==
    /\ router = ResetRouter
    /\ ports = [p \in Port |-> NewHost]
    /\ flit_i = [p \in Port |-> NoFlit]
    /\ credit_i = [p \in Port |-> NoCredit]
    /\ queueable \in RouterTraffic
    /\ driven = [p \in Port |-> <<>>]
    /\ received = [p \in Port |-> <<>>]

queue_packet(k) ==
    /\ k \in queueable
    /\ queueable' = queueable \ {k}
    /\ ports' = [ports EXCEPT ![k.in].pending = Append(@, k)]
    /\ UNCHANGED <<router, flit_i, credit_i, driven, received>>

\* What the harness at a port reads of an output.
Read(f) == IF f # NoFlit /\ VnetOf(f.vc) \notin StalledVnets THEN f ELSE NoFlit

\* The bound values are the allocators' grants, the registers after the edge,
\* and the harness once it has sampled them and once it has started packets.
router_tick ==
    \E g \in {Grants(router)} :
    \E r \in {Clock(router, g, Me, flit_i, credit_i)} :
    \E seen \in {[p \in Port |-> Sampled(ports[p], Read(r.out[p]), r.ret[p])]} :
    \E h \in {[p \in Port |-> StartPacket(seen[p])]} :
        /\ router' = r
        /\ received' = [p \in Port |-> IF r.out[p] = NoFlit THEN received[p]
                                       ELSE Append(received[p], r.out[p])]
        /\ ports' = [p \in Port |-> Driven(h[p])]
        /\ flit_i' = [p \in Port |-> FlitDriven(h[p])]
        /\ credit_i' = [p \in Port |-> CreditDriven(h[p])]
        /\ driven' = [p \in Port |-> IF FlitDriven(h[p]) = NoFlit THEN driven[p]
                                     ELSE Append(driven[p], FlitDriven(h[p]))]
        /\ UNCHANGED queueable

RouterNext == router_tick \/ \E k \in UNION RouterTraffic : queue_packet(k)

RouterSpec == RouterInit /\ [][RouterNext]_routerVars

all_sent == \A p \in Port : ports[p].pending = <<>> /\ ports[p].in_flight = NoPacket

---------------------------------------------------------------------------
(* Properties *)

\* A wire carries nothing, or a flit that has a place in its packet.
WireOk(f) == f # NoFlit => f \in Flit /\ f.i <= f.pkt.len

\* The type of the harness's and the router's registers.
RegistersOK ==
    /\ \A p \in Port, v \in Vc :
        /\ router.ivc[p][v].st \in {"IDLE", "ROUTED", "ALLOC", "ACTIVE"}
        /\ router.ivc[p][v].ovc \in Vc
        /\ router.credits[p][v] \in 0 .. VcDepth
        /\ ports[p].credits[v] \in 0 .. VcDepth
    /\ \A p \in Port : /\ router.va1[p] \in Vc /\ router.sa1[p] \in Vc /\ router.sa2[p] \in Port
                       /\ WireOk(flit_i[p]) /\ WireOk(router.out[p])

\* The credits a sender holds, the flits on the way and in the buffer, and
\* the credits on the way back are VcDepth for every VC, on both sides of the
\* router (noc_tb.py: credits, credit_q; credit_counter.sv).
CreditsConserved ==
    \A p \in Port, v \in Vc :
        /\ ports[p].credits[v] + One(Sends(flit_i[p], v)) + Len(router.ivc[p][v].buf) = VcDepth
        /\ VnetOf(v) \notin StalledVnets =>
             router.credits[p][v] + CreditsIn(ports[p].credit_q, v) + One(Returned(credit_i[p], v)) = VcDepth

\* A head meets an idle, empty VC; a body flit a VC its own packet holds; and
\* no flit a full one (the assertions of input_unit.sv and fifo.sv).
LinkDiscipline ==
    \A p \in Port :
        flit_i[p] # NoFlit =>
            LET c == router.ivc[p][flit_i[p].vc] IN
            /\ Len(c.buf) < VcDepth
            /\ IsHead(flit_i[p]) => c.st = "IDLE" /\ c.buf = <<>>
            /\ ~IsHead(flit_i[p]) => c.st # "IDLE"

\* The place of the last flit of channel v among the first n of s, in a set that
\* is empty when there is none.
LastOn(s, n, v) == {m \in 1 .. n : s[m].vc = v /\ \A j \in m + 1 .. n : s[j].vc # v}

\* f comes next after the n flits of s: it goes on with the packet that its channel
\* carries, or opens one when that has ended.
GoesOn(s, n, f) ==
    LET open == {m \in LastOn(s, n, f.vc) : ~IsTail(s[m])} IN
    /\ open = {} => IsHead(f)
    /\ \A m \in open : f.pkt = s[m].pkt /\ f.i = s[m].i + 1

\* On each VC of an output port packets come out whole: a head, then its
\* body in order, then the next packet's head
\* (test_noc_router.py: test_multiflit_packet_stays_contiguous).
ComeOutWhole ==
    \A o \in Port : \A n \in 1 .. Len(received[o]) : GoesOn(received[o], n - 1, received[o][n])

Path == Port \X Vc \X Port

OnPath(s, c) == SelectSeq(s, LAMBDA f : f.pkt.in = c[1] /\ f.vc = c[2] /\ Route(Me, f.pkt.dst) = c[3])

Entered(c) == OnPath(driven[c[1]], c)

Left(c) == OnPath(received[c[3]], c)

Paths == INSTANCE FifoNet WITH
    Channel <- Path,
    transit <- [c \in Path |-> SubSeq(Entered(c), Len(Left(c)) + 1, Len(Entered(c)))],
    delivered <- [c \in Path |-> Left(c)]

\* The router is a network of FIFO channels, one per input port, VC and
\* output port: nothing lost, repeated, reordered or sent to a wrong port.
RouterIsFifoNet == Paths!Spec

ArrivedWhole(k) ==
    \E n \in DOMAIN received[Route(Me, k.dst)] :
        LET f == received[Route(Me, k.dst)][n] IN f.pkt = k /\ IsTail(f)

\* What port p has been given to send and still has, and what it has sent.
Given(p) == {ports[p].pending[n] : n \in DOMAIN ports[p].pending}
              \cup {driven[p][n].pkt : n \in DOMAIN driven[p]}

\* The other virtual networks always drain: those stalled downstream hold up
\* none of their packets (noc_tb.py: drain; bug B14).
OthersDrain ==
    []<>\A p \in Port : \A k \in Given(p) : k.vnet \notin StalledVnets => ArrivedWhole(k)

===============================================================================
