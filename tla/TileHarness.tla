------------------------------ MODULE TileHarness ------------------------------
(***************************************************************************)
(* A tile's network interface at the local port of its router, as          *)
(* rtl/tile/tile_top.sv and rtl/top/noc_system.sv join them, with the next *)
(* router played by a host on the east port.  The L1 and the bank queue    *)
(* messages on their ports at any time and take what is shown to them when *)
(* they like; each clock edge moves the interface and the router together. *)
(***************************************************************************)
EXTENDS TileNic, PortHost

CONSTANTS Me,        \* the tile
          Workloads  \* records [packets, refuse, again, fair]

ASSUME TileAssumption ==
    /\ Me \in Nat
    /\ \A k \in Packets : k.dst \in Nat
    /\ \A w \in Workloads : w.packets \subseteq Packets

\* A packet that reaches this tile from another one.
EAST == 2

\* load is the workload: packets, which are records [id, from, vnet, to, dst, len];
\* the sinks that need not take what they are shown; and whether a packet
\* delivered is sent again.
VARIABLES load, nic, rtr, host, east_flit, east_credit, ready, todo, queue, order

MayRefuse == load.refuse

vars == <<load, nic, rtr, host, east_flit, east_credit, ready, todo, queue, order>>

Init ==
    /\ load \in Workloads
    /\ nic = ResetNic
    /\ rtr = ResetRouter
    /\ host = NewHost
    /\ east_flit = NoFlit
    /\ east_credit = NoCredit
    /\ ready = Sink
    /\ todo = load.packets
    /\ queue = [s \in Source |-> <<>>]
    /\ order = [n \in Vnet |-> <<>>]

\* A controller has a message for one of its ports, or another tile one for
\* this tile.
send(k) ==
    /\ k \in todo
    /\ todo' = todo \ {k}
    /\ IF k.from = EAST
       THEN host' = [host EXCEPT !.pending = Append(@, k)] /\ UNCHANGED queue
       ELSE queue' = [queue EXCEPT ![<<k.vnet, k.from>>] = Append(@, k)] /\ UNCHANGED host
    /\ UNCHANGED <<load, nic, rtr, east_flit, east_credit, ready, order>>

\* A controller raises or lowers its ready.
toggle(s) ==
    /\ ready' = IF s \in ready THEN ready \ {s} ELSE ready \cup {s}
    /\ UNCHANGED <<load, nic, rtr, host, east_flit, east_credit, todo, queue, order>>

Offered == [s \in Source |-> IF queue[s] = <<>> THEN NoMsg ELSE queue[s][1]]

Wired(port, x, none) == [p \in Port |-> IF p = PORT_LOCAL THEN x[1] ELSE IF p = port THEN x[2] ELSE none]

\* An order less the message of it that is handed over, wherever it is.
Less(q, done) ==
    LET j == CHOOSE j \in DOMAIN q : q[j] \in done
    IN  IF \A i \in DOMAIN q : q[i] \notin done THEN q
        ELSE SubSeq(q, 1, j - 1) \o SubSeq(q, j + 1, Len(q))

\* The message a virtual network starts in this cycle, and the one it has
\* handed over, in the order of the tile's own messages to itself.
Reordered(n, start, done) ==
    IF start # NoFlit /\ IsHead(start) /\ start.pkt.vnet = n /\ start.pkt.dst = Me
    THEN Append(Less(order[n], done), start.pkt) ELSE Less(order[n], done)

\* The bound values are the interface's flit, the router's grants and its
\* registers after the edge, and the host that has sampled them.
tick ==
    \E x \in {InjFlit(nic, Me, Offered)} :
    \E g \in {Grants(rtr)} :
    \E r \in {Clock(rtr, g, Me, Wired(PORT_EAST, <<x, east_flit>>, NoFlit),
                    Wired(PORT_EAST, <<nic.ret, east_credit>>, NoCredit))} :
    \E seen \in {Sampled(host, r.out[PORT_EAST], r.ret[PORT_EAST])} :
    \E h \in {StartPacket(seen)} :
        LET taken == SrcTaken(nic, Me, Offered)
            done == {nic.rx[v].pkt : v \in EjAccept(nic, ready)}
                      \cup (IF r.out[PORT_EAST] # NoFlit
                            THEN {f.pkt : f \in {f \in {r.out[PORT_EAST]} : IsTail(f)}} ELSE {})
        IN
        /\ nic' = NicClock(nic, Me, Offered, rtr.out[PORT_LOCAL], rtr.ret[PORT_LOCAL], ready)
        /\ rtr' = r
        /\ host' = Driven(h)
        /\ east_flit' = FlitDriven(h)
        /\ east_credit' = CreditDriven(h)
        /\ queue' = [s \in Source |-> IF s \in taken THEN Tail(queue[s]) ELSE queue[s]]
        /\ order' = [n \in Vnet |-> Reordered(n, x, done)]
        /\ todo' = IF load.again THEN todo \cup done ELSE todo
        /\ UNCHANGED <<load, ready>>

Next == tick \/ (\E k \in load.packets : send(k)) \/ (\E s \in MayRefuse : toggle(s))

Spec == Init /\ [][Next]_vars

\* The clock runs; nothing is promised of the controllers, neither that they
\* send nor that those which may refuse ever take.  Only the fair workloads are
\* held to it: the others are there for safety.
LiveSpec == Spec /\ WF_vars(load.fair /\ tick)

\* What is sent beside a sink that may refuse.
BesideRefusing ==
    UNION {{p \in w.packets : <<p.vnet, p.to>> \notin w.refuse} :
             w \in {v \in Workloads : v.fair /\ v.refuse # {}}}

---------------------------------------------------------------------------
(* Properties *)

\* The type of the interface's registers.
TypeOK ==
    /\ nic.vn2 \in {L1, DIR} /\ nic.inj \in Vnet
    /\ \A v \in Vc : /\ nic.credits[v] \in 0 .. VcDepth
                     /\ nic.busy[v] \in BOOLEAN
                     /\ nic.pend_body[v] \in 0 .. VcDepth
                     /\ nic.rx[v].busy \in BOOLEAN /\ nic.rx[v].full \in BOOLEAN
    /\ nic.pend_tail \subseteq Vc
    /\ Sink \ MayRefuse \subseteq ready

\* No credit between the interface and the router is lost or made, in either
\* direction, even when two are due in one cycle or one is spent as another
\* returns (tile_nic.sv: a_pending_body_bound, a_tail_credit_not_lost, bug B12).
CreditsConserved ==
    \A v \in Vc :
        /\ nic.credits[v] + Len(rtr.ivc[PORT_LOCAL][v].buf) + One(Returned(rtr.ret[PORT_LOCAL], v)) = VcDepth
        /\ rtr.credits[PORT_LOCAL][v] + One(Sends(rtr.out[PORT_LOCAL], v)) + nic.pend_body[v]
             + One(nic.rx[v].full) + One(v \in nic.pend_tail) + One(Returned(nic.ret, v)) = VcDepth

\* A head reaches a reassembly slot nothing is in, and a body flit the slot
\* of its own packet, in its place (tile_nic.sv: a_no_head_into_busy_slot,
\* a_body_needs_head).
SlotDiscipline ==
    LET f == rtr.out[PORT_LOCAL] IN
    f # NoFlit =>
        LET slot == nic.rx[f.vc] IN
        /\ IsHead(f) => ~slot.busy /\ ~slot.full
        /\ ~IsHead(f) => slot.busy /\ slot.pkt = f.pkt /\ f.i = slot.got + 1

\* A virtual channel the sender takes for free is free where it ends: the
\* router's input VC is idle and empty, the interface's slot empty and its
\* tail credit returned (tile_nic.sv note 3; decision D9).
FreeIsFree ==
    \A v \in Vc :
        /\ ~nic.busy[v] => rtr.ivc[PORT_LOCAL][v].st = "IDLE" /\ rtr.ivc[PORT_LOCAL][v].buf = <<>>
        /\ ~rtr.busy[PORT_LOCAL][v] => /\ ~nic.rx[v].busy /\ ~nic.rx[v].full
                                       /\ v \notin nic.pend_tail

Own(v) == nic.rx[v].pkt.from # EAST

\* What a side is shown of its own tile's messages on a virtual network is the
\* oldest of them: none overtakes another (bug B19).
ShownInOrder ==
    \A n \in Vnet : \A v \in EjVc(nic, n) :
        Own(v) => order[n] # <<>> /\ order[n][1] = nic.rx[v].pkt

Starts(s) == queue[s] # <<>> /\ s \in SrcTaken(nic, Me, Offered)

\* The L1 and the bank share VN2's way out, and neither waits for ever while
\* the other always has more to send (bug B10).
EachSideInTurn ==
    \A s \in Source : s[1] = 2 => []<>(load.fair /\ queue[s] # <<>> => Starts(s))

\* A message a tile sends to itself is handed over, whichever other sinks
\* refuse what they are shown: a virtual network that is held up holds up no
\* other (bug B11).
OwnIsDelivered ==
    \A k \in BesideRefusing :
        (load.fair /\ \E s \in Source : \E j \in DOMAIN queue[s] : queue[s][j] = k) ~> (k \in todo)

\* What the interface promises at every edge.
TileSafe == TypeOK /\ CreditsConserved /\ SlotDiscipline /\ FreeIsFree

===============================================================================
