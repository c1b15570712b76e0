------------------------------- MODULE NocRouter -------------------------------
(***************************************************************************)
(* rtl/noc/router.sv with its input units, VC allocator, switch allocator  *)
(* and crossbar: the registers of one router as a record, and the value    *)
(* they take at the next clock edge as a function of them and of what the  *)
(* neighbours drive.  A flit is the packet it belongs to, its place in the *)
(* packet and the virtual channel it travels on.                           *)
(***************************************************************************)
EXTENDS Integers, Sequences, FiniteSets, RrArbiter

CONSTANTS NumVnets, VcsPerVnet, VcDepth, MeshX,
          Packets    \* whatever may be sent: records that have dst, vnet and len

ASSUME RouterShape ==
    /\ NumVnets \in Nat \ {0}
    /\ VcsPerVnet \in Nat \ {0}
    /\ VcDepth \in Nat \ {0}
    /\ MeshX \in Nat \ {0}
    /\ \A k \in Packets : k.vnet \in 0 .. NumVnets - 1 /\ k.len \in Nat \ {0}

PORT_NORTH == 0
PORT_EAST == 1
PORT_SOUTH == 2
PORT_WEST == 3
PORT_LOCAL == 4

NumPorts == 5
Port == 0 .. NumPorts - 1

NumVcs == NumVnets * VcsPerVnet
Vc == 0 .. NumVcs - 1

vc_index(vnet, id) == vnet * VcsPerVnet + id

VnetOf(v) == v \div VcsPerVnet

\* A wire that carries nothing this cycle.
NoFlit == [i |-> 0]
NoCredit == [vc |-> -1]

IsHead(f) == f.i = 1
IsTail(f) == f.i = f.pkt.len

Flit == [pkt : Packets, i : Nat \ {0}, vc : Vc]

---------------------------------------------------------------------------
(* Routing: X first and to completion, then Y *)

TileX(t) == t % MeshX
TileY(t) == t \div MeshX

\* Faulty: whatever is not in this column is sent east.
RouteEast(me, dst) ==
    IF TileX(dst) # TileX(me) THEN PORT_EAST
    ELSE IF TileY(dst) # TileY(me) THEN (IF TileY(dst) > TileY(me) THEN PORT_SOUTH ELSE PORT_NORTH)
    ELSE PORT_LOCAL

Route(me, dst) ==
    IF TileX(dst) # TileX(me) THEN (IF TileX(dst) > TileX(me) THEN PORT_EAST ELSE PORT_WEST)
    ELSE IF TileY(dst) # TileY(me) THEN (IF TileY(dst) > TileY(me) THEN PORT_SOUTH ELSE PORT_NORTH)
    ELSE PORT_LOCAL

---------------------------------------------------------------------------
(* The registers after reset *)

IdleVc == [st |-> "IDLE", port |-> 0, ovc |-> 0, buf |-> <<>>]

ResetRouter ==
    [ ivc |-> [p \in Port |-> [v \in Vc |-> IdleVc]],
      busy |-> [o \in Port |-> [v \in Vc |-> FALSE]],
      credits |-> [o \in Port |-> [v \in Vc |-> VcDepth]],
      va1 |-> [p \in Port |-> 0], va2 |-> [o \in Port |-> [v \in Vc |-> 0]],
      sa1 |-> [p \in Port |-> 0], sa2 |-> [o \in Port |-> 0],
      out |-> [o \in Port |-> NoFlit], ret |-> [p \in Port |-> NoCredit] ]

---------------------------------------------------------------------------
(* VC allocation: a candidate channel per input VC, then one input VC per  *)
(* port, then one port per output VC                                       *)

\* Faulty: any free channel of the virtual network, the lowest one (bug B19).
CandVcLowestFree(r, p, v) ==
    LET free == {w \in Vc : VnetOf(w) = VnetOf(v) /\ ~r.busy[r.ivc[p][v].port][w]}
    IN  IF free = {} THEN v ELSE CHOOSE w \in free : \A x \in free : w <= x

CandVc(r, p, v) == v

\* Faulty: a channel still held by another packet may be a candidate.
EligibleAnyway(r, p) == {v \in Vc : r.ivc[p][v].st = "ROUTED"}

Eligible(r, p) ==
    {v \in Vc : r.ivc[p][v].st = "ROUTED" /\ ~r.busy[r.ivc[p][v].port][CandVc(r, p, v)]}

\* Faulty: the first stage picks among all that ask, blocked ones too, and
\* only then is the channel looked at (bug B14).
VaFirstBlind(r, p) ==
    {v \in Gnt({w \in Vc : r.ivc[p][w].st = "ROUTED"}, r.va1[p]) : v \in Eligible(r, p)}

VaFirst(r, p) == Gnt(Eligible(r, p), r.va1[p])

VaAsks(r, o, ov) ==
    {p \in Port : \E v \in VaFirst(r, p) : r.ivc[p][v].port = o /\ CandVc(r, p, v) = ov}

\* Port p is given output channel ov of port o.
VaWins(r, p, o, ov) == p \in Gnt(VaAsks(r, o, ov), r.va2[o][ov])

VaGranted(r, p) == {v \in VaFirst(r, p) : VaWins(r, p, r.ivc[p][v].port, CandVc(r, p, v))}

---------------------------------------------------------------------------
(* Switch allocation, among the channels with a flit and a credit for it *)

\* Faulty: the downstream credit is not looked at.
SaReqNoCredit(r, p) ==
    {v \in Vc : r.ivc[p][v].st \in {"ALLOC", "ACTIVE"} /\ r.ivc[p][v].buf # <<>>}

SaReq(r, p) ==
    {v \in Vc : LET c == r.ivc[p][v] IN
        c.st \in {"ALLOC", "ACTIVE"} /\ c.buf # <<>> /\ r.credits[c.port][c.ovc] # 0}

SaFirst(r, p) == Gnt(SaReq(r, p), r.sa1[p])

SaAsks(r, o) == {p \in Port : \E v \in SaFirst(r, p) : r.ivc[p][v].port = o}

SaGranted(r, p) == {v \in SaFirst(r, p) : p \in Gnt(SaAsks(r, r.ivc[p][v].port), r.sa2[r.ivc[p][v].port])}

\* The allocators' answers of a cycle.
Grants(r) ==
    [ va |-> [p \in Port |-> VaGranted(r, p)],
      sa |-> [p \in Port |-> SaGranted(r, p)],
      alloc |-> [o \in Port |-> [v \in Vc |-> VaAsks(r, o, v) # {}]] ]

\* The flit that leaves input port p, renamed to its output channel.
Departing(r, g, p) ==
    IF g.sa[p] = {} THEN NoFlit
    ELSE LET c == r.ivc[p][CHOOSE v \in g.sa[p] : TRUE]
         IN  [c.buf[1] EXCEPT !.vc = c.ovc]

Crossbar(r, g, o) ==
    LET from == {p \in Port : \E v \in g.sa[p] : r.ivc[p][v].port = o}
    IN  IF from = {} THEN NoFlit ELSE Departing(r, g, CHOOSE p \in from : TRUE)

---------------------------------------------------------------------------
(* One clock edge: flits[p] and credits[o] are what the neighbours drive *)

\* A head opens its VC, a VC grant and a switch grant advance it, in the
\* order of the assignments: the last one made wins.
NextVc(r, g, me, p, v, f) ==
    LET c == r.ivc[p][v]
        write == f # NoFlit /\ f.vc = v
        popped == v \in g.sa[p]
        st1 == IF write /\ IsHead(f) THEN "ROUTED" ELSE c.st
        st2 == IF v \in g.va[p] THEN "ALLOC" ELSE st1
        rest == IF popped THEN SubSeq(c.buf, 2, Len(c.buf)) ELSE c.buf
    IN  [ st |-> IF ~popped THEN st2 ELSE IF IsTail(c.buf[1]) THEN "IDLE" ELSE "ACTIVE",
          port |-> IF write /\ IsHead(f) THEN Route(me, f.pkt.dst) ELSE c.port,
          ovc |-> IF v \in g.va[p] THEN CandVc(r, p, v) ELSE c.ovc,
          buf |-> IF write /\ Len(c.buf) < VcDepth THEN Append(rest, f) ELSE rest ]

Returned(cr, v) == cr # NoCredit /\ cr.vc = v

Sends(x, v) == x # NoFlit /\ x.vc = v

\* Faulty: the channel is released when its last flit is sent.
NextBusyAtTail(busy, alloc, x, v, cr) == alloc \/ (busy /\ ~(Sends(x, v) /\ IsTail(x)))

NextBusy(busy, alloc, x, v, cr) == alloc \/ (busy /\ ~(Returned(cr, v) /\ cr.tail))

\* Faulty: a credit that comes back in the cycle one is spent is lost.
NextCreditsSendWins(n, x, v, cr) ==
    IF Sends(x, v) THEN n - 1 ELSE IF Returned(cr, v) THEN n + 1 ELSE n

NextCredits(n, x, v, cr) ==
    n + (IF Returned(cr, v) THEN 1 ELSE 0) - (IF Sends(x, v) THEN 1 ELSE 0)

\* Faulty: the credit of a tail does not say so.
CreditForNoTail(r, g, p) ==
    IF g.sa[p] = {} THEN NoCredit ELSE [vc |-> CHOOSE v \in g.sa[p] : TRUE, tail |-> FALSE]

\* The credit a departing flit returns names the input channel it leaves.
CreditFor(r, g, p) ==
    IF g.sa[p] = {} THEN NoCredit
    ELSE LET v == CHOOSE v \in g.sa[p] : TRUE
         IN  [vc |-> v, tail |-> IsTail(r.ivc[p][v].buf[1])]

Clock(r, g, me, flits, credits) ==
    [ ivc |-> [p \in Port |-> [v \in Vc |-> NextVc(r, g, me, p, v, flits[p])]],
      busy |-> [o \in Port |-> [v \in Vc |->
                  NextBusy(r.busy[o][v], g.alloc[o][v], Crossbar(r, g, o), v, credits[o])]],
      credits |-> [o \in Port |-> [v \in Vc |->
                  NextCredits(r.credits[o][v], Crossbar(r, g, o), v, credits[o])]],
      va1 |-> [p \in Port |-> NextPtr(NumVcs, Eligible(r, p), r.va1[p], g.va[p] # {})],
      va2 |-> [o \in Port |-> [v \in Vc |-> NextPtr(NumPorts, VaAsks(r, o, v), r.va2[o][v], TRUE)]],
      sa1 |-> [p \in Port |-> NextPtr(NumVcs, SaReq(r, p), r.sa1[p], g.sa[p] # {})],
      sa2 |-> [o \in Port |-> NextPtr(NumPorts, SaAsks(r, o), r.sa2[o], TRUE)],
      out |-> [o \in Port |-> Crossbar(r, g, o)],
      ret |-> [p \in Port |-> CreditFor(r, g, p)] ]

===============================================================================
