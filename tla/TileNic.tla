-------------------------------- MODULE TileNic --------------------------------
(***************************************************************************)
(* rtl/tile/tile_nic.sv: the network interface of a tile, as the record of *)
(* its registers and the value they take at the next clock edge.  A        *)
(* message is the packet it becomes; the side of the tile that sends it or *)
(* takes it is the L1 or the directory bank.                               *)
(***************************************************************************)
EXTENDS NocRouter

Vnet == 0 .. NumVnets - 1

L1 == 0
DIR == 1

\* VN0 leaves from the L1, VN1 from the directory and VN2 from both; what is
\* sent to a side on a virtual network has a port of its own there.
Source == {<<0, L1>>, <<1, DIR>>, <<2, L1>>, <<2, DIR>>}
Sink == {<<0, DIR>>, <<1, L1>>, <<2, L1>>, <<2, DIR>>}

NoMsg == [len |-> 0]

Idle == [next |-> 0]

EmptySlot == [pkt |-> NoMsg, got |-> 0, busy |-> FALSE, full |-> FALSE]

ResetNic ==
    [ pk |-> [n \in Vnet |-> Idle], vn2 |-> 0, inj |-> 0,
      busy |-> [v \in Vc |-> FALSE], credits |-> [v \in Vc |-> VcDepth],
      rx |-> [v \in Vc |-> EmptySlot],
      pend_body |-> [v \in Vc |-> 0], pend_tail |-> {}, ret |-> NoCredit ]

---------------------------------------------------------------------------
(* Injection: offer[s] is the message source s holds valid *)

Offers(offer, n) == {s \in {L1, DIR} : <<n, s>> \in Source /\ offer[<<n, s>>] # NoMsg}

\* Faulty: the L1 goes before the directory (bug B10).
FeederL1First(nic, offer, n) == LowestBit(Offers(offer, n))

\* The side whose message the virtual network would start next.
Feeder(nic, offer, n) ==
    IF n = 2 THEN Gnt(Offers(offer, n), nic.vn2) ELSE Offers(offer, n)

\* Faulty: the lowest free VC of the virtual network (bug B19).
PkVcLowestFree(nic, me, n) ==
    LET free == {v \in Vc : VnetOf(v) = n /\ ~nic.busy[v]}
    IN  IF free = {} THEN vc_index(n, 0) ELSE CHOOSE v \in free : \A w \in free : v <= w

\* The VC of a tile's packets depends on the tile alone.
PkVc(nic, me, n) == vc_index(n, me % VcsPerVnet)

MayStart(nic, v) == ~nic.busy[v] /\ nic.credits[v] # 0

\* Faulty: a packet once started asks for the port with or without a credit.
InjReqNoCredit(nic, me, offer) ==
    {n \in Vnet : nic.pk[n] # Idle \/ (Offers(offer, n) # {} /\ MayStart(nic, PkVc(nic, me, n)))}

InjReq(nic, me, offer) ==
    {n \in Vnet : IF nic.pk[n] = Idle
                  THEN Offers(offer, n) # {} /\ MayStart(nic, PkVc(nic, me, n))
                  ELSE nic.credits[nic.pk[n].vc] # 0}

Started(nic, me, offer) == {n \in Gnt(InjReq(nic, me, offer), nic.inj) : nic.pk[n] = Idle}

\* The sources whose message is taken in this cycle.
SrcTaken(nic, me, offer) ==
    {s \in Source : s[1] \in Started(nic, me, offer) /\ s[2] \in Feeder(nic, offer, s[1])}

InjFlit(nic, me, offer) ==
    LET granted == Gnt(InjReq(nic, me, offer), nic.inj) IN
    IF granted = {} THEN NoFlit
    ELSE LET n == CHOOSE n \in granted : TRUE IN
         IF nic.pk[n] # Idle THEN [pkt |-> nic.pk[n].pkt, i |-> nic.pk[n].next, vc |-> nic.pk[n].vc]
         ELSE [pkt |-> offer[CHOOSE s \in SrcTaken(nic, me, offer) : TRUE], i |-> 1, vc |-> PkVc(nic, me, n)]

NextPk(nic, n, x) ==
    IF x = NoFlit \/ VnetOf(x.vc) # n THEN nic.pk[n]
    ELSE IF IsTail(x) THEN Idle
    ELSE [pkt |-> x.pkt, vc |-> x.vc, next |-> x.i + 1]

\* Faulty: the channel is free again once the tail is sent.
NicBusyToTail(busy, x, v, cr) == (busy \/ Sends(x, v)) /\ ~(Sends(x, v) /\ IsTail(x))

NicBusy(busy, x, v, cr) == (busy \/ Sends(x, v)) /\ ~(Returned(cr, v) /\ cr.tail)

---------------------------------------------------------------------------
(* Ejection: one path per virtual network, each with its own slot to show *)

\* Faulty: one selector across all virtual networks (bug B11).
EjVcShared(nic, n) == {v \in LowestBit({w \in Vc : nic.rx[w].full}) : VnetOf(v) = n}

EjVc(nic, n) == LowestBit({v \in Vc : nic.rx[v].full /\ VnetOf(v) = n})

\* The slots whose message its side takes in this cycle.
EjAccept(nic, ready) ==
    {v \in Vc : /\ v \in EjVc(nic, VnetOf(v))
                /\ <<VnetOf(v), nic.rx[v].pkt.to>> \in ready}

Written(slot, f) ==
    IF IsHead(f) THEN [pkt |-> f.pkt, got |-> 1, busy |-> ~IsTail(f), full |-> IsTail(f)]
    ELSE [slot EXCEPT !.got = @ + 1, !.busy = @ /\ ~IsTail(f), !.full = @ \/ IsTail(f)]

\* A slot that holds nothing keeps its old message, which nobody reads.
NextSlot(slot, f, v, accepted) ==
    LET s1 == IF Sends(f, v) THEN Written(slot, f) ELSE slot
        s2 == [s1 EXCEPT !.full = @ /\ ~accepted]
    IN  IF s2.busy \/ s2.full THEN s2 ELSE EmptySlot

---------------------------------------------------------------------------
(* Credits returned, one a cycle, a tail's before a body flit's *)

CreditOwed(nic) ==
    LET tails == LowestBit(nic.pend_tail)
        bodies == LowestBit({v \in Vc : nic.pend_body[v] # 0})
    IN  IF tails # {} THEN [vc |-> CHOOSE v \in tails : TRUE, tail |-> TRUE]
        ELSE IF bodies # {} THEN [vc |-> CHOOSE v \in bodies : TRUE, tail |-> FALSE]
        ELSE NoCredit

\* Faulty: one write port, which a body flit takes from a tail credit (bug B12).
NextPendTailOnePort(nic, f, accepted) ==
    LET cr == CreditOwed(nic) IN
    (nic.pend_tail \ (IF cr # NoCredit /\ cr.tail THEN {cr.vc} ELSE {}))
        \cup (IF f # NoFlit /\ ~IsTail(f) THEN {} ELSE accepted)

\* Faulty: the channel is given back when the tail lands, not when its message
\* is taken (decision D9).
NextPendTailOnArrival(nic, f, accepted) ==
    LET cr == CreditOwed(nic) IN
    (nic.pend_tail \ (IF cr # NoCredit /\ cr.tail THEN {cr.vc} ELSE {}))
        \cup (IF f # NoFlit THEN {v \in Vc : f.vc = v /\ IsTail(f)} ELSE {})

NextPendTail(nic, f, accepted) ==
    LET cr == CreditOwed(nic) IN
    (nic.pend_tail \ (IF cr # NoCredit /\ cr.tail THEN {cr.vc} ELSE {})) \cup accepted

NextPendBody(nic, f, v) ==
    nic.pend_body[v] + (IF Sends(f, v) /\ ~IsTail(f) THEN 1 ELSE 0)
        - (IF Returned(CreditOwed(nic), v) /\ ~CreditOwed(nic).tail THEN 1 ELSE 0)

---------------------------------------------------------------------------
(* One clock edge: f and cr are what the router drives, ready the sinks    *)
(* that take a message                                                     *)

NicClock(nic, me, offer, f, cr, ready) ==
    LET x == InjFlit(nic, me, offer)
        accepted == EjAccept(nic, ready)
    IN  [ pk |-> [n \in Vnet |-> NextPk(nic, n, x)],
          vn2 |-> NextPtr(2, Offers(offer, 2), nic.vn2, 2 \in Started(nic, me, offer)),
          inj |-> NextPtr(NumVnets, InjReq(nic, me, offer), nic.inj, TRUE),
          busy |-> [v \in Vc |-> NicBusy(nic.busy[v], x, v, cr)],
          credits |-> [v \in Vc |-> NextCredits(nic.credits[v], x, v, cr)],
          rx |-> [v \in Vc |-> NextSlot(nic.rx[v], f, v, v \in accepted)],
          pend_body |-> [v \in Vc |-> NextPendBody(nic, f, v)],
          pend_tail |-> NextPendTail(nic, f, accepted),
          ret |-> CreditOwed(nic) ]

===============================================================================
