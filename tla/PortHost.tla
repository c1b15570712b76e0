-------------------------------- MODULE PortHost --------------------------------
(***************************************************************************)
(* One port of the harnesses of tb/models/noc_tb.py, which play the        *)
(* neighbours of the routers: the upstream side that owns a credit for     *)
(* each flit it sends and gives a VC to a new packet only when the tail    *)
(* credit of the last is back, and the downstream side that returns a      *)
(* credit for each flit it takes, CreditDelay cycles later.                *)
(***************************************************************************)
EXTENDS NocRouter

CONSTANT CreditDelay    \* cycles

ASSUME CreditDelayed == CreditDelay \in Nat

NoPacket == [next |-> 0]

NewHost == [ credits |-> [v \in Vc |-> VcDepth], vc_busy |-> [v \in Vc |-> FALSE],
             pending |-> <<>>, in_flight |-> NoPacket, credit_q |-> <<>> ]

\* Faulty: a VC is given to the next packet as soon as the last is sent.
FreeVcSent(h, vnet) == LowestBit({v \in Vc : VnetOf(v) = vnet})

FreeVc(h, vnet) == LowestBit({v \in Vc : VnetOf(v) = vnet /\ ~h.vc_busy[v]})

\* The cycle counter, kept as the time left until each credit is due.
Nearer(e) == [e EXCEPT !.due = IF @ = 0 THEN 0 ELSE @ - 1]

AgeCredits(h) == [h EXCEPT !.credit_q = [k \in DOMAIN @ |-> Nearer(@[k])]]

TakeFlit(h, f) ==
    IF f = NoFlit THEN h
    ELSE [h EXCEPT !.credit_q = Append(@, [due |-> CreditDelay, vc |-> f.vc, tail |-> IsTail(f)])]

TakeCredit(h, cr) ==
    IF cr = NoCredit THEN h
    ELSE [h EXCEPT !.credits[cr.vc] = @ + 1, !.vc_busy[cr.vc] = @ /\ ~cr.tail]

\* An idle port starts its oldest packet if a VC of its virtual network is free.
StartPacket(h) ==
    IF h.in_flight # NoPacket \/ h.pending = <<>> \/ FreeVc(h, h.pending[1].vnet) = {} THEN h
    ELSE LET v == CHOOSE v \in FreeVc(h, h.pending[1].vnet) : TRUE
         IN  [h EXCEPT !.pending = SubSeq(@, 2, Len(@)), !.vc_busy[v] = TRUE,
                       !.in_flight = [pkt |-> h.pending[1], vc |-> v, next |-> 1]]

FlitDriven(h) ==
    LET c == h.in_flight IN
    IF c = NoPacket THEN NoFlit
    ELSE IF h.credits[c.vc] = 0 THEN NoFlit
    ELSE [pkt |-> c.pkt, i |-> c.next, vc |-> c.vc]

Onward(c, f) == IF IsTail(f) THEN NoPacket ELSE [c EXCEPT !.next = @ + 1]

AfterFlit(h) ==
    LET f == FlitDriven(h) IN
    IF f = NoFlit THEN h
    ELSE [h EXCEPT !.credits[f.vc] = @ - 1, !.in_flight = Onward(@, f)]

CreditDriven(h) ==
    IF h.credit_q = <<>> THEN NoCredit
    ELSE IF h.credit_q[1].due # 0 THEN NoCredit
    ELSE [vc |-> h.credit_q[1].vc, tail |-> h.credit_q[1].tail]

AfterCredit(h) ==
    IF CreditDriven(h) = NoCredit THEN h ELSE [h EXCEPT !.credit_q = SubSeq(@, 2, Len(@))]

\* All that a tick samples at one port, and all that it drives.
Sampled(h, f, cr) == TakeCredit(TakeFlit(AgeCredits(h), f), cr)

Driven(h) == AfterCredit(AfterFlit(h))

---------------------------------------------------------------------------
(* Credits, for the properties of the harnesses *)

One(b) == IF b THEN 1 ELSE 0

\* How many credits of a channel wait.
CreditsIn(q, v) == Cardinality({j \in 1 .. Len(q) : q[j].vc = v})

===============================================================================
