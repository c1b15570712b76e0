------------------------------- MODULE Tile_proofs -------------------------------
(***************************************************************************)
(* A tile's network interface at the local port of its router, for any     *)
(* number of networks, channels and buffers and any messages.  A message   *)
(* of the tile is sent by the interface as a harness sends a packet, and   *)
(* what comes is put together in a slot of its channel, which is free      *)
(* again for the router when the credit of the tail is back.               *)
(***************************************************************************)
EXTENDS TileHarness, Router_proofs

---------------------------------------------------------------------------
(* The channels of the virtual networks *)

\* A channel's place in its network leads back to the network,
LEMMA Quotient ==
  ASSUME NEW n \in Nat, NEW i \in Nat, NEW s \in Nat \ {0}, i < s
  PROVE  (n * s + i) \div s = n
OBVIOUS

\* and there are as many networks as it takes.
LEMMA QuotientBound ==
  ASSUME NEW n \in Nat, NEW v \in Nat, NEW s \in Nat \ {0}, v < n * s
  PROVE  v \div s \in 0 .. n - 1
OBVIOUS

\* A product grows with its factor.
LEMMA Scaled ==
  ASSUME NEW a \in Nat, NEW b \in Nat, NEW c \in Nat, a <= b
  PROVE  a * c <= b * c
<1>1. (b - a) * c >= 0 /\ (b - a) * c = b * c - a * c
  OBVIOUS
<1>. QED
  BY <1>1

\* The channel that the tile's messages of network n take, and no other network's.
Lane(n) == vc_index(n, Me % VcsPerVnet)

\* It is a channel of that network, and the one the interface sends on.
LEMMA Lanes ==
  /\ \A n \in Vnet : Lane(n) \in Vc /\ VnetOf(Lane(n)) = n
  /\ \A v \in Vc : VnetOf(v) \in Vnet
  /\ \A nc, n : PkVc(nc, Me, n) = Lane(n)
<1>1. NumVnets \in Nat \ {0} /\ VcsPerVnet \in Nat \ {0} /\ Me \in Nat
  BY RouterShape, TileAssumption
<1>2. PICK i \in Nat : i = Me % VcsPerVnet /\ i < VcsPerVnet
  BY <1>1
<1>3. ASSUME NEW n \in Vnet PROVE Lane(n) \in Vc /\ VnetOf(Lane(n)) = n
  <2>1. n \in Nat /\ n + 1 \in Nat /\ n + 1 <= NumVnets
    BY <1>1 DEF Vnet
  <2>2. (n + 1) * VcsPerVnet <= NumVnets * VcsPerVnet
    BY <1>1, <2>1, Scaled
  <2>3. (n + 1) * VcsPerVnet = n * VcsPerVnet + VcsPerVnet /\ n * VcsPerVnet \in Nat
    BY <1>1, <2>1
  <2>4. PICK a \in Nat, b \in Nat : a = n * VcsPerVnet /\ b = NumVnets * VcsPerVnet
    BY <1>1, <2>1
  <2>5. a + i \in 0 .. b - 1
    BY <1>1, <1>2, <2>2, <2>3, <2>4
  <2>6. (n * VcsPerVnet + i) \div VcsPerVnet = n
    BY <1>1, <1>2, <2>1, Quotient
  <2>7. Lane(n) = n * VcsPerVnet + i
    BY <1>2 DEF Lane, vc_index
  <2>. QED
    BY <2>4, <2>5, <2>6, <2>7 DEF Vc, NumVcs, VnetOf
<1>4. ASSUME NEW v \in Vc PROVE VnetOf(v) \in Vnet
  <2>1. PICK b \in Nat : b = NumVnets * VcsPerVnet
    BY <1>1
  <2>2. v \in 0 .. b - 1
    BY <2>1 DEF Vc, NumVcs
  <2>3. v \in Nat /\ v < NumVnets * VcsPerVnet
    BY <2>1, <2>2
  <2>4. v \div VcsPerVnet \in 0 .. NumVnets - 1
    BY <1>1, <2>3, QuotientBound
  <2>. QED
    BY <2>4 DEF VnetOf, Vnet
<1>5. \A nc, n : PkVc(nc, Me, n) = Lane(n)
  BY DEF PkVc, Lane
<1>. QED
  BY <1>3, <1>4, <1>5

---------------------------------------------------------------------------
(* What is known of the interface *)

\* The registers by name.
Pk(nc, n) == nc.pk[n]
NBusy(nc, v) == nc.busy[v]
NCred(nc, v) == nc.credits[v]
Slot(nc, v) == nc.rx[v]
Bodies(nc, v) == nc.pend_body[v]

SlotRec == [pkt : Packets \cup {NoMsg}, got : Nat, busy : BOOLEAN, full : BOOLEAN]

\* The registers of an interface.
NicType(nc) ==
    /\ nc.pk \in [Vnet -> InFlight \cup {Idle}]
    /\ nc.vn2 \in {L1, DIR} /\ nc.inj \in Vnet
    /\ nc.busy \in [Vc -> BOOLEAN] /\ nc.credits \in [Vc -> Int]
    /\ nc.rx \in [Vc -> SlotRec] /\ nc.pend_body \in [Vc -> Int]
    /\ nc.pend_tail \in SUBSET Vc /\ nc.ret \in CreditMsg \cup {NoCredit}

\* A message that is being sent is on its network's channel and has more to send.
Sending(nc, n) ==
    Pk(nc, n) # Idle => Pk(nc, n).vc = Lane(n) /\ Pk(nc, n).next <= Pk(nc, n).pkt.len

\* The packet of which the interface sends flits on channel v, and how many have gone.
Mine(nc, v) == Pk(nc, VnetOf(v)) # Idle /\ v = Lane(VnetOf(v))
MyPacket(nc, v) == IF Mine(nc, v) THEN Pk(nc, VnetOf(v)).pkt ELSE NoPacket
MyGone(nc, v) == IF Mine(nc, v) THEN Pk(nc, VnetOf(v)).next - 1 ELSE -1

\* What the interface sends in: cr is the credit on its way back, of the b flits that
\* are in the buffer.
Injected(nc, v, k, n, cr, b) ==
    /\ Line(NoFlit, v, k, n, MyPacket(nc, v), MyGone(nc, v), NBusy(nc, v), TailBack(cr, v))
    /\ NCred(nc, v) + b + One(Returned(cr, v)) = VcDepth
    /\ NCred(nc, v) >= 0

\* Of channel v, n flits of packet k have come and the credit of the tail has not gone.
SlotOk(nc, v, k, n) ==
    /\ Slot(nc, v).busy => /\ ~Slot(nc, v).full /\ v \notin nc.pend_tail
                           /\ n = Slot(nc, v).got /\ n > 0 /\ n < k.len /\ k = Slot(nc, v).pkt
    /\ Slot(nc, v).full => v \notin nc.pend_tail /\ n > 0 /\ n = k.len /\ k = Slot(nc, v).pkt
    /\ v \in nc.pend_tail => n > 0 /\ n = k.len
    /\ n > 0 => Slot(nc, v).busy \/ Slot(nc, v).full \/ v \in nc.pend_tail

\* The credits of what comes, of which c are at the router and f is on the wire.
Ejected(nc, v, f, c) ==
    /\ c + One(Sends(f, v)) + Bodies(nc, v) + One(Slot(nc, v).full) + One(v \in nc.pend_tail)
         + One(Returned(nc.ret, v)) = VcDepth
    /\ c >= 0 /\ Bodies(nc, v) >= 0

\* The interface nc at router a.
NicOk(nc, a, ka, na, v, k, n) ==
    /\ Injected(nc, v, At(ka, PORT_LOCAL, v), At(na, PORT_LOCAL, v), Ret(a, PORT_LOCAL),
                Len(Ivc(a, PORT_LOCAL, v).buf))
    /\ OutChannel(a, Out(a, PORT_LOCAL), PORT_LOCAL, v, ka, na, k, n, TailBack(nc.ret, v))
    /\ n \in Nat /\ SlotOk(nc, v, k, n)
    /\ Ejected(nc, v, Out(a, PORT_LOCAL), Cred(a, PORT_LOCAL, v))

---------------------------------------------------------------------------
(* What the interface sends *)

\* What the controllers offer: a message of each port's network, or none.
OfferOk(offer) == \A s \in Source : offer[s] = NoMsg \/ offer[s] \in Packets

\* A message goes on,
Goes(nc, offer, x, n) ==
    /\ Pk(nc, n) # Idle /\ x = [pkt |-> Pk(nc, n).pkt, i |-> Pk(nc, n).next, vc |-> Lane(n)]
    /\ SrcTaken(nc, Me, offer) = {}

\* or one of source s is begun.
Begins(nc, offer, x, n, s) ==
    /\ Pk(nc, n) = Idle /\ ~NBusy(nc, Lane(n))
    /\ s[1] = n /\ offer[s] \in Packets
    /\ x = [pkt |-> offer[s], i |-> 1, vc |-> Lane(n)]
    /\ SrcTaken(nc, Me, offer) = {s}

SentNow(nc, offer, x) ==
    \/ x = NoFlit /\ SrcTaken(nc, Me, offer) = {}
    \/ \E n \in Vnet :
         /\ NCred(nc, Lane(n)) # 0
         /\ Goes(nc, offer, x, n) \/ \E s \in Source : Begins(nc, offer, x, n, s)

\* A network that may start has one side whose message it starts.
LEMMA Feeds ==
  ASSUME NEW nc, NEW offer, NEW n \in Vnet, Offers(offer, n) # {}
  PROVE  \E s \in Source : /\ s[1] = n /\ offer[s] # NoMsg
                           /\ {r \in Source : r[1] = n /\ r[2] \in Feeder(nc, offer, n)} = {s}
<1>1. PICK F : F = Feeder(nc, offer, n)
  OBVIOUS
<1>2. Offers(offer, n) \subseteq {0, 1} /\ \A i \in Offers(offer, n) : <<n, i>> \in Source /\ offer[<<n, i>>] # NoMsg
  BY DEF Offers, L1, DIR
<1>3. \E i \in Offers(offer, n) : F = {i}
  <2>1. CASE n = 2
    <3>1. F = Gnt(Offers(offer, n), nc.vn2)
      BY <1>1, <2>1 DEF Feeder
    <3>2. Offers(offer, n) \in SUBSET Int /\ Offers(offer, n) \in SUBSET Nat
      BY <1>2
    <3>3. F # {} /\ F \subseteq Offers(offer, n) /\ \A i, j \in F : i = j
      BY <3>1, <3>2, GntOne, GntSome
    <3>. QED
      BY <3>3
  <2>2. CASE n # 2
    <3>1. F = Offers(offer, n)
      BY <1>1, <2>2 DEF Feeder
    <3>2. \A i, j \in {0, 1} : <<n, i>> \in Source /\ <<n, j>> \in Source => i = j
      BY <2>2 DEF Source, L1, DIR
    <3>. QED
      BY <1>2, <3>1, <3>2
  <2>. QED
    BY <2>1, <2>2
<1>4. PICK i \in Offers(offer, n) : F = {i}
  BY <1>3
<1>5. <<n, i>> \in Source /\ offer[<<n, i>>] # NoMsg
  BY <1>2
<1>6. \A r \in Source : r = <<r[1], r[2]>>
  BY DEF Source
<1>7. {r \in Source : r[1] = n /\ r[2] \in F} = {<<n, i>>}
  BY <1>4, <1>5, <1>6
<1>. QED
  BY <1>1, <1>5, <1>7

\* The interface sends the next flit of a message it has started, or the first of
\* one that it is offered.
LEMMA Injects ==
  ASSUME NEW nc, NicType(nc), \A n \in Vnet : Sending(nc, n), NEW offer, OfferOk(offer),
         NEW x, x = InjFlit(nc, Me, offer)
  PROVE  SentNow(nc, offer, x)
<1>1. PICK G : G = Gnt(InjReq(nc, Me, offer), nc.inj)
  OBVIOUS
<1>2. InjReq(nc, Me, offer) \subseteq Vnet /\ Vnet \subseteq Int
  BY RouterShape DEF InjReq, Vnet
<1>3. G \subseteq InjReq(nc, Me, offer) /\ \A i, j \in G : i = j
  BY <1>1, <1>2, GntOne
<1>4. SrcTaken(nc, Me, offer) = {s \in Source : s[1] \in G /\ nc.pk[s[1]] = Idle /\ s[2] \in Feeder(nc, offer, s[1])}
  BY <1>1 DEF SrcTaken, Started
<1>5. CASE G = {}
  BY <1>1, <1>4, <1>5 DEF InjFlit, SentNow
<1>6. CASE G # {}
  <2>1. PICK n \in Vnet : G = {n} /\ n \in InjReq(nc, Me, offer)
    BY <1>2, <1>3, <1>6
  <2>2. (CHOOSE m \in G : TRUE) = n
    BY <2>1
  <2>3. CASE Pk(nc, n) # Idle
    <3>1. SrcTaken(nc, Me, offer) = {}
      BY <1>4, <2>1, <2>3 DEF Pk
    <3>2. Pk(nc, n).vc = Lane(n)
      BY <2>3 DEF Sending
    <3>3. x = [pkt |-> Pk(nc, n).pkt, i |-> Pk(nc, n).next, vc |-> Lane(n)]
      BY <1>1, <1>6, <2>2, <2>3, <3>2 DEF InjFlit, Pk
    <3>4. NCred(nc, Lane(n)) # 0
      BY <2>1, <2>3, <3>2 DEF InjReq, Pk, NCred
    <3>. QED
      BY <2>3, <3>1, <3>3, <3>4 DEF Goes, SentNow
  <2>4. CASE Pk(nc, n) = Idle
    <3>1. Offers(offer, n) # {} /\ ~NBusy(nc, Lane(n)) /\ NCred(nc, Lane(n)) # 0
      BY <2>1, <2>4, Lanes DEF InjReq, Pk, MayStart, NBusy, NCred
    <3>2. PICK s \in Source : /\ s[1] = n /\ offer[s] # NoMsg
                              /\ {r \in Source : r[1] = n /\ r[2] \in Feeder(nc, offer, n)} = {s}
      BY <3>1, Feeds
    <3>3. SrcTaken(nc, Me, offer) = {r \in Source : r[1] = n /\ r[2] \in Feeder(nc, offer, n)}
      BY <1>4, <2>1, <2>4 DEF Pk
    <3>4. SrcTaken(nc, Me, offer) = {s} /\ (CHOOSE r \in SrcTaken(nc, Me, offer) : TRUE) = s
      BY <3>2, <3>3
    <3>5. x = [pkt |-> offer[s], i |-> 1, vc |-> Lane(n)]
      BY <1>1, <1>6, <2>2, <2>4, <3>4, Lanes DEF InjFlit, Pk
    <3>6. offer[s] \in Packets
      BY <3>2 DEF OfferOk
    <3>. QED
      BY <2>4, <3>1, <3>2, <3>4, <3>5, <3>6 DEF Begins, SentNow
  <2>. QED
    BY <2>3, <2>4
<1>. QED
  BY <1>5, <1>6

\* Interface nc is nc2 after the edge at which it is offered messages, f and cr come
\* from the router and the sinks of rdy take what they are shown.
NicEdge(nc, offer, f, cr, rdy, nc2) == nc2 = NicClock(nc, Me, offer, f, cr, rdy)

\* The registers after the edge, one by one.
LEMMA NicFields ==
  ASSUME NEW nc, NEW offer, NEW f, NEW cr, NEW rdy, NEW nc2, NicEdge(nc, offer, f, cr, rdy, nc2),
         NEW x, x = InjFlit(nc, Me, offer)
  PROVE  /\ \A n \in Vnet : Pk(nc2, n) = NextPk(nc, n, x)
         /\ \A v \in Vc : /\ NBusy(nc2, v) = NicBusy(NBusy(nc, v), x, v, cr)
                          /\ NCred(nc2, v) = NextCredits(NCred(nc, v), x, v, cr)
                          /\ Slot(nc2, v) = NextSlot(Slot(nc, v), f, v, v \in EjAccept(nc, rdy))
                          /\ Bodies(nc2, v) = NextPendBody(nc, f, v)
         /\ nc2.pend_tail = NextPendTail(nc, f, EjAccept(nc, rdy)) /\ nc2.ret = CreditOwed(nc)
<1>1. \A n \in Vnet : nc2.pk[n] = NextPk(nc, n, x)
  BY DEF NicEdge, NicClock
<1>2. \A v \in Vc : nc2.busy[v] = NicBusy(nc.busy[v], x, v, cr)
  BY DEF NicEdge, NicClock
<1>3. \A v \in Vc : nc2.credits[v] = NextCredits(nc.credits[v], x, v, cr)
  BY DEF NicEdge, NicClock
<1>4. \A v \in Vc : nc2.rx[v] = NextSlot(nc.rx[v], f, v, v \in EjAccept(nc, rdy))
  BY DEF NicEdge, NicClock
<1>5. \A v \in Vc : nc2.pend_body[v] = NextPendBody(nc, f, v)
  BY DEF NicEdge, NicClock
<1>6. nc2.pend_tail = NextPendTail(nc, f, EjAccept(nc, rdy)) /\ nc2.ret = CreditOwed(nc)
  BY DEF NicEdge, NicClock
<1>. QED
  BY <1>1, <1>2, <1>3, <1>4, <1>5, <1>6 DEF Pk, NBusy, NCred, Slot, Bodies

\* What the interface sends on channel v is the flit after those that have gone of its
\* packet there, or the first of a packet that finds the channel free.
SentMine(nc, x, nc2, v) ==
    \/ ~Sends(x, v) /\ MyPacket(nc2, v) = MyPacket(nc, v) /\ MyGone(nc2, v) = MyGone(nc, v)
    \/ \E ku \in Packets, g \in Nat :
         /\ g < ku.len /\ x = [pkt |-> ku, i |-> g + 1, vc |-> v] /\ NCred(nc, v) # 0
         /\ \/ MyPacket(nc, v) = ku /\ MyGone(nc, v) = g
            \/ g = 0 /\ ~NBusy(nc, v)
         /\ IF g + 1 = ku.len THEN MyPacket(nc2, v) = NoPacket /\ MyGone(nc2, v) = -1
            ELSE MyPacket(nc2, v) = ku /\ MyGone(nc2, v) = g + 1

\* A flit of network n, flit g + 1 of packet ku.
FlitOf(nc, x, n, ku, g) ==
    /\ ku \in Packets /\ g \in Nat /\ g < ku.len /\ x = [pkt |-> ku, i |-> g + 1, vc |-> Lane(n)]
    /\ NCred(nc, Lane(n)) # 0
    /\ \/ Pk(nc, n) # Idle /\ Pk(nc, n).pkt = ku /\ Pk(nc, n).next - 1 = g
       \/ Pk(nc, n) = Idle /\ g = 0 /\ ~NBusy(nc, Lane(n))

\* Whatever is sent is such a flit.
LEMMA SendsFlit ==
  ASSUME NEW nc, NicType(nc), \A n \in Vnet : Sending(nc, n), NEW offer, OfferOk(offer),
         NEW x, x = InjFlit(nc, Me, offer)
  PROVE  x = NoFlit \/ \E n \in Vnet : \E ku, g : FlitOf(nc, x, n, ku, g)
<1>1. SentNow(nc, offer, x)
  BY Injects
<1>2. ASSUME NEW n \in Vnet, NCred(nc, Lane(n)) # 0, Goes(nc, offer, x, n)
      PROVE  \E ku, g : FlitOf(nc, x, n, ku, g)
  <2>1. Pk(nc, n) \in InFlight /\ Pk(nc, n).next <= Pk(nc, n).pkt.len
    BY <1>2 DEF Goes, NicType, Pk, Sending
  <2>2. PICK ku, g : ku = Pk(nc, n).pkt /\ g = Pk(nc, n).next - 1
    OBVIOUS
  <2>3. ku \in Packets /\ g \in Nat /\ g + 1 = Pk(nc, n).next /\ ku.len \in Nat
    BY <2>1, <2>2, PacketFacts DEF InFlight
  <2>4. x = [pkt |-> ku, i |-> g + 1, vc |-> Lane(n)] /\ Pk(nc, n) # Idle
    BY <1>2, <2>2, <2>3 DEF Goes
  <2>5. FlitOf(nc, x, n, ku, g)
    BY <1>2, <2>1, <2>2, <2>3, <2>4 DEF FlitOf
  <2>. QED
    BY <2>5
<1>3. ASSUME NEW n \in Vnet, NCred(nc, Lane(n)) # 0, NEW s \in Source, Begins(nc, offer, x, n, s)
      PROVE  \E ku, g : FlitOf(nc, x, n, ku, g)
  <2>1. offer[s] \in Packets /\ 0 < offer[s].len /\ 0 + 1 = 1
    BY <1>3, PacketFacts DEF Begins
  <2>2. FlitOf(nc, x, n, offer[s], 0)
    BY <1>3, <2>1 DEF Begins, FlitOf
  <2>. QED
    BY <2>2
<1>. QED
  BY <1>1, <1>2, <1>3 DEF SentNow

\* What becomes of the messages being sent.
LEMMA PkStep ==
  ASSUME NEW nc, NicType(nc), \A n \in Vnet : Sending(nc, n), NEW offer, OfferOk(offer),
         NEW x, x = InjFlit(nc, Me, offer), NEW nc2, \A n \in Vnet : Pk(nc2, n) = NextPk(nc, n, x)
  PROVE  /\ x \in Flit \cup {NoFlit}
         /\ \A n \in Vnet : Pk(nc2, n) \in InFlight \cup {Idle} /\ Sending(nc2, n)
         /\ \A v \in Vc : SentMine(nc, x, nc2, v)
<1>1. \A n \in Vnet : Pk(nc, n) \in InFlight \cup {Idle}
  BY DEF NicType, Pk
<1>2. CASE x = NoFlit
  <2>1. \A n \in Vnet : Pk(nc2, n) = Pk(nc, n)
    BY <1>2 DEF NextPk, Pk
  <2>2. \A v \in Vc : MyPacket(nc2, v) = MyPacket(nc, v) /\ MyGone(nc2, v) = MyGone(nc, v) /\ ~Sends(x, v)
    BY <1>2, <2>1, Lanes, Wires DEF MyPacket, MyGone, Mine
  <2>. QED
    BY <1>1, <1>2, <2>1, <2>2 DEF Sending, SentMine
<1>3. ASSUME NEW n \in Vnet, NEW ku, NEW g, FlitOf(nc, x, n, ku, g)
      PROVE  /\ x \in Flit \cup {NoFlit}
             /\ \A m \in Vnet : Pk(nc2, m) \in InFlight \cup {Idle} /\ Sending(nc2, m)
             /\ \A v \in Vc : SentMine(nc, x, nc2, v)
  <2>. DEFINE w == Lane(n)
  <2>1. /\ ku \in Packets /\ g \in Nat /\ g < ku.len /\ x = [pkt |-> ku, i |-> g + 1, vc |-> w]
        /\ NCred(nc, w) # 0
        /\ \/ Pk(nc, n) # Idle /\ Pk(nc, n).pkt = ku /\ Pk(nc, n).next - 1 = g
           \/ Pk(nc, n) = Idle /\ g = 0 /\ ~NBusy(nc, w)
    BY <1>3 DEF FlitOf
  <2>2. w \in Vc /\ VnetOf(w) = n /\ ku.len \in Nat
    BY <2>1, Lanes, PacketFacts
  <2>. HIDE DEF w
  <2>3. x \in Flit /\ x # NoFlit /\ x.vc = w /\ x.pkt = ku /\ x.i = g + 1
    BY <2>1, <2>2, Wires DEF Flit
  <2>4. \A m \in Vnet : m # n => Pk(nc2, m) = Pk(nc, m)
    BY <2>2, <2>3 DEF NextPk, Pk
  <2>5. Pk(nc2, n) = IF g + 1 = ku.len THEN Idle ELSE [pkt |-> ku, vc |-> w, next |-> g + 2]
    BY <2>1, <2>2, <2>3 DEF NextPk, IsTail
  <2>6. [pkt |-> ku, vc |-> w, next |-> g + 2] \in InFlight /\ Idle \notin InFlight
    BY <2>1, <2>2 DEF InFlight, Idle
  <2>7. \A m \in Vnet : Pk(nc2, m) \in InFlight \cup {Idle}
    BY <1>1, <2>4, <2>5, <2>6
  <2>8. g + 1 # ku.len => g + 2 <= ku.len
    BY <2>1, <2>2
  <2>9. \A m \in Vnet : Sending(nc2, m)
    BY <2>4, <2>5, <2>8 DEF Sending, w
  <2>10. ASSUME NEW v \in Vc PROVE SentMine(nc, x, nc2, v)
    <3>1. CASE v = w
      <4>1. Mine(nc, v) <=> Pk(nc, n) # Idle
        BY <2>2, <3>1 DEF Mine, w
      <4>2. Mine(nc2, v) <=> g + 1 # ku.len
        BY <2>2, <2>5, <2>6, <3>1 DEF Mine, w
      <4>3. \/ MyPacket(nc, v) = ku /\ MyGone(nc, v) = g
            \/ g = 0 /\ ~NBusy(nc, v)
        BY <2>1, <2>2, <3>1, <4>1 DEF MyPacket, MyGone
      <4>4. IF g + 1 = ku.len THEN MyPacket(nc2, v) = NoPacket /\ MyGone(nc2, v) = -1
            ELSE MyPacket(nc2, v) = ku /\ MyGone(nc2, v) = g + 1
        <5>1. CASE g + 1 = ku.len
          BY <4>2, <5>1 DEF MyPacket, MyGone
        <5>2. CASE g + 1 # ku.len
          <6>1. Pk(nc2, VnetOf(v)).pkt = ku /\ Pk(nc2, VnetOf(v)).next = g + 2
            BY <2>2, <2>5, <3>1, <5>2
          <6>2. (g + 2) - 1 = g + 1
            BY <2>1
          <6>. QED
            BY <4>2, <5>2, <6>1, <6>2 DEF MyPacket, MyGone
        <5>. QED
          BY <5>1, <5>2
      <4>. QED
        BY <2>1, <3>1, <4>3, <4>4 DEF SentMine
    <3>2. CASE v # w
      <4>1. ~Sends(x, v)
        BY <2>3, <3>2 DEF Sends
      <4>2. CASE VnetOf(v) = n
        <5>1. ~Mine(nc, v) /\ ~Mine(nc2, v)
          BY <3>2, <4>2 DEF Mine, w
        <5>. QED
          BY <4>1, <5>1 DEF SentMine, MyPacket, MyGone
      <4>3. CASE VnetOf(v) # n
        <5>1. Pk(nc2, VnetOf(v)) = Pk(nc, VnetOf(v))
          BY <2>4, <4>3, Lanes
        <5>. QED
          BY <4>1, <5>1 DEF SentMine, MyPacket, MyGone, Mine
      <4>. QED
        BY <4>2, <4>3
    <3>. QED
      BY <3>1, <3>2
  <2>. QED
    BY <2>3, <2>7, <2>9, <2>10
<1>. QED
  BY <1>2, <1>3, SendsFlit

\* A packet whose flits go on a channel has more of them.
LEMMA MineFacts ==
  ASSUME NEW nc, NicType(nc), \A n \in Vnet : Sending(nc, n), NEW v \in Vc
  PROVE  /\ MyGone(nc, v) \in Int /\ Short(MyPacket(nc, v), MyGone(nc, v))
         /\ MyGone(nc, v) < 0 \/ MyPacket(nc, v) \in Packets
<1>1. PICK n \in Vnet : n = VnetOf(v)
  BY Lanes
<1>2. CASE Mine(nc, v)
  <2>1. Pk(nc, n) \in InFlight /\ Pk(nc, n).next <= Pk(nc, n).pkt.len
    BY <1>1, <1>2 DEF Mine, NicType, Pk, Sending
  <2>2. MyPacket(nc, v) = Pk(nc, n).pkt /\ MyGone(nc, v) = Pk(nc, n).next - 1
    BY <1>1, <1>2 DEF MyPacket, MyGone
  <2>3. Pk(nc, n).pkt \in Packets /\ Pk(nc, n).next \in Nat /\ Pk(nc, n).pkt.len \in Nat
    BY <2>1, PacketFacts DEF InFlight
  <2>. QED
    BY <2>1, <2>2, <2>3 DEF Short
<1>3. CASE ~Mine(nc, v)
  BY <1>3 DEF MyPacket, MyGone, Short
<1>. QED
  BY <1>2, <1>3


\* Sending keeps the channel's line.
LEMMA MineLine ==
  ASSUME NEW nc, NEW x, NEW nc2, NEW v, SentMine(nc, x, nc2, v), NEW k, NEW n \in Nat, NEW tc,
         MyGone(nc, v) \in Int, Short(MyPacket(nc, v), MyGone(nc, v)),
         Line(NoFlit, v, k, n, MyPacket(nc, v), MyGone(nc, v), NBusy(nc, v), tc),
         NEW b, b <=> NBusy(nc, v) \/ Sends(x, v)
  PROVE  Line(x, v, k, n, MyPacket(nc2, v), MyGone(nc2, v), b, tc)
<1>1. PICK kp, gp : kp = MyPacket(nc, v) /\ gp = MyGone(nc, v)
  OBVIOUS
<1>2. gp \in Int /\ Line(NoFlit, v, k, n, kp, gp, NBusy(nc, v), tc)
  BY <1>1
<1>3. CASE ~Sends(x, v) /\ MyPacket(nc2, v) = MyPacket(nc, v) /\ MyGone(nc2, v) = MyGone(nc, v)
  <2>1. Line(x, v, k, n, kp, gp, NBusy(nc, v), tc)
    BY <1>2, <1>3, LineQuiet, Wires
  <2>2. Line(x, v, k, n, kp, gp, b, tc)
    BY <1>3, <2>1 DEF Line
  <2>. QED
    BY <1>1, <1>3, <2>2
<1>4. ASSUME NEW ku \in Packets, NEW g \in Nat, g < ku.len, x = [pkt |-> ku, i |-> g + 1, vc |-> v],
             \/ kp = ku /\ gp = g
             \/ g = 0 /\ ~NBusy(nc, v),
             IF g + 1 = ku.len THEN MyPacket(nc2, v) = NoPacket /\ MyGone(nc2, v) = -1
             ELSE MyPacket(nc2, v) = ku /\ MyGone(nc2, v) = g + 1
      PROVE  Line(x, v, k, n, MyPacket(nc2, v), MyGone(nc2, v), b, tc)
  <2>1. ku.len \in Nat /\ Short(ku, g)
    BY <1>4, PacketFacts DEF Short
  <2>2. x # NoFlit /\ x.vc = v /\ x.i = g + 1
    BY <1>4 DEF NoFlit
  <2>3. b /\ Sends(x, v)
    BY <2>2 DEF Sends
  <2>4. Line(NoFlit, v, k, n, ku, g, b, tc)
    <3>1. CASE kp = ku /\ gp = g
      <4>1. Line(NoFlit, v, k, n, ku, g, NBusy(nc, v), tc)
        BY <1>2, <3>1
      <4>2. NBusy(nc, v)
        BY <4>1 DEF Line
      <4>. QED
        BY <2>3, <4>1, <4>2 DEF Line
    <3>2. CASE g = 0 /\ ~NBusy(nc, v)
      <4>1. IsSet(b)
        BY <2>3 DEF IsSet
      <4>2. Line(NoFlit, v, k, n, ku, 0, b, tc)
        BY <1>2, <3>2, <4>1, LineAlloc
      <4>. QED
        BY <3>2, <4>2
    <3>. QED
      BY <1>4, <3>1, <3>2
  <2>5. /\ Line(x, v, k, n, ku, g + 1, b, tc)
        /\ g + 1 = ku.len => Line(x, v, k, n, ku, -1, b, tc)
    BY <1>4, <2>1, <2>4, LineSend
  <2>6. CASE g + 1 = ku.len
    <3>1. Line(x, v, k, n, NoPacket, -1, b, tc)
      BY <2>5, <2>6, LineFree
    <3>. QED
      BY <1>4, <2>6, <3>1
  <2>7. CASE g + 1 # ku.len
    BY <1>4, <2>5, <2>7
  <2>. QED
    BY <2>6, <2>7
<1>. QED
  BY <1>1, <1>3, <1>4 DEF SentMine

\* The router takes the flit in, and frees a buffer with cr2.
Taken(x, v, k, n, b, cr2, k2, n2, b2) ==
    /\ Came(x, v, k, n, TailBack(cr2, v), k2, n2)
    /\ b2 = b + One(Sends(x, v)) - One(Returned(cr2, v))
    /\ b \in Nat /\ b2 \in Nat

\* What is sent in, over a cycle.
LEMMA InjectedStep ==
  ASSUME NEW nc, NicType(nc), \A n \in Vnet : Sending(nc, n), NEW x, NEW nc2, NEW v \in Vc,
         SentMine(nc, x, nc2, v), NEW cr,
         NBusy(nc2, v) = NicBusy(NBusy(nc, v), x, v, cr), NCred(nc2, v) = NextCredits(NCred(nc, v), x, v, cr),
         NEW k, NEW n \in Nat, NEW b, Injected(nc, v, k, n, cr, b),
         NEW cr2, NEW k2, NEW n2, NEW b2, Taken(x, v, k, n, b, cr2, k2, n2, b2)
  PROVE  Injected(nc2, v, k2, n2, cr2, b2)
<1>1. MyGone(nc, v) \in Int /\ Short(MyPacket(nc, v), MyGone(nc, v)) /\ NCred(nc, v) \in Int
  BY MineFacts DEF NicType, NCred
<1>2. MyGone(nc2, v) \in Int /\ Short(MyPacket(nc2, v), MyGone(nc2, v)) /\ (Sends(x, v) => NCred(nc, v) # 0)
  BY <1>1, PacketFacts DEF SentMine, Short
<1>3. PICK kp, gp : kp = MyPacket(nc2, v) /\ gp = MyGone(nc2, v)
  OBVIOUS
<1>4. PICK b1, b3, tc, tl : /\ b1 = (NBusy(nc, v) \/ Sends(x, v)) /\ b3 = NBusy(nc2, v)
                            /\ tc = TailBack(cr, v) /\ tl = TailBack(cr2, v)
  OBVIOUS
<1>5. Line(NoFlit, v, k, n, MyPacket(nc, v), MyGone(nc, v), NBusy(nc, v), tc)
  BY <1>4 DEF Injected
<1>6. b1 <=> NBusy(nc, v) \/ Sends(x, v)
  BY <1>4
<1>7. Line(x, v, k, n, kp, gp, b1, tc)
  BY <1>1, <1>3, <1>5, <1>6, MineLine
<1>8. gp \in Int /\ Short(kp, gp) /\ Came(x, v, k, n, tl, k2, n2)
  BY <1>2, <1>3, <1>4 DEF Taken
<1>9. b3 <=> b1 /\ ~tc
  BY <1>4 DEF NicBusy, TailBack
<1>10. Line(NoFlit, v, k2, n2, kp, gp, b3, tl)
  BY <1>7, <1>8, <1>9, LineReceive
<1>11. NCred(nc2, v) + b2 + One(Returned(cr2, v)) = VcDepth /\ NCred(nc2, v) >= 0
  <2>1. NCred(nc2, v) = NCred(nc, v) + One(Returned(cr, v)) - One(Sends(x, v))
    BY DEF NextCredits, One
  <2>2. NCred(nc, v) + b + One(Returned(cr, v)) = VcDepth /\ NCred(nc, v) >= 0
    BY DEF Injected
  <2>3. /\ One(Returned(cr, v)) \in 0 .. 1 /\ One(Returned(cr2, v)) \in 0 .. 1 /\ One(Sends(x, v)) \in 0 .. 1
        /\ One(Sends(x, v)) = 1 <=> Sends(x, v)
    BY DEF One
  <2>4. b \in Nat /\ b2 = b + One(Sends(x, v)) - One(Returned(cr2, v))
    BY DEF Taken
  <2>. QED
    BY <1>1, <1>2, <2>1, <2>2, <2>3, <2>4
<1>. QED
  BY <1>3, <1>4, <1>10, <1>11 DEF Injected

\* What is sent in finds its place and room in the router.
LEMMA InjectedFeeds ==
  ASSUME NEW nc, NicType(nc), \A n \in Vnet : Sending(nc, n), NEW x, NEW nc2, NEW v \in Vc,
         SentMine(nc, x, nc2, v), NEW cr,
         NEW k, NEW n \in Nat, NEW b \in Nat, Injected(nc, v, k, n, cr, b)
  PROVE  Sends(x, v) => Follows(x, k, n) /\ b < VcDepth
<1>1. MyGone(nc, v) \in Int /\ Short(MyPacket(nc, v), MyGone(nc, v)) /\ NCred(nc, v) \in Int
  BY MineFacts DEF NicType, NCred
<1>2. PICK b1, tc : b1 = (NBusy(nc, v) \/ Sends(x, v)) /\ tc = TailBack(cr, v)
  OBVIOUS
<1>3. Line(NoFlit, v, k, n, MyPacket(nc, v), MyGone(nc, v), NBusy(nc, v), tc)
  BY <1>2 DEF Injected
<1>4. b1 <=> NBusy(nc, v) \/ Sends(x, v)
  BY <1>2
<1>5. Line(x, v, k, n, MyPacket(nc2, v), MyGone(nc2, v), b1, tc)
  BY <1>1, <1>3, <1>4, MineLine
<1>6. Sends(x, v) => Follows(x, k, n)
  BY <1>5 DEF Line
<1>7. Sends(x, v) => NCred(nc, v) # 0
  BY DEF SentMine
<1>8. NCred(nc, v) + b + One(Returned(cr, v)) = VcDepth /\ NCred(nc, v) >= 0 /\ VcDepth \in Nat
  BY Sizes DEF Injected
<1>9. Sends(x, v) => b < VcDepth
  BY <1>1, <1>7, <1>8 DEF One
<1>. QED
  BY <1>6, <1>9

---------------------------------------------------------------------------
(* What the interface receives *)

\* A credit it returns is one it owes.
LEMMA Owes ==
  ASSUME NEW nc, NicType(nc), NEW cr, cr = CreditOwed(nc)
  PROVE  /\ cr \in CreditMsg \cup {NoCredit}
         /\ \A v \in Vc : /\ TailBack(cr, v) => v \in nc.pend_tail
                          /\ Returned(cr, v) /\ ~cr.tail => Bodies(nc, v) # 0
<1>1. PICK T, B : T = LowestBit(nc.pend_tail) /\ B = LowestBit({v \in Vc : nc.pend_body[v] # 0})
  OBVIOUS
<1>2. T \subseteq nc.pend_tail /\ nc.pend_tail \subseteq Vc /\ \A v \in B : v \in Vc /\ Bodies(nc, v) # 0
  BY <1>1 DEF LowestBit, NicType, Bodies
<1>3. CASE T # {}
  <2>1. PICK w \in T : cr = [vc |-> w, tail |-> TRUE]
    BY <1>1, <1>3 DEF CreditOwed
  <2>2. cr.vc = w /\ cr.tail /\ cr \in CreditMsg
    BY <1>2, <2>1 DEF CreditMsg
  <2>. QED
    BY <1>2, <2>1, <2>2 DEF TailBack, Returned
<1>4. CASE T = {} /\ B # {}
  <2>1. PICK w \in B : cr = [vc |-> w, tail |-> FALSE]
    BY <1>1, <1>4 DEF CreditOwed
  <2>2. cr.vc = w /\ ~cr.tail /\ cr \in CreditMsg
    BY <1>2, <2>1 DEF CreditMsg
  <2>. QED
    BY <1>2, <2>1, <2>2 DEF TailBack, Returned
<1>5. CASE T = {} /\ B = {}
  <2>1. cr = NoCredit
    BY <1>1, <1>5 DEF CreditOwed
  <2>. QED
    BY <2>1 DEF TailBack, Returned
<1>. QED
  BY <1>3, <1>4, <1>5

\* Only a full slot is shown, and taken.
LEMMA Accepts ==
  ASSUME NEW nc, NEW rdy
  PROVE  EjAccept(nc, rdy) \subseteq {v \in Vc : Slot(nc, v).full}
BY DEF EjAccept, EjVc, LowestBit, Slot

\* The slot of channel v over a cycle in which f comes, acc says that its message is
\* taken and tl that the credit of the tail goes.
SlotMoves(nc, f, v, acc, tl, nc2) ==
    /\ Slot(nc2, v) = NextSlot(Slot(nc, v), f, v, acc)
    /\ acc => Slot(nc, v).full
    /\ tl => v \in nc.pend_tail
    /\ v \in nc2.pend_tail <=> (v \in nc.pend_tail /\ ~tl) \/ acc

\* A flit that comes finds the slot empty, or in the middle of its packet.
LEMMA SlotFinds ==
  ASSUME NEW nc, NEW v \in Vc, Slot(nc, v) \in SlotRec, NEW k, NEW n \in Nat, SlotOk(nc, v, k, n),
         NEW f \in Flit, Follows(f, k, n)
  PROVE  /\ ~Slot(nc, v).full /\ v \notin nc.pend_tail
         /\ IsHead(f) => ~Slot(nc, v).busy
         /\ ~IsHead(f) => Slot(nc, v).busy /\ Slot(nc, v).pkt = f.pkt /\ f.i = Slot(nc, v).got + 1
<1>1. f.i = n + 1 /\ f.i <= f.pkt.len /\ (n > 0 => f.pkt = k) /\ f.pkt.len \in Nat /\ f.i \in Nat
  BY PacketFacts DEF Follows, Flit
<1>2. n > 0 => n < k.len
  BY <1>1
<1>. QED
  BY <1>1, <1>2 DEF SlotOk, IsHead

\* The slot keeps what has come.
LEMMA SlotStep ==
  ASSUME NEW nc, NEW v \in Vc, Slot(nc, v) \in SlotRec, NEW k, NEW n \in Nat, SlotOk(nc, v, k, n),
         NEW f \in Flit \cup {NoFlit}, Sends(f, v) => Follows(f, k, n),
         NEW acc \in BOOLEAN, NEW tl \in BOOLEAN, NEW nc2, SlotMoves(nc, f, v, acc, tl, nc2),
         NEW k2, NEW n2, k2 = Comer(f, v, k), n2 = IF tl THEN 0 ELSE Come(f, v, n)
  PROVE  /\ Slot(nc2, v) \in SlotRec /\ SlotOk(nc2, v, k2, n2) /\ n2 \in Nat
         /\ One(Slot(nc2, v).full) = One(Slot(nc, v).full) + One(Sends(f, v) /\ IsTail(f)) - One(acc)
         /\ One(v \in nc2.pend_tail) = One(v \in nc.pend_tail) + One(acc) - One(tl)
<1>1. PICK c, c2 : c = Slot(nc, v) /\ c2 = Slot(nc2, v)
  OBVIOUS
<1>2. /\ c2 = NextSlot(c, f, v, acc) /\ (acc => c.full) /\ (tl => v \in nc.pend_tail)
      /\ (v \in nc2.pend_tail <=> (v \in nc.pend_tail /\ ~tl) \/ acc)
  BY <1>1 DEF SlotMoves
<1>3. /\ c \in SlotRec
      /\ c.busy => ~c.full /\ v \notin nc.pend_tail /\ n = c.got /\ n > 0 /\ n < k.len /\ k = c.pkt
      /\ c.full => v \notin nc.pend_tail /\ n > 0 /\ n = k.len /\ k = c.pkt
      /\ v \in nc.pend_tail => n > 0 /\ n = k.len
      /\ n > 0 => c.busy \/ c.full \/ v \in nc.pend_tail
  BY <1>1 DEF SlotOk
<1>4. CASE Sends(f, v)
  <2>1. f \in Flit /\ f.i = n + 1 /\ f.i <= f.pkt.len /\ (n > 0 => f.pkt = k) /\ f.pkt.len \in Nat /\ f.pkt \in Packets
    BY <1>4, PacketFacts, Wires DEF Follows, Flit
  <2>2. ~c.full /\ v \notin nc.pend_tail /\ ~acc /\ ~tl
    BY <1>2, <1>3, <2>1
  <2>3. k2 = f.pkt /\ n2 = n + 1
    BY <1>4, <2>2 DEF Comer, Come, One
  <2>4. c2.pkt = f.pkt /\ c2.got = n + 1 /\ (c2.busy <=> ~IsTail(f)) /\ (c2.full <=> IsTail(f)) /\ c2 \in SlotRec
    <3>0. PICK t \in BOOLEAN : t = IsTail(f)
      BY <2>1 DEF IsTail
    <3>1. PICK s1 : s1 = Written(c, f)
      OBVIOUS
    <3>2. s1 \in SlotRec /\ s1.pkt = f.pkt /\ s1.got = n + 1 /\ (s1.busy <=> ~IsTail(f)) /\ (s1.full <=> IsTail(f))
      <4>1. CASE n = 0
        <5>1. IsHead(f)
          BY <2>1, <4>1 DEF IsHead
        <5>2. s1 = [pkt |-> f.pkt, got |-> 1, busy |-> ~t, full |-> t]
          BY <3>0, <3>1, <5>1 DEF Written
        <5>3. s1.pkt = f.pkt /\ s1.got = 1 /\ (s1.busy <=> ~t) /\ (s1.full <=> t) /\ s1 \in SlotRec
          BY <2>1, <3>0, <5>2 DEF SlotRec
        <5>4. n + 1 = 1
          BY <4>1
        <5>. QED
          BY <3>0, <5>3, <5>4
      <4>2. CASE n > 0
        <5>1. ~IsHead(f) /\ c.busy /\ n = c.got /\ c.pkt = f.pkt
          BY <1>3, <2>1, <2>2, <4>2 DEF IsHead
        <5>2. PICK t1 \in BOOLEAN, t2 \in BOOLEAN : t1 = (c.busy /\ ~t) /\ t2 = (c.full \/ t)
          OBVIOUS
        <5>3. (t1 <=> ~t) /\ (t2 <=> t)
          BY <2>2, <5>1, <5>2
        <5>4. s1 = [c EXCEPT !.got = c.got + 1, !.busy = t1, !.full = t2]
          BY <3>0, <3>1, <5>1, <5>2 DEF Written
        <5>5. PICK g, sa, sb : g = c.got + 1 /\ sa = [c EXCEPT !.got = g] /\ sb = [sa EXCEPT !.busy = t1]
          OBVIOUS
        <5>6. g \in Nat /\ c.pkt \in Packets \cup {NoMsg} /\ c.busy \in BOOLEAN /\ c.full \in BOOLEAN
          BY <1>3, <5>5 DEF SlotRec
        <5>7. c = [pkt |-> c.pkt, got |-> c.got, busy |-> c.busy, full |-> c.full]
          BY <1>3 DEF SlotRec
        <5>8. sa = [pkt |-> c.pkt, got |-> g, busy |-> c.busy, full |-> c.full]
          BY <5>5, <5>7
        <5>9. sb = [pkt |-> c.pkt, got |-> g, busy |-> t1, full |-> c.full]
          BY <5>5, <5>8
        <5>10. s1 = [sb EXCEPT !.full = t2]
          BY <5>4, <5>5
        <5>11. s1 = [pkt |-> c.pkt, got |-> g, busy |-> t1, full |-> t2]
          BY <5>9, <5>10
        <5>12. s1 \in SlotRec
          BY <5>6, <5>11 DEF SlotRec
        <5>. QED
          BY <3>0, <5>1, <5>3, <5>5, <5>11, <5>12
      <4>. QED
        BY <4>1, <4>2
    <3>3. c2 = [s1 EXCEPT !.full = @ /\ ~acc]
      <4>1. PICK s2 : s2 = [s1 EXCEPT !.full = @ /\ ~acc]
        OBVIOUS
      <4>2. s2.busy \/ s2.full
        BY <2>2, <3>2, <4>1 DEF SlotRec
      <4>. QED
        BY <1>2, <1>4, <3>1, <4>1, <4>2 DEF NextSlot
    <3>. QED
      BY <2>2, <3>2, <3>3 DEF SlotRec
  <2>5. IsTail(f) <=> n + 1 = f.pkt.len
    BY <2>1 DEF IsTail
  <2>6. SlotOk(nc2, v, k2, n2)
    BY <1>1, <1>2, <2>1, <2>2, <2>3, <2>4, <2>5 DEF SlotOk
  <2>. QED
    BY <1>1, <1>2, <1>4, <2>2, <2>3, <2>4, <2>6 DEF One
<1>5. CASE ~Sends(f, v)
  <2>1. k2 = k /\ n2 = IF tl THEN 0 ELSE n
    BY <1>5 DEF Comer, Come, One
  <2>2. CASE acc
    <3>1. c.full /\ ~c.busy /\ v \notin nc.pend_tail /\ ~tl /\ v \in nc2.pend_tail
      BY <1>2, <1>3, <2>2
    <3>2. c2 = EmptySlot
      BY <1>2, <1>3, <1>5, <2>2, <3>1 DEF NextSlot, SlotRec
    <3>3. EmptySlot \in SlotRec /\ ~EmptySlot.busy /\ ~EmptySlot.full
      BY DEF EmptySlot, SlotRec
    <3>. QED
      BY <1>1, <1>3, <1>5, <2>1, <2>2, <3>1, <3>2, <3>3 DEF SlotOk, One
  <2>3. CASE ~acc
    <3>1. c2 = IF c.busy \/ c.full THEN c ELSE EmptySlot
      BY <1>2, <1>3, <1>5, <2>3 DEF NextSlot, SlotRec
    <3>2. EmptySlot \in SlotRec /\ ~EmptySlot.busy /\ ~EmptySlot.full
      BY DEF EmptySlot, SlotRec
    <3>3. /\ c2 \in SlotRec /\ (c2.busy <=> c.busy) /\ (c2.full <=> c.full)
          /\ c.busy \/ c.full => c2 = c
      BY <1>3, <3>1, <3>2 DEF SlotRec
    <3>4. v \in nc2.pend_tail <=> v \in nc.pend_tail /\ ~tl
      BY <1>2, <2>3
    <3>5. SlotOk(nc2, v, k2, n2)
      BY <1>1, <1>2, <1>3, <2>1, <3>3, <3>4 DEF SlotOk
    <3>. QED
      BY <1>1, <1>2, <1>5, <2>1, <2>3, <3>3, <3>4, <3>5 DEF One
  <2>. QED
    BY <2>2, <2>3
<1>. QED
  BY <1>4, <1>5

\* The credits of what comes, over a cycle: c2 are at the router, which sends f2.
LEMMA EjectedStep ==
  ASSUME NEW nc, NicType(nc), NEW v \in Vc, NEW f \in Flit \cup {NoFlit}, NEW c \in Int,
         Ejected(nc, v, f, c), NEW acc \in BOOLEAN, NEW tl \in BOOLEAN, NEW nc2,
         Bodies(nc2, v) = NextPendBody(nc, f, v), nc2.ret = CreditOwed(nc), tl = TailBack(nc2.ret, v),
         One(Slot(nc2, v).full) = One(Slot(nc, v).full) + One(Sends(f, v) /\ IsTail(f)) - One(acc),
         One(v \in nc2.pend_tail) = One(v \in nc.pend_tail) + One(acc) - One(tl),
         NEW f2, NEW c2 \in Int, c2 >= 0, c2 = c + One(Returned(nc.ret, v)) - One(Sends(f2, v))
  PROVE  Ejected(nc2, v, f2, c2) /\ Bodies(nc2, v) \in Int
<1>1. PICK b, b2, u, w, d, e :
        /\ b = Bodies(nc, v) /\ b2 = Bodies(nc2, v) /\ u = One(Sends(f, v) /\ ~IsTail(f))
        /\ w = One(Sends(f, v) /\ IsTail(f)) /\ d = One(tl) /\ e = One(Returned(nc2.ret, v) /\ ~nc2.ret.tail)
  OBVIOUS
<1>2. b \in Int /\ b2 = b + u - e
  BY <1>1 DEF NicType, Bodies, NextPendBody, One
<1>3. One(Sends(f, v)) = u + w /\ u \in 0 .. 1 /\ w \in 0 .. 1 /\ d \in 0 .. 1 /\ e \in 0 .. 1 /\ One(acc) \in 0 .. 1
  BY <1>1 DEF One
<1>4. One(Returned(nc2.ret, v)) = d + e
  <2>1. tl <=> Returned(nc2.ret, v) /\ nc2.ret.tail
    BY DEF TailBack
  <2>2. /\ d = IF tl THEN 1 ELSE 0
        /\ e = IF Returned(nc2.ret, v) /\ ~nc2.ret.tail THEN 1 ELSE 0
        /\ One(Returned(nc2.ret, v)) = IF Returned(nc2.ret, v) THEN 1 ELSE 0
    BY <1>1 DEF One
  <2>. HIDE DEF Returned
  <2>3. CASE Returned(nc2.ret, v) /\ nc2.ret.tail
    BY <2>1, <2>2, <2>3
  <2>4. CASE Returned(nc2.ret, v) /\ ~nc2.ret.tail
    BY <2>1, <2>2, <2>4
  <2>5. CASE ~Returned(nc2.ret, v)
    BY <2>1, <2>2, <2>5
  <2>. QED
    BY <2>3, <2>4, <2>5
<1>5. e = 1 => b # 0
  BY <1>1, Owes DEF One
<1>6. /\ c + One(Sends(f, v)) + b + One(Slot(nc, v).full) + One(v \in nc.pend_tail) + One(Returned(nc.ret, v)) = VcDepth
      /\ c >= 0 /\ b >= 0
  BY <1>1 DEF Ejected
<1>7. \A q : One(q) \in 0 .. 1
  BY DEF One
<1>8. b2 \in Int /\ b2 >= 0
  BY <1>2, <1>3, <1>5, <1>6
<1>9. PICK x1, x2, x3, x4 : /\ x1 = One(Slot(nc, v).full) /\ x2 = One(v \in nc.pend_tail)
                            /\ x3 = One(Returned(nc.ret, v)) /\ x4 = One(Sends(f2, v))
  OBVIOUS
<1>10. x1 \in Int /\ x2 \in Int /\ x3 \in Int /\ x4 \in Int
  BY <1>7, <1>9
<1>11. One(Slot(nc2, v).full) = x1 + w - One(acc) /\ One(v \in nc2.pend_tail) = x2 + One(acc) - d
  BY <1>1, <1>9
<1>12. c + (u + w) + b + x1 + x2 + x3 = VcDepth /\ c2 = c + x3 - x4
  BY <1>3, <1>6, <1>9
<1>13. c2 + x4 + b2 + (x1 + w - One(acc)) + (x2 + One(acc) - d) + (d + e) = VcDepth
  BY <1>2, <1>3, <1>10, <1>12, Sizes
<1>14. c2 + One(Sends(f2, v)) + b2 + One(Slot(nc2, v).full) + One(v \in nc2.pend_tail) + One(Returned(nc2.ret, v)) = VcDepth
  BY <1>4, <1>9, <1>11, <1>13
<1>. QED
  BY <1>1, <1>8, <1>14 DEF Ejected

\* What the router has on the wire to the interface follows what has come.
LEMMA OutFollows ==
  ASSUME NEW a, NEW f, NEW o, NEW v, NEW ka, NEW na, NEW k, NEW n, NEW tc, OutChannel(a, f, o, v, ka, na, k, n, tc)
  PROVE  Sends(f, v) => Follows(f, k, n)
BY DEF OutChannel, Line

\* The interface and the router move together.
TileEdge(a, fl, cr, ka, na, a2, ka2, na2, nc, offer, rdy, nc2) ==
    /\ Stepped(a, Me, fl, cr, ka, na, a2, ka2, na2)
    /\ fl[PORT_LOCAL] = InjFlit(nc, Me, offer) /\ cr[PORT_LOCAL] = nc.ret
    /\ OfferOk(offer) /\ NicType(nc) /\ \A n \in Vnet : Sending(nc, n)
    /\ NicEdge(nc, offer, Out(a, PORT_LOCAL), Ret(a, PORT_LOCAL), rdy, nc2)

\* The packet that comes on channel v, and how much of it has.
Counted(a, nc2, v, k, n, k2, n2) ==
    /\ k2 = Comer(Out(a, PORT_LOCAL), v, k)
    /\ n2 = IF TailBack(nc2.ret, v) THEN 0 ELSE Come(Out(a, PORT_LOCAL), v, n)

\* The slot that channel v is put together in moves,
LEMMA SlotDoes ==
  ASSUME NEW a, NEW fl, NEW cr, NEW ka, NEW na, NEW a2, NEW ka2, NEW na2, NEW nc, NEW offer, NEW rdy, NEW nc2,
         TileEdge(a, fl, cr, ka, na, a2, ka2, na2, nc, offer, rdy, nc2), NEW v \in Vc
  PROVE  SlotMoves(nc, Out(a, PORT_LOCAL), v, v \in EjAccept(nc, rdy), TailBack(nc2.ret, v), nc2)
<1>1. PICK f, acc, x : f = Out(a, PORT_LOCAL) /\ acc = EjAccept(nc, rdy) /\ x = InjFlit(nc, Me, offer)
  OBVIOUS
<1>2. NicType(nc) /\ NicEdge(nc, offer, f, Ret(a, PORT_LOCAL), rdy, nc2)
  BY <1>1 DEF TileEdge
<1>3. /\ Slot(nc2, v) = NextSlot(Slot(nc, v), f, v, v \in acc)
      /\ nc2.pend_tail = NextPendTail(nc, f, acc) /\ nc2.ret = CreditOwed(nc)
  BY <1>1, <1>2, NicFields
<1>4. TailBack(nc2.ret, v) => v \in nc.pend_tail
  BY <1>2, <1>3, Owes
<1>5. v \in acc => Slot(nc, v).full
  BY <1>1, Accepts
<1>6. v \in nc2.pend_tail <=> (v \in nc.pend_tail /\ ~TailBack(nc2.ret, v)) \/ v \in acc
  BY <1>3 DEF NextPendTail, TailBack, Returned
<1>. QED
  BY <1>1, <1>3, <1>4, <1>5, <1>6 DEF SlotMoves

\* and so does all that is known of the channel.
LEMMA NicStep ==
  ASSUME NEW a, NEW fl, NEW cr, NEW ka, NEW na, NEW a2, NEW ka2, NEW na2, NEW nc, NEW offer, NEW rdy, NEW nc2,
         TileEdge(a, fl, cr, ka, na, a2, ka2, na2, nc, offer, rdy, nc2), NEW v \in Vc,
         NEW k, NEW n, NicOk(nc, a, ka, na, v, k, n), NEW k2, NEW n2, Counted(a, nc2, v, k, n, k2, n2)
  PROVE  NicOk(nc2, a2, ka2, na2, v, k2, n2) /\ Slot(nc2, v) \in SlotRec /\ Bodies(nc2, v) \in Int
<1>1. PICK o, f, x, acc, tc, tl :
        /\ o = PORT_LOCAL /\ f = Out(a, o) /\ x = InjFlit(nc, Me, offer) /\ acc = (v \in EjAccept(nc, rdy))
        /\ tc = TailBack(nc.ret, v) /\ tl = TailBack(nc2.ret, v)
  OBVIOUS
<1>2. /\ Stepped(a, Me, fl, cr, ka, na, a2, ka2, na2) /\ fl[o] = x /\ cr[o] = nc.ret
      /\ OfferOk(offer) /\ NicType(nc) /\ \A m \in Vnet : Sending(nc, m)
      /\ NicEdge(nc, offer, f, Ret(a, o), rdy, nc2)
  BY <1>1 DEF TileEdge
<1>3. /\ Injected(nc, v, At(ka, o, v), At(na, o, v), Ret(a, o), Len(Ivc(a, o, v).buf))
      /\ OutChannel(a, f, o, v, ka, na, k, n, tc)
      /\ n \in Nat /\ SlotOk(nc, v, k, n) /\ Ejected(nc, v, f, Cred(a, o, v))
  BY <1>1 DEF NicOk
<1>4. k2 = Comer(f, v, k) /\ n2 = IF tl THEN 0 ELSE Come(f, v, n)
  BY <1>1 DEF Counted
<1>5. o \in Port /\ RouterType(a) /\ f \in Flit \cup {NoFlit} /\ Slot(nc, v) \in SlotRec
  BY <1>1, <1>2, Indices, RouterFields DEF Stepped, NicType, Slot
<1>6. SlotMoves(nc, f, v, acc, tl, nc2) /\ acc \in BOOLEAN /\ tl \in BOOLEAN /\ tc \in BOOLEAN
  BY <1>1, SlotDoes DEF TailBack
<1>7. Sends(f, v) => Follows(f, k, n)
  BY <1>3, OutFollows
<1>8. /\ Slot(nc2, v) \in SlotRec /\ SlotOk(nc2, v, k2, n2) /\ n2 \in Nat
      /\ One(Slot(nc2, v).full) = One(Slot(nc, v).full) + One(Sends(f, v) /\ IsTail(f)) - One(acc)
      /\ One(v \in nc2.pend_tail) = One(v \in nc.pend_tail) + One(acc) - One(tl)
  BY <1>3, <1>4, <1>5, <1>6, <1>7, SlotStep
<1>9. /\ NBusy(nc2, v) = NicBusy(NBusy(nc, v), x, v, Ret(a, o))
      /\ NCred(nc2, v) = NextCredits(NCred(nc, v), x, v, Ret(a, o))
      /\ Bodies(nc2, v) = NextPendBody(nc, f, v) /\ nc2.ret = CreditOwed(nc)
      /\ \A m \in Vnet : Pk(nc2, m) = NextPk(nc, m, x)
  BY <1>1, <1>2, NicFields
<1>10. /\ Cred(a2, o, v) = Cred(a, o, v) + One(Returned(cr[o], v)) - One(Sends(Out(a2, o), v))
       /\ Cred(a, o, v) \in Int /\ Cred(a2, o, v) \in Int /\ Cred(a2, o, v) >= 0
       /\ Busy(a2, o, v) = (VaAsks(a, o, v) # {} \/ (Busy(a, o, v) /\ ~TailBack(cr[o], v)))
  BY <1>2, <1>3, <1>5, CreditStep DEF Ejected
<1>11. OutChannel(a2, Out(a2, o), o, v, ka2, na2, k2, n2, tl)
  <2>1. tl => n > 0 /\ n = k.len
    BY <1>3, <1>6 DEF SlotMoves, SlotOk
  <2>2. Busy(a2, o, v) = (VaAsks(a, o, v) # {} \/ (Busy(a, o, v) /\ ~tc))
    BY <1>1, <1>2, <1>10
  <2>. QED
    BY <1>2, <1>3, <1>4, <1>5, <1>6, <1>8, <2>1, <2>2, ChannelStep
<1>12. Ejected(nc2, v, Out(a2, o), Cred(a2, o, v)) /\ Bodies(nc2, v) \in Int
  <2>1. PICK c, c2, f2 : c = Cred(a, o, v) /\ c2 = Cred(a2, o, v) /\ f2 = Out(a2, o)
    OBVIOUS
  <2>2. c \in Int /\ c2 \in Int /\ c2 >= 0 /\ c2 = c + One(Returned(nc.ret, v)) - One(Sends(f2, v)) /\ Ejected(nc, v, f, c)
    BY <1>2, <1>3, <1>10, <2>1
  <2>3. tl = TailBack(nc2.ret, v)
    BY <1>1
  <2>4. Ejected(nc2, v, f2, c2) /\ Bodies(nc2, v) \in Int
    BY <1>2, <1>5, <1>6, <1>8, <1>9, <2>2, <2>3, EjectedStep
  <2>. QED
    BY <2>1, <2>4
<1>13. Injected(nc2, v, At(ka2, o, v), At(na2, o, v), Ret(a2, o), Len(Ivc(a2, o, v).buf))
  <2>1. PICK ki, ni, b, cr2, ki2, ni2, b2 :
          /\ ki = At(ka, o, v) /\ ni = At(na, o, v) /\ b = Len(Ivc(a, o, v).buf) /\ cr2 = Ret(a2, o)
          /\ ki2 = At(ka2, o, v) /\ ni2 = At(na2, o, v) /\ b2 = Len(Ivc(a2, o, v).buf)
    OBVIOUS
  <2>2. Taken(x, v, ki, ni, b, cr2, ki2, ni2, b2) /\ ni \in Nat
    BY <1>2, <1>5, <2>1, InputStep DEF Taken
  <2>3. SentMine(nc, x, nc2, v)
    BY <1>1, <1>2, <1>9, PkStep
  <2>4. PICK cr1 : cr1 = Ret(a, o)
    OBVIOUS
  <2>5. /\ NBusy(nc2, v) = NicBusy(NBusy(nc, v), x, v, cr1) /\ NCred(nc2, v) = NextCredits(NCred(nc, v), x, v, cr1)
        /\ Injected(nc, v, ki, ni, cr1, b)
    BY <1>3, <1>9, <2>1, <2>4
  <2>6. Injected(nc2, v, ki2, ni2, cr2, b2)
    BY <1>2, <2>2, <2>3, <2>5, InjectedStep
  <2>. QED
    BY <2>1, <2>6
<1>. QED
  BY <1>1, <1>8, <1>11, <1>12, <1>13 DEF NicOk

\* The registers of the interface keep their types.
LEMMA NicTypeStep ==
  ASSUME NEW nc, NicType(nc), \A n \in Vnet : Sending(nc, n), NEW offer, OfferOk(offer),
         NEW f, NEW cr, NEW rdy, NEW nc2, NicEdge(nc, offer, f, cr, rdy, nc2),
         \A v \in Vc : Slot(nc2, v) \in SlotRec /\ Bodies(nc2, v) \in Int
  PROVE  NicType(nc2) /\ \A n \in Vnet : Sending(nc2, n)
<1>1. PICK x, acc : x = InjFlit(nc, Me, offer) /\ acc = EjAccept(nc, rdy)
  OBVIOUS
<1>2. /\ \A n \in Vnet : Pk(nc2, n) = NextPk(nc, n, x)
      /\ \A v \in Vc : /\ NBusy(nc2, v) = NicBusy(NBusy(nc, v), x, v, cr)
                       /\ NCred(nc2, v) = NextCredits(NCred(nc, v), x, v, cr)
      /\ nc2.pend_tail = NextPendTail(nc, f, acc) /\ nc2.ret = CreditOwed(nc)
  BY <1>1, NicFields
<1>3. \A n \in Vnet : Pk(nc2, n) \in InFlight \cup {Idle} /\ Sending(nc2, n)
  BY <1>1, <1>2, PkStep
<1>4. /\ nc2.pk = [n \in Vnet |-> Pk(nc2, n)] /\ nc2.busy = [v \in Vc |-> NBusy(nc2, v)]
      /\ nc2.credits = [v \in Vc |-> NCred(nc2, v)]
  <2>1. nc2.pk = [n \in Vnet |-> nc2.pk[n]]
    BY DEF NicEdge, NicClock
  <2>2. nc2.busy = [v \in Vc |-> nc2.busy[v]]
    BY DEF NicEdge, NicClock
  <2>3. nc2.credits = [v \in Vc |-> nc2.credits[v]]
    BY DEF NicEdge, NicClock
  <2>. QED
    BY <2>1, <2>2, <2>3 DEF Pk, NBusy, NCred
<1>5. nc2.rx = [v \in Vc |-> Slot(nc2, v)] /\ nc2.pend_body = [v \in Vc |-> Bodies(nc2, v)]
  <2>1. nc2.rx = [v \in Vc |-> nc2.rx[v]]
    BY DEF NicEdge, NicClock
  <2>2. nc2.pend_body = [v \in Vc |-> nc2.pend_body[v]]
    BY DEF NicEdge, NicClock
  <2>. QED
    BY <2>1, <2>2 DEF Slot, Bodies
<1>6. nc2.busy \in [Vc -> BOOLEAN]
  <2>1. \A v \in Vc : NBusy(nc2, v) \in BOOLEAN
    BY <1>2 DEF NicBusy
  <2>. QED
    BY <1>4, <2>1
<1>7. nc2.credits \in [Vc -> Int]
  <2>1. \A v \in Vc : NCred(nc, v) \in Int
    BY DEF NicType, NCred
  <2>2. \A v \in Vc : NCred(nc2, v) \in Int
    BY <1>2, <2>1 DEF NextCredits
  <2>. QED
    BY <1>4, <2>2
<1>8. nc2.pend_tail \in SUBSET Vc /\ nc2.ret \in CreditMsg \cup {NoCredit}
  <2>1. acc \subseteq Vc
    BY <1>1 DEF EjAccept
  <2>. QED
    BY <1>2, <2>1, Owes DEF NextPendTail, NicType
<1>9. nc2.vn2 \in {L1, DIR}
  <2>1. nc2.vn2 = NextPtr(2, Offers(offer, 2), nc.vn2, 2 \in Started(nc, Me, offer))
    BY DEF NicEdge, NicClock
  <2>2. PICK O, q, b : O = Offers(offer, 2) /\ q = nc.vn2 /\ b = (2 \in Started(nc, Me, offer))
    OBVIOUS
  <2>3. O \in SUBSET (0 .. 2 - 1) /\ O \in SUBSET Nat /\ q \in 0 .. 2 - 1 /\ b \in BOOLEAN /\ 2 \in Nat \ {0}
    BY <2>2 DEF Offers, NicType, L1, DIR
  <2>4. b /\ O # {} => Gnt(O, q) # {}
    BY <2>3, GntSome
  <2>5. NextPtr(2, O, q, b) \in 0 .. 2 - 1
    BY <2>3, <2>4, NextPtrType
  <2>. QED
    BY <2>1, <2>2, <2>5 DEF L1, DIR
<1>10. nc2.inj \in Vnet
  <2>1. nc2.inj = NextPtr(NumVnets, InjReq(nc, Me, offer), nc.inj, TRUE)
    BY DEF NicEdge, NicClock
  <2>2. PICK O, q : O = InjReq(nc, Me, offer) /\ q = nc.inj
    OBVIOUS
  <2>3. O \in SUBSET (0 .. NumVnets - 1) /\ O \in SUBSET Nat /\ q \in 0 .. NumVnets - 1 /\ NumVnets \in Nat \ {0}
    BY <2>2, RouterShape DEF InjReq, NicType, Vnet
  <2>4. O # {} => Gnt(O, q) # {}
    BY <2>3, GntSome
  <2>5. NextPtr(NumVnets, O, q, TRUE) \in 0 .. NumVnets - 1
    BY <2>3, <2>4, NextPtrType
  <2>. QED
    BY <2>1, <2>2, <2>5 DEF Vnet
<1>11. nc2.pk \in [Vnet -> InFlight \cup {Idle}]
  BY <1>3, <1>4
<1>12. nc2.rx \in [Vc -> SlotRec] /\ nc2.pend_body \in [Vc -> Int]
  BY <1>5
<1>. QED
  BY <1>3, <1>6, <1>7, <1>8, <1>9, <1>10, <1>11, <1>12 DEF NicType

---------------------------------------------------------------------------
(* The tile *)

TileInv(K, N, KS, NS) ==
    /\ RouterType(rtr)
    /\ \A p \in Port, v \in Vc : At(N, p, v) \in Nat /\ VcOpen(Ivc(rtr, p, v), Me, v, At(K, p, v), At(N, p, v))
    /\ HostOk(host) /\ east_flit \in Flit \cup {NoFlit}
    /\ \A v \in Vc : Fed(host, east_flit, rtr, K, N, PORT_EAST, v)
    /\ NicType(nic) /\ \A n \in Vnet : Sending(nic, n)
    /\ \A v \in Vc : NicOk(nic, rtr, K, N, v, KS[v], NS[v])
    /\ load \in Workloads /\ Sink \ MayRefuse \subseteq ready
    /\ queue \in [Source -> Seq(Packets)]

\* What the neighbours drive into the router.
FlitsIn == Wired(PORT_EAST, <<InjFlit(nic, Me, Offered), east_flit>>, NoFlit)
CreditsBack == Wired(PORT_EAST, <<nic.ret, east_credit>>, NoCredit)

\* Only the local and the east wires carry anything into the router.
LEMMA WiresIn ==
  /\ PORT_EAST \in Port /\ PORT_LOCAL \in Port /\ PORT_EAST # PORT_LOCAL
  /\ FlitsIn[PORT_LOCAL] = InjFlit(nic, Me, Offered) /\ FlitsIn[PORT_EAST] = east_flit
  /\ \A p \in Port \ {PORT_LOCAL, PORT_EAST} : FlitsIn[p] = NoFlit
  /\ CreditsBack[PORT_LOCAL] = nic.ret
<1>1. PORT_EAST \in Port /\ PORT_LOCAL \in Port /\ PORT_EAST # PORT_LOCAL
  BY DEF PORT_EAST, PORT_LOCAL, Port, NumPorts
<1>. QED
  BY <1>1 DEF FlitsIn, CreditsBack, Wired

\* A clock edge moves the interface, the router and the host.
LEMMA TickDoes ==
  ASSUME tick
  PROVE  /\ Edge(rtr, Me, FlitsIn, CreditsBack, rtr')
         /\ Cycled(host, Out(rtr', PORT_EAST), Ret(rtr', PORT_EAST), east_flit', east_credit', host')
         /\ NicEdge(nic, Offered, Out(rtr, PORT_LOCAL), Ret(rtr, PORT_LOCAL), ready, nic')
         /\ queue' = [s \in Source |-> IF s \in SrcTaken(nic, Me, Offered) THEN Tail(queue[s]) ELSE queue[s]]
         /\ load' = load /\ ready' = ready
<1>1. PICK x, g, r, seen, h :
        /\ x = InjFlit(nic, Me, Offered) /\ g = Grants(rtr)
        /\ r = Clock(rtr, g, Me, Wired(PORT_EAST, <<x, east_flit>>, NoFlit),
                     Wired(PORT_EAST, <<nic.ret, east_credit>>, NoCredit))
        /\ seen = Sampled(host, r.out[PORT_EAST], r.ret[PORT_EAST]) /\ h = StartPacket(seen)
        /\ nic' = NicClock(nic, Me, Offered, rtr.out[PORT_LOCAL], rtr.ret[PORT_LOCAL], ready)
        /\ rtr' = r /\ host' = Driven(h) /\ east_flit' = FlitDriven(h) /\ east_credit' = CreditDriven(h)
        /\ queue' = [s \in Source |-> IF s \in SrcTaken(nic, Me, Offered) THEN Tail(queue[s]) ELSE queue[s]]
        /\ load' = load /\ ready' = ready
  BY DEF tick
<1>2. Edge(rtr, Me, FlitsIn, CreditsBack, rtr')
  BY <1>1 DEF Edge, FlitsIn, CreditsBack
<1>3. Cycled(host, Out(rtr', PORT_EAST), Ret(rtr', PORT_EAST), east_flit', east_credit', host')
  BY <1>1 DEF Cycled, Out, Ret
<1>4. NicEdge(nic, Offered, Out(rtr, PORT_LOCAL), Ret(rtr, PORT_LOCAL), ready, nic')
  BY <1>1 DEF NicEdge, Out, Ret
<1>. QED
  BY <1>1, <1>2, <1>3, <1>4

\* What the controllers hold out is what their queues have first.
LEMMA OfferedOk ==
  ASSUME queue \in [Source -> Seq(Packets)]
  PROVE  OfferOk(Offered)
<1>1. ASSUME NEW s \in Source PROVE Offered[s] = NoMsg \/ Offered[s] \in Packets
  <2>1. queue[s] \in Seq(Packets) /\ Offered[s] = IF queue[s] = <<>> THEN NoMsg ELSE queue[s][1]
    BY DEF Offered
  <2>2. queue[s] # <<>> => queue[s][1] \in Packets
    BY <2>1
  <2>. QED
    BY <2>1, <2>2
<1>. QED
  BY <1>1 DEF OfferOk

\* What the router is fed follows what has come.
LEMMA TileFed ==
  ASSUME NEW K, NEW N, NEW KS, NEW NS, TileInv(K, N, KS, NS)
  PROVE  Feed(rtr, Me, FlitsIn, K, N)
<1>. SUFFICES ASSUME NEW p \in Port, NEW v \in Vc
              PROVE  /\ FlitsIn[p] \in Flit \cup {NoFlit}
                     /\ Sends(FlitsIn[p], v) => /\ Follows(FlitsIn[p], At(K, p, v), At(N, p, v))
                                                /\ Len(Ivc(rtr, p, v).buf) < VcDepth
  BY DEF Feed, TileInv
<1>1. PICK k, n, b : k = At(K, p, v) /\ n = At(N, p, v) /\ b = Len(Ivc(rtr, p, v).buf)
  OBVIOUS
<1>2. n \in Nat /\ b \in Nat
  BY <1>1, RouterFields DEF TileInv, VcRegs
<1>3. CASE p = PORT_LOCAL
  <2>1. PICK x : x = InjFlit(nic, Me, Offered)
    OBVIOUS
  <2>2. FlitsIn[p] = x
    BY <1>3, <2>1, WiresIn
  <2>3. NicType(nic) /\ (\A m \in Vnet : Sending(nic, m)) /\ OfferOk(Offered)
    BY OfferedOk DEF TileInv
  <2>4. PICK nc2 : nc2 = [pk |-> [m \in Vnet |-> NextPk(nic, m, x)]]
    OBVIOUS
  <2>5. \A m \in Vnet : Pk(nc2, m) = NextPk(nic, m, x)
    BY <2>4 DEF Pk
  <2>6. x \in Flit \cup {NoFlit} /\ SentMine(nic, x, nc2, v)
    BY <2>1, <2>3, <2>5, PkStep
  <2>7. PICK cr : cr = Ret(rtr, PORT_LOCAL)
    OBVIOUS
  <2>8. Injected(nic, v, k, n, cr, b)
    BY <1>1, <1>3, <2>7 DEF TileInv, NicOk
  <2>9. Sends(x, v) => Follows(x, k, n) /\ b < VcDepth
    BY <1>2, <2>3, <2>6, <2>8, InjectedFeeds
  <2>. QED
    BY <1>1, <2>2, <2>6, <2>9
<1>4. CASE p = PORT_EAST
  <2>1. FlitsIn[p] = east_flit /\ east_flit \in Flit \cup {NoFlit} /\ HostOk(host)
    BY <1>4, WiresIn DEF TileInv
  <2>2. Fed(host, east_flit, rtr, K, N, p, v) /\ Len(Ivc(rtr, p, v).buf) \in Nat
    BY <1>1, <1>2, <1>4 DEF TileInv
  <2>3. Sends(east_flit, v) => Follows(east_flit, At(K, p, v), At(N, p, v)) /\ Len(Ivc(rtr, p, v).buf) < VcDepth
    BY <2>1, <2>2, FedFeeds
  <2>. QED
    BY <2>1, <2>3
<1>5. CASE p \notin {PORT_LOCAL, PORT_EAST}
  BY <1>5, WiresIn, Wires
<1>. QED
  BY <1>3, <1>4, <1>5

\* What has come by the next edge.
TileLater(K, N, KS, NS, K2, N2, KS2, NS2) ==
    /\ \A p \in Port, v \in Vc :
         /\ At(K2, p, v) = Comer(FlitsIn[p], v, At(K, p, v))
         /\ At(N2, p, v) = NextCome(rtr, p, v, FlitsIn[p], At(N, p, v))
    /\ \A v \in Vc : Counted(rtr, nic', v, KS[v], NS[v], KS2[v], NS2[v])

\* It can be named.
LEMMA TileLaterExists ==
  ASSUME NEW K, NEW N, NEW KS, NEW NS
  PROVE  \E K2, N2, KS2, NS2 : TileLater(K, N, KS, NS, K2, N2, KS2, NS2)
<1>1. PICK K2 : K2 = [p \in Port |-> [v \in Vc |-> Comer(FlitsIn[p], v, At(K, p, v))]]
  OBVIOUS
<1>2. PICK N2 : N2 = [p \in Port |-> [v \in Vc |-> NextCome(rtr, p, v, FlitsIn[p], At(N, p, v))]]
  OBVIOUS
<1>3. PICK KS2 : KS2 = [v \in Vc |-> Comer(Out(rtr, PORT_LOCAL), v, KS[v])]
  OBVIOUS
<1>4. PICK NS2 : NS2 = [v \in Vc |-> IF TailBack(nic'.ret, v) THEN 0 ELSE Come(Out(rtr, PORT_LOCAL), v, NS[v])]
  OBVIOUS
<1>5. ASSUME NEW p \in Port, NEW v \in Vc
      PROVE  /\ At(K2, p, v) = Comer(FlitsIn[p], v, At(K, p, v))
             /\ At(N2, p, v) = NextCome(rtr, p, v, FlitsIn[p], At(N, p, v))
  <2>1. \A m : At(m, p, v) = m[p][v]
    BY DEF At
  <2>2. K2[p][v] = Comer(FlitsIn[p], v, At(K, p, v)) /\ N2[p][v] = NextCome(rtr, p, v, FlitsIn[p], At(N, p, v))
    BY <1>1, <1>2
  <2>. QED
    BY <2>1, <2>2
<1>6. ASSUME NEW v \in Vc PROVE Counted(rtr, nic', v, KS[v], NS[v], KS2[v], NS2[v])
  <2>1. KS2[v] = Comer(Out(rtr, PORT_LOCAL), v, KS[v])
    BY <1>3
  <2>2. NS2[v] = IF TailBack(nic'.ret, v) THEN 0 ELSE Come(Out(rtr, PORT_LOCAL), v, NS[v])
    BY <1>4
  <2>. QED
    BY <2>1, <2>2 DEF Counted
<1>. QED
  BY <1>5, <1>6 DEF TileLater

\* A clock edge keeps the invariant.
LEMMA TileTick ==
  ASSUME NEW K, NEW N, NEW KS, NEW NS, TileInv(K, N, KS, NS), tick,
         NEW K2, NEW N2, NEW KS2, NEW NS2, TileLater(K, N, KS, NS, K2, N2, KS2, NS2)
  PROVE  TileInv(K2, N2, KS2, NS2)'
<1>1. PICK a, a2, nc, nc2, h, h2, ef, ef2, ec2, fl, cr :
        /\ a = rtr /\ a2 = rtr' /\ nc = nic /\ nc2 = nic' /\ h = host /\ h2 = host'
        /\ ef = east_flit /\ ef2 = east_flit' /\ ec2 = east_credit' /\ fl = FlitsIn /\ cr = CreditsBack
  OBVIOUS
<1>2. /\ Edge(a, Me, fl, cr, a2)
      /\ Cycled(h, Out(a2, PORT_EAST), Ret(a2, PORT_EAST), ef2, ec2, h2)
      /\ NicEdge(nc, Offered, Out(a, PORT_LOCAL), Ret(a, PORT_LOCAL), ready, nc2)
      /\ queue' = [s \in Source |-> IF s \in SrcTaken(nic, Me, Offered) THEN Tail(queue[s]) ELSE queue[s]]
      /\ load' = load /\ ready' = ready
  BY <1>1, TickDoes
<1>3. Stepped(a, Me, fl, cr, K, N, a2, K2, N2)
  BY <1>1, <1>2, TileFed DEF Stepped, TileLater, TileInv
<1>4. RouterType(a2) /\ PORT_EAST \in Port /\ fl[PORT_EAST] = ef
  BY <1>1, <1>3, RouterStep, WiresIn
<1>5. \A p \in Port, v \in Vc : At(N2, p, v) \in Nat /\ VcOpen(Ivc(a2, p, v), Me, v, At(K2, p, v), At(N2, p, v))
  BY <1>3, SteppedVc, InputStep
<1>6. HostOk(h2) /\ ef2 \in Flit \cup {NoFlit} /\ \A v \in Vc : Fed(h2, ef2, a2, K2, N2, PORT_EAST, v)
  <2>1. PICK y, r : y = Out(a2, PORT_EAST) /\ r = Ret(a2, PORT_EAST)
    OBVIOUS
  <2>2. y \in Flit \cup {NoFlit} /\ r \in CreditMsg \cup {NoCredit} /\ Cycled(h, y, r, ef2, ec2, h2) /\ HostOk(h)
    BY <1>1, <1>2, <1>4, <2>1, RouterFields DEF TileInv
  <2>3. HostOk(h2) /\ ef2 \in Flit \cup {NoFlit}
    BY <2>2, HostStep
  <2>4. ASSUME NEW v \in Vc PROVE Fed(h2, ef2, a2, K2, N2, PORT_EAST, v)
    <3>1. Fed(h, ef, a, K, N, PORT_EAST, v)
      BY <1>1 DEF TileInv
    <3>2. Cycled(h, y, Ret(a2, PORT_EAST), ef2, ec2, h2)
      BY <2>1, <2>2
    <3>. QED
      BY <1>3, <1>4, <2>2, <3>1, <3>2, FedStep
  <2>. QED
    BY <2>3, <2>4
<1>7. TileEdge(a, fl, cr, K, N, a2, K2, N2, nc, Offered, ready, nc2)
  <2>1. fl[PORT_LOCAL] = InjFlit(nc, Me, Offered) /\ cr[PORT_LOCAL] = nc.ret
    BY <1>1, WiresIn
  <2>2. NicType(nc) /\ (\A m \in Vnet : Sending(nc, m)) /\ OfferOk(Offered)
    BY <1>1, OfferedOk DEF TileInv
  <2>. QED
    BY <1>2, <1>3, <2>1, <2>2 DEF TileEdge
<1>8. ASSUME NEW v \in Vc
      PROVE  /\ NicOk(nc2, a2, K2, N2, v, KS2[v], NS2[v])
             /\ Slot(nc2, v) \in SlotRec /\ Bodies(nc2, v) \in Int
  <2>1. NicOk(nc, a, K, N, v, KS[v], NS[v]) /\ Counted(a, nc2, v, KS[v], NS[v], KS2[v], NS2[v])
    BY <1>1 DEF TileInv, TileLater
  <2>. QED
    BY <1>7, <2>1, NicStep
<1>9. NicType(nc2) /\ \A m \in Vnet : Sending(nc2, m)
  BY <1>7, <1>8, NicTypeStep DEF TileEdge
<1>10. queue' \in [Source -> Seq(Packets)]
  <2>1. \A s \in Source : s \in SrcTaken(nic, Me, Offered) => queue[s] # <<>>
    <3>1. SentNow(nc, Offered, InjFlit(nc, Me, Offered))
      BY <1>7, Injects DEF TileEdge
    <3>2. NoMsg \notin Packets
      BY PacketFacts DEF NoMsg
    <3>3. \A s \in Source : s \in SrcTaken(nc, Me, Offered) => Offered[s] \in Packets
      BY <3>1 DEF SentNow, Goes, Begins
    <3>. QED
      BY <1>1, <3>2, <3>3 DEF Offered
  <2>2. queue \in [Source -> Seq(Packets)]
    BY DEF TileInv
  <2>3. \A s \in Source : s \in SrcTaken(nic, Me, Offered) => Tail(queue[s]) \in Seq(Packets)
    BY <2>1, <2>2
  <2>. QED
    BY <1>2, <2>2, <2>3
<1>11. load' \in Workloads /\ Sink \ MayRefuse' \subseteq ready'
  BY <1>2 DEF TileInv, MayRefuse
<1>. QED
  BY <1>1, <1>4, <1>5, <1>6, <1>8, <1>9, <1>10, <1>11 DEF TileInv

\* The invariant holds after reset.
LEMMA TileReset ==
  ASSUME Init, NEW K, NEW N, NEW KS, NEW NS,
         \A p \in Port, v \in Vc : At(K, p, v) = NoPacket /\ At(N, p, v) = 0,
         \A v \in Vc : NS[v] = 0
  PROVE  TileInv(K, N, KS, NS)
<1>1. /\ rtr = ResetRouter /\ nic = ResetNic /\ host = NewHost /\ east_flit = NoFlit
      /\ load \in Workloads /\ ready = Sink /\ queue = [s \in Source |-> <<>>]
  BY DEF Init
<1>2. RouterType(ResetRouter) /\ HostOk(NewHost)
  BY ResetType, NewHostOk
<1>3. /\ PORT_LOCAL \in Port /\ PORT_EAST \in Port
      /\ \A p \in Port : Out(ResetRouter, p) = NoFlit /\ Ret(ResetRouter, p) = NoCredit
      /\ \A p \in Port, v \in Vc : /\ Ivc(ResetRouter, p, v) = IdleVc /\ Cred(ResetRouter, p, v) = VcDepth
                                   /\ Len(Ivc(ResetRouter, p, v).buf) = 0
  BY WiresIn, ResetFields DEF IdleVc
<1>4. /\ \A n \in Vnet : Pk(ResetNic, n) = Idle
      /\ \A v \in Vc : /\ ~NBusy(ResetNic, v) /\ NCred(ResetNic, v) = VcDepth /\ Slot(ResetNic, v) = EmptySlot
                       /\ Bodies(ResetNic, v) = 0
      /\ ResetNic.pend_tail = {} /\ ResetNic.ret = NoCredit
  BY DEF ResetNic, Pk, NBusy, NCred, Slot, Bodies
<1>5. EmptySlot \in SlotRec /\ ~EmptySlot.busy /\ ~EmptySlot.full
  BY DEF EmptySlot, SlotRec
<1>6. NicType(ResetNic)
  <2>1. VcDepth \in Int /\ 0 \in Vnet /\ 0 \in {L1, DIR} /\ 0 \in Int
    BY Sizes, RouterShape DEF Vnet, L1
  <2>. QED
    BY <1>5, <2>1 DEF ResetNic, NicType
<1>7. \A n \in Vnet : Sending(ResetNic, n)
  BY <1>4 DEF Sending
<1>8. ASSUME NEW p \in Port, NEW v \in Vc
      PROVE  VcOpen(Ivc(ResetRouter, p, v), Me, v, At(K, p, v), At(N, p, v))
  <2>1. Ivc(ResetRouter, p, v).st = "IDLE" /\ Len(Ivc(ResetRouter, p, v).buf) = 0
    BY <1>3 DEF IdleVc
  <2>. QED
    BY <2>1, OpenForNone
<1>9. \A v \in Vc : Fed(NewHost, NoFlit, ResetRouter, K, N, PORT_EAST, v)
  BY <1>3, PortReset
<1>10. ASSUME NEW v \in Vc PROVE NicOk(ResetNic, ResetRouter, K, N, v, KS[v], NS[v])
  <2>1. \A q : ~Returned(NoCredit, q) /\ ~TailBack(NoCredit, q) /\ ~Sends(NoFlit, q)
    BY Wires DEF TailBack
  <2>2. MyPacket(ResetNic, v) = NoPacket /\ MyGone(ResetNic, v) = -1
    BY <1>4, Lanes DEF MyPacket, MyGone, Mine
  <2>3. Line(NoFlit, v, NoPacket, 0, NoPacket, -1, NBusy(ResetNic, v), TailBack(NoCredit, v))
    BY <1>4, <2>1, LineReset
  <2>4. Injected(ResetNic, v, NoPacket, 0, NoCredit, 0)
    BY <1>4, <2>1, <2>2, <2>3, Sizes DEF Injected, One
  <2>5. PICK k, tc : k = KS[v] /\ tc = TailBack(NoCredit, v)
    OBVIOUS
  <2>6. OutChannel(ResetRouter, NoFlit, PORT_LOCAL, v, K, N, k, 0, tc)
    BY <1>3, <2>1, <2>5, OutReset
  <2>7. SlotOk(ResetNic, v, KS[v], 0)
    BY <1>4, <1>5 DEF SlotOk
  <2>8. Ejected(ResetNic, v, NoFlit, VcDepth)
    BY <1>4, <1>5, <2>1, Sizes DEF Ejected, One
  <2>. QED
    BY <1>3, <1>4, <2>4, <2>5, <2>6, <2>7, <2>8 DEF NicOk
<1>11. queue \in [Source -> Seq(Packets)] /\ Sink \ MayRefuse \subseteq ready
  BY <1>1
<1>. QED
  BY <1>1, <1>2, <1>6, <1>7, <1>8, <1>9, <1>10, <1>11, Wires DEF TileInv

\* A message is queued, or another tile has a packet for this one.
LEMMA TileSent ==
  ASSUME NEW K, NEW N, NEW KS, NEW NS, TileInv(K, N, KS, NS), NEW k \in load.packets, send(k)
  PROVE  TileInv(K, N, KS, NS)'
<1>1. rtr' = rtr /\ nic' = nic /\ east_flit' = east_flit /\ load' = load /\ ready' = ready
  BY DEF send
<1>2. k \in Packets /\ queue \in [Source -> Seq(Packets)]
  BY TileAssumption DEF TileInv
<1>3. CASE k.from = EAST
  <2>1. host' = [host EXCEPT !.pending = Append(@, k)] /\ queue' = queue
    BY <1>3 DEF send
  <2>2. PICK h, h2 : h = host /\ h2 = host'
    OBVIOUS
  <2>3. HostOk(h) /\ Queued(h, k, h2)
    BY <2>1, <2>2 DEF TileInv, Queued
  <2>4. HostOk(h2) /\ \A x, a, ka, na, p, v : Fed(h, x, a, ka, na, p, v) => Fed(h2, x, a, ka, na, p, v)
    BY <1>2, <2>3, QueuedStep
  <2>. QED
    BY <1>1, <2>1, <2>2, <2>4 DEF TileInv, MayRefuse
<1>4. CASE k.from # EAST
  <2>1. queue' = [queue EXCEPT ![<<k.vnet, k.from>>] = Append(@, k)] /\ host' = host
    BY <1>4 DEF send
  <2>2. PICK e : e = <<k.vnet, k.from>>
    OBVIOUS
  <2>3. queue' = [s \in Source |-> IF s = e THEN Append(queue[s], k) ELSE queue[s]]
    BY <1>2, <2>1, <2>2
  <2>4. \A s \in Source : queue[s] \in Seq(Packets) /\ Append(queue[s], k) \in Seq(Packets)
    BY <1>2
  <2>5. queue' \in [Source -> Seq(Packets)]
    BY <2>3, <2>4
  <2>. QED
    BY <1>1, <2>1, <2>5 DEF TileInv, MayRefuse
<1>. QED
  BY <1>3, <1>4

\* A controller that may refuse raises or lowers its ready.
LEMMA TileToggles ==
  ASSUME NEW K, NEW N, NEW KS, NEW NS, TileInv(K, N, KS, NS), NEW s \in MayRefuse, toggle(s)
  PROVE  TileInv(K, N, KS, NS)'
<1>1. /\ rtr' = rtr /\ nic' = nic /\ east_flit' = east_flit /\ load' = load /\ host' = host /\ queue' = queue
      /\ ready \ {s} \subseteq ready' /\ MayRefuse' = MayRefuse
  BY DEF toggle, MayRefuse
<1>2. Sink \ MayRefuse \subseteq ready
  BY DEF TileInv
<1>3. Sink \ MayRefuse' \subseteq ready'
  BY <1>1, <1>2
<1>. QED
  BY <1>1, <1>3 DEF TileInv

TInv == \E K, N, KS, NS : TileInv(K, N, KS, NS)

\* The invariant holds at first,
LEMMA TileInitInv == Init => TInv
<1>. SUFFICES ASSUME Init PROVE TInv
  OBVIOUS
<1>1. PICK K : K = [p \in Port |-> [v \in Vc |-> NoPacket]]
  OBVIOUS
<1>2. PICK N : N = [p \in Port |-> [v \in Vc |-> 0]]
  OBVIOUS
<1>3. PICK NS : NS = [v \in Vc |-> 0]
  OBVIOUS
<1>4. \A p \in Port, v \in Vc : At(K, p, v) = NoPacket /\ At(N, p, v) = 0
  BY <1>1, <1>2 DEF At
<1>5. \A v \in Vc : NS[v] = 0
  BY <1>3
<1>6. TileInv(K, N, NS, NS)
  BY <1>4, <1>5, TileReset
<1>. QED
  BY <1>6 DEF TInv

\* and every step keeps it.
LEMMA TileNextInv == TInv /\ [Next]_vars => TInv'
<1>. SUFFICES ASSUME TInv, [Next]_vars PROVE TInv'
  OBVIOUS
<1>1. PICK K, N, KS, NS : TileInv(K, N, KS, NS)
  BY DEF TInv
<1>2. CASE tick
  <2>1. PICK K2, N2, KS2, NS2 : TileLater(K, N, KS, NS, K2, N2, KS2, NS2)
    BY TileLaterExists
  <2>2. TileInv(K2, N2, KS2, NS2)'
    BY <1>1, <1>2, <2>1, TileTick
  <2>. QED
    BY <2>2 DEF TInv
<1>3. ASSUME NEW k \in load.packets, send(k) PROVE TInv'
  <2>1. TileInv(K, N, KS, NS)'
    BY <1>1, <1>3, TileSent
  <2>. QED
    BY <2>1 DEF TInv
<1>4. ASSUME NEW s \in MayRefuse, toggle(s) PROVE TInv'
  <2>1. TileInv(K, N, KS, NS)'
    BY <1>1, <1>4, TileToggles
  <2>. QED
    BY <2>1 DEF TInv
<1>5. CASE UNCHANGED vars
  <2>1. TileInv(K, N, KS, NS)'
    BY <1>1, <1>5 DEF TileInv, vars, MayRefuse
  <2>. QED
    BY <2>1 DEF TInv
<1>. QED
  BY <1>2, <1>3, <1>4, <1>5 DEF Next

---------------------------------------------------------------------------
(* What follows from the invariant *)

\* What is known of a channel of the interface, with the registers by their own names.
LEMMA NicKeeps ==
  ASSUME NEW K, NEW N, NEW KS, NEW NS, TileInv(K, N, KS, NS), NEW v \in Vc
  PROVE  /\ Injected(nic, v, At(K, PORT_LOCAL, v), At(N, PORT_LOCAL, v), rtr.ret[PORT_LOCAL],
                     Len(rtr.ivc[PORT_LOCAL][v].buf))
         /\ OutChannel(rtr, rtr.out[PORT_LOCAL], PORT_LOCAL, v, K, N, KS[v], NS[v], TailBack(nic.ret, v))
         /\ NS[v] \in Nat /\ SlotOk(nic, v, KS[v], NS[v])
         /\ Ejected(nic, v, rtr.out[PORT_LOCAL], rtr.credits[PORT_LOCAL][v])
         /\ VcOpen(rtr.ivc[PORT_LOCAL][v], Me, v, At(K, PORT_LOCAL, v), At(N, PORT_LOCAL, v))
         /\ At(N, PORT_LOCAL, v) \in Nat
         /\ rtr.ivc[PORT_LOCAL][v] \in VcRegs /\ rtr.credits[PORT_LOCAL][v] \in Int
         /\ Slot(nic, v) \in SlotRec /\ NCred(nic, v) \in Int /\ NBusy(nic, v) \in BOOLEAN /\ Bodies(nic, v) \in Int
<1>1. NicOk(nic, rtr, K, N, v, KS[v], NS[v]) /\ RouterType(rtr) /\ PORT_LOCAL \in Port /\ NicType(nic)
      /\ VcOpen(Ivc(rtr, PORT_LOCAL, v), Me, v, At(K, PORT_LOCAL, v), At(N, PORT_LOCAL, v))
      /\ At(N, PORT_LOCAL, v) \in Nat
  BY WiresIn DEF TileInv
<1>2. Ivc(rtr, PORT_LOCAL, v) \in VcRegs /\ Cred(rtr, PORT_LOCAL, v) \in Int
  BY <1>1, RouterFields
<1>3. Slot(nic, v) \in SlotRec /\ NCred(nic, v) \in Int /\ NBusy(nic, v) \in BOOLEAN /\ Bodies(nic, v) \in Int
  BY <1>1 DEF NicType, Slot, NCred, NBusy, Bodies
<1>. QED
  BY <1>1, <1>2, <1>3 DEF NicOk, Ivc, Cred, Out, Ret

\* The registers of the interface hold what they may.
LEMMA InvType == TInv => TypeOK
<1>. SUFFICES ASSUME TInv PROVE TypeOK
  OBVIOUS
<1>1. PICK K, N, KS, NS : TileInv(K, N, KS, NS)
  BY DEF TInv
<1>2. /\ nic.vn2 \in {L1, DIR} /\ nic.inj \in Vnet /\ nic.pend_tail \subseteq Vc /\ Sink \ MayRefuse \subseteq ready
  BY <1>1 DEF TileInv, NicType
<1>3. ASSUME NEW v \in Vc
      PROVE  /\ nic.credits[v] \in 0 .. VcDepth /\ nic.busy[v] \in BOOLEAN /\ nic.pend_body[v] \in 0 .. VcDepth
             /\ nic.rx[v].busy \in BOOLEAN /\ nic.rx[v].full \in BOOLEAN
  <2>1. PICK cr, b, f, c, k, n : /\ cr = rtr.ret[PORT_LOCAL] /\ b = Len(rtr.ivc[PORT_LOCAL][v].buf)
                                 /\ f = rtr.out[PORT_LOCAL] /\ c = rtr.credits[PORT_LOCAL][v]
                                 /\ k = At(K, PORT_LOCAL, v) /\ n = At(N, PORT_LOCAL, v)
    OBVIOUS
  <2>2. /\ Injected(nic, v, k, n, cr, b) /\ Ejected(nic, v, f, c) /\ b \in Nat /\ c \in Int
        /\ Slot(nic, v) \in SlotRec /\ NCred(nic, v) \in Int /\ NBusy(nic, v) \in BOOLEAN /\ Bodies(nic, v) \in Int
    BY <1>1, <2>1, NicKeeps DEF VcRegs
  <2>3. \A q : One(q) \in Nat
    BY DEF One
  <2>4. NCred(nic, v) + b + One(Returned(cr, v)) = VcDepth /\ NCred(nic, v) >= 0
    BY <2>2 DEF Injected
  <2>5. NCred(nic, v) \in 0 .. VcDepth
    BY <2>2, <2>3, <2>4, Sizes
  <2>6. /\ c + One(Sends(f, v)) + Bodies(nic, v) + One(Slot(nic, v).full) + One(v \in nic.pend_tail)
             + One(Returned(nic.ret, v)) = VcDepth
        /\ c >= 0 /\ Bodies(nic, v) >= 0
    BY <2>2 DEF Ejected
  <2>7. Bodies(nic, v) \in 0 .. VcDepth
    BY <2>2, <2>3, <2>6, Sizes
  <2>8. Slot(nic, v).busy \in BOOLEAN /\ Slot(nic, v).full \in BOOLEAN
    BY <2>2 DEF SlotRec
  <2>. QED
    BY <2>2, <2>5, <2>7, <2>8 DEF NCred, NBusy, Bodies, Slot
<1>. QED
  BY <1>2, <1>3 DEF TypeOK

\* The credits are conserved.
LEMMA InvConserved == TInv => CreditsConserved
<1>. SUFFICES ASSUME TInv, NEW v \in Vc
              PROVE  /\ nic.credits[v] + Len(rtr.ivc[PORT_LOCAL][v].buf) + One(Returned(rtr.ret[PORT_LOCAL], v)) = VcDepth
                     /\ rtr.credits[PORT_LOCAL][v] + One(Sends(rtr.out[PORT_LOCAL], v)) + nic.pend_body[v]
                          + One(nic.rx[v].full) + One(v \in nic.pend_tail) + One(Returned(nic.ret, v)) = VcDepth
  BY DEF CreditsConserved
<1>1. PICK K, N, KS, NS : TileInv(K, N, KS, NS)
  BY DEF TInv
<1>2. /\ Injected(nic, v, At(K, PORT_LOCAL, v), At(N, PORT_LOCAL, v), rtr.ret[PORT_LOCAL],
                  Len(rtr.ivc[PORT_LOCAL][v].buf))
      /\ Ejected(nic, v, rtr.out[PORT_LOCAL], rtr.credits[PORT_LOCAL][v])
  BY <1>1, NicKeeps
<1>. QED
  BY <1>2 DEF Injected, Ejected, NCred, Bodies, Slot

\* A flit that comes out finds its place in its slot.
LEMMA InvSlots == TInv => SlotDiscipline
<1>. SUFFICES ASSUME TInv, NEW f, f = rtr.out[PORT_LOCAL], f # NoFlit
              PROVE  LET slot == nic.rx[f.vc] IN
                     /\ IsHead(f) => ~slot.busy /\ ~slot.full
                     /\ ~IsHead(f) => slot.busy /\ slot.pkt = f.pkt /\ f.i = slot.got + 1
  BY DEF SlotDiscipline
<1>1. PICK K, N, KS, NS : TileInv(K, N, KS, NS)
  BY DEF TInv
<1>2. f \in Flit
  BY <1>1, WiresIn, RouterFields DEF TileInv, Out
<1>3. PICK v \in Vc : v = f.vc
  BY <1>2 DEF Flit
<1>4. PICK k, n : k = KS[v] /\ n = NS[v]
  OBVIOUS
<1>5. /\ OutChannel(rtr, f, PORT_LOCAL, v, K, N, k, n, TailBack(nic.ret, v))
      /\ n \in Nat /\ SlotOk(nic, v, k, n) /\ Slot(nic, v) \in SlotRec
  BY <1>1, <1>4, NicKeeps
<1>6. Sends(f, v)
  BY <1>3 DEF Sends
<1>7. Follows(f, k, n)
  BY <1>5, <1>6, OutFollows
<1>8. /\ ~Slot(nic, v).full
      /\ IsHead(f) => ~Slot(nic, v).busy
      /\ ~IsHead(f) => Slot(nic, v).busy /\ Slot(nic, v).pkt = f.pkt /\ f.i = Slot(nic, v).got + 1
  BY <1>2, <1>5, <1>7, SlotFinds
<1>. QED
  BY <1>3, <1>8 DEF Slot

\* What a sender takes for free is free.
LEMMA InvFree == TInv => FreeIsFree
<1>. SUFFICES ASSUME TInv, NEW v \in Vc
              PROVE  /\ ~nic.busy[v] => rtr.ivc[PORT_LOCAL][v].st = "IDLE" /\ rtr.ivc[PORT_LOCAL][v].buf = <<>>
                     /\ ~rtr.busy[PORT_LOCAL][v] => /\ ~nic.rx[v].busy /\ ~nic.rx[v].full
                                                    /\ v \notin nic.pend_tail
  BY DEF FreeIsFree
<1>1. PICK K, N, KS, NS : TileInv(K, N, KS, NS)
  BY DEF TInv
<1>2. ASSUME ~nic.busy[v] PROVE rtr.ivc[PORT_LOCAL][v].st = "IDLE" /\ rtr.ivc[PORT_LOCAL][v].buf = <<>>
  <2>1. PICK c, k, n : c = rtr.ivc[PORT_LOCAL][v] /\ k = At(K, PORT_LOCAL, v) /\ n = At(N, PORT_LOCAL, v)
    OBVIOUS
  <2>2. /\ Injected(nic, v, k, n, rtr.ret[PORT_LOCAL], Len(c.buf)) /\ VcOpen(c, Me, v, k, n) /\ n \in Nat
        /\ c \in VcRegs
    BY <1>1, <2>1, NicKeeps
  <2>3. Come(NoFlit, v, n) = 0
    BY <1>2, <2>2 DEF Injected, Line, NBusy
  <2>4. n = 0
    BY <2>2, <2>3, Wires DEF Come, One
  <2>5. c.st = "IDLE" /\ Len(c.buf) <= 0 /\ c.buf \in Seq(Flit)
    BY <2>2, <2>4 DEF VcOpen, VcRegs
  <2>6. c.buf = <<>>
    BY <2>5
  <2>. QED
    BY <2>1, <2>5, <2>6
<1>3. ASSUME ~rtr.busy[PORT_LOCAL][v]
      PROVE  ~nic.rx[v].busy /\ ~nic.rx[v].full /\ v \notin nic.pend_tail
  <2>1. PICK f, k, n, tc : f = rtr.out[PORT_LOCAL] /\ k = KS[v] /\ n = NS[v] /\ tc = TailBack(nic.ret, v)
    OBVIOUS
  <2>2. OutChannel(rtr, f, PORT_LOCAL, v, K, N, k, n, tc) /\ n \in Nat /\ SlotOk(nic, v, k, n)
    BY <1>1, <2>1, NicKeeps
  <2>3. Come(f, v, n) = 0
    BY <1>3, <2>2 DEF OutChannel, Line, Busy
  <2>4. n = 0
    BY <2>2, <2>3 DEF Come, One
  <2>. QED
    BY <2>2, <2>4 DEF SlotOk, Slot
<1>. QED
  BY <1>2, <1>3

\* Between the interface of a tile and its router no credit is lost or made, a flit always
\* finds its place in a slot and a channel taken for free is free: for any number of
\* networks, channels and buffers, any messages and any moods of the sinks (tile_nic.sv).
THEOREM TileAlwaysSafe == Spec => []TileSafe
<1>1. Init => TInv
  BY TileInitInv
<1>2. TInv /\ [Next]_vars => TInv'
  BY TileNextInv
<1>3. TInv => TileSafe
  BY InvType, InvConserved, InvSlots, InvFree DEF TileSafe
<1>. QED
  BY <1>1, <1>2, <1>3, PTL DEF Spec

---------------------------------------------------------------------------
(* Where a tile's own messages come from *)

\* A tile's number is that of its row and its column.
LEMMA Division ==
  ASSUME NEW d \in Nat, NEW m \in Nat \ {0}
  PROVE  d = (d \div m) * m + (d % m)
OBVIOUS

\* A packet is routed to this tile's port when it is for this tile.
LEMMA HomeRoute == \A k \in Packets : Route(Me, k.dst) = PORT_LOCAL <=> k.dst = Me
<1>. SUFFICES ASSUME NEW k \in Packets, NEW d \in Nat, d = k.dst
              PROVE  Route(Me, d) = PORT_LOCAL <=> d = Me
  BY TileAssumption
<1>1. MeshX \in Nat \ {0} /\ Me \in Nat
  BY RouterShape, TileAssumption
<1>2. Route(Me, d) = PORT_LOCAL <=> d % MeshX = Me % MeshX /\ d \div MeshX = Me \div MeshX
  BY DEF Route, TileX, TileY, PORT_NORTH, PORT_EAST, PORT_SOUTH, PORT_WEST, PORT_LOCAL
<1>3. d = (d \div MeshX) * MeshX + (d % MeshX) /\ Me = (Me \div MeshX) * MeshX + (Me % MeshX)
  BY <1>1, Division
<1>. QED
  BY <1>2, <1>3

---------------------------------------------------------------------------
(* The order of a tile's messages to itself *)

\* A message of this tile, or none;
Ours(k) == IF k.from # EAST THEN k ELSE NoMsg

\* the one that is on its way to its side or shown to it on a channel, of whose packet
\* k the interface has n flits when f comes,
Below(nc, f, v, k, n) ==
    IF Come(f, v, n) > 0 /\ v \notin nc.pend_tail THEN Ours(Comer(f, v, k)) ELSE NoMsg

\* and the one that waits for it in the router, in input VC c, open for packet k.
Above(c, k) == IF c.st \in {"ROUTED", "ALLOC"} /\ k.dst = Me THEN k ELSE NoMsg

Chain(d, u) ==
    IF d = NoMsg THEN IF u = NoMsg THEN <<>> ELSE <<u>>
    ELSE IF u = NoMsg THEN <<d>> ELSE <<d, u>>

\* A message that is handed over leaves the order, and another is put at its end.
LEMMA ChainLess ==
  ASSUME NEW d, NEW u, NEW S, u = NoMsg \/ u \notin S
  PROVE  Less(Chain(d, u), S) = Chain(IF d \in S THEN NoMsg ELSE d, u)
<1>1. CASE d = NoMsg
  BY <1>1 DEF Less, Chain
<1>2. CASE d # NoMsg /\ d \notin S
  BY <1>2 DEF Less, Chain
<1>3. CASE d # NoMsg /\ d \in S /\ u = NoMsg
  <2>. DEFINE j == CHOOSE j \in DOMAIN <<d>> : <<d>>[j] \in S
  <2>1. DOMAIN <<d>> = {1} /\ <<d>>[1] \in S
    BY <1>3
  <2>2. j = 1
    BY <2>1
  <2>3. Less(<<d>>, S) = SubSeq(<<d>>, 1, j - 1) \o SubSeq(<<d>>, j + 1, Len(<<d>>))
    BY <2>1 DEF Less
  <2>4. SubSeq(<<d>>, 1, 0) = <<>> /\ SubSeq(<<d>>, 2, 1) = <<>>
    OBVIOUS
  <2>. QED
    BY <1>3, <2>2, <2>3, <2>4 DEF Chain
<1>4. CASE d # NoMsg /\ d \in S /\ u # NoMsg
  <2>. DEFINE q == <<d, u>>
              j == CHOOSE j \in DOMAIN q : q[j] \in S
  <2>1. DOMAIN q = {1, 2} /\ q[1] \in S /\ q[2] \notin S
    BY <1>4
  <2>2. j = 1
    BY <2>1
  <2>3. Less(q, S) = SubSeq(q, 1, j - 1) \o SubSeq(q, j + 1, Len(q))
    BY <2>1 DEF Less
  <2>4. SubSeq(q, 1, 0) = <<>> /\ SubSeq(q, 2, 2) = <<u>> /\ Len(q) = 2
    <3>1. q \in Seq({d, u}) /\ Len(q) = 2 /\ q[2] = u
      OBVIOUS
    <3>. HIDE DEF q
    <3>2. SubSeq(q, 1, 0) \in Seq({d, u}) /\ Len(SubSeq(q, 1, 0)) = 0
      BY <3>1
    <3>3. SubSeq(q, 2, 2) \in Seq({d, u}) /\ Len(SubSeq(q, 2, 2)) = 1 /\ SubSeq(q, 2, 2)[1] = u
      BY <3>1
    <3>4. <<u>> \in Seq({d, u}) /\ Len(<<u>>) = 1 /\ <<u>>[1] = u
      OBVIOUS
    <3>5. SubSeq(q, 2, 2) = <<u>>
      <4>1. PICK s : s = SubSeq(q, 2, 2)
        OBVIOUS
      <4>2. s \in Seq({d, u}) /\ Len(s) = 1 /\ \A i \in 1 .. Len(s) : s[i] = <<u>>[i]
        BY <3>3, <3>4, <4>1
      <4>3. s = <<u>>
        BY <3>4, <4>2, SeqEqual
      <4>. QED
        BY <4>1, <4>3
    <3>. QED
      BY <3>1, <3>2, <3>5, EmptySeq
  <2>5. <<>> \o <<u>> = <<u>>
    OBVIOUS
  <2>6. Less(q, S) = SubSeq(q, 1, 0) \o SubSeq(q, 2, 2)
    <3>. HIDE DEF j
    <3>1. j - 1 = 0 /\ j + 1 = 2
      BY <2>2
    <3>. QED
      BY <2>3, <2>4, <3>1
  <2>. HIDE DEF q, j
  <2>7. Less(q, S) = <<u>>
    BY <2>4, <2>5, <2>6
  <2>. QED
    BY <1>4, <2>7 DEF Chain, q
<1>. QED
  BY <1>1, <1>2, <1>3, <1>4 DEF Chain

\* With nothing above, what is started comes to be above.
LEMMA ChainAppend ==
  ASSUME NEW d, NEW u, u # NoMsg
  PROVE  Append(Chain(d, NoMsg), u) = Chain(d, u)
<1>1. CASE d = NoMsg
  <2>1. Append(<<>>, u) = <<u>>
    OBVIOUS
  <2>. QED
    BY <1>1, <2>1 DEF Chain
<1>2. CASE d # NoMsg
  <2>1. Append(<<d>>, u) = <<d, u>>
    <3>1. PICK s, t : s = Append(<<d>>, u) /\ t = <<d, u>>
      OBVIOUS
    <3>2. <<d>> \in Seq({d, u}) /\ Len(<<d>>) = 1 /\ <<d>>[1] = d
      OBVIOUS
    <3>3. s \in Seq({d, u}) /\ Len(s) = 2 /\ s[1] = d /\ s[2] = u
      BY <3>1, <3>2, AppendProperties
    <3>4. t \in Seq({d, u}) /\ Len(t) = 2 /\ t[1] = d /\ t[2] = u
      BY <3>1
    <3>5. \A i \in 1 .. Len(s) : s[i] = t[i]
      BY <3>3, <3>4
    <3>6. s = t
      BY <3>3, <3>4, <3>5, SeqEqual
    <3>. QED
      BY <3>1, <3>6
  <2>. QED
    BY <1>2, <2>1 DEF Chain
<1>. QED
  BY <1>1, <1>2

\* What is on its way to a side, over a cycle: it goes when it is taken, and a head that
\* comes finds none.
LEMMA BelowStep ==
  ASSUME NEW nc, NEW v \in Vc, NEW k, NEW n \in Nat, SlotOk(nc, v, k, n),
         NEW f \in Flit \cup {NoFlit}, Sends(f, v) => Follows(f, k, n),
         NEW acc \in BOOLEAN, NEW tl \in BOOLEAN, NEW nc2, SlotMoves(nc, f, v, acc, tl, nc2),
         NEW k2, NEW n2 \in Nat, k2 = Comer(f, v, k), n2 = IF tl THEN 0 ELSE Come(f, v, n),
         SlotOk(nc2, v, k2, n2), NEW f2 \in Flit \cup {NoFlit}, Sends(f2, v) => Follows(f2, k2, n2)
  PROVE  LET b == Below(nc, f, v, k, n)
             b2 == Below(nc2, f2, v, k2, n2)
             comes == Sends(f2, v) /\ IsHead(f2)
         IN  /\ Slot(nc, v).full => /\ Come(f, v, n) > 0 /\ Comer(f, v, k) = Slot(nc, v).pkt
                                    /\ b = Ours(Slot(nc, v).pkt)
             /\ acc => b2 = NoMsg /\ ~comes /\ Slot(nc, v).full
             /\ comes => b = NoMsg /\ b2 = Ours(f2.pkt)
             /\ ~acc /\ ~comes => b2 = b
<1>1. /\ acc => Slot(nc, v).full
      /\ tl => v \in nc.pend_tail
      /\ v \in nc2.pend_tail <=> (v \in nc.pend_tail /\ ~tl) \/ acc
  BY DEF SlotMoves
<1>2. /\ Slot(nc, v).full => v \notin nc.pend_tail /\ n > 0 /\ n = k.len /\ k = Slot(nc, v).pkt
      /\ v \in nc.pend_tail => n > 0 /\ n = k.len
      /\ v \in nc2.pend_tail => n2 > 0 /\ n2 = k2.len
  BY DEF SlotOk
<1>3. Sends(f, v) => f.i = n + 1 /\ f.i <= f.pkt.len /\ (n > 0 => f.pkt = k)
  BY DEF Follows
<1>4. Sends(f2, v) => f2.i = n2 + 1 /\ f2.i <= f2.pkt.len /\ (n2 > 0 => f2.pkt = k2)
  BY DEF Follows
<1>5. /\ Sends(f, v) /\ n > 0 => n < k.len /\ k.len = f.pkt.len
      /\ Sends(f2, v) /\ n2 > 0 => n2 < k2.len
  BY <1>3, <1>4, PacketFacts, Wires DEF Flit
<1>6. Slot(nc, v).full \/ v \in nc.pend_tail => ~Sends(f, v)
  BY <1>2, <1>5
<1>7. v \in nc2.pend_tail => ~Sends(f2, v)
  BY <1>2, <1>5
<1>8. Come(f, v, n) = n + One(Sends(f, v)) /\ Come(f2, v, n2) = n2 + One(Sends(f2, v))
  BY DEF Come
<1>9. Slot(nc, v).full => /\ Come(f, v, n) > 0 /\ Comer(f, v, k) = Slot(nc, v).pkt
                          /\ Below(nc, f, v, k, n) = Ours(Slot(nc, v).pkt)
  BY <1>2, <1>6, <1>8 DEF Below, Comer, One
<1>10. acc => Below(nc2, f2, v, k2, n2) = NoMsg /\ ~Sends(f2, v) /\ Slot(nc, v).full
  BY <1>1, <1>7 DEF Below
<1>11. ASSUME Sends(f2, v), IsHead(f2)
       PROVE  Below(nc, f, v, k, n) = NoMsg /\ Below(nc2, f2, v, k2, n2) = Ours(f2.pkt)
  <2>1. n2 = 0 /\ v \notin nc2.pend_tail
    BY <1>4, <1>7, <1>11 DEF IsHead
  <2>2. Below(nc2, f2, v, k2, n2) = Ours(f2.pkt)
    BY <1>8, <1>11, <2>1 DEF Below, Comer, One
  <2>3. tl \/ Come(f, v, n) = 0
    BY <2>1
  <2>. QED
    BY <1>1, <2>2, <2>3 DEF Below
<1>12. ASSUME ~acc, ~(Sends(f2, v) /\ IsHead(f2)) PROVE Below(nc2, f2, v, k2, n2) = Below(nc, f, v, k, n)
  <2>1. CASE tl
    <3>1. n2 = 0 /\ v \in nc.pend_tail
      BY <1>1, <2>1
    <3>2. ~Sends(f2, v)
      BY <1>4, <1>12, <3>1 DEF IsHead
    <3>. QED
      BY <1>8, <3>1, <3>2 DEF Below, One
  <2>2. CASE ~tl
    <3>1. n2 = Come(f, v, n) /\ (v \in nc2.pend_tail <=> v \in nc.pend_tail)
      BY <1>1, <1>12, <2>2
    <3>2. Sends(f2, v) => n2 > 0 /\ f2.pkt = k2
      BY <1>4, <1>12 DEF IsHead
    <3>3. Come(f2, v, n2) > 0 <=> n2 > 0
      BY <1>8, <3>2 DEF One
    <3>4. Comer(f2, v, k2) = k2
      BY <3>2 DEF Comer
    <3>. QED
      BY <3>1, <3>3, <3>4 DEF Below
  <2>. QED
    BY <2>1, <2>2
<1>. QED
  BY <1>9, <1>10, <1>11, <1>12

\* Where the packets of the input VCs come from: those of this tile on their own
\* channel of the local port, and the others on no local port.
Origins(ka, na) ==
    \A p \in Port, v \in Vc : At(na, p, v) > 0 =>
        IF p = PORT_LOCAL THEN At(ka, p, v).from # EAST /\ v = Lane(At(ka, p, v).vnet)
        ELSE At(ka, p, v).from = EAST

\* The head of the message that waits on channel v leaves for the local port.
Descends(a, v) ==
    /\ v \in SaGranted(a, PORT_LOCAL)
    /\ Ivc(a, PORT_LOCAL, v).st = "ALLOC" /\ Ivc(a, PORT_LOCAL, v).port = PORT_LOCAL

\* What comes out of the local port is for this tile, and its head, if it is this tile's
\* message, leaves the local input VC.
LEMMA ComesOut ==
  ASSUME NEW a, NEW fl, NEW cr, NEW ka, NEW na, NEW a2, NEW ka2, NEW na2,
         Stepped(a, Me, fl, cr, ka, na, a2, ka2, na2), Origins(ka, na), NEW v \in Vc, NEW o \in Port,
         NEW f2, f2 = Out(a2, o), Sends(f2, v)
  PROVE  /\ f2 \in Flit /\ f2.pkt.from # EAST => v = Lane(f2.pkt.vnet) /\ Route(Me, f2.pkt.dst) = o
         /\ o = PORT_LOCAL /\ f2.pkt.from # EAST /\ IsHead(f2) => Descends(a, v)
<1>1. RouterType(a) /\ Feed(a, Me, fl, ka, na) /\ Edge(a, Me, fl, cr, a2)
  BY DEF Stepped
<1>2. f2 = Crossbar(a, Grants(a), o)
  BY <1>1, EdgeFields
<1>3. PICK p \in Port : v \in SaGranted(a, p) /\ Ivc(a, p, v).port = o
  BY <1>1, <1>2, SendsFrom
<1>4. PICK c, k, n : c = Ivc(a, p, v) /\ k = At(ka, p, v) /\ n = At(na, p, v)
  OBVIOUS
<1>5. f2 = NextFlit(c.buf, k, n, v)
  BY <1>1, <1>2, <1>3, <1>4, SendsFrom
<1>6. n \in Nat /\ VcOpen(c, Me, v, k, n)
  BY <1>1, <1>4 DEF Feed
<1>7. c.st \in {"ALLOC", "ACTIVE"} /\ Len(c.buf) \in Nat \ {0} /\ n > 0
  <2>1. VcOpen(Ivc(a, p, v), Me, v, k, n)
    BY <1>4, <1>6
  <2>. QED
    BY <1>1, <1>3, <1>4, <1>6, <2>1, Granted
<1>8. f2.pkt = k /\ f2.i = n - Len(c.buf) + 1
  BY <1>5 DEF NextFlit
<1>9. c.port = Route(Me, k.dst) /\ (c.st = "ACTIVE" => Len(c.buf) < n)
  BY <1>6, <1>7 DEF VcOpen
<1>10. IF p = PORT_LOCAL THEN k.from # EAST /\ v = Lane(k.vnet) ELSE k.from = EAST
  BY <1>4, <1>7 DEF Origins
<1>11. IsHead(f2) => c.st = "ALLOC"
  <2>1. PICK l \in Nat : l = Len(c.buf)
    BY <1>7
  <2>2. ASSUME IsHead(f2) PROVE l = n
    <3>1. PICK m \in Nat : m = n
      BY <1>6
    <3>2. f2.i = 1 /\ f2.i = m - l + 1
      BY <1>8, <2>1, <2>2, <3>1 DEF IsHead
    <3>3. 1 = m - l + 1
      BY <3>2
    <3>. QED
      BY <3>1, <3>3
  <2>3. IsHead(f2) => c.st # "ACTIVE"
    BY <1>6, <1>9, <2>1, <2>2
  <2>. QED
    BY <1>7, <2>3
<1>. QED
  BY <1>3, <1>4, <1>8, <1>9, <1>10, <1>11 DEF Descends

\* What waits in the router, over a cycle: a message that starts finds none, and one that
\* waits stays until its head leaves.
LEMMA AboveStep ==
  ASSUME NEW a, NEW fl, NEW cr, NEW ka, NEW na, NEW a2, NEW ka2, NEW na2,
         Stepped(a, Me, fl, cr, ka, na, a2, ka2, na2), Origins(ka, na), NEW v \in Vc,
         NEW x, x = fl[PORT_LOCAL], NEW f2, f2 = Out(a2, PORT_LOCAL)
  PROVE  LET u == Above(Ivc(a, PORT_LOCAL, v), At(ka, PORT_LOCAL, v))
             u2 == Above(Ivc(a2, PORT_LOCAL, v), At(ka2, PORT_LOCAL, v))
             starts == Sends(x, v) /\ IsHead(x)
         IN  /\ Descends(a, v) => /\ u2 = NoMsg /\ ~starts /\ u # NoMsg /\ Ours(u) = u
                                  /\ Sends(f2, v) /\ IsHead(f2) /\ f2.pkt = u
             /\ starts => u = NoMsg /\ u2 = IF x.pkt.dst = Me THEN x.pkt ELSE NoMsg
             /\ ~starts /\ ~Descends(a, v) => u2 = u
<1>1. /\ RouterType(a) /\ Feed(a, Me, fl, ka, na) /\ Edge(a, Me, fl, cr, a2) /\ PORT_LOCAL \in Port
      /\ At(ka2, PORT_LOCAL, v) = Comer(x, v, At(ka, PORT_LOCAL, v))
  BY Indices DEF Stepped
<1>2. PICK c, c2, k, k2, n : /\ c = Ivc(a, PORT_LOCAL, v) /\ c2 = Ivc(a2, PORT_LOCAL, v)
                             /\ k = At(ka, PORT_LOCAL, v) /\ k2 = At(ka2, PORT_LOCAL, v)
                             /\ n = At(na, PORT_LOCAL, v)
  OBVIOUS
<1>3. /\ n \in Nat /\ VcOpen(c, Me, v, k, n) /\ k2 = Comer(x, v, k)
      /\ Sends(x, v) => Follows(x, k, n)
  BY <1>1, <1>2 DEF Feed
<1>4. PICK pop, va, w : pop = (v \in SaGranted(a, PORT_LOCAL)) /\ va = (v \in VaGranted(a, PORT_LOCAL)) /\ w = Sends(x, v)
  OBVIOUS
<1>5. c2.st = IF ~pop THEN IF va THEN "ALLOC" ELSE IF w /\ IsHead(x) THEN "ROUTED" ELSE c.st
              ELSE IF IsTail(c.buf[1]) THEN "IDLE" ELSE "ACTIVE"
  <2>1. PICK g : g = Grants(a)
    OBVIOUS
  <2>2. c2 = NextVc(a, g, Me, PORT_LOCAL, v, x)
    BY <1>1, <1>2, <2>1, EdgeFields
  <2>3. g.sa[PORT_LOCAL] = SaGranted(a, PORT_LOCAL) /\ g.va[PORT_LOCAL] = VaGranted(a, PORT_LOCAL)
    BY <1>1, <2>1 DEF Grants
  <2>4. c = a.ivc[PORT_LOCAL][v]
    BY <1>2 DEF Ivc
  <2>5. c2.st = IF v \notin g.sa[PORT_LOCAL]
                THEN IF v \in g.va[PORT_LOCAL] THEN "ALLOC"
                     ELSE IF x # NoFlit /\ x.vc = v /\ IsHead(x) THEN "ROUTED" ELSE c.st
                ELSE IF IsTail(c.buf[1]) THEN "IDLE" ELSE "ACTIVE"
    BY <2>2, <2>4, SMTT(20) DEF NextVc
  <2>. QED
    BY <1>4, <2>3, <2>5 DEF Sends
<1>6. va => c.st = "ROUTED"
  BY <1>1, <1>2, <1>4, VaFacts DEF Eligible, Ivc, Busy
<1>7. pop => /\ c.st \in {"ALLOC", "ACTIVE"} /\ Front(c.buf, k, n, v) /\ Len(c.buf) \in Nat \ {0}
             /\ ~va
  <2>1. VcOpen(Ivc(a, PORT_LOCAL, v), Me, v, k, n)
    BY <1>2, <1>3
  <2>. QED
    BY <1>1, <1>2, <1>3, <1>4, <2>1, Granted
<1>8. /\ c.st = "IDLE" <=> n = 0
      /\ n > 0 => k \in Packets /\ c.port = Route(Me, k.dst)
      /\ c.st \in {"ROUTED", "ALLOC"} => Len(c.buf) = n
      /\ c.st \in {"IDLE", "ROUTED", "ALLOC", "ACTIVE"}
  <2>1. c \in VcRegs
    BY <1>1, <1>2, RouterFields
  <2>. QED
    BY <1>3, <2>1 DEF VcOpen, VcRegs
<1>9. w => (IsHead(x) <=> n = 0) /\ (n > 0 => x.pkt = k)
  BY <1>3, <1>4 DEF Follows, IsHead
<1>10. n > 0 => k2 = k
  BY <1>3, <1>4, <1>9 DEF Comer
<1>11. NoMsg \notin Packets
  BY PacketFacts DEF NoMsg
<1>12. ASSUME Descends(a, v)
       PROVE  /\ Above(c2, k2) = NoMsg /\ ~(w /\ IsHead(x)) /\ Above(c, k) # NoMsg /\ Ours(Above(c, k)) = Above(c, k)
              /\ Sends(f2, v) /\ IsHead(f2) /\ f2.pkt = Above(c, k)
  <2>1. pop /\ c.st = "ALLOC" /\ c.port = PORT_LOCAL
    BY <1>2, <1>4, <1>12 DEF Descends
  <2>2. n > 0 /\ k \in Packets /\ k.dst = Me
    BY <1>3, <1>8, <2>1, HomeRoute
  <2>3. c2.st \in {"IDLE", "ACTIVE"} /\ ~(w /\ IsHead(x))
    BY <1>5, <1>9, <2>1, <2>2
  <2>4. Above(c, k) = k /\ Above(c2, k2) = NoMsg
    BY <2>1, <2>2, <2>3 DEF Above
  <2>5. k.from # EAST
    BY <1>1, <1>2, <2>2 DEF Origins
  <2>6. f2 = NextFlit(c.buf, k, n, v) /\ Sends(f2, v)
    <3>1. f2 = Crossbar(a, Grants(a), PORT_LOCAL)
      BY <1>1, EdgeFields
    <3>2. v \in SaGranted(a, PORT_LOCAL) /\ Ivc(a, PORT_LOCAL, v).port = PORT_LOCAL
      BY <1>12 DEF Descends
    <3>3. /\ f2 = NextFlit(Ivc(a, PORT_LOCAL, v).buf, At(ka, PORT_LOCAL, v), At(na, PORT_LOCAL, v), v)
          /\ Sends(f2, v)
      BY <1>1, <3>1, <3>2, SendsFrom
    <3>. QED
      BY <1>2, <3>3
  <2>7. f2.i = 1 /\ f2.pkt = k
    BY <1>3, <1>8, <2>1, <2>6 DEF NextFlit
  <2>. QED
    BY <1>11, <2>2, <2>3, <2>4, <2>5, <2>6, <2>7 DEF Ours, IsHead
<1>13. ASSUME w, IsHead(x)
       PROVE  Above(c, k) = NoMsg /\ Above(c2, k2) = IF x.pkt.dst = Me THEN x.pkt ELSE NoMsg
  <2>1. c.st = "IDLE" /\ ~pop /\ ~va
    BY <1>6, <1>7, <1>8, <1>9, <1>13
  <2>2. c2.st = "ROUTED" /\ k2 = x.pkt
    BY <1>3, <1>4, <1>5, <1>13, <2>1 DEF Comer
  <2>. QED
    BY <2>1, <2>2 DEF Above
<1>14. ASSUME ~(w /\ IsHead(x)), ~Descends(a, v) PROVE Above(c2, k2) = Above(c, k)
  <2>1. CASE n = 0
    <3>1. c.st = "IDLE" /\ ~pop /\ ~va
      BY <1>6, <1>7, <1>8, <2>1
    <3>2. c2.st = "IDLE"
      BY <1>5, <1>14, <3>1
    <3>. QED
      BY <3>1, <3>2 DEF Above
  <2>2. CASE n > 0 /\ pop
    <3>1. c2.st \notin {"ROUTED", "ALLOC"}
      BY <1>5, <2>2
    <3>2. c.st = "ACTIVE" \/ (c.st = "ALLOC" /\ c.port # PORT_LOCAL)
      BY <1>2, <1>4, <1>7, <1>14, <2>2 DEF Descends
    <3>3. c.st = "ALLOC" => k.dst # Me
      BY <1>8, <2>2, <3>2, HomeRoute
    <3>. QED
      BY <3>1, <3>2, <3>3 DEF Above
  <2>3. CASE n > 0 /\ ~pop
    <3>1. c2.st \in {"ROUTED", "ALLOC"} <=> c.st \in {"ROUTED", "ALLOC"}
      BY <1>5, <1>6, <1>14, <2>3
    <3>. QED
      BY <1>10, <2>3, <3>1 DEF Above
  <2>. QED
    BY <1>3, <2>1, <2>2, <2>3
<1>. QED
  BY <1>2, <1>4, <1>12, <1>13, <1>14

\* What a port's queue holds is of the port.
FromHere(q) == \A s \in Source : \A j \in 1 .. Len(q[s]) : q[s][j].vnet = s[1] /\ q[s][j].from = s[2]

OfferFits(offer) == \A s \in Source : offer[s] # NoMsg => offer[s].vnet = s[1] /\ offer[s].from = s[2]

\* What the interface is sending is this tile's, and its head has gone.
Sorted(nc) == \A n \in Vnet : Pk(nc, n) # Idle => Pk(nc, n).pkt.vnet = n /\ Pk(nc, n).pkt.from # EAST /\ Pk(nc, n).next > 1

\* What is sent is of this tile, on its channel; a head is of a message just taken.
LEMMA NicStarts ==
  ASSUME NEW nc, NicType(nc), \A n \in Vnet : Sending(nc, n), Sorted(nc),
         NEW offer, OfferOk(offer), OfferFits(offer), NEW x, x = InjFlit(nc, Me, offer)
  PROVE  /\ x # NoFlit => x \in Flit /\ x.pkt.from # EAST /\ x.pkt.vnet \in Vnet /\ x.vc = Lane(x.pkt.vnet)
         /\ x # NoFlit /\ IsHead(x) => \E s \in Source : SrcTaken(nc, Me, offer) = {s} /\ offer[s] \in Packets /\ x.pkt = offer[s]
         /\ x = NoFlit \/ ~IsHead(x) => SrcTaken(nc, Me, offer) = {}
<1>1. SentNow(nc, offer, x)
  BY Injects
<1>2. NoMsg \notin Packets
  BY PacketFacts DEF NoMsg
<1>3. CASE x = NoFlit /\ SrcTaken(nc, Me, offer) = {}
  BY <1>3
<1>4. ASSUME NEW n \in Vnet, Goes(nc, offer, x, n)
      PROVE  /\ x # NoFlit => x \in Flit /\ x.pkt.from # EAST /\ x.pkt.vnet \in Vnet /\ x.vc = Lane(x.pkt.vnet)
             /\ ~IsHead(x) /\ SrcTaken(nc, Me, offer) = {}
  <2>1. /\ Pk(nc, n) # Idle /\ x = [pkt |-> Pk(nc, n).pkt, i |-> Pk(nc, n).next, vc |-> Lane(n)]
        /\ SrcTaken(nc, Me, offer) = {}
    BY <1>4 DEF Goes
  <2>2. Pk(nc, n) \in InFlight /\ Pk(nc, n).pkt.vnet = n /\ Pk(nc, n).pkt.from # EAST /\ Pk(nc, n).next > 1
    BY <2>1 DEF Sorted, NicType, Pk
  <2>3. PICK k, i : k = Pk(nc, n).pkt /\ i = Pk(nc, n).next
    OBVIOUS
  <2>4. k \in Packets /\ i \in Nat \ {0} /\ i > 1 /\ k.vnet = n /\ k.from # EAST /\ Lane(n) \in Vc
    BY <2>2, <2>3, Lanes DEF InFlight
  <2>5. x = [pkt |-> k, i |-> i, vc |-> Lane(n)]
    BY <2>1, <2>3
  <2>6. x.pkt = k /\ x.i = i /\ x.vc = Lane(n) /\ x \in Flit
    BY <2>4, <2>5 DEF Flit
  <2>. QED
    BY <2>1, <2>4, <2>6 DEF IsHead
<1>5. ASSUME NEW n \in Vnet, NEW s \in Source, Begins(nc, offer, x, n, s)
      PROVE  /\ x \in Flit /\ x.pkt.from # EAST /\ x.pkt.vnet \in Vnet /\ x.vc = Lane(x.pkt.vnet) /\ IsHead(x)
             /\ SrcTaken(nc, Me, offer) = {s} /\ offer[s] \in Packets /\ x.pkt = offer[s]
  <2>1. /\ s[1] = n /\ offer[s] \in Packets /\ SrcTaken(nc, Me, offer) = {s}
        /\ x = [pkt |-> offer[s], i |-> 1, vc |-> Lane(n)]
    BY <1>5 DEF Begins
  <2>2. offer[s].vnet = n /\ offer[s].from = s[2]
    BY <1>2, <2>1 DEF OfferFits
  <2>3. s[2] # EAST
    BY DEF Source, L1, DIR, EAST
  <2>4. x.pkt = offer[s] /\ x.i = 1 /\ x.vc = Lane(n) /\ x \in Flit
    BY <2>1, Lanes DEF Flit
  <2>. QED
    BY <2>1, <2>2, <2>3, <2>4 DEF IsHead
<1>6. x = NoFlit => ~IsHead(x)
  BY DEF NoFlit, IsHead
<1>. QED
  BY <1>1, <1>3, <1>4, <1>5, <1>6, Wires DEF SentNow

\* It stays so.
LEMMA SortedStep ==
  ASSUME NEW nc, Sorted(nc), NEW x, x # NoFlit => x \in Flit /\ x.pkt.from # EAST /\ x.pkt.vnet \in Vnet /\ x.vc = Lane(x.pkt.vnet),
         NEW nc2, \A n \in Vnet : Pk(nc2, n) = NextPk(nc, n, x)
  PROVE  Sorted(nc2)
<1>. SUFFICES ASSUME NEW n \in Vnet, Pk(nc2, n) # Idle
              PROVE  Pk(nc2, n).pkt.vnet = n /\ Pk(nc2, n).pkt.from # EAST /\ Pk(nc2, n).next > 1
  BY DEF Sorted
<1>1. CASE x = NoFlit \/ VnetOf(x.vc) # n
  <2>1. Pk(nc2, n) = Pk(nc, n)
    BY <1>1 DEF NextPk, Pk
  <2>. QED
    BY <2>1 DEF Sorted
<1>2. CASE x # NoFlit /\ VnetOf(x.vc) = n
  <2>1. x.pkt.vnet = n /\ x.pkt.from # EAST /\ x.i \in Nat \ {0}
    BY <1>2, Lanes DEF Flit
  <2>2. ~IsTail(x) /\ Pk(nc2, n) = [pkt |-> x.pkt, vc |-> x.vc, next |-> x.i + 1]
    BY <1>2 DEF NextPk
  <2>. QED
    BY <2>1, <2>2
<1>. QED
  BY <1>1, <1>2

\* Where packets come from stays known.
LEMMA OriginsStep ==
  ASSUME NEW a, NEW fl, NEW cr, NEW ka, NEW na, NEW a2, NEW ka2, NEW na2,
         Stepped(a, Me, fl, cr, ka, na, a2, ka2, na2), Origins(ka, na),
         \A v \in Vc : Sends(fl[PORT_LOCAL], v) => fl[PORT_LOCAL].pkt.from # EAST /\ v = Lane(fl[PORT_LOCAL].pkt.vnet),
         \A p \in Port \ {PORT_LOCAL}, v \in Vc : Sends(fl[p], v) => fl[p].pkt.from = EAST
  PROVE  Origins(ka2, na2)
<1>. SUFFICES ASSUME NEW p \in Port, NEW v \in Vc, At(na2, p, v) > 0
              PROVE  IF p = PORT_LOCAL THEN At(ka2, p, v).from # EAST /\ v = Lane(At(ka2, p, v).vnet)
                     ELSE At(ka2, p, v).from = EAST
  BY DEF Origins
<1>1. /\ At(ka2, p, v) = Comer(fl[p], v, At(ka, p, v))
      /\ At(na2, p, v) = NextCome(a, p, v, fl[p], At(na, p, v)) /\ At(na, p, v) \in Nat
  BY DEF Stepped, Feed
<1>2. CASE Sends(fl[p], v)
  BY <1>1, <1>2 DEF Comer
<1>3. CASE ~Sends(fl[p], v)
  <2>1. At(na2, p, v) = 0 \/ At(na2, p, v) = At(na, p, v)
    BY <1>1, <1>3 DEF NextCome, Come, One
  <2>2. At(na, p, v) > 0 /\ At(ka2, p, v) = At(ka, p, v)
    BY <1>1, <1>3, <2>1 DEF Comer
  <2>. QED
    BY <2>2 DEF Origins
<1>. QED
  BY <1>2, <1>3

\* A message of this tile that comes on a channel is for this tile, and the channel is its.
Placed(k, v) == k.from # EAST => k.dst = Me /\ v = Lane(k.vnet)

Arrives(f, v, k, n) == Come(f, v, n) > 0 => Placed(Comer(f, v, k), v)

\* What comes on a channel keeps to its place, over a cycle.
LEMMA PlacedStep ==
  ASSUME NEW a, NEW fl, NEW cr, NEW ka, NEW na, NEW a2, NEW ka2, NEW na2,
         Stepped(a, Me, fl, cr, ka, na, a2, ka2, na2), Origins(ka, na), NEW nc2, NEW v \in Vc,
         NEW k, NEW n \in Nat, Arrives(Out(a, PORT_LOCAL), v, k, n), NEW k2, NEW n2, Counted(a, nc2, v, k, n, k2, n2)
  PROVE  Arrives(Out(a2, PORT_LOCAL), v, k2, n2)
<1>1. PICK f, f2 : f = Out(a, PORT_LOCAL) /\ f2 = Out(a2, PORT_LOCAL)
  OBVIOUS
<1>2. /\ k2 = Comer(f, v, k) /\ n2 = IF TailBack(nc2.ret, v) THEN 0 ELSE Come(f, v, n)
      /\ Come(f, v, n) > 0 => Placed(Comer(f, v, k), v)
  BY <1>1 DEF Counted, Arrives
<1>3. CASE Sends(f2, v)
  <2>1. f2 \in Flit /\ f2.pkt.from # EAST => v = Lane(f2.pkt.vnet) /\ Route(Me, f2.pkt.dst) = PORT_LOCAL
    BY <1>1, <1>3, ComesOut, Indices
  <2>2. f2 \in Flit /\ f2.pkt \in Packets
    <3>1. f2 \in Flit \cup {NoFlit}
      <4>1. RouterType(a2)
        BY RouterStep
      <4>. QED
        BY <1>1, <4>1, RouterFields, Indices
    <3>. QED
      BY <1>3, <3>1, Wires DEF Flit
  <2>3. Placed(f2.pkt, v)
    BY <2>1, <2>2, HomeRoute DEF Placed
  <2>. QED
    BY <1>1, <1>3, <2>3 DEF Arrives, Comer
<1>4. CASE ~Sends(f2, v)
  <2>1. Come(f2, v, n2) = n2 /\ Comer(f2, v, k2) = k2
    <3>1. n2 \in Nat
      BY <1>2 DEF Come, One
    <3>. QED
      BY <1>4, <3>1 DEF Come, Comer, One
  <2>2. n2 > 0 => Placed(k2, v)
    BY <1>2
  <2>. QED
    BY <1>1, <2>1, <2>2 DEF Arrives
<1>. QED
  BY <1>3, <1>4

\* A message of the tile to itself.
Self(k) == k.from # EAST /\ k.dst = Me

Waits(b, u) == {b, u} \ {NoMsg}

\* Over a cycle in which the messages of S are handed over, b and u become b2 and u2: dn
\* says that the one above goes below, acc that the one below is handed over, st that y
\* is started.
Hops(b, u, S, acc, dn, st, y, b2, u2) ==
    /\ acc \in BOOLEAN /\ dn \in BOOLEAN /\ st \in BOOLEAN
    /\ b # NoMsg => b # u /\ (b \in S <=> acc)
    /\ u # NoMsg => u \notin S
    /\ dn => b = NoMsg /\ u # NoMsg /\ b2 = u /\ u2 = NoMsg /\ ~st
    /\ ~dn => b2 = IF acc THEN NoMsg ELSE b
    /\ st => u = NoMsg /\ u2 = y /\ y # NoMsg /\ y # b
    /\ ~st /\ ~dn => u2 = u

\* The order becomes theirs.
LEMMA ChainStep ==
  ASSUME NEW b, NEW u, NEW S, NEW acc, NEW dn, NEW st, NEW y, NEW b2, NEW u2,
         Hops(b, u, S, acc, dn, st, y, b2, u2)
  PROVE  /\ (IF st THEN Append(Less(Chain(b, u), S), y) ELSE Less(Chain(b, u), S)) = Chain(b2, u2)
         /\ b2 # NoMsg => b2 # u2
         /\ \A k \in Waits(b2, u2) : (k \in Waits(b, u) /\ k \notin S) \/ (st /\ k = y)
<1>. USE DEF Hops
<1>1. PICK d : d = IF b \in S THEN NoMsg ELSE b
  OBVIOUS
<1>2. Less(Chain(b, u), S) = Chain(d, u)
  BY <1>1, ChainLess
<1>3. d = IF acc THEN NoMsg ELSE b
  BY <1>1
<1>4. CASE dn
  <2>1. d = NoMsg
    BY <1>3, <1>4
  <2>2. Chain(NoMsg, u) = Chain(b2, u2)
    BY <1>4 DEF Chain
  <2>. QED
    BY <1>2, <1>4, <2>1, <2>2 DEF Waits
<1>5. CASE ~dn /\ st
  <2>1. Append(Chain(d, NoMsg), y) = Chain(d, y)
    BY <1>5, ChainAppend
  <2>. QED
    BY <1>1, <1>2, <1>3, <1>5, <2>1 DEF Waits
<1>6. CASE ~dn /\ ~st
  BY <1>1, <1>2, <1>3, <1>6 DEF Waits
<1>. QED
  BY <1>4, <1>5, <1>6

---------------------------------------------------------------------------
(* What is handed over *)

\* The messages and packets that the tile is rid of in a cycle; f leaves it.
Done(nc, rdy, f) ==
    {nc.rx[v].pkt : v \in EjAccept(nc, rdy)}
      \cup (IF f # NoFlit THEN {g.pkt : g \in {g \in {f} : IsTail(g)}} ELSE {})

\* A message of the tile to itself that it is rid of is one shown on its channel.
LEMMA DoneSelf ==
  ASSUME NEW nc, NicType(nc), NEW rdy, NEW f, NEW k \in Done(nc, rdy, f), Self(k),
         f # NoFlit /\ f.pkt.from # EAST => f.pkt.dst # Me,
         \A v \in Vc : Slot(nc, v).full => Slot(nc, v).pkt \in Packets /\ Placed(Slot(nc, v).pkt, v)
  PROVE  k.vnet \in Vnet /\ Lane(k.vnet) \in EjAccept(nc, rdy) /\ k = Slot(nc, Lane(k.vnet)).pkt
<1>1. ~(f # NoFlit /\ k \in {g.pkt : g \in {g \in {f} : IsTail(g)}})
  BY DEF Self
<1>2. PICK v \in EjAccept(nc, rdy) : k = nc.rx[v].pkt
  BY <1>1 DEF Done
<1>3. v \in Vc /\ Slot(nc, v).full /\ k = Slot(nc, v).pkt
  BY <1>2, Accepts DEF Slot
<1>4. k \in Packets /\ v = Lane(k.vnet)
  BY <1>3 DEF Placed, Self
<1>5. k.vnet \in Vnet
  BY <1>4, RouterShape DEF Vnet
<1>. QED
  BY <1>2, <1>3, <1>4, <1>5

\* A full slot holds the message that is below.
LEMMA FullSlot ==
  ASSUME NEW nc, NicType(nc), NEW v \in Vc, NEW f, NEW k, NEW n \in Nat, SlotOk(nc, v, k, n), Slot(nc, v).full,
         Arrives(f, v, k, n), f \in Flit \cup {NoFlit}, Sends(f, v) => Follows(f, k, n)
  PROVE  /\ Slot(nc, v).pkt \in Packets /\ Placed(Slot(nc, v).pkt, v)
         /\ Below(nc, f, v, k, n) = Ours(Slot(nc, v).pkt)
<1>1. n > 0 /\ n = k.len /\ k = Slot(nc, v).pkt /\ v \notin nc.pend_tail
  BY DEF SlotOk
<1>2. Slot(nc, v).pkt \in Packets
  <2>1. Slot(nc, v) \in SlotRec
    BY DEF NicType, Slot
  <2>2. NoMsg.len = 0
    BY DEF NoMsg
  <2>. QED
    BY <1>1, <2>1, <2>2 DEF SlotRec
<1>3. ~Sends(f, v)
  <2>1. Sends(f, v) => f.i = n + 1 /\ f.i <= f.pkt.len /\ f.pkt = k
    BY <1>1 DEF Follows
  <2>. QED
    BY <1>1, <2>1
<1>4. Come(f, v, n) = n /\ Comer(f, v, k) = k
  BY <1>3 DEF Come, Comer, One
<1>. QED
  BY <1>1, <1>2, <1>4 DEF Arrives, Below

---------------------------------------------------------------------------
(* The queues of the controllers *)

InQueue(k, q) == \E s \in Source : \E j \in 1 .. Len(q[s]) : q[s][j] = k

\* A message of network n that has been taken from its queue and not been handed over.
Waiting(k, n, td, q) == Self(k) /\ k.vnet = n /\ k \notin td /\ ~InQueue(k, q)

\* A message is in one place of one queue, or still to be sent.
Unique(td, q) ==
    \A s \in Source : \A j \in 1 .. Len(q[s]) : Self(q[s][j]) =>
        /\ q[s][j] \notin td
        /\ \A t \in Source : \A i \in 1 .. Len(q[t]) : q[t][i] = q[s][j] => t = s /\ i = j

\* Where a message is found is where it is.
LEMMA OnlyThere ==
  ASSUME NEW td, NEW q, Unique(td, q), NEW s \in Source, NEW j \in 1 .. Len(q[s]), NEW k, k = q[s][j], Self(k)
  PROVE  k \notin td /\ \A t \in Source : \A i \in 1 .. Len(q[t]) : q[t][i] = k => t = s /\ i = j
BY DEF Unique

\* What is left of a queue, over a cycle in which those of T lose their first.
Shifted(q, T, q2) ==
    \A s \in Source :
        /\ Len(q[s]) \in Nat /\ (s \in T => 1 \in 1 .. Len(q[s]))
        /\ \A j \in 1 .. Len(q2[s]) :
             /\ s \notin T => j \in 1 .. Len(q[s]) /\ q2[s][j] = q[s][j]
             /\ s \in T => j + 1 \in 1 .. Len(q[s]) /\ q2[s][j] = q[s][j + 1]

\* The rest of a queue that loses its first is its tail.
LEMMA TailsShift ==
  ASSUME NEW q \in [Source -> Seq(Packets)], NEW T, \A s \in Source : s \in T => q[s] # <<>>,
         NEW q2, q2 = [s \in Source |-> IF s \in T THEN Tail(q[s]) ELSE q[s]]
  PROVE  Shifted(q, T, q2)
<1>1. ASSUME NEW s \in Source PROVE Len(q[s]) \in Nat /\ (s \in T => 1 \in 1 .. Len(q[s]))
  BY <1>1
<1>2. ASSUME NEW s \in Source, NEW j \in 1 .. Len(q2[s])
      PROVE  /\ s \notin T => j \in 1 .. Len(q[s]) /\ q2[s][j] = q[s][j]
             /\ s \in T => j + 1 \in 1 .. Len(q[s]) /\ q2[s][j] = q[s][j + 1]
  <2>1. PICK z \in Seq(Packets) : z = q[s]
    OBVIOUS
  <2>2. CASE s \notin T
    BY <1>2, <2>2
  <2>3. CASE s \in T
    <3>1. z # <<>> /\ q2[s] = Tail(z)
      BY <2>1, <2>3
    <3>2. Len(Tail(z)) = Len(z) - 1 /\ \A i \in 1 .. Len(Tail(z)) : Tail(z)[i] = z[i + 1]
      BY <3>1
    <3>3. j \in 1 .. Len(Tail(z)) /\ Len(z) \in Nat
      BY <1>2, <3>1
    <3>4. j + 1 \in 1 .. Len(z)
      BY <3>2, <3>3
    <3>. QED
      BY <2>1, <2>3, <3>1, <3>2, <3>3, <3>4
  <2>. QED
    BY <2>2, <2>3
<1>. QED
  BY <1>1, <1>2 DEF Shifted

\* None of the messages of S is in a queue.
Unqueued(S, q) == \A k \in S : Self(k) => ~InQueue(k, q)

\* A message taken is in no queue any more, and is not to be sent.
TakenOnce(q, T, q2, td2) ==
    \A s \in Source : s \in T /\ Self(q[s][1]) =>
        InQueue(q[s][1], q) /\ ~InQueue(q[s][1], q2) /\ q[s][1] \notin td2

\* What the queues hold over a cycle in which the messages of S are handed over.
LEMMA QueuesMove ==
  ASSUME NEW q, NEW T, NEW q2, Shifted(q, T, q2), FromHere(q), NEW td, Unique(td, q),
         NEW S, Unqueued(S, q), NEW td2, td2 \subseteq td \cup S
  PROVE  /\ FromHere(q2) /\ Unique(td2, q2) /\ \A k : InQueue(k, q2) => InQueue(k, q)
         /\ TakenOnce(q, T, q2, td2)
<1>0. \A s \in Source : s \in T => 1 \in 1 .. Len(q[s])
  BY DEF Shifted
<1>1. ASSUME NEW s \in Source, NEW j \in 1 .. Len(q2[s])
      PROVE  \E i \in 1 .. Len(q[s]) : q2[s][j] = q[s][i] /\ i = (IF s \in T THEN j + 1 ELSE j)
  BY <1>1 DEF Shifted
<1>2. \A k : InQueue(k, q2) => InQueue(k, q)
  BY <1>1 DEF InQueue
<1>3. FromHere(q2)
  <2>1. ASSUME NEW s \in Source, NEW j \in 1 .. Len(q2[s]) PROVE q2[s][j].vnet = s[1] /\ q2[s][j].from = s[2]
    <3>1. PICK i \in 1 .. Len(q[s]) : q2[s][j] = q[s][i]
      BY <1>1
    <3>2. q[s][i].vnet = s[1] /\ q[s][i].from = s[2]
      BY DEF FromHere
    <3>. QED
      BY <3>1, <3>2
  <2>. QED
    BY <2>1 DEF FromHere
<1>4. ASSUME NEW k, InQueue(k, q), Self(k) PROVE k \notin td2
  <2>1. PICK s \in Source : \E j \in 1 .. Len(q[s]) : q[s][j] = k
    BY <1>4 DEF InQueue
  <2>2. k \notin td
    BY <1>4, <2>1 DEF Unique
  <2>3. k \notin S
    BY <1>4 DEF Unqueued
  <2>. QED
    BY <2>2, <2>3
<1>5. ASSUME NEW s \in Source, NEW j \in 1 .. Len(q2[s]), Self(q2[s][j])
      PROVE  /\ q2[s][j] \notin td2
             /\ \A t \in Source : \A i \in 1 .. Len(q2[t]) : q2[t][i] = q2[s][j] => t = s /\ i = j
  <2>1. PICK j1 \in 1 .. Len(q[s]) : q2[s][j] = q[s][j1] /\ j1 = (IF s \in T THEN j + 1 ELSE j)
    BY <1>1
  <2>2. ASSUME NEW t \in Source, NEW i \in 1 .. Len(q2[t]), q2[t][i] = q2[s][j] PROVE t = s /\ i = j
    <3>1. PICK i1 \in 1 .. Len(q[t]) : q2[t][i] = q[t][i1] /\ i1 = (IF t \in T THEN i + 1 ELSE i)
      BY <1>1
    <3>2. t = s /\ i1 = j1
      <4>1. Self(q[s][j1])
        BY <1>5, <2>1
      <4>2. \A u \in Source : \A m \in 1 .. Len(q[u]) : q[u][m] = q[s][j1] => u = s /\ m = j1
        BY <4>1, OnlyThere
      <4>3. q[t][i1] = q[s][j1]
        BY <2>1, <2>2, <3>1
      <4>. QED
        BY <4>2, <4>3
    <3>. QED
      BY <2>1, <3>1, <3>2
  <2>3. InQueue(q2[s][j], q)
    BY <2>1 DEF InQueue
  <2>. QED
    BY <1>4, <1>5, <2>2, <2>3
<1>6. ASSUME NEW s \in Source, s \in T, Self(q[s][1])
      PROVE  InQueue(q[s][1], q) /\ ~InQueue(q[s][1], q2) /\ q[s][1] \notin td2
  <2>1. InQueue(q[s][1], q)
    BY <1>0, <1>6 DEF InQueue
  <2>2. ASSUME NEW t \in Source, NEW i \in 1 .. Len(q2[t]), q2[t][i] = q[s][1] PROVE FALSE
    <3>1. PICK i1 \in 1 .. Len(q[t]) : q2[t][i] = q[t][i1] /\ i1 = (IF t \in T THEN i + 1 ELSE i)
      BY <1>1
    <3>2. t = s /\ i1 = 1
      <4>1. \A u \in Source : \A m \in 1 .. Len(q[u]) : q[u][m] = q[s][1] => u = s /\ m = 1
        BY <1>0, <1>6, OnlyThere
      <4>2. q[t][i1] = q[s][1]
        BY <2>2, <3>1
      <4>. QED
        BY <4>1, <4>2
    <3>3. i + 1 = 1 /\ i \in 1 .. Len(q2[t])
      BY <1>6, <3>1, <3>2
    <3>. QED
      BY <3>3
  <2>. QED
    BY <1>4, <1>6, <2>1, <2>2 DEF InQueue
<1>. QED
  BY <1>2, <1>3, <1>5, <1>6 DEF Unique, TakenOnce

\* A message is put at the end of its queue,
Joined(q, k, q2) == q2 = [s \in Source |-> IF s = <<k.vnet, k.from>> THEN Append(q[s], k) ELSE q[s]]

\* where it is found once.
LEMMA QueueGrows ==
  ASSUME NEW q \in [Source -> Seq(Packets)], FromHere(q), NEW td, Unique(td, q), NEW k \in td, k \in Packets,
         NEW q2, Joined(q, k, q2)
  PROVE  FromHere(q2) /\ Unique(td \ {k}, q2) /\ \A m : InQueue(m, q2) => InQueue(m, q) \/ m = k
<1>1. ASSUME NEW s \in Source, NEW j \in 1 .. Len(q2[s])
      PROVE  \/ j \in 1 .. Len(q[s]) /\ q2[s][j] = q[s][j]
             \/ s = <<k.vnet, k.from>> /\ q2[s][j] = k /\ j = Len(q[s]) + 1
  <2>1. PICK z \in Seq(Packets) : z = q[s]
    OBVIOUS
  <2>2. CASE s = <<k.vnet, k.from>>
    <3>1. q2[s] = Append(z, k)
      BY <2>1, <2>2 DEF Joined
    <3>2. Len(Append(z, k)) = Len(z) + 1 /\ Len(z) \in Nat
          /\ \A i \in 1 .. Len(z) : Append(z, k)[i] = z[i]
          /\ Append(z, k)[Len(z) + 1] = k
      OBVIOUS
    <3>3. j \in 1 .. Len(z) \/ j = Len(z) + 1
      BY <1>1, <3>1, <3>2
    <3>4. CASE j \in 1 .. Len(z)
      <4>1. q2[s][j] = z[j]
        BY <3>1, <3>2, <3>4
      <4>. QED
        BY <2>1, <3>4, <4>1
    <3>5. CASE j = Len(z) + 1
      <4>1. q2[s][j] = k
        BY <3>1, <3>2, <3>5
      <4>. QED
        BY <2>1, <2>2, <3>5, <4>1
    <3>. QED
      BY <3>3, <3>4, <3>5
  <2>3. CASE s # <<k.vnet, k.from>>
    BY <1>1, <2>3 DEF Joined
  <2>. QED
    BY <2>2, <2>3
<1>2. ~Self(k) \/ ~InQueue(k, q)
  BY DEF Unique, InQueue
<1>3. FromHere(q2)
  <2>1. ASSUME NEW s \in Source, s = <<k.vnet, k.from>> PROVE k.vnet = s[1] /\ k.from = s[2]
    BY <2>1
  <2>. QED
    BY <1>1, <2>1 DEF FromHere
<1>4. \A m : InQueue(m, q2) => InQueue(m, q) \/ m = k
  BY <1>1 DEF InQueue
<1>5. ASSUME NEW s \in Source, NEW j \in 1 .. Len(q2[s]), Self(q2[s][j])
      PROVE  /\ q2[s][j] \notin td \ {k}
             /\ \A t \in Source : \A i \in 1 .. Len(q2[t]) : q2[t][i] = q2[s][j] => t = s /\ i = j
  <2>1. CASE q2[s][j] = k
    <3>1. \A t \in Source : \A i \in 1 .. Len(q[t]) : q[t][i] # k
      BY <1>2, <1>5, <2>1 DEF InQueue
    <3>2. ASSUME NEW t \in Source, NEW i \in 1 .. Len(q2[t]), q2[t][i] = k
          PROVE  t = <<k.vnet, k.from>> /\ i = Len(q[t]) + 1
      <4>1. ~(i \in 1 .. Len(q[t]) /\ q2[t][i] = q[t][i])
        BY <3>1, <3>2
      <4>. QED
        BY <1>1, <4>1
    <3>3. s = <<k.vnet, k.from>> /\ j = Len(q[s]) + 1
      BY <2>1, <3>2
    <3>. QED
      BY <2>1, <3>2, <3>3
  <2>2. CASE q2[s][j] # k
    <3>1. j \in 1 .. Len(q[s]) /\ q2[s][j] = q[s][j]
      BY <1>1, <2>2
    <3>2. ASSUME NEW t \in Source, NEW i \in 1 .. Len(q2[t]), q2[t][i] = q2[s][j] PROVE t = s /\ i = j
      <4>1. i \in 1 .. Len(q[t]) /\ q2[t][i] = q[t][i]
        BY <1>1, <2>2, <3>2
      <4>2. Self(q[s][j])
        BY <1>5, <3>1
      <4>3. j \in 1 .. Len(q[s])
        BY <3>1
      <4>4. q[t][i] = q[s][j]
        BY <3>1, <3>2, <4>1
      <4>5. \A u \in Source : \A m \in 1 .. Len(q[u]) : q[u][m] = q[s][j] => u = s /\ m = j
        BY <4>2, <4>3 DEF Unique
      <4>. QED
        BY <4>1, <4>4, <4>5
    <3>3. q2[s][j] \notin td
      BY <1>5, <3>1, OnlyThere
    <3>. QED
      BY <3>2, <3>3
  <2>. QED
    BY <2>1, <2>2
<1>. QED
  BY <1>3, <1>4, <1>5 DEF Unique

---------------------------------------------------------------------------
(* The order of one network *)

\* The order is of the message below and the one above, which have been taken and wait.
OrderOk(n, ord, b, u, td, q) ==
    /\ ord = Chain(b, u) /\ (b # NoMsg => b # u)
    /\ \A k \in Waits(b, u) : Waiting(k, n, td, q)

\* S is what the tile is rid of: of its own messages on network n, the one shown on v.
Rids(nc, rdy, v, n, S) ==
    /\ v \in EjAccept(nc, rdy) => Slot(nc, v).pkt \in S
    /\ \A m \in S : Self(m) /\ m.vnet = n => v \in EjAccept(nc, rdy) /\ m = Slot(nc, v).pkt

\* The order of network n, whose channel is v, over a cycle.
LEMMA OrderStep ==
  ASSUME NEW a, NEW fl, NEW cr, NEW ka, NEW na, NEW a2, NEW ka2, NEW na2, NEW nc, NEW offer, NEW rdy, NEW nc2,
         TileEdge(a, fl, cr, ka, na, a2, ka2, na2, nc, offer, rdy, nc2),
         Origins(ka, na), Sorted(nc), OfferFits(offer), NEW n \in Vnet, NEW v, v = Lane(n),
         NEW k, NEW i, NicOk(nc, a, ka, na, v, k, i), NEW k2, NEW i2, Counted(a, nc2, v, k, i, k2, i2),
         NEW f, f = Out(a, PORT_LOCAL), NEW f2, f2 = Out(a2, PORT_LOCAL),
         NEW b, b = Below(nc, f, v, k, i), NEW u, u = Above(Ivc(a, PORT_LOCAL, v), At(ka, PORT_LOCAL, v)),
         NEW b2, b2 = Below(nc2, f2, v, k2, i2), NEW u2, u2 = Above(Ivc(a2, PORT_LOCAL, v), At(ka2, PORT_LOCAL, v)),
         NEW S, Rids(nc, rdy, v, n, S), NEW td, NEW q, NEW ord, OrderOk(n, ord, b, u, td, q),
         NEW x, x = InjFlit(nc, Me, offer), NEW st \in BOOLEAN,
         st <=> (x # NoFlit /\ IsHead(x) /\ x.pkt.vnet = n /\ x.pkt.dst = Me), st => x.pkt # NoMsg /\ x.pkt # b
  PROVE  /\ (IF st THEN Append(Less(ord, S), x.pkt) ELSE Less(ord, S)) = Chain(b2, u2)
         /\ b2 # NoMsg => b2 # u2
         /\ \A m \in Waits(b2, u2) : (m \in Waits(b, u) /\ m \notin S) \/ (st /\ m = x.pkt)
<1>1. /\ Stepped(a, Me, fl, cr, ka, na, a2, ka2, na2) /\ fl[PORT_LOCAL] = x
      /\ OfferOk(offer) /\ NicType(nc) /\ \A m \in Vnet : Sending(nc, m)
  BY DEF TileEdge
<1>2. v \in Vc /\ VnetOf(v) = n /\ PORT_LOCAL \in Port
  BY Lanes, Indices
<1>3. PICK acc, tl : acc = (v \in EjAccept(nc, rdy)) /\ tl = TailBack(nc2.ret, v)
  OBVIOUS
<1>4. SlotMoves(nc, f, v, acc, tl, nc2) /\ acc \in BOOLEAN /\ tl \in BOOLEAN
  BY <1>2, <1>3, SlotDoes DEF TailBack
<1>5. /\ i \in Nat /\ SlotOk(nc, v, k, i) /\ (Sends(f, v) => Follows(f, k, i))
      /\ NicOk(nc2, a2, ka2, na2, v, k2, i2)
  <2>1. NicOk(nc2, a2, ka2, na2, v, k2, i2)
    BY <1>2, NicStep
  <2>2. OutChannel(a, f, PORT_LOCAL, v, ka, na, k, i, TailBack(nc.ret, v)) /\ i \in Nat /\ SlotOk(nc, v, k, i)
    BY DEF NicOk
  <2>. QED
    BY <2>1, <2>2, OutFollows
<1>6. i2 \in Nat /\ SlotOk(nc2, v, k2, i2) /\ (Sends(f2, v) => Follows(f2, k2, i2))
  <2>1. OutChannel(a2, f2, PORT_LOCAL, v, ka2, na2, k2, i2, TailBack(nc2.ret, v)) /\ i2 \in Nat /\ SlotOk(nc2, v, k2, i2)
    BY <1>5 DEF NicOk
  <2>. QED
    BY <2>1, OutFollows
<1>7. f \in Flit \cup {NoFlit} /\ f2 \in Flit \cup {NoFlit}
  <2>1. RouterType(a) /\ RouterType(a2)
    BY <1>1, RouterStep DEF Stepped
  <2>. QED
    BY <1>2, <2>1, RouterFields
<1>8. k2 = Comer(f, v, k) /\ i2 = IF tl THEN 0 ELSE Come(f, v, i)
  BY <1>3 DEF Counted
<1>9. /\ Slot(nc, v).full => b = Ours(Slot(nc, v).pkt)
      /\ acc => b2 = NoMsg /\ ~(Sends(f2, v) /\ IsHead(f2)) /\ Slot(nc, v).full
      /\ Sends(f2, v) /\ IsHead(f2) => b = NoMsg /\ b2 = Ours(f2.pkt)
      /\ ~acc /\ ~(Sends(f2, v) /\ IsHead(f2)) => b2 = b
  <2>1. LET d == Below(nc, f, v, k, i)
            d2 == Below(nc2, f2, v, k2, i2)
            comes == Sends(f2, v) /\ IsHead(f2)
        IN  /\ Slot(nc, v).full => /\ Come(f, v, i) > 0 /\ Comer(f, v, k) = Slot(nc, v).pkt
                                   /\ d = Ours(Slot(nc, v).pkt)
            /\ acc => d2 = NoMsg /\ ~comes /\ Slot(nc, v).full
            /\ comes => d = NoMsg /\ d2 = Ours(f2.pkt)
            /\ ~acc /\ ~comes => d2 = d
    BY <1>2, <1>4, <1>5, <1>6, <1>7, <1>8, BelowStep
  <2>. QED
    BY <2>1
<1>10. PICK dn, gone : dn = Descends(a, v) /\ gone = (Sends(x, v) /\ IsHead(x))
  OBVIOUS
<1>11. /\ dn => /\ u2 = NoMsg /\ ~gone /\ u # NoMsg /\ Ours(u) = u
                /\ Sends(f2, v) /\ IsHead(f2) /\ f2.pkt = u
       /\ gone => u = NoMsg /\ u2 = IF x.pkt.dst = Me THEN x.pkt ELSE NoMsg
       /\ ~gone /\ ~dn => u2 = u
       /\ dn \in BOOLEAN
  <2>1. /\ Descends(a, v) => /\ u2 = NoMsg /\ ~(Sends(x, v) /\ IsHead(x)) /\ u # NoMsg /\ Ours(u) = u
                             /\ Sends(f2, v) /\ IsHead(f2) /\ f2.pkt = u
        /\ (Sends(x, v) /\ IsHead(x)) => u = NoMsg /\ u2 = IF x.pkt.dst = Me THEN x.pkt ELSE NoMsg
        /\ ~(Sends(x, v) /\ IsHead(x)) /\ ~Descends(a, v) => u2 = u
    BY <1>1, <1>2, AboveStep
  <2>. QED
    BY <1>10, <2>1 DEF Descends
<1>12. Sends(f2, v) /\ IsHead(f2) /\ ~dn => Ours(f2.pkt) = NoMsg
  BY <1>1, <1>2, <1>10, ComesOut DEF Ours
<1>13. gone <=> (x # NoFlit /\ IsHead(x) /\ x.pkt.vnet = n)
  <2>1. x # NoFlit => x \in Flit /\ x.pkt.vnet \in Vnet /\ x.vc = Lane(x.pkt.vnet)
    BY <1>1, NicStarts
  <2>2. Sends(x, v) <=> x # NoFlit /\ x.pkt.vnet = n
    BY <1>2, <2>1, Lanes, Wires DEF Sends
  <2>. QED
    BY <1>10, <2>2
<1>14. \A m \in Waits(b, u) : Self(m) /\ m.vnet = n
  BY DEF OrderOk, Waiting
<1>15. b # NoMsg => (b \in S <=> acc)
  <2>1. b # NoMsg => Self(b) /\ b.vnet = n
    BY <1>14 DEF Waits
  <2>2. b # NoMsg /\ acc => b = Slot(nc, v).pkt
    BY <1>9 DEF Ours
  <2>. QED
    BY <1>3, <2>1, <2>2 DEF Rids
<1>16. u # NoMsg => u \notin S
  <2>. SUFFICES ASSUME u # NoMsg, u \in S PROVE FALSE
    OBVIOUS
  <2>1. Self(u) /\ u.vnet = n
    BY <1>14 DEF Waits
  <2>2. acc /\ u = Slot(nc, v).pkt
    BY <1>3, <2>1 DEF Rids
  <2>3. b = u
    BY <1>9, <2>1, <2>2 DEF Ours, Self
  <2>. QED
    BY <2>3 DEF OrderOk
<1>17. dn => b = NoMsg /\ u # NoMsg /\ b2 = u /\ u2 = NoMsg /\ ~st
  BY <1>9, <1>11, <1>13
<1>18. ~dn => b2 = IF acc THEN NoMsg ELSE b
  BY <1>9, <1>12
<1>19. st => u = NoMsg /\ u2 = x.pkt /\ x.pkt # NoMsg /\ x.pkt # b
  BY <1>11, <1>13
<1>20. ~st /\ ~dn => u2 = u
  BY <1>11, <1>13
<1>21. PICK y : y = x.pkt
  OBVIOUS
<1>22. ord = Chain(b, u) /\ (b # NoMsg => b # u)
  BY DEF OrderOk
<1>23. st => u = NoMsg /\ u2 = y /\ y # NoMsg /\ y # b
  BY <1>19, <1>21
<1>24. Hops(b, u, S, acc, dn, st, y, b2, u2)
  BY <1>4, <1>11, <1>15, <1>16, <1>17, <1>18, <1>20, <1>22, <1>23 DEF Hops
<1>25. /\ (IF st THEN Append(Less(Chain(b, u), S), y) ELSE Less(Chain(b, u), S)) = Chain(b2, u2)
       /\ b2 # NoMsg => b2 # u2
       /\ \A m \in Waits(b2, u2) : (m \in Waits(b, u) /\ m \notin S) \/ (st /\ m = y)
  BY <1>24, ChainStep
<1>. QED
  BY <1>21, <1>22, <1>25

\* A clock edge moves the interface and the router together.
LEMMA TileMoves ==
  ASSUME NEW K, NEW N, NEW KS, NEW NS, TileInv(K, N, KS, NS), tick,
         NEW K2, NEW N2, NEW KS2, NEW NS2, TileLater(K, N, KS, NS, K2, N2, KS2, NS2)
  PROVE  TileEdge(rtr, FlitsIn, CreditsBack, K, N, rtr', K2, N2, nic, Offered, ready, nic')
<1>1. PICK a, a2, nc, nc2, fl, cr :
        a = rtr /\ a2 = rtr' /\ nc = nic /\ nc2 = nic' /\ fl = FlitsIn /\ cr = CreditsBack
  OBVIOUS
<1>2. Edge(a, Me, fl, cr, a2) /\ NicEdge(nc, Offered, Out(a, PORT_LOCAL), Ret(a, PORT_LOCAL), ready, nc2)
  BY <1>1, TickDoes
<1>3. Stepped(a, Me, fl, cr, K, N, a2, K2, N2)
  BY <1>1, <1>2, TileFed DEF Stepped, TileLater, TileInv
<1>4. fl[PORT_LOCAL] = InjFlit(nc, Me, Offered) /\ cr[PORT_LOCAL] = nc.ret
  BY <1>1, WiresIn
<1>5. NicType(nc) /\ (\A m \in Vnet : Sending(nc, m)) /\ OfferOk(Offered)
  BY <1>1, OfferedOk DEF TileInv
<1>6. TileEdge(a, fl, cr, K, N, a2, K2, N2, nc, Offered, ready, nc2)
  BY <1>2, <1>3, <1>4, <1>5 DEF TileEdge
<1>. QED
  BY <1>1, <1>6

\* What a clock edge does to the order and to what is still to be sent.
LEMMA TickOrders ==
  ASSUME tick, NEW S, S = Done(nic, ready, Out(rtr', PORT_EAST))
  PROVE  /\ order' = [n \in Vnet |-> Reordered(n, InjFlit(nic, Me, Offered), S)]
         /\ todo' \subseteq todo \cup S
<1>. DEFINE rid(r) == {nic.rx[v].pkt : v \in EjAccept(nic, ready)}
                        \cup (IF r.out[PORT_EAST] # NoFlit
                              THEN {f.pkt : f \in {f \in {r.out[PORT_EAST]} : IsTail(f)}} ELSE {})
<1>1. PICK x, r : /\ x = InjFlit(nic, Me, Offered) /\ rtr' = r
                 /\ order' = [n \in Vnet |-> Reordered(n, x, rid(r))]
                 /\ todo' = IF load.again THEN todo \cup rid(r) ELSE todo
  BY DEF tick
<1>2. rid(r) = S
  BY <1>1 DEF Done, Out
<1>. HIDE DEF rid
<1>. QED
  BY <1>1, <1>2

---------------------------------------------------------------------------
(* The order of all networks *)

EastPackets == {k \in Packets : k.from = EAST}

BelowOn(nc, a, KS, NS, n) == Below(nc, Out(a, PORT_LOCAL), Lane(n), KS[Lane(n)], NS[Lane(n)])
AboveOn(a, K, n) == Above(Ivc(a, PORT_LOCAL, Lane(n)), At(K, PORT_LOCAL, Lane(n)))

Ordered(K, N, KS, NS) ==
    /\ TileInv(K, N, KS, NS)
    /\ FromHere(queue) /\ Unique(todo, queue) /\ Sorted(nic) /\ Origins(K, N)
    /\ \A v \in Vc : Arrives(Out(rtr, PORT_LOCAL), v, KS[v], NS[v])
    /\ Carries(host, EastPackets) /\ (east_flit # NoFlit => east_flit.pkt \in EastPackets)
    /\ \A n \in Vnet : OrderOk(n, order[n], BelowOn(nic, rtr, KS, NS, n), AboveOn(rtr, K, n), todo, queue)

\* What is held out is of the port it is held out on.
LEMMA OffersFit ==
  ASSUME NEW K, NEW N, NEW KS, NEW NS, Ordered(K, N, KS, NS)
  PROVE  OfferFits(Offered) /\ OfferOk(Offered)
         /\ \A s \in Source : Offered[s] # NoMsg => queue[s] # <<>> /\ Offered[s] = queue[s][1]
<1>1. queue \in [Source -> Seq(Packets)] /\ FromHere(queue)
  BY DEF Ordered, TileInv
<1>2. OfferOk(Offered)
  BY <1>1, OfferedOk
<1>3. \A s \in Source : Offered[s] # NoMsg => queue[s] # <<>> /\ Offered[s] = queue[s][1]
  BY DEF Offered
<1>4. ASSUME NEW s \in Source, Offered[s] # NoMsg PROVE Offered[s].vnet = s[1] /\ Offered[s].from = s[2]
  <2>1. queue[s] \in Seq(Packets) /\ queue[s] # <<>> /\ Offered[s] = queue[s][1]
    BY <1>1, <1>3, <1>4
  <2>2. 1 \in 1 .. Len(queue[s])
    BY <2>1
  <2>. QED
    BY <1>1, <2>1, <2>2 DEF FromHere
<1>. QED
  BY <1>2, <1>3, <1>4 DEF OfferFits

\* What is known of the channels of the interface beside the order.
LEMMA OrderedSlots ==
  ASSUME NEW K, NEW N, NEW KS, NEW NS, Ordered(K, N, KS, NS), NEW v \in Vc, Slot(nic, v).full
  PROVE  /\ Slot(nic, v).pkt \in Packets /\ Placed(Slot(nic, v).pkt, v)
         /\ Below(nic, Out(rtr, PORT_LOCAL), v, KS[v], NS[v]) = Ours(Slot(nic, v).pkt)
<1>1. PICK f, k, i : f = Out(rtr, PORT_LOCAL) /\ k = KS[v] /\ i = NS[v]
  OBVIOUS
<1>2. NicOk(nic, rtr, K, N, v, k, i) /\ NicType(nic) /\ RouterType(rtr) /\ Arrives(f, v, k, i)
  BY <1>1 DEF Ordered, TileInv
<1>3. i \in Nat /\ SlotOk(nic, v, k, i) /\ OutChannel(rtr, f, PORT_LOCAL, v, K, N, k, i, TailBack(nic.ret, v))
  BY <1>1, <1>2 DEF NicOk
<1>4. Sends(f, v) => Follows(f, k, i)
  BY <1>3, OutFollows
<1>5. f \in Flit \cup {NoFlit}
  BY <1>1, <1>2, RouterFields, WiresIn
<1>6. /\ Slot(nic, v).pkt \in Packets /\ Placed(Slot(nic, v).pkt, v)
      /\ Below(nic, f, v, k, i) = Ours(Slot(nic, v).pkt)
  BY <1>2, <1>3, <1>4, <1>5, FullSlot
<1>. QED
  BY <1>1, <1>6

\* What the tile is rid of: the messages to itself are those below that are accepted.
LEMMA OrderedDone ==
  ASSUME NEW K, NEW N, NEW KS, NEW NS, Ordered(K, N, KS, NS), tick,
         NEW K2, NEW N2, NEW KS2, NEW NS2, TileLater(K, N, KS, NS, K2, N2, KS2, NS2),
         NEW S, S = Done(nic, ready, Out(rtr', PORT_EAST))
  PROVE  /\ \A n \in Vnet : Rids(nic, ready, Lane(n), n, S)
         /\ Unqueued(S, queue)
<1>1. PICK a2, nc, f : a2 = rtr' /\ nc = nic /\ f = Out(a2, PORT_EAST)
  OBVIOUS
<1>2. TileInv(K, N, KS, NS) /\ Origins(K, N)
  BY DEF Ordered
<1>3. Stepped(rtr, Me, FlitsIn, CreditsBack, K, N, a2, K2, N2) /\ NicType(nc)
  BY <1>1, <1>2, TileMoves DEF TileEdge
<1>4. f # NoFlit /\ f.pkt.from # EAST => f.pkt.dst # Me
  <2>. SUFFICES ASSUME f # NoFlit, f.pkt.from # EAST PROVE f.pkt.dst # Me
    OBVIOUS
  <2>1. RouterType(a2) /\ PORT_EAST \in Port /\ PORT_EAST # PORT_LOCAL
    BY <1>3, RouterStep, WiresIn
  <2>2. f \in Flit
    BY <1>1, <2>1, RouterFields
  <2>3. f.vc \in Vc /\ Sends(f, f.vc) /\ f.pkt \in Packets
    BY <2>2, Wires DEF Flit, Sends
  <2>4. Route(Me, f.pkt.dst) = PORT_EAST
    BY <1>1, <1>2, <1>3, <2>1, <2>2, <2>3, ComesOut
  <2>. QED
    BY <2>1, <2>3, <2>4, HomeRoute
<1>5. \A v \in Vc : Slot(nc, v).full => /\ Slot(nc, v).pkt \in Packets /\ Placed(Slot(nc, v).pkt, v)
                                       /\ Below(nc, Out(rtr, PORT_LOCAL), v, KS[v], NS[v]) = Ours(Slot(nc, v).pkt)
  BY <1>1, OrderedSlots
<1>6. ASSUME NEW k \in S, Self(k)
      PROVE  k.vnet \in Vnet /\ Lane(k.vnet) \in EjAccept(nc, ready) /\ k = Slot(nc, Lane(k.vnet)).pkt
  <2>1. k \in Done(nc, ready, f)
    BY <1>1, <1>6
  <2>. QED
    BY <1>3, <1>4, <1>5, <1>6, <2>1, DoneSelf
<1>7. ASSUME NEW n \in Vnet PROVE Rids(nc, ready, Lane(n), n, S)
  <2>1. Lane(n) \in EjAccept(nc, ready) => Slot(nc, Lane(n)).pkt \in S
    BY <1>1 DEF Done, Slot
  <2>. QED
    BY <1>6, <2>1 DEF Rids
<1>8. ASSUME NEW k \in S, Self(k) PROVE ~InQueue(k, queue)
  <2>1. PICK n \in Vnet, v \in Vc : n = k.vnet /\ v = Lane(n)
    BY <1>6, <1>8, Lanes
  <2>2. v \in EjAccept(nc, ready) /\ k = Slot(nc, v).pkt
    BY <1>6, <1>8, <2>1
  <2>3. Slot(nc, v).full
    BY <2>2, Accepts
  <2>4. k \in Packets /\ BelowOn(nc, rtr, KS, NS, n) = Ours(k)
    BY <1>5, <2>1, <2>2, <2>3 DEF BelowOn
  <2>5. Ours(k) = k /\ k # NoMsg
    BY <1>8, <2>4, PacketFacts DEF Self, Ours, NoMsg
  <2>6. OrderOk(n, order[n], BelowOn(nc, rtr, KS, NS, n), AboveOn(rtr, K, n), todo, queue)
    BY <1>1 DEF Ordered
  <2>. QED
    BY <2>4, <2>5, <2>6 DEF OrderOk, Waits, Waiting
<1>. QED
  BY <1>1, <1>7, <1>8 DEF Unqueued

\* What the interface starts of this tile's messages to itself comes from a queue.
LEMMA StartsOwn ==
  ASSUME NEW K, NEW N, NEW KS, NEW NS, Ordered(K, N, KS, NS), NEW x, x = InjFlit(nic, Me, Offered),
         x # NoFlit, IsHead(x), x.pkt.dst = Me
  PROVE  \E s \in Source : /\ s \in SrcTaken(nic, Me, Offered) /\ x.pkt = queue[s][1]
                           /\ Self(x.pkt) /\ x.pkt \in Packets
<1>1. NicType(nic) /\ (\A m \in Vnet : Sending(nic, m)) /\ Sorted(nic)
  BY DEF Ordered, TileInv
<1>2. OfferFits(Offered) /\ OfferOk(Offered) /\ \A s \in Source : Offered[s] # NoMsg => Offered[s] = queue[s][1]
  BY OffersFit
<1>3. PICK q : q = Offered
  OBVIOUS
<1>4. /\ x.pkt.from # EAST
      /\ \E s \in Source : SrcTaken(nic, Me, q) = {s} /\ q[s] \in Packets /\ x.pkt = q[s]
  BY <1>1, <1>2, <1>3, NicStarts
<1>5. PICK s \in Source : SrcTaken(nic, Me, q) = {s} /\ q[s] \in Packets /\ x.pkt = q[s]
  BY <1>4
<1>6. q[s] # NoMsg
  BY <1>5, PacketFacts DEF NoMsg
<1>. QED
  BY <1>2, <1>3, <1>4, <1>5, <1>6 DEF Self

\* What the queues hold after a clock edge.
LEMMA OrderedQueues ==
  ASSUME NEW K, NEW N, NEW KS, NEW NS, Ordered(K, N, KS, NS), tick,
         NEW S, S = Done(nic, ready, Out(rtr', PORT_EAST)), Unqueued(S, queue)
  PROVE  /\ FromHere(queue') /\ Unique(todo', queue') /\ \A k : InQueue(k, queue') => InQueue(k, queue)
         /\ TakenOnce(queue, SrcTaken(nic, Me, Offered), queue', todo')
<1>1. PICK q, q2, T, td, td2 : /\ q = queue /\ q2 = queue' /\ T = SrcTaken(nic, Me, Offered)
                              /\ td = todo /\ td2 = todo'
  OBVIOUS
<1>2. q \in [Source -> Seq(Packets)] /\ FromHere(q) /\ Unique(td, q) /\ NicType(nic)
      /\ (\A m \in Vnet : Sending(nic, m))
  BY <1>1 DEF Ordered, TileInv
<1>3. q2 = [s \in Source |-> IF s \in T THEN Tail(q[s]) ELSE q[s]]
  BY <1>1, TickDoes
<1>4. td2 \subseteq td \cup S
  BY <1>1, TickOrders
<1>5. ASSUME NEW s \in Source, s \in T PROVE q[s] # <<>>
  <2>1. OfferOk(Offered) /\ \A t \in Source : Offered[t] # NoMsg => queue[t] # <<>>
    BY OffersFit
  <2>2. SentNow(nic, Offered, InjFlit(nic, Me, Offered))
    BY <1>2, <2>1, Injects
  <2>3. Offered[s] \in Packets
    BY <1>1, <1>5, <2>2 DEF SentNow, Goes, Begins
  <2>4. Offered[s] # NoMsg
    BY <2>3, PacketFacts DEF NoMsg
  <2>. QED
    BY <1>1, <2>1, <2>4
<1>6. Shifted(q, T, q2)
  BY <1>2, <1>3, <1>5, TailsShift
<1>7. Unqueued(S, q)
  BY <1>1
<1>8. /\ FromHere(q2) /\ Unique(td2, q2) /\ \A k : InQueue(k, q2) => InQueue(k, q)
      /\ TakenOnce(q, T, q2, td2)
  BY <1>2, <1>4, <1>6, <1>7, QueuesMove, SMTT(30), ZenonT(30)
<1>. QED
  BY <1>1, <1>8

\* The order of a network after a clock edge.
LEMMA OrderedNetwork ==
  ASSUME NEW K, NEW N, NEW KS, NEW NS, Ordered(K, N, KS, NS), tick,
         NEW K2, NEW N2, NEW KS2, NEW NS2, TileLater(K, N, KS, NS, K2, N2, KS2, NS2), NEW n \in Vnet
  PROVE  OrderOk(n, order'[n], BelowOn(nic', rtr', KS2, NS2, n), AboveOn(rtr', K2, n), todo', queue')
<1>1. PICK S : S = Done(nic, ready, Out(rtr', PORT_EAST))
  OBVIOUS
<1>2. (\A m \in Vnet : Rids(nic, ready, Lane(m), m, S)) /\ Unqueued(S, queue)
  BY <1>1, OrderedDone
<1>3. /\ \A k : InQueue(k, queue') => InQueue(k, queue)
      /\ TakenOnce(queue, SrcTaken(nic, Me, Offered), queue', todo')
  BY <1>1, <1>2, OrderedQueues
<1>4. order' = [m \in Vnet |-> Reordered(m, InjFlit(nic, Me, Offered), S)] /\ todo' \subseteq todo \cup S
  BY <1>1, TickOrders
<1>5. PICK a, a2, nc, nc2, fl, cr, offer, x, v :
        /\ a = rtr /\ a2 = rtr' /\ nc = nic /\ nc2 = nic' /\ fl = FlitsIn /\ cr = CreditsBack
        /\ offer = Offered /\ x = InjFlit(nic, Me, Offered) /\ v = Lane(n)
  OBVIOUS
<1>6. PICK k, i, k2, i2 : k = KS[v] /\ i = NS[v] /\ k2 = KS2[v] /\ i2 = NS2[v]
  OBVIOUS
<1>7. PICK b, u, b2, u2 :
        /\ b = Below(nc, Out(a, PORT_LOCAL), v, k, i) /\ u = Above(Ivc(a, PORT_LOCAL, v), At(K, PORT_LOCAL, v))
        /\ b2 = Below(nc2, Out(a2, PORT_LOCAL), v, k2, i2)
        /\ u2 = Above(Ivc(a2, PORT_LOCAL, v), At(K2, PORT_LOCAL, v))
  OBVIOUS
<1>8. /\ BelowOn(nic, rtr, KS, NS, n) = b /\ AboveOn(rtr, K, n) = u
      /\ BelowOn(nic', rtr', KS2, NS2, n) = b2 /\ AboveOn(rtr', K2, n) = u2
  BY <1>5, <1>6, <1>7 DEF BelowOn, AboveOn
<1>9. TileInv(K, N, KS, NS) /\ Origins(K, N) /\ Sorted(nc)
  BY <1>5 DEF Ordered
<1>10. PICK ord, td, q : /\ ord = order[n] /\ td = todo /\ q = queue
  OBVIOUS
<1>11. OrderOk(n, ord, b, u, td, q)
  BY <1>8, <1>10 DEF Ordered
<1>12. TileEdge(a, fl, cr, K, N, a2, K2, N2, nc, offer, ready, nc2)
  BY <1>5, <1>9, TileMoves
<1>13. v \in Vc
  BY <1>5, Lanes
<1>14. NicOk(nc, a, K, N, v, k, i) /\ Counted(a, nc2, v, k, i, k2, i2)
  BY <1>5, <1>6, <1>9, <1>13 DEF TileInv, TileLater
<1>15. OfferFits(offer) /\ Rids(nc, ready, v, n, S)
  BY <1>2, <1>5, OffersFit
<1>16. PICK st : st = (x # NoFlit /\ IsHead(x) /\ x.pkt.vnet = n /\ x.pkt.dst = Me)
  OBVIOUS
<1>17. st \in BOOLEAN
  BY <1>16
<1>18. st => /\ x.pkt \in Packets /\ Self(x.pkt) /\ x.pkt.vnet = n
             /\ InQueue(x.pkt, q) /\ ~InQueue(x.pkt, queue') /\ x.pkt \notin todo'
  <2>. SUFFICES ASSUME st
                PROVE  /\ x.pkt \in Packets /\ Self(x.pkt) /\ x.pkt.vnet = n
                       /\ InQueue(x.pkt, q) /\ ~InQueue(x.pkt, queue') /\ x.pkt \notin todo'
    OBVIOUS
  <2>1. PICK s \in Source : /\ s \in SrcTaken(nic, Me, Offered) /\ x.pkt = queue[s][1]
                            /\ Self(x.pkt) /\ x.pkt \in Packets
    BY <1>5, <1>16, StartsOwn
  <2>. QED
    BY <1>3, <1>10, <1>16, <2>1 DEF TakenOnce
<1>19. st => x.pkt # NoMsg /\ x.pkt # b
  <2>1. st => x.pkt # NoMsg
    BY <1>18, PacketFacts DEF NoMsg
  <2>2. \A m \in Waits(b, u) : ~InQueue(m, q)
    BY <1>11 DEF OrderOk, Waiting
  <2>. QED
    BY <1>18, <2>1, <2>2 DEF Waits
<1>20. /\ (IF st THEN Append(Less(ord, S), x.pkt) ELSE Less(ord, S)) = Chain(b2, u2)
       /\ b2 # NoMsg => b2 # u2
       /\ \A m \in Waits(b2, u2) : (m \in Waits(b, u) /\ m \notin S) \/ (st /\ m = x.pkt)
  <2>1. PICK f, f2, o : f = Out(a, PORT_LOCAL) /\ f2 = Out(a2, PORT_LOCAL) /\ o = ready
    OBVIOUS
  <2>2. st <=> (x # NoFlit /\ IsHead(x) /\ x.pkt.vnet = n /\ x.pkt.dst = Me)
    BY <1>16
  <2>3. x = InjFlit(nc, Me, offer)
    BY <1>5
  <2>. QED
    BY <1>5, <1>7, <1>9, <1>11, <1>12, <1>14, <1>15, <1>17, <1>19, <2>1, <2>2, <2>3, OrderStep
<1>21. order'[n] = Chain(b2, u2)
  <2>1. order'[n] = Reordered(n, x, S)
    BY <1>4, <1>5
  <2>2. Reordered(n, x, S) = IF st THEN Append(Less(ord, S), x.pkt) ELSE Less(ord, S)
    BY <1>10, <1>16 DEF Reordered
  <2>. QED
    BY <1>20, <2>1, <2>2
<1>22. ASSUME NEW m \in Waits(b2, u2) PROVE Waiting(m, n, todo', queue')
  <2>1. CASE m \in Waits(b, u) /\ m \notin S
    <3>1. Self(m) /\ m.vnet = n /\ m \notin todo /\ ~InQueue(m, queue)
      BY <1>10, <1>11, <2>1 DEF OrderOk, Waiting
    <3>. QED
      BY <1>3, <1>4, <2>1, <3>1 DEF Waiting
  <2>2. CASE st /\ m = x.pkt
    BY <1>18, <2>2 DEF Waiting
  <2>. QED
    BY <1>20, <2>1, <2>2
<1>23. OrderOk(n, order'[n], b2, u2, todo', queue')
  BY <1>20, <1>21, <1>22 DEF OrderOk
<1>. QED
  BY <1>8, <1>23

\* A clock edge keeps the order.
LEMMA OrderedTick ==
  ASSUME NEW K, NEW N, NEW KS, NEW NS, Ordered(K, N, KS, NS), tick,
         NEW K2, NEW N2, NEW KS2, NEW NS2, TileLater(K, N, KS, NS, K2, N2, KS2, NS2)
  PROVE  Ordered(K2, N2, KS2, NS2)'
<1>1. TileInv(K, N, KS, NS) /\ TileInv(K2, N2, KS2, NS2)'
  BY TileTick DEF Ordered
<1>2. PICK a, a2, nc, nc2, h, h2, ef, ef2, ec2, fl, cr, x, q :
        /\ a = rtr /\ a2 = rtr' /\ nc = nic /\ nc2 = nic' /\ h = host /\ h2 = host'
        /\ ef = east_flit /\ ef2 = east_flit' /\ ec2 = east_credit' /\ fl = FlitsIn /\ cr = CreditsBack
        /\ x = InjFlit(nic, Me, Offered) /\ q = Offered
  OBVIOUS
<1>3. TileEdge(a, fl, cr, K, N, a2, K2, N2, nc, q, ready, nc2)
  BY <1>1, <1>2, TileMoves
<1>4. /\ Stepped(a, Me, fl, cr, K, N, a2, K2, N2) /\ NicType(nc) /\ (\A m \in Vnet : Sending(nc, m))
      /\ NicEdge(nc, q, Out(a, PORT_LOCAL), Ret(a, PORT_LOCAL), ready, nc2) /\ x = InjFlit(nc, Me, q)
  BY <1>2, <1>3 DEF TileEdge
<1>5. Sorted(nc) /\ Origins(K, N) /\ OfferFits(q) /\ OfferOk(q)
  BY <1>2, OffersFit DEF Ordered
<1>6. x # NoFlit => x \in Flit /\ x.pkt.from # EAST /\ x.pkt.vnet \in Vnet /\ x.vc = Lane(x.pkt.vnet)
  BY <1>4, <1>5, NicStarts
<1>7. Sorted(nc2)
  <2>1. \A m \in Vnet : Pk(nc2, m) = NextPk(nc, m, x)
    BY <1>4, NicFields
  <2>. QED
    BY <1>5, <1>6, <2>1, SortedStep
<1>8. ef # NoFlit => ef.pkt \in EastPackets
  BY <1>2 DEF Ordered
<1>9. Origins(K2, N2)
  <2>1. /\ fl[PORT_LOCAL] = x /\ fl[PORT_EAST] = ef
        /\ \A p \in Port \ {PORT_LOCAL, PORT_EAST} : fl[p] = NoFlit
    BY <1>2, WiresIn
  <2>2. \A v \in Vc : Sends(fl[PORT_LOCAL], v) => fl[PORT_LOCAL].pkt.from # EAST /\ v = Lane(fl[PORT_LOCAL].pkt.vnet)
    BY <1>6, <2>1, Wires DEF Sends
  <2>3. ASSUME NEW p \in Port \ {PORT_LOCAL}, NEW v \in Vc, Sends(fl[p], v) PROVE fl[p].pkt.from = EAST
    <3>1. p = PORT_EAST /\ fl[p] # NoFlit
      BY <2>1, <2>3, Wires
    <3>. QED
      BY <1>8, <2>1, <3>1 DEF EastPackets
  <2>. QED
    BY <1>4, <1>5, <2>2, <2>3, OriginsStep
<1>10. ASSUME NEW v \in Vc PROVE Arrives(Out(a2, PORT_LOCAL), v, KS2[v], NS2[v])
  <2>1. PICK k, i, k2, i2 : k = KS[v] /\ i = NS[v] /\ k2 = KS2[v] /\ i2 = NS2[v]
    OBVIOUS
  <2>2. Arrives(Out(a, PORT_LOCAL), v, k, i) /\ Counted(a, nc2, v, k, i, k2, i2)
    BY <1>2, <2>1 DEF Ordered, TileLater
  <2>3. i \in Nat
    BY <1>1, <2>1 DEF TileInv, NicOk
  <2>4. Arrives(Out(a2, PORT_LOCAL), v, k2, i2)
    BY <1>4, <1>5, <2>2, <2>3, PlacedStep
  <2>. QED
    BY <2>1, <2>4
<1>11. Carries(h2, EastPackets) /\ (ef2 # NoFlit => ef2.pkt \in EastPackets)
  <2>1. PICK y, r : y = Out(a2, PORT_EAST) /\ r = Ret(a2, PORT_EAST)
    OBVIOUS
  <2>2. RouterType(a2) /\ PORT_EAST \in Port
    BY <1>4, RouterStep, WiresIn
  <2>3. y \in Flit \cup {NoFlit} /\ r \in CreditMsg \cup {NoCredit} /\ HostOk(h) /\ Carries(h, EastPackets)
    BY <1>1, <1>2, <2>1, <2>2, RouterFields DEF TileInv, Ordered
  <2>4. Cycled(h, y, r, ef2, ec2, h2)
    BY <1>2, <2>1, TickDoes
  <2>. QED
    BY <2>3, <2>4, CarriesStep
<1>12. FromHere(queue') /\ Unique(todo', queue')
  <2>1. PICK S : S = Done(nic, ready, Out(rtr', PORT_EAST))
    OBVIOUS
  <2>2. Unqueued(S, queue)
    BY <2>1, OrderedDone
  <2>. QED
    BY <2>1, <2>2, OrderedQueues
<1>13. \A n \in Vnet :
         OrderOk(n, order'[n], BelowOn(nic', rtr', KS2, NS2, n), AboveOn(rtr', K2, n), todo', queue')
  BY OrderedNetwork
<1>. QED
  BY <1>1, <1>2, <1>7, <1>9, <1>10, <1>11, <1>12, <1>13 DEF Ordered

\* What waits is not what is only now to be sent.
LEMMA OrderKeeps ==
  ASSUME NEW n, NEW ord, NEW b, NEW u, NEW td, NEW q, OrderOk(n, ord, b, u, td, q),
         NEW td2, td2 \subseteq td, NEW k \in td, NEW q2, \A m : InQueue(m, q2) => InQueue(m, q) \/ m = k
  PROVE  OrderOk(n, ord, b, u, td2, q2)
<1>1. ASSUME NEW m \in Waits(b, u) PROVE Waiting(m, n, td2, q2)
  <2>1. Waiting(m, n, td, q)
    BY <1>1 DEF OrderOk
  <2>2. m # k
    BY <2>1 DEF Waiting
  <2>. QED
    BY <2>1, <2>2 DEF Waiting
<1>. QED
  BY <1>1 DEF OrderOk

\* A message that is queued is in no order yet.
LEMMA OrderedSent ==
  ASSUME NEW K, NEW N, NEW KS, NEW NS, Ordered(K, N, KS, NS), NEW k \in load.packets, send(k)
  PROVE  Ordered(K, N, KS, NS)'
<1>1. TileInv(K, N, KS, NS) /\ TileInv(K, N, KS, NS)'
  BY TileSent DEF Ordered
<1>2. /\ rtr' = rtr /\ nic' = nic /\ east_flit' = east_flit /\ order' = order
      /\ k \in todo /\ todo' = todo \ {k}
  BY DEF send
<1>3. k \in Packets /\ queue \in [Source -> Seq(Packets)] /\ FromHere(queue) /\ Unique(todo, queue)
  BY <1>1, TileAssumption DEF TileInv, Ordered
<1>4. /\ FromHere(queue') /\ Unique(todo', queue')
      /\ \A m : InQueue(m, queue') => InQueue(m, queue) \/ m = k
      /\ Carries(host', EastPackets)
  <2>1. CASE k.from = EAST
    <3>1. host' = [host EXCEPT !.pending = Append(@, k)] /\ queue' = queue
      BY <2>1 DEF send
    <3>2. PICK h, h2 : h = host /\ h2 = host'
      OBVIOUS
    <3>3. HostOk(h) /\ Queued(h, k, h2) /\ Carries(h, EastPackets)
      BY <1>1, <3>1, <3>2 DEF TileInv, Queued, Ordered
    <3>4. h2.in_flight = h.in_flight /\ h2.pending = Append(h.pending, k)
      BY <1>3, <3>3, QueuedStep
    <3>5. Carries(h2, EastPackets)
      <4>1. k \in EastPackets
        BY <1>3, <2>1 DEF EastPackets
      <4>2. PICK z \in Seq(EastPackets) : z = h.pending
        BY <3>3 DEF Carries
      <4>3. h2.pending \in Seq(EastPackets)
        BY <3>4, <4>1, <4>2
      <4>. QED
        BY <3>3, <3>4, <4>3 DEF Carries
    <3>6. Unique(todo', queue)
      BY <1>2, <1>3 DEF Unique
    <3>. QED
      BY <1>3, <3>1, <3>2, <3>5, <3>6
  <2>2. CASE k.from # EAST
    <3>1. queue' = [queue EXCEPT ![<<k.vnet, k.from>>] = Append(@, k)] /\ host' = host
      BY <2>2 DEF send
    <3>2. PICK q, q2, td : q = queue /\ q2 = queue' /\ td = todo
      OBVIOUS
    <3>3. Joined(q, k, q2)
      <4>1. PICK e : e = <<k.vnet, k.from>>
        OBVIOUS
      <4>2. q2 = [q EXCEPT ![e] = Append(@, k)] /\ q \in [Source -> Seq(Packets)]
        BY <1>3, <3>1, <3>2, <4>1
      <4>3. q2 = [s \in Source |-> IF s = e THEN Append(q[s], k) ELSE q[s]]
        BY <4>2
      <4>. QED
        BY <4>1, <4>3 DEF Joined
    <3>4. FromHere(q2) /\ Unique(td \ {k}, q2) /\ \A m : InQueue(m, q2) => InQueue(m, q) \/ m = k
      BY <1>2, <1>3, <3>2, <3>3, QueueGrows
    <3>. QED
      BY <1>2, <3>1, <3>2, <3>4 DEF Ordered
  <2>. QED
    BY <2>1, <2>2
<1>5. ASSUME NEW n \in Vnet
      PROVE  OrderOk(n, order[n], BelowOn(nic, rtr, KS, NS, n), AboveOn(rtr, K, n), todo', queue')
  <2>1. OrderOk(n, order[n], BelowOn(nic, rtr, KS, NS, n), AboveOn(rtr, K, n), todo, queue)
    BY DEF Ordered
  <2>. QED
    BY <1>2, <1>4, <2>1, OrderKeeps
<1>. QED
  BY <1>1, <1>2, <1>4, <1>5 DEF Ordered, BelowOn, AboveOn

\* The moods of the sinks are nothing to it.
LEMMA OrderedToggles ==
  ASSUME NEW K, NEW N, NEW KS, NEW NS, Ordered(K, N, KS, NS), NEW s \in MayRefuse, toggle(s)
  PROVE  Ordered(K, N, KS, NS)'
<1>1. TileInv(K, N, KS, NS)'
  BY TileToggles DEF Ordered
<1>2. /\ rtr' = rtr /\ nic' = nic /\ east_flit' = east_flit /\ host' = host /\ queue' = queue
      /\ todo' = todo /\ order' = order
  BY DEF toggle
<1>. QED
  BY <1>1, <1>2 DEF Ordered, BelowOn, AboveOn

\* Nothing is ordered after reset.
LEMMA OrderedReset ==
  ASSUME Init, NEW K, NEW N, NEW KS, NEW NS,
         \A p \in Port, v \in Vc : At(K, p, v) = NoPacket /\ At(N, p, v) = 0,
         \A v \in Vc : NS[v] = 0
  PROVE  Ordered(K, N, KS, NS)
<1>1. /\ rtr = ResetRouter /\ nic = ResetNic /\ host = NewHost /\ east_flit = NoFlit
      /\ queue = [s \in Source |-> <<>>] /\ order = [n \in Vnet |-> <<>>]
  BY DEF Init
<1>2. TileInv(K, N, KS, NS)
  BY TileReset
<1>3. PORT_LOCAL \in Port /\ Out(rtr, PORT_LOCAL) = NoFlit /\ \A v \in Vc : Ivc(rtr, PORT_LOCAL, v).st = "IDLE"
  BY <1>1, WiresIn, ResetFields DEF IdleVc
<1>4. FromHere(queue) /\ Unique(todo, queue) /\ \A k : ~InQueue(k, queue)
  <2>1. \A s \in Source : Len(queue[s]) = 0
    BY <1>1
  <2>2. \A s \in Source : \A j \in 1 .. Len(queue[s]) : FALSE
    BY <2>1
  <2>. QED
    BY <2>2 DEF FromHere, Unique, InQueue
<1>5. Sorted(nic)
  <2>1. \A n \in Vnet : Pk(nic, n) = Idle
    BY <1>1 DEF ResetNic, Pk
  <2>. QED
    BY <2>1 DEF Sorted
<1>6. Origins(K, N)
  BY DEF Origins
<1>7. \A v, k : v \in Vc => Come(NoFlit, v, NS[v]) = 0
  BY Wires DEF Come, One
<1>8. \A v \in Vc : Arrives(Out(rtr, PORT_LOCAL), v, KS[v], NS[v])
  BY <1>3, <1>7 DEF Arrives
<1>9. Carries(host, EastPackets)
  <2>1. host.pending = <<>> /\ host.in_flight = NoPacket
    BY <1>1 DEF NewHost
  <2>. QED
    BY <2>1 DEF Carries
<1>10. ASSUME NEW n \in Vnet
       PROVE  OrderOk(n, order[n], BelowOn(nic, rtr, KS, NS, n), AboveOn(rtr, K, n), todo, queue)
  <2>1. Lane(n) \in Vc
    BY Lanes
  <2>2. BelowOn(nic, rtr, KS, NS, n) = NoMsg
    BY <1>3, <1>7, <2>1 DEF BelowOn, Below
  <2>3. AboveOn(rtr, K, n) = NoMsg
    BY <1>3, <2>1 DEF AboveOn, Above
  <2>4. order[n] = <<>>
    BY <1>1
  <2>5. OrderOk(n, <<>>, NoMsg, NoMsg, todo, queue)
    BY DEF OrderOk, Chain, Waits
  <2>. QED
    BY <2>2, <2>3, <2>4, <2>5
<1>. QED
  BY <1>1, <1>2, <1>4, <1>5, <1>6, <1>8, <1>9, <1>10 DEF Ordered

OInv == \E K, N, KS, NS : Ordered(K, N, KS, NS)

\* The order is kept from the first state on,
LEMMA OrderedInit == Init => OInv
<1>. SUFFICES ASSUME Init PROVE OInv
  OBVIOUS
<1>1. PICK K : K = [p \in Port |-> [v \in Vc |-> NoPacket]]
  OBVIOUS
<1>2. PICK N : N = [p \in Port |-> [v \in Vc |-> 0]]
  OBVIOUS
<1>3. PICK NS : NS = [v \in Vc |-> 0]
  OBVIOUS
<1>4. \A p \in Port, v \in Vc : At(K, p, v) = NoPacket /\ At(N, p, v) = 0
  BY <1>1, <1>2 DEF At
<1>5. \A v \in Vc : NS[v] = 0
  BY <1>3
<1>6. Ordered(K, N, NS, NS)
  BY <1>4, <1>5, OrderedReset
<1>. QED
  BY <1>6 DEF OInv

\* by every step.
LEMMA OrderedNext == OInv /\ [Next]_vars => OInv'
<1>. SUFFICES ASSUME OInv, [Next]_vars PROVE OInv'
  OBVIOUS
<1>1. PICK K, N, KS, NS : Ordered(K, N, KS, NS)
  BY DEF OInv
<1>2. CASE tick
  <2>1. PICK K2, N2, KS2, NS2 : TileLater(K, N, KS, NS, K2, N2, KS2, NS2)
    BY TileLaterExists
  <2>2. Ordered(K2, N2, KS2, NS2)'
    BY <1>1, <1>2, <2>1, OrderedTick
  <2>. QED
    BY <2>2 DEF OInv
<1>3. ASSUME NEW k \in load.packets, send(k) PROVE OInv'
  <2>1. Ordered(K, N, KS, NS)'
    BY <1>1, <1>3, OrderedSent
  <2>. QED
    BY <2>1 DEF OInv
<1>4. ASSUME NEW s \in MayRefuse, toggle(s) PROVE OInv'
  <2>1. Ordered(K, N, KS, NS)'
    BY <1>1, <1>4, OrderedToggles
  <2>. QED
    BY <2>1 DEF OInv
<1>5. CASE UNCHANGED vars
  <2>1. TileInv(K, N, KS, NS)'
    BY <1>1, <1>5 DEF TileInv, vars, MayRefuse, Ordered
  <2>2. Ordered(K, N, KS, NS)'
    BY <1>1, <1>5, <2>1 DEF Ordered, vars, BelowOn, AboveOn
  <2>. QED
    BY <2>2 DEF OInv
<1>. QED
  BY <1>2, <1>3, <1>4, <1>5 DEF Next

\* A side is shown the oldest of its own tile's messages.
LEMMA InvOrder == OInv => ShownInOrder
<1>. SUFFICES ASSUME OInv, NEW n \in Vnet, NEW v \in EjVc(nic, n), Own(v)
              PROVE  order[n] # <<>> /\ order[n][1] = nic.rx[v].pkt
  BY DEF ShownInOrder
<1>1. PICK K, N, KS, NS : Ordered(K, N, KS, NS)
  BY DEF OInv
<1>2. v \in Vc /\ Slot(nic, v).full /\ VnetOf(v) = n
  BY DEF EjVc, LowestBit, Slot
<1>3. PICK k : k = Slot(nic, v).pkt
  OBVIOUS
<1>4. k \in Packets /\ Placed(k, v) /\ Below(nic, Out(rtr, PORT_LOCAL), v, KS[v], NS[v]) = Ours(k)
  BY <1>1, <1>2, <1>3, OrderedSlots
<1>5. k.from # EAST
  BY <1>3 DEF Own, Slot
<1>6. k.vnet \in Vnet /\ v = Lane(k.vnet)
  BY <1>4, <1>5, RouterShape DEF Placed, Vnet
<1>7. v = Lane(n)
  BY <1>2, <1>6, Lanes
<1>8. BelowOn(nic, rtr, KS, NS, n) = k /\ k # NoMsg
  BY <1>4, <1>5, <1>7, PacketFacts DEF BelowOn, Ours, NoMsg
<1>9. PICK u : order[n] = Chain(k, u)
  BY <1>1, <1>8 DEF Ordered, OrderOk
<1>10. Chain(k, u) # <<>> /\ Chain(k, u)[1] = k
  BY <1>8 DEF Chain
<1>. QED
  BY <1>3, <1>9, <1>10 DEF Slot

\* On its way to itself no message of a tile overtakes another of its virtual network:
\* what a side is shown is the oldest that has not been handed over (bug B19).
THEOREM OwnStaysInOrder == Spec => []ShownInOrder
<1>1. Init => OInv
  BY OrderedInit
<1>2. OInv /\ [Next]_vars => OInv'
  BY OrderedNext
<1>3. OInv => ShownInOrder
  BY InvOrder
<1>. QED
  BY <1>1, <1>2, <1>3, PTL DEF Spec

===============================================================================
