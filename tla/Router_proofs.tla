------------------------------ MODULE Router_proofs ------------------------------
(***************************************************************************)
(* What a clock edge does to a router, and a cycle to the harness at one   *)
(* of its ports, for any number of networks, channels and buffers and any  *)
(* packets.  A channel of a link belongs to one packet at a time, and this *)
(* needs to know of which: a router does not, and a packet may stand in a  *)
(* channel of which no flit is left there.  What is said of an input VC    *)
(* therefore names the packet it is open for and how many of its flits     *)
(* have come in.                                                           *)
(***************************************************************************)
EXTENDS PortHost, FiniteSetTheorems, SequenceTheorems, WellFoundedInduction, TLAPS

---------------------------------------------------------------------------
(* What is known of a channel *)

\* The registers by name.
Ivc(r, p, v) == r.ivc[p][v]
Busy(r, o, v) == r.busy[o][v]
Cred(r, o, v) == r.credits[o][v]
Out(r, o) == r.out[o]
Ret(r, p) == r.ret[p]
Va1(r, p) == r.va1[p]
Va2(r, o, v) == r.va2[o][v]
Sa1(r, p) == r.sa1[p]
Sa2(r, o) == r.sa2[o]

\* What is recorded of input VC v of port p.
At(x, p, v) == x[p][v]

CreditMsg == [vc : Vc, tail : BOOLEAN]

VcRegs == [st : {"IDLE", "ROUTED", "ALLOC", "ACTIVE"}, port : Port, ovc : Vc, buf : Seq(Flit)]

\* The registers of a router.
RouterType(r) ==
    /\ r.ivc \in [Port -> [Vc -> VcRegs]]
    /\ r.busy \in [Port -> [Vc -> BOOLEAN]]
    /\ r.credits \in [Port -> [Vc -> Int]]
    /\ r.va1 \in [Port -> Vc] /\ r.va2 \in [Port -> [Vc -> Port]]
    /\ r.sa1 \in [Port -> Vc] /\ r.sa2 \in [Port -> Port]
    /\ r.out \in [Port -> Flit \cup {NoFlit}]
    /\ r.ret \in [Port -> CreditMsg \cup {NoCredit}]

\* Buffer b of channel v holds the last of n flits of packet k.
Holds(b, k, n, v) == \A j \in 1 .. Len(b) : b[j] = [pkt |-> k, i |-> n - Len(b) + j, vc |-> v]

\* Input VC v of the router of tile t, of which the registers are c, is open for
\* packet k, of which n flits have come in; when n is 0 it is open for none.
VcOpen(c, t, v, k, n) ==
    /\ c.st = "IDLE" <=> n = 0
    /\ Len(c.buf) <= n
    /\ Holds(c.buf, k, n, v)
    /\ n > 0 => /\ k \in Packets /\ n <= k.len /\ n - Len(c.buf) < k.len
                /\ c.port = Route(t, k.dst)
    /\ c.st \in {"ROUTED", "ALLOC"} => Len(c.buf) = n
    /\ c.st = "ACTIVE" => Len(c.buf) < n
    /\ c.st \in {"ALLOC", "ACTIVE"} => c.ovc = v

\* The input VC that has been given channel v of port o.
Held(c, o) == c.st \in {"ALLOC", "ACTIVE"} /\ c.port = o

\* f is the next flit of the packet of which k and n say what has come.
Follows(f, k, n) == f.i = n + 1 /\ f.i <= f.pkt.len /\ (n > 0 => f.pkt = k)

\* What has come in once the flit on the wire has.
Come(f, v, n) == n + One(Sends(f, v))
Comer(f, v, k) == IF Sends(f, v) THEN f.pkt ELSE k

\* Channel v of a link, with f on the wire: the receiver has n flits of packet k;
\* the sender has the channel for packet ku, of which gn flits have gone, or gn is -1
\* when no packet of it has the channel; busy is its record of the channel, and tc says
\* that the credit of a tail is on its way back.
Line(f, v, k, n, ku, gn, busy, tc) ==
    /\ Sends(f, v) => Follows(f, k, n)
    /\ gn >= 0 => busy /\ ~tc /\ Come(f, v, n) = gn /\ (gn > 0 => Comer(f, v, k) = ku)
    /\ gn < 0 => Come(f, v, n) = 0 \/ Come(f, v, n) = Comer(f, v, k).len
    /\ ~busy => gn < 0 /\ Come(f, v, n) = 0 /\ ~tc
    /\ tc => Come(f, v, n) = 0

TailBack(cr, v) == Returned(cr, v) /\ cr.tail

\* Channel v of output o is held by input VC p alone, or by none.
HeldBy(a, o, v, p) == \A p2 \in Port : Held(Ivc(a, p2, v), o) <=> p2 = p
HeldByNone(a, o, v) == \A p2 \in Port : ~Held(Ivc(a, p2, v), o)

\* Channel v of output o of router a, with f on the wire, on a link of which the far end
\* has n flits of packet k; of the input VCs of a, ka and na say what has come.
OutChannel(a, f, o, v, ka, na, k, n, tc) ==
    \/ /\ HeldByNone(a, o, v)
       /\ Line(f, v, k, n, NoPacket, -1, Busy(a, o, v), tc)
    \/ \E p \in Port :
         /\ HeldBy(a, o, v, p)
         /\ Line(f, v, k, n, At(ka, p, v), At(na, p, v) - Len(Ivc(a, p, v).buf), Busy(a, o, v), tc)

\* The registers of a harness at a port, and the packet that it sends on channel v.
HCred(h, v) == h.credits[v]
HBusy(h, v) == h.vc_busy[v]

Up(h, v) == h.in_flight # NoPacket /\ h.in_flight.vc = v
UpPacket(h, v) == IF Up(h, v) THEN h.in_flight.pkt ELSE NoPacket
UpGone(h, v) == IF Up(h, v) THEN h.in_flight.next - 1 ELSE -1

SourceOf(h, x, v, k, n, tc) == Line(x, v, k, n, UpPacket(h, v), UpGone(h, v), HBusy(h, v), tc)

\* The harness h at port p of router a, with x on the wire: what it has sent in,
Fed(h, x, a, ka, na, p, v) ==
    /\ SourceOf(h, x, v, At(ka, p, v), At(na, p, v), TailBack(NoCredit, v))
    /\ HCred(h, v) + One(Sends(x, v)) + Len(Ivc(a, p, v).buf) = VcDepth
    /\ HCred(h, v) >= 0

\* and what it has taken out, with e on the wire back.
Drained(h, e, a, p, v) ==
    /\ Cred(a, p, v) + CreditsIn(h.credit_q, v) + One(Returned(e, v)) = VcDepth
    /\ Cred(a, p, v) >= 0

\* or, of a channel that it never reads, the credits that it never gives back.
Shut(h, e, a, p, v) ==
    CreditsIn(h.credit_q, v) = 0 /\ ~Returned(e, v) /\ Cred(a, p, v) \in 0 .. VcDepth

InFlight == [pkt : Packets, vc : Vc, next : Nat \ {0}]

Due == [due : Nat, vc : Vc, tail : BOOLEAN]

HostRec == [ credits : [Vc -> Int], vc_busy : [Vc -> BOOLEAN], pending : Seq(Packets),
             in_flight : InFlight \cup {NoPacket}, credit_q : Seq(Due) ]

HostOk(h) == h \in HostRec /\ (h.in_flight # NoPacket => h.in_flight.next <= h.in_flight.pkt.len)

---------------------------------------------------------------------------
(* Allocation: one winner at each arbiter *)

\* At most one requester is granted.
LEMMA GntOne ==
  ASSUME NEW S \in SUBSET Int, NEW q
  PROVE  /\ Gnt(S, q) \subseteq S
         /\ \A i, j \in Gnt(S, q) : i = j
BY DEF Gnt, LowestBit

\* The pointer stays among the requesters.
LEMMA NextPtrType ==
  ASSUME NEW n \in Nat \ {0}, NEW S \in SUBSET (0 .. n - 1), NEW q \in 0 .. n - 1, NEW b \in BOOLEAN,
         b /\ S # {} => Gnt(S, q) # {}
  PROVE  NextPtr(n, S, q, b) \in 0 .. n - 1
<1>1. Gnt(S, q) \subseteq S
  BY GntOne
<1>2. ASSUME NEW w \in 0 .. n - 1 PROVE PtrPast(n, w) \in 0 .. n - 1
  BY DEF PtrPast
<1>. QED
  BY <1>1, <1>2 DEF NextPtr

\* A set of natural numbers has a least element.
LEMMA Least ==
  ASSUME NEW T \in SUBSET Nat, T # {}
  PROVE  \E m \in T : \A x \in T : m <= x
<1>. DEFINE R == {ss \in Nat \X Nat : ss[1] < ss[2]}
<1>1. IsWellFoundedOn(R, Nat)
  BY NatLessThanWellFounded DEF OpToRel
<1>2. PICK m \in T : \A y \in T : ~(<<y, m>> \in R)
  BY <1>1, WFMin
<1>3. \A y \in T : ~(y < m)
  BY <1>2
<1>. HIDE DEF R
<1>4. m \in Nat /\ \A y \in T : y \in Nat
  OBVIOUS
<1>. QED
  BY <1>3, <1>4

\* Whenever some index asks, one is granted.
LEMMA GntSome ==
  ASSUME NEW S \in SUBSET Nat, S # {}, NEW q
  PROVE  Gnt(S, q) # {}
BY Least DEF Gnt, LowestBit

\* The sizes are natural numbers.
LEMMA Sizes ==
  NumVcs \in Nat \ {0} /\ VcDepth \in Nat \ {0} /\ NumPorts = 5 /\ MeshX \in Nat \ {0}
<1>1. NumVcs \in Nat \ {0}
  BY RouterShape DEF NumVcs
<1>. QED
  BY <1>1, RouterShape DEF NumPorts

\* Sizes of the sets of indices.
LEMMA Indices ==
  /\ Vc = 0 .. NumVcs - 1 /\ Port = 0 .. 4 /\ Vc \subseteq Nat /\ Port \subseteq Nat
  /\ PORT_LOCAL \in Port
BY Sizes DEF Vc, Port, NumPorts, PORT_LOCAL

\* A packet has a length, and is routed to some port.
LEMMA PacketFacts ==
  /\ \A k \in Packets : k.len \in Nat \ {0}
  /\ \A t, d : Route(t, d) \in Port
BY RouterShape DEF Route, Port, NumPorts, PORT_NORTH, PORT_EAST, PORT_SOUTH, PORT_WEST, PORT_LOCAL

\* A channel is given to one input VC at a time, that asks for it and finds it
\* free.
LEMMA VaFacts ==
  ASSUME NEW r, NEW p \in Port
  PROVE  /\ VaGranted(r, p) \subseteq Eligible(r, p)
         /\ \A v \in VaGranted(r, p) : VaAsks(r, Ivc(r, p, v).port, v) # {}
         /\ \A p2 \in Port, v \in VaGranted(r, p) :
              v \in VaGranted(r, p2) /\ Ivc(r, p2, v).port = Ivc(r, p, v).port => p2 = p
<1>1. VaFirst(r, p) \subseteq Eligible(r, p)
  BY GntOne, Indices DEF VaFirst, Eligible, Ivc, Busy
<1>2. \A o, v : VaAsks(r, o, v) \in SUBSET Int
  BY Indices DEF VaAsks, Ivc
<1>3. \A q \in Port : \A v \in VaGranted(r, q) : q \in Gnt(VaAsks(r, Ivc(r, q, v).port, v), r.va2[Ivc(r, q, v).port][v])
  BY DEF VaGranted, VaWins, CandVc, Ivc
<1>4. \A v \in VaGranted(r, p) : p \in VaAsks(r, Ivc(r, p, v).port, v)
  BY <1>2, <1>3, GntOne
<1>5. ASSUME NEW p2 \in Port, NEW v \in VaGranted(r, p), v \in VaGranted(r, p2),
             Ivc(r, p2, v).port = Ivc(r, p, v).port
      PROVE  p2 = p
  BY <1>2, <1>3, <1>5, GntOne
<1>. QED
  BY <1>1, <1>4, <1>5 DEF VaGranted, Ivc

\* A flit leaves an input port from one VC and for one output, of which the
\* router has a credit, and no other input port sends to that output.
LEMMA SaFacts ==
  ASSUME NEW r, NEW p \in Port
  PROVE  /\ SaGranted(r, p) \subseteq SaReq(r, p)
         /\ \A v, w \in SaGranted(r, p) : v = w
         /\ \A p2 \in Port : \A v \in SaGranted(r, p), w \in SaGranted(r, p2) :
              Ivc(r, p2, w).port = Ivc(r, p, v).port => p2 = p
<1>1. SaFirst(r, p) \subseteq SaReq(r, p) /\ \A v, w \in SaFirst(r, p) : v = w
  <2>1. SaReq(r, p) \in SUBSET Int
    BY Indices DEF SaReq, Ivc, Cred
  <2>. QED
    BY <2>1, GntOne DEF SaFirst, Ivc
<1>2. \A o : SaAsks(r, o) \in SUBSET Int
  BY Indices DEF SaAsks, Ivc
<1>3. \A q \in Port : \A v \in SaGranted(r, q) : q \in Gnt(SaAsks(r, Ivc(r, q, v).port), r.sa2[Ivc(r, q, v).port])
  BY DEF SaGranted, Ivc
<1>4. ASSUME NEW p2 \in Port, NEW v \in SaGranted(r, p), NEW w \in SaGranted(r, p2),
             Ivc(r, p2, w).port = Ivc(r, p, v).port
      PROVE  p2 = p
  BY <1>2, <1>3, <1>4, GntOne
<1>. QED
  BY <1>1, <1>4 DEF SaGranted, Ivc

\* The flit at the head of an input VC, as it leaves.
Leaving(r, p, v) == [Ivc(r, p, v).buf[1] EXCEPT !.vc = Ivc(r, p, v).ovc]

\* An output carries the flit of the input VC that was granted it, or none; an
\* input port returns the credit of the VC that was granted, or none.
LEMMA SentFacts ==
  ASSUME NEW r
  PROVE  /\ \A o \in Port : \/ Crossbar(r, Grants(r), o) = NoFlit
                            \/ \E p \in Port : \E v \in SaGranted(r, p) :
                                 Ivc(r, p, v).port = o /\ Crossbar(r, Grants(r), o) = Leaving(r, p, v)
         /\ \A p \in Port : \A v \in SaGranted(r, p) :
              Crossbar(r, Grants(r), Ivc(r, p, v).port) = Leaving(r, p, v)
         /\ \A p \in Port : SaGranted(r, p) = {} => CreditFor(r, Grants(r), p) = NoCredit
         /\ \A p \in Port : \A v \in SaGranted(r, p) :
              CreditFor(r, Grants(r), p) = [vc |-> v, tail |-> IsTail(Ivc(r, p, v).buf[1])]
<1>. DEFINE g == Grants(r)
<1>1. \A p \in Port : g.sa[p] = SaGranted(r, p)
  BY DEF Grants, Ivc
<1>. HIDE DEF g
<1>2. ASSUME NEW p \in Port, NEW v \in SaGranted(r, p)
      PROVE  /\ Departing(r, g, p) = Leaving(r, p, v)
             /\ CreditFor(r, g, p) = [vc |-> v, tail |-> IsTail(Ivc(r, p, v).buf[1])]
  <2>1. (CHOOSE w \in g.sa[p] : TRUE) = v /\ g.sa[p] # {}
    BY <1>1, SaFacts
  <2>. QED
    BY <2>1 DEF Departing, Leaving, CreditFor, Ivc
<1>3. ASSUME NEW p \in Port, NEW v \in SaGranted(r, p)
      PROVE  Crossbar(r, g, Ivc(r, p, v).port) = Leaving(r, p, v)
  <2>. DEFINE from == {q \in Port : \E w \in g.sa[q] : Ivc(r, q, w).port = Ivc(r, p, v).port}
  <2>1. p \in from /\ \A q \in from : q = p
    BY <1>1, SaFacts
  <2>2. (CHOOSE q \in from : TRUE) = p /\ from # {}
    BY <2>1
  <2>. QED
    BY <1>2, <2>2 DEF Crossbar, Ivc
<1>4. ASSUME NEW o \in Port, Crossbar(r, g, o) # NoFlit
      PROVE  \E p \in Port : \E v \in SaGranted(r, p) : Ivc(r, p, v).port = o /\ Crossbar(r, g, o) = Leaving(r, p, v)
  <2>1. PICK p \in Port : \E v \in g.sa[p] : Ivc(r, p, v).port = o
    BY <1>4 DEF Crossbar, Ivc
  <2>. QED
    BY <1>1, <1>3, <2>1
<1>5. ASSUME NEW p \in Port, SaGranted(r, p) = {} PROVE CreditFor(r, g, p) = NoCredit
  BY <1>1, <1>5 DEF CreditFor, Ivc
<1>. QED
  BY <1>2, <1>3, <1>4, <1>5 DEF g

\* Router r is r2 after the edge at which it is fed flits fl and credits cr.
Edge(r, t, fl, cr, r2) == r2 = Clock(r, Grants(r), t, fl, cr)

\* The registers after the edge, one by one.
LEMMA EdgeFields ==
  ASSUME NEW r, NEW t, NEW fl, NEW cr, NEW r2, Edge(r, t, fl, cr, r2), NEW p \in Port
  PROVE  LET x == Crossbar(r, Grants(r), p)
         IN  /\ Out(r2, p) = x /\ Ret(r2, p) = CreditFor(r, Grants(r), p)
             /\ \A v \in Vc :
                  /\ Ivc(r2, p, v) = NextVc(r, Grants(r), t, p, v, fl[p])
                  /\ Busy(r2, p, v) = NextBusy(Busy(r, p, v), VaAsks(r, p, v) # {}, x, v, cr[p])
                  /\ Cred(r2, p, v) = NextCredits(Cred(r, p, v), x, v, cr[p])
<1>. DEFINE g == Grants(r)
<1>1. \A v \in Vc : g.alloc[p][v] = (VaAsks(r, p, v) # {})
  BY DEF Grants
<1>2. r2 = Clock(r, g, t, fl, cr)
  BY DEF Edge
<1>. HIDE DEF g
<1>3. LET x == Crossbar(r, g, p)
      IN  /\ Out(r2, p) = x /\ Ret(r2, p) = CreditFor(r, g, p)
          /\ \A v \in Vc :
               /\ Ivc(r2, p, v) = NextVc(r, g, t, p, v, fl[p])
               /\ Busy(r2, p, v) = NextBusy(Busy(r, p, v), g.alloc[p][v], x, v, cr[p])
               /\ Cred(r2, p, v) = NextCredits(Cred(r, p, v), x, v, cr[p])
  BY <1>2 DEF Clock, Ivc, Cred, Busy, Out, Ret
<1>. QED
  BY <1>1, <1>3 DEF g

\* The pointers of the arbiters.
PointersMove(r, p, r2) ==
    /\ Va1(r2, p) = NextPtr(NumVcs, Eligible(r, p), Va1(r, p), VaGranted(r, p) # {})
    /\ Sa1(r2, p) = NextPtr(NumVcs, SaReq(r, p), Sa1(r, p), SaGranted(r, p) # {})
    /\ Sa2(r2, p) = NextPtr(NumPorts, SaAsks(r, p), Sa2(r, p), TRUE)
    /\ \A v \in Vc : Va2(r2, p, v) = NextPtr(NumPorts, VaAsks(r, p, v), Va2(r, p, v), TRUE)

\* A clock edge moves the pointers past the grants.
LEMMA EdgePointers ==
  ASSUME NEW r, NEW t, NEW fl, NEW cr, NEW r2, Edge(r, t, fl, cr, r2), NEW p \in Port
  PROVE  PointersMove(r, p, r2)
<1>. DEFINE g == Grants(r)
<1>1. g.sa[p] = SaGranted(r, p) /\ g.va[p] = VaGranted(r, p)
  BY DEF Grants
<1>2. r2 = Clock(r, g, t, fl, cr)
  BY DEF Edge
<1>. HIDE DEF g
<1>3. /\ Va1(r2, p) = NextPtr(NumVcs, Eligible(r, p), Va1(r, p), g.va[p] # {})
      /\ Sa1(r2, p) = NextPtr(NumVcs, SaReq(r, p), Sa1(r, p), g.sa[p] # {})
      /\ Sa2(r2, p) = NextPtr(NumPorts, SaAsks(r, p), Sa2(r, p), TRUE)
      /\ \A v \in Vc : Va2(r2, p, v) = NextPtr(NumPorts, VaAsks(r, p, v), Va2(r, p, v), TRUE)
  BY <1>2 DEF Clock, Va1, Va2, Sa1, Sa2
<1>. QED
  BY <1>1, <1>3 DEF PointersMove

---------------------------------------------------------------------------
(* One input VC over a clock edge *)

\* A flit is told from a wire that carries none by its place in the packet, a
\* credit by its channel.
LEMMA Wires ==
  /\ NoFlit \notin Flit /\ NoCredit \notin CreditMsg /\ NoPacket \notin InFlight
  /\ \A f \in Flit \cup {NoFlit} : \A v : Sends(f, v) => f \in Flit /\ f.vc = v
  /\ \A v : ~Sends(NoFlit, v) /\ ~Returned(NoCredit, v)
<1>1. \A f \in Flit : f.i # 0
  BY DEF Flit
<1>2. \A c \in CreditMsg : c.vc # -1
  BY Indices DEF CreditMsg
<1>3. \A c \in InFlight : c.next # 0
  BY DEF InFlight
<1>. QED
  BY <1>1, <1>2, <1>3 DEF NoFlit, NoCredit, NoPacket, Sends, Returned

\* The first flit of buffer b, which holds the last of n flits of packet k.
NextFlit(b, k, n, v) == [pkt |-> k, i |-> n - Len(b) + 1, vc |-> v]

Front(b, k, n, v) == b # <<>> /\ b[1] \in Flit /\ b[1] = NextFlit(b, k, n, v)

\* What is known of an input VC that is granted the switch: its first flit is the
\* next of its packet, and the router has a credit for it.
LEMMA Granted ==
  ASSUME NEW r, RouterType(r), NEW t, NEW p \in Port, NEW v \in SaGranted(r, p), NEW k, NEW n \in Nat,
         VcOpen(Ivc(r, p, v), t, v, k, n)
  PROVE  LET c == Ivc(r, p, v) IN
         /\ v \in Vc /\ c.st \in {"ALLOC", "ACTIVE"} /\ c.ovc = v
         /\ Len(c.buf) \in Nat \ {0} /\ n > 0 /\ Front(c.buf, k, n, v)
         /\ Leaving(r, p, v) = NextFlit(c.buf, k, n, v)
         /\ Cred(r, c.port, v) # 0
         /\ v \notin VaGranted(r, p)
<1>1. v \in SaReq(r, p) /\ v \in Vc
  BY SaFacts DEF SaReq, Ivc, Cred
<1>2. Ivc(r, p, v) \in VcRegs
  BY <1>1 DEF RouterType, Ivc, Cred, Busy
<1>3. /\ Ivc(r, p, v).st \in {"ALLOC", "ACTIVE"} /\ Ivc(r, p, v).buf # <<>>
      /\ Cred(r, Ivc(r, p, v).port, Ivc(r, p, v).ovc) # 0 /\ Ivc(r, p, v).ovc = v
  BY <1>1 DEF SaReq, VcOpen, Ivc, Cred
<1>4. Len(Ivc(r, p, v).buf) \in Nat \ {0} /\ Ivc(r, p, v).buf[1] \in Flit
  BY <1>2, <1>3 DEF VcRegs
<1>5. Ivc(r, p, v).buf[1] = [pkt |-> k, i |-> n - Len(Ivc(r, p, v).buf) + 1, vc |-> v] /\ n > 0
  <2>1. 1 \in 1 .. Len(Ivc(r, p, v).buf) /\ n >= Len(Ivc(r, p, v).buf) /\ Holds(Ivc(r, p, v).buf, k, n, v)
    BY <1>4 DEF VcOpen
  <2>2. n > 0
    BY <1>4, <2>1
  <2>. QED
    BY <2>1, <2>2 DEF Holds
<1>6. Leaving(r, p, v) = Ivc(r, p, v).buf[1]
  BY <1>3, <1>5 DEF Leaving
<1>7. v \notin VaGranted(r, p)
  BY <1>3, VaFacts DEF Eligible, Ivc, Busy
<1>8. Leaving(r, p, v) = NextFlit(Ivc(r, p, v).buf, k, n, v) /\ Front(Ivc(r, p, v).buf, k, n, v)
  BY <1>3, <1>4, <1>5, <1>6 DEF Front, NextFlit
<1>. QED
  BY <1>1, <1>3, <1>4, <1>5, <1>7, <1>8

\* The tail of a packet leaves the input VC.
TailLeaves(r, p, v) == v \in SaGranted(r, p) /\ IsTail(Ivc(r, p, v).buf[1])

NextCome(r, p, v, f, n) == IF TailLeaves(r, p, v) THEN 0 ELSE Come(f, v, n)

\* What was in a buffer, without the flit that leaves, and with the one that
\* comes.
Rest(b, pop) == IF pop THEN SubSeq(b, 2, Len(b)) ELSE b
Filled(b, pop, write, f) == IF write THEN Append(Rest(b, pop), f) ELSE Rest(b, pop)

\* A buffer holds the last flits that came, the first of them taken out,
LEMMA RestHolds ==
  ASSUME NEW b \in Seq(Flit), NEW k, NEW n \in Nat, NEW v, Holds(b, k, n, v),
         NEW pop \in BOOLEAN, pop => b # <<>>
  PROVE  /\ Rest(b, pop) \in Seq(Flit) /\ Len(Rest(b, pop)) = Len(b) - One(pop)
         /\ Holds(Rest(b, pop), k, n, v)
<1>1. Len(b) \in Nat /\ (pop => Len(b) > 0)
  OBVIOUS
<1>2. CASE pop
  <2>. DEFINE rest == SubSeq(b, 2, Len(b))
  <2>1. /\ rest \in Seq(Flit) /\ Len(rest) = Len(b) - 1
        /\ \A j \in 1 .. Len(b) - 1 : rest[j] = b[j + 1]
    <3>1. b # <<>> /\ rest = Tail(b)
      BY <1>2, TailIsSubSeq
    <3>. QED
      BY <3>1, HeadTailProperties
  <2>. HIDE DEF rest
  <2>2. ASSUME NEW j \in 1 .. Len(rest)
        PROVE  rest[j] = [pkt |-> k, i |-> n - Len(rest) + j, vc |-> v]
    <3>1. j + 1 \in 1 .. Len(b) /\ n - Len(b) + (j + 1) = n - Len(rest) + j /\ rest[j] = b[j + 1]
      BY <1>1, <2>1
    <3>. QED
      BY <3>1 DEF Holds
  <2>3. Rest(b, pop) = rest
    BY <1>2 DEF Rest, rest
  <2>. QED
    BY <1>2, <2>1, <2>2, <2>3 DEF Holds, One
<1>3. CASE ~pop
  BY <1>1, <1>3 DEF Rest, One
<1>. QED
  BY <1>2, <1>3

\* and another put in.
LEMMA BufferMoves ==
  ASSUME NEW b \in Seq(Flit), NEW k, NEW n \in Nat, NEW v, Len(b) <= n, Holds(b, k, n, v),
         NEW pop \in BOOLEAN, pop => b # <<>>,
         NEW write \in BOOLEAN, NEW f,
         write => f \in Flit /\ f = [pkt |-> f.pkt, i |-> n + 1, vc |-> v] /\ (n > 0 => f.pkt = k)
  PROVE  /\ Filled(b, pop, write, f) \in Seq(Flit)
         /\ Len(Filled(b, pop, write, f)) = Len(b) + One(write) - One(pop)
         /\ Holds(Filled(b, pop, write, f), IF write THEN f.pkt ELSE k, n + One(write), v)
<1>. DEFINE rest == Rest(b, pop)
<1>1. Len(b) \in Nat /\ (pop => Len(b) > 0) /\ One(pop) \in Nat
  BY DEF One
<1>2. rest \in Seq(Flit) /\ Len(rest) = Len(b) - One(pop) /\ Holds(rest, k, n, v) /\ Len(rest) \in Nat
  BY RestHolds
<1>. HIDE DEF rest
<1>3. CASE ~write
  <2>1. Filled(b, pop, write, f) = rest /\ One(write) = 0 /\ n + One(write) = n
    BY <1>3 DEF Filled, rest, One
  <2>. QED
    BY <1>1, <1>2, <1>3, <2>1
<1>4. CASE write
  <2>. DEFINE b2 == Append(rest, f)
  <2>1. Filled(b, pop, write, f) = b2 /\ One(write) = 1
    BY <1>4 DEF Filled, rest, One
  <2>2. /\ b2 \in Seq(Flit) /\ Len(b2) = Len(rest) + 1 /\ b2[Len(rest) + 1] = f
        /\ \A j \in 1 .. Len(rest) : b2[j] = rest[j]
    BY <1>2, <1>4
  <2>. HIDE DEF b2
  <2>3. ASSUME NEW j \in 1 .. Len(b2)
        PROVE  b2[j] = [pkt |-> f.pkt, i |-> n + 1 - Len(b2) + j, vc |-> v]
    <3>1. CASE j = Len(rest) + 1
      <4>1. n + 1 - Len(b2) + j = n + 1
        BY <1>2, <2>2, <3>1
      <4>. QED
        BY <1>4, <2>2, <3>1, <4>1
    <3>2. CASE j \in 1 .. Len(rest)
      <4>1. n + 1 - Len(b2) + j = n - Len(rest) + j /\ n > 0
        BY <1>1, <1>2, <2>2, <3>2
      <4>. QED
        BY <1>2, <1>4, <2>2, <3>2, <4>1 DEF Holds
    <3>. QED
      BY <1>2, <2>2, <3>1, <3>2
  <2>4. Holds(b2, f.pkt, n + 1, v)
    BY <2>3 DEF Holds
  <2>5. Len(b2) = Len(b) + One(write) - One(pop)
    BY <1>1, <1>2, <2>1, <2>2
  <2>6. (IF write THEN f.pkt ELSE k) = f.pkt /\ n + One(write) = n + 1
    BY <1>4, <2>1
  <2>. QED
    BY <2>1, <2>2, <2>4, <2>5, <2>6
<1>. QED
  BY <1>3, <1>4

\* Places in a packet: n flits have come and m are there, of l (len) when n > 0;
\* the next is to be of a packet of g.
LEMMA Places ==
  ASSUME NEW n \in Nat, NEW m \in Nat, NEW l \in Nat, NEW g \in Nat,
         NEW write \in BOOLEAN, NEW pop \in BOOLEAN, NEW n2 \in Int, NEW m2 \in Int,
         n > 0, n <= l, m <= n, n - m < l, write => n + 1 <= g /\ g = l, pop => m > 0,
         n2 = IF write THEN n + 1 ELSE n,
         m2 = m + (IF write THEN 1 ELSE 0) - (IF pop THEN 1 ELSE 0)
  PROVE  /\ n2 > 0 /\ n2 <= l /\ m2 <= n2
         /\ pop => m2 < n2 /\ (n2 - m2 < l <=> n - m + 1 # l)
         /\ pop /\ n - m + 1 = l => ~write /\ m2 = 0
         /\ ~pop => n2 - m2 = n - m
OBVIOUS

\* The parts of VcOpen for a packet.
LEMMA OpenFor ==
  ASSUME NEW c, NEW t, NEW v, NEW k \in Packets, NEW n \in Nat \ {0}, NEW m \in Nat, m = Len(c.buf),
         k.len \in Nat, c.st # "IDLE", m <= n, n <= k.len, n - m < k.len,
         Holds(c.buf, k, n, v), c.port = Route(t, k.dst),
         c.st \in {"ROUTED", "ALLOC"} => m = n, c.st = "ACTIVE" => m < n,
         c.st \in {"ALLOC", "ACTIVE"} => c.ovc = v
  PROVE  VcOpen(c, t, v, k, n)
BY DEF VcOpen

\* A VC after reset.
LEMMA OpenForNone ==
  ASSUME NEW c, NEW t, NEW v, NEW k, c.st = "IDLE", Len(c.buf) = 0
  PROVE  VcOpen(c, t, v, k, 0)
BY DEF VcOpen, Holds

\* Input VC v over a clock edge, from c to c2: write says that a flit of g comes, pop
\* that one leaves, tail that it is a tail, and va that the VC is given a channel.
VcMoves(t, v, k, n, c, c2, k2, n2, g, write, pop, tail, va) ==
    /\ Len(c.buf) \in Nat /\ Len(c2.buf) \in Nat /\ VcOpen(c, t, v, k, n)
    /\ n > 0 => k.len \in Nat
    /\ write => g \in Packets /\ g.len \in Nat /\ n + 1 <= g.len /\ (n > 0 => g = k)
    /\ pop => c.st \in {"ALLOC", "ACTIVE"} /\ ~va /\ Len(c.buf) > 0 /\ (tail <=> n - Len(c.buf) + 1 = k.len)
    /\ va => c.st = "ROUTED"
    /\ n2 = IF pop /\ tail THEN 0 ELSE IF write THEN n + 1 ELSE n
    /\ k2 = IF write THEN g ELSE k
    /\ c2.st = IF pop THEN (IF tail THEN "IDLE" ELSE "ACTIVE")
               ELSE IF va THEN "ALLOC" ELSE IF write /\ n = 0 THEN "ROUTED" ELSE c.st
    /\ c2.port = IF write /\ n = 0 THEN Route(t, g.dst) ELSE c.port
    /\ c2.ovc = IF va THEN v ELSE c.ovc
    /\ Len(c2.buf) = Len(c.buf) + (IF write THEN 1 ELSE 0) - (IF pop THEN 1 ELSE 0)
    /\ Holds(c2.buf, k2, IF write THEN n + 1 ELSE n, v)

\* What is known of an input VC stays known.
LEMMA StillOpen ==
  ASSUME NEW t, NEW v, NEW k, NEW n \in Nat, NEW c, NEW c2, NEW k2, NEW n2, NEW g,
         NEW write \in BOOLEAN, NEW pop \in BOOLEAN, NEW tail \in BOOLEAN, NEW va \in BOOLEAN,
         VcMoves(t, v, k, n, c, c2, k2, n2, g, write, pop, tail, va)
  PROVE  VcOpen(c2, t, v, k2, n2)
<1>. DEFINE m == Len(c.buf)
            m2 == Len(c2.buf)
<1>a. VcMoves(t, v, k, n, c, c2, k2, n2, g, write, pop, tail, va)
  OBVIOUS
<1>b. m \in Nat /\ m2 \in Nat
  BY <1>a DEF VcMoves
<1>1. m = Len(c.buf) /\ m2 = Len(c2.buf) /\ VcOpen(c, t, v, k, n) /\ (n > 0 => k.len \in Nat)
  BY <1>a DEF VcMoves
<1>2. write => g \in Packets /\ g.len \in Nat /\ n + 1 <= g.len /\ (n > 0 => g = k)
  BY <1>a DEF VcMoves
<1>3. pop => c.st \in {"ALLOC", "ACTIVE"} /\ ~va /\ m > 0 /\ (tail <=> n - m + 1 = k.len)
  BY <1>a DEF VcMoves
<1>4. va => c.st = "ROUTED"
  BY <1>a DEF VcMoves
<1>5. n2 = (IF pop /\ tail THEN 0 ELSE IF write THEN n + 1 ELSE n) /\ k2 = (IF write THEN g ELSE k)
  BY <1>a DEF VcMoves
<1>6. c2.st = IF pop THEN (IF tail THEN "IDLE" ELSE "ACTIVE")
              ELSE IF va THEN "ALLOC" ELSE IF write /\ n = 0 THEN "ROUTED" ELSE c.st
  BY <1>a DEF VcMoves
<1>7. c2.port = (IF write /\ n = 0 THEN Route(t, g.dst) ELSE c.port) /\ c2.ovc = (IF va THEN v ELSE c.ovc)
  BY <1>a DEF VcMoves
<1>8. m2 = m + (IF write THEN 1 ELSE 0) - (IF pop THEN 1 ELSE 0)
  BY <1>a DEF VcMoves
<1>9. Holds(c2.buf, k2, IF write THEN n + 1 ELSE n, v)
  BY <1>a DEF VcMoves
<1>. HIDE DEF m, m2
<1>10. n = 0 => c.st = "IDLE" /\ m = 0
  BY <1>b, <1>1 DEF VcOpen
<1>11. n > 0 => /\ c.st # "IDLE" /\ k \in Packets /\ k.len \in Nat /\ n <= k.len /\ m <= n
                /\ n - m < k.len /\ c.port = Route(t, k.dst)
  BY <1>b, <1>1 DEF VcOpen
<1>12. /\ c.st \in {"ROUTED", "ALLOC"} => m = n
       /\ c.st = "ACTIVE" => m < n
       /\ c.st \in {"ALLOC", "ACTIVE"} => c.ovc = v
  BY <1>b, <1>1 DEF VcOpen
<1>13. CASE n > 0
  <2>. DEFINE l == k.len
              n3 == IF write THEN n + 1 ELSE n
              gl == IF write THEN g.len ELSE 0
  <2>1. l \in Nat /\ gl \in Nat /\ n3 \in Nat \ {0} /\ n > 0 /\ n <= l /\ m <= n /\ n - m < l
    BY <1>b, <1>2, <1>11, <1>13
  <2>2. write => n + 1 <= gl /\ gl = l
    BY <1>b, <1>2, <1>13
  <2>3. pop => m > 0
    BY <1>b, <1>3
  <2>4. n3 = IF write THEN n + 1 ELSE n
    OBVIOUS
  <2>5. pop => (tail <=> n - m + 1 = l)
    BY <1>b, <1>3
  <2>6. k2 = k /\ k \in Packets /\ k.len = l /\ c2.port = Route(t, k.dst) /\ n2 = (IF pop /\ tail THEN 0 ELSE n3)
    BY <1>b, <1>2, <1>5, <1>7, <1>11, <1>13
  <2>7. Holds(c2.buf, k2, n3, v)
    BY <1>b, <1>9
  <2>. HIDE DEF l, gl, n3
  <2>8. /\ n3 > 0 /\ n3 <= l /\ m2 <= n3
        /\ pop => m2 < n3 /\ (n3 - m2 < l <=> n - m + 1 # l)
        /\ pop /\ n - m + 1 = l => ~write /\ m2 = 0
        /\ ~pop => n3 - m2 = n - m
    BY <1>b, <1>8, <2>1, <2>2, <2>3, <2>4, Places
  <2>9. CASE pop /\ tail
    <3>1. c2.st = "IDLE" /\ Len(c2.buf) = 0 /\ n2 = 0
      BY <1>b, <1>1, <1>6, <2>5, <2>6, <2>8, <2>9
    <3>. QED
      BY <1>b, <3>1, OpenForNone
  <2>10. CASE ~(pop /\ tail)
    <3>1. n2 = n3 /\ m2 <= n3 /\ n3 - m2 < l /\ n3 <= l
      BY <1>b, <2>1, <2>5, <2>6, <2>8, <2>10
    <3>2. /\ c2.st # "IDLE" /\ (c2.st \in {"ALLOC", "ACTIVE"} => c2.ovc = v)
          /\ c2.st \in {"ROUTED", "ALLOC"} => ~pop /\ c.st \in {"ROUTED", "ALLOC"}
          /\ c2.st = "ACTIVE" => pop \/ c.st = "ACTIVE"
      BY <1>3, <1>4, <1>6, <1>7, <1>11, <1>12, <1>13, <2>10
    <3>3. (c2.st \in {"ROUTED", "ALLOC"} => m2 = n3) /\ (c2.st = "ACTIVE" => m2 < n3)
      BY <1>b, <1>12, <2>1, <2>8, <3>2
    <3>. QED
      BY <1>b, <1>1, <2>1, <2>6, <2>7, <3>1, <3>2, <3>3, OpenFor
  <2>. QED
    BY <1>b, <2>9, <2>10
<1>14. CASE n = 0 /\ write
  <2>1. ~pop /\ ~va /\ n2 = 1 /\ m2 = 1 /\ k2 = g /\ c2.st = "ROUTED" /\ c2.port = Route(t, g.dst)
    BY <1>b, <1>3, <1>4, <1>5, <1>6, <1>7, <1>8, <1>10, <1>14
  <2>2. g \in Packets /\ g.len \in Nat /\ 1 <= g.len
    BY <1>b, <1>2, <1>14
  <2>3. Holds(c2.buf, g, 1, v)
    BY <1>b, <1>9, <1>14, <2>1
  <2>4. VcOpen(c2, t, v, g, 1)
    BY <1>b, <1>1, <2>1, <2>2, <2>3 DEF VcOpen
  <2>. QED
    BY <1>b, <2>1, <2>4
<1>15. CASE n = 0 /\ ~write
  <2>1. ~pop /\ ~va /\ n2 = 0 /\ m2 = 0 /\ c2.st = "IDLE"
    BY <1>b, <1>3, <1>4, <1>5, <1>6, <1>8, <1>10, <1>15
  <2>. QED
    BY <1>b, <1>1, <2>1, OpenForNone
<1>. QED
  BY <1>b, <1>13, <1>14, <1>15

\* An input VC over a clock edge, with f on the wire: what is known of it stays
\* known, of the flits that have come by then.
LEMMA VcStep ==
  ASSUME NEW r, RouterType(r), NEW t, NEW p \in Port, NEW v \in Vc, NEW k, NEW n \in Nat,
         NEW c, c = Ivc(r, p, v), VcOpen(c, t, v, k, n),
         NEW f \in Flit \cup {NoFlit}, Sends(f, v) => Follows(f, k, n) /\ Len(c.buf) < VcDepth,
         NEW c2, c2 = NextVc(r, Grants(r), t, p, v, f)
  PROVE  /\ c2 \in VcRegs
         /\ Len(c2.buf) = Len(c.buf) + One(Sends(f, v)) - One(v \in SaGranted(r, p))
         /\ VcOpen(c2, t, v, Comer(f, v, k), NextCome(r, p, v, f, n))
         /\ \A o : Held(c2, o) <=> \/ Held(c, o) /\ ~TailLeaves(r, p, v)
                                   \/ v \in VaGranted(r, p) /\ c.port = o
<1>. DEFINE pop == v \in SaGranted(r, p)
            write == Sends(f, v)
            b2 == Filled(c.buf, pop, write, f)
            k2 == Comer(f, v, k)
<1>1. /\ c \in VcRegs /\ c.buf \in Seq(Flit) /\ Len(c.buf) \in Nat
      /\ Len(c.buf) <= n /\ Holds(c.buf, k, n, v)
  BY DEF RouterType, VcOpen, VcRegs, Ivc, Cred, Busy
<1>2. ASSUME pop
      PROVE  /\ c.st \in {"ALLOC", "ACTIVE"} /\ v \notin VaGranted(r, p)
             /\ c.buf # <<>> /\ Len(c.buf) > 0 /\ n > 0
             /\ c.buf[1] = [pkt |-> k, i |-> n - Len(c.buf) + 1, vc |-> v]
  <2>1. v \in SaGranted(r, p)
    BY <1>2
  <2>. HIDE DEF pop, write, b2, k2
  <2>2. /\ c.st \in {"ALLOC", "ACTIVE"} /\ c.buf # <<>> /\ Len(c.buf) \in Nat \ {0} /\ n > 0
        /\ c.buf[1] = [pkt |-> k, i |-> n - Len(c.buf) + 1, vc |-> v]
        /\ v \notin VaGranted(r, p)
    <3>1. RouterType(r) /\ v \in SaGranted(r, p) /\ VcOpen(Ivc(r, p, v), t, v, k, n)
      BY <2>1
    <3>2. /\ Ivc(r, p, v).st \in {"ALLOC", "ACTIVE"} /\ Len(Ivc(r, p, v).buf) \in Nat \ {0} /\ n > 0
          /\ v \notin VaGranted(r, p) /\ Front(Ivc(r, p, v).buf, k, n, v)
      BY <3>1, Granted
    <3>. QED
      BY <3>2 DEF Front, NextFlit
  <2>. QED
    BY <2>2
<1>3. v \in VaGranted(r, p) => c.st = "ROUTED"
  BY VaFacts DEF Eligible, Ivc, Busy
<1>4. write => /\ f \in Flit /\ f # NoFlit /\ f = [pkt |-> f.pkt, i |-> n + 1, vc |-> v]
               /\ n + 1 <= f.pkt.len /\ (n > 0 => f.pkt = k) /\ f.pkt \in Packets
  BY Wires DEF Flit, Follows, Sends
<1>5. k \in Packets /\ n > 0 => k.len \in Nat
  BY PacketFacts
<1>6. write => f.pkt.len \in Nat /\ Route(t, f.pkt.dst) \in Port
  BY <1>4, PacketFacts
<1>7. /\ b2 \in Seq(Flit) /\ Len(b2) = Len(c.buf) + One(write) - One(pop) /\ Len(b2) \in Nat
      /\ Holds(b2, k2, n + One(write), v)
  <2>1. b2 \in Seq(Flit) /\ Len(b2) = Len(c.buf) + One(write) - One(pop)
        /\ Holds(b2, IF write THEN f.pkt ELSE k, n + One(write), v)
    <3>1. pop \in BOOLEAN /\ write \in BOOLEAN
      BY DEF Sends
    <3>. HIDE DEF pop, write
    <3>. QED
      BY <1>1, <1>2, <1>4, <3>1, BufferMoves
  <2>. QED
    BY <2>1 DEF Comer
<1>8. /\ c2.buf = b2
      /\ c2.ovc = IF v \in VaGranted(r, p) THEN v ELSE c.ovc
      /\ c2.port = IF write /\ f.i = 1 THEN Route(t, f.pkt.dst) ELSE c.port
      /\ c2.st = IF pop THEN (IF IsTail(c.buf[1]) THEN "IDLE" ELSE "ACTIVE")
                 ELSE IF v \in VaGranted(r, p) THEN "ALLOC"
                 ELSE IF write /\ f.i = 1 THEN "ROUTED" ELSE c.st
      /\ c2 = [st |-> c2.st, port |-> c2.port, ovc |-> c2.ovc, buf |-> c2.buf]
  BY DEF NextVc, Grants, CandVc, IsHead, Sends, Filled, Rest, Ivc
<1>9. c2 \in VcRegs
  BY <1>1, <1>6, <1>7, <1>8 DEF VcRegs
<1>10. One(write) = (IF write THEN 1 ELSE 0) /\ One(pop) = (IF pop THEN 1 ELSE 0)
  BY DEF One
<1>11. ASSUME pop PROVE IsTail(c.buf[1]) <=> n - Len(c.buf) + 1 = k.len
  <2>1. c.buf[1] = [pkt |-> k, i |-> n - Len(c.buf) + 1, vc |-> v]
    BY <1>2, <1>11
  <2>. HIDE DEF pop, write, b2, k2
  <2>2. c.buf[1].i = n - Len(c.buf) + 1 /\ c.buf[1].pkt = k
    BY <2>1
  <2>. QED
    BY <2>2 DEF IsTail
<1>12. VcOpen(c2, t, v, k2, NextCome(r, p, v, f, n))
  <2>. DEFINE tail == IsTail(c.buf[1])
              va == v \in VaGranted(r, p)
  <2>1. /\ NextCome(r, p, v, f, n) = IF pop /\ tail THEN 0 ELSE IF write THEN n + 1 ELSE n
        /\ k2 = IF write THEN f.pkt ELSE k
    BY DEF NextCome, TailLeaves, Come, Comer, One
  <2>2. /\ c2.st = IF pop THEN (IF tail THEN "IDLE" ELSE "ACTIVE")
                   ELSE IF va THEN "ALLOC"
                   ELSE IF write /\ n = 0 THEN "ROUTED" ELSE c.st
        /\ c2.port = IF write /\ n = 0 THEN Route(t, f.pkt.dst) ELSE c.port
        /\ c2.ovc = IF va THEN v ELSE c.ovc
    <3>1. write => (f.i = 1 <=> n = 0)
      BY <1>4
    <3>. QED
      BY <1>8, <3>1
  <2>3. /\ Len(c2.buf) = Len(c.buf) + (IF write THEN 1 ELSE 0) - (IF pop THEN 1 ELSE 0) /\ Len(c2.buf) \in Nat
        /\ Holds(c2.buf, k2, IF write THEN n + 1 ELSE n, v)
    <3>1. n + One(write) = IF write THEN n + 1 ELSE n
      BY <1>10
    <3>. HIDE DEF pop, write, b2, k2
    <3>2. Len(c2.buf) = Len(c.buf) + (IF write THEN 1 ELSE 0) - (IF pop THEN 1 ELSE 0) /\ Len(c2.buf) \in Nat
      BY <1>7, <1>8, <1>10
    <3>3. Holds(c2.buf, k2, IF write THEN n + 1 ELSE n, v)
      BY <1>7, <1>8, <3>1
    <3>. QED
      BY <3>2, <3>3
  <2>4. pop => c.st \in {"ALLOC", "ACTIVE"} /\ ~va /\ Len(c.buf) > 0 /\ (tail <=> n - Len(c.buf) + 1 = k.len)
    BY <1>2, <1>11
  <2>5. va => c.st = "ROUTED"
    BY <1>3
  <2>6. write => f.pkt \in Packets /\ f.pkt.len \in Nat /\ n + 1 <= f.pkt.len /\ (n > 0 => f.pkt = k)
    BY <1>4, <1>6
  <2>7. n > 0 => k.len \in Nat
    BY <1>5 DEF VcOpen
  <2>8. pop \in BOOLEAN /\ write \in BOOLEAN /\ va \in BOOLEAN /\ tail \in BOOLEAN /\ Len(c.buf) \in Nat
    BY <1>1 DEF Sends, IsTail
  <2>9. VcOpen(c, t, v, k, n)
    OBVIOUS
  <2>. HIDE DEF pop, write, b2, k2, tail, va
  <2>. QED
    <3>1. VcMoves(t, v, k, n, c, c2, k2, NextCome(r, p, v, f, n), f.pkt, write, pop, tail, va)
      BY <2>1, <2>2, <2>3, <2>4, <2>5, <2>6, <2>7, <2>8, <2>9 DEF VcMoves
    <3>. QED
      BY <2>8, <3>1, StillOpen
<1>13. ASSUME NEW o
       PROVE  Held(c2, o) <=> \/ Held(c, o) /\ ~TailLeaves(r, p, v)
                              \/ v \in VaGranted(r, p) /\ c.port = o
  <2>1. write /\ f.i = 1 => c.st = "IDLE"
    BY <1>4 DEF VcOpen
  <2>. QED
    BY <1>2, <1>3, <1>8, <2>1 DEF Held, TailLeaves
<1>. QED
  BY <1>7, <1>8, <1>9, <1>12, <1>13

---------------------------------------------------------------------------
(* One channel of a link: the steps of its two ends *)

\* What has come does not change when a wire that does not carry v is replaced by another.
LEMMA LineQuiet ==
  ASSUME NEW f, NEW x, NEW v, NEW k, NEW n \in Nat, NEW ku, NEW gn \in Int, NEW busy, NEW tc,
         ~Sends(f, v), ~Sends(x, v), Line(f, v, k, n, ku, gn, busy, tc)
  PROVE  Line(x, v, k, n, ku, gn, busy, tc)
BY DEF Line, Come, Comer, One

\* Of a channel that no packet has none is recorded.
LEMMA LineFree ==
  ASSUME NEW f, NEW v, NEW k, NEW n \in Nat, NEW ku, NEW gn \in Int, NEW ku2, NEW gn2 \in Int, NEW busy, NEW tc,
         Line(f, v, k, n, ku, gn, busy, tc), gn < 0, gn2 < 0
  PROVE  Line(f, v, k, n, ku2, gn2, busy, tc)
BY DEF Line

\* Of channel v n flits of packet k have come; with the one on the wire they are n2 of
\* k2, or none when the tail of the packet goes (tl).
Came(f, v, k, n, tl, k2, n2) ==
    /\ tl => n > 0 /\ n = k.len
    /\ k2 = Comer(f, v, k)
    /\ n2 = IF tl THEN 0 ELSE Come(f, v, n)

\* More of packet k is to come when n flits have.
Short(k, n) == n >= 0 => n < k.len

\* The sender takes in the credit of a tail, if one is on its way (tc), and the receiver
\* the flit; it may let the tail of its packet go (tl).
LEMMA LineReceive ==
  ASSUME NEW f, NEW v, NEW k, NEW n \in Nat, NEW ku, NEW gn \in Int, NEW busy, NEW tc,
         Line(f, v, k, n, ku, gn, busy, tc), Short(ku, gn),
         NEW tl, NEW k2, NEW n2, Came(f, v, k, n, tl, k2, n2), NEW b2, b2 <=> busy /\ ~tc
  PROVE  Line(NoFlit, v, k2, n2, ku, gn, b2, tl)
<1>1. ~Sends(NoFlit, v)
  BY Wires
<1>. DEFINE s == Sends(f, v)
            c == Come(f, v, n)
<1>2. /\ c = (IF s THEN n + 1 ELSE n) /\ k2 = (IF s THEN f.pkt ELSE k) /\ c \in Nat
      /\ tl => n > 0 /\ n = k.len
  BY DEF Came, Come, Comer, One
<1>3. s => f.i = n + 1 /\ f.i <= f.pkt.len /\ (n > 0 => f.pkt = k)
  BY DEF Line, Follows
<1>4. /\ gn >= 0 => b2 /\ c = gn /\ (gn > 0 => k2 = ku)
      /\ gn < 0 => c = 0 \/ c = k2.len
      /\ ~b2 => gn < 0 /\ c = 0
  BY DEF Line, Came
<1>. HIDE DEF s, c
<1>5. tl => ~s /\ c = n /\ k2 = k
  BY <1>2, <1>3
<1>6. tl => gn < 0 /\ b2
  <2>1. tl /\ gn >= 0 => gn = k.len /\ k = ku
    BY <1>2, <1>4, <1>5
  <2>2. tl => gn < 0
    BY <2>1 DEF Short
  <2>. QED
    BY <1>2, <1>4, <1>5, <2>2
<1>7. n2 \in Nat /\ Come(NoFlit, v, n2) = n2 /\ Comer(NoFlit, v, k2) = k2 /\ n2 = IF tl THEN 0 ELSE c
  BY <1>1, <1>2 DEF Came, Come, Comer, One, c
<1>8. /\ gn >= 0 => b2 /\ ~tl /\ n2 = gn /\ (gn > 0 => k2 = ku)
      /\ gn < 0 => n2 = 0 \/ n2 = k2.len
      /\ ~b2 => gn < 0 /\ n2 = 0 /\ ~tl
      /\ tl => n2 = 0
  BY <1>4, <1>6, <1>7
<1>. QED
  BY <1>1, <1>7, <1>8 DEF Line

\* The sender sends the next flit of the packet that has the channel,
LEMMA LineSend ==
  ASSUME NEW v, NEW k, NEW n \in Nat, NEW ku, NEW gn \in Nat, NEW busy, NEW tc,
         Line(NoFlit, v, k, n, ku, gn, busy, tc), ku.len \in Nat, Short(ku, gn),
         NEW x, x = [pkt |-> ku, i |-> gn + 1, vc |-> v]
  PROVE  /\ Line(x, v, k, n, ku, gn + 1, busy, tc)
         /\ gn + 1 = ku.len => Line(x, v, k, n, ku, -1, busy, tc)
<1>1. ~Sends(NoFlit, v)
  BY Wires
<1>2. /\ busy /\ ~tc /\ n = gn /\ (gn > 0 => k = ku)
  BY <1>1 DEF Line, Come, Comer, One
<1>3. x.i = gn + 1 /\ x.pkt = ku /\ x.vc = v /\ x.i # 0
  OBVIOUS
<1>4. Sends(x, v)
  BY <1>3 DEF Sends, NoFlit
<1>5. Come(x, v, n) = gn + 1 /\ Comer(x, v, k) = ku
  BY <1>2, <1>3, <1>4 DEF Come, Comer, One
<1>6. Follows(x, k, n)
  BY <1>2, <1>3 DEF Follows, Short
<1>. QED
  BY <1>2, <1>5, <1>6 DEF Line

\* A channel that is not busy carries nothing.
LEMMA LineUnused ==
  ASSUME NEW f, NEW v, NEW k, NEW n \in Nat, NEW ku, NEW gn \in Int, NEW busy, NEW tc,
         Line(f, v, k, n, ku, gn, busy, tc), ~busy
  PROVE  gn < 0 /\ ~tc /\ ~Sends(f, v) /\ n = 0
<1>1. gn < 0 /\ ~tc /\ Come(f, v, n) = 0
  BY DEF Line
<1>. QED
  BY <1>1 DEF Come, One

\* The sender gives it to a packet, or only marks it as given.
IsSet(b) == b

\* A channel that is not busy may be given to any packet.
LEMMA LineAlloc ==
  ASSUME NEW f, NEW v, NEW k, NEW n \in Nat, NEW ku, NEW gn \in Int, NEW busy, NEW tc,
         Line(f, v, k, n, ku, gn, busy, tc), ~busy, NEW k2, NEW b2, IsSet(b2)
  PROVE  Line(f, v, k, n, k2, 0, b2, tc) /\ Line(f, v, k, n, ku, gn, b2, tc)
<1>1. gn < 0 /\ ~tc /\ ~Sends(f, v) /\ n = 0
  BY LineUnused
<1>. QED
  BY <1>1 DEF Line, Come, One, IsSet

---------------------------------------------------------------------------
(* The channels of a router over a clock edge *)

\* What a router is fed: the flits that come are the next of their packets and find
\* room.
Feed(a, t, fl, ka, na) ==
    \A p \in Port, v \in Vc :
        /\ At(na, p, v) \in Nat /\ VcOpen(Ivc(a, p, v), t, v, At(ka, p, v), At(na, p, v))
        /\ fl[p] \in Flit \cup {NoFlit}
        /\ Sends(fl[p], v) => Follows(fl[p], At(ka, p, v), At(na, p, v)) /\ Len(Ivc(a, p, v).buf) < VcDepth

\* Input VC c is c2 after the edge, of k and n become k2 and n2: g says that a flit left
\* it, w that one came, tl that it was the tail that left and va that it was given a channel.
Moved(c, c2, k, n, k2, n2, w, g, tl, va) ==
    /\ \A o : Held(c2, o) <=> \/ Held(c, o) /\ ~tl
                              \/ va /\ c.port = o
    /\ Len(c.buf) \in Nat /\ Len(c2.buf) \in Nat /\ n2 \in Nat
    /\ Len(c2.buf) = Len(c.buf) + One(w) - One(g)
    /\ ~tl => n2 - Len(c2.buf) = n - Len(c.buf) + One(g)
    /\ n > 0 => k2 = k
    /\ g => Held(c, c.port) /\ Len(c.buf) > 0 /\ ~va
    /\ tl <=> g /\ n - Len(c.buf) + 1 = k.len
    /\ tl => n > 0 /\ n = k.len
    /\ va => n > 0 /\ n - Len(c.buf) = 0
    /\ \A o : Held(c, o) => /\ n > 0 /\ n - Len(c.buf) \in Nat /\ k.len \in Nat
                            /\ n - Len(c.buf) < k.len

\* The registers that a port and a VC index.
LEMMA RouterFields ==
  ASSUME NEW r, RouterType(r), NEW p \in Port
  PROVE  /\ Out(r, p) \in Flit \cup {NoFlit} /\ Ret(r, p) \in CreditMsg \cup {NoCredit}
         /\ \A v \in Vc : Ivc(r, p, v) \in VcRegs /\ Busy(r, p, v) \in BOOLEAN /\ Cred(r, p, v) \in Int
<1>1. r.out \in [Port -> Flit \cup {NoFlit}] /\ r.ret \in [Port -> CreditMsg \cup {NoCredit}]
  BY DEF RouterType
<1>2. r.ivc[p] \in [Vc -> VcRegs]
  BY DEF RouterType
<1>3. r.busy[p] \in [Vc -> BOOLEAN]
  BY DEF RouterType
<1>4. r.credits[p] \in [Vc -> Int]
  BY DEF RouterType
<1>5. \A v \in Vc : Ivc(r, p, v) \in VcRegs
  BY <1>2 DEF Ivc
<1>6. \A v \in Vc : Busy(r, p, v) \in BOOLEAN
  BY <1>3 DEF Busy
<1>7. \A v \in Vc : Cred(r, p, v) \in Int
  BY <1>4 DEF Cred
<1>8. Out(r, p) \in Flit \cup {NoFlit}
  BY <1>1 DEF Out
<1>9. Ret(r, p) \in CreditMsg \cup {NoCredit}
  BY <1>1 DEF Ret
<1>. QED
  BY <1>5, <1>6, <1>7, <1>8, <1>9

\* What a clock edge does to an input VC.
LEMMA VcMoved ==
  ASSUME NEW a, RouterType(a), NEW t, NEW fl, NEW cr, NEW a2, Edge(a, t, fl, cr, a2),
         NEW ka, NEW na, Feed(a, t, fl, ka, na), NEW p \in Port, NEW v \in Vc
  PROVE  LET k2 == Comer(fl[p], v, At(ka, p, v))
             n2 == NextCome(a, p, v, fl[p], At(na, p, v))
         IN  /\ Ivc(a2, p, v) \in VcRegs /\ VcOpen(Ivc(a2, p, v), t, v, k2, n2)
             /\ Moved(Ivc(a, p, v), Ivc(a2, p, v), At(ka, p, v), At(na, p, v), k2, n2, Sends(fl[p], v),
                      v \in SaGranted(a, p), TailLeaves(a, p, v), v \in VaGranted(a, p))
<1>. DEFINE f == fl[p]
            c == Ivc(a, p, v)
            c2 == Ivc(a2, p, v)
            k == At(ka, p, v)
            n == At(na, p, v)
            w == Sends(f, v)
            g == v \in SaGranted(a, p)
            tl == TailLeaves(a, p, v)
            va == v \in VaGranted(a, p)
            k2 == Comer(f, v, k)
            n2 == NextCome(a, p, v, f, n)
<1>1. /\ n \in Nat /\ VcOpen(c, t, v, k, n) /\ f \in Flit \cup {NoFlit}
      /\ w => Follows(f, k, n) /\ Len(c.buf) < VcDepth
  BY DEF Feed
<1>2. c2 = NextVc(a, Grants(a), t, p, v, f)
  BY EdgeFields
<1>3. /\ c2 \in VcRegs /\ Len(c2.buf) = Len(c.buf) + One(w) - One(g) /\ VcOpen(c2, t, v, k2, n2)
      /\ \A o : Held(c2, o) <=> (Held(c, o) /\ ~tl) \/ (va /\ c.port = o)
  <2>1. PICK m \in Nat : m = n
    BY <1>1
  <2>2. PICK y \in Flit \cup {NoFlit} : y = f
    BY <1>1
  <2>3. /\ c = Ivc(a, p, v) /\ VcOpen(c, t, v, k, m) /\ c2 = NextVc(a, Grants(a), t, p, v, y)
        /\ Sends(y, v) => Follows(y, k, m) /\ Len(c.buf) < VcDepth
    BY <1>1, <1>2, <2>1, <2>2
  <2>. HIDE DEF f, c, c2, k, n
  <2>4. /\ c2 \in VcRegs /\ Len(c2.buf) = Len(c.buf) + One(Sends(y, v)) - One(v \in SaGranted(a, p))
        /\ VcOpen(c2, t, v, Comer(y, v, k), NextCome(a, p, v, y, m))
        /\ \A o : Held(c2, o) <=> \/ Held(c, o) /\ ~TailLeaves(a, p, v)
                                  \/ v \in VaGranted(a, p) /\ c.port = o
    BY <2>3, VcStep, SMTT(30)
  <2>. QED
    BY <2>1, <2>2, <2>4
<1>4. c \in VcRegs
  BY RouterFields
<1>5. Len(c.buf) \in Nat /\ Len(c2.buf) \in Nat /\ Len(c.buf) <= n
  BY <1>1, <1>3, <1>4 DEF VcRegs, VcOpen
<1>6. n2 = IF tl THEN 0 ELSE n + One(w)
  BY DEF NextCome, Come
<1>7. n > 0 => k2 = k
  BY <1>1 DEF Comer, Follows
<1>8. g => c.st \in {"ALLOC", "ACTIVE"} /\ Len(c.buf) > 0 /\ n > 0 /\ ~va /\ Front(c.buf, k, n, v)
  <2>1. PICK m \in Nat : m = n
    BY <1>1
  <2>2. VcOpen(c, t, v, k, m)
    BY <1>1, <2>1
  <2>. QED
    BY <2>1, <2>2, Granted
<1>9. va => c.st = "ROUTED"
  BY VaFacts DEF Eligible, Ivc, Busy
<1>10. /\ c.st # "IDLE" => n > 0 /\ k \in Packets /\ n <= k.len /\ n - Len(c.buf) < k.len
       /\ c.st = "ROUTED" => Len(c.buf) = n
  BY <1>1 DEF VcOpen
<1>11. c.st # "IDLE" => k.len \in Nat
  BY <1>10, PacketFacts
<1>12. tl <=> g /\ IsTail(c.buf[1])
  BY DEF TailLeaves
<1>. HIDE DEF f, c, c2, k, n, w, g, tl, va, k2, n2
<1>13. tl <=> g /\ n - Len(c.buf) + 1 = k.len
  <2>1. g => c.buf[1] = [pkt |-> k, i |-> n - Len(c.buf) + 1, vc |-> v]
    BY <1>8 DEF Front, NextFlit
  <2>2. g => (IsTail(c.buf[1]) <=> n - Len(c.buf) + 1 = k.len)
    BY <2>1 DEF IsTail
  <2>. QED
    BY <1>12, <2>2
<1>14. One(w) \in 0 .. 1 /\ One(g) \in 0 .. 1 /\ n2 \in Nat
  BY <1>1, <1>6 DEF One
<1>15. ~tl => n2 - Len(c2.buf) = n - Len(c.buf) + One(g)
  BY <1>1, <1>3, <1>5, <1>6, <1>14
<1>16. tl => n > 0 /\ n = k.len
  <2>1. tl => c.st # "IDLE" /\ g
    BY <1>8, <1>13
  <2>2. tl => n <= k.len /\ n - Len(c.buf) + 1 = k.len /\ Len(c.buf) > 0 /\ n > 0 /\ k.len \in Nat
    BY <2>1, <1>8, <1>10, <1>11, <1>13
  <2>3. ASSUME NEW l \in Nat, n \in Nat, NEW m \in Nat, n <= l, n - m + 1 = l, m > 0 PROVE n = l
    BY <2>3
  <2>. QED
    BY <1>1, <1>5, <2>2, <2>3
<1>17. g => Held(c, c.port) /\ Len(c.buf) > 0 /\ ~va
  BY <1>8 DEF Held
<1>18. va => n > 0 /\ n - Len(c.buf) = 0
  BY <1>1, <1>5, <1>9, <1>10
<1>19. ASSUME NEW o, Held(c, o)
       PROVE  n > 0 /\ n - Len(c.buf) \in Nat /\ k.len \in Nat /\ n - Len(c.buf) < k.len
  <2>1. c.st # "IDLE"
    BY <1>19 DEF Held
  <2>. QED
    BY <1>1, <1>5, <1>10, <1>11, <2>1
<1>20. Moved(c, c2, k, n, k2, n2, w, g, tl, va)
  BY <1>3, <1>5, <1>7, <1>13, <1>14, <1>15, <1>16, <1>17, <1>18, <1>19, Zenon DEF Moved
<1>. QED
  BY <1>3, <1>20 DEF f, c, c2, k, n, w, g, tl, va, k2, n2

\* What leaves an output on channel v comes from the input VC that holds it there.
LEMMA SendsFrom ==
  ASSUME NEW a, RouterType(a), NEW t, NEW fl, NEW ka, NEW na, Feed(a, t, fl, ka, na),
         NEW o \in Port, NEW v \in Vc
  PROVE  LET x == Crossbar(a, Grants(a), o) IN
         /\ Sends(x, v) => \E p \in Port : v \in SaGranted(a, p) /\ Ivc(a, p, v).port = o
         /\ \A p \in Port : v \in SaGranted(a, p) /\ Ivc(a, p, v).port = o =>
              /\ x = NextFlit(Ivc(a, p, v).buf, At(ka, p, v), At(na, p, v), v)
              /\ Sends(x, v) /\ Cred(a, o, v) # 0
<1>. DEFINE x == Crossbar(a, Grants(a), o)
<1>1. ASSUME NEW p \in Port, NEW w \in SaGranted(a, p), Ivc(a, p, w).port = o
      PROVE  /\ w \in Vc /\ x = NextFlit(Ivc(a, p, w).buf, At(ka, p, w), At(na, p, w), w)
             /\ Sends(x, w) /\ Cred(a, o, w) # 0
  <2>1. w \in Vc
    BY SaFacts DEF SaReq, Ivc, Cred
  <2>2. At(na, p, w) \in Nat /\ VcOpen(Ivc(a, p, w), t, w, At(ka, p, w), At(na, p, w))
    BY <2>1 DEF Feed
  <2>3. /\ Leaving(a, p, w) = NextFlit(Ivc(a, p, w).buf, At(ka, p, w), At(na, p, w), w)
        /\ Cred(a, o, w) # 0 /\ Len(Ivc(a, p, w).buf) \in Nat
    <3>1. PICK m \in Nat : m = At(na, p, w)
      BY <2>2
    <3>2. VcOpen(Ivc(a, p, w), t, w, At(ka, p, w), m)
      BY <2>2, <3>1
    <3>. QED
      BY <1>1, <3>1, <3>2, Granted
  <2>4. x = Leaving(a, p, w)
    BY <1>1, SentFacts
  <2>. HIDE DEF x
  <2>5. x.vc = w /\ x.i = At(na, p, w) - Len(Ivc(a, p, w).buf) + 1
    BY <2>3, <2>4 DEF NextFlit
  <2>6. Len(Ivc(a, p, w).buf) <= At(na, p, w)
    BY <2>2 DEF VcOpen
  <2>7. x.i # 0
    BY <2>2, <2>3, <2>5, <2>6
  <2>8. x # NoFlit
    BY <2>7 DEF NoFlit
  <2>. QED
    BY <2>1, <2>3, <2>4, <2>5, <2>8 DEF Sends
<1>2. ASSUME Sends(x, v)
      PROVE  \E p \in Port : v \in SaGranted(a, p) /\ Ivc(a, p, v).port = o
  <2>1. x # NoFlit /\ x.vc = v
    BY <1>2 DEF Sends
  <2>2. PICK p \in Port : \E w \in SaGranted(a, p) : Ivc(a, p, w).port = o
    BY <2>1, SentFacts
  <2>3. PICK w \in SaGranted(a, p) : Ivc(a, p, w).port = o
    BY <2>2
  <2>. HIDE DEF x
  <2>4. Sends(x, w)
    BY <1>1, <2>3
  <2>5. w = v
    BY <2>1, <2>4 DEF Sends
  <2>. QED
    BY <2>3, <2>5
<1>. QED
  BY <1>1, <1>2

\* Router a of tile t is a2 after an edge, and ka and na, which say what has come, are
\* ka2 and na2.
Stepped(a, t, fl, cr, ka, na, a2, ka2, na2) ==
    /\ RouterType(a) /\ Edge(a, t, fl, cr, a2) /\ Feed(a, t, fl, ka, na)
    /\ \A p \in Port, v \in Vc :
         /\ At(ka2, p, v) = Comer(fl[p], v, At(ka, p, v))
         /\ At(na2, p, v) = NextCome(a, p, v, fl[p], At(na, p, v))

\* The same, of a router that is clocked.
LEMMA SteppedVc ==
  ASSUME NEW a, NEW t, NEW fl, NEW cr, NEW ka, NEW na, NEW a2, NEW ka2, NEW na2,
         Stepped(a, t, fl, cr, ka, na, a2, ka2, na2), NEW p \in Port, NEW v \in Vc
  PROVE  /\ Ivc(a2, p, v) \in VcRegs /\ VcOpen(Ivc(a2, p, v), t, v, At(ka2, p, v), At(na2, p, v))
         /\ Moved(Ivc(a, p, v), Ivc(a2, p, v), At(ka, p, v), At(na, p, v), At(ka2, p, v), At(na2, p, v),
                  Sends(fl[p], v), v \in SaGranted(a, p), TailLeaves(a, p, v), v \in VaGranted(a, p))
         /\ At(na, p, v) \in Nat /\ VcOpen(Ivc(a, p, v), t, v, At(ka, p, v), At(na, p, v))
<1>1. /\ RouterType(a) /\ Edge(a, t, fl, cr, a2) /\ Feed(a, t, fl, ka, na)
      /\ At(ka2, p, v) = Comer(fl[p], v, At(ka, p, v))
      /\ At(na2, p, v) = NextCome(a, p, v, fl[p], At(na, p, v))
  BY DEF Stepped
<1>2. At(na, p, v) \in Nat /\ VcOpen(Ivc(a, p, v), t, v, At(ka, p, v), At(na, p, v))
  BY <1>1 DEF Feed
<1>. QED
  BY <1>1, <1>2, VcMoved

\* The credit that an input port returns is for the flit that leaves it.
LEMMA Returns ==
  ASSUME NEW b, NEW q \in Port, NEW v, NEW cr, cr = CreditFor(b, Grants(b), q)
  PROVE  /\ Returned(cr, v) <=> v \in SaGranted(b, q)
         /\ TailBack(cr, v) <=> TailLeaves(b, q, v)
<1>1. CASE SaGranted(b, q) = {}
  <2>1. cr = NoCredit
    BY <1>1, SentFacts
  <2>. QED
    BY <1>1, <2>1 DEF Returned, TailBack, TailLeaves
<1>2. CASE SaGranted(b, q) # {}
  <2>1. PICK w : w \in SaGranted(b, q)
    BY <1>2
  <2>2. cr = [vc |-> w, tail |-> IsTail(Ivc(b, q, w).buf[1])] /\ \A y \in SaGranted(b, q) : y = w
    BY <2>1, SentFacts, SaFacts
  <2>3. w \in Nat
    BY <2>1, SaFacts, Indices DEF SaReq
  <2>4. cr.vc = w /\ (cr.tail <=> IsTail(Ivc(b, q, w).buf[1]))
    BY <2>2
  <2>5. cr # NoCredit
    BY <2>3, <2>4 DEF NoCredit
  <2>6. Returned(cr, v) <=> v = w
    BY <2>4, <2>5 DEF Returned
  <2>7. TailLeaves(b, q, w) <=> IsTail(Ivc(b, q, w).buf[1])
    BY <2>1 DEF TailLeaves
  <2>8. TailLeaves(b, q, v) => v = w
    BY <2>2 DEF TailLeaves
  <2>9. TailBack(cr, v) <=> v = w /\ cr.tail
    BY <2>6 DEF TailBack
  <2>. QED
    BY <2>1, <2>2, <2>4, <2>6, <2>7, <2>8, <2>9
<1>. QED
  BY <1>1, <1>2

\* A channel is asked for only when it is free.
LEMMA AsksFree ==
  ASSUME NEW a, NEW o, NEW v, VaAsks(a, o, v) # {}
  PROVE  ~Busy(a, o, v)
<1>1. PICK p \in Port : \E w \in VaFirst(a, p) : Ivc(a, p, w).port = o /\ CandVc(a, p, w) = v
  BY DEF VaAsks, Ivc
<1>2. PICK w \in VaFirst(a, p) : Ivc(a, p, w).port = o /\ w = v
  BY <1>1 DEF CandVc
<1>3. w \in Eligible(a, p)
  <2>1. Eligible(a, p) \in SUBSET Int
    BY Indices DEF Eligible
  <2>. QED
    BY <2>1, GntOne DEF VaFirst
<1>. QED
  BY <1>2, <1>3 DEF Eligible, CandVc, Busy, Ivc

\* What a router does with channel v of output o at an edge.
LEMMA OutputDoes ==
  ASSUME NEW a, NEW t, NEW fl, NEW cr, NEW ka, NEW na, NEW a2, NEW ka2, NEW na2,
         Stepped(a, t, fl, cr, ka, na, a2, ka2, na2), NEW o \in Port, NEW v \in Vc
  PROVE  /\ Sends(Out(a2, o), v) => \E p \in Port : v \in SaGranted(a, p) /\ Held(Ivc(a, p, v), o)
         /\ \A p \in Port : v \in SaGranted(a, p) /\ Held(Ivc(a, p, v), o) =>
              /\ Out(a2, o) = NextFlit(Ivc(a, p, v).buf, At(ka, p, v), At(na, p, v), v)
              /\ Sends(Out(a2, o), v) /\ Cred(a, o, v) # 0
         /\ VaAsks(a, o, v) # {} => ~Busy(a, o, v)
         /\ \A p \in Port : v \in VaGranted(a, p) /\ Ivc(a, p, v).port = o =>
              /\ VaAsks(a, o, v) # {}
              /\ \A p2 \in Port : v \in VaGranted(a, p2) /\ Ivc(a, p2, v).port = o => p2 = p
<1>1. RouterType(a) /\ Edge(a, t, fl, cr, a2) /\ Feed(a, t, fl, ka, na)
  BY DEF Stepped
<1>2. Out(a2, o) = Crossbar(a, Grants(a), o)
  BY <1>1, EdgeFields
<1>. DEFINE x == Crossbar(a, Grants(a), o)
<1>3. /\ Sends(x, v) => \E p \in Port : v \in SaGranted(a, p) /\ Ivc(a, p, v).port = o
      /\ \A p \in Port : v \in SaGranted(a, p) /\ Ivc(a, p, v).port = o =>
           /\ x = NextFlit(Ivc(a, p, v).buf, At(ka, p, v), At(na, p, v), v)
           /\ Sends(x, v) /\ Cred(a, o, v) # 0
  BY <1>1, SendsFrom
<1>4. ASSUME NEW p \in Port, v \in SaGranted(a, p)
      PROVE  Held(Ivc(a, p, v), Ivc(a, p, v).port)
  BY <1>4, SteppedVc DEF Moved
<1>5. \A p \in Port : Held(Ivc(a, p, v), o) => Ivc(a, p, v).port = o
  BY DEF Held
<1>6. VaAsks(a, o, v) # {} => ~Busy(a, o, v)
  BY AsksFree
<1>7. \A p \in Port : v \in VaGranted(a, p) /\ Ivc(a, p, v).port = o =>
        /\ VaAsks(a, o, v) # {}
        /\ \A p2 \in Port : v \in VaGranted(a, p2) /\ Ivc(a, p2, v).port = o => p2 = p
  BY VaFacts
<1>. HIDE DEF x
<1>. QED
  BY <1>2, <1>3, <1>4, <1>5, <1>6, <1>7 DEF x

\* A channel of an output over an edge: f is on the wire before it, and tc and tc2
\* say that the credit of a tail is on its way back before and after.
LEMMA ChannelStep ==
  ASSUME NEW a, NEW t, NEW fl, NEW cr, NEW ka, NEW na, NEW a2, NEW ka2, NEW na2,
         Stepped(a, t, fl, cr, ka, na, a2, ka2, na2), NEW o \in Port, NEW v \in Vc,
         NEW f, NEW k, NEW n \in Nat, NEW tc \in BOOLEAN, NEW tc2 \in BOOLEAN,
         OutChannel(a, f, o, v, ka, na, k, n, tc), tc2 => n > 0 /\ n = k.len,
         Busy(a2, o, v) = (VaAsks(a, o, v) # {} \/ (Busy(a, o, v) /\ ~tc)),
         NEW k2, k2 = Comer(f, v, k), NEW n2 \in Nat, n2 = IF tc2 THEN 0 ELSE Come(f, v, n)
  PROVE  OutChannel(a2, Out(a2, o), o, v, ka2, na2, k2, n2, tc2)
<1>. DEFINE x == Out(a2, o)
            busy == Busy(a, o, v)
            busy2 == Busy(a2, o, v)
            free == busy /\ ~tc
            alloc == VaAsks(a, o, v) # {}
            G(p) == v \in SaGranted(a, p)
            TL(p) == TailLeaves(a, p, v)
            VA(p) == v \in VaGranted(a, p)
            H(p) == Held(Ivc(a, p, v), o)
            H2(p) == Held(Ivc(a2, p, v), o)
            gn(p) == At(na, p, v) - Len(Ivc(a, p, v).buf)
            gn2(p) == At(na2, p, v) - Len(Ivc(a2, p, v).buf)
            ku(p) == At(ka, p, v)
            ku2(p) == At(ka2, p, v)
            PO(p) == Ivc(a, p, v).port = o
<1>1. busy \in BOOLEAN /\ free \in BOOLEAN /\ busy2 = (alloc \/ free)
  <2>1. RouterType(a)
    BY DEF Stepped
  <2>. QED
    BY <2>1, RouterFields
<1>2. /\ Sends(x, v) => \E p \in Port : G(p) /\ H(p)
      /\ \A p \in Port : G(p) /\ H(p) => x = NextFlit(Ivc(a, p, v).buf, ku(p), At(na, p, v), v)
      /\ alloc => ~busy
      /\ \A p \in Port : VA(p) /\ PO(p) => alloc /\ \A p2 \in Port : VA(p2) /\ PO(p2) => p2 = p
  BY OutputDoes
<1>3. ASSUME NEW p \in Port
      PROVE  /\ H2(p) <=> (H(p) /\ ~TL(p)) \/ (VA(p) /\ PO(p))
             /\ ~TL(p) => gn2(p) = gn(p) + One(G(p))
             /\ G(p) => ~VA(p)
             /\ TL(p) <=> G(p) /\ gn(p) + 1 = ku(p).len
             /\ VA(p) => gn(p) = 0 /\ gn(p) \in Nat
             /\ H(p) => gn(p) \in Nat /\ ku(p).len \in Nat /\ gn(p) < ku(p).len /\ ku2(p) = ku(p)
  <2>1. Moved(Ivc(a, p, v), Ivc(a2, p, v), At(ka, p, v), At(na, p, v), At(ka2, p, v), At(na2, p, v),
              Sends(fl[p], v), v \in SaGranted(a, p), TailLeaves(a, p, v), v \in VaGranted(a, p))
    BY SteppedVc
  <2>2. At(na, p, v) \in Nat
    BY SteppedVc
  <2>3. Held(Ivc(a, p, v), o) => /\ At(na, p, v) > 0 /\ gn(p) \in Nat /\ ku(p).len \in Nat
                                 /\ gn(p) < ku(p).len
    BY <2>1 DEF Moved
  <2>4. /\ Held(Ivc(a2, p, v), o) <=> \/ Held(Ivc(a, p, v), o) /\ ~TL(p)
                                      \/ VA(p) /\ PO(p)
        /\ ~TL(p) => gn2(p) = gn(p) + One(G(p))
        /\ At(na, p, v) > 0 => ku2(p) = ku(p)
        /\ G(p) => ~VA(p)
        /\ TL(p) <=> G(p) /\ gn(p) + 1 = ku(p).len
        /\ VA(p) => gn(p) = 0
    BY <2>1 DEF Moved
  <2>. QED
    BY <2>3, <2>4
<1>4. G(1) \in BOOLEAN /\ \A p : TL(p) \in BOOLEAN /\ G(p) \in BOOLEAN
  BY DEF TailLeaves
<1>5. \/ HeldByNone(a, o, v) /\ Line(f, v, k, n, NoPacket, -1, busy, tc)
      \/ \E p \in Port : HeldBy(a, o, v, p) /\ Line(f, v, k, n, ku(p), gn(p), busy, tc)
  BY DEF OutChannel
<1>6. SUFFICES \/ (\A p \in Port : ~H2(p)) /\ Line(x, v, k2, n2, NoPacket, -1, busy2, tc2)
               \/ \E p \in Port : (\A p2 \in Port : H2(p2) <=> p2 = p) /\ Line(x, v, k2, n2, ku2(p), gn2(p), busy2, tc2)
  BY DEF OutChannel, HeldBy, HeldByNone
<1>7. ~Sends(NoFlit, v)
  BY Wires
<1>8. CASE \E p \in Port : HeldBy(a, o, v, p) /\ Line(f, v, k, n, ku(p), gn(p), busy, tc)
  <2>1. PICK p \in Port : HeldBy(a, o, v, p) /\ Line(f, v, k, n, ku(p), gn(p), busy, tc)
    BY <1>8
  <2>2. \A p2 \in Port : H(p2) <=> p2 = p
    BY <2>1 DEF HeldBy
  <2>3. busy /\ ~tc /\ free /\ ~alloc /\ busy2
    <3>1. gn(p) \in Nat
      BY <1>3, <2>2
    <3>2. gn(p) >= 0
      BY <3>1
    <3>3. busy /\ ~tc
      BY <2>1, <3>2 DEF Line
    <3>. QED
      BY <1>1, <1>2, <3>3
  <2>. DEFINE g == gn(p)
              kp == ku(p)
  <2>4. g \in Nat /\ kp.len \in Nat /\ Short(kp, g) /\ ku2(p) = kp
    BY <1>3, <2>2 DEF Short
  <2>5. Line(NoFlit, v, k2, n2, kp, g, busy2, tc2)
    <3>. HIDE DEF x, busy, busy2, alloc, G, TL, VA, H, H2, gn, gn2, ku, ku2, PO, g, kp
    <3>1. Line(f, v, k, n, kp, g, busy, tc)
      BY <2>1 DEF g, kp
    <3>2. Came(f, v, k, n, tc2, k2, n2)
      BY DEF Came
    <3>3. busy2 <=> busy /\ ~tc
      BY <2>3
    <3>. HIDE DEF free
    <3>. QED
      BY <2>4, <3>1, <3>2, <3>3, LineReceive
  <2>6. \A p2 \in Port : H2(p2) <=> p2 = p /\ ~TL(p)
    <3>. HIDE DEF x, busy, busy2, free, alloc, G, TL, VA, H, H2, gn, gn2, ku, ku2, PO
    <3>. QED
      BY <1>2, <1>3, <2>2, <2>3
  <2>7. CASE G(p)
    <3>1. x = [pkt |-> kp, i |-> g + 1, vc |-> v]
      BY <1>2, <2>2, <2>7 DEF NextFlit
    <3>. HIDE DEF x, busy, busy2, free, alloc, G, TL, VA, H, H2, gn, gn2, ku, ku2, PO, kp, g
    <3>2. TL(p) <=> g + 1 = kp.len
      BY <1>3, <2>7 DEF g, kp
    <3>3. Line(x, v, k2, n2, kp, g + 1, busy2, tc2) /\ (TL(p) => Line(x, v, k2, n2, kp, -1, busy2, tc2))
      BY <2>4, <2>5, <3>1, <3>2, LineSend
    <3>4. CASE TL(p)
      <4>1. Line(x, v, k2, n2, NoPacket, -1, busy2, tc2)
        BY <3>3, <3>4, LineFree
      <4>. QED
        BY <2>6, <3>4, <4>1
    <3>5. CASE ~TL(p)
      <4>1. gn2(p) = g + 1
        BY <1>3, <2>7, <3>5 DEF g, One
      <4>2. Line(x, v, k2, n2, ku2(p), gn2(p), busy2, tc2)
        BY <2>4, <3>3, <3>5, <4>1
      <4>. QED
        BY <2>6, <3>5, <4>2
    <3>. QED
      BY <3>4, <3>5
  <2>8. CASE ~G(p)
    <3>. HIDE DEF x, busy, busy2, free, alloc, G, TL, VA, H, H2, gn, gn2, ku, ku2, PO
    <3>1. ~Sends(x, v)
      BY <1>2, <2>2, <2>8
    <3>2. ~TL(p) /\ gn2(p) = g
      BY <1>3, <2>4, <2>8 DEF One
    <3>. HIDE DEF g, kp
    <3>3. Line(x, v, k2, n2, kp, g, busy2, tc2)
      <4>1. PICK gi \in Int : gi = g
        BY <2>4
      <4>. QED
        BY <1>7, <2>5, <3>1, <4>1, LineQuiet
    <3>. QED
      BY <2>4, <2>6, <3>2, <3>3
  <2>. QED
    BY <2>7, <2>8
<1>9. CASE HeldByNone(a, o, v) /\ Line(f, v, k, n, NoPacket, -1, busy, tc)
  <2>1. \A p \in Port : ~H(p)
    BY <1>9 DEF HeldByNone
  <2>2. ~Sends(x, v)
    BY <1>2, <2>1
  <2>3. \A p \in Port : H2(p) <=> VA(p) /\ PO(p)
    BY <1>3, <2>1
  <2>. HIDE DEF x, busy, busy2, alloc, G, TL, VA, H, H2, gn, gn2, ku, ku2, PO
  <2>4. Line(x, v, k2, n2, NoPacket, -1, free, tc2)
    <3>1. Came(f, v, k, n, tc2, k2, n2) /\ (free <=> busy /\ ~tc) /\ Short(NoPacket, -1)
      BY DEF Came, Short
    <3>. HIDE DEF free
    <3>2. Line(NoFlit, v, k2, n2, NoPacket, -1, free, tc2)
      BY <1>9, <3>1, LineReceive
    <3>. QED
      BY <1>1, <1>7, <2>2, <3>2, LineQuiet
  <2>a. free => busy
    OBVIOUS
  <2>. HIDE DEF free
  <2>5. CASE alloc
    <3>1. ~free /\ busy2
      BY <1>1, <1>2, <2>5, <2>a
    <3>2. \A k3 : Line(x, v, k2, n2, k3, 0, busy2, tc2) /\ Line(x, v, k2, n2, NoPacket, -1, busy2, tc2)
      <4>1. ~free /\ IsSet(busy2)
        BY <3>1 DEF IsSet
      <4>. QED
        BY <2>4, <4>1, LineAlloc
    <3>4. CASE \E p \in Port : VA(p) /\ PO(p)
      <4>1. PICK p \in Port : VA(p) /\ PO(p)
        BY <3>4
      <4>2. \A p2 \in Port : H2(p2) <=> p2 = p
        BY <1>2, <2>3, <4>1
      <4>3. gn2(p) = 0
        BY <1>3, <4>1 DEF One
      <4>4. Line(x, v, k2, n2, ku2(p), gn2(p), busy2, tc2)
        BY <3>1, <3>2, <4>3
      <4>. QED
        BY <4>2, <4>4
    <3>5. CASE \A p \in Port : ~(VA(p) /\ PO(p))
      BY <2>3, <3>1, <3>2, <3>5
    <3>. QED
      BY <3>4, <3>5
  <2>6. CASE ~alloc
    <3>1. busy2 = free /\ \A p \in Port : ~(VA(p) /\ PO(p))
      BY <1>1, <1>2, <2>6
    <3>. QED
      BY <2>3, <2>4, <3>1
  <2>. QED
    BY <2>5, <2>6
<1>. QED
  BY <1>5, <1>8, <1>9

\* The credits of an output over an edge.
LEMMA CreditStep ==
  ASSUME NEW a, NEW t, NEW fl, NEW cr, NEW ka, NEW na, NEW a2, NEW ka2, NEW na2,
         Stepped(a, t, fl, cr, ka, na, a2, ka2, na2), NEW o \in Port, NEW v \in Vc, Cred(a, o, v) >= 0
  PROVE  /\ Cred(a2, o, v) = Cred(a, o, v) + One(Returned(cr[o], v)) - One(Sends(Out(a2, o), v))
         /\ Cred(a, o, v) \in Int /\ Cred(a2, o, v) \in Int /\ Cred(a2, o, v) >= 0
         /\ Busy(a2, o, v) = (VaAsks(a, o, v) # {} \/ (Busy(a, o, v) /\ ~TailBack(cr[o], v)))
<1>1. RouterType(a) /\ Edge(a, t, fl, cr, a2)
  BY DEF Stepped
<1>2. Cred(a, o, v) \in Int
  BY <1>1, RouterFields
<1>3. /\ Cred(a2, o, v) = NextCredits(Cred(a, o, v), Out(a2, o), v, cr[o])
      /\ Busy(a2, o, v) = NextBusy(Busy(a, o, v), VaAsks(a, o, v) # {}, Out(a2, o), v, cr[o])
  BY <1>1, EdgeFields
<1>4. Cred(a2, o, v) = Cred(a, o, v) + One(Returned(cr[o], v)) - One(Sends(Out(a2, o), v))
  BY <1>3 DEF NextCredits, One
<1>5. Busy(a2, o, v) = (VaAsks(a, o, v) # {} \/ (Busy(a, o, v) /\ ~TailBack(cr[o], v)))
  BY <1>3 DEF NextBusy, TailBack
<1>6. Sends(Out(a2, o), v) => Cred(a, o, v) # 0
  <2>. DEFINE G(p) == v \in SaGranted(a, p) /\ Held(Ivc(a, p, v), o)
              S == Sends(Out(a2, o), v)
              C == Cred(a, o, v) # 0
  <2>1. S => \E p \in Port : G(p)
    BY OutputDoes
  <2>2. \A p \in Port : G(p) => C
    BY OutputDoes
  <2>. HIDE DEF G, S, C
  <2>3. S => C
    BY <2>1, <2>2
  <2>. QED
    BY <2>3 DEF S, C
<1>7. One(Returned(cr[o], v)) \in 0 .. 1 /\ One(Sends(Out(a2, o), v)) = (IF Sends(Out(a2, o), v) THEN 1 ELSE 0)
  BY DEF One
<1>8. Cred(a2, o, v) \in Int /\ Cred(a2, o, v) >= 0
  BY <1>2, <1>4, <1>6, <1>7
<1>. QED
  BY <1>2, <1>4, <1>5, <1>8

\* An input VC and what its port returns, over an edge at which f comes.
LEMMA InputStep ==
  ASSUME NEW b, NEW u, NEW fl, NEW cr, NEW kb, NEW nb, NEW b2, NEW kb2, NEW nb2,
         Stepped(b, u, fl, cr, kb, nb, b2, kb2, nb2), NEW q \in Port, NEW v \in Vc, NEW f, f = fl[q]
  PROVE  /\ At(nb, q, v) \in Nat /\ At(nb2, q, v) \in Nat
         /\ Len(Ivc(b, q, v).buf) \in Nat /\ Len(Ivc(b2, q, v).buf) \in Nat
         /\ Len(Ivc(b2, q, v).buf) = Len(Ivc(b, q, v).buf) + One(Sends(f, v)) - One(Returned(Ret(b2, q), v))
         /\ Came(f, v, At(kb, q, v), At(nb, q, v), TailBack(Ret(b2, q), v), At(kb2, q, v), At(nb2, q, v))
<1>1. /\ RouterType(b) /\ Edge(b, u, fl, cr, b2) /\ At(kb2, q, v) = Comer(f, v, At(kb, q, v))
      /\ At(nb2, q, v) = NextCome(b, q, v, f, At(nb, q, v))
  BY DEF Stepped
<1>2. Ret(b2, q) = CreditFor(b, Grants(b), q)
  BY <1>1, EdgeFields
<1>3. (Returned(Ret(b2, q), v) <=> v \in SaGranted(b, q)) /\ (TailBack(Ret(b2, q), v) <=> TailLeaves(b, q, v))
  BY <1>2, Returns
<1>4. /\ At(nb, q, v) \in Nat
      /\ Moved(Ivc(b, q, v), Ivc(b2, q, v), At(kb, q, v), At(nb, q, v), At(kb2, q, v), At(nb2, q, v),
               Sends(f, v), v \in SaGranted(b, q), TailLeaves(b, q, v), v \in VaGranted(b, q))
  BY SteppedVc
<1>5. /\ Len(Ivc(b, q, v).buf) \in Nat /\ Len(Ivc(b2, q, v).buf) \in Nat /\ At(nb2, q, v) \in Nat
      /\ Len(Ivc(b2, q, v).buf) = Len(Ivc(b, q, v).buf) + One(Sends(f, v)) - One(v \in SaGranted(b, q))
      /\ TailLeaves(b, q, v) => At(nb, q, v) > 0 /\ At(nb, q, v) = At(kb, q, v).len
  BY <1>4 DEF Moved
<1>6. One(v \in SaGranted(b, q)) = One(Returned(Ret(b2, q), v))
  BY <1>3 DEF One
<1>7. Came(f, v, At(kb, q, v), At(nb, q, v), TailBack(Ret(b2, q), v), At(kb2, q, v), At(nb2, q, v))
  <2>1. At(nb2, q, v) = IF TailBack(Ret(b2, q), v) THEN 0 ELSE Come(f, v, At(nb, q, v))
    BY <1>1, <1>3 DEF NextCome
  <2>. QED
    BY <1>1, <1>3, <1>5, <2>1 DEF Came
<1>. QED
  BY <1>4, <1>5, <1>6, <1>7

---------------------------------------------------------------------------
(* The registers of a router keep their type *)

\* Router r has each of its registers.
Shaped(r) ==
    /\ r.ivc = [p \in Port |-> [v \in Vc |-> Ivc(r, p, v)]]
    /\ r.busy = [p \in Port |-> [v \in Vc |-> Busy(r, p, v)]]
    /\ r.credits = [p \in Port |-> [v \in Vc |-> Cred(r, p, v)]]
    /\ r.va1 = [p \in Port |-> Va1(r, p)]
    /\ r.va2 = [p \in Port |-> [v \in Vc |-> Va2(r, p, v)]]
    /\ r.sa1 = [p \in Port |-> Sa1(r, p)]
    /\ r.sa2 = [p \in Port |-> Sa2(r, p)]
    /\ r.out = [p \in Port |-> Out(r, p)]
    /\ r.ret = [p \in Port |-> Ret(r, p)]

\* A clock edge leaves registers for every port and VC.
LEMMA EdgeShape ==
  ASSUME NEW r, NEW t, NEW fl, NEW cr, NEW r2, Edge(r, t, fl, cr, r2)
  PROVE  Shaped(r2)
<1>. DEFINE g == Grants(r)
<1>1. r2 = Clock(r, g, t, fl, cr)
  BY DEF Edge
<1>. HIDE DEF g
<1>. QED
  BY <1>1 DEF Clock, Shaped, Ivc, Busy, Cred, Out, Ret, Va1, Va2, Sa1, Sa2

\* The pointers of the arbiters.
LEMMA PointersHold ==
  ASSUME NEW r, RouterType(r), NEW p \in Port
  PROVE  /\ Va1(r, p) \in Vc /\ Sa1(r, p) \in Vc /\ Sa2(r, p) \in Port
         /\ \A v \in Vc : Va2(r, p, v) \in Port
<1>1. Va1(r, p) \in Vc
  BY DEF RouterType, Va1
<1>2. Sa1(r, p) \in Vc
  BY DEF RouterType, Sa1
<1>3. Sa2(r, p) \in Port
  BY DEF RouterType, Sa2
<1>4. r.va2[p] \in [Vc -> Port]
  BY DEF RouterType
<1>5. \A v \in Vc : Va2(r, p, v) \in Port
  BY <1>4 DEF Va2
<1>. QED
  BY <1>1, <1>2, <1>3, <1>5

\* The pointers of the arbiters stay in range.
LEMMA PointersType ==
  ASSUME NEW r, RouterType(r), NEW t, NEW fl, NEW cr, NEW r2, Edge(r, t, fl, cr, r2), NEW p \in Port
  PROVE  /\ Va1(r2, p) \in Vc /\ Sa1(r2, p) \in Vc /\ Sa2(r2, p) \in Port
         /\ \A v \in Vc : Va2(r2, p, v) \in Port
<1>1. /\ Va1(r, p) \in Vc /\ Sa1(r, p) \in Vc /\ Sa2(r, p) \in Port
      /\ \A v \in Vc : Va2(r, p, v) \in Port
  BY PointersHold
<1>2. /\ Eligible(r, p) \subseteq Vc /\ SaReq(r, p) \subseteq Vc /\ SaAsks(r, p) \subseteq Port
      /\ \A v \in Vc : VaAsks(r, p, v) \subseteq Port
  BY DEF Eligible, SaReq, SaAsks, VaAsks
<1>3. \A S, q : S \subseteq Nat /\ S # {} => Gnt(S, q) # {}
  BY GntSome
<1>4. ASSUME NEW S \in SUBSET Vc, NEW q \in Vc, NEW b \in BOOLEAN
      PROVE  NextPtr(NumVcs, S, q, b) \in Vc
  BY <1>3, <1>4, NextPtrType, Sizes, Indices
<1>5. ASSUME NEW S \in SUBSET Port, NEW q \in Port, NEW b \in BOOLEAN
      PROVE  NextPtr(NumPorts, S, q, b) \in Port
  <2>1. S \subseteq Nat /\ NumPorts \in Nat \ {0} /\ Port = 0 .. NumPorts - 1
    BY Indices, Sizes DEF Port
  <2>. QED
    BY <1>3, <1>5, <2>1, NextPtrType
<1>6. PointersMove(r, p, r2)
  BY EdgePointers
<1>7. Va1(r2, p) \in Vc /\ Sa1(r2, p) \in Vc
  <2>1. (VaGranted(r, p) # {}) \in BOOLEAN /\ (SaGranted(r, p) # {}) \in BOOLEAN
    OBVIOUS
  <2>2. PICK b1 \in BOOLEAN : b1 = (VaGranted(r, p) # {})
    BY <2>1
  <2>3. PICK b2 \in BOOLEAN : b2 = (SaGranted(r, p) # {})
    BY <2>1
  <2>. QED
    BY <1>1, <1>2, <1>4, <1>6, <2>2, <2>3 DEF PointersMove
<1>8. Sa2(r2, p) \in Port /\ \A v \in Vc : Va2(r2, p, v) \in Port
  <2>1. PICK b \in BOOLEAN : b = TRUE
    OBVIOUS
  <2>2. NextPtr(NumPorts, SaAsks(r, p), Sa2(r, p), b) \in Port
    BY <1>1, <1>2, <1>5
  <2>3. \A v \in Vc : NextPtr(NumPorts, VaAsks(r, p, v), Va2(r, p, v), b) \in Port
    BY <1>1, <1>2, <1>5
  <2>. QED
    BY <1>6, <2>1, <2>2, <2>3 DEF PointersMove
<1>. QED
  BY <1>7, <1>8

\* A clock edge keeps the types of the registers.
LEMMA RouterStep ==
  ASSUME NEW a, NEW t, NEW fl, NEW cr, NEW ka, NEW na, NEW a2, NEW ka2, NEW na2,
         Stepped(a, t, fl, cr, ka, na, a2, ka2, na2)
  PROVE  RouterType(a2)
<1>1. RouterType(a) /\ Edge(a, t, fl, cr, a2) /\ Feed(a, t, fl, ka, na)
  BY DEF Stepped
<1>2. \A p \in Port, v \in Vc : Ivc(a2, p, v) \in VcRegs
  BY SteppedVc
<1>3. \A p \in Port, v \in Vc : Busy(a2, p, v) \in BOOLEAN /\ Cred(a2, p, v) \in Int
  <2>. SUFFICES ASSUME NEW p \in Port, NEW v \in Vc PROVE Busy(a2, p, v) \in BOOLEAN /\ Cred(a2, p, v) \in Int
    OBVIOUS
  <2>1. /\ Busy(a2, p, v) = NextBusy(Busy(a, p, v), VaAsks(a, p, v) # {}, Crossbar(a, Grants(a), p), v, cr[p])
        /\ Cred(a2, p, v) = NextCredits(Cred(a, p, v), Crossbar(a, Grants(a), p), v, cr[p])
    BY <1>1, EdgeFields
  <2>2. Cred(a, p, v) \in Int
    BY <1>1, RouterFields
  <2>3. Busy(a2, p, v) \in BOOLEAN
    BY <2>1 DEF NextBusy
  <2>. QED
    BY <2>1, <2>2, <2>3 DEF NextCredits
<1>4. \A p \in Port : Out(a2, p) \in Flit \cup {NoFlit}
  <2>. SUFFICES ASSUME NEW p \in Port, Out(a2, p) # NoFlit PROVE Out(a2, p) \in Flit
    OBVIOUS
  <2>1. Out(a2, p) = Crossbar(a, Grants(a), p)
    BY <1>1, EdgeFields
  <2>2. PICK q \in Port : \E w \in SaGranted(a, q) : Ivc(a, q, w).port = p /\ Out(a2, p) = Leaving(a, q, w)
    BY <2>1, SentFacts
  <2>3. PICK w \in SaGranted(a, q) : Out(a2, p) = Leaving(a, q, w)
    BY <2>2
  <2>4. w \in Vc
    BY SaFacts DEF SaReq
  <2>5. At(na, q, w) \in Nat /\ VcOpen(Ivc(a, q, w), t, w, At(ka, q, w), At(na, q, w))
    BY <1>1, <2>4 DEF Feed
  <2>6. PICK m \in Nat : m = At(na, q, w)
    BY <2>5
  <2>7. /\ Front(Ivc(a, q, w).buf, At(ka, q, w), m, w)
        /\ Leaving(a, q, w) = NextFlit(Ivc(a, q, w).buf, At(ka, q, w), m, w)
    BY <1>1, <2>5, <2>6, Granted
  <2>. QED
    BY <2>3, <2>7 DEF Front
<1>5. \A p \in Port : Ret(a2, p) \in CreditMsg \cup {NoCredit}
  <2>. SUFFICES ASSUME NEW p \in Port PROVE Ret(a2, p) \in CreditMsg \cup {NoCredit}
    OBVIOUS
  <2>1. Ret(a2, p) = CreditFor(a, Grants(a), p)
    BY <1>1, EdgeFields
  <2>2. CASE SaGranted(a, p) = {}
    BY <2>1, <2>2, SentFacts
  <2>3. CASE SaGranted(a, p) # {}
    <3>1. PICK w : w \in SaGranted(a, p)
      BY <2>3
    <3>2. Ret(a2, p) = [vc |-> w, tail |-> IsTail(Ivc(a, p, w).buf[1])] /\ w \in Vc
      BY <2>1, <3>1, SentFacts, SaFacts DEF SaReq
    <3>. QED
      BY <3>2 DEF CreditMsg, IsTail
  <2>. QED
    BY <2>2, <2>3
<1>6. \A p \in Port : /\ Va1(a2, p) \in Vc /\ Sa1(a2, p) \in Vc /\ Sa2(a2, p) \in Port
                      /\ \A v \in Vc : Va2(a2, p, v) \in Port
  BY <1>1, PointersType
<1>7. Shaped(a2)
  BY <1>1, EdgeShape
<1>8. /\ a2.ivc \in [Port -> [Vc -> VcRegs]]
      /\ a2.busy \in [Port -> [Vc -> BOOLEAN]]
      /\ a2.credits \in [Port -> [Vc -> Int]]
  BY <1>2, <1>3, <1>7 DEF Shaped
<1>9. /\ a2.va1 \in [Port -> Vc] /\ a2.va2 \in [Port -> [Vc -> Port]]
      /\ a2.sa1 \in [Port -> Vc] /\ a2.sa2 \in [Port -> Port]
  BY <1>6, <1>7 DEF Shaped
<1>10. a2.out \in [Port -> Flit \cup {NoFlit}] /\ a2.ret \in [Port -> CreditMsg \cup {NoCredit}]
  BY <1>4, <1>5, <1>7 DEF Shaped
<1>. QED
  BY <1>8, <1>9, <1>10 DEF RouterType

\* A flit leaves by the port its packet is routed to, and is of a packet that had
\* come in.
LEMMA RoutedOut ==
  ASSUME NEW a, NEW t, NEW fl, NEW cr, NEW ka, NEW na, NEW a2, NEW ka2, NEW na2,
         Stepped(a, t, fl, cr, ka, na, a2, ka2, na2), NEW o \in Port, Out(a2, o) # NoFlit
  PROVE  /\ o = Route(t, Out(a2, o).pkt.dst)
         /\ \E p \in Port, v \in Vc : At(na, p, v) > 0 /\ At(ka, p, v) = Out(a2, o).pkt
<1>1. Out(a2, o) \in Flit
  BY RouterStep, RouterFields
<1>2. PICK v \in Vc : Sends(Out(a2, o), v)
  BY <1>1 DEF Flit, Sends
<1>. DEFINE G(p) == v \in SaGranted(a, p) /\ Held(Ivc(a, p, v), o)
            x == Out(a2, o)
<1>3. \E p \in Port : G(p)
  BY <1>2, OutputDoes
<1>4. PICK p \in Port : G(p)
  BY <1>3
<1>5. x = NextFlit(Ivc(a, p, v).buf, At(ka, p, v), At(na, p, v), v)
  <2>. DEFINE Is(p2) == x = NextFlit(Ivc(a, p2, v).buf, At(ka, p2, v), At(na, p2, v), v)
  <2>1. \A p2 \in Port : G(p2) => Is(p2)
    BY OutputDoes
  <2>. HIDE DEF G, Is, x
  <2>2. Is(p)
    BY <1>4, <2>1
  <2>. QED
    BY <2>2 DEF Is
<1>. HIDE DEF x
<1>6. x.pkt = At(ka, p, v)
  BY <1>5 DEF NextFlit
<1>7. At(na, p, v) \in Nat /\ VcOpen(Ivc(a, p, v), t, v, At(ka, p, v), At(na, p, v))
  BY SteppedVc
<1>8. Ivc(a, p, v).st # "IDLE" /\ Ivc(a, p, v).port = o
  BY <1>4 DEF Held
<1>9. At(na, p, v) > 0 /\ o = Route(t, At(ka, p, v).dst)
  BY <1>7, <1>8 DEF VcOpen
<1>10. \E q \in Port, w \in Vc : At(na, q, w) > 0 /\ At(ka, q, w) = x.pkt
  BY <1>6, <1>9
<1>. QED
  BY <1>6, <1>9, <1>10 DEF x

---------------------------------------------------------------------------
(* Credits that wait in the harness *)

\* There are so many for a channel,
LEMMA CreditQueuedNat ==
  ASSUME NEW q \in Seq(Due), NEW v
  PROVE  CreditsIn(q, v) \in Nat
<1>1. Len(q) \in Nat /\ IsFiniteSet(1 .. Len(q))
  BY FS_Interval
<1>2. IsFiniteSet({j \in 1 .. Len(q) : q[j].vc = v})
  BY <1>1, FS_Subset
<1>. QED
  BY <1>2, FS_CardinalityType DEF CreditsIn

\* one more is queued,
LEMMA CreditQueued ==
  ASSUME NEW q \in Seq(Due), NEW e \in Due, NEW v
  PROVE  /\ CreditsIn(q, v) \in Nat
         /\ CreditsIn(Append(q, e), v) = CreditsIn(q, v) + One(e.vc = v)
<1>. DEFINE A == {j \in 1 .. Len(q) : q[j].vc = v}
            q2 == Append(q, e)
            A2 == {j \in 1 .. Len(q2) : q2[j].vc = v}
            l == Len(q)
<1>1. l \in Nat /\ Len(q2) = l + 1 /\ q2[l + 1] = e /\ \A j \in 1 .. l : q2[j] = q[j]
  OBVIOUS
<1>2. IsFiniteSet(A) /\ Cardinality(A) \in Nat
  <2>1. IsFiniteSet(1 .. l)
    BY <1>1, FS_Interval
  <2>. QED
    BY <2>1, FS_Subset, FS_CardinalityType
<1>3. A2 = IF e.vc = v THEN A \cup {l + 1} ELSE A
  <2>. HIDE DEF q2
  <2>. QED
    BY <1>1
<1>4. l + 1 \notin A
  BY <1>1
<1>5. e.vc = v => Cardinality(A2) = Cardinality(A) + 1
  BY <1>2, <1>3, <1>4, FS_AddElement
<1>. HIDE DEF A, A2
<1>6. Cardinality(A2) = Cardinality(A) + One(e.vc = v)
  BY <1>2, <1>3, <1>5 DEF One
<1>. QED
  BY <1>2, <1>6 DEF CreditsIn, A, A2

\* the first leaves the queue,
LEMMA CreditLeaves ==
  ASSUME NEW q \in Seq(Due), q # <<>>, NEW v
  PROVE  /\ CreditsIn(q, v) \in Nat /\ SubSeq(q, 2, Len(q)) \in Seq(Due)
         /\ CreditsIn(q, v) = CreditsIn(SubSeq(q, 2, Len(q)), v) + One(q[1].vc = v)
         /\ CreditsIn(SubSeq(q, 2, Len(q)), v) \in Nat
<1>. DEFINE A == {j \in 1 .. Len(q) : q[j].vc = v}
            q2 == SubSeq(q, 2, Len(q))
            A2 == {j \in 1 .. Len(q2) : q2[j].vc = v}
            B == {j \in A : j # 1}
            l == Len(q)
<1>1. /\ l \in Nat \ {0} /\ q2 \in Seq(Due) /\ Len(q2) = l - 1
      /\ \A j \in 1 .. l - 1 : q2[j] = q[j + 1]
  <2>1. q2 = Tail(q) /\ l \in Nat \ {0}
    BY TailIsSubSeq
  <2>. QED
    BY <2>1, HeadTailProperties
<1>2. IsFiniteSet(A) /\ Cardinality(A) \in Nat /\ IsFiniteSet(B) /\ Cardinality(B) \in Nat
      /\ IsFiniteSet(A2) /\ Cardinality(A2) \in Nat
  <2>1. IsFiniteSet(1 .. l) /\ IsFiniteSet(1 .. l - 1)
    BY <1>1, FS_Interval
  <2>2. A \subseteq 1 .. l /\ B \subseteq 1 .. l /\ A2 \subseteq 1 .. l - 1
    BY <1>1
  <2>. QED
    BY <2>1, <2>2, FS_Subset, FS_CardinalityType
<1>3. Cardinality(A2) = Cardinality(B)
  <2>. DEFINE f == [j \in A2 |-> j + 1]
  <2>. HIDE DEF q2
  <2>1. f \in [A2 -> B]
    BY <1>1
  <2>2. \A i, j \in A2 : f[i] = f[j] => i = j
    BY <1>1
  <2>3. ASSUME NEW j \in B PROVE \E i \in A2 : f[i] = j
    <3>1. j - 1 \in A2 /\ f[j - 1] = j
      BY <1>1
    <3>. QED
      BY <3>1
  <2>4. f \in Bijection(A2, B)
    BY <2>1, <2>2, <2>3 DEF Bijection, Injection, Surjection, IsInjective
  <2>. QED
    BY <1>2, <2>4, FS_Bijection DEF ExistsBijection
<1>4. A = IF q[1].vc = v THEN B \cup {1} ELSE B
  BY <1>1
<1>5. q[1].vc = v => Cardinality(A) = Cardinality(B) + 1
  BY <1>2, <1>4, FS_AddElement
<1>. HIDE DEF A, A2, B
<1>6. Cardinality(A) = Cardinality(A2) + One(q[1].vc = v)
  BY <1>2, <1>3, <1>4, <1>5 DEF One
<1>. QED
  BY <1>1, <1>2, <1>6 DEF CreditsIn, A, A2

\* and those that wait grow due.
LEMMA CreditsAge ==
  ASSUME NEW q, NEW q2, Len(q2) = Len(q), \A j \in 1 .. Len(q) : q2[j].vc = q[j].vc, NEW v
  PROVE  CreditsIn(q2, v) = CreditsIn(q, v)
<1>1. {j \in 1 .. Len(q2) : q2[j].vc = v} = {j \in 1 .. Len(q) : q[j].vc = v}
  OBVIOUS
<1>. QED
  BY <1>1 DEF CreditsIn

---------------------------------------------------------------------------
(* The steps of the harness at a port *)

\* h2 is h but for the queue of credits.
QueueOnly(h, h2) ==
    /\ h2 \in HostRec /\ h2.credits = h.credits /\ h2.vc_busy = h.vc_busy
    /\ h2.pending = h.pending /\ h2.in_flight = h.in_flight

\* Time passes for the credits the harness holds back.
LEMMA AgeStep ==
  ASSUME NEW h \in HostRec, NEW h2, h2 = AgeCredits(h)
  PROVE  QueueOnly(h, h2) /\ \A v : CreditsIn(h2.credit_q, v) = CreditsIn(h.credit_q, v)
<1>. DEFINE q == h.credit_q
            q2 == [k \in DOMAIN q |-> Nearer(q[k])]
<1>1. q \in Seq(Due)
  BY DEF HostRec
<1>2. DOMAIN q = 1 .. Len(q) /\ Len(q) \in Nat
  BY <1>1
<1>3. \A k \in 1 .. Len(q) : q2[k] \in Due /\ q2[k].vc = q[k].vc
  <2>1. \A e \in Due : Nearer(e) \in Due /\ Nearer(e).vc = e.vc
    BY DEF Due, Nearer
  <2>. QED
    BY <1>1, <1>2, <2>1
<1>4. q2 \in Seq(Due) /\ Len(q2) = Len(q)
  <2>1. q2 \in [1 .. Len(q) -> Due]
    BY <1>2, <1>3
  <2>. HIDE DEF q2
  <2>. QED
    BY <1>2, <2>1
<1>5. h2 = [h EXCEPT !.credit_q = q2]
  BY DEF AgeCredits
<1>. HIDE DEF q2
<1>6. QueueOnly(h, h2) /\ h2.credit_q = q2
  BY <1>4, <1>5 DEF HostRec, QueueOnly
<1>7. \A v : CreditsIn(q2, v) = CreditsIn(q, v)
  BY <1>3, <1>4, CreditsAge
<1>. QED
  BY <1>6, <1>7

\* A flit that comes out adds one credit to them.
LEMMA TakeFlitStep ==
  ASSUME NEW h \in HostRec, NEW f \in Flit \cup {NoFlit}, NEW h2, h2 = TakeFlit(h, f)
  PROVE  /\ QueueOnly(h, h2)
         /\ \A v : CreditsIn(h2.credit_q, v) = CreditsIn(h.credit_q, v) + One(Sends(f, v))
<1>0. h.credit_q \in Seq(Due) /\ \A v : CreditsIn(h.credit_q, v) \in Nat
  <2>1. h.credit_q \in Seq(Due)
    BY DEF HostRec
  <2>. QED
    BY <2>1, CreditQueuedNat
<1>1. CASE f = NoFlit
  BY <1>0, <1>1, Wires DEF TakeFlit, QueueOnly, One
<1>2. CASE f # NoFlit
  <2>. DEFINE e == [due |-> CreditDelay, vc |-> f.vc, tail |-> IsTail(f)]
              q2 == Append(h.credit_q, e)
  <2>1. e \in Due /\ e.vc = f.vc
    BY <1>2, CreditDelayed DEF Due, Flit, IsTail
  <2>. HIDE DEF e
  <2>2. q2 \in Seq(Due) /\ \A v : CreditsIn(q2, v) = CreditsIn(h.credit_q, v) + One(e.vc = v)
    BY <1>0, <2>1, CreditQueued
  <2>3. \A v : One(e.vc = v) = One(Sends(f, v))
    BY <1>2, <2>1 DEF Sends, One
  <2>4. h2 = [h EXCEPT !.credit_q = q2]
    BY <1>2 DEF TakeFlit, e
  <2>. HIDE DEF q2
  <2>5. QueueOnly(h, h2) /\ h2.credit_q = q2
    BY <2>2, <2>4 DEF HostRec, QueueOnly
  <2>. QED
    BY <2>2, <2>3, <2>5
<1>. QED
  BY <1>1, <1>2

\* A credit that comes out may free a channel of the harness.
LEMMA TakeCreditStep ==
  ASSUME NEW h \in HostRec, NEW cr \in CreditMsg \cup {NoCredit}, NEW h2, h2 = TakeCredit(h, cr)
  PROVE  /\ h2 \in HostRec /\ h2.pending = h.pending /\ h2.in_flight = h.in_flight /\ h2.credit_q = h.credit_q
         /\ \A v \in Vc : /\ HCred(h2, v) = HCred(h, v) + One(Returned(cr, v))
                          /\ HBusy(h2, v) <=> HBusy(h, v) /\ ~TailBack(cr, v)
<1>0. h.credits \in [Vc -> Int] /\ h.vc_busy \in [Vc -> BOOLEAN]
  BY DEF HostRec
<1>1. CASE cr = NoCredit
  BY <1>0, <1>1, Wires DEF TakeCredit, TailBack, One, HCred, HBusy
<1>2. CASE cr # NoCredit
  <2>1. cr.vc \in Vc /\ cr.tail \in BOOLEAN
    BY <1>2 DEF CreditMsg
  <2>. DEFINE c2 == [h.credits EXCEPT ![cr.vc] = @ + 1]
              b2 == [h.vc_busy EXCEPT ![cr.vc] = @ /\ ~cr.tail]
  <2>2. h2 = [h EXCEPT !.credits = c2, !.vc_busy = b2]
    BY <1>2 DEF TakeCredit
  <2>3. c2 \in [Vc -> Int] /\ b2 \in [Vc -> BOOLEAN]
    BY <1>0, <2>1
  <2>4. \A v \in Vc : /\ c2[v] = h.credits[v] + One(Returned(cr, v))
                      /\ b2[v] <=> h.vc_busy[v] /\ ~TailBack(cr, v)
    <3>. SUFFICES ASSUME NEW v \in Vc
                  PROVE  /\ c2[v] = h.credits[v] + One(Returned(cr, v))
                         /\ b2[v] <=> h.vc_busy[v] /\ ~TailBack(cr, v)
      OBVIOUS
    <3>1. Returned(cr, v) <=> cr.vc = v
      BY <1>2 DEF Returned
    <3>2. TailBack(cr, v) <=> cr.vc = v /\ cr.tail
      BY <3>1 DEF TailBack
    <3>3. c2[v] = h.credits[v] + One(Returned(cr, v))
      BY <1>0, <2>1, <3>1 DEF One
    <3>4. b2[v] <=> h.vc_busy[v] /\ ~TailBack(cr, v)
      <4>1. CASE v = cr.vc
        BY <1>0, <2>1, <3>2, <4>1
      <4>2. CASE v # cr.vc
        BY <1>0, <2>1, <3>2, <4>2
      <4>. QED
        BY <4>1, <4>2
    <3>. QED
      BY <3>3, <3>4
  <2>. HIDE DEF c2, b2
  <2>5. /\ h2 \in HostRec /\ h2.pending = h.pending /\ h2.in_flight = h.in_flight /\ h2.credit_q = h.credit_q
        /\ h2.credits = c2 /\ h2.vc_busy = b2
    BY <2>2, <2>3 DEF HostRec
  <2>. QED
    BY <2>4, <2>5 DEF HCred, HBusy
<1>. QED
  BY <1>1, <1>2

\* The harness takes in what the router has put out.
TookIn(h, f, cr, h2) ==
    /\ h2 \in HostRec /\ h2.pending = h.pending /\ h2.in_flight = h.in_flight
    /\ \A v \in Vc : /\ HCred(h2, v) = HCred(h, v) + One(Returned(cr, v))
                     /\ HBusy(h2, v) <=> HBusy(h, v) /\ ~TailBack(cr, v)
                     /\ CreditsIn(h2.credit_q, v) = CreditsIn(h.credit_q, v) + One(Sends(f, v))

\* Sampling is the three together.
LEMMA SampleStep ==
  ASSUME NEW h \in HostRec, NEW f \in Flit \cup {NoFlit}, NEW cr \in CreditMsg \cup {NoCredit},
         NEW h2, h2 = Sampled(h, f, cr)
  PROVE  TookIn(h, f, cr, h2)
<1>1. PICK ha : ha = AgeCredits(h)
  OBVIOUS
<1>2. PICK hb : hb = TakeFlit(ha, f)
  OBVIOUS
<1>3. h2 = TakeCredit(hb, cr)
  BY <1>1, <1>2 DEF Sampled
<1>4. QueueOnly(h, ha) /\ \A v : CreditsIn(ha.credit_q, v) = CreditsIn(h.credit_q, v)
  BY <1>1, AgeStep
<1>5. ha \in HostRec
  BY <1>4 DEF QueueOnly
<1>6. QueueOnly(ha, hb) /\ \A v : CreditsIn(hb.credit_q, v) = CreditsIn(ha.credit_q, v) + One(Sends(f, v))
  BY <1>2, <1>5, TakeFlitStep
<1>7. hb \in HostRec
  BY <1>6 DEF QueueOnly
<1>8. /\ h2 \in HostRec /\ h2.pending = hb.pending /\ h2.in_flight = hb.in_flight /\ h2.credit_q = hb.credit_q
      /\ \A v \in Vc : /\ HCred(h2, v) = HCred(hb, v) + One(Returned(cr, v))
                       /\ HBusy(h2, v) <=> HBusy(hb, v) /\ ~TailBack(cr, v)
  BY <1>3, <1>7, TakeCreditStep
<1>9. \A v : HCred(hb, v) = HCred(h, v) /\ HBusy(hb, v) = HBusy(h, v)
  BY <1>4, <1>6 DEF QueueOnly, HCred, HBusy
<1>. QED
  BY <1>4, <1>6, <1>8, <1>9 DEF QueueOnly, TookIn

\* The packet that a channel of the harness is up for.
LEMMA UpFacts ==
  ASSUME NEW h, HostOk(h), NEW v
  PROVE  /\ UpGone(h, v) \in Int /\ Short(UpPacket(h, v), UpGone(h, v))
         /\ ~Up(h, v) => UpGone(h, v) = -1 /\ UpPacket(h, v) = NoPacket
         /\ Up(h, v) => /\ UpGone(h, v) \in Nat /\ UpPacket(h, v) \in Packets
                        /\ UpPacket(h, v).len \in Nat
<1>1. Up(h, v) => /\ h.in_flight \in InFlight /\ h.in_flight.next <= h.in_flight.pkt.len
                  /\ UpGone(h, v) = h.in_flight.next - 1 /\ UpPacket(h, v) = h.in_flight.pkt
  BY DEF HostOk, HostRec, Up, UpGone, UpPacket
<1>2. ~Up(h, v) => UpGone(h, v) = -1 /\ UpPacket(h, v) = NoPacket
  BY DEF UpGone, UpPacket
<1>3. Up(h, v) => /\ UpGone(h, v) \in Nat /\ UpPacket(h, v) \in Packets
                  /\ UpPacket(h, v).len \in Nat /\ UpGone(h, v) < UpPacket(h, v).len
  BY <1>1, PacketFacts DEF InFlight
<1>. QED
  BY <1>2, <1>3 DEF Short

\* A packet is given a channel that is not busy, or none is.
StartedOn(h, h2, v) ==
    \/ UpPacket(h2, v) = UpPacket(h, v) /\ UpGone(h2, v) = UpGone(h, v) /\ HBusy(h2, v) = HBusy(h, v)
    \/ ~HBusy(h, v) /\ UpGone(h2, v) = 0 /\ IsSet(HBusy(h2, v))

\* A packet is started on a channel that is not busy.
LEMMA StartStep ==
  ASSUME NEW h, HostOk(h), NEW h2, h2 = StartPacket(h)
  PROVE  /\ HostOk(h2) /\ h2.credits = h.credits /\ h2.credit_q = h.credit_q
         /\ \A v \in Vc : StartedOn(h, h2, v)
<1>1. h \in HostRec
  BY DEF HostOk
<1>2. CASE h2 = h
  BY <1>2 DEF StartedOn
<1>3. CASE h2 # h
  <2>1. h.in_flight = NoPacket /\ h.pending # <<>> /\ FreeVc(h, h.pending[1].vnet) # {}
    BY <1>3 DEF StartPacket
  <2>. DEFINE free == FreeVc(h, h.pending[1].vnet)
              w == CHOOSE v \in free : TRUE
              k == h.pending[1]
              p2 == SubSeq(h.pending, 2, Len(h.pending))
              b2 == [h.vc_busy EXCEPT ![w] = TRUE]
              c2 == [pkt |-> k, vc |-> w, next |-> 1]
  <2>2. w \in Vc /\ ~h.vc_busy[w]
    <3>1. free \subseteq {v \in Vc : ~h.vc_busy[v]}
      BY DEF FreeVc, LowestBit
    <3>. HIDE DEF free
    <3>. QED
      BY <2>1, <3>1 DEF free
  <2>3. h2 = [h EXCEPT !.pending = p2, !.vc_busy = b2, !.in_flight = c2]
    BY <2>1 DEF StartPacket
  <2>4. k \in Packets /\ p2 \in Seq(Packets)
    <3>1. h.pending \in Seq(Packets) /\ h.pending # <<>>
      BY <1>1, <2>1 DEF HostRec
    <3>. QED
      BY <3>1
  <2>5. h.vc_busy \in [Vc -> BOOLEAN]
    BY <1>1 DEF HostRec
  <2>. HIDE DEF free, w, k
  <2>6. b2 \in [Vc -> BOOLEAN] /\ b2[w] /\ \A v \in Vc : v # w => b2[v] = h.vc_busy[v]
    BY <2>2, <2>5
  <2>7. c2 \in InFlight /\ c2.next = 1 /\ c2.vc = w /\ c2.pkt = k
    BY <2>2, <2>4 DEF InFlight
  <2>8. c2 # NoPacket
    BY <2>7, Wires
  <2>. HIDE DEF b2, p2, c2
  <2>9. /\ h2 \in HostRec /\ h2.credits = h.credits /\ h2.credit_q = h.credit_q
        /\ h2.vc_busy = b2 /\ h2.in_flight = c2
    BY <1>1, <2>3, <2>4, <2>6, <2>7 DEF HostRec
  <2>10. HostOk(h2)
    BY <2>4, <2>7, <2>9, PacketFacts DEF HostOk
  <2>11. ASSUME NEW v \in Vc PROVE StartedOn(h, h2, v)
    <3>1. ~Up(h, v) /\ (Up(h2, v) <=> v = w)
      BY <2>1, <2>7, <2>8, <2>9 DEF Up
    <3>2. CASE v = w
      <4>1. UpGone(h2, v) = 0
        BY <2>7, <2>9, <3>1, <3>2 DEF UpGone
      <4>2. ~HBusy(h, v) /\ IsSet(HBusy(h2, v))
        BY <2>2, <2>6, <2>9, <3>2 DEF HBusy, IsSet
      <4>. QED
        BY <4>1, <4>2 DEF StartedOn
    <3>3. CASE v # w
      <4>1. HBusy(h2, v) = HBusy(h, v)
        BY <2>6, <2>9, <3>3 DEF HBusy
      <4>2. UpPacket(h2, v) = UpPacket(h, v) /\ UpGone(h2, v) = UpGone(h, v)
        BY <3>1, <3>3 DEF UpPacket, UpGone
      <4>. QED
        BY <4>1, <4>2 DEF StartedOn
    <3>. QED
      BY <3>2, <3>3
  <2>. QED
    BY <2>9, <2>10, <2>11
<1>. QED
  BY <1>2, <1>3

\* The next flit x of the packet is sent, or none is.
SentOne(h, x, h2, v) ==
    \/ ~Sends(x, v) /\ UpPacket(h2, v) = UpPacket(h, v) /\ UpGone(h2, v) = UpGone(h, v)
    \/ /\ Up(h, v) /\ Sends(x, v) /\ HCred(h, v) # 0
       /\ x = [pkt |-> UpPacket(h, v), i |-> UpGone(h, v) + 1, vc |-> v]
       /\ IF UpGone(h, v) + 1 = UpPacket(h, v).len THEN UpPacket(h2, v) = NoPacket /\ UpGone(h2, v) = -1
          ELSE UpPacket(h2, v) = UpPacket(h, v) /\ UpGone(h2, v) = UpGone(h, v) + 1

\* A flit is driven only with a credit for it.
LEMMA SendStep ==
  ASSUME NEW h, HostOk(h), NEW x, x = FlitDriven(h), NEW h2, h2 = AfterFlit(h)
  PROVE  /\ HostOk(h2) /\ h2.vc_busy = h.vc_busy /\ h2.credit_q = h.credit_q
         /\ x \in Flit \cup {NoFlit}
         /\ \A v \in Vc : SentOne(h, x, h2, v) /\ HCred(h2, v) = HCred(h, v) - One(Sends(x, v))
<1>1. h \in HostRec /\ h.credits \in [Vc -> Int]
  BY DEF HostOk, HostRec
<1>2. CASE x = NoFlit
  <2>1. h2 = h
    BY <1>2 DEF AfterFlit
  <2>2. \A v : ~Sends(x, v)
    BY <1>2, Wires
  <2>. QED
    BY <1>1, <1>2, <2>1, <2>2 DEF SentOne, HCred, One
<1>3. CASE x # NoFlit
  <2>. DEFINE c == h.in_flight
  <2>1. c # NoPacket /\ h.credits[c.vc] # 0 /\ x = [pkt |-> c.pkt, i |-> c.next, vc |-> c.vc]
    BY <1>3 DEF FlitDriven
  <2>2. c \in InFlight /\ c.next <= c.pkt.len /\ c.vc \in Vc /\ c.pkt \in Packets /\ c.next \in Nat \ {0}
    BY <1>1, <2>1 DEF HostOk, HostRec, InFlight
  <2>3. c.pkt.len \in Nat
    BY <2>2, PacketFacts
  <2>4. x \in Flit /\ x.pkt = c.pkt /\ x.i = c.next /\ x.vc = c.vc
    BY <2>1, <2>2 DEF Flit
  <2>5. IsTail(x) <=> c.next = c.pkt.len
    BY <2>4 DEF IsTail
  <2>. DEFINE cr2 == [h.credits EXCEPT ![c.vc] = @ - 1]
              c2 == Onward(c, x)
  <2>6. h2 = [h EXCEPT !.credits = cr2, !.in_flight = c2]
    BY <1>3, <2>4 DEF AfterFlit
  <2>7. cr2 \in [Vc -> Int] /\ \A v \in Vc : cr2[v] = h.credits[v] - (IF v = c.vc THEN 1 ELSE 0)
    BY <1>1, <2>2
  <2>8. IF c.next = c.pkt.len THEN c2 = NoPacket
        ELSE /\ c2 \in InFlight /\ c2.pkt = c.pkt /\ c2.vc = c.vc /\ c2.next = c.next + 1
             /\ c2.next <= c2.pkt.len
    BY <2>2, <2>3, <2>5 DEF InFlight, Onward
  <2>. HIDE DEF c2, cr2
  <2>9. c2 \in InFlight \cup {NoPacket} /\ (c2 # NoPacket => c2.next <= c2.pkt.len)
    BY <2>8
  <2>10. /\ h2 \in HostRec /\ h2.vc_busy = h.vc_busy /\ h2.credit_q = h.credit_q
         /\ h2.credits = cr2 /\ h2.in_flight = c2
    BY <1>1, <2>6, <2>7, <2>9 DEF HostRec
  <2>11. HostOk(h2)
    BY <2>9, <2>10 DEF HostOk
  <2>12. ASSUME NEW v \in Vc PROVE SentOne(h, x, h2, v) /\ HCred(h2, v) = HCred(h, v) - One(Sends(x, v))
    <3>1. Sends(x, v) <=> v = c.vc
      BY <1>3, <2>4 DEF Sends
    <3>2. HCred(h2, v) = HCred(h, v) - One(Sends(x, v))
      BY <2>7, <2>10, <3>1 DEF HCred, One
    <3>3. c2 # NoPacket => c2.vc = c.vc
      BY <2>8
    <3>4. CASE v # c.vc
      <4>1. ~Up(h, v) /\ ~Up(h2, v)
        BY <2>10, <3>3, <3>4 DEF Up
      <4>. QED
        BY <3>1, <3>2, <3>4, <4>1 DEF SentOne, UpPacket, UpGone
    <3>5. CASE v = c.vc
      <4>1. Up(h, v) /\ UpPacket(h, v) = c.pkt /\ UpGone(h, v) = c.next - 1
        BY <2>1, <3>5 DEF Up, UpPacket, UpGone
      <4>2. UpGone(h, v) + 1 = c.next /\ x = [pkt |-> UpPacket(h, v), i |-> UpGone(h, v) + 1, vc |-> v]
        BY <2>1, <2>2, <3>5, <4>1
      <4>3. HCred(h, v) # 0
        BY <2>1, <3>5 DEF HCred
      <4>4. CASE c.next = c.pkt.len
        <5>1. c2 = NoPacket
          BY <2>8, <4>4
        <5>2. ~Up(h2, v)
          BY <2>10, <5>1 DEF Up
        <5>3. UpPacket(h2, v) = NoPacket /\ UpGone(h2, v) = -1
          BY <5>2 DEF UpPacket, UpGone
        <5>. QED
          BY <3>1, <3>2, <3>5, <4>1, <4>2, <4>3, <4>4, <5>3 DEF SentOne
      <4>5. CASE c.next # c.pkt.len
        <5>1. c2 \in InFlight /\ c2.pkt = c.pkt /\ c2.vc = c.vc /\ c2.next = c.next + 1
          BY <2>8, <4>5
        <5>2. c2 # NoPacket
          BY <5>1, Wires
        <5>3. Up(h2, v) /\ UpPacket(h2, v) = c.pkt /\ UpGone(h2, v) = c.next
          <6>1. Up(h2, v)
            BY <2>10, <3>5, <5>1, <5>2 DEF Up
          <6>2. UpPacket(h2, v) = h2.in_flight.pkt /\ UpGone(h2, v) = h2.in_flight.next - 1
            BY <6>1 DEF UpPacket, UpGone
          <6>3. h2.in_flight.pkt = c.pkt /\ h2.in_flight.next = c.next + 1
            <7>. HIDE DEF c
            <7>. QED
              BY <2>10, <5>1
          <6>4. UpGone(h2, v) = c.next
            <7>. HIDE DEF c
            <7>. QED
              BY <2>2, <6>2, <6>3
          <6>5. UpPacket(h2, v) = c.pkt
            BY <6>2, <6>3, Zenon
          <6>. QED
            BY <6>1, <6>4, <6>5, Zenon
        <5>4. UpGone(h2, v) = UpGone(h, v) + 1
          BY <2>2, <4>1, <5>3
        <5>. QED
          BY <3>1, <3>2, <3>5, <4>1, <4>2, <4>3, <4>5, <5>3, <5>4 DEF SentOne
      <4>. QED
        BY <4>4, <4>5
    <3>. QED
      BY <3>4, <3>5
  <2>. QED
    BY <2>4, <2>10, <2>11, <2>12
<1>. QED
  BY <1>2, <1>3

\* A credit that is due goes back to the router.
LEMMA CreditBack ==
  ASSUME NEW h, HostOk(h), NEW c, c = CreditDriven(h), NEW h2, h2 = AfterCredit(h)
  PROVE  /\ HostOk(h2) /\ h2.vc_busy = h.vc_busy /\ h2.credits = h.credits /\ h2.in_flight = h.in_flight
         /\ c \in CreditMsg \cup {NoCredit}
         /\ \A v : CreditsIn(h2.credit_q, v) = CreditsIn(h.credit_q, v) - One(Returned(c, v))
<1>1. h \in HostRec /\ h.credit_q \in Seq(Due)
  BY DEF HostOk, HostRec
<1>2. CASE c = NoCredit
  <2>1. h2 = h
    BY <1>2 DEF AfterCredit
  <2>2. \A v : CreditsIn(h.credit_q, v) \in Nat
    BY <1>1, CreditQueuedNat
  <2>. QED
    BY <1>2, <2>1, <2>2, Wires DEF One
<1>3. CASE c # NoCredit
  <2>. DEFINE q == h.credit_q
              q2 == SubSeq(q, 2, Len(q))
  <2>1. q # <<>> /\ c = [vc |-> q[1].vc, tail |-> q[1].tail]
    BY <1>3 DEF CreditDriven
  <2>2. q[1] \in Due
    BY <1>1, <2>1
  <2>3. c \in CreditMsg /\ c.vc = q[1].vc
    BY <2>1, <2>2 DEF Due, CreditMsg
  <2>4. h2 = [h EXCEPT !.credit_q = q2]
    BY <1>3 DEF AfterCredit
  <2>5. q2 \in Seq(Due) /\ \A v : /\ CreditsIn(q, v) = CreditsIn(q2, v) + One(q[1].vc = v)
                                  /\ CreditsIn(q2, v) \in Nat
    BY <1>1, <2>1, CreditLeaves
  <2>. HIDE DEF q2
  <2>6. /\ h2 \in HostRec /\ h2.vc_busy = h.vc_busy /\ h2.credits = h.credits /\ h2.in_flight = h.in_flight
        /\ h2.credit_q = q2
    BY <1>1, <2>4, <2>5 DEF HostRec
  <2>7. HostOk(h2)
    BY <2>6 DEF HostOk
  <2>8. \A v : One(Returned(c, v)) = One(q[1].vc = v) /\ One(q[1].vc = v) \in 0 .. 1
    BY <1>3, <2>3 DEF Returned, One
  <2>9. ASSUME NEW v PROVE CreditsIn(q2, v) = CreditsIn(q, v) - One(Returned(c, v))
    <3>. DEFINE n == CreditsIn(q, v)
                n2 == CreditsIn(q2, v)
                d == One(q[1].vc = v)
    <3>1. n = n2 + d /\ n2 \in Nat /\ d \in 0 .. 1 /\ One(Returned(c, v)) = d
      BY <2>5, <2>8
    <3>. HIDE DEF n, n2, d
    <3>2. n2 = n - d
      BY <3>1
    <3>. QED
      BY <3>1, <3>2 DEF n, n2, d
  <2>. QED
    BY <2>3, <2>6, <2>7, <2>9
<1>. QED
  BY <1>2, <1>3

\* The local port of the harness over a cycle: what it sends in follows what it has
\* sent, and what has come out is returned in time.
Cycled(h, f, cr, x, c, h2) ==
    \E h1 : /\ h1 = StartPacket(Sampled(h, f, cr))
            /\ x = FlitDriven(h1) /\ c = CreditDriven(h1) /\ h2 = Driven(h1)

HostMoves(h, f, cr, x, c, h2, v) ==
    /\ CreditsIn(h2.credit_q, v) = CreditsIn(h.credit_q, v) + One(Sends(f, v)) - One(Returned(c, v))
    /\ HCred(h2, v) = HCred(h, v) + One(Returned(cr, v)) - One(Sends(x, v))
    /\ Sends(x, v) => HCred(h, v) + One(Returned(cr, v)) # 0
    /\ \A k, n : n \in Nat /\ SourceOf(h, NoFlit, v, k, n, TailBack(cr, v)) =>
                   SourceOf(h2, x, v, k, n, TailBack(NoCredit, v))

\* A cycle of the harness, from sampling to driving.
LEMMA HostStep ==
  ASSUME NEW h, HostOk(h), NEW f \in Flit \cup {NoFlit}, NEW cr \in CreditMsg \cup {NoCredit},
         NEW x, NEW c, NEW h2, Cycled(h, f, cr, x, c, h2)
  PROVE  /\ HostOk(h2) /\ x \in Flit \cup {NoFlit} /\ c \in CreditMsg \cup {NoCredit}
         /\ \A v \in Vc : HostMoves(h, f, cr, x, c, h2, v)
<1>0. PICK h1 : /\ h1 = StartPacket(Sampled(h, f, cr))
                /\ x = FlitDriven(h1) /\ c = CreditDriven(h1) /\ h2 = Driven(h1)
  BY DEF Cycled
<1>1. PICK h0 : h0 = Sampled(h, f, cr)
  OBVIOUS
<1>2. PICK h3 : h3 = AfterFlit(h1)
  OBVIOUS
<1>3. h \in HostRec /\ (h.in_flight # NoPacket => h.in_flight.next <= h.in_flight.pkt.len)
  BY DEF HostOk
<1>a. TookIn(h, f, cr, h0)
  BY <1>1, <1>3, SampleStep
<1>4. /\ h0 \in HostRec /\ h0.pending = h.pending /\ h0.in_flight = h.in_flight
      /\ \A v \in Vc : /\ HCred(h0, v) = HCred(h, v) + One(Returned(cr, v))
                       /\ HBusy(h0, v) <=> HBusy(h, v) /\ ~TailBack(cr, v)
                       /\ CreditsIn(h0.credit_q, v) = CreditsIn(h.credit_q, v) + One(Sends(f, v))
  BY <1>a DEF TookIn
<1>5. HostOk(h0)
  BY <1>3, <1>4 DEF HostOk
<1>6. /\ HostOk(h1) /\ h1.credits = h0.credits /\ h1.credit_q = h0.credit_q
      /\ \A v \in Vc : StartedOn(h0, h1, v)
  BY <1>0, <1>1, <1>5, StartStep
<1>7. /\ HostOk(h3) /\ h3.vc_busy = h1.vc_busy /\ h3.credit_q = h1.credit_q
      /\ x \in Flit \cup {NoFlit}
      /\ \A v \in Vc : SentOne(h1, x, h3, v) /\ HCred(h3, v) = HCred(h1, v) - One(Sends(x, v))
  BY <1>0, <1>2, <1>6, SendStep
<1>8. c = CreditDriven(h3) /\ h2 = AfterCredit(h3)
  BY <1>0, <1>2, <1>7 DEF CreditDriven, Driven
<1>9. /\ HostOk(h2) /\ h2.vc_busy = h3.vc_busy /\ h2.credits = h3.credits /\ h2.in_flight = h3.in_flight
      /\ c \in CreditMsg \cup {NoCredit}
      /\ \A v : CreditsIn(h2.credit_q, v) = CreditsIn(h3.credit_q, v) - One(Returned(c, v))
  BY <1>7, <1>8, CreditBack
<1>10. ASSUME NEW v \in Vc
       PROVE  /\ CreditsIn(h2.credit_q, v) = CreditsIn(h.credit_q, v) + One(Sends(f, v)) - One(Returned(c, v))
              /\ HCred(h2, v) = HCred(h, v) + One(Returned(cr, v)) - One(Sends(x, v))
              /\ Sends(x, v) => HCred(h, v) + One(Returned(cr, v)) # 0
  <2>1. HCred(h2, v) = HCred(h3, v) /\ HCred(h1, v) = HCred(h0, v)
    BY <1>6, <1>9 DEF HCred
  <2>2. Sends(x, v) => HCred(h1, v) # 0
    BY <1>7 DEF SentOne
  <2>3. CreditsIn(h2.credit_q, v) = CreditsIn(h0.credit_q, v) - One(Returned(c, v))
    BY <1>6, <1>7, <1>9
  <2>0. h.credits \in [Vc -> Int] /\ h0.credits \in [Vc -> Int] /\ h3.credits \in [Vc -> Int]
        /\ h.credit_q \in Seq(Due)
    BY <1>3, <1>4, <1>7 DEF HostOk, HostRec
  <2>a. HCred(h, v) \in Int /\ HCred(h0, v) \in Int /\ HCred(h3, v) \in Int
        /\ CreditsIn(h.credit_q, v) \in Nat
    BY <2>0, CreditQueuedNat DEF HCred
  <2>b. \A z : One(Returned(z, v)) \in Int /\ One(Sends(z, v)) \in Int
    BY DEF One
  <2>4. HCred(h0, v) = HCred(h, v) + One(Returned(cr, v))
        /\ CreditsIn(h0.credit_q, v) = CreditsIn(h.credit_q, v) + One(Sends(f, v))
    BY <1>4
  <2>5. HCred(h3, v) = HCred(h1, v) - One(Sends(x, v))
    BY <1>7
  <2>6. HCred(h2, v) = HCred(h, v) + One(Returned(cr, v)) - One(Sends(x, v))
    BY <2>1, <2>4, <2>5, <2>a, <2>b
  <2>. QED
    BY <2>1, <2>2, <2>3, <2>4, <2>6, <2>a, <2>b
<1>11. ASSUME NEW v \in Vc, NEW k, NEW n \in Nat, SourceOf(h, NoFlit, v, k, n, TailBack(cr, v))
       PROVE  SourceOf(h2, x, v, k, n, TailBack(NoCredit, v))
  <2>. DEFINE tn == TailBack(NoCredit, v)
  <2>1. ~tn /\ ~Sends(NoFlit, v)
    BY Wires DEF TailBack
  <2>. HIDE DEF tn
  <2>2. SourceOf(h0, NoFlit, v, k, n, tn)
    <3>1. UpPacket(h0, v) = UpPacket(h, v) /\ UpGone(h0, v) = UpGone(h, v)
      BY <1>4 DEF Up, UpPacket, UpGone
    <3>2. PICK g \in Int : g = UpGone(h, v)
      BY UpFacts
    <3>3. Line(NoFlit, v, k, n, UpPacket(h, v), g, HBusy(h, v), TailBack(cr, v)) /\ Short(UpPacket(h, v), g)
      BY <1>11, <3>2, UpFacts DEF SourceOf
    <3>4. Came(NoFlit, v, k, n, tn, k, n)
      BY <2>1 DEF Came, Come, Comer, One
    <3>5. HBusy(h0, v) <=> HBusy(h, v) /\ ~TailBack(cr, v)
      BY <1>4
    <3>6. Line(NoFlit, v, k, n, UpPacket(h, v), g, HBusy(h0, v), tn)
      BY <3>3, <3>4, <3>5, LineReceive
    <3>. QED
      BY <3>1, <3>2, <3>6 DEF SourceOf
  <2>3. SourceOf(h1, NoFlit, v, k, n, tn)
    <3>1. PICK g \in Int : g = UpGone(h0, v)
      BY <1>5, UpFacts
    <3>2. Line(NoFlit, v, k, n, UpPacket(h0, v), g, HBusy(h0, v), tn)
      BY <2>2, <3>1 DEF SourceOf
    <3>3. CASE UpPacket(h1, v) = UpPacket(h0, v) /\ UpGone(h1, v) = UpGone(h0, v) /\ HBusy(h1, v) = HBusy(h0, v)
      BY <2>2, <3>3 DEF SourceOf
    <3>4. CASE ~HBusy(h0, v) /\ UpGone(h1, v) = 0 /\ IsSet(HBusy(h1, v))
      <4>1. \A k2 : Line(NoFlit, v, k, n, k2, 0, HBusy(h1, v), tn)
        BY <3>2, <3>4, LineAlloc
      <4>. QED
        BY <3>4, <4>1 DEF SourceOf
    <3>. QED
      BY <1>6, <3>3, <3>4 DEF StartedOn
  <2>4. SourceOf(h3, x, v, k, n, tn)
    <3>0. HBusy(h3, v) = HBusy(h1, v)
      BY <1>7 DEF HBusy
    <3>1. PICK g \in Int : g = UpGone(h1, v)
      BY <1>6, UpFacts
    <3>2. Line(NoFlit, v, k, n, UpPacket(h1, v), g, HBusy(h1, v), tn) /\ Short(UpPacket(h1, v), g)
      BY <1>6, <2>3, <3>1, UpFacts DEF SourceOf
    <3>3. CASE ~Sends(x, v) /\ UpPacket(h3, v) = UpPacket(h1, v) /\ UpGone(h3, v) = UpGone(h1, v)
      <4>1. Line(x, v, k, n, UpPacket(h1, v), g, HBusy(h1, v), tn)
        BY <2>1, <3>2, <3>3, LineQuiet
      <4>. QED
        BY <3>0, <3>1, <3>3, <4>1 DEF SourceOf
    <3>4. CASE /\ Up(h1, v)
               /\ x = [pkt |-> UpPacket(h1, v), i |-> UpGone(h1, v) + 1, vc |-> v]
               /\ IF UpGone(h1, v) + 1 = UpPacket(h1, v).len THEN UpPacket(h3, v) = NoPacket /\ UpGone(h3, v) = -1
                  ELSE UpPacket(h3, v) = UpPacket(h1, v) /\ UpGone(h3, v) = UpGone(h1, v) + 1
      <4>. DEFINE ku == UpPacket(h1, v)
                  b == HBusy(h1, v)
      <4>1. g \in Nat /\ ku.len \in Nat /\ x = [pkt |-> ku, i |-> g + 1, vc |-> v]
        BY <1>6, <3>1, <3>4, UpFacts
      <4>. HIDE DEF ku, b
      <4>2. Line(NoFlit, v, k, n, ku, g, b, tn) /\ Short(ku, g)
        BY <3>2 DEF ku, b
      <4>3. /\ Line(x, v, k, n, ku, g + 1, b, tn)
            /\ g + 1 = ku.len => Line(x, v, k, n, ku, -1, b, tn)
        BY <4>1, <4>2, LineSend
      <4>4. CASE g + 1 = ku.len
        <5>1. Line(x, v, k, n, NoPacket, -1, b, tn)
          BY <4>3, <4>4, LineFree
        <5>2. UpPacket(h3, v) = NoPacket /\ UpGone(h3, v) = -1
          BY <3>1, <3>4, <4>4 DEF ku
        <5>. QED
          BY <3>0, <5>1, <5>2 DEF SourceOf, b
      <4>5. CASE g + 1 # ku.len
        <5>1. UpPacket(h3, v) = ku /\ UpGone(h3, v) = g + 1
          BY <3>1, <3>4, <4>5 DEF ku
        <5>. QED
          BY <3>0, <4>3, <5>1 DEF SourceOf, b
      <4>. QED
        BY <4>4, <4>5
    <3>. QED
      BY <1>7, <3>3, <3>4 DEF SentOne
  <2>5. /\ UpPacket(h2, v) = UpPacket(h3, v) /\ UpGone(h2, v) = UpGone(h3, v)
        /\ HBusy(h2, v) = HBusy(h3, v)
    BY <1>9 DEF Up, UpPacket, UpGone, HBusy
  <2>. QED
    BY <2>4, <2>5 DEF SourceOf, tn
<1>. QED
  BY <1>7, <1>9, <1>10, <1>11 DEF HostMoves

\* What the harness sends in at port p, over a cycle in which it takes out y.
LEMMA FedStep ==
  ASSUME NEW a, NEW t, NEW fl, NEW cr, NEW ka, NEW na, NEW a2, NEW ka2, NEW na2,
         Stepped(a, t, fl, cr, ka, na, a2, ka2, na2), NEW p \in Port, NEW v \in Vc,
         NEW h, HostOk(h), NEW y \in Flit \cup {NoFlit}, NEW x, NEW c, NEW h2,
         Cycled(h, y, Ret(a2, p), x, c, h2), NEW f, f = fl[p], Fed(h, f, a, ka, na, p, v)
  PROVE  Fed(h2, x, a2, ka2, na2, p, v)
<1>. DEFINE k == At(ka, p, v)
            n == At(na, p, v)
            k2 == At(ka2, p, v)
            n2 == At(na2, p, v)
            r == Ret(a2, p)
            tl == TailBack(r, v)
            len == Len(Ivc(a, p, v).buf)
            len2 == Len(Ivc(a2, p, v).buf)
<1>0. /\ SourceOf(h, f, v, k, n, TailBack(NoCredit, v))
      /\ HCred(h, v) + One(Sends(f, v)) + len = VcDepth /\ HCred(h, v) >= 0
  BY DEF Fed
<1>2. r \in CreditMsg \cup {NoCredit}
  BY RouterStep, RouterFields
<1>3. /\ HCred(h2, v) = HCred(h, v) + One(Returned(r, v)) - One(Sends(x, v))
      /\ Sends(x, v) => HCred(h, v) + One(Returned(r, v)) # 0
      /\ \A kk, nn : nn \in Nat /\ SourceOf(h, NoFlit, v, kk, nn, TailBack(r, v)) =>
                       SourceOf(h2, x, v, kk, nn, TailBack(NoCredit, v))
  <2>. HIDE DEF r
  <2>1. Cycled(h, y, r, x, c, h2)
    BY DEF r
  <2>2. HostMoves(h, y, r, x, c, h2, v)
    BY <1>2, <2>1, HostStep
  <2>. QED
    BY <2>2 DEF HostMoves
<1>4. /\ n \in Nat /\ n2 \in Nat /\ len \in Nat /\ len2 \in Nat
      /\ len2 = len + One(Sends(f, v)) - One(Returned(r, v))
      /\ Came(f, v, k, n, tl, k2, n2)
  BY InputStep
<1>6. HCred(h, v) \in Int
  BY DEF HostOk, HostRec, HCred
<1>7. \A z : One(Returned(z, v)) \in 0 .. 1 /\ One(Sends(z, v)) \in 0 .. 1 /\ (One(Sends(z, v)) = 1 <=> Sends(z, v))
  BY DEF One
<1>8. SourceOf(h2, x, v, k2, n2, TailBack(NoCredit, v))
  <2>1. PICK g \in Int : g = UpGone(h, v)
    BY UpFacts
  <2>2. PICK m \in Nat : m = n
    BY <1>4
  <2>3. Line(f, v, k, m, UpPacket(h, v), g, HBusy(h, v), TailBack(NoCredit, v)) /\ Short(UpPacket(h, v), g)
    BY <1>0, <2>1, <2>2, UpFacts DEF SourceOf
  <2>4. Came(f, v, k, m, tl, k2, n2)
    BY <1>4, <2>2
  <2>5. ~TailBack(NoCredit, v)
    BY Wires DEF TailBack
  <2>6. PICK b : b <=> HBusy(h, v) /\ ~TailBack(NoCredit, v)
    OBVIOUS
  <2>. HIDE DEF k, n, k2, n2, tl
  <2>7. Line(NoFlit, v, k2, n2, UpPacket(h, v), g, b, tl)
    BY <2>3, <2>4, <2>6, LineReceive
  <2>8. b <=> HBusy(h, v)
    BY <2>5, <2>6
  <2>9. Line(NoFlit, v, k2, n2, UpPacket(h, v), g, HBusy(h, v), tl)
    BY <2>7, <2>8 DEF Line
  <2>10. SourceOf(h, NoFlit, v, k2, n2, tl)
    BY <2>1, <2>9 DEF SourceOf
  <2>. QED
    BY <1>3, <1>4, <2>10 DEF tl
<1>9. HCred(h2, v) + One(Sends(x, v)) + len2 = VcDepth /\ HCred(h2, v) >= 0
  <2>. HIDE DEF len, len2, r
  <2>. QED
    BY <1>0, <1>3, <1>4, <1>6, <1>7
<1>. QED
  BY <1>8, <1>9 DEF Fed

\* What the harness takes out at port p of channel v: all that leaves there,
LEMMA DrainedStep ==
  ASSUME NEW a, NEW t, NEW fl, NEW cr, NEW ka, NEW na, NEW a2, NEW ka2, NEW na2,
         Stepped(a, t, fl, cr, ka, na, a2, ka2, na2), NEW p \in Port, NEW v \in Vc,
         NEW h, HostOk(h), NEW y \in Flit \cup {NoFlit}, NEW x, NEW c, NEW h2,
         Cycled(h, y, Ret(a2, p), x, c, h2), NEW e, e = cr[p], Drained(h, e, a, p, v),
         One(Sends(y, v)) = One(Sends(Out(a2, p), v))
  PROVE  Drained(h2, c, a2, p, v)
<1>. DEFINE s == One(Sends(y, v))
<1>1. Cred(a, p, v) + CreditsIn(h.credit_q, v) + One(Returned(e, v)) = VcDepth /\ Cred(a, p, v) >= 0
  BY DEF Drained
<1>2. /\ Cred(a2, p, v) = Cred(a, p, v) + One(Returned(e, v)) - s
      /\ Cred(a, p, v) \in Int /\ Cred(a2, p, v) \in Int /\ Cred(a2, p, v) >= 0
  BY <1>1, CreditStep
<1>3. CreditsIn(h2.credit_q, v) = CreditsIn(h.credit_q, v) + s - One(Returned(c, v))
  <2>1. Ret(a2, p) \in CreditMsg \cup {NoCredit}
    BY RouterStep, RouterFields
  <2>2. HostMoves(h, y, Ret(a2, p), x, c, h2, v)
    BY <2>1, HostStep
  <2>. QED
    BY <2>2 DEF HostMoves
<1>4. CreditsIn(h.credit_q, v) \in Nat
  BY CreditQueuedNat DEF HostOk, HostRec
<1>5. One(Returned(e, v)) \in Int /\ s \in Int /\ One(Returned(c, v)) \in Int
  BY DEF One
<1>6. Cred(a2, p, v) + CreditsIn(h2.credit_q, v) + One(Returned(c, v)) = VcDepth
  <2>1. ASSUME NEW i \in Int, NEW j \in Int, NEW d \in Int, NEW y1 \in Int, NEW c1 \in Int,
               NEW i2, NEW j2, i + j + d = VcDepth, i2 = i + d - y1, j2 = j + y1 - c1
        PROVE  i2 + j2 + c1 = VcDepth
    BY <2>1
  <2>. HIDE DEF s
  <2>. QED
    BY <1>1, <1>2, <1>3, <1>4, <1>5, <2>1
<1>. QED
  BY <1>2, <1>6 DEF Drained

\* or nothing, and then no credit goes back.
LEMMA ShutStep ==
  ASSUME NEW a, NEW t, NEW fl, NEW cr, NEW ka, NEW na, NEW a2, NEW ka2, NEW na2,
         Stepped(a, t, fl, cr, ka, na, a2, ka2, na2), NEW p \in Port, NEW v \in Vc,
         NEW h, HostOk(h), NEW y \in Flit \cup {NoFlit}, NEW x, NEW c, NEW h2,
         Cycled(h, y, Ret(a2, p), x, c, h2), NEW e, e = cr[p], Shut(h, e, a, p, v), ~Sends(y, v)
  PROVE  Shut(h2, c, a2, p, v)
<1>1. CreditsIn(h.credit_q, v) = 0 /\ ~Returned(e, v) /\ Cred(a, p, v) \in 0 .. VcDepth
  BY DEF Shut
<1>2. /\ Cred(a2, p, v) = Cred(a, p, v) + One(Returned(e, v)) - One(Sends(Out(a2, p), v))
      /\ Cred(a2, p, v) \in Int /\ Cred(a2, p, v) >= 0
  BY <1>1, CreditStep
<1>3. /\ CreditsIn(h2.credit_q, v) = CreditsIn(h.credit_q, v) + One(Sends(y, v)) - One(Returned(c, v))
      /\ HostOk(h2)
  <2>1. Ret(a2, p) \in CreditMsg \cup {NoCredit}
    BY RouterStep, RouterFields
  <2>2. HostMoves(h, y, Ret(a2, p), x, c, h2, v) /\ HostOk(h2)
    BY <2>1, HostStep
  <2>. QED
    BY <2>2 DEF HostMoves
<1>4. CreditsIn(h2.credit_q, v) \in Nat
  BY <1>3, CreditQueuedNat DEF HostOk, HostRec
<1>5. CreditsIn(h2.credit_q, v) = 0 /\ ~Returned(c, v)
  BY <1>1, <1>3, <1>4 DEF One
<1>6. Cred(a2, p, v) \in 0 .. VcDepth
  BY <1>1, <1>2, Sizes DEF One
<1>. QED
  BY <1>5, <1>6 DEF Shut

---------------------------------------------------------------------------
(* After reset *)

\* After reset nothing has come and nothing is held.
LEMMA ResetType == RouterType(ResetRouter)
<1>1. IdleVc \in VcRegs
  <2>1. 0 \in Port /\ 0 \in Vc /\ <<>> \in Seq(Flit)
    BY Sizes, Indices
  <2>. QED
    BY <2>1 DEF IdleVc, VcRegs
<1>2. 0 \in Vc /\ 0 \in Port /\ VcDepth \in Int
  BY Sizes, Indices
<1>. QED
  BY <1>1, <1>2 DEF ResetRouter, RouterType

\* The registers after reset, one by one,
LEMMA ResetFields ==
  ASSUME NEW p \in Port
  PROVE  /\ Out(ResetRouter, p) = NoFlit /\ Ret(ResetRouter, p) = NoCredit
         /\ \A v \in Vc : /\ Ivc(ResetRouter, p, v) = IdleVc /\ ~Busy(ResetRouter, p, v)
                          /\ Cred(ResetRouter, p, v) = VcDepth
BY DEF ResetRouter, Out, Ret, Ivc, Busy, Cred

\* and the harness as it is built.
LEMMA NewHostOk ==
  /\ HostOk(NewHost) /\ NewHost.in_flight = NoPacket /\ NewHost.credit_q = <<>>
  /\ \A v \in Vc : HCred(NewHost, v) = VcDepth /\ ~HBusy(NewHost, v)
<1>1. VcDepth \in Int
  BY Sizes
<1>2. <<>> \in Seq(Packets) /\ <<>> \in Seq(Due)
  OBVIOUS
<1>. QED
  BY <1>1, <1>2 DEF NewHost, HostOk, HostRec, HCred, HBusy

\* No credit waits in an empty queue.
LEMMA NoneQueued ==
  ASSUME NEW v
  PROVE  CreditsIn(<<>>, v) = 0
<1>1. {j \in 1 .. Len(<<>>) : <<>>[j].vc = v} = {}
  OBVIOUS
<1>. QED
  BY <1>1, FS_EmptySet DEF CreditsIn

\* A channel of which nothing has come, and that none has.
LEMMA LineReset ==
  ASSUME NEW k, NEW v, NEW b, ~b, NEW tc, ~tc
  PROVE  Line(NoFlit, v, k, 0, NoPacket, -1, b, tc)
BY Wires DEF Line, Come, One

\* After reset a port is fed nothing and has nothing to give back,
LEMMA PortReset ==
  ASSUME NEW ka, NEW na, NEW p \in Port, NEW v \in Vc, At(ka, p, v) = NoPacket, At(na, p, v) = 0
  PROVE  /\ Fed(NewHost, NoFlit, ResetRouter, ka, na, p, v)
         /\ Drained(NewHost, NoCredit, ResetRouter, p, v)
         /\ Shut(NewHost, NoCredit, ResetRouter, p, v)
<1>. DEFINE h == NewHost
            a == ResetRouter
<1>1. ~Up(h, v) /\ ~HBusy(h, v) /\ HCred(h, v) = VcDepth /\ h.credit_q = <<>>
  BY NewHostOk DEF Up
<1>2. UpPacket(h, v) = NoPacket /\ UpGone(h, v) = -1
  BY <1>1 DEF UpPacket, UpGone
<1>3. ~Sends(NoFlit, v) /\ ~Returned(NoCredit, v) /\ ~TailBack(NoCredit, v)
  BY Wires DEF TailBack
<1>4. SourceOf(h, NoFlit, v, NoPacket, 0, TailBack(NoCredit, v))
  BY <1>1, <1>2, <1>3, LineReset DEF SourceOf
<1>5. Len(Ivc(a, p, v).buf) = 0 /\ Cred(a, p, v) = VcDepth /\ VcDepth \in Nat
  BY ResetFields, Sizes DEF IdleVc
<1>6. CreditsIn(h.credit_q, v) = 0
  BY <1>1, NoneQueued
<1>. HIDE DEF h, a
<1>7. /\ HCred(h, v) + One(Sends(NoFlit, v)) + Len(Ivc(a, p, v).buf) = VcDepth /\ HCred(h, v) >= 0
      /\ Cred(a, p, v) + CreditsIn(h.credit_q, v) + One(Returned(NoCredit, v)) = VcDepth /\ Cred(a, p, v) >= 0
  BY <1>1, <1>3, <1>5, <1>6 DEF One
<1>8. Fed(h, NoFlit, a, ka, na, p, v)
  BY <1>4, <1>7 DEF Fed
<1>9. Drained(h, NoCredit, a, p, v) /\ Shut(h, NoCredit, a, p, v)
  BY <1>3, <1>5, <1>6, <1>7 DEF Drained, Shut
<1>. QED
  BY <1>8, <1>9 DEF h, a

\* and no channel of an output is given to a packet.
LEMMA OutReset ==
  ASSUME NEW o \in Port, NEW v \in Vc, NEW ka, NEW na, NEW k, NEW tc, ~tc
  PROVE  OutChannel(ResetRouter, NoFlit, o, v, ka, na, k, 0, tc)
<1>1. ~Busy(ResetRouter, o, v) /\ \A p \in Port : Ivc(ResetRouter, p, v) = IdleVc
  BY ResetFields
<1>2. HeldByNone(ResetRouter, o, v)
  BY <1>1 DEF HeldByNone, Held, IdleVc
<1>3. Line(NoFlit, v, k, 0, NoPacket, -1, Busy(ResetRouter, o, v), tc)
  BY <1>1, LineReset
<1>. QED
  BY <1>2, <1>3 DEF OutChannel

---------------------------------------------------------------------------
(* The packets a harness is given *)

\* h2 is h with one more packet to send.
Queued(h, k, h2) == h2 = [h EXCEPT !.pending = Append(@, k)]

\* A packet that is queued changes nothing that is known of the port.
LEMMA QueuedStep ==
  ASSUME NEW h, HostOk(h), NEW k \in Packets, NEW h2, Queued(h, k, h2)
  PROVE  /\ HostOk(h2) /\ h2.in_flight = h.in_flight /\ h2.credit_q = h.credit_q
         /\ h2.pending = Append(h.pending, k)
         /\ \A x, a, ka, na, p, v : Fed(h, x, a, ka, na, p, v) => Fed(h2, x, a, ka, na, p, v)
         /\ \A e, a, p, v : Drained(h, e, a, p, v) => Drained(h2, e, a, p, v)
         /\ \A e, a, p, v : Shut(h, e, a, p, v) => Shut(h2, e, a, p, v)
<1>. DEFINE p2 == Append(h.pending, k)
<1>1. h \in HostRec /\ h.pending \in Seq(Packets)
  BY DEF HostOk, HostRec
<1>2. p2 \in Seq(Packets) /\ h2 = [h EXCEPT !.pending = p2]
  BY <1>1 DEF Queued
<1>. HIDE DEF p2
<1>3. /\ h2 \in HostRec /\ h2.credits = h.credits /\ h2.vc_busy = h.vc_busy
      /\ h2.in_flight = h.in_flight /\ h2.credit_q = h.credit_q /\ h2.pending = p2
  BY <1>1, <1>2 DEF HostRec
<1>4. HostOk(h2)
  BY <1>3 DEF HostOk
<1>5. \A v : /\ UpPacket(h2, v) = UpPacket(h, v) /\ UpGone(h2, v) = UpGone(h, v)
             /\ HBusy(h2, v) = HBusy(h, v) /\ HCred(h2, v) = HCred(h, v)
  BY <1>3 DEF UpPacket, UpGone, Up, HBusy, HCred
<1>6. \A x, a, ka, na, p, v : Fed(h, x, a, ka, na, p, v) => Fed(h2, x, a, ka, na, p, v)
  BY <1>5 DEF Fed, SourceOf
<1>7. \A e, a, p, v : /\ Drained(h, e, a, p, v) => Drained(h2, e, a, p, v)
                      /\ Shut(h, e, a, p, v) => Shut(h2, e, a, p, v)
  BY <1>3 DEF Drained, Shut
<1>. QED
  BY <1>3, <1>4, <1>6, <1>7 DEF p2

\* Of the packets in S are all that harness h has to send.
Carries(h, S) == h.pending \in Seq(S) /\ (h.in_flight # NoPacket => h.in_flight.pkt \in S)

\* What a harness sends it was given.
LEMMA CarriesStep ==
  ASSUME NEW S, NEW h, HostOk(h), Carries(h, S), NEW f \in Flit \cup {NoFlit}, NEW cr \in CreditMsg \cup {NoCredit},
         NEW x, NEW c, NEW h2, Cycled(h, f, cr, x, c, h2)
  PROVE  Carries(h2, S) /\ (x # NoFlit => x.pkt \in S)
<1>1. PICK h0, h1, h3 : /\ h0 = Sampled(h, f, cr) /\ h1 = StartPacket(h0) /\ h3 = AfterFlit(h1)
                        /\ x = FlitDriven(h1) /\ h2 = AfterCredit(h3)
  BY DEF Cycled, Driven
<1>2. h \in HostRec
  BY DEF HostOk
<1>3. TookIn(h, f, cr, h0)
  BY <1>1, <1>2, SampleStep
<1>4. h0 \in HostRec /\ h0.pending = h.pending /\ h0.in_flight = h.in_flight
  BY <1>3 DEF TookIn
<1>5. HostOk(h0)
  BY <1>4 DEF HostOk
<1>6. HostOk(h1) /\ h1 \in HostRec
  BY <1>1, <1>5, StartStep DEF HostOk
<1>7. HostOk(h3) /\ h3 \in HostRec
  BY <1>1, <1>6, SendStep DEF HostOk
<1>8. Carries(h1, S)
  <2>1. Carries(h0, S)
    BY <1>4 DEF Carries
  <2>2. CASE h1 = h0
    BY <2>1, <2>2
  <2>3. CASE h1 # h0
    <3>. DEFINE free == FreeVc(h0, h0.pending[1].vnet)
                w == CHOOSE v \in free : TRUE
                k == h0.pending[1]
                p2 == SubSeq(h0.pending, 2, Len(h0.pending))
                b2 == [h0.vc_busy EXCEPT ![w] = TRUE]
                c2 == [pkt |-> k, vc |-> w, next |-> 1]
    <3>1. h0.pending # <<>> /\ h1 = [h0 EXCEPT !.pending = p2, !.vc_busy = b2, !.in_flight = c2]
      BY <1>1, <2>3 DEF StartPacket
    <3>2. k \in S /\ p2 \in Seq(S)
      <4>1. h0.pending \in Seq(S) /\ h0.pending # <<>>
        BY <2>1, <3>1 DEF Carries
      <4>. QED
        BY <4>1
    <3>3. c2.pkt = k
      OBVIOUS
    <3>. HIDE DEF k, p2, b2, c2
    <3>4. h1.pending = p2 /\ h1.in_flight = c2
      BY <1>4, <3>1 DEF HostRec
    <3>. QED
      BY <3>2, <3>3, <3>4 DEF Carries
  <2>. QED
    BY <2>2, <2>3
<1>9. Carries(h3, S) /\ (x # NoFlit => x.pkt \in S)
  <2>1. CASE x = NoFlit
    BY <1>1, <1>8, <2>1 DEF AfterFlit
  <2>2. CASE x # NoFlit
    <3>. DEFINE d == h1.in_flight
                cr2 == [h1.credits EXCEPT ![x.vc] = @ - 1]
                c2 == Onward(d, x)
    <3>1. d # NoPacket /\ x = [pkt |-> d.pkt, i |-> d.next, vc |-> d.vc]
      BY <1>1, <2>2 DEF FlitDriven
    <3>2. h3 = [h1 EXCEPT !.credits = cr2, !.in_flight = c2]
      BY <1>1, <2>2 DEF AfterFlit
    <3>3. d \in InFlight /\ d.pkt \in S
      BY <1>6, <1>8, <3>1 DEF Carries, HostRec
    <3>4. c2 # NoPacket => c2.pkt \in S
      BY <3>3 DEF Onward, InFlight
    <3>5. x.pkt \in S
      BY <3>1, <3>3
    <3>. HIDE DEF cr2, c2
    <3>6. h3.pending = h1.pending /\ h3.in_flight = c2
      BY <1>6, <3>2 DEF HostRec
    <3>. QED
      BY <1>8, <3>4, <3>5, <3>6 DEF Carries
  <2>. QED
    BY <2>1, <2>2
<1>10. h2.pending = h3.pending /\ h2.in_flight = h3.in_flight
  <2>. DEFINE q2 == SubSeq(h3.credit_q, 2, Len(h3.credit_q))
  <2>1. h2 = h3 \/ h2 = [h3 EXCEPT !.credit_q = q2]
    BY <1>1 DEF AfterCredit
  <2>. HIDE DEF q2
  <2>. QED
    BY <1>7, <2>1 DEF HostRec
<1>. QED
  BY <1>9, <1>10 DEF Carries

\* What a harness sends finds its place and room in the router.
LEMMA FedFeeds ==
  ASSUME NEW h, HostOk(h), NEW x, NEW a, NEW ka, NEW na, NEW p, NEW v \in Vc, Fed(h, x, a, ka, na, p, v),
         Len(Ivc(a, p, v).buf) \in Nat
  PROVE  /\ Sends(x, v) => Follows(x, At(ka, p, v), At(na, p, v)) /\ Len(Ivc(a, p, v).buf) < VcDepth
         /\ HCred(h, v) \in 0 .. VcDepth /\ Len(Ivc(a, p, v).buf) \in 0 .. VcDepth
<1>. DEFINE l == Len(Ivc(a, p, v).buf)
            hc == HCred(h, v)
<1>1. Sends(x, v) => Follows(x, At(ka, p, v), At(na, p, v))
  BY DEF Fed, SourceOf, Line
<1>2. hc + One(Sends(x, v)) + l = VcDepth /\ hc >= 0
  BY DEF Fed
<1>3. hc \in Int
  BY DEF HostOk, HostRec, HCred
<1>4. VcDepth \in Nat /\ l \in Nat
  BY Sizes
<1>. HIDE DEF l, hc
<1>5. hc \in 0 .. VcDepth /\ l \in 0 .. VcDepth /\ (Sends(x, v) => l < VcDepth)
  BY <1>2, <1>3, <1>4 DEF One
<1>. QED
  BY <1>1, <1>5 DEF l, hc

---------------------------------------------------------------------------
(* The harness at an output: what it has taken and not given back *)

\* What is on the wire of channel v of output o is taken, and the credit of a tail may go
\* back (tl).
LEMMA OutReceives ==
  ASSUME NEW a, NEW t, NEW o \in Port, NEW v \in Vc, NEW ka, NEW na,
         \A p \in Port : /\ Ivc(a, p, v) \in VcRegs /\ At(na, p, v) \in Nat
                         /\ VcOpen(Ivc(a, p, v), t, v, At(ka, p, v), At(na, p, v)),
         NEW f, NEW k, NEW n \in Nat, OutChannel(a, f, o, v, ka, na, k, n, FALSE),
         NEW tl, NEW k2, NEW n2, Came(f, v, k, n, tl, k2, n2)
  PROVE  OutChannel(a, NoFlit, o, v, ka, na, k2, n2, tl)
<1>. DEFINE busy == Busy(a, o, v)
            gn(p) == At(na, p, v) - Len(Ivc(a, p, v).buf)
<1>1. ASSUME NEW ku, NEW g \in Int, Line(f, v, k, n, ku, g, busy, FALSE), Short(ku, g)
      PROVE  Line(NoFlit, v, k2, n2, ku, g, busy, tl)
  <2>1. PICK tc : tc = FALSE
    OBVIOUS
  <2>2. PICK b2 : b2 <=> busy /\ ~tc
    OBVIOUS
  <2>. HIDE DEF busy
  <2>3. Line(f, v, k, n, ku, g, busy, tc)
    BY <1>1, <2>1
  <2>4. Line(NoFlit, v, k2, n2, ku, g, b2, tl)
    BY <1>1, <2>2, <2>3, LineReceive
  <2>5. b2 <=> busy
    BY <2>1, <2>2
  <2>. QED
    BY <2>4, <2>5 DEF Line
<1>2. ASSUME NEW p \in Port, HeldBy(a, o, v, p)
      PROVE  gn(p) \in Int /\ Short(At(ka, p, v), gn(p))
  <2>1. Ivc(a, p, v) \in VcRegs /\ At(na, p, v) \in Nat /\ VcOpen(Ivc(a, p, v), t, v, At(ka, p, v), At(na, p, v))
    OBVIOUS
  <2>2. Held(Ivc(a, p, v), o)
    BY <1>2 DEF HeldBy
  <2>3. Ivc(a, p, v).st # "IDLE" /\ Len(Ivc(a, p, v).buf) \in Nat
    BY <2>1, <2>2 DEF Held, VcRegs
  <2>4. gn(p) < At(ka, p, v).len
    BY <2>1, <2>3 DEF VcOpen
  <2>. QED
    BY <2>1, <2>3, <2>4 DEF Short
<1>3. CASE HeldByNone(a, o, v) /\ Line(f, v, k, n, NoPacket, -1, busy, FALSE)
  <2>1. Short(NoPacket, -1) /\ -1 \in Int
    BY DEF Short
  <2>2. Line(NoFlit, v, k2, n2, NoPacket, -1, busy, tl)
    BY <1>1, <1>3, <2>1
  <2>. QED
    BY <1>3, <2>2 DEF OutChannel
<1>4. CASE \E p \in Port : HeldBy(a, o, v, p) /\ Line(f, v, k, n, At(ka, p, v), gn(p), busy, FALSE)
  <2>1. PICK p \in Port : HeldBy(a, o, v, p) /\ Line(f, v, k, n, At(ka, p, v), gn(p), busy, FALSE)
    BY <1>4
  <2>2. Line(NoFlit, v, k2, n2, At(ka, p, v), gn(p), busy, tl)
    BY <1>1, <1>2, <2>1
  <2>. QED
    BY <2>1, <2>2 DEF OutChannel
<1>. QED
  BY <1>3, <1>4 DEF OutChannel

\* The credit of a tail of channel v waits in q only when its packet has come whole, and
\* one at most: n flits of packet k have come.
QueueOk(q, v, k, n) ==
    \A j \in 1 .. Len(q) : q[j].vc = v /\ q[j].tail =>
        n > 0 /\ n = k.len /\ \A i \in 1 .. Len(q) : q[i].vc = v /\ q[i].tail => i = j

\* A flit that is taken, y, is x if any: it follows the n that have come.
LEMMA QueueTakes ==
  ASSUME NEW q \in Seq(Due), NEW v, NEW k, NEW n \in Nat, QueueOk(q, v, k, n),
         NEW x \in Flit, Sends(x, v) => Follows(x, k, n),
         NEW e, e.vc = x.vc, e.tail = IsTail(x), NEW q2, q2 = q \/ q2 = Append(q, e)
  PROVE  QueueOk(q2, v, Comer(x, v, k), Come(x, v, n))
<1>1. \A j \in 1 .. Len(q) : q2[j] = q[j]
  OBVIOUS
<1>2. Sends(x, v) <=> x.vc = v
  BY Wires DEF Sends
<1>3. \A j \in 1 .. Len(q2) : j \in 1 .. Len(q) \/ (j = Len(q) + 1 /\ q2[j] = e)
  OBVIOUS
<1>4. CASE ~Sends(x, v)
  <2>1. Comer(x, v, k) = k /\ Come(x, v, n) = n
    BY <1>4 DEF Comer, Come, One
  <2>2. \A j \in 1 .. Len(q2) : q2[j].vc = v => j \in 1 .. Len(q) /\ q2[j] = q[j]
    BY <1>1, <1>2, <1>3, <1>4
  <2>. QED
    BY <2>1, <2>2 DEF QueueOk
<1>5. CASE Sends(x, v)
  <2>1. Comer(x, v, k) = x.pkt /\ Come(x, v, n) = n + 1
    BY <1>5 DEF Comer, Come, One
  <2>2. x.i = n + 1 /\ x.i <= x.pkt.len /\ (n > 0 => x.pkt = k) /\ x.pkt.len \in Nat
    BY <1>5, PacketFacts DEF Follows, Flit
  <2>3. ASSUME NEW j \in 1 .. Len(q), q[j].vc = v, q[j].tail PROVE FALSE
    <3>1. n > 0 /\ n = k.len
      BY <2>3 DEF QueueOk
    <3>. QED
      BY <2>2, <3>1
  <2>4. ASSUME NEW j \in 1 .. Len(q2), q2[j].vc = v, q2[j].tail PROVE j = Len(q) + 1 /\ q2[j] = e
    BY <1>1, <1>3, <2>3, <2>4
  <2>5. ASSUME NEW j \in 1 .. Len(q2), q2[j].vc = v, q2[j].tail PROVE n + 1 = x.pkt.len
    <3>1. IsTail(x)
      BY <2>4, <2>5
    <3>. QED
      BY <2>2, <3>1 DEF IsTail
  <2>. QED
    BY <2>1, <2>4, <2>5 DEF QueueOk
<1>. QED
  BY <1>4, <1>5

\* When the credit of a tail is given back no other is left.
LEMMA QueueGives ==
  ASSUME NEW q \in Seq(Due), q # <<>>, NEW v, NEW k, NEW n \in Nat, QueueOk(q, v, k, n), NEW tl,
         tl <=> q[1].vc = v /\ q[1].tail
  PROVE  /\ tl => n > 0 /\ n = k.len
         /\ QueueOk(SubSeq(q, 2, Len(q)), v, k, IF tl THEN 0 ELSE n)
<1>. DEFINE q2 == SubSeq(q, 2, Len(q))
<1>1. Len(q) \in Nat \ {0} /\ Len(q2) = Len(q) - 1 /\ \A j \in 1 .. Len(q2) : q2[j] = q[j + 1]
  <2>1. q2 = Tail(q) /\ Len(q) \in Nat \ {0}
    BY TailIsSubSeq
  <2>. QED
    BY <2>1, HeadTailProperties
<1>. HIDE DEF q2
<1>2. tl => n > 0 /\ n = k.len /\ \A i \in 1 .. Len(q) : q[i].vc = v /\ q[i].tail => i = 1
  BY <1>1 DEF QueueOk
<1>3. \A j \in 1 .. Len(q2) : j + 1 \in 1 .. Len(q) /\ j + 1 # 1
  BY <1>1
<1>4. QueueOk(q2, v, k, IF tl THEN 0 ELSE n)
  <2>1. CASE tl
    BY <1>1, <1>2, <1>3, <2>1 DEF QueueOk
  <2>2. CASE ~tl
    <3>. SUFFICES ASSUME NEW j \in 1 .. Len(q2), q2[j].vc = v, q2[j].tail
                  PROVE  n > 0 /\ n = k.len /\ \A i \in 1 .. Len(q2) : q2[i].vc = v /\ q2[i].tail => i = j
      BY <2>2 DEF QueueOk
    <3>1. j + 1 \in 1 .. Len(q) /\ q[j + 1].vc = v /\ q[j + 1].tail
      BY <1>1, <1>3
    <3>2. n > 0 /\ n = k.len /\ \A i \in 1 .. Len(q) : q[i].vc = v /\ q[i].tail => i = j + 1
      BY <3>1 DEF QueueOk
    <3>3. \A i \in 1 .. Len(q2) : q2[i].vc = v /\ q2[i].tail => i + 1 = j + 1
      BY <1>1, <1>3, <3>2
    <3>. QED
      BY <1>1, <3>2, <3>3
  <2>. QED
    BY <2>1, <2>2
<1>. QED
  BY <1>2, <1>4 DEF q2

\* A flit x that comes, and a credit c that goes, are counted on channel v.
Counts(x, c, v, k, n, k2, n2) == k2 = Comer(x, v, k) /\ n2 = IF TailBack(c, v) THEN 0 ELSE Come(x, v, n)

\* The packet k has come whole, when the credit c of a tail goes.
TailGoes(c, v, k, n) == TailBack(c, v) => n > 0 /\ n = k.len

\* A cycle of the harness, for the credits of tails.
LEMMA QueueStep ==
  ASSUME NEW h, HostOk(h), NEW y \in Flit \cup {NoFlit}, NEW cr \in CreditMsg \cup {NoCredit},
         NEW z, NEW c, NEW h2, Cycled(h, y, cr, z, c, h2),
         NEW v, NEW k, NEW n \in Nat, QueueOk(h.credit_q, v, k, n),
         NEW x \in Flit \cup {NoFlit}, y = x \/ y = NoFlit, Sends(x, v) => Follows(x, k, n),
         NEW k1, NEW n2, Counts(x, c, v, k, n, k1, n2)
  PROVE  /\ TailGoes(c, v, k1, Come(x, v, n))
         /\ QueueOk(h2.credit_q, v, k1, n2)
<1>. SUFFICES ASSUME NEW n1, n1 = Come(x, v, n)
              PROVE  (TailBack(c, v) => n1 > 0 /\ n1 = k1.len) /\ QueueOk(h2.credit_q, v, k1, n2)
  BY DEF TailGoes
<1>. k1 = Comer(x, v, k) /\ n2 = IF TailBack(c, v) THEN 0 ELSE n1
  BY DEF Counts
<1>1. PICK ha, hb, h0, h1, h3 :
        /\ ha = AgeCredits(h) /\ hb = TakeFlit(ha, y) /\ h0 = TakeCredit(hb, cr)
        /\ h1 = StartPacket(h0) /\ h3 = AfterFlit(h1) /\ c = CreditDriven(h1) /\ h2 = AfterCredit(h3)
  BY DEF Cycled, Driven, Sampled
<1>2. h \in HostRec /\ h.credit_q \in Seq(Due)
  BY DEF HostOk, HostRec
<1>3. ha \in HostRec /\ ha.credit_q = [j \in DOMAIN h.credit_q |-> Nearer(h.credit_q[j])]
  <2>1. QueueOnly(h, ha)
    BY <1>1, <1>2, AgeStep
  <2>2. PICK q : q = [j \in DOMAIN h.credit_q |-> Nearer(h.credit_q[j])]
    OBVIOUS
  <2>3. ha = [h EXCEPT !.credit_q = q]
    BY <1>1, <2>2 DEF AgeCredits
  <2>4. ha.credit_q = q
    BY <1>2, <2>3 DEF HostRec
  <2>. QED
    BY <2>1, <2>2, <2>4 DEF QueueOnly
<1>4. QueueOk(ha.credit_q, v, k, n) /\ ha.credit_q \in Seq(Due)
  <2>. DEFINE q == h.credit_q
              qa == ha.credit_q
  <2>1. \A e \in Due : Nearer(e).vc = e.vc /\ Nearer(e).tail = e.tail
    BY DEF Due, Nearer
  <2>2. qa \in Seq(Due)
    BY <1>3 DEF HostRec
  <2>3. DOMAIN q = 1 .. Len(q) /\ Len(q) \in Nat /\ DOMAIN qa = DOMAIN q
    BY <1>2, <1>3
  <2>4. Len(qa) = Len(q)
    BY <2>2, <2>3
  <2>5. \A j \in 1 .. Len(q) : qa[j].vc = q[j].vc /\ qa[j].tail = q[j].tail
    BY <1>2, <1>3, <2>1, <2>3
  <2>. HIDE DEF q, qa
  <2>6. QueueOk(q, v, k, n)
    BY DEF q
  <2>7. QueueOk(qa, v, k, n)
    BY <2>4, <2>5, <2>6 DEF QueueOk
  <2>. QED
    BY <2>2, <2>7 DEF qa
<1>5. hb \in HostRec /\ QueueOk(hb.credit_q, v, k1, n1) /\ n1 \in Nat
  <2>. DEFINE qa == ha.credit_q
              e == [due |-> CreditDelay, vc |-> x.vc, tail |-> IsTail(x)]
  <2>1. QueueOnly(ha, hb)
    BY <1>1, <1>3, TakeFlitStep
  <2>2. hb \in HostRec
    BY <2>1 DEF QueueOnly
  <2>3. n1 \in Nat
    BY DEF Come, One
  <2>4. CASE x = NoFlit
    <3>1. hb = ha /\ k1 = k /\ n1 = n
      BY <1>1, <2>4, Wires DEF TakeFlit, Comer, Come, One
    <3>. QED
      BY <1>4, <2>2, <2>3, <3>1
  <2>5. CASE x # NoFlit
    <3>1. e.vc = x.vc /\ e.tail = IsTail(x)
      OBVIOUS
    <3>2. hb.credit_q = qa \/ hb.credit_q = Append(qa, e)
      <4>1. CASE y = NoFlit
        BY <1>1, <4>1 DEF TakeFlit
      <4>2. CASE y # NoFlit
        <5>1. PICK q2 : q2 = Append(qa, e)
          OBVIOUS
        <5>2. hb = [ha EXCEPT !.credit_q = q2]
          BY <1>1, <4>2, <5>1 DEF TakeFlit
        <5>3. hb.credit_q = q2
          BY <1>3, <5>2 DEF HostRec
        <5>. QED
          BY <5>1, <5>3
      <4>. QED
        BY <4>1, <4>2
    <3>3. x \in Flit
      BY <2>5
    <3>. HIDE DEF e, qa
    <3>4. qa \in Seq(Due) /\ QueueOk(qa, v, k, n)
      BY <1>4 DEF qa
    <3>5. PICK q2 : q2 = hb.credit_q
      OBVIOUS
    <3>6. QueueOk(q2, v, Comer(x, v, k), Come(x, v, n))
      BY <3>1, <3>2, <3>3, <3>4, <3>5, QueueTakes
    <3>. QED
      BY <2>2, <2>3, <3>5, <3>6
  <2>. QED
    BY <2>4, <2>5
<1>6. h0 \in HostRec /\ h0.credit_q = hb.credit_q
  BY <1>1, <1>5, TakeCreditStep
<1>7. HostOk(h0)
  <2>1. TookIn(h, y, cr, h0)
    BY <1>1, <1>2, SampleStep DEF Sampled
  <2>. QED
    BY <2>1 DEF TookIn, HostOk
<1>8. HostOk(h1) /\ h1.credit_q = h0.credit_q
  BY <1>1, <1>7, StartStep
<1>9. HostOk(h3) /\ h3.credit_q = h1.credit_q
  BY <1>1, <1>8, SendStep
<1>10. h3 \in HostRec /\ h3.credit_q \in Seq(Due) /\ QueueOk(h3.credit_q, v, k1, n1) /\ c = CreditDriven(h3)
  BY <1>1, <1>5, <1>6, <1>8, <1>9 DEF HostOk, HostRec, CreditDriven
<1>11. CASE c = NoCredit
  <2>1. h2 = h3 /\ ~TailBack(c, v)
    BY <1>1, <1>10, <1>11, Wires DEF AfterCredit, TailBack
  <2>. QED
    BY <1>10, <2>1
<1>12. CASE c # NoCredit
  <2>. DEFINE q == h3.credit_q
              q2 == SubSeq(q, 2, Len(q))
  <2>1. q # <<>> /\ c = [vc |-> q[1].vc, tail |-> q[1].tail]
    BY <1>10, <1>12 DEF CreditDriven
  <2>2. TailBack(c, v) <=> q[1].vc = v /\ q[1].tail
    BY <1>12, <2>1 DEF TailBack, Returned
  <2>3. h2 = [h3 EXCEPT !.credit_q = q2]
    BY <1>1, <1>10, <1>12 DEF AfterCredit
  <2>. HIDE DEF q2
  <2>4. h2.credit_q = q2
    BY <1>10, <2>3 DEF HostRec
  <2>5. /\ TailBack(c, v) => n1 > 0 /\ n1 = k1.len
        /\ QueueOk(q2, v, k1, IF TailBack(c, v) THEN 0 ELSE n1)
    <3>1. PICK qq, tl : qq = q /\ tl = TailBack(c, v)
      OBVIOUS
    <3>2. qq \in Seq(Due) /\ qq # <<>> /\ QueueOk(qq, v, k1, n1) /\ (tl <=> qq[1].vc = v /\ qq[1].tail)
      BY <1>10, <2>1, <2>2, <3>1
    <3>3. PICK m \in Nat : m = n1
      BY <1>5
    <3>4. /\ tl => m > 0 /\ m = k1.len
          /\ QueueOk(SubSeq(qq, 2, Len(qq)), v, k1, IF tl THEN 0 ELSE m)
      BY <3>2, <3>3, QueueGives
    <3>. QED
      BY <3>1, <3>3, <3>4 DEF q2
  <2>. QED
    BY <2>4, <2>5
<1>. QED
  BY <1>11, <1>12

===============================================================================
