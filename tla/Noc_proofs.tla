-------------------------------- MODULE Noc_proofs --------------------------------
(***************************************************************************)
(* The safety of the mesh and of the single router under their harnesses.  *)
(***************************************************************************)
EXTENDS MCNoc, Router_proofs

---------------------------------------------------------------------------
(* The invariant of the mesh *)

\* Channel v of the link from port o of router a to router b, of the input VCs of which
\* ka and na, and k and n, say what has come.
Joined(a, b, o, v, ka, na, k, n) ==
    LET q == Opposite(o) IN
    /\ OutChannel(a, Out(a, o), o, v, ka, na, k, n, TailBack(Ret(b, q), v))
    /\ Cred(a, o, v) + One(Sends(Out(a, o), v)) + Len(Ivc(b, q, v).buf) + One(Returned(Ret(b, q), v)) = VcDepth
    /\ Cred(a, o, v) >= 0

LinkOf(K, N, t, o, u, v) ==
    LET q == Opposite(o) IN Joined(rtr[t], rtr[u], o, v, K[t], N[t], At(K[u], q, v), At(N[u], q, v))

\* Nothing crosses the edge of the mesh.
EdgeOf(N, t, o) ==
    /\ Out(rtr[t], o) = NoFlit
    /\ \A v \in Vc : Cred(rtr[t], o, v) = VcDepth /\ At(N[t], o, v) = 0

\* The local port.
LocalOk(h, x, e, a, ka, na, v) == Fed(h, x, a, ka, na, PORT_LOCAL, v) /\ Drained(h, e, a, PORT_LOCAL, v)

\* f is of a packet of the traffic, or is none.
Generated(f) == f # NoFlit => f.pkt \in UNION Traffic

TileInv(K, N, t) ==
    /\ RouterType(rtr[t]) /\ HostOk(host[t])
    /\ inject[t] \in Flit \cup {NoFlit} /\ eject_credit[t] \in CreditMsg \cup {NoCredit}
    /\ \A p \in Port, v \in Vc : At(N[t], p, v) \in Nat /\ VcOpen(Ivc(rtr[t], p, v), t, v, At(K[t], p, v), At(N[t], p, v))
    /\ \A o \in Side : IF Neighbour(t, o) = {} THEN EdgeOf(N, t, o)
                       ELSE \A u \in Neighbour(t, o), v \in Vc : LinkOf(K, N, t, o, u, v)
    /\ \A v \in Vc : LocalOk(host[t], inject[t], eject_credit[t], rtr[t], K[t], N[t], v)
    /\ Out(rtr[t], PORT_LOCAL) # NoFlit => Out(rtr[t], PORT_LOCAL).pkt.dst = t
    /\ Carries(host[t], UNION Traffic) /\ Generated(inject[t]) /\ \A o \in Port : Generated(Out(rtr[t], o))
    /\ \A p \in Port, v \in Vc : At(N[t], p, v) > 0 => At(K[t], p, v) \in UNION Traffic

MeshInv(K, N) ==
    /\ DOMAIN host = Tile /\ host = [t \in Tile |-> host[t]]
    /\ \A t \in Tile : TileInv(K, N, t)

---------------------------------------------------------------------------
(* Tiles and ports *)

\* The sizes are natural numbers, and packets go from tile to tile.
LEMMA MeshSizes ==
  /\ MeshX \in Nat \ {0} /\ MeshY \in Nat \ {0} /\ NumTiles \in Nat \ {0}
  /\ \A k \in UNION Traffic : k \in Packets /\ k.src \in Tile /\ k.dst \in Tile
<1>1. MeshX \in Nat \ {0} /\ MeshY \in Nat \ {0}
  BY RouterShape, MeshAssumption
<1>2. NumTiles \in Nat \ {0}
  BY <1>1 DEF NumTiles
<1>. QED
  BY <1>1, <1>2, MeshAssumption

\* A tile is its column and its row.
LEMMA Columns ==
  ASSUME NEW t \in Tile
  PROVE  /\ TileX(t) \in 0 .. MeshX - 1 /\ TileY(t) \in 0 .. MeshY - 1
         /\ t = MeshX * TileY(t) + TileX(t)
<1>1. t \in Nat /\ MeshX \in Nat \ {0} /\ MeshY \in Nat \ {0} /\ t < MeshX * MeshY
  BY MeshSizes DEF Tile, NumTiles
<1>2. /\ TileX(t) \in 0 .. MeshX - 1 /\ TileY(t) \in Int
      /\ t = MeshX * TileY(t) + TileX(t)
  BY <1>1 DEF TileX, TileY
<1>3. TileY(t) >= 0
  BY <1>1, <1>2
<1>4. TileY(t) < MeshY
  <2>. SUFFICES ASSUME TileY(t) >= MeshY PROVE FALSE
    BY <1>1, <1>2
  <2>1. MeshX * TileY(t) >= MeshX * MeshY
    BY <1>1, <1>2
  <2>. QED
    BY <1>1, <1>2, <2>1
<1>. QED
  BY <1>1, <1>2, <1>3, <1>4

\* There is a tile in each column and row.
LEMMA TileAt ==
  ASSUME NEW x \in 0 .. MeshX - 1, NEW y \in 0 .. MeshY - 1
  PROVE  \E t \in Tile : TileX(t) = x /\ TileY(t) = y
<1>1. MeshX \in Nat \ {0} /\ MeshY \in Nat \ {0} /\ x \in Nat /\ x < MeshX /\ y \in Nat /\ y <= MeshY - 1
  BY MeshSizes
<1>. DEFINE t == MeshX * y + x
<1>2. MeshX * y \in Nat /\ MeshX * y <= MeshX * (MeshY - 1)
  BY <1>1
<1>3. MeshX * (MeshY - 1) = MeshX * MeshY - MeshX
  BY <1>1
<1>4. t \in Tile
  BY <1>1, <1>2, <1>3 DEF Tile, NumTiles
<1>5. t % MeshX = x /\ t \div MeshX = y
  BY <1>1, <1>2
<1>. QED
  BY <1>4, <1>5 DEF TileX, TileY

\* A tile is known by its column and row.
LEMMA SameTile ==
  ASSUME NEW t \in Tile, NEW u \in Tile, TileX(t) = TileX(u), TileY(t) = TileY(u)
  PROVE  t = u
BY Columns

\* A link joins two tiles, by opposite ports, and no others.
LEMMA Links ==
  ASSUME NEW t \in Tile, NEW o \in Side, NEW u \in Neighbour(t, o)
  PROVE  /\ u \in Tile /\ t \in Neighbour(u, Opposite(o))
         /\ Opposite(o) \in Side /\ Opposite(Opposite(o)) = o
         /\ \A w \in Neighbour(t, o) : w = u
<1>1. u \in Tile /\ o \in {PORT_NORTH, PORT_EAST, PORT_SOUTH, PORT_WEST}
  BY DEF Neighbour, Side, Port, NumPorts, PORT_NORTH, PORT_EAST, PORT_SOUTH, PORT_WEST, PORT_LOCAL
<1>2. /\ Opposite(o) \in Side /\ Opposite(Opposite(o)) = o
      /\ Opposite(PORT_NORTH) = PORT_SOUTH /\ Opposite(PORT_SOUTH) = PORT_NORTH
      /\ Opposite(PORT_EAST) = PORT_WEST /\ Opposite(PORT_WEST) = PORT_EAST
  BY <1>1 DEF Opposite, Side, Port, NumPorts, PORT_NORTH, PORT_EAST, PORT_SOUTH, PORT_WEST, PORT_LOCAL
<1>3. t \in Neighbour(u, Opposite(o))
  BY <1>1, <1>2 DEF Neighbour, PORT_NORTH, PORT_EAST, PORT_SOUTH, PORT_WEST
<1>4. ASSUME NEW w \in Neighbour(t, o) PROVE w = u
  <2>1. w \in Tile /\ TileX(w) \in Int /\ TileX(u) \in Int /\ TileY(w) \in Int /\ TileY(u) \in Int
        /\ TileX(t) \in Int /\ TileY(t) \in Int
    BY <1>1, Columns DEF Neighbour
  <2>2. TileX(w) = TileX(u) /\ TileY(w) = TileY(u)
    BY <1>1, <2>1 DEF Neighbour, PORT_NORTH, PORT_EAST, PORT_SOUTH, PORT_WEST
  <2>. QED
    BY <1>1, <2>1, <2>2, SameTile
<1>. QED
  BY <1>1, <1>2, <1>3, <1>4

\* Routing stays within the mesh: it asks for a side only where there is a
\* neighbour, and for the local port only at the destination.
LEMMA RouteStays ==
  ASSUME NEW t \in Tile, NEW d \in Tile
  PROVE  /\ Route(t, d) \in Port
         /\ Route(t, d) \in Side => Neighbour(t, Route(t, d)) # {}
         /\ Route(t, d) = PORT_LOCAL => t = d
<1>1. /\ TileX(t) \in 0 .. MeshX - 1 /\ TileY(t) \in 0 .. MeshY - 1
      /\ TileX(d) \in 0 .. MeshX - 1 /\ TileY(d) \in 0 .. MeshY - 1
      /\ MeshX \in Nat \ {0} /\ MeshY \in Nat \ {0}
  BY Columns, MeshSizes
<1>2. CASE TileX(d) > TileX(t)
  <2>1. Route(t, d) = PORT_EAST
    BY <1>1, <1>2 DEF Route
  <2>2. PICK u \in Tile : TileX(u) = TileX(t) + 1 /\ TileY(u) = TileY(t)
    BY <1>1, <1>2, TileAt
  <2>. QED
    BY <2>1, <2>2 DEF Neighbour, Port, NumPorts, PORT_EAST, PORT_LOCAL
<1>3. CASE TileX(d) < TileX(t)
  <2>1. Route(t, d) = PORT_WEST
    BY <1>1, <1>3 DEF Route
  <2>2. PICK u \in Tile : TileX(u) = TileX(t) - 1 /\ TileY(u) = TileY(t)
    BY <1>1, <1>3, TileAt
  <2>3. TileX(t) = TileX(u) + 1
    BY <1>1, <2>2
  <2>. QED
    BY <2>1, <2>2, <2>3 DEF Neighbour, Port, NumPorts, PORT_WEST, PORT_LOCAL
<1>4. CASE TileX(d) = TileX(t) /\ TileY(d) > TileY(t)
  <2>1. Route(t, d) = PORT_SOUTH
    BY <1>1, <1>4 DEF Route
  <2>2. PICK u \in Tile : TileX(u) = TileX(t) /\ TileY(u) = TileY(t) + 1
    BY <1>1, <1>4, TileAt
  <2>. QED
    BY <2>1, <2>2 DEF Neighbour, Port, NumPorts, PORT_SOUTH, PORT_LOCAL
<1>5. CASE TileX(d) = TileX(t) /\ TileY(d) < TileY(t)
  <2>1. Route(t, d) = PORT_NORTH
    BY <1>1, <1>5 DEF Route
  <2>2. PICK u \in Tile : TileX(u) = TileX(t) /\ TileY(u) = TileY(t) - 1
    BY <1>1, <1>5, TileAt
  <2>3. TileY(t) = TileY(u) + 1
    BY <1>1, <2>2
  <2>. QED
    BY <2>1, <2>2, <2>3 DEF Neighbour, Port, NumPorts, PORT_NORTH, PORT_LOCAL
<1>6. CASE TileX(d) = TileX(t) /\ TileY(d) = TileY(t)
  <2>1. Route(t, d) = PORT_LOCAL
    BY <1>1, <1>6 DEF Route
  <2>. QED
    BY <1>6, <2>1, SameTile DEF Side, Port, NumPorts, PORT_LOCAL
<1>. QED
  BY <1>1, <1>2, <1>3, <1>4, <1>5, <1>6

\* The ports are the sides and the local port.
LEMMA Sides ==
  /\ Side \subseteq Port /\ PORT_LOCAL \notin Side
  /\ \A p \in Port : p = PORT_LOCAL \/ p \in Side
BY DEF Side

---------------------------------------------------------------------------
(* A link between two routers over a clock edge *)

\* A link between two routers that are clocked together stays in order.
LEMMA LinkStep ==
  ASSUME NEW a, NEW t \in Tile, NEW fla, NEW cra, NEW ka, NEW na, NEW a2, NEW ka2, NEW na2,
         Stepped(a, t, fla, cra, ka, na, a2, ka2, na2),
         NEW b, NEW u \in Tile, NEW flb, NEW crb, NEW kb, NEW nb, NEW b2, NEW kb2, NEW nb2,
         Stepped(b, u, flb, crb, kb, nb, b2, kb2, nb2),
         NEW o \in Port, NEW q \in Port, q = Opposite(o), NEW v \in Vc,
         flb[q] = Out(a, o), cra[o] = Ret(b, q),
         Joined(a, b, o, v, ka, na, At(kb, q, v), At(nb, q, v))
  PROVE  Joined(a2, b2, o, v, ka2, na2, At(kb2, q, v), At(nb2, q, v))
<1>. DEFINE f == Out(a, o)
            k == At(kb, q, v)
            n == At(nb, q, v)
            k2 == At(kb2, q, v)
            n2 == At(nb2, q, v)
            cr == Ret(b, q)
            cr2 == Ret(b2, q)
            len == Len(Ivc(b, q, v).buf)
            len2 == Len(Ivc(b2, q, v).buf)
<1>1. /\ OutChannel(a, f, o, v, ka, na, k, n, TailBack(cr, v))
      /\ Cred(a, o, v) + One(Sends(f, v)) + len + One(Returned(cr, v)) = VcDepth
      /\ Cred(a, o, v) >= 0
  BY DEF Joined
<1>2. /\ n \in Nat /\ n2 \in Nat /\ len \in Nat /\ len2 \in Nat
      /\ len2 = len + One(Sends(f, v)) - One(Returned(cr2, v))
      /\ Came(f, v, k, n, TailBack(cr2, v), k2, n2)
  BY InputStep
<1>3. /\ Cred(a2, o, v) = Cred(a, o, v) + One(Returned(cr, v)) - One(Sends(Out(a2, o), v))
      /\ Cred(a, o, v) \in Int /\ Cred(a2, o, v) \in Int /\ Cred(a2, o, v) >= 0
      /\ Busy(a2, o, v) = (VaAsks(a, o, v) # {} \/ (Busy(a, o, v) /\ ~TailBack(cr, v)))
  BY <1>1, CreditStep
<1>4. \A y : One(Returned(y, v)) \in 0 .. 1 /\ One(Sends(y, v)) \in 0 .. 1
  BY DEF One
<1>5. OutChannel(a2, Out(a2, o), o, v, ka2, na2, k2, n2, TailBack(cr2, v))
  <2>. HIDE DEF k, n, k2, n2
  <2>1. PICK m \in Nat : m = n
    BY <1>2
  <2>2. PICK m2 \in Nat : m2 = n2
    BY <1>2
  <2>3. /\ TailBack(cr2, v) => m > 0 /\ m = k.len
        /\ k2 = Comer(f, v, k) /\ m2 = IF TailBack(cr2, v) THEN 0 ELSE Come(f, v, m)
    BY <1>2, <2>1, <2>2 DEF Came
  <2>4. TailBack(cr, v) \in BOOLEAN /\ TailBack(cr2, v) \in BOOLEAN
    BY DEF TailBack, Returned
  <2>. DEFINE tc == TailBack(cr, v)
              tc2 == TailBack(cr2, v)
  <2>5. /\ OutChannel(a, f, o, v, ka, na, k, m, tc) /\ tc \in BOOLEAN /\ tc2 \in BOOLEAN
        /\ Busy(a2, o, v) = (VaAsks(a, o, v) # {} \/ (Busy(a, o, v) /\ ~tc))
        /\ tc2 => m > 0 /\ m = k.len
        /\ k2 = Comer(f, v, k) /\ m2 = IF tc2 THEN 0 ELSE Come(f, v, m)
    BY <1>1, <1>3, <2>1, <2>3, <2>4
  <2>. HIDE DEF tc, tc2, f
  <2>6. OutChannel(a2, Out(a2, o), o, v, ka2, na2, k2, m2, tc2)
    BY <2>5, ChannelStep, SMTT(30)
  <2>. QED
    BY <2>2, <2>6 DEF tc2
<1>6. Cred(a2, o, v) + One(Sends(Out(a2, o), v)) + len2 + One(Returned(cr2, v)) = VcDepth
  <2>. HIDE DEF len, len2, cr, cr2, f
  <2>. QED
    BY <1>1, <1>2, <1>3, <1>4
<1>. QED
  BY <1>3, <1>5, <1>6 DEF Joined

\* At the edge of the mesh nothing leaves.
LEMMA EdgeStep ==
  ASSUME NEW a, NEW t \in Tile, NEW fl, NEW cr, NEW ka, NEW na, NEW a2, NEW ka2, NEW na2,
         Stepped(a, t, fl, cr, ka, na, a2, ka2, na2), NEW o \in Side, Neighbour(t, o) = {},
         fl[o] = NoFlit, cr[o] = NoCredit,
         \A v \in Vc : Cred(a, o, v) = VcDepth /\ At(na, o, v) = 0,
         \A p \in Port, v \in Vc : At(na, p, v) > 0 => At(ka, p, v) \in UNION Traffic
  PROVE  /\ Out(a2, o) = NoFlit
         /\ \A v \in Vc : Cred(a2, o, v) = VcDepth /\ At(na2, o, v) = 0
<1>1. o \in Port
  BY Sides
<1>2. Out(a2, o) = NoFlit
  <2>. SUFFICES ASSUME Out(a2, o) # NoFlit PROVE FALSE
    OBVIOUS
  <2>1. /\ o = Route(t, Out(a2, o).pkt.dst)
        /\ \E p \in Port, v \in Vc : At(na, p, v) > 0 /\ At(ka, p, v) = Out(a2, o).pkt
    BY <1>1, RoutedOut
  <2>2. Out(a2, o).pkt.dst \in Tile
    BY <2>1, MeshSizes
  <2>. QED
    BY <2>1, <2>2, RouteStays
<1>. SUFFICES ASSUME NEW v \in Vc PROVE Cred(a2, o, v) = VcDepth /\ At(na2, o, v) = 0
  BY <1>2
<1>3. ~Sends(Out(a2, o), v) /\ ~Returned(cr[o], v) /\ ~Sends(fl[o], v)
  BY <1>2, Wires
<1>4. Cred(a, o, v) = VcDepth /\ VcDepth \in Nat /\ Cred(a, o, v) >= 0
  BY Sizes
<1>5. Cred(a2, o, v) = Cred(a, o, v) + One(Returned(cr[o], v)) - One(Sends(Out(a2, o), v))
  BY <1>1, <1>4, CreditStep
<1>6. At(na2, o, v) = NextCome(a, o, v, fl[o], At(na, o, v))
  BY <1>1 DEF Stepped
<1>. QED
  BY <1>3, <1>4, <1>5, <1>6 DEF NextCome, Come, One

\* What one end of a link sends finds its place and room at the other.
LEMMA JoinedFeeds ==
  ASSUME NEW a, NEW b, NEW o \in Port, NEW q, q = Opposite(o), NEW v, NEW ka, NEW na, NEW k, NEW n,
         Joined(a, b, o, v, ka, na, k, n), Sends(Out(a, o), v),
         Cred(a, o, v) \in Int, Len(Ivc(b, q, v).buf) \in Nat
  PROVE  Follows(Out(a, o), k, n) /\ Len(Ivc(b, q, v).buf) < VcDepth
<1>1. /\ OutChannel(a, Out(a, o), o, v, ka, na, k, n, TailBack(Ret(b, q), v))
      /\ Cred(a, o, v) + One(Sends(Out(a, o), v)) + Len(Ivc(b, q, v).buf) + One(Returned(Ret(b, q), v)) = VcDepth
      /\ Cred(a, o, v) >= 0
  BY DEF Joined
<1>2. Follows(Out(a, o), k, n)
  <2>. DEFINE f == Out(a, o)
              tc == TailBack(Ret(b, q), v)
              busy == Busy(a, o, v)
  <2>1. Sends(f, v)
    OBVIOUS
  <2>2. \/ Line(f, v, k, n, NoPacket, -1, busy, tc)
        \/ \E p \in Port : Line(f, v, k, n, At(ka, p, v), At(na, p, v) - Len(Ivc(a, p, v).buf), busy, tc)
    BY <1>1 DEF OutChannel
  <2>. HIDE DEF f, tc, busy
  <2>3. Follows(f, k, n)
    BY <2>1, <2>2 DEF Line
  <2>. QED
    BY <2>3 DEF f
<1>3. One(Sends(Out(a, o), v)) = 1 /\ One(Returned(Ret(b, q), v)) \in 0 .. 1
  BY DEF One
<1>4. Len(Ivc(b, q, v).buf) < VcDepth
  <2>1. ASSUME NEW c \in Int, NEW l \in Nat, NEW w \in 0 .. 1, c >= 0, c + 1 + l + w = VcDepth
        PROVE  l < VcDepth
    BY <2>1
  <2>. QED
    BY <1>1, <1>3, <2>1
<1>. QED
  BY <1>2, <1>4

\* The local port over a clock edge.
LEMMA LocalStep ==
  ASSUME NEW a, NEW t, NEW fl, NEW cr, NEW ka, NEW na, NEW a2, NEW ka2, NEW na2,
         Stepped(a, t, fl, cr, ka, na, a2, ka2, na2), NEW v \in Vc,
         NEW h, HostOk(h), NEW x, NEW c, NEW h2,
         Cycled(h, Out(a2, PORT_LOCAL), Ret(a2, PORT_LOCAL), x, c, h2),
         NEW f, f = fl[PORT_LOCAL], NEW e, e = cr[PORT_LOCAL], LocalOk(h, f, e, a, ka, na, v)
  PROVE  LocalOk(h2, x, c, a2, ka2, na2, v)
<1>1. PORT_LOCAL \in Port
  BY Indices
<1>2. PICK y : y = Out(a2, PORT_LOCAL)
  OBVIOUS
<1>3. y \in Flit \cup {NoFlit}
  BY <1>1, <1>2, RouterStep, RouterFields
<1>4. Cycled(h, y, Ret(a2, PORT_LOCAL), x, c, h2) /\ One(Sends(y, v)) = One(Sends(Out(a2, PORT_LOCAL), v))
  BY <1>2
<1>5. Fed(h, f, a, ka, na, PORT_LOCAL, v) /\ Drained(h, e, a, PORT_LOCAL, v)
  BY DEF LocalOk
<1>6. Fed(h2, x, a2, ka2, na2, PORT_LOCAL, v)
  BY <1>1, <1>3, <1>4, <1>5, FedStep
<1>7. Drained(h2, c, a2, PORT_LOCAL, v)
  BY <1>1, <1>3, <1>4, <1>5, DrainedStep
<1>. QED
  BY <1>6, <1>7 DEF LocalOk

---------------------------------------------------------------------------
(* The mesh over a clock edge *)

FlitsAt(t) == [p \in Port |-> FlitIn(t, p)]
CreditsAt(t) == [p \in Port |-> CreditIn(t, p)]

\* What reaches a tile.
LEMMA WireIn ==
  ASSUME NEW t \in Tile
  PROVE  /\ FlitsAt(t)[PORT_LOCAL] = inject[t] /\ CreditsAt(t)[PORT_LOCAL] = eject_credit[t]
         /\ \A p \in Side : Neighbour(t, p) = {} => FlitsAt(t)[p] = NoFlit /\ CreditsAt(t)[p] = NoCredit
         /\ \A p \in Side : \A u \in Neighbour(t, p) :
              /\ FlitsAt(t)[p] = Out(rtr[u], Opposite(p))
              /\ CreditsAt(t)[p] = Ret(rtr[u], Opposite(p))
<1>1. \A p \in Port : FlitsAt(t)[p] = FlitIn(t, p) /\ CreditsAt(t)[p] = CreditIn(t, p)
  BY DEF FlitsAt, CreditsAt
<1>2. PORT_LOCAL \in Port /\ \A p \in Side : p \in Port /\ p # PORT_LOCAL
  BY Indices, Sides
<1>3. FlitIn(t, PORT_LOCAL) = inject[t] /\ CreditIn(t, PORT_LOCAL) = eject_credit[t]
  BY DEF FlitIn, CreditIn
<1>4. ASSUME NEW p \in Side, Neighbour(t, p) = {} PROVE FlitIn(t, p) = NoFlit /\ CreditIn(t, p) = NoCredit
  BY <1>2, <1>4 DEF FlitIn, CreditIn
<1>5. ASSUME NEW p \in Side, NEW u \in Neighbour(t, p)
      PROVE  FlitIn(t, p) = Out(rtr[u], Opposite(p)) /\ CreditIn(t, p) = Ret(rtr[u], Opposite(p))
  <2>1. (CHOOSE w \in Neighbour(t, p) : TRUE) = u /\ Neighbour(t, p) # {}
    BY Links
  <2>. QED
    BY <1>2, <2>1 DEF FlitIn, CreditIn, Out, Ret
<1>. QED
  BY <1>1, <1>2, <1>3, <1>4, <1>5

\* What a router is fed follows what has come.
LEMMA FeedHolds ==
  ASSUME NEW K, NEW N, MeshInv(K, N), NEW t \in Tile
  PROVE  Feed(rtr[t], t, FlitsAt(t), K[t], N[t])
<1>. DEFINE fl == FlitsAt(t)
<1>1. \A u \in Tile : TileInv(K, N, u)
  BY DEF MeshInv
<1>2. \A u \in Tile : RouterType(rtr[u])
  BY <1>1 DEF TileInv
<1>. SUFFICES ASSUME NEW p \in Port, NEW v \in Vc
              PROVE  /\ At(N[t], p, v) \in Nat /\ VcOpen(Ivc(rtr[t], p, v), t, v, At(K[t], p, v), At(N[t], p, v))
                     /\ fl[p] \in Flit \cup {NoFlit}
                     /\ Sends(fl[p], v) => /\ Follows(fl[p], At(K[t], p, v), At(N[t], p, v))
                                           /\ Len(Ivc(rtr[t], p, v).buf) < VcDepth
  BY DEF Feed
<1>3. /\ At(N[t], p, v) \in Nat /\ VcOpen(Ivc(rtr[t], p, v), t, v, At(K[t], p, v), At(N[t], p, v))
      /\ Len(Ivc(rtr[t], p, v).buf) \in Nat
  BY <1>1, <1>2, RouterFields DEF TileInv, VcRegs
<1>4. CASE p = PORT_LOCAL
  <2>1. fl[p] = inject[t]
    BY <1>4, WireIn
  <2>2. inject[t] \in Flit \cup {NoFlit} /\ HostOk(host[t]) /\ LocalOk(host[t], inject[t], eject_credit[t], rtr[t], K[t], N[t], v)
    BY <1>1 DEF TileInv
  <2>. DEFINE f == inject[t]
              l == Len(Ivc(rtr[t], p, v).buf)
              hc == HCred(host[t], v)
  <2>3. /\ Sends(f, v) => Follows(f, At(K[t], p, v), At(N[t], p, v))
        /\ hc + One(Sends(f, v)) + l = VcDepth /\ hc >= 0
    BY <1>4, <2>2 DEF LocalOk, Fed, SourceOf, Line
  <2>4. hc \in Int
    BY <2>2 DEF HostOk, HostRec, HCred
  <2>5. One(Sends(f, v)) = IF Sends(f, v) THEN 1 ELSE 0
    BY DEF One
  <2>6. l \in Nat /\ VcDepth \in Nat
    BY <1>3, Sizes
  <2>. HIDE DEF f, l, hc
  <2>7. Sends(f, v) => l < VcDepth
    <3>. SUFFICES ASSUME Sends(f, v) PROVE l < VcDepth
      OBVIOUS
    <3>1. hc + 1 + l = VcDepth /\ hc >= 0
      BY <2>3, <2>5
    <3>. QED
      BY <2>4, <2>6, <3>1
  <2>. QED
    BY <1>3, <2>1, <2>2, <2>3, <2>7 DEF f, l
<1>5. CASE p \in Side /\ Neighbour(t, p) = {}
  BY <1>3, <1>5, WireIn, Wires
<1>6. CASE p \in Side /\ Neighbour(t, p) # {}
  <2>1. PICK u \in Neighbour(t, p) : TRUE
    BY <1>6
  <2>. DEFINE o == Opposite(p)
  <2>2. /\ u \in Tile /\ t \in Neighbour(u, o) /\ o \in Side /\ Opposite(o) = p
        /\ fl[p] = Out(rtr[u], o) /\ o \in Port
    <3>1. u \in Tile /\ t \in Neighbour(u, o) /\ o \in Side /\ Opposite(o) = p
      BY <1>6, <2>1, Links
    <3>2. fl[p] = Out(rtr[u], o)
      BY <1>6, <2>1, WireIn
    <3>. QED
      BY <3>1, <3>2, Sides
  <2>3. LinkOf(K, N, u, o, t, v)
    BY <1>1, <2>2 DEF TileInv
  <2>4. Joined(rtr[u], rtr[t], o, v, K[u], N[u], At(K[t], p, v), At(N[t], p, v))
    BY <2>2, <2>3 DEF LinkOf
  <2>5. fl[p] \in Flit \cup {NoFlit} /\ Cred(rtr[u], o, v) \in Int
    BY <1>2, <2>2, RouterFields
  <2>. HIDE DEF o, fl
  <2>6. ASSUME Sends(fl[p], v)
        PROVE  /\ Follows(fl[p], At(K[t], p, v), At(N[t], p, v))
               /\ Len(Ivc(rtr[t], p, v).buf) < VcDepth
    <3>1. Sends(Out(rtr[u], o), v) /\ p = Opposite(o)
      BY <2>2, <2>6
    <3>2. /\ Follows(Out(rtr[u], o), At(K[t], p, v), At(N[t], p, v))
          /\ Len(Ivc(rtr[t], p, v).buf) < VcDepth
      BY <1>3, <2>2, <2>4, <2>5, <3>1, JoinedFeeds
    <3>. QED
      BY <2>2, <3>2
  <2>. QED
    BY <1>3, <2>5, <2>6
<1>. QED
  BY <1>4, <1>5, <1>6, Sides

\* What a clock edge does at each tile.
LEMMA TickDoes ==
  ASSUME tick
  PROVE  /\ DOMAIN host' = Tile /\ host' = [t \in Tile |-> host'[t]]
         /\ \A t \in Tile :
              /\ Edge(rtr[t], t, FlitsAt(t), CreditsAt(t), rtr'[t])
              /\ Cycled(host[t], Out(rtr'[t], PORT_LOCAL), Ret(rtr'[t], PORT_LOCAL), inject'[t], eject_credit'[t], host'[t])
<1>1. PICK g, r, seen, h :
        /\ g = [t \in Tile |-> Grants(rtr[t])] /\ r = Clocked(g) /\ seen = _sample(r)
        /\ h = [t \in Tile |-> StartPacket(seen[t])] /\ rtr' = r /\ _drive(h)
  BY DEF tick
<1>2. ASSUME NEW t \in Tile PROVE Edge(rtr[t], t, FlitsAt(t), CreditsAt(t), rtr'[t])
  <2>1. g[t] = Grants(rtr[t])
    BY <1>1
  <2>2. r[t] = Clock(rtr[t], g[t], t, FlitsAt(t), CreditsAt(t))
    BY <1>1 DEF Clocked, FlitsAt, CreditsAt
  <2>. QED
    BY <1>1, <2>1, <2>2 DEF Edge
<1>3. ASSUME NEW t \in Tile
      PROVE  h[t] = StartPacket(Sampled(host[t], Out(rtr'[t], PORT_LOCAL), Ret(rtr'[t], PORT_LOCAL)))
  <2>1. seen[t] = Sampled(host[t], Out(r[t], PORT_LOCAL), Ret(r[t], PORT_LOCAL))
    BY <1>1 DEF _sample, Out, Ret
  <2>. QED
    BY <1>1, <2>1
<1>4. /\ host' = [t \in Tile |-> Driven(h[t])]
      /\ inject' = [t \in Tile |-> FlitDriven(h[t])]
      /\ eject_credit' = [t \in Tile |-> CreditDriven(h[t])]
  BY <1>1 DEF _drive
<1>. QED
  BY <1>2, <1>3, <1>4 DEF Cycled

\* What has come by the next edge.
Later(K, N, K2, N2) ==
    \A t \in Tile, p \in Port, v \in Vc :
        /\ At(K2[t], p, v) = Comer(FlitsAt(t)[p], v, At(K[t], p, v))
        /\ At(N2[t], p, v) = NextCome(rtr[t], p, v, FlitsAt(t)[p], At(N[t], p, v))

\* A clock edge keeps the invariant.
LEMMA MeshTick ==
  ASSUME NEW K, NEW N, MeshInv(K, N), tick, NEW K2, NEW N2, Later(K, N, K2, N2)
  PROVE  MeshInv(K2, N2)'
<1>1. /\ DOMAIN host' = Tile /\ host' = [t \in Tile |-> host'[t]]
      /\ \A t \in Tile :
           /\ Edge(rtr[t], t, FlitsAt(t), CreditsAt(t), rtr'[t])
           /\ Cycled(host[t], Out(rtr'[t], PORT_LOCAL), Ret(rtr'[t], PORT_LOCAL), inject'[t], eject_credit'[t], host'[t])
  BY TickDoes
<1>2. \A t \in Tile : TileInv(K, N, t)
  BY DEF MeshInv
<1>3. \A t \in Tile : RouterType(rtr[t])
  BY <1>2 DEF TileInv
<1>4. ASSUME NEW t \in Tile
      PROVE  Stepped(rtr[t], t, FlitsAt(t), CreditsAt(t), K[t], N[t], rtr'[t], K2[t], N2[t])
  <2>1. Feed(rtr[t], t, FlitsAt(t), K[t], N[t])
    BY FeedHolds
  <2>. QED
    BY <1>1, <1>3, <2>1 DEF Stepped, Later
<1>5. SUFFICES ASSUME NEW t \in Tile PROVE TileInv(K2, N2, t)'
  BY <1>1 DEF MeshInv
<1>. DEFINE a == rtr[t]
            a2 == rtr'[t]
            fl == FlitsAt(t)
            cr == CreditsAt(t)
<1>6. Stepped(a, t, fl, cr, K[t], N[t], a2, K2[t], N2[t])
  BY <1>4
<1>7. RouterType(a2)
  BY <1>6, RouterStep
<1>8. \A p \in Port, v \in Vc : /\ At(N2[t], p, v) \in Nat
                                /\ VcOpen(Ivc(a2, p, v), t, v, At(K2[t], p, v), At(N2[t], p, v))
  <2>. SUFFICES ASSUME NEW p \in Port, NEW v \in Vc
                PROVE  At(N2[t], p, v) \in Nat /\ VcOpen(Ivc(a2, p, v), t, v, At(K2[t], p, v), At(N2[t], p, v))
    OBVIOUS
  <2>1. VcOpen(Ivc(a2, p, v), t, v, At(K2[t], p, v), At(N2[t], p, v))
    BY <1>6, SteppedVc
  <2>2. PICK f : f = fl[p]
    OBVIOUS
  <2>3. At(N2[t], p, v) \in Nat
    BY <1>6, <2>2, InputStep
  <2>. QED
    BY <2>1, <2>3
<1>9. ASSUME NEW o \in Side, Neighbour(t, o) = {}
      PROVE  /\ Out(a2, o) = NoFlit
             /\ \A v \in Vc : Cred(a2, o, v) = VcDepth /\ At(N2[t], o, v) = 0
  <2>1. fl[o] = NoFlit /\ cr[o] = NoCredit
    BY <1>9, WireIn
  <2>2. \A v \in Vc : Cred(a, o, v) = VcDepth /\ At(N[t], o, v) = 0
    BY <1>2, <1>9 DEF TileInv, EdgeOf
  <2>3. \A p \in Port, v \in Vc : At(N[t], p, v) > 0 => At(K[t], p, v) \in UNION Traffic
    BY <1>2 DEF TileInv
  <2>. QED
    BY <1>6, <1>9, <2>1, <2>2, <2>3, EdgeStep, SMTT(30)
<1>10. ASSUME NEW o \in Side, NEW u \in Neighbour(t, o), NEW v \in Vc
       PROVE  Joined(a2, rtr'[u], o, v, K2[t], N2[t], At(K2[u], Opposite(o), v), At(N2[u], Opposite(o), v))
  <2>. DEFINE q == Opposite(o)
  <2>1. u \in Tile /\ t \in Neighbour(u, q) /\ q \in Side /\ Opposite(q) = o /\ q \in Port /\ o \in Port
    BY Links, Sides
  <2>2. Stepped(rtr[u], u, FlitsAt(u), CreditsAt(u), K[u], N[u], rtr'[u], K2[u], N2[u])
    BY <1>4, <2>1
  <2>3. FlitsAt(u)[q] = Out(a, o) /\ cr[o] = Ret(rtr[u], q)
    BY <2>1, WireIn
  <2>4. LinkOf(K, N, t, o, u, v)
    BY <1>2 DEF TileInv
  <2>5. Joined(a, rtr[u], o, v, K[t], N[t], At(K[u], q, v), At(N[u], q, v))
    BY <2>4 DEF LinkOf
  <2>. HIDE DEF a, a2, fl, cr
  <2>. QED
    BY <1>6, <2>1, <2>2, <2>3, <2>5, LinkStep
<1>11. Cycled(host[t], Out(a2, PORT_LOCAL), Ret(a2, PORT_LOCAL), inject'[t], eject_credit'[t], host'[t])
  BY <1>1
<1>12. HostOk(host[t])
  BY <1>2 DEF TileInv
<1>13. /\ HostOk(host'[t]) /\ inject'[t] \in Flit \cup {NoFlit}
       /\ eject_credit'[t] \in CreditMsg \cup {NoCredit}
       /\ Carries(host'[t], UNION Traffic) /\ Generated(inject'[t])
  <2>1. Out(a2, PORT_LOCAL) \in Flit \cup {NoFlit} /\ Ret(a2, PORT_LOCAL) \in CreditMsg \cup {NoCredit}
    BY <1>7, Indices, RouterFields
  <2>2. Carries(host[t], UNION Traffic)
    BY <1>2 DEF TileInv
  <2>3. PICK S : S = UNION Traffic
    OBVIOUS
  <2>4. PICK y, r : y = Out(a2, PORT_LOCAL) /\ r = Ret(a2, PORT_LOCAL)
    OBVIOUS
  <2>5. PICK x, c, h2 : x = inject'[t] /\ c = eject_credit'[t] /\ h2 = host'[t]
    OBVIOUS
  <2>. HIDE DEF a2
  <2>6. /\ y \in Flit \cup {NoFlit} /\ r \in CreditMsg \cup {NoCredit} /\ Carries(host[t], S)
        /\ Cycled(host[t], y, r, x, c, h2)
    BY <1>11, <2>1, <2>2, <2>3, <2>4, <2>5
  <2>7. Carries(h2, S) /\ (x # NoFlit => x.pkt \in S)
    BY <1>12, <2>6, CarriesStep
  <2>8. HostOk(h2) /\ x \in Flit \cup {NoFlit} /\ c \in CreditMsg \cup {NoCredit}
    BY <1>12, <2>6, HostStep
  <2>. QED
    BY <2>3, <2>5, <2>7, <2>8 DEF Generated
<1>14. ASSUME NEW v \in Vc
       PROVE  LocalOk(host'[t], inject'[t], eject_credit'[t], a2, K2[t], N2[t], v)
  <2>1. fl[PORT_LOCAL] = inject[t] /\ cr[PORT_LOCAL] = eject_credit[t]
    BY WireIn
  <2>2. LocalOk(host[t], inject[t], eject_credit[t], a, K[t], N[t], v)
    BY <1>2 DEF TileInv
  <2>. HIDE DEF a, a2, fl, cr
  <2>. QED
    BY <1>6, <1>11, <1>12, <2>1, <2>2, LocalStep
<1>15. ASSUME NEW o \in Port, Out(a2, o) # NoFlit
       PROVE  o = Route(t, Out(a2, o).pkt.dst) /\ Out(a2, o).pkt \in UNION Traffic
  <2>1. /\ o = Route(t, Out(a2, o).pkt.dst)
        /\ \E p \in Port, v \in Vc : At(N[t], p, v) > 0 /\ At(K[t], p, v) = Out(a2, o).pkt
    BY <1>6, <1>15, RoutedOut
  <2>2. \A p \in Port, v \in Vc : At(N[t], p, v) > 0 => At(K[t], p, v) \in UNION Traffic
    BY <1>2 DEF TileInv
  <2>. QED
    BY <2>1, <2>2
<1>16. Out(a2, PORT_LOCAL) # NoFlit => Out(a2, PORT_LOCAL).pkt.dst = t
  <2>. SUFFICES ASSUME Out(a2, PORT_LOCAL) # NoFlit PROVE Out(a2, PORT_LOCAL).pkt.dst = t
    OBVIOUS
  <2>1. PORT_LOCAL \in Port
    BY Indices
  <2>2. PORT_LOCAL = Route(t, Out(a2, PORT_LOCAL).pkt.dst) /\ Out(a2, PORT_LOCAL).pkt.dst \in Tile
    BY <1>15, <2>1, MeshSizes
  <2>. QED
    BY <2>2, RouteStays
<1>18. \A o \in Port : Generated(Out(a2, o))
  BY <1>15 DEF Generated
<1>19. ASSUME NEW p \in Port, NEW v \in Vc, At(N2[t], p, v) > 0
       PROVE  At(K2[t], p, v) \in UNION Traffic
  <2>1. At(N[t], p, v) \in Nat /\ (At(N[t], p, v) > 0 => At(K[t], p, v) \in UNION Traffic)
    BY <1>2 DEF TileInv
  <2>2. Generated(fl[p])
    <3>1. CASE p = PORT_LOCAL
      BY <1>2, <3>1, WireIn DEF TileInv
    <3>2. CASE p \in Side /\ Neighbour(t, p) = {}
      BY <3>2, WireIn DEF Generated
    <3>3. CASE p \in Side /\ Neighbour(t, p) # {}
      <4>1. PICK u \in Neighbour(t, p) : TRUE
        BY <3>3
      <4>2. u \in Tile /\ Opposite(p) \in Port /\ fl[p] = Out(rtr[u], Opposite(p))
        BY <3>3, <4>1, Links, Sides, WireIn
      <4>. QED
        BY <1>2, <4>2 DEF TileInv
    <3>. QED
      BY <3>1, <3>2, <3>3, Sides
  <2>3. At(K2[t], p, v) = Comer(fl[p], v, At(K[t], p, v)) /\ At(N2[t], p, v) = NextCome(a, p, v, fl[p], At(N[t], p, v))
    BY <1>6 DEF Stepped
  <2>. HIDE DEF fl, a
  <2>4. CASE Sends(fl[p], v)
    BY <2>2, <2>3, <2>4 DEF Sends, Generated, Comer
  <2>5. CASE ~Sends(fl[p], v)
    BY <1>19, <2>1, <2>3, <2>5 DEF Comer, NextCome, Come, One
  <2>. QED
    BY <2>4, <2>5
<1>17. \A o \in Side : IF Neighbour(t, o) = {} THEN EdgeOf(N2, t, o)'
                       ELSE \A u \in Neighbour(t, o), v \in Vc : LinkOf(K2, N2, t, o, u, v)'
  BY <1>9, <1>10 DEF EdgeOf, LinkOf
<1>. QED
  BY <1>7, <1>8, <1>13, <1>14, <1>16, <1>17, <1>18, <1>19 DEF TileInv

\* The invariant holds after reset.
LEMMA MeshInit ==
  ASSUME Init, NEW K, NEW N,
         \A t \in Tile, p \in Port, v \in Vc : At(K[t], p, v) = NoPacket /\ At(N[t], p, v) = 0
  PROVE  MeshInv(K, N)
<1>1. \A t \in Tile : /\ rtr[t] = ResetRouter /\ host[t] = NewHost
                      /\ inject[t] = NoFlit /\ eject_credit[t] = NoCredit
  BY DEF Init
<1>2. DOMAIN host = Tile /\ host = [t \in Tile |-> host[t]]
  BY DEF Init
<1>3. IdleVc.st = "IDLE" /\ Len(IdleVc.buf) = 0
  BY DEF IdleVc
<1>4. VcDepth \in Nat
  BY Sizes
<1>5. \A v : ~Sends(NoFlit, v) /\ ~Returned(NoCredit, v) /\ ~TailBack(NoCredit, v)
  BY Wires DEF TailBack
<1>. SUFFICES ASSUME NEW t \in Tile PROVE TileInv(K, N, t)
  BY <1>2 DEF MeshInv
<1>6. ASSUME NEW p \in Port, NEW v \in Vc
      PROVE  At(N[t], p, v) \in Nat /\ VcOpen(Ivc(rtr[t], p, v), t, v, At(K[t], p, v), At(N[t], p, v))
  <2>1. Ivc(rtr[t], p, v) = IdleVc /\ At(N[t], p, v) = 0
    BY <1>1, ResetFields
  <2>. QED
    BY <1>3, <2>1, OpenForNone
<1>7. ASSUME NEW o \in Side, Neighbour(t, o) = {} PROVE EdgeOf(N, t, o)
  BY <1>1, ResetFields, Sides DEF EdgeOf
<1>9. ASSUME NEW o \in Side, NEW u \in Neighbour(t, o), NEW v \in Vc PROVE LinkOf(K, N, t, o, u, v)
  <2>. DEFINE q == Opposite(o)
              a == rtr[t]
              b == rtr[u]
  <2>1. u \in Tile /\ q \in Port /\ o \in Port
    BY Links, Sides
  <2>2. /\ a = ResetRouter /\ b = ResetRouter
        /\ At(K[u], q, v) = NoPacket /\ At(N[u], q, v) = 0
    BY <1>1, <2>1
  <2>3. /\ Out(a, o) = NoFlit /\ Ret(b, q) = NoCredit /\ Ivc(b, q, v) = IdleVc
        /\ Cred(a, o, v) = VcDepth /\ ~Busy(a, o, v)
        /\ \A p \in Port : Ivc(a, p, v) = IdleVc
    BY <2>1, <2>2, ResetFields
  <2>6. OutChannel(a, NoFlit, o, v, K[t], N[t], NoPacket, 0, TailBack(NoCredit, v))
    BY <1>5, <2>1, <2>2, OutReset
  <2>. HIDE DEF a, b, q
  <2>7. Cred(a, o, v) + One(Sends(Out(a, o), v)) + Len(Ivc(b, q, v).buf) + One(Returned(Ret(b, q), v)) = VcDepth
        /\ Cred(a, o, v) >= 0
    <3>1. One(Sends(Out(a, o), v)) = 0
      BY <1>5, <2>3 DEF One
    <3>2. One(Returned(Ret(b, q), v)) = 0
      BY <1>5, <2>3 DEF One
    <3>3. Len(Ivc(b, q, v).buf) = 0
      BY <1>3, <2>3
    <3>. QED
      BY <1>4, <2>3, <3>1, <3>2, <3>3
  <2>8. Joined(a, b, o, v, K[t], N[t], At(K[u], q, v), At(N[u], q, v))
    BY <2>2, <2>3, <2>6, <2>7 DEF Joined, q
  <2>. QED
    BY <2>8 DEF LinkOf, a, b, q
<1>10. ASSUME NEW v \in Vc PROVE LocalOk(host[t], inject[t], eject_credit[t], rtr[t], K[t], N[t], v)
  <2>1. PORT_LOCAL \in Port
    BY Indices
  <2>2. /\ Fed(NewHost, NoFlit, ResetRouter, K[t], N[t], PORT_LOCAL, v)
        /\ Drained(NewHost, NoCredit, ResetRouter, PORT_LOCAL, v)
    BY <2>1, PortReset
  <2>. QED
    BY <1>1, <2>2 DEF LocalOk
<1>11. RouterType(rtr[t]) /\ HostOk(host[t])
  BY <1>1, ResetType, NewHostOk
<1>12. Out(rtr[t], PORT_LOCAL) = NoFlit
  BY <1>1, ResetFields, Indices
<1>13. inject[t] \in Flit \cup {NoFlit} /\ eject_credit[t] \in CreditMsg \cup {NoCredit}
  BY <1>1
<1>14. Carries(host[t], UNION Traffic) /\ Generated(inject[t]) /\ \A o \in Port : Generated(Out(rtr[t], o))
  <2>1. host[t].pending = <<>> /\ host[t].in_flight = NoPacket
    BY <1>1 DEF NewHost
  <2>2. \A o \in Port : Out(rtr[t], o) = NoFlit
    BY <1>1, ResetFields
  <2>. QED
    BY <1>1, <2>1, <2>2 DEF Carries, Generated
<1>. QED
  BY <1>6, <1>7, <1>9, <1>10, <1>11, <1>12, <1>13, <1>14 DEF TileInv

\* A packet is queued.
LEMMA MeshQueued ==
  ASSUME NEW K, NEW N, MeshInv(K, N), NEW k \in UNION Traffic, generate(k)
  PROVE  MeshInv(K, N)'
<1>1. /\ rtr' = rtr /\ inject' = inject /\ eject_credit' = eject_credit
      /\ host' = [host EXCEPT ![k.src].pending = Append(@, k)]
  BY DEF generate
<1>2. /\ DOMAIN host = Tile /\ host = [t \in Tile |-> host[t]]
      /\ \A t \in Tile : TileInv(K, N, t)
  BY DEF MeshInv
<1>3. k.src \in Tile /\ k \in Packets
  BY MeshSizes
<1>4. DOMAIN host' = Tile /\ host' = [t \in Tile |-> host'[t]]
  BY <1>1, <1>2
<1>5. ASSUME NEW t \in Tile
      PROVE  /\ HostOk(host'[t]) /\ Carries(host'[t], UNION Traffic)
             /\ \A v \in Vc : LocalOk(host'[t], inject[t], eject_credit[t], rtr[t], K[t], N[t], v)
  <2>1. /\ HostOk(host[t]) /\ Carries(host[t], UNION Traffic)
        /\ \A v \in Vc : LocalOk(host[t], inject[t], eject_credit[t], rtr[t], K[t], N[t], v)
    BY <1>2 DEF TileInv
  <2>2. CASE t # k.src
    <3>1. host'[t] = host[t]
      BY <1>1, <1>2, <1>3, <2>2
    <3>. QED
      BY <2>1, <3>1
  <2>3. CASE t = k.src
    <3>1. Queued(host[t], k, host'[t])
      BY <1>1, <1>2, <1>3, <2>3 DEF Queued
    <3>2. PICK h, h2 : h = host[t] /\ h2 = host'[t]
      OBVIOUS
    <3>3. HostOk(h) /\ Queued(h, k, h2)
      BY <2>1, <3>1, <3>2
    <3>4. /\ HostOk(h2) /\ h2.in_flight = h.in_flight /\ h2.pending = Append(h.pending, k)
          /\ \A x, a, ka, na, p, v : Fed(h, x, a, ka, na, p, v) => Fed(h2, x, a, ka, na, p, v)
          /\ \A e, a, p, v : Drained(h, e, a, p, v) => Drained(h2, e, a, p, v)
      BY <1>3, <3>3, QueuedStep
    <3>5. \A v \in Vc : LocalOk(host'[t], inject[t], eject_credit[t], rtr[t], K[t], N[t], v)
      BY <2>1, <3>2, <3>4 DEF LocalOk
    <3>6. Carries(host'[t], UNION Traffic)
      BY <2>1, <3>2, <3>4 DEF Carries
    <3>. QED
      BY <3>2, <3>4, <3>5, <3>6
  <2>. QED
    BY <2>2, <2>3
<1>6. ASSUME NEW t \in Tile PROVE TileInv(K, N, t)'
  <2>1. TileInv(K, N, t)
    BY <1>2
  <2>2. /\ RouterType(rtr[t]) /\ HostOk(host'[t])
        /\ inject[t] \in Flit \cup {NoFlit} /\ eject_credit[t] \in CreditMsg \cup {NoCredit}
        /\ \A p \in Port, v \in Vc : /\ At(N[t], p, v) \in Nat
                                     /\ VcOpen(Ivc(rtr[t], p, v), t, v, At(K[t], p, v), At(N[t], p, v))
        /\ Out(rtr[t], PORT_LOCAL) # NoFlit => Out(rtr[t], PORT_LOCAL).pkt.dst = t
    BY <1>5, <2>1 DEF TileInv
  <2>3. \A o \in Side : IF Neighbour(t, o) = {} THEN EdgeOf(N, t, o)'
                        ELSE \A u \in Neighbour(t, o), v \in Vc : LinkOf(K, N, t, o, u, v)'
    BY <1>1, <2>1 DEF TileInv, EdgeOf, LinkOf
  <2>4. /\ Carries(host'[t], UNION Traffic) /\ Generated(inject[t]) /\ \A o \in Port : Generated(Out(rtr[t], o))
        /\ \A p \in Port, v \in Vc : At(N[t], p, v) > 0 => At(K[t], p, v) \in UNION Traffic
    BY <1>5, <2>1 DEF TileInv
  <2>. QED
    BY <1>1, <1>5, <2>2, <2>3, <2>4 DEF TileInv
<1>. QED
  BY <1>4, <1>6 DEF MeshInv

\* Nothing changes.
LEMMA MeshStays ==
  ASSUME NEW K, NEW N, MeshInv(K, N), UNCHANGED vars
  PROVE  MeshInv(K, N)'
<1>1. rtr' = rtr /\ host' = host /\ inject' = inject /\ eject_credit' = eject_credit
  BY DEF vars
<1>2. ASSUME NEW t \in Tile PROVE TileInv(K, N, t)'
  <2>1. TileInv(K, N, t)
    BY DEF MeshInv
  <2>2. \A o \in Side : IF Neighbour(t, o) = {} THEN EdgeOf(N, t, o)'
                        ELSE \A u \in Neighbour(t, o), v \in Vc : LinkOf(K, N, t, o, u, v)'
    BY <1>1, <2>1 DEF TileInv, EdgeOf, LinkOf
  <2>. QED
    BY <1>1, <2>1, <2>2 DEF TileInv
<1>. QED
  BY <1>1, <1>2 DEF MeshInv

---------------------------------------------------------------------------
(* The mesh: the invariant, and what follows from it *)

IInv == \E K, N : MeshInv(K, N)

NonePackets == [t \in Tile |-> [p \in Port |-> [v \in Vc |-> NoPacket]]]
NoneCome == [t \in Tile |-> [p \in Port |-> [v \in Vc |-> 0]]]

\* The invariant holds at first, and every step keeps it.
LEMMA InitInv == Init => IInv
<1>. SUFFICES ASSUME Init PROVE IInv
  OBVIOUS
<1>1. PICK K : K = NonePackets
  OBVIOUS
<1>2. PICK N : N = NoneCome
  OBVIOUS
<1>3. ASSUME NEW t \in Tile, NEW p \in Port, NEW v \in Vc
      PROVE  At(K[t], p, v) = NoPacket /\ At(N[t], p, v) = 0
  BY <1>1, <1>2 DEF NonePackets, NoneCome, At
<1>4. MeshInv(K, N)
  BY <1>3, MeshInit
<1>. QED
  BY <1>4 DEF IInv

\* What has come by the next edge can be named.
LEMMA LaterExists ==
  ASSUME NEW K, NEW N
  PROVE  \E K2, N2 : Later(K, N, K2, N2)
<1>1. PICK K2 : K2 = [t \in Tile |-> [p \in Port |-> [v \in Vc |-> Comer(FlitsAt(t)[p], v, At(K[t], p, v))]]]
  OBVIOUS
<1>2. PICK N2 : N2 = [t \in Tile |-> [p \in Port |-> [v \in Vc |->
                        NextCome(rtr[t], p, v, FlitsAt(t)[p], At(N[t], p, v))]]]
  OBVIOUS
<1>3. ASSUME NEW t \in Tile, NEW p \in Port, NEW v \in Vc
      PROVE  /\ At(K2[t], p, v) = Comer(FlitsAt(t)[p], v, At(K[t], p, v))
             /\ At(N2[t], p, v) = NextCome(rtr[t], p, v, FlitsAt(t)[p], At(N[t], p, v))
  <2>1. At(K2[t], p, v) = K2[t][p][v] /\ At(N2[t], p, v) = N2[t][p][v]
    BY DEF At
  <2>. QED
    BY <1>1, <1>2, <2>1
<1>. QED
  BY <1>3 DEF Later

\* One case per disjunct of Next, and the stutter.
LEMMA NextInv == IInv /\ [Next]_vars => IInv'
<1>. SUFFICES ASSUME IInv, [Next]_vars PROVE IInv'
  OBVIOUS
<1>1. PICK K, N : MeshInv(K, N)
  BY DEF IInv
<1>2. CASE tick
  <2>1. PICK K2, N2 : Later(K, N, K2, N2)
    BY LaterExists
  <2>2. MeshInv(K2, N2)'
    BY <1>1, <1>2, <2>1, MeshTick
  <2>. QED
    BY <2>2 DEF IInv
<1>3. ASSUME NEW k \in UNION Traffic, generate(k) PROVE IInv'
  <2>1. MeshInv(K, N)'
    BY <1>1, <1>3, MeshQueued
  <2>. QED
    BY <2>1 DEF IInv
<1>4. CASE UNCHANGED vars
  <2>1. MeshInv(K, N)'
    BY <1>1, <1>4, MeshStays
  <2>. QED
    BY <2>1 DEF IInv
<1>. QED
  BY <1>2, <1>3, <1>4 DEF Next

\* A buffer holds no more than its channel has credits for.
LEMMA InvType ==
  ASSUME NEW K, NEW N, MeshInv(K, N)
  PROVE  TypeOK
<1>1. \A t \in Tile : TileInv(K, N, t)
  BY DEF MeshInv
<1>2. \A t \in Tile : RouterType(rtr[t])
  BY <1>1 DEF TileInv
<1>3. VcDepth \in Nat
  BY Sizes
<1>4. \A b : One(b) \in 0 .. 1
  BY DEF One
<1>. SUFFICES ASSUME NEW t \in Tile, NEW p \in Port, NEW v \in Vc
              PROVE  /\ Cred(rtr[t], p, v) \in 0 .. VcDepth
                     /\ Len(Ivc(rtr[t], p, v).buf) \in 0 .. VcDepth
                     /\ rtr[t].va1[p] \in Vc /\ rtr[t].sa1[p] \in Vc
                     /\ rtr[t].sa2[p] \in Port /\ rtr[t].va2[p][v] \in Port
  BY DEF TypeOK, Cred, Ivc
<1>5. /\ rtr[t].va1[p] \in Vc /\ rtr[t].sa1[p] \in Vc
      /\ rtr[t].sa2[p] \in Port /\ rtr[t].va2[p][v] \in Port
  BY <1>2, PointersHold DEF Va1, Va2, Sa1, Sa2
<1>6. ASSUME NEW u \in Tile, NEW q \in Port
      PROVE  Cred(rtr[u], q, v) \in Int /\ Len(Ivc(rtr[u], q, v).buf) \in Nat
  BY <1>2, RouterFields DEF VcRegs
<1>7. CASE p = PORT_LOCAL
  <2>. DEFINE h == host[t]
              l == Len(Ivc(rtr[t], p, v).buf)
              c == Cred(rtr[t], p, v)
              o1 == One(Sends(inject[t], v))
              o2 == One(Returned(eject_credit[t], v))
              hc == HCred(h, v)
              qc == CreditsIn(h.credit_q, v)
  <2>1. HostOk(h) /\ LocalOk(h, inject[t], eject_credit[t], rtr[t], K[t], N[t], v)
    BY <1>1 DEF TileInv
  <2>2. hc + o1 + l = VcDepth /\ hc >= 0 /\ c + qc + o2 = VcDepth /\ c >= 0
    BY <1>7, <2>1 DEF LocalOk, Fed, Drained
  <2>3. hc \in Int
    BY <2>1 DEF HostOk, HostRec, HCred
  <2>4. qc \in Nat
    BY <2>1, CreditQueuedNat DEF HostOk, HostRec
  <2>5. l \in Nat /\ c \in Int
    BY <1>6
  <2>6. o1 \in 0 .. 1 /\ o2 \in 0 .. 1
    BY <1>4
  <2>. HIDE DEF h, l, c, o1, o2, hc, qc
  <2>7. c \in 0 .. VcDepth /\ l \in 0 .. VcDepth
    BY <1>3, <2>2, <2>3, <2>4, <2>5, <2>6
  <2>. QED
    BY <1>5, <2>7 DEF c, l
<1>8. CASE p \in Side /\ Neighbour(t, p) = {}
  <2>1. Cred(rtr[t], p, v) = VcDepth /\ At(N[t], p, v) = 0
    BY <1>1, <1>8 DEF TileInv, EdgeOf
  <2>2. VcOpen(Ivc(rtr[t], p, v), t, v, At(K[t], p, v), At(N[t], p, v))
    BY <1>1 DEF TileInv
  <2>3. Len(Ivc(rtr[t], p, v).buf) <= 0
    BY <2>1, <2>2 DEF VcOpen
  <2>. QED
    BY <1>3, <1>5, <1>6, <2>1, <2>3
<1>9. CASE p \in Side /\ Neighbour(t, p) # {}
  <2>1. PICK u \in Neighbour(t, p) : TRUE
    BY <1>9
  <2>. DEFINE q == Opposite(p)
  <2>2. u \in Tile /\ q \in Side /\ q \in Port /\ Opposite(q) = p /\ t \in Neighbour(u, q)
    BY <1>9, <2>1, Links, Sides
  <2>3. LinkOf(K, N, t, p, u, v)
    BY <1>1, <1>9, <2>1 DEF TileInv
  <2>4. LinkOf(K, N, u, q, t, v)
    BY <1>1, <2>2 DEF TileInv
  <2>5. /\ Cred(rtr[t], p, v) + One(Sends(Out(rtr[t], p), v)) + Len(Ivc(rtr[u], q, v).buf)
             + One(Returned(Ret(rtr[u], q), v)) = VcDepth
        /\ Cred(rtr[t], p, v) >= 0
    BY <2>3 DEF LinkOf, Joined
  <2>6. /\ Cred(rtr[u], q, v) + One(Sends(Out(rtr[u], q), v)) + Len(Ivc(rtr[t], p, v).buf)
             + One(Returned(Ret(rtr[t], p), v)) = VcDepth
        /\ Cred(rtr[u], q, v) >= 0
    BY <2>2, <2>4 DEF LinkOf, Joined
  <2>. HIDE DEF q
  <2>7. Cred(rtr[t], p, v) \in 0 .. VcDepth
    BY <1>3, <1>4, <1>6, <2>2, <2>5
  <2>8. Len(Ivc(rtr[t], p, v).buf) \in 0 .. VcDepth
    BY <1>3, <1>4, <1>6, <2>2, <2>6
  <2>. QED
    BY <1>5, <2>7, <2>8
<1>. QED
  BY <1>7, <1>8, <1>9, Sides

\* A link holds the credits its sender has given up.
LEMMA InvCredits ==
  ASSUME NEW K, NEW N, MeshInv(K, N)
  PROVE  LinkCreditsConserved
<1>. SUFFICES ASSUME NEW t \in Tile, NEW p \in Side, NEW v \in Vc, NEW u \in Neighbour(t, p)
              PROVE  Cred(rtr[t], p, v) + One(Sends(Out(rtr[t], p), v)) + Len(Ivc(rtr[u], Opposite(p), v).buf)
                       + One(Returned(Ret(rtr[u], Opposite(p)), v)) = VcDepth
  BY DEF LinkCreditsConserved, Cred, Out, Ivc, Ret
<1>1. LinkOf(K, N, t, p, u, v)
  BY DEF MeshInv, TileInv
<1>. QED
  BY <1>1 DEF LinkOf, Joined

\* A head comes where nothing has.
LEMMA InvHead ==
  ASSUME NEW K, NEW N, MeshInv(K, N)
  PROVE  HeadFindsIdleVc
<1>. SUFFICES ASSUME NEW t \in Tile, NEW p \in Port, FlitIn(t, p) # NoFlit, IsHead(FlitIn(t, p))
              PROVE  /\ Ivc(rtr[t], p, FlitIn(t, p).vc).st = "IDLE"
                     /\ Ivc(rtr[t], p, FlitIn(t, p).vc).buf = <<>>
  BY DEF HeadFindsIdleVc, Ivc
<1>1. PICK f : f = FlitIn(t, p)
  OBVIOUS
<1>2. PICK v : v = f.vc
  OBVIOUS
<1>3. FlitsAt(t)[p] = f
  BY <1>1 DEF FlitsAt
<1>4. Feed(rtr[t], t, FlitsAt(t), K[t], N[t])
  BY FeedHolds
<1>5. f \in Flit
  <2>1. 0 \in Vc
    BY Sizes, Indices
  <2>. QED
    BY <1>1, <1>3, <1>4, <2>1 DEF Feed
<1>6. v \in Vc /\ Sends(f, v) /\ f.i = 1
  BY <1>1, <1>2, <1>5 DEF Flit, Sends, IsHead
<1>7. /\ At(N[t], p, v) \in Nat /\ Follows(f, At(K[t], p, v), At(N[t], p, v))
      /\ VcOpen(Ivc(rtr[t], p, v), t, v, At(K[t], p, v), At(N[t], p, v))
  BY <1>3, <1>4, <1>6 DEF Feed
<1>8. At(N[t], p, v) = 0
  BY <1>6, <1>7 DEF Follows
<1>9. Ivc(rtr[t], p, v).st = "IDLE" /\ Len(Ivc(rtr[t], p, v).buf) <= 0
  BY <1>7, <1>8 DEF VcOpen
<1>10. Ivc(rtr[t], p, v).buf \in Seq(Flit)
  BY <1>6, RouterFields DEF MeshInv, TileInv, VcRegs
<1>11. Ivc(rtr[t], p, v).buf = <<>>
  BY <1>9, <1>10
<1>. QED
  BY <1>1, <1>2, <1>9, <1>11

\* Nothing leaves where it should not.
LEMMA InvEscape ==
  ASSUME NEW K, NEW N, MeshInv(K, N)
  PROVE  NoEscape
<1>. SUFFICES ASSUME NEW t \in Tile
              PROVE  /\ \A p \in Side : Neighbour(t, p) = {} => Out(rtr[t], p) = NoFlit
                     /\ Out(rtr[t], PORT_LOCAL) # NoFlit => Out(rtr[t], PORT_LOCAL).pkt.dst = t
  BY DEF NoEscape, Out
<1>. QED
  BY DEF MeshInv, TileInv, EdgeOf

\* Packets that are shorter than a buffer, as those of the protocol are: a line is a head
\* and two flits, and a buffer has four slots (coh_pkg.sv).
ShortPackets == \A k \in UNION Traffic : k.len < VcDepth

\* A buffer holds flits of one packet.
LEMMA InvNeverFull ==
  ASSUME ShortPackets, NEW K, NEW N, MeshInv(K, N)
  PROVE  NeverFull
<1>. SUFFICES ASSUME NEW t \in Tile, NEW p \in Port, NEW v \in Vc
              PROVE  Len(Ivc(rtr[t], p, v).buf) < VcDepth
  BY DEF NeverFull, Ivc
<1>. DEFINE l == Len(Ivc(rtr[t], p, v).buf)
            k == At(K[t], p, v)
            n == At(N[t], p, v)
<1>1. n \in Nat /\ VcOpen(Ivc(rtr[t], p, v), t, v, k, n) /\ (n > 0 => k \in UNION Traffic)
  BY DEF MeshInv, TileInv
<1>2. l \in Nat
  BY RouterFields DEF MeshInv, TileInv, VcRegs
<1>3. l <= n /\ (n > 0 => k \in Packets /\ n <= k.len)
  BY <1>1 DEF VcOpen
<1>. HIDE DEF l, k, n
<1>4. n > 0 => k.len \in Nat /\ k.len < VcDepth
  BY <1>1, <1>3, PacketFacts DEF ShortPackets
<1>5. VcDepth \in Nat /\ VcDepth > 0
  BY Sizes
<1>6. l < VcDepth
  BY <1>1, <1>2, <1>3, <1>4, <1>5
<1>. QED
  BY <1>6 DEF l

\* On every mesh, whatever the packets: a link conserves its credits, so that no
\* buffer overflows; a head finds its VC idle and empty; and no flit leaves at an
\* edge or at a tile it is not for.
THEOREM MeshKeepsItsLinks == Spec => [](TypeOK /\ LinkCreditsConserved /\ HeadFindsIdleVc /\ NoEscape)
<1>1. IInv => TypeOK /\ LinkCreditsConserved /\ HeadFindsIdleVc /\ NoEscape
  BY InvType, InvCredits, InvHead, InvEscape DEF IInv
<1>. QED
  BY <1>1, InitInv, NextInv, PTL DEF Spec

\* When packets are shorter than a buffer, no buffer of a mesh ever fills either, as
\* tb/models/coverage.py claims of them.
THEOREM MeshSafeAlways ==
  ASSUME ShortPackets
  PROVE  Spec => []MeshSafe
<1>1. IInv => MeshSafe
  BY InvType, InvCredits, InvHead, InvEscape, InvNeverFull DEF IInv, MeshSafe
<1>. QED
  BY <1>1, InitInv, NextInv, PTL DEF Spec

---------------------------------------------------------------------------
(* The invariant of the single router *)

\* Of packet k, n flits have come on channel v: s, all that has come, ends there with the
\* last of them, or with a tail when the packet has come whole or none is coming.
LastCame(s, v, k, n) ==
    IF n > 0 /\ n # k.len THEN \E m \in LastOn(s, Len(s), v) : s[m].pkt = k /\ s[m].i = n
    ELSE \A m \in LastOn(s, Len(s), v) : IsTail(s[m])

Whole(s) == \A n \in 1 .. Len(s) : GoesOn(s, n - 1, s[n])

\* Input VC v of port p of router a, of which ka and na say what has come, with the harness
\* h at the port, f on its wire in and e on its wire back: the harness reads all that leaves
\* by the port, or nothing of a virtual network that is stalled.
InputOk(a, ka, na, h, f, e, p, v) ==
    /\ At(na, p, v) \in Nat /\ VcOpen(Ivc(a, p, v), Me, v, At(ka, p, v), At(na, p, v))
    /\ Fed(h, f, a, ka, na, p, v)
    /\ IF VnetOf(v) \in StalledVnets THEN Shut(h, e, a, p, v) ELSE Drained(h, e, a, p, v)

\* Channel v of output p: the harness, of which q is the queue of credits and e the credit
\* on its wire, has n flits of packet k, and s is all that it has taken.
OutputOk(a, ka, na, q, e, s, p, v, k, n) ==
    /\ n \in Nat /\ OutChannel(a, NoFlit, p, v, ka, na, k, n, TailBack(e, v))
    /\ QueueOk(q, v, k, n) /\ LastCame(s, v, k, n)

PortOk(a, ka, na, ks, ns, h, f, e, s, p) ==
    /\ HostOk(h) /\ f \in Flit \cup {NoFlit} /\ e \in CreditMsg \cup {NoCredit}
    /\ Out(a, p) # NoFlit => Out(a, p).i <= Out(a, p).pkt.len
    /\ s \in Seq(Flit) /\ Whole(s)
    /\ \A v \in Vc : InputOk(a, ka, na, h, f, e, p, v)
    /\ \A v \in Vc : OutputOk(a, ka, na, h.credit_q, e, s, p, v, At(ks, p, v), At(ns, p, v))

RouterInv(K, N, KS, NS) ==
    /\ RouterType(router) /\ DOMAIN ports = Port /\ ports = [p \in Port |-> ports[p]]
    /\ \A p \in Port : PortOk(router, K, N, KS, NS, ports[p], flit_i[p], credit_i[p], received[p], p)

---------------------------------------------------------------------------
(* What has come out of an output *)

\* x is added to s, of which l is the length: to the last flits of channel v.
AddedLast(s, l, x, v, s2) ==
    /\ l \in Nat /\ Len(s2) = l + 1 /\ s2[l + 1] = x /\ \A m \in 1 .. l : s2[m] = s[m]
    /\ \A m, j \in LastOn(s, l, v) : m = j
    /\ \A n \in 0 .. l : LastOn(s2, n, v) = LastOn(s, n, v) /\ LastOn(s, n, v) \subseteq 1 .. l
    /\ LastOn(s2, l + 1, v) = IF x.vc = v THEN {l + 1} ELSE LastOn(s, l, v)

\* The last flit of a channel is one, and a flit more makes it that flit or leaves it.
LEMMA LastFacts ==
  ASSUME NEW s \in Seq(Flit), NEW x \in Flit, NEW v, NEW s2, s2 = Append(s, x)
  PROVE  AddedLast(s, Len(s), x, v, s2)
<1>1. Len(s) \in Nat /\ Len(s2) = Len(s) + 1 /\ s2[Len(s2)] = x /\ \A m \in 1 .. Len(s) : s2[m] = s[m]
  OBVIOUS
<1>2. ASSUME NEW n \in 0 .. Len(s) PROVE LastOn(s2, n, v) = LastOn(s, n, v) /\ LastOn(s, n, v) \subseteq 1 .. Len(s)
  <2>1. 1 .. n \subseteq 1 .. Len(s) /\ \A m \in 1 .. n : m + 1 .. n \subseteq 1 .. Len(s)
    BY <1>1
  <2>. QED
    BY <1>1, <2>1 DEF LastOn
<1>3. ASSUME NEW m \in LastOn(s, Len(s), v), NEW j \in LastOn(s, Len(s), v) PROVE m = j
  <2>1. m \in 1 .. Len(s) /\ j \in 1 .. Len(s) /\ s[m].vc = v /\ s[j].vc = v
        /\ (\A i \in m + 1 .. Len(s) : s[i].vc # v) /\ (\A i \in j + 1 .. Len(s) : s[i].vc # v)
    BY DEF LastOn
  <2>2. ~(m < j) /\ ~(j < m)
    BY <1>1, <2>1
  <2>. QED
    BY <1>1, <2>1, <2>2
<1>4. CASE x.vc = v
  <2>1. ASSUME NEW m \in 1 .. Len(s) PROVE Len(s2) \in m + 1 .. Len(s2)
    BY <1>1
  <2>2. \A m \in LastOn(s2, Len(s2), v) : m = Len(s2)
    BY <1>1, <1>4, <2>1 DEF LastOn
  <2>3. Len(s2) \in LastOn(s2, Len(s2), v)
    BY <1>1, <1>4 DEF LastOn
  <2>. QED
    BY <1>1, <1>2, <1>3, <1>4, <2>2, <2>3 DEF AddedLast
<1>5. CASE x.vc # v
  <2>1. ASSUME NEW m PROVE m \in LastOn(s2, Len(s2), v) <=> m \in LastOn(s, Len(s), v)
    <3>1. m \in LastOn(s2, Len(s2), v) => m \in 1 .. Len(s) /\ s2[m].vc = v
      BY <1>1, <1>5 DEF LastOn
    <3>2. m \in LastOn(s, Len(s), v) => m \in 1 .. Len(s) /\ s[m].vc = v
      BY DEF LastOn
    <3>3. ASSUME m \in 1 .. Len(s)
          PROVE  (\A i \in m + 1 .. Len(s2) : s2[i].vc # v) <=> (\A i \in m + 1 .. Len(s) : s[i].vc # v)
      BY <1>1, <1>5, <3>3
    <3>4. m \in 1 .. Len(s) => m \in 1 .. Len(s2) /\ s2[m] = s[m]
      BY <1>1
    <3>. QED
      BY <3>1, <3>2, <3>3, <3>4 DEF LastOn
  <2>. QED
    <3>1. LastOn(s2, Len(s2), v) = LastOn(s, Len(s), v)
      BY <2>1
    <3>. QED
      BY <1>1, <1>2, <1>3, <1>5, <3>1 DEF AddedLast
<1>. QED
  BY <1>4, <1>5

\* The next flit of a packet goes on with what has come,
LEMMA WholeStep ==
  ASSUME NEW s \in Seq(Flit), Whole(s), NEW x \in Flit, NEW k, NEW n \in Nat, LastCame(s, x.vc, k, n),
         Follows(x, k, n), NEW s2, s2 = Append(s, x)
  PROVE  s2 \in Seq(Flit) /\ Whole(s2)
<1>1. s2 \in Seq(Flit)
  OBVIOUS
<1>a. PICK l : l = Len(s)
  OBVIOUS
<1>b. PICK v : v = x.vc
  OBVIOUS
<1>c. \A w : AddedLast(s, l, x, w, s2)
  BY <1>a, LastFacts
<1>2. /\ \A m, j \in LastOn(s, l, v) : m = j
      /\ Len(s2) = l + 1 /\ s2[Len(s2)] = x /\ \A m \in 1 .. l : s2[m] = s[m]
      /\ LastOn(s2, l, v) = LastOn(s, l, v) /\ LastOn(s, l, v) \subseteq 1 .. l /\ l \in Nat
  BY <1>c DEF AddedLast
<1>3. \A w : \A n2 \in 0 .. l : LastOn(s2, n2, w) = LastOn(s, n2, w) /\ LastOn(s, n2, w) \subseteq 1 .. l
  BY <1>c DEF AddedLast
<1>d. LastCame(s, v, k, n) /\ s2 \in Seq(Flit) /\ \A j \in 1 .. l : GoesOn(s, j - 1, s[j])
  BY <1>1, <1>a, <1>b DEF Whole
<1>4. ASSUME NEW j \in 1 .. l PROVE GoesOn(s2, j - 1, s2[j])
  <2>1. s2[j] = s[j] /\ GoesOn(s, j - 1, s[j]) /\ j - 1 \in 0 .. l
    BY <1>2, <1>d
  <2>2. LastOn(s2, j - 1, s[j].vc) = LastOn(s, j - 1, s[j].vc) /\ LastOn(s, j - 1, s[j].vc) \subseteq 1 .. l
    BY <1>3, <2>1
  <2>3. {m \in LastOn(s2, j - 1, s[j].vc) : ~IsTail(s2[m])} = {m \in LastOn(s, j - 1, s[j].vc) : ~IsTail(s[m])}
    BY <1>2, <2>2
  <2>4. \A m \in {m2 \in LastOn(s, j - 1, s[j].vc) : ~IsTail(s[m2])} : s2[m] = s[m]
    BY <1>2, <2>2
  <2>. QED
    BY <2>1, <2>3, <2>4 DEF GoesOn
<1>5. GoesOn(s2, l, x)
  <2>. DEFINE open == {m \in LastOn(s2, l, v) : ~IsTail(s2[m])}
  <2>1. x.i = n + 1 /\ x.i <= x.pkt.len /\ (n > 0 => x.pkt = k) /\ x.pkt.len \in Nat
    BY PacketFacts DEF Follows, Flit
  <2>2. \A m \in LastOn(s2, l, v) : m \in LastOn(s, l, v) /\ s2[m] = s[m]
    BY <1>2
  <2>3. CASE n = 0
    <3>0. \A m \in LastOn(s, l, v) : IsTail(s[m])
      BY <1>a, <1>d, <2>3 DEF LastCame
    <3>1. open = {}
      BY <2>2, <3>0
    <3>2. IsHead(x)
      BY <2>1, <2>3 DEF IsHead
    <3>. QED
      BY <1>b, <3>1, <3>2 DEF GoesOn
  <2>4. CASE n # 0
    <3>1. n > 0 /\ n # k.len /\ x.pkt = k
      BY <2>1, <2>4
    <3>2. PICK m \in LastOn(s, l, v) : s[m].pkt = k /\ s[m].i = n
      BY <1>a, <1>d, <3>1 DEF LastCame
    <3>3. m \in LastOn(s2, l, v) /\ s2[m] = s[m] /\ ~IsTail(s2[m])
      BY <1>2, <3>1, <3>2 DEF IsTail
    <3>4. \A j \in LastOn(s2, l, v) : j = m
      BY <1>2, <3>2
    <3>5. open # {} /\ \A j \in open : x.pkt = s2[j].pkt /\ x.i = s2[j].i + 1
      BY <2>1, <3>1, <3>2, <3>3, <3>4
    <3>. QED
      BY <1>b, <3>5 DEF GoesOn
  <2>. QED
    BY <2>3, <2>4
<1>6. ASSUME NEW j \in 1 .. Len(s2) PROVE GoesOn(s2, j - 1, s2[j])
  <2>1. CASE j \in 1 .. l
    BY <1>4, <2>1
  <2>2. CASE j \notin 1 .. l
    <3>1. j = Len(s2) /\ j - 1 = l
      BY <1>2, <2>2
    <3>. QED
      BY <1>2, <1>5, <3>1
  <2>. QED
    BY <2>1, <2>2
<1>. QED
  BY <1>1, <1>6 DEF Whole

\* and is then the last of its channel.
LEMMA LastStep ==
  ASSUME NEW s \in Seq(Flit), NEW x \in Flit \cup {NoFlit}, NEW v, NEW k, NEW n \in Nat, LastCame(s, v, k, n),
         Sends(x, v) => Follows(x, k, n), NEW s2, s2 = IF x = NoFlit THEN s ELSE Append(s, x),
         NEW tl, tl => Come(x, v, n) > 0 /\ Come(x, v, n) = Comer(x, v, k).len
  PROVE  LastCame(s2, v, Comer(x, v, k), IF tl THEN 0 ELSE Come(x, v, n))
<1>. DEFINE k1 == Comer(x, v, k)
            n1 == Come(x, v, n)
<1>1. LastCame(s2, v, k1, n1)
  <2>1. CASE x = NoFlit
    BY <2>1, Wires DEF Comer, Come, One
  <2>2. CASE x # NoFlit
    <3>1. x \in Flit /\ s2 = Append(s, x)
      BY <2>2
    <3>2. /\ LastOn(s2, Len(s2), v) = IF x.vc = v THEN {Len(s2)} ELSE LastOn(s, Len(s), v)
          /\ Len(s2) = Len(s) + 1 /\ s2[Len(s2)] = x /\ \A m \in 1 .. Len(s) : s2[m] = s[m]
          /\ LastOn(s, Len(s), v) \subseteq 1 .. Len(s)
      <4>1. AddedLast(s, Len(s), x, v, s2)
        BY <3>1, LastFacts
      <4>2. PICK l : l = Len(s)
        OBVIOUS
      <4>3. /\ LastOn(s2, l + 1, v) = IF x.vc = v THEN {l + 1} ELSE LastOn(s, l, v)
            /\ Len(s2) = l + 1 /\ s2[l + 1] = x /\ \A m \in 1 .. l : s2[m] = s[m]
            /\ l \in Nat /\ \A j \in 0 .. l : LastOn(s, j, v) \subseteq 1 .. l
        BY <4>1, <4>2 DEF AddedLast
      <4>4. LastOn(s, l, v) \subseteq 1 .. l
        BY <4>3
      <4>. QED
        BY <4>2, <4>3, <4>4
    <3>3. CASE x.vc = v
      <4>1. Sends(x, v) /\ Follows(x, k, n) /\ k1 = x.pkt /\ n1 = n + 1
        BY <2>2, <3>3 DEF Sends, Comer, Come, One
      <4>2. x.i = n1 /\ LastOn(s2, Len(s2), v) = {Len(s2)}
        BY <3>2, <3>3, <4>1 DEF Follows
      <4>3. n1 = k1.len <=> IsTail(x)
        BY <4>1, <4>2 DEF IsTail
      <4>. HIDE DEF k1, n1
      <4>4. n1 > 0
        BY <4>1
      <4>. QED
        BY <3>2, <4>1, <4>2, <4>3, <4>4 DEF LastCame
    <3>4. CASE x.vc # v
      <4>1. k1 = k /\ n1 = n
        BY <3>4 DEF Sends, Comer, Come, One
      <4>. QED
        BY <3>2, <3>4, <4>1 DEF LastCame
    <3>. QED
      BY <3>3, <3>4
  <2>. QED
    BY <2>1, <2>2
<1>a. tl => n1 > 0 /\ n1 = k1.len
  OBVIOUS
<1>b. LastCame(s2, v, k1, IF tl THEN 0 ELSE n1) => LastCame(s2, v, Comer(x, v, k), IF tl THEN 0 ELSE Come(x, v, n))
  OBVIOUS
<1>. HIDE DEF k1, n1
<1>2. CASE tl
  <2>1. \A m \in LastOn(s2, Len(s2), v) : IsTail(s2[m])
    BY <1>1, <1>a, <1>2 DEF LastCame
  <2>2. LastCame(s2, v, k1, 0)
    <3>1. ~(0 > 0 /\ 0 # k1.len)
      OBVIOUS
    <3>. QED
      BY <2>1, <3>1, Zenon DEF LastCame
  <2>. QED
    BY <1>2, <1>b, <2>2
<1>3. CASE ~tl
  BY <1>1, <1>3 DEF k1, n1
<1>. QED
  BY <1>2, <1>3

---------------------------------------------------------------------------
(* The single router over a clock edge *)

\* What the harness at a port reads is what leaves there, or nothing.
LEMMA Reads ==
  ASSUME NEW x \in Flit \cup {NoFlit}, NEW y, y = Read(x)
  PROVE  /\ y \in Flit \cup {NoFlit} /\ (y = x \/ y = NoFlit)
         /\ \A v : IF VnetOf(v) \in StalledVnets THEN ~Sends(y, v) ELSE Sends(y, v) <=> Sends(x, v)
<1>1. y \in Flit \cup {NoFlit} /\ (y = x \/ y = NoFlit)
  BY DEF Read
<1>2. ASSUME NEW v PROVE IF VnetOf(v) \in StalledVnets THEN ~Sends(y, v) ELSE Sends(y, v) <=> Sends(x, v)
  <2>1. ~Sends(NoFlit, v)
    BY Wires
  <2>2. CASE x = NoFlit \/ VnetOf(x.vc) \in StalledVnets
    <3>1. y = NoFlit
      BY <2>2 DEF Read
    <3>. QED
      BY <2>1, <2>2, <3>1 DEF Sends
  <2>3. CASE x # NoFlit /\ VnetOf(x.vc) \notin StalledVnets
    <3>1. y = x
      BY <2>3 DEF Read
    <3>. QED
      BY <2>3, <3>1 DEF Sends
  <2>. QED
    BY <2>2, <2>3
<1>. QED
  BY <1>1, <1>2

\* An input VC, and the harness before it.
LEMMA InputOkStep ==
  ASSUME NEW a, NEW fl, NEW cr, NEW ka, NEW na, NEW a2, NEW ka2, NEW na2,
         Stepped(a, Me, fl, cr, ka, na, a2, ka2, na2), NEW p \in Port, NEW v \in Vc,
         NEW h, HostOk(h), NEW x, NEW c, NEW h2, Cycled(h, Read(Out(a2, p)), Ret(a2, p), x, c, h2),
         NEW f, f = fl[p], NEW e, e = cr[p], InputOk(a, ka, na, h, f, e, p, v)
  PROVE  InputOk(a2, ka2, na2, h2, x, c, p, v)
<1>1. PICK y : y = Read(Out(a2, p))
  OBVIOUS
<1>2. Out(a2, p) \in Flit \cup {NoFlit}
  BY RouterStep, RouterFields
<1>3. /\ y \in Flit \cup {NoFlit} /\ Cycled(h, y, Ret(a2, p), x, c, h2)
      /\ IF VnetOf(v) \in StalledVnets THEN ~Sends(y, v) ELSE Sends(y, v) <=> Sends(Out(a2, p), v)
  BY <1>1, <1>2, Reads
<1>4. Fed(h, f, a, ka, na, p, v)
  BY DEF InputOk
<1>5. Fed(h2, x, a2, ka2, na2, p, v)
  BY <1>3, <1>4, FedStep
<1>6. At(na2, p, v) \in Nat
  BY InputStep
<1>7. VcOpen(Ivc(a2, p, v), Me, v, At(ka2, p, v), At(na2, p, v))
  BY SteppedVc
<1>8. CASE VnetOf(v) \in StalledVnets
  <2>1. Shut(h, e, a, p, v) /\ ~Sends(y, v)
    BY <1>3, <1>8 DEF InputOk
  <2>2. Shut(h2, c, a2, p, v)
    BY <1>3, <2>1, ShutStep
  <2>. QED
    BY <1>5, <1>6, <1>7, <1>8, <2>2 DEF InputOk
<1>9. CASE VnetOf(v) \notin StalledVnets
  <2>1. Drained(h, e, a, p, v) /\ One(Sends(y, v)) = One(Sends(Out(a2, p), v))
    BY <1>3, <1>9 DEF InputOk, One
  <2>2. Drained(h2, c, a2, p, v)
    BY <1>3, <2>1, DrainedStep
  <2>. QED
    BY <1>5, <1>6, <1>7, <1>9, <2>2 DEF InputOk
<1>. QED
  BY <1>8, <1>9

\* A cycle of the harness, which reads what leaves, for the credits of tails.
LEMMA QueueReads ==
  ASSUME NEW h, HostOk(h), NEW x \in Flit \cup {NoFlit}, NEW r \in CreditMsg \cup {NoCredit},
         NEW z, NEW c, NEW h2, Cycled(h, Read(x), r, z, c, h2),
         NEW v, NEW k, NEW n \in Nat, QueueOk(h.credit_q, v, k, n), Sends(x, v) => Follows(x, k, n),
         NEW k2, NEW n2, Counts(x, c, v, k, n, k2, n2)
  PROVE  TailGoes(c, v, k2, Come(x, v, n)) /\ QueueOk(h2.credit_q, v, k2, n2)
<1>1. PICK y : y = Read(x)
  OBVIOUS
<1>2. y \in Flit \cup {NoFlit} /\ (y = x \/ y = NoFlit) /\ Cycled(h, y, r, z, c, h2)
  BY <1>1, Reads
<1>. QED
  BY <1>2, QueueStep

\* The harness h at port p, which reads x, and is h2, drives z and returns c thereafter;
\* before the edge f was on its wire in, and e on its wire back.
PortMoves(a2, fl, cr, p, h, f, e, x, z, c, h2) ==
    /\ f = fl[p] /\ e = cr[p] /\ x = Out(a2, p)
    /\ Cycled(h, Read(x), Ret(a2, p), z, c, h2)

\* x is added to s.
Adds(s, x, s2) == s2 = IF x = NoFlit THEN s ELSE Append(s, x)

\* A channel of an output, and the harness behind it.
LEMMA OutputOkStep ==
  ASSUME NEW a, NEW fl, NEW cr, NEW ka, NEW na, NEW a2, NEW ka2, NEW na2,
         Stepped(a, Me, fl, cr, ka, na, a2, ka2, na2), NEW p \in Port, NEW v \in Vc, Cred(a, p, v) >= 0,
         NEW h, HostOk(h), NEW f, NEW e, NEW x, NEW z, NEW c, NEW h2, PortMoves(a2, fl, cr, p, h, f, e, x, z, c, h2),
         NEW s \in Seq(Flit), NEW k, NEW n, OutputOk(a, ka, na, h.credit_q, e, s, p, v, k, n),
         NEW s2, Adds(s, x, s2), NEW k2, NEW n2, Counts(x, c, v, k, n, k2, n2)
  PROVE  /\ OutputOk(a2, ka2, na2, h2.credit_q, c, s2, p, v, k2, n2)
         /\ Sends(x, v) => Follows(x, k, n)
<1>. /\ e = cr[p] /\ x = Out(a2, p) /\ Cycled(h, Read(Out(a2, p)), Ret(a2, p), z, c, h2)
     /\ s2 = IF x = NoFlit THEN s ELSE Append(s, x)
     /\ k2 = Comer(x, v, k) /\ n2 = IF TailBack(c, v) THEN 0 ELSE Come(x, v, n)
  BY DEF PortMoves, Adds, Counts
<1>1. /\ n \in Nat /\ OutChannel(a, NoFlit, p, v, ka, na, k, n, TailBack(e, v))
      /\ QueueOk(h.credit_q, v, k, n) /\ LastCame(s, v, k, n)
  BY DEF OutputOk
<1>2. x \in Flit \cup {NoFlit} /\ Ret(a2, p) \in CreditMsg \cup {NoCredit}
  BY RouterStep, RouterFields
<1>3. OutChannel(a2, x, p, v, ka2, na2, k, n, FALSE)
  <2>1. PICK tc \in BOOLEAN : tc = TailBack(e, v)
    BY DEF TailBack, Returned
  <2>2. PICK tc2 \in BOOLEAN : tc2 = FALSE
    OBVIOUS
  <2>3. Busy(a2, p, v) = (VaAsks(a, p, v) # {} \/ (Busy(a, p, v) /\ ~tc))
    BY <2>1, CreditStep
  <2>4. PICK w : w = NoFlit
    OBVIOUS
  <2>5. k = Comer(w, v, k) /\ n = IF tc2 THEN 0 ELSE Come(w, v, n)
    BY <1>1, <2>2, <2>4, Wires DEF Comer, Come, One
  <2>6. OutChannel(a, w, p, v, ka, na, k, n, tc) /\ (tc2 => n > 0 /\ n = k.len)
    BY <1>1, <2>1, <2>2, <2>4
  <2>7. OutChannel(a2, Out(a2, p), p, v, ka2, na2, k, n, tc2)
    BY <1>1, <2>3, <2>5, <2>6, ChannelStep, SMTT(30)
  <2>. QED
    BY <2>2, <2>7
<1>4. Sends(x, v) => Follows(x, k, n)
  BY <1>3 DEF OutChannel, Line
<1>. DEFINE k1 == Comer(x, v, k)
            n1 == Come(x, v, n)
<1>5. n1 \in Nat
  BY <1>1 DEF Come, One
<1>6. \A q \in Port : /\ Ivc(a2, q, v) \in VcRegs /\ At(na2, q, v) \in Nat
                      /\ VcOpen(Ivc(a2, q, v), Me, v, At(ka2, q, v), At(na2, q, v))
  <2>. SUFFICES ASSUME NEW q \in Port
                PROVE  /\ Ivc(a2, q, v) \in VcRegs /\ At(na2, q, v) \in Nat
                       /\ VcOpen(Ivc(a2, q, v), Me, v, At(ka2, q, v), At(na2, q, v))
    OBVIOUS
  <2>1. Ivc(a2, q, v) \in VcRegs /\ VcOpen(Ivc(a2, q, v), Me, v, At(ka2, q, v), At(na2, q, v))
    BY SteppedVc
  <2>2. PICK w : w = fl[q]
    OBVIOUS
  <2>3. At(na2, q, v) \in Nat
    BY <2>2, InputStep
  <2>. QED
    BY <2>1, <2>3
<1>7. OutChannel(a2, NoFlit, p, v, ka2, na2, k1, n1, FALSE)
  <2>1. PICK tl : tl = FALSE
    OBVIOUS
  <2>2. Came(x, v, k, n, tl, k1, n1)
    BY <2>1 DEF Came
  <2>. HIDE DEF k1, n1
  <2>3. OutChannel(a2, NoFlit, p, v, ka2, na2, k1, n1, tl)
    BY <1>1, <1>3, <1>6, <2>2, OutReceives
  <2>. QED
    BY <2>1, <2>3
<1>8. /\ TailBack(c, v) => n1 > 0 /\ n1 = k1.len
      /\ QueueOk(h2.credit_q, v, k1, n2)
  <2>1. TailGoes(c, v, k1, Come(x, v, n)) /\ QueueOk(h2.credit_q, v, k1, n2)
    <3>1. PICK r : r = Ret(a2, p)
      OBVIOUS
    <3>2. r \in CreditMsg \cup {NoCredit} /\ Cycled(h, Read(x), r, z, c, h2)
      BY <1>2, <3>1
    <3>3. PICK k3 : k3 = k1
      OBVIOUS
    <3>4. Counts(x, c, v, k, n, k3, n2)
      BY <3>3 DEF Counts
    <3>5. TailGoes(c, v, k3, Come(x, v, n)) /\ QueueOk(h2.credit_q, v, k3, n2)
      BY <1>1, <1>2, <1>4, <3>2, <3>4, QueueReads
    <3>. QED
      BY <3>3, <3>5
  <2>. QED
    BY <2>1 DEF TailGoes
<1>9. OutChannel(a2, NoFlit, p, v, ka2, na2, k2, n2, TailBack(c, v))
  <2>1. PICK w : w = NoFlit
    OBVIOUS
  <2>2. ~Sends(w, v)
    BY <2>1, Wires
  <2>3. PICK tl : tl = TailBack(c, v)
    OBVIOUS
  <2>4. Came(w, v, k1, n1, tl, k2, n2)
    <3>1. Comer(w, v, k1) = k1 /\ Come(w, v, n1) = n1
      BY <1>5, <2>2 DEF Comer, Come, One
    <3>. HIDE DEF k1, n1
    <3>2. k2 = k1 /\ n2 = IF tl THEN 0 ELSE n1
      BY <2>3 DEF k1, n1
    <3>. QED
      BY <1>8, <2>3, <3>1, <3>2 DEF Came
  <2>. HIDE DEF k1, n1
  <2>5. OutChannel(a2, w, p, v, ka2, na2, k1, n1, FALSE)
    BY <1>7, <2>1
  <2>6. OutChannel(a2, NoFlit, p, v, ka2, na2, k2, n2, tl)
    BY <1>5, <1>6, <2>4, <2>5, OutReceives
  <2>. QED
    BY <2>3, <2>6
<1>10. LastCame(s2, v, k2, n2)
  <2>1. PICK tl : tl = TailBack(c, v)
    OBVIOUS
  <2>2. tl => Come(x, v, n) > 0 /\ Come(x, v, n) = Comer(x, v, k).len
    BY <1>8, <2>1
  <2>3. LastCame(s2, v, Comer(x, v, k), IF tl THEN 0 ELSE Come(x, v, n))
    BY <1>1, <1>2, <1>4, <2>2, LastStep
  <2>. QED
    BY <2>1, <2>3
<1>11. n2 \in Nat /\ k2 = k1
  BY <1>5
<1>. QED
  BY <1>4, <1>8, <1>9, <1>10, <1>11 DEF OutputOk

\* A port and the harness there.
LEMMA PortStep ==
  ASSUME NEW a, NEW fl, NEW cr, NEW ka, NEW na, NEW a2, NEW ka2, NEW na2,
         Stepped(a, Me, fl, cr, ka, na, a2, ka2, na2), NEW p \in Port,
         NEW h, NEW f, NEW e, NEW x, NEW z, NEW c, NEW h2, PortMoves(a2, fl, cr, p, h, f, e, x, z, c, h2),
         NEW s, NEW ks, NEW ns, PortOk(a, ka, na, ks, ns, h, f, e, s, p),
         NEW s2, Adds(s, x, s2), NEW ks2, NEW ns2,
         \A v \in Vc : Counts(x, c, v, At(ks, p, v), At(ns, p, v), At(ks2, p, v), At(ns2, p, v))
  PROVE  PortOk(a2, ka2, na2, ks2, ns2, h2, z, c, s2, p)
<1>. /\ f = fl[p] /\ e = cr[p] /\ x = Out(a2, p) /\ Cycled(h, Read(Out(a2, p)), Ret(a2, p), z, c, h2)
     /\ s2 = IF x = NoFlit THEN s ELSE Append(s, x)
  BY DEF PortMoves, Adds
<1>1. /\ HostOk(h) /\ s \in Seq(Flit) /\ Whole(s)
      /\ \A v \in Vc : InputOk(a, ka, na, h, f, e, p, v)
      /\ \A v \in Vc : OutputOk(a, ka, na, h.credit_q, e, s, p, v, At(ks, p, v), At(ns, p, v))
  BY DEF PortOk
<1>2. x \in Flit \cup {NoFlit} /\ Ret(a2, p) \in CreditMsg \cup {NoCredit}
  BY RouterStep, RouterFields
<1>3. HostOk(h2) /\ z \in Flit \cup {NoFlit} /\ c \in CreditMsg \cup {NoCredit}
  <2>1. PICK y : y = Read(x)
    OBVIOUS
  <2>2. PICK r : r = Ret(a2, p)
    OBVIOUS
  <2>3. y \in Flit \cup {NoFlit} /\ r \in CreditMsg \cup {NoCredit} /\ Cycled(h, y, r, z, c, h2)
    BY <1>2, <2>1, <2>2, Reads
  <2>. QED
    BY <1>1, <2>3, HostStep
<1>4. ASSUME NEW v \in Vc PROVE InputOk(a2, ka2, na2, h2, z, c, p, v)
  BY <1>1, InputOkStep
<1>5. ASSUME NEW v \in Vc
      PROVE  /\ OutputOk(a2, ka2, na2, h2.credit_q, c, s2, p, v, At(ks2, p, v), At(ns2, p, v))
             /\ Sends(x, v) => Follows(x, At(ks, p, v), At(ns, p, v))
  <2>1. Cred(a, p, v) >= 0
    <3>1. InputOk(a, ka, na, h, f, e, p, v)
      BY <1>1
    <3>. QED
      BY <3>1, Sizes DEF InputOk, Shut, Drained
  <2>2. PICK k, n, k2, n2 : k = At(ks, p, v) /\ n = At(ns, p, v) /\ k2 = At(ks2, p, v) /\ n2 = At(ns2, p, v)
    OBVIOUS
  <2>3. OutputOk(a, ka, na, h.credit_q, e, s, p, v, k, n) /\ Counts(x, c, v, k, n, k2, n2)
    BY <1>1, <2>2
  <2>4. /\ OutputOk(a2, ka2, na2, h2.credit_q, c, s2, p, v, k2, n2)
        /\ Sends(x, v) => Follows(x, k, n)
    BY <1>1, <2>1, <2>3, OutputOkStep, SMTT(30)
  <2>. QED
    BY <2>2, <2>4
<1>6. (x # NoFlit => x.i <= x.pkt.len) /\ s2 \in Seq(Flit) /\ Whole(s2)
  <2>1. CASE x = NoFlit
    BY <1>1, <2>1
  <2>2. CASE x # NoFlit
    <3>1. x \in Flit /\ s2 = Append(s, x)
      BY <1>2, <2>2
    <3>2. PICK v \in Vc : v = x.vc
      BY <3>1 DEF Flit
    <3>3. PICK k, n : k = At(ks, p, v) /\ n = At(ns, p, v)
      OBVIOUS
    <3>4. Follows(x, k, n)
      BY <1>5, <2>2, <3>2, <3>3 DEF Sends
    <3>5. n \in Nat /\ LastCame(s, x.vc, k, n)
      BY <1>1, <3>2, <3>3 DEF OutputOk
    <3>6. s2 \in Seq(Flit) /\ Whole(s2)
      BY <1>1, <3>1, <3>4, <3>5, WholeStep
    <3>. QED
      BY <3>4, <3>6 DEF Follows
  <2>. QED
    BY <2>1, <2>2
<1>. QED
  BY <1>3, <1>4, <1>5, <1>6 DEF PortOk

\* What a clock edge does.
LEMMA RouterTickDoes ==
  ASSUME router_tick
  PROVE  /\ Edge(router, Me, flit_i, credit_i, router')
         /\ DOMAIN ports' = Port /\ ports' = [p \in Port |-> ports'[p]]
         /\ \A p \in Port :
              /\ Cycled(ports[p], Read(Out(router', p)), Ret(router', p), flit_i'[p], credit_i'[p], ports'[p])
              /\ received'[p] = IF Out(router', p) = NoFlit THEN received[p] ELSE Append(received[p], Out(router', p))
<1>1. PICK g, r, seen, h :
        /\ g = Grants(router) /\ r = Clock(router, g, Me, flit_i, credit_i)
        /\ seen = [p \in Port |-> Sampled(ports[p], Read(r.out[p]), r.ret[p])]
        /\ h = [p \in Port |-> StartPacket(seen[p])]
        /\ router' = r
        /\ received' = [p \in Port |-> IF r.out[p] = NoFlit THEN received[p] ELSE Append(received[p], r.out[p])]
        /\ ports' = [p \in Port |-> Driven(h[p])]
        /\ flit_i' = [p \in Port |-> FlitDriven(h[p])]
        /\ credit_i' = [p \in Port |-> CreditDriven(h[p])]
  BY DEF router_tick
<1>2. Edge(router, Me, flit_i, credit_i, router')
  BY <1>1 DEF Edge
<1>3. ASSUME NEW p \in Port
      PROVE  h[p] = StartPacket(Sampled(ports[p], Read(Out(router', p)), Ret(router', p)))
  <2>1. seen[p] = Sampled(ports[p], Read(Out(r, p)), Ret(r, p))
    BY <1>1 DEF Out, Ret
  <2>. QED
    BY <1>1, <2>1
<1>4. ASSUME NEW p \in Port
      PROVE  Cycled(ports[p], Read(Out(router', p)), Ret(router', p), flit_i'[p], credit_i'[p], ports'[p])
  <2>1. flit_i'[p] = FlitDriven(h[p]) /\ credit_i'[p] = CreditDriven(h[p]) /\ ports'[p] = Driven(h[p])
    BY <1>1
  <2>. QED
    BY <1>3, <2>1 DEF Cycled
<1>5. ASSUME NEW p \in Port
      PROVE  received'[p] = IF Out(router', p) = NoFlit THEN received[p] ELSE Append(received[p], Out(router', p))
  BY <1>1 DEF Out
<1>6. DOMAIN ports' = Port /\ ports' = [p \in Port |-> ports'[p]]
  BY <1>1
<1>. QED
  BY <1>2, <1>4, <1>5, <1>6

\* What the router is fed follows what has come.
LEMMA RouterFed ==
  ASSUME NEW K, NEW N, NEW KS, NEW NS, RouterInv(K, N, KS, NS)
  PROVE  Feed(router, Me, flit_i, K, N)
<1>. SUFFICES ASSUME NEW p \in Port, NEW v \in Vc
              PROVE  /\ At(N, p, v) \in Nat /\ VcOpen(Ivc(router, p, v), Me, v, At(K, p, v), At(N, p, v))
                     /\ flit_i[p] \in Flit \cup {NoFlit}
                     /\ Sends(flit_i[p], v) => /\ Follows(flit_i[p], At(K, p, v), At(N, p, v))
                                               /\ Len(Ivc(router, p, v).buf) < VcDepth
  BY DEF Feed
<1>1. PICK h, f, e, s : h = ports[p] /\ f = flit_i[p] /\ e = credit_i[p] /\ s = received[p]
  OBVIOUS
<1>2. PortOk(router, K, N, KS, NS, h, f, e, s, p) /\ RouterType(router)
  BY <1>1 DEF RouterInv
<1>3. HostOk(h) /\ f \in Flit \cup {NoFlit} /\ InputOk(router, K, N, h, f, e, p, v)
  BY <1>2 DEF PortOk
<1>4. /\ At(N, p, v) \in Nat /\ VcOpen(Ivc(router, p, v), Me, v, At(K, p, v), At(N, p, v))
      /\ Fed(h, f, router, K, N, p, v)
  BY <1>3 DEF InputOk
<1>5. Len(Ivc(router, p, v).buf) \in Nat
  BY <1>2, RouterFields DEF VcRegs
<1>6. Sends(f, v) => Follows(f, At(K, p, v), At(N, p, v)) /\ Len(Ivc(router, p, v).buf) < VcDepth
  BY <1>3, <1>4, <1>5, FedFeeds
<1>. QED
  BY <1>1, <1>3, <1>4, <1>6

\* What has come by the next edge, and what has come out.
RouterLater(K, N, KS, NS, K2, N2, KS2, NS2) ==
    \A p \in Port, v \in Vc :
        /\ At(K2, p, v) = Comer(flit_i[p], v, At(K, p, v))
        /\ At(N2, p, v) = NextCome(router, p, v, flit_i[p], At(N, p, v))
        /\ At(KS2, p, v) = Comer(Out(router', p), v, At(KS, p, v))
        /\ At(NS2, p, v) = IF TailBack(credit_i'[p], v) THEN 0 ELSE Come(Out(router', p), v, At(NS, p, v))

\* It can be named.
LEMMA RouterLaterExists ==
  ASSUME NEW K, NEW N, NEW KS, NEW NS
  PROVE  \E K2, N2, KS2, NS2 : RouterLater(K, N, KS, NS, K2, N2, KS2, NS2)
<1>1. PICK K2 : K2 = [p \in Port |-> [v \in Vc |-> Comer(flit_i[p], v, At(K, p, v))]]
  OBVIOUS
<1>2. PICK N2 : N2 = [p \in Port |-> [v \in Vc |-> NextCome(router, p, v, flit_i[p], At(N, p, v))]]
  OBVIOUS
<1>3. PICK KS2 : KS2 = [p \in Port |-> [v \in Vc |-> Comer(Out(router', p), v, At(KS, p, v))]]
  OBVIOUS
<1>4. PICK NS2 : NS2 = [p \in Port |-> [v \in Vc |->
                          IF TailBack(credit_i'[p], v) THEN 0 ELSE Come(Out(router', p), v, At(NS, p, v))]]
  OBVIOUS
<1>5. ASSUME NEW p \in Port, NEW v \in Vc
      PROVE  /\ At(K2, p, v) = Comer(flit_i[p], v, At(K, p, v))
             /\ At(N2, p, v) = NextCome(router, p, v, flit_i[p], At(N, p, v))
             /\ At(KS2, p, v) = Comer(Out(router', p), v, At(KS, p, v))
             /\ At(NS2, p, v) = IF TailBack(credit_i'[p], v) THEN 0 ELSE Come(Out(router', p), v, At(NS, p, v))
  <2>1. \A m : At(m, p, v) = m[p][v]
    BY DEF At
  <2>2. /\ K2[p][v] = Comer(flit_i[p], v, At(K, p, v))
        /\ N2[p][v] = NextCome(router, p, v, flit_i[p], At(N, p, v))
    BY <1>1, <1>2
  <2>3. KS2[p][v] = Comer(Out(router', p), v, At(KS, p, v))
    BY <1>3
  <2>4. NS2[p][v] = IF TailBack(credit_i'[p], v) THEN 0 ELSE Come(Out(router', p), v, At(NS, p, v))
    BY <1>4
  <2>. QED
    BY <2>1, <2>2, <2>3, <2>4
<1>. QED
  BY <1>5 DEF RouterLater

\* A clock edge keeps the invariant.
LEMMA RouterTick ==
  ASSUME NEW K, NEW N, NEW KS, NEW NS, RouterInv(K, N, KS, NS), router_tick,
         NEW K2, NEW N2, NEW KS2, NEW NS2, RouterLater(K, N, KS, NS, K2, N2, KS2, NS2)
  PROVE  RouterInv(K2, N2, KS2, NS2)'
<1>1. /\ Edge(router, Me, flit_i, credit_i, router')
      /\ DOMAIN ports' = Port /\ ports' = [p \in Port |-> ports'[p]]
      /\ \A p \in Port :
           /\ Cycled(ports[p], Read(Out(router', p)), Ret(router', p), flit_i'[p], credit_i'[p], ports'[p])
           /\ received'[p] = IF Out(router', p) = NoFlit THEN received[p] ELSE Append(received[p], Out(router', p))
  BY RouterTickDoes
<1>2. PICK a, fl, cr, a2 : a = router /\ fl = flit_i /\ cr = credit_i /\ a2 = router'
  OBVIOUS
<1>3. Stepped(a, Me, fl, cr, K, N, a2, K2, N2)
  <2>1. Feed(router, Me, flit_i, K, N)
    BY RouterFed
  <2>2. RouterType(router)
    BY DEF RouterInv
  <2>. QED
    BY <1>1, <1>2, <2>1, <2>2 DEF Stepped, RouterLater
<1>4. RouterType(a2)
  BY <1>3, RouterStep
<1>5. ASSUME NEW p \in Port
      PROVE  PortOk(a2, K2, N2, KS2, NS2, ports'[p], flit_i'[p], credit_i'[p], received'[p], p)
  <2>1. PICK h, f, e, s : h = ports[p] /\ f = flit_i[p] /\ e = credit_i[p] /\ s = received[p]
    OBVIOUS
  <2>2. PICK h2, z, c, s2 : h2 = ports'[p] /\ z = flit_i'[p] /\ c = credit_i'[p] /\ s2 = received'[p]
    OBVIOUS
  <2>3. PICK x : x = Out(a2, p)
    OBVIOUS
  <2>4. f = fl[p] /\ e = cr[p]
    BY <1>2, <2>1
  <2>5. PortOk(a, K, N, KS, NS, h, f, e, s, p)
    BY <1>2, <2>1 DEF RouterInv
  <2>6. PortMoves(a2, fl, cr, p, h, f, e, x, z, c, h2) /\ Adds(s, x, s2)
    BY <1>1, <1>2, <2>1, <2>2, <2>3, <2>4 DEF PortMoves, Adds
  <2>7. \A v \in Vc : Counts(x, c, v, At(KS, p, v), At(NS, p, v), At(KS2, p, v), At(NS2, p, v))
    BY <1>2, <2>2, <2>3 DEF RouterLater, Counts
  <2>8. PortOk(a2, K2, N2, KS2, NS2, h2, z, c, s2, p)
    BY <1>3, <2>5, <2>6, <2>7, PortStep, SMTT(30)
  <2>. QED
    BY <2>2, <2>8
<1>. QED
  BY <1>1, <1>2, <1>4, <1>5 DEF RouterInv

\* The invariant holds after reset.
LEMMA RouterReset ==
  ASSUME RouterInit, NEW K, NEW N, NEW KS, NEW NS,
         \A p \in Port, v \in Vc : At(K, p, v) = NoPacket /\ At(N, p, v) = 0 /\ At(KS, p, v) = NoPacket /\ At(NS, p, v) = 0
  PROVE  RouterInv(K, N, KS, NS)
<1>1. /\ router = ResetRouter /\ DOMAIN ports = Port /\ ports = [p \in Port |-> ports[p]]
      /\ \A p \in Port : ports[p] = NewHost /\ flit_i[p] = NoFlit /\ credit_i[p] = NoCredit /\ received[p] = <<>>
  BY DEF RouterInit
<1>2. ~TailBack(NoCredit, 0) /\ \A v : ~TailBack(NoCredit, v)
  BY Wires DEF TailBack
<1>3. Len(<<>>) = 0 /\ <<>> \in Seq(Flit) /\ \A v : LastOn(<<>>, 0, v) = {}
  BY DEF LastOn
<1>4. ASSUME NEW p \in Port
      PROVE  PortOk(ResetRouter, K, N, KS, NS, NewHost, NoFlit, NoCredit, <<>>, p)
  <2>1. Whole(<<>>)
    BY <1>3 DEF Whole
  <2>2. HostOk(NewHost) /\ NewHost.credit_q = <<>> /\ Out(ResetRouter, p) = NoFlit
    BY NewHostOk, ResetFields
  <2>3. ASSUME NEW v \in Vc PROVE InputOk(ResetRouter, K, N, NewHost, NoFlit, NoCredit, p, v)
    <3>1. At(N, p, v) = 0 /\ At(K, p, v) = NoPacket
      OBVIOUS
    <3>2. Ivc(ResetRouter, p, v) = IdleVc /\ IdleVc.st = "IDLE" /\ Len(IdleVc.buf) = 0
      BY ResetFields DEF IdleVc
    <3>3. VcOpen(Ivc(ResetRouter, p, v), Me, v, At(K, p, v), 0)
      BY <3>2, OpenForNone
    <3>4. /\ Fed(NewHost, NoFlit, ResetRouter, K, N, p, v)
          /\ Drained(NewHost, NoCredit, ResetRouter, p, v)
          /\ Shut(NewHost, NoCredit, ResetRouter, p, v)
      BY <3>1, PortReset
    <3>. QED
      BY <3>1, <3>3, <3>4 DEF InputOk
  <2>4. ASSUME NEW v \in Vc
        PROVE  OutputOk(ResetRouter, K, N, <<>>, NoCredit, <<>>, p, v, At(KS, p, v), At(NS, p, v))
    <3>1. PICK tc, k : tc = TailBack(NoCredit, v) /\ k = At(KS, p, v)
      OBVIOUS
    <3>2. ~tc /\ At(NS, p, v) = 0
      BY <1>2, <3>1
    <3>3. OutChannel(ResetRouter, NoFlit, p, v, K, N, k, 0, tc)
      BY <3>2, OutReset
    <3>4. QueueOk(<<>>, v, k, 0)
      BY <1>3 DEF QueueOk
    <3>5. LastCame(<<>>, v, k, 0)
      BY <1>3 DEF LastCame
    <3>. QED
      BY <3>1, <3>2, <3>3, <3>4, <3>5 DEF OutputOk
  <2>. QED
    BY <1>3, <2>1, <2>2, <2>3, <2>4 DEF PortOk
<1>. QED
  BY <1>1, <1>4, ResetType DEF RouterInv

\* A packet is queued.
LEMMA RouterQueued ==
  ASSUME NEW K, NEW N, NEW KS, NEW NS, RouterInv(K, N, KS, NS), NEW k \in UNION RouterTraffic, queue_packet(k)
  PROVE  RouterInv(K, N, KS, NS)'
<1>1. /\ router' = router /\ flit_i' = flit_i /\ credit_i' = credit_i /\ received' = received
      /\ ports' = [ports EXCEPT ![k.in].pending = Append(@, k)]
  BY DEF queue_packet
<1>2. /\ RouterType(router) /\ DOMAIN ports = Port /\ ports = [p \in Port |-> ports[p]]
      /\ \A p \in Port : PortOk(router, K, N, KS, NS, ports[p], flit_i[p], credit_i[p], received[p], p)
  BY DEF RouterInv
<1>3. k.in \in Port /\ k \in Packets
  BY RouterAssumption
<1>4. DOMAIN ports' = Port /\ ports' = [p \in Port |-> ports'[p]]
  BY <1>1, <1>2
<1>5. ASSUME NEW p \in Port
      PROVE  PortOk(router, K, N, KS, NS, ports'[p], flit_i[p], credit_i[p], received[p], p)
  <2>1. CASE p # k.in
    <3>1. ports'[p] = ports[p]
      BY <1>1, <1>2, <1>3, <2>1
    <3>. QED
      BY <1>2, <3>1
  <2>2. CASE p = k.in
    <3>1. Queued(ports[p], k, ports'[p])
      BY <1>1, <1>2, <1>3, <2>2 DEF Queued
    <3>2. PICK h, h2 : h = ports[p] /\ h2 = ports'[p]
      OBVIOUS
    <3>3. PICK a, f, e, s : a = router /\ f = flit_i[p] /\ e = credit_i[p] /\ s = received[p]
      OBVIOUS
    <3>4. Queued(h, k, h2) /\ PortOk(a, K, N, KS, NS, h, f, e, s, p)
      BY <1>2, <3>1, <3>2, <3>3
    <3>5. HostOk(h)
      BY <3>4 DEF PortOk
    <3>6. /\ HostOk(h2) /\ h2.credit_q = h.credit_q
          /\ \A b, y, ka, na, q, v : Fed(h, y, b, ka, na, q, v) => Fed(h2, y, b, ka, na, q, v)
          /\ \A d, b, q, v : Drained(h, d, b, q, v) => Drained(h2, d, b, q, v)
          /\ \A d, b, q, v : Shut(h, d, b, q, v) => Shut(h2, d, b, q, v)
      BY <1>3, <3>4, <3>5, QueuedStep
    <3>7. ASSUME NEW v \in Vc PROVE InputOk(a, K, N, h2, f, e, p, v)
      BY <3>4, <3>6 DEF PortOk, InputOk
    <3>8. PortOk(a, K, N, KS, NS, h2, f, e, s, p)
      BY <3>4, <3>6, <3>7 DEF PortOk
    <3>. QED
      BY <3>2, <3>3, <3>8
  <2>. QED
    BY <2>1, <2>2
<1>. QED
  BY <1>1, <1>2, <1>4, <1>5 DEF RouterInv

\* Nothing changes.
LEMMA RouterStays ==
  ASSUME NEW K, NEW N, NEW KS, NEW NS, RouterInv(K, N, KS, NS), UNCHANGED routerVars
  PROVE  RouterInv(K, N, KS, NS)'
<1>1. /\ router' = router /\ ports' = ports /\ flit_i' = flit_i /\ credit_i' = credit_i /\ received' = received
  BY DEF routerVars
<1>. QED
  BY <1>1 DEF RouterInv

---------------------------------------------------------------------------
(* The single router: the invariant, and what follows from it *)

RInv == \E K, N, KS, NS : RouterInv(K, N, KS, NS)

\* The invariant holds at first,
LEMMA RouterInitInv == RouterInit => RInv
<1>. SUFFICES ASSUME RouterInit PROVE RInv
  OBVIOUS
<1>1. PICK K : K = [p \in Port |-> [v \in Vc |-> NoPacket]]
  OBVIOUS
<1>2. PICK N : N = [p \in Port |-> [v \in Vc |-> 0]]
  OBVIOUS
<1>3. ASSUME NEW p \in Port, NEW v \in Vc PROVE At(K, p, v) = NoPacket /\ At(N, p, v) = 0
  BY <1>1, <1>2 DEF At
<1>4. RouterInv(K, N, K, N)
  BY <1>3, RouterReset
<1>. QED
  BY <1>4 DEF RInv

\* and every step keeps it.
LEMMA RouterNextInv == RInv /\ [RouterNext]_routerVars => RInv'
<1>. SUFFICES ASSUME RInv, [RouterNext]_routerVars PROVE RInv'
  OBVIOUS
<1>1. PICK K, N, KS, NS : RouterInv(K, N, KS, NS)
  BY DEF RInv
<1>2. CASE router_tick
  <2>1. PICK K2, N2, KS2, NS2 : RouterLater(K, N, KS, NS, K2, N2, KS2, NS2)
    BY RouterLaterExists
  <2>2. RouterInv(K2, N2, KS2, NS2)'
    BY <1>1, <1>2, <2>1, RouterTick
  <2>. QED
    BY <2>2 DEF RInv
<1>3. ASSUME NEW k \in UNION RouterTraffic, queue_packet(k) PROVE RInv'
  <2>1. RouterInv(K, N, KS, NS)'
    BY <1>1, <1>3, RouterQueued
  <2>. QED
    BY <2>1 DEF RInv
<1>4. CASE UNCHANGED routerVars
  <2>1. RouterInv(K, N, KS, NS)'
    BY <1>1, <1>4, RouterStays
  <2>. QED
    BY <2>1 DEF RInv
<1>. QED
  BY <1>2, <1>3, <1>4 DEF RouterNext

\* What a port of the router keeps.
LEMMA PortKeeps ==
  ASSUME NEW K, NEW N, NEW KS, NEW NS, RouterInv(K, N, KS, NS), NEW p \in Port, NEW v \in Vc
  PROVE  LET l == Len(Ivc(router, p, v).buf)
             c == Cred(router, p, v)
             q == CreditsIn(ports[p].credit_q, v)
             e == One(Returned(credit_i[p], v))
         IN  /\ HCred(ports[p], v) + One(Sends(flit_i[p], v)) + l = VcDepth
             /\ VnetOf(v) \notin StalledVnets => c + q + e = VcDepth
             /\ HCred(ports[p], v) \in 0 .. VcDepth /\ c \in 0 .. VcDepth
<1>. DEFINE l == Len(Ivc(router, p, v).buf)
            c == Cred(router, p, v)
            q == CreditsIn(ports[p].credit_q, v)
            e == One(Returned(credit_i[p], v))
<1>1. PICK h, f, e1, s : h = ports[p] /\ f = flit_i[p] /\ e1 = credit_i[p] /\ s = received[p]
  OBVIOUS
<1>2. PortOk(router, K, N, KS, NS, h, f, e1, s, p) /\ RouterType(router)
  BY <1>1 DEF RouterInv
<1>3. HostOk(h) /\ InputOk(router, K, N, h, f, e1, p, v)
  BY <1>2 DEF PortOk
<1>4. l \in Nat /\ c \in Int
  BY <1>2, RouterFields DEF VcRegs
<1>5. Fed(h, f, router, K, N, p, v) /\ IF VnetOf(v) \in StalledVnets THEN Shut(h, e1, router, p, v) ELSE Drained(h, e1, router, p, v)
  BY <1>3 DEF InputOk
<1>6. HCred(h, v) \in 0 .. VcDepth /\ HCred(h, v) + One(Sends(f, v)) + l = VcDepth
  BY <1>3, <1>4, <1>5, FedFeeds DEF Fed
<1>7. q \in Nat /\ e \in Nat /\ VcDepth \in Nat
  BY <1>1, <1>3, CreditQueuedNat, Sizes DEF HostOk, HostRec, One
<1>8. CASE VnetOf(v) \in StalledVnets
  BY <1>1, <1>5, <1>6, <1>8 DEF Shut
<1>9. CASE VnetOf(v) \notin StalledVnets
  <2>1. c + q + e = VcDepth /\ c >= 0
    BY <1>1, <1>5, <1>9 DEF Drained
  <2>. HIDE DEF c, q, e
  <2>2. c \in 0 .. VcDepth
    BY <1>4, <1>7, <2>1
  <2>. QED
    BY <1>1, <1>6, <2>1, <2>2 DEF c, q, e
<1>. QED
  BY <1>8, <1>9

\* The registers have their type,
LEMMA InvRegisters ==
  ASSUME NEW K, NEW N, NEW KS, NEW NS, RouterInv(K, N, KS, NS)
  PROVE  RegistersOK
<1>1. RouterType(router)
  BY DEF RouterInv
<1>2. ASSUME NEW p \in Port, NEW v \in Vc
      PROVE  /\ router.ivc[p][v].st \in {"IDLE", "ROUTED", "ALLOC", "ACTIVE"}
             /\ router.ivc[p][v].ovc \in Vc
             /\ router.credits[p][v] \in 0 .. VcDepth
             /\ ports[p].credits[v] \in 0 .. VcDepth
  <2>1. Ivc(router, p, v) \in VcRegs
    BY <1>1, RouterFields
  <2>2. Cred(router, p, v) \in 0 .. VcDepth /\ HCred(ports[p], v) \in 0 .. VcDepth
    BY PortKeeps
  <2>. QED
    BY <2>1, <2>2 DEF VcRegs, Ivc, Cred, HCred
<1>3. ASSUME NEW p \in Port PROVE WireOk(flit_i[p]) /\ WireOk(router.out[p])
  <2>1. PICK h, f, e, s : h = ports[p] /\ f = flit_i[p] /\ e = credit_i[p] /\ s = received[p]
    OBVIOUS
  <2>2. PortOk(router, K, N, KS, NS, h, f, e, s, p)
    BY <2>1 DEF RouterInv
  <2>3. /\ Out(router, p) \in Flit \cup {NoFlit}
        /\ Out(router, p) # NoFlit => Out(router, p).i <= Out(router, p).pkt.len
    BY <1>1, <2>2, RouterFields DEF PortOk
  <2>4. f # NoFlit => f \in Flit /\ f.i <= f.pkt.len
    <3>1. CASE f = NoFlit
      BY <3>1
    <3>2. CASE f # NoFlit
      <4>1. f \in Flit
        BY <2>2, <3>2 DEF PortOk
      <4>2. PICK v \in Vc : v = f.vc
        BY <4>1 DEF Flit
      <4>3. Sends(f, v) /\ Feed(router, Me, flit_i, K, N)
        BY <3>2, <4>2, RouterFed DEF Sends
      <4>4. Follows(f, At(K, p, v), At(N, p, v))
        BY <2>1, <4>3 DEF Feed
      <4>. QED
        BY <4>1, <4>4 DEF Follows
    <3>. QED
      BY <3>1, <3>2
  <2>. QED
    BY <2>1, <2>3, <2>4 DEF WireOk, Out
<1>4. ASSUME NEW p \in Port PROVE router.va1[p] \in Vc /\ router.sa1[p] \in Vc /\ router.sa2[p] \in Port
  BY <1>1, PointersHold DEF Va1, Sa1, Sa2
<1>. QED
  BY <1>2, <1>3, <1>4 DEF RegistersOK

\* no credit is lost or made,
LEMMA InvConserved ==
  ASSUME NEW K, NEW N, NEW KS, NEW NS, RouterInv(K, N, KS, NS)
  PROVE  CreditsConserved
<1>. SUFFICES ASSUME NEW p \in Port, NEW v \in Vc
              PROVE  /\ HCred(ports[p], v) + One(Sends(flit_i[p], v)) + Len(Ivc(router, p, v).buf) = VcDepth
                     /\ VnetOf(v) \notin StalledVnets =>
                          Cred(router, p, v) + CreditsIn(ports[p].credit_q, v) + One(Returned(credit_i[p], v)) = VcDepth
  BY DEF CreditsConserved, HCred, Ivc, Cred
<1>. QED
  BY PortKeeps

\* a flit finds its VC as it should be,
LEMMA InvDiscipline ==
  ASSUME NEW K, NEW N, NEW KS, NEW NS, RouterInv(K, N, KS, NS)
  PROVE  LinkDiscipline
<1>. SUFFICES ASSUME NEW p \in Port, flit_i[p] # NoFlit
              PROVE  LET c == Ivc(router, p, flit_i[p].vc) IN
                     /\ Len(c.buf) < VcDepth
                     /\ IsHead(flit_i[p]) => c.st = "IDLE" /\ c.buf = <<>>
                     /\ ~IsHead(flit_i[p]) => c.st # "IDLE"
  BY DEF LinkDiscipline, Ivc
<1>1. PICK f : f = flit_i[p]
  OBVIOUS
<1>2. Feed(router, Me, flit_i, K, N) /\ RouterType(router)
  BY RouterFed DEF RouterInv
<1>3. f \in Flit
  <2>1. 0 \in Vc
    BY Sizes, Indices
  <2>. QED
    BY <1>1, <1>2, <2>1 DEF Feed
<1>4. PICK v \in Vc : v = f.vc
  BY <1>3 DEF Flit
<1>5. Sends(f, v)
  BY <1>1, <1>4 DEF Sends
<1>6. PICK c, k, n : c = Ivc(router, p, v) /\ k = At(K, p, v) /\ n = At(N, p, v)
  OBVIOUS
<1>7. n \in Nat /\ VcOpen(c, Me, v, k, n) /\ Follows(f, k, n) /\ Len(c.buf) < VcDepth
  BY <1>1, <1>2, <1>5, <1>6 DEF Feed
<1>8. c.buf \in Seq(Flit)
  BY <1>2, <1>6, RouterFields DEF VcRegs
<1>9. (IsHead(f) <=> n = 0) /\ (c.st = "IDLE" <=> n = 0) /\ Len(c.buf) <= n
  BY <1>7 DEF Follows, IsHead, VcOpen
<1>10. n = 0 => c.buf = <<>>
  BY <1>8, <1>9
<1>. QED
  BY <1>1, <1>4, <1>6, <1>7, <1>9, <1>10

\* and what comes out of a port are whole packets.
LEMMA InvWhole ==
  ASSUME NEW K, NEW N, NEW KS, NEW NS, RouterInv(K, N, KS, NS)
  PROVE  ComeOutWhole
<1>1. \A o \in Port : Whole(received[o])
  BY DEF RouterInv, PortOk
<1>. QED
  BY <1>1 DEF ComeOutWhole, Whole

\* The run's behaviours are of the router wherever they move it.
LEMMA RouterPart ==
  /\ NocInit => RouterInit
  /\ [MeshMoves \/ RouterMoves]_all => [RouterNext]_routerVars
BY DEF NocInit, MeshMoves, RouterMoves, all

\* Of every router, whatever the packets and whichever virtual networks are
\* stalled: its registers keep their type, the credits of each of its links are
\* conserved, and each flit finds its input VC as the assertions of
\* input_unit.sv and fifo.sv have it.
THEOREM RouterAlwaysSafe == NocSpec => []RouterSafe
<1>1. RInv => RouterSafe
  BY InvRegisters, InvConserved, InvDiscipline DEF RInv, RouterSafe
<1>. QED
  BY <1>1, RouterInitInv, RouterNextInv, RouterPart, PTL DEF NocSpec

\* And on each VC of each of its outputs packets come out whole and in order,
\* those of one input never between the flits of another's.
THEOREM PacketsStayWhole == NocSpec => []PacketsWhole
<1>1. RInv => PacketsWhole
  BY InvWhole DEF RInv, PacketsWhole
<1>. QED
  BY <1>1, RouterInitInv, RouterNextInv, RouterPart, PTL DEF NocSpec

===============================================================================
