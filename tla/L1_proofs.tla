------------------------------ MODULE L1_proofs ------------------------------
(***************************************************************************)
(* The cycle-level cache of L1Pipeline under the homes and neighbours of   *)
(* L1Harness, for every set of lines, number of MSHRs and workload: no     *)
(* event finds a blank cell of the table, no line or request is lost or    *)
(* doubled, and what is read is the latest.                                *)
(***************************************************************************)
EXTENDS L1Harness, FiniteSetTheorems, SequenceTheorems, WellFoundedInduction, TLAPS

---------------------------------------------------------------------------
(* Types *)

Requests == UNION {w.requests : w \in Workloads}

\* States of a way.
ArrayState == StableL1 \cup Fetching

\* What an entry of the file holds.
EntryRec ==
    [ valid : BOOLEAN, line : Line \cup {NoLine}, state : L1State, req : Requests \cup {NoReq}, way : Way,
      is_evict : BOOLEAN, fresh : BOOLEAN, data_valid : BOOLEAN, ack_cnt : Int, done : BOOLEAN ]

\* Messages on VN1 and on VN2, and what the cache answers with.
FwdMsg == [line : Line, t : {"FWD_GETS", "FWD_GETM", "INV", "PUT_ACK"}]

\* Messages of line l.
FwdOf(l) == {m \in FwdMsg : m.line = l}

RspMsg == [line : Line, t : {"DATA_E", "DATA_DIR", "DATA_OWNER", "INV_ACK"}, ack : 0 .. 1, fresh : BOOLEAN]

RspOf(l) == {m \in RspMsg : m.line = l}

AnsType == {"INV_ACK", "DATA_OWNER", "WB_DATA"}

\* The V1 machine, and what a home has on record.
V1Rec == [fsm : {"IDLE", "READ", "SEND"}, msg : FwdMsg \cup {NoMsg}, way : Way, fresh : BOOLEAN, sends : SUBSET AnsType]

HomeRec == [us : {"I", "S", "X"}, them : {"I", "S", "X"}, pend : SUBSET AnsType, acks : 0 .. 1, fresh : BOOLEAN]

\* The types of the registers, and of what is around the cache.
CacheType ==
    /\ state_q \in [Way -> ArrayState] /\ tag_q \in [Way -> Line \cup {NoLine}]
    /\ data \in [Way -> Line \cup {NoLine}] /\ plru_q \in Way /\ retire_ptr \in Entry
    /\ mshr \in [Entry -> EntryRec]
    /\ s1 \in Requests \cup {NoReq} /\ rpl \in Requests \cup {NoReq}
    /\ s2 \in [wr : BOOLEAN, way : Way, data : Line \cup {NoLine}]
    /\ v1 \in V1Rec

EnvType ==
    /\ load \in Workloads
    /\ core_i \in load.requests \cup {NoReq}
    /\ vn1_i \in FwdMsg \cup {NoMsg} /\ vn2_i \in RspMsg \cup {NoMsg}
    /\ req \in [Line -> [t : ReqType \cup {"NONE"}, fresh : BOOLEAN]]
    /\ fwd \in [Line -> Seq(FwdMsg)] /\ \A l \in Line : fwd[l] \in Seq(FwdOf(l))
    /\ rsp \in [Line -> SUBSET RspMsg] /\ \A l \in Line : rsp[l] \subseteq RspOf(l)
    /\ home \in [Line -> HomeRec]

---------------------------------------------------------------------------
(* Where lines and requests are *)

\* An entry of a fetch.
Live(i) == mshr[i].valid /\ ~mshr[i].is_evict

\* A line is in one way and one entry at the most, and the entry of a fetch has a way.
Places ==
    /\ \A u, w \in Way : state_q[u] # "I" /\ state_q[w] # "I" /\ tag_q[u] = tag_q[w] => u = w
    /\ \A w \in Way : state_q[w] # "I" => tag_q[w] \in Line
    /\ \A i, j \in Entry : mshr[i].valid /\ mshr[j].valid /\ mshr[i].line = mshr[j].line => i = j
    /\ \A i \in Entry : mshr[i].valid =>
        /\ mshr[i].line \in Line
        /\ mshr[i].is_evict => mshr[i].req = NoReq /\ \A w \in Way : state_q[w] # "I" => tag_q[w] # mshr[i].line
        /\ ~mshr[i].is_evict => /\ mshr[i].req \in Requests /\ mshr[i].state \in ArrayState
                                /\ state_q[mshr[i].way] \in Fetching /\ tag_q[mshr[i].way] = mshr[i].line
    /\ \A i \in Entry : ~mshr[i].valid => mshr[i].req = NoReq

\* A place holds the request with the tag id.
HasEntry(id, i) == mshr[i].req # NoReq /\ mshr[i].req.id = id
Has(r, id) == r # NoReq /\ r.id = id

\* A request waits in one place, and only while the core waits for it.
HeldBy(id) ==
    /\ Has(s1, id) => ~Has(rpl, id) /\ ~Has(core_resp, id) /\ \A i \in Entry : ~HasEntry(id, i)
    /\ Has(rpl, id) => ~Has(core_resp, id) /\ \A i \in Entry : ~HasEntry(id, i)
    /\ Has(core_resp, id) => \A i \in Entry : ~HasEntry(id, i)
    /\ \A i, j \in Entry : HasEntry(id, i) /\ HasEntry(id, j) => i = j
    /\ id \in waiting <=> Has(s1, id) \/ Has(rpl, id) \/ Has(core_resp, id) \/ \E i \in Entry : HasEntry(id, i)

Requested ==
    /\ s1 = NoReq \/ rpl = NoReq
    /\ core_i # NoReq => core_i.id \notin waiting
    /\ \A r \in CoreRequests : HeldBy(r.id)
    /\ s1 \in CoreRequests \cup {NoReq} /\ rpl \in CoreRequests \cup {NoReq}
    /\ \A i \in Entry : mshr[i].req \in CoreRequests \cup {NoReq}

---------------------------------------------------------------------------
(* A line and its home *)

\* The state of a line in the array.
Arr(l) == IF HitWays(l) = {} THEN "I" ELSE state_q[WayOf(l)]

\* What is on its way on VN1: a demand d, and behind it an answer to a Put if p.
Forward(l, t) == [line |-> l, t |-> t]

Queue(l, d, p) ==
    IF d = "NONE" THEN IF p THEN <<Forward(l, "PUT_ACK")>> ELSE <<>>
    ELSE IF p THEN <<Forward(l, d), Forward(l, "PUT_ACK")>> ELSE <<Forward(l, d)>>

\* The one that is offered is the oldest.
FwdShape(l, d, p) ==
    \/ vn1_i.line # l /\ fwd[l] = Queue(l, d, p)
    \/ d # "NONE" /\ vn1_i = Forward(l, d) /\ fwd[l] = Queue(l, "NONE", p)
    \/ d = "NONE" /\ p /\ vn1_i = Forward(l, "PUT_ACK") /\ fwd[l] = <<>>

\* What is on its way on VN2: the data x, and the acknowledgement of the other sharer if a is 1.
Offered2(l) == IF vn2_i # NoMsg /\ vn2_i.line = l THEN {vn2_i} ELSE {}

RspShape(l, x, a) ==
    /\ rsp[l] \cup Offered2(l) = (IF x = NoMsg THEN {} ELSE {x}) \cup (IF a = 1 THEN {InvAck(l)} ELSE {})
    /\ rsp[l] \cap Offered2(l) = {}
    /\ x # NoMsg => x.t # "INV_ACK"
    /\ a \in 0 .. 1

\* A line in state st and a home that has us on record differ by the demand d on its way.
Agree(st, d, us) ==
    \/ st = "I" /\ d = "NONE" /\ us = "I"
    \/ st = "S" /\ (<<d, us>> \in {<<"NONE", "S">>, <<"INV", "I">>})
    \/ st \in {"E", "M"} /\ <<d, us>> \in {<<"NONE", "X">>, <<"FWD_GETS", "S">>, <<"FWD_GETM", "I">>}

\* What data grants, and what an eviction gives back.
Grant(x) == IF x.t = "DATA_E" THEN "E" ELSE "S"

EvictedFrom(st) == CASE st = "MI_A" -> "M" [] st = "EI_A" -> "E" [] st = "SI_A" -> "S" [] OTHER -> "I"

\* Nothing is on its way on VN2, and nothing will be.
None(l, x, a) == x = NoMsg /\ a = 0 /\ home[l].acks = 0

\* The life of a line: at rest; asked for; served, with data or acknowledgements to come; fetched;
\* and given back, with the Put to be served, its answer to come, or done with.
AtRest(l, d, p, x, a) ==
    req[l].t = "NONE" /\ ~p /\ None(l, x, a) /\ Agree(Arr(l), d, home[l].us)

Unserved(l, i, d, x, a) ==
    /\ ~mshr[i].done /\ None(l, x, a) /\ mshr[i].ack_cnt = 0 /\ ~mshr[i].data_valid
    /\ \/ req[l].t = "GETS" /\ Arr(l) = "IS_D" /\ Agree("I", d, home[l].us)
       \/ req[l].t = "GETM" /\ Arr(l) = "IM_AD" /\ Agree("I", d, home[l].us)
       \/ req[l].t = "GETM" /\ Arr(l) = "SM_AD" /\ Agree("S", d, home[l].us)

Served(l, i, d, x, a) ==
    /\ ~mshr[i].done /\ req[l].t = "NONE"
    /\ \/ /\ Arr(l) = "IS_D" /\ x # NoMsg /\ x.ack = 0 /\ a = 0 /\ home[l].acks = 0 /\ mshr[i].ack_cnt = 0
          /\ Agree(Grant(x), d, home[l].us)
       \/ /\ Arr(l) \in {"IM_AD", "SM_AD"} /\ x # NoMsg /\ x.t \in {"DATA_DIR", "DATA_OWNER"}
          /\ x.t = "DATA_OWNER" => x.ack = 0
          /\ x.ack \in 0 .. 1 /\ x.ack = a + home[l].acks - mshr[i].ack_cnt
          /\ mshr[i].ack_cnt \in -1 .. 0
          /\ Agree("M", d, home[l].us)
       \/ /\ Arr(l) \in {"IM_A", "SM_A"} /\ x = NoMsg /\ mshr[i].data_valid
          /\ mshr[i].ack_cnt = 1 /\ a + home[l].acks = 1
          /\ Agree("M", d, home[l].us)

Finished(l, i, d, x, a) ==
    /\ mshr[i].done /\ req[l].t = "NONE" /\ None(l, x, a) /\ mshr[i].data_valid
    /\ mshr[i].ack_cnt = 0
    /\ Agree(mshr[i].state, d, home[l].us) /\ mshr[i].state \in {"S", "E", "M"}
    /\ Arr(l) # "IS_D" => mshr[i].state = "M"

Fetched(l, i, d, p, x, a) ==
    ~p /\ (Unserved(l, i, d, x, a) \/ Served(l, i, d, x, a) \/ Finished(l, i, d, x, a))

Evicted(l, i, d, p, x, a) ==
    /\ None(l, x, a)
    /\ \/ /\ mshr[i].done /\ mshr[i].state = "I" /\ d = "NONE" /\ ~p /\ home[l].us = "I" /\ req[l].t = "NONE"
       \/ /\ ~mshr[i].done /\ ~p /\ req[l].t \in {"PUTS", "PUTE", "PUTM"}
          /\ mshr[i].state \in Evicting /\ Agree(EvictedFrom(mshr[i].state), d, home[l].us)
          /\ req[l].t = "PUTS" => mshr[i].state \in {"SI_A", "II_A"}
          /\ req[l].t = "PUTE" => mshr[i].state # "MI_A"
       \/ /\ ~mshr[i].done /\ p /\ req[l].t = "NONE" /\ home[l].us = "I"
          /\ mshr[i].state \in Evicting /\ \E u \in {"I", "S", "X"} : Agree(EvictedFrom(mshr[i].state), d, u)

\* What the V1 machine has to send for a line, and what a demand is answered with.
Sending(l) == IF v1.msg.line = l THEN v1.sends ELSE {}

Answers(d) == CASE d = "FWD_GETS" -> {"DATA_OWNER", "WB_DATA"} [] d = "FWD_GETM" -> {"DATA_OWNER"} [] d = "INV" -> {"INV_ACK"} [] OTHER -> {}

\* A home waits for the answers to the demand on its way and to the one taken.
PendOk(l, d) ==
    /\ home[l].pend = Answers(d) \cup Sending(l)
    /\ d # "NONE" => Sending(l) = {}

\* While a forward is answered its home grants nothing new.
Calm(l) ==
    Sending(l) # {} =>
        \/ EntriesOf(l) = {} /\ Arr(l) \in {"I", "S"}
        \/ req[l].t # "NONE"
        \/ \E i \in EntriesOf(l) : mshr[i].is_evict

\* What a line, its home and the messages between them have in common.
LineOk(l, d, p, x, a) ==
    /\ FwdShape(l, d, p) /\ RspShape(l, x, a) /\ PendOk(l, d) /\ Calm(l)
    /\ EntriesOf(l) = {} => AtRest(l, d, p, x, a)
    /\ \A i \in EntriesOf(l) : IF mshr[i].is_evict THEN Evicted(l, i, d, p, x, a) ELSE Fetched(l, i, d, p, x, a)

\* The demands a home makes.
Dem == {"NONE", "FWD_GETS", "FWD_GETM", "INV"}

LinesOk ==
    \A l \in Line : \E d \in Dem, p \in BOOLEAN, x \in rsp[l] \cup {vn2_i, NoMsg}, a \in 0 .. 1 : LineOk(l, d, p, x, a)

\* Nobody shares a line with its owner.
OthersOk ==
    \A l \in Line : /\ home[l].us # "I" => home[l].them # "X"
                    /\ home[l].us = "X" => home[l].them = "I"

\* An idle machine has nothing to send, and one that reads the array has data to send.
V1Ok == /\ v1.fsm = "IDLE" => v1.sends = {} /\ v1.msg = NoMsg
        /\ v1.fsm # "IDLE" => v1.msg \in FwdMsg
        /\ v1.fsm = "READ" => v1.sends \cap {"DATA_OWNER", "WB_DATA"} # {}

---------------------------------------------------------------------------
(* The table *)

\* An arc leads to one state.
LEMMA OneArc ==
  ASSUME NEW s, NEW e, NEW n, NEW m, <<s, e, n>> \in L1Arcs, <<s, e, m>> \in L1Arcs
  PROVE  n = m
BY DEF L1Arcs, CoreArcs, FwdArcs, InvArcs, RspArcs, Evicting

\* The controller goes where the arc leads.
LEMMA ArcTaken ==
  ASSUME NEW s, NEW e, NEW n \in L1State, <<s, e, n>> \in L1Arcs
  PROVE  TableNext(s, e) = n
BY OneArc DEF TableNext

\* An event with no arc leaves the state as it is.
LEMMA NoArc ==
  ASSUME NEW s, NEW e, \A n \in L1State : <<s, e, n>> \notin L1Arcs
  PROVE  TableNext(s, e) = s
BY DEF TableNext

\* What a message on VN2 does to a line that is fetched, and to no other.
RspNext(s, e) ==
    CASE s = "IS_D" /\ e = "DATA_E_DIR" -> "E"
      [] s = "IS_D" /\ e \in {"DATA_DIR_A0", "DATA_OWNER"} -> "S"
      [] s \in {"IM_AD", "SM_AD"} /\ e \in {"DATA_DIR_A0", "DATA_OWNER"} -> "M"
      [] s = "IM_AD" /\ e = "DATA_DIR_AGT0" -> "IM_A"
      [] s = "SM_AD" /\ e = "DATA_DIR_AGT0" -> "SM_A"
      [] OTHER -> s

\* The table moves a line in the array as RspNext says when a response comes.
LEMMA RspTable ==
  ASSUME NEW s \in ArrayState, NEW e \in RspEvent
  PROVE  TableNext(s, e) = RspNext(s, e) /\ RspNext(s, e) \in ArrayState
<1>1. RspNext(s, e) \in L1State /\ RspNext(s, e) \in ArrayState
  BY DEF RspNext, ArrayState, L1State, StableL1, Fetching
<1>2. CASE \E n \in L1State : <<s, e, n>> \in L1Arcs
  <2>1. <<s, e, RspNext(s, e)>> \in L1Arcs
    BY <1>2 DEF L1Arcs, CoreArcs, FwdArcs, InvArcs, RspArcs, RspNext, RspEvent, Evicting
  <2>. QED
    BY <1>1, <2>1, ArcTaken
<1>3. CASE \A n \in L1State : <<s, e, n>> \notin L1Arcs
  <2>1. RspNext(s, e) = s
    BY <1>3 DEF L1Arcs, RspArcs, RspNext, RspEvent, L1State, StableL1, Fetching
  <2>. QED
    BY <1>1, <1>3, <2>1, NoArc
<1>. QED
  BY <1>1, <1>2, <1>3

\* What a message on VN1 does to a line.
FwdNext(s, e) ==
    CASE s \in {"E", "M"} /\ e = "FWD_GETS" -> "S"
      [] s \in {"E", "M"} /\ e = "FWD_GETM" -> "I"
      [] s \in {"EI_A", "MI_A"} /\ e = "FWD_GETS" -> "SI_A"
      [] s \in {"EI_A", "MI_A"} /\ e = "FWD_GETM" -> "II_A"
      [] s = "S" /\ e = "INV" -> "I"
      [] s = "SM_AD" /\ e = "INV" -> "IM_AD"
      [] s = "SI_A" /\ e = "INV" -> "II_A"
      [] s \in Evicting /\ e = "PUT_ACK" -> "I"
      [] OTHER -> s

\* The table moves a line as FwdNext says when a forward comes.
LEMMA FwdTable ==
  ASSUME NEW s \in L1State, NEW e \in FwdEvent
  PROVE  /\ TableNext(s, e) = FwdNext(s, e) /\ FwdNext(s, e) \in L1State
         /\ s \in ArrayState => FwdNext(s, e) \in ArrayState
<1>1. RspNext(s, e) \in L1State /\ FwdNext(s, e) \in L1State /\ (s \in ArrayState => FwdNext(s, e) \in ArrayState)
  BY DEF RspNext, FwdNext, ArrayState, L1State, StableL1, Fetching, Evicting, FwdEvent
<1>2. CASE \E n \in L1State : <<s, e, n>> \in L1Arcs
  <2>1. <<s, e, FwdNext(s, e)>> \in L1Arcs
    BY <1>2 DEF L1Arcs, CoreArcs, FwdArcs, InvArcs, RspArcs, FwdNext, FwdEvent, Evicting
  <2>. QED
    BY <1>1, <2>1, ArcTaken
<1>3. CASE \A n \in L1State : <<s, e, n>> \notin L1Arcs
  <2>1. FwdNext(s, e) = s
    BY <1>3 DEF L1Arcs, FwdArcs, InvArcs, FwdNext, FwdEvent, L1State, StableL1, Fetching, Evicting
  <2>. QED
    BY <1>1, <1>3, <2>1, NoArc
<1>. QED
  BY <1>1, <1>2, <1>3

\* What the core does to a line.
CoreNext(s, e) ==
    CASE s = "I" /\ e = "LOAD" -> "IS_D"
      [] s = "I" /\ e = "STORE" -> "IM_AD"
      [] s = "S" /\ e = "STORE" -> "SM_AD"
      [] s \in {"E", "M"} /\ e = "STORE" -> "M"
      [] s = "S" /\ e = "EVICT" -> "SI_A"
      [] s = "E" /\ e = "EVICT" -> "EI_A"
      [] s = "M" /\ e = "EVICT" -> "MI_A"
      [] OTHER -> s

\* The table moves a line as CoreNext says when the core acts on it.
LEMMA CoreTable ==
  ASSUME NEW s \in ArrayState, NEW e \in CoreEvent
  PROVE  /\ TableNext(s, e) = CoreNext(s, e) /\ CoreNext(s, e) \in L1State
         /\ e # "EVICT" => CoreNext(s, e) \in ArrayState
<1>1. CoreNext(s, e) \in L1State /\ (e # "EVICT" => CoreNext(s, e) \in ArrayState)
  BY DEF CoreNext, ArrayState, L1State, StableL1, Fetching, Evicting, CoreEvent
<1>2. CASE \E n \in L1State : <<s, e, n>> \in L1Arcs
  <2>1. <<s, e, CoreNext(s, e)>> \in L1Arcs
    BY <1>2 DEF L1Arcs, CoreArcs, FwdArcs, InvArcs, RspArcs, CoreNext, CoreEvent, Evicting
  <2>. QED
    BY <1>1, <2>1, ArcTaken
<1>3. CASE \A n \in L1State : <<s, e, n>> \notin L1Arcs
  <2>1. CoreNext(s, e) = s
    BY <1>3 DEF L1Arcs, CoreArcs, CoreNext, CoreEvent, L1State, StableL1, Fetching, Evicting
  <2>. QED
    BY <1>1, <1>3, <2>1, NoArc
<1>. QED
  BY <1>1, <1>2, <1>3

\* A forward that is legal and does not stall finds a line at rest, an upgrade or an eviction.
LEMMA FwdTaken ==
  ASSUME NEW s \in L1State, NEW e \in FwdEvent, L1Legal(s, e), ~L1Stalls(s, e)
  PROVE  \/ s \in {"E", "M", "EI_A", "MI_A"} /\ e \in {"FWD_GETS", "FWD_GETM"}
         \/ s \in {"S", "SM_AD", "SI_A"} /\ e = "INV"
         \/ s \in Evicting /\ e = "PUT_ACK"
BY DEF L1Legal, L1Stalls, L1Arcs, CoreArcs, FwdArcs, InvArcs, RspArcs, FwdEvent, L1State, StableL1, Evicting, Fetching

---------------------------------------------------------------------------
(* Indices *)

\* The least of some entries is one of them.
LEMMA LeastIn ==
  ASSUME NEW S, S \subseteq Nat, S # {}
  PROVE  Least(S) \in S
<1>. DEFINE R == {ss \in Nat \X Nat : ss[1] < ss[2]}
<1>1. IsWellFoundedOn(R, Nat)
  BY NatLessThanWellFounded DEF OpToRel
<1>2. PICK x \in S : \A y \in S : ~(<<y, x>> \in R)
  BY <1>1, WFMin
<1>3. \A y \in S : ~(y < x)
  BY <1>2
<1>. HIDE DEF R
<1>4. x \in Nat /\ \A y \in S : y \in Nat
  OBVIOUS
<1>5. \A y \in S : x <= y
  BY <1>3, <1>4
<1>. QED
  BY <1>2, <1>5 DEF Least

\* The way found is the one that has the line.
LEMMA WayFound ==
  ASSUME NEW l
  PROVE  /\ WayOf(l) \in Way
         /\ HitWays(l) # {} => WayOf(l) \in HitWays(l)
         /\ HitWays(l) = {} => WayOf(l) = 0
<1>1. HitWays(l) \subseteq Way
  BY DEF HitWays
<1>2. WayOf(l) \in HitWays(l) \cup {0} /\ (HitWays(l) # {} => WayOf(l) \in HitWays(l))
  <2>. DEFINE H == HitWays(l)
  <2>1. PICK x \in H \cup {0} : (\A y \in H \cup {0} : y <= x) /\ (H # {} => x \in H)
    BY <1>1 DEF Way
  <2>2. Greatest(H \cup {0}) = x
    BY <1>1, <2>1 DEF Greatest, Way
  <2>. QED
    BY <2>1, <2>2 DEF WayOf
<1>. QED
  BY <1>1, <1>2 DEF Way

---------------------------------------------------------------------------
(* A clock edge, one register at a time *)

FreeIdx == Least({i \in Entry : ~mshr[i].valid})

\* What may happen to an entry in a cycle.
Opens(i) == (s1_evict \/ s1_alloc) /\ i = FreeIdx
Closes(i) == retire_now /\ i = retire_idx
Lands(i) == vn2_lands /\ i = vn2_idx
Turns(i) == ~vn2_lands /\ vn1_take /\ vn1_in_mshr /\ i = vn1_idx

\* A fetch whose line comes into way w.
Fills(w) == retire_now /\ ~mshr[retire_idx].is_evict /\ mshr[retire_idx].way = w

\* The indices found are those of what is looked for.
LEMMA Indices ==
  ASSUME CacheType
  PROVE  /\ s1_evict \/ s1_alloc => FreeIdx \in Entry /\ ~mshr[FreeIdx].valid
         /\ retire_now => retire_idx \in Entry /\ mshr[retire_idx].valid /\ mshr[retire_idx].done
         /\ vn2_lands => vn2_idx \in Entry /\ mshr[vn2_idx].valid /\ mshr[vn2_idx].line = vn2_i.line
         /\ vn1_in_mshr => /\ vn1_idx \in Entry /\ mshr[vn1_idx].valid /\ mshr[vn1_idx].line = vn1_i.line
                           /\ mshr[vn1_idx].is_evict
<1>0. Entry \subseteq Nat
  BY DEF Entry
<1>1. ASSUME s1_evict \/ s1_alloc PROVE FreeIdx \in {i \in Entry : ~mshr[i].valid}
  <2>1. {i \in Entry : ~mshr[i].valid} # {}
    BY <1>1 DEF s1_evict, s1_alloc, mshr_alloc_ready
  <2>. QED
    BY <1>0, <2>1, LeastIn DEF FreeIdx
<1>2. ASSUME retire_now PROVE retire_idx \in retire_req
  <2>. DEFINE S == IF \E i \in retire_req : i >= retire_ptr THEN {i \in retire_req : i >= retire_ptr} ELSE retire_req
  <2>1. S # {} /\ S \subseteq retire_req /\ S \subseteq Nat
    BY <1>0, <1>2 DEF retire_now, retire_req
  <2>2. Least(S) \in S
    BY <2>1, LeastIn
  <2>. QED
    BY <2>1, <2>2 DEF retire_idx
<1>3. ASSUME vn2_lands PROVE vn2_idx \in EntriesOf(vn2_i.line)
  <2>1. EntriesOf(vn2_i.line) # {} /\ EntriesOf(vn2_i.line) \subseteq Nat
    BY <1>0, <1>3 DEF vn2_lands, vn2_hit, EntriesOf
  <2>. QED
    BY <2>1, LeastIn DEF vn2_idx
<1>4. ASSUME vn1_in_mshr PROVE vn1_idx \in EvictionsOf(vn1_i.line)
  <2>1. EvictionsOf(vn1_i.line) # {} /\ EvictionsOf(vn1_i.line) \subseteq Nat
    BY <1>0, <1>4 DEF vn1_in_mshr, EvictionsOf, EntriesOf
  <2>. QED
    BY <2>1, LeastIn DEF vn1_idx
<1>. QED
  BY <1>1, <1>2, <1>3, <1>4 DEF retire_req, EntriesOf, EvictionsOf

\* The victim is a way, and none that is waited for when one can be found.
LEMMA Victim ==
  ASSUME CacheType
  PROVE  /\ s1_victim \in Way /\ s1_way \in Way
         /\ s1_victim_ok => \A i \in Entry : mshr[i].valid /\ ~mshr[i].is_evict => mshr[i].way # s1_victim
<1>1. ASSUME s1_victim_ok, plru_q \in set_reserved PROVE s1_victim \in Way \ set_reserved
  <2>1. Way \ set_reserved # {} /\ Way \ set_reserved \subseteq Nat
    BY <1>1 DEF s1_victim_ok, Way
  <2>2. Least(Way \ set_reserved) \in Way \ set_reserved
    BY <2>1, LeastIn
  <2>. QED
    BY <1>1, <2>2 DEF s1_victim
<1>2. s1_victim \in Way /\ (s1_victim_ok => s1_victim \notin set_reserved)
  BY <1>1 DEF s1_victim, CacheType
<1>3. s1_way \in Way
  BY <1>2, WayFound DEF s1_way
<1>. QED
  BY <1>2, <1>3 DEF set_reserved

\* The states and tags of the ways after the edge: the last assignment wins.
WayNext(w) ==
    IF s1_resp /\ w = WayOf(s1.line) THEN TableNext(s1_state, s1_event)
    ELSE IF ~s1_resp /\ s1_evict /\ w = s1_victim THEN "I"
    ELSE IF ~s1_resp /\ ~s1_evict /\ s1_alloc /\ w = s1_way THEN TableNext(s1_state, s1_event)
    ELSE IF Fills(w) THEN mshr[retire_idx].state
    ELSE IF vn2_lands /\ ~vn2_complete /\ w = vn2_way THEN vn2_state_eff
    ELSE IF vn1_take /\ ~vn1_in_mshr /\ HitWays(vn1_i.line) # {} /\ w = vn1_way THEN TableNext(vn1_state, vn1_event)
    ELSE state_q[w]

TagNext(w) ==
    IF s1_alloc /\ ~s1_hit /\ w = s1_victim THEN s1.line
    ELSE IF Fills(w) THEN mshr[retire_idx].line ELSE tag_q[w]

\* The array after the edge is what WayNext and TagNext say of each way.
LEMMA WayEdge ==
  ASSUME CacheType, Clock
  PROVE  state_q' = [w \in Way |-> WayNext(w)] /\ tag_q' = [w \in Way |-> TagNext(w)]
<1>0. /\ state_q = [w \in Way |-> state_q[w]] /\ tag_q = [w \in Way |-> tag_q[w]]
      /\ WayOf(s1.line) \in Way /\ s1_victim \in Way /\ s1_way \in Way /\ vn1_way \in Way /\ vn2_way \in Way
      /\ retire_now => mshr[retire_idx].way \in Way
  BY Indices, Victim, WayFound DEF CacheType, EntryRec, vn1_way, vn2_way
<1>1. NextState = [w \in Way |-> WayNext(w)]
  <2>. DEFINE a == IF vn1_take /\ ~vn1_in_mshr /\ HitWays(vn1_i.line) # {}
                   THEN [state_q EXCEPT ![vn1_way] = TableNext(vn1_state, vn1_event)] ELSE state_q
              b == IF vn2_lands /\ ~vn2_complete THEN [a EXCEPT ![vn2_way] = vn2_state_eff] ELSE a
              c == IF retire_now /\ ~mshr[retire_idx].is_evict
                   THEN [b EXCEPT ![mshr[retire_idx].way] = mshr[retire_idx].state] ELSE b
  <2>1. a = [w \in Way |-> IF vn1_take /\ ~vn1_in_mshr /\ HitWays(vn1_i.line) # {} /\ w = vn1_way
                           THEN TableNext(vn1_state, vn1_event) ELSE state_q[w]]
    BY <1>0
  <2>2. b = [w \in Way |-> IF vn2_lands /\ ~vn2_complete /\ w = vn2_way THEN vn2_state_eff ELSE a[w]]
    <3>. HIDE DEF a
    <3>. QED
      BY <1>0, <2>1
  <2>3. c = [w \in Way |-> IF Fills(w) THEN mshr[retire_idx].state ELSE b[w]]
    <3>. HIDE DEF b
    <3>. QED
      BY <1>0, <2>2 DEF Fills
  <2>4. NextState = IF s1_resp THEN [c EXCEPT ![WayOf(s1.line)] = TableNext(s1_state, s1_event)]
                    ELSE IF s1_evict THEN [c EXCEPT ![s1_victim] = "I"]
                    ELSE IF s1_alloc THEN [c EXCEPT ![s1_way] = TableNext(s1_state, s1_event)] ELSE c
    BY DEF NextState
  <2>. HIDE DEF a, b, c
  <2>5. \A w \in Way : c[w] = IF Fills(w) THEN mshr[retire_idx].state
            ELSE IF vn2_lands /\ ~vn2_complete /\ w = vn2_way THEN vn2_state_eff
            ELSE IF vn1_take /\ ~vn1_in_mshr /\ HitWays(vn1_i.line) # {} /\ w = vn1_way
            THEN TableNext(vn1_state, vn1_event) ELSE state_q[w]
    BY <2>1, <2>2, <2>3
  <2>6. NextState = [w \in Way |->
            IF s1_resp /\ w = WayOf(s1.line) THEN TableNext(s1_state, s1_event)
            ELSE IF ~s1_resp /\ s1_evict /\ w = s1_victim THEN "I"
            ELSE IF ~s1_resp /\ ~s1_evict /\ s1_alloc /\ w = s1_way THEN TableNext(s1_state, s1_event)
            ELSE c[w]]
    BY <1>0, <2>3, <2>4
  <2>. QED
    BY <2>5, <2>6 DEF WayNext
<1>2. NextTag = [w \in Way |-> TagNext(w)]
  BY <1>0 DEF NextTag, TagNext, Fills
<1>. QED
  BY <1>1, <1>2 DEF Clock

Entries == [Entry -> EntryRec]

\* An entry that is free, and one that is just allocated.
NewEntry ==
    IF s1_evict
    THEN [FreeEntry EXCEPT !.valid = TRUE, !.line = tag_q[s1_victim], !.is_evict = TRUE,
            !.state = TableNext(state_q[s1_victim], "EVICT"), !.fresh = LookedUp(s1_victim) = tag_q[s1_victim],
            !.way = s1_victim]
    ELSE [FreeEntry EXCEPT !.valid = TRUE, !.line = s1.line, !.req = s1, !.way = s1_way]

\* A free entry is an entry.
LEMMA FreeType == FreeEntry \in EntryRec
BY DEF FreeEntry, EntryRec, L1State, StableL1, Way

\* A request of a workload names a line and an operation, and is not the absence of one.
LEMMA RequestType ==
  ASSUME NEW r \in Requests PROVE r.line \in Line /\ r.op \in {"LD", "ST"} /\ r # NoReq
BY WorkloadShape, PipelineShape DEF Requests, NoReq

\* What is put into the entry that is allocated, for an eviction and for a request.
LEMMA NewType ==
  ASSUME CacheType, s1_evict \/ s1_alloc
  PROVE  /\ NewEntry \in EntryRec /\ NewEntry.valid /\ (NewEntry.is_evict <=> s1_evict)
         /\ NewEntry.line = (IF s1_evict THEN tag_q[s1_victim] ELSE s1.line)
         /\ NewEntry.req = (IF s1_evict THEN NoReq ELSE s1)
         /\ NewEntry.way = (IF s1_evict THEN s1_victim ELSE s1_way)
         /\ NewEntry.state = (IF s1_evict THEN TableNext(state_q[s1_victim], "EVICT") ELSE "I")
         /\ NewEntry.ack_cnt = 0 /\ ~NewEntry.done /\ ~NewEntry.data_valid
         /\ NewEntry.fresh <=> (s1_evict /\ LookedUp(s1_victim) = tag_q[s1_victim])
<1>1. /\ s1_victim \in Way /\ s1_way \in Way /\ tag_q[s1_victim] \in Line \cup {NoLine}
      /\ TableNext(state_q[s1_victim], "EVICT") \in L1State
  BY Victim, CoreTable DEF CacheType, CoreEvent
<1>2. s1 \in Requests \cup {NoReq} /\ s1.line \in Line \cup {NoLine}
  BY RequestType DEF CacheType, NoReq
<1>3. CASE s1_evict
  <2>0. PICK b : b = (LookedUp(s1_victim) = tag_q[s1_victim])
    OBVIOUS
  <2>1. NewEntry = [valid |-> TRUE, line |-> tag_q[s1_victim], state |-> TableNext(state_q[s1_victim], "EVICT"),
                    req |-> NoReq, way |-> s1_victim, is_evict |-> TRUE,
                    fresh |-> b, data_valid |-> FALSE, ack_cnt |-> 0, done |-> FALSE]
    BY <1>3, <2>0 DEF NewEntry, FreeEntry
  <2>2. NewEntry \in EntryRec
    BY <1>1, <1>3, <2>0, <2>1 DEF EntryRec
  <2>. QED
    BY <1>3, <2>0, <2>1, <2>2
<1>4. CASE ~s1_evict
  <2>1. NewEntry = [valid |-> TRUE, line |-> s1.line, state |-> "I", req |-> s1, way |-> s1_way, is_evict |-> FALSE,
                    fresh |-> FALSE, data_valid |-> FALSE, ack_cnt |-> 0, done |-> FALSE]
    BY <1>4 DEF NewEntry, FreeEntry
  <2>. QED
    BY <1>1, <1>2, <1>4, <2>1 DEF EntryRec, L1State, StableL1
<1>. QED
  BY <1>3, <1>4

\* The four writes of the file, in their order.
LEMMA FreedIs ==
  ASSUME NEW m \in Entries, CacheType
  PROVE  Freed(m) \in Entries /\ \A i \in Entry : Freed(m)[i] = IF Closes(i) THEN FreeEntry ELSE m[i]
BY FreeType, Indices DEF Freed, Closes, Entries

\* Allocation writes the first free entry only.
LEMMA AllocatedIs ==
  ASSUME NEW m \in Entries, CacheType
  PROVE  Allocated(m) \in Entries /\ \A i \in Entry : Allocated(m)[i] = IF Opens(i) THEN NewEntry ELSE m[i]
<1>1. Allocated(m) = IF ~(s1_evict \/ s1_alloc) THEN m ELSE [m EXCEPT ![FreeIdx] = NewEntry]
  BY DEF Allocated, NewEntry, FreeIdx
<1>. QED
  BY <1>1, NewType, Indices DEF Opens, Entries

\* A response is one of the events of the table.
LEMMA RspEvents ==
  ASSUME NEW m \in RspMsg
  PROVE  RspEventOf(m.t, m.ack) \in RspEvent
BY DEF RspMsg, RspEventOf, DataDirEvent, RspEvent

\* A forward is one of the events of the table, the one it is named for.
LEMMA FwdEvents ==
  ASSUME NEW m \in FwdMsg
  PROVE  FwdEventOf(m.t) = m.t /\ m.t \in FwdEvent
BY DEF FwdMsg, FwdEventOf, FwdEvent

\* The state a response writes.
LEMMA RspState ==
  ASSUME CacheType, EnvType, vn2_lands
  PROVE  /\ vn2_i \in RspMsg /\ vn2_event \in RspEvent /\ vn2_way \in Way /\ state_q[vn2_way] \in ArrayState
         /\ vn2_next = RspNext(state_q[vn2_way], vn2_event) /\ vn2_next \in ArrayState
         /\ vn2_state_eff \in ArrayState
<1>1. vn2_i \in RspMsg
  BY DEF vn2_lands, vn2_take, EnvType
<1>2. vn2_event \in RspEvent
  BY <1>1, RspEvents DEF vn2_event
<1>3. vn2_way \in Way /\ state_q[vn2_way] \in ArrayState
  BY WayFound DEF vn2_way, CacheType
<1>4. vn2_next = RspNext(state_q[vn2_way], vn2_event) /\ vn2_next \in ArrayState
  BY <1>2, <1>3, RspTable DEF vn2_next
<1>. QED
  BY <1>1, <1>2, <1>3, <1>4 DEF vn2_state_eff, ArrayState, StableL1

\* The state a forward is checked with, and the one it leads to.
LEMMA FwdState ==
  ASSUME CacheType, EnvType, vn1_valid
  PROVE  /\ vn1_i \in FwdMsg /\ vn1_event = vn1_i.t /\ vn1_event \in FwdEvent /\ vn1_way \in Way
         /\ vn1_state \in L1State
         /\ TableNext(vn1_state, vn1_event) = FwdNext(vn1_state, vn1_event)
         /\ TableNext(vn1_state, vn1_event) \in L1State
         /\ vn1_state \in ArrayState => TableNext(vn1_state, vn1_event) \in ArrayState
<1>1. vn1_i \in FwdMsg
  BY DEF vn1_valid, EnvType
<1>2. vn1_event = vn1_i.t /\ vn1_event \in FwdEvent
  BY <1>1, FwdEvents DEF vn1_event
<1>3. vn1_way \in Way
  BY WayFound DEF vn1_way
<1>4. vn1_state \in L1State
  BY <1>3, Indices DEF vn1_state, CacheType, EntryRec, ArrayState, L1State, StableL1
<1>. QED
  BY <1>1, <1>2, <1>3, <1>4, FwdTable

\* What a response writes to the entry of its line.
LEMMA LandedIs ==
  ASSUME NEW e \in EntryRec, CacheType, EnvType, vn2_lands
  PROVE  /\ Landed(e) \in EntryRec
         /\ Landed(e).valid = e.valid /\ Landed(e).line = e.line /\ Landed(e).req = e.req /\ Landed(e).way = e.way
         /\ Landed(e).is_evict = e.is_evict
         /\ Landed(e).state = (IF vn2_complete THEN vn2_state_eff ELSE e.state)
         /\ Landed(e).done <=> (e.done \/ vn2_complete)
         /\ Landed(e).fresh = (IF FillsData(vn2_event) THEN vn2_i.fresh ELSE e.fresh)
         /\ Landed(e).data_valid <=> (e.data_valid \/ FillsData(vn2_event))
         /\ Landed(e).ack_cnt = vn2_ack_next
<1>1. vn2_i \in RspMsg /\ vn2_state_eff \in L1State
  BY RspState DEF ArrayState, L1State
<1>2. vn2_ack_next \in Int
  BY <1>1, Indices DEF vn2_ack_next, CacheType, EntryRec, RspMsg
<1>3. PICK s, d, f, v, a : /\ s = (IF vn2_complete THEN vn2_state_eff ELSE e.state)
                           /\ d = (e.done \/ vn2_complete)
                           /\ f = (IF FillsData(vn2_event) THEN vn2_i.fresh ELSE e.fresh)
                           /\ v = (e.data_valid \/ FillsData(vn2_event))
                           /\ a = vn2_ack_next
  OBVIOUS
<1>4. s \in L1State /\ d \in BOOLEAN /\ f \in BOOLEAN /\ v \in BOOLEAN /\ a \in Int
  BY <1>1, <1>2, <1>3 DEF EntryRec, RspMsg
<1>5. Landed(e) = [e EXCEPT !.state = s, !.done = d, !.fresh = f, !.data_valid = v, !.ack_cnt = a]
  BY <1>3 DEF Landed
<1>6. Landed(e) = [valid |-> e.valid, line |-> e.line, state |-> s, req |-> e.req, way |-> e.way,
                   is_evict |-> e.is_evict, fresh |-> f, data_valid |-> v, ack_cnt |-> a, done |-> d]
  BY <1>5 DEF EntryRec
<1>7. Landed(e) \in EntryRec
  BY <1>4, <1>6 DEF EntryRec
<1>8. /\ Landed(e).valid = e.valid /\ Landed(e).line = e.line /\ Landed(e).req = e.req /\ Landed(e).way = e.way
      /\ Landed(e).is_evict = e.is_evict /\ Landed(e).state = s /\ Landed(e).done = d /\ Landed(e).fresh = f
      /\ Landed(e).data_valid = v /\ Landed(e).ack_cnt = a
  BY <1>6
<1>9. (Landed(e).done <=> d) /\ (Landed(e).data_valid <=> v)
  BY <1>8
<1>. QED
  BY <1>3, <1>7, <1>8, <1>9

\* What a forward writes to the entry of an eviction.
LEMMA TurnedIs ==
  ASSUME NEW e \in EntryRec, CacheType, EnvType, vn1_valid
  PROVE  /\ Turned(e) \in EntryRec
         /\ Turned(e).valid = e.valid /\ Turned(e).line = e.line /\ Turned(e).req = e.req /\ Turned(e).way = e.way
         /\ Turned(e).is_evict = e.is_evict
         /\ Turned(e).state = TableNext(vn1_state, vn1_event)
         /\ Turned(e).done <=> (e.done \/ vn1_event = "PUT_ACK")
         /\ Turned(e).fresh = e.fresh /\ Turned(e).data_valid = e.data_valid /\ Turned(e).ack_cnt = e.ack_cnt
<1>1. PICK s, d : s = TableNext(vn1_state, vn1_event) /\ d = (e.done \/ vn1_event = "PUT_ACK")
  OBVIOUS
<1>2. s \in L1State /\ d \in BOOLEAN
  BY <1>1, FwdState
<1>5. Turned(e) = [e EXCEPT !.state = s, !.done = d]
  BY <1>1 DEF Turned
<1>3. Turned(e) = [valid |-> e.valid, line |-> e.line, state |-> s, req |-> e.req, way |-> e.way,
                   is_evict |-> e.is_evict, fresh |-> e.fresh, data_valid |-> e.data_valid, ack_cnt |-> e.ack_cnt,
                   done |-> d]
  BY <1>5 DEF EntryRec
<1>4. Turned(e) \in EntryRec
  BY <1>2, <1>3 DEF EntryRec
<1>6. /\ Turned(e).valid = e.valid /\ Turned(e).line = e.line /\ Turned(e).req = e.req /\ Turned(e).way = e.way
      /\ Turned(e).is_evict = e.is_evict /\ Turned(e).state = s /\ Turned(e).done = d /\ Turned(e).fresh = e.fresh
      /\ Turned(e).data_valid = e.data_valid /\ Turned(e).ack_cnt = e.ack_cnt
  BY <1>3
<1>7. Turned(e).done <=> d
  BY <1>6
<1>. QED
  BY <1>1, <1>4, <1>6, <1>7

\* The update port writes the entry a response or a forward is for.
LEMMA UpdatedIs ==
  ASSUME NEW m \in Entries, CacheType, EnvType
  PROVE  /\ Updated(m) \in Entries
         /\ \A i \in Entry : Updated(m)[i] = IF Lands(i) THEN Landed(m[i]) ELSE IF Turns(i) THEN Turned(m[i]) ELSE m[i]
<1>1. vn1_take => vn1_valid
  BY DEF vn1_take
<1>2. Updated(m) = IF vn2_lands THEN [m EXCEPT ![vn2_idx] = Landed(m[vn2_idx])]
                   ELSE IF vn1_take /\ vn1_in_mshr THEN [m EXCEPT ![vn1_idx] = Turned(m[vn1_idx])] ELSE m
  BY DEF Updated
<1>. QED
  BY <1>1, <1>2, LandedIs, TurnedIs, Indices DEF Lands, Turns, Entries

AgedEntry(e) == [e EXCEPT !.fresh = Held(e.line, @)]

\* A store elsewhere takes the freshness from an entry, and nothing else.
LEMMA AgedEntryIs ==
  ASSUME NEW e \in EntryRec
  PROVE  /\ AgedEntry(e) \in EntryRec
         /\ AgedEntry(e).valid = e.valid /\ AgedEntry(e).line = e.line /\ AgedEntry(e).req = e.req
         /\ AgedEntry(e).way = e.way /\ AgedEntry(e).is_evict = e.is_evict /\ AgedEntry(e).state = e.state
         /\ AgedEntry(e).done = e.done /\ AgedEntry(e).data_valid = e.data_valid /\ AgedEntry(e).ack_cnt = e.ack_cnt
         /\ AgedEntry(e).fresh <=> (e.fresh /\ e.line # StoredLine)
<1>1. PICK f : f = Held(e.line, e.fresh)
  OBVIOUS
<1>2. f \in BOOLEAN /\ (f <=> (e.fresh /\ e.line # StoredLine))
  BY <1>1 DEF Held, EntryRec
<1>3. AgedEntry(e) = [valid |-> e.valid, line |-> e.line, state |-> e.state, req |-> e.req, way |-> e.way,
                      is_evict |-> e.is_evict, fresh |-> f, data_valid |-> e.data_valid, ack_cnt |-> e.ack_cnt,
                      done |-> e.done]
  BY <1>1 DEF EntryRec, AgedEntry
<1>4. AgedEntry(e) \in EntryRec
  BY <1>2, <1>3 DEF EntryRec
<1>. QED
  BY <1>2, <1>3, <1>4

\* Every entry ages by itself.
LEMMA AgedIs ==
  ASSUME NEW m \in Entries
  PROVE  Aged(m) \in Entries /\ \A i \in Entry : Aged(m)[i] = AgedEntry(m[i])
BY AgedEntryIs DEF Aged, AgedEntry, Entries

\* An entry e after the edge, e2, that is neither freed nor allocated, l meaning that a
\* response is for it and t that a forward is.
Kin(e, e2, l, t) ==
    /\ e2.valid = e.valid /\ e2.line = e.line /\ e2.req = e.req /\ e2.way = e.way /\ e2.is_evict = e.is_evict
    /\ e2.state = IF l THEN IF vn2_complete THEN vn2_state_eff ELSE e.state
                  ELSE IF t THEN TableNext(vn1_state, vn1_event) ELSE e.state
    /\ e2.done <=> e.done \/ (l /\ vn2_complete) \/ (~l /\ t /\ vn1_event = "PUT_ACK")
    /\ e2.data_valid <=> e.data_valid \/ (l /\ FillsData(vn2_event))
    /\ e2.ack_cnt = IF l THEN vn2_ack_next ELSE e.ack_cnt
    /\ e2.fresh <=> (IF l /\ FillsData(vn2_event) THEN vn2_i.fresh ELSE e.fresh) /\ e.line # StoredLine

\* An entry that is allocated.
Fresh(e) ==
    /\ e.valid /\ (e.is_evict <=> s1_evict)
    /\ e.line = IF s1_evict THEN tag_q[s1_victim] ELSE s1.line
    /\ e.req = IF s1_evict THEN NoReq ELSE s1
    /\ e.way = IF s1_evict THEN s1_victim ELSE s1_way
    /\ e.state = IF s1_evict THEN TableNext(state_q[s1_victim], "EVICT") ELSE "I"
    /\ e.ack_cnt = 0 /\ ~e.done /\ ~e.data_valid
    /\ e.fresh <=> s1_evict /\ LookedUp(s1_victim) = tag_q[s1_victim] /\ e.line # StoredLine

\* After the edge an entry is opened, closed, or the kin of what it was.
LEMMA EntryEdge ==
  ASSUME CacheType, EnvType, Clock
  PROVE  /\ mshr' \in Entries
         /\ \A i \in Entry :
              /\ Opens(i) => ~mshr[i].valid /\ ~Closes(i) /\ ~Lands(i) /\ ~Turns(i) /\ Fresh(mshr'[i])
              /\ Closes(i) => mshr[i].valid /\ mshr[i].done /\ ~mshr'[i].valid /\ mshr'[i].req = NoReq
              /\ Lands(i) => mshr[i].valid /\ mshr[i].line = vn2_i.line
              /\ Turns(i) => mshr[i].valid /\ mshr[i].line = vn1_i.line /\ mshr[i].is_evict
              /\ ~Opens(i) /\ ~Closes(i) => Kin(mshr[i], mshr'[i], Lands(i), Turns(i))
<1>0. /\ \A i \in Entry : Opens(i) => ~mshr[i].valid
      /\ \A i \in Entry : Closes(i) => mshr[i].valid /\ mshr[i].done
      /\ \A i \in Entry : Lands(i) => mshr[i].valid /\ mshr[i].line = vn2_i.line
      /\ \A i \in Entry : Turns(i) => mshr[i].valid /\ mshr[i].line = vn1_i.line /\ mshr[i].is_evict
  BY Indices DEF Opens, Closes, Lands, Turns
<1>1. PICK m1 \in Entries : m1 = Freed(mshr) /\ \A i \in Entry : m1[i] = IF Closes(i) THEN FreeEntry ELSE mshr[i]
  BY FreedIs DEF CacheType, Entries
<1>2. PICK m2 \in Entries : m2 = Allocated(m1) /\ \A i \in Entry : m2[i] = IF Opens(i) THEN NewEntry ELSE m1[i]
  BY AllocatedIs
<1>3. PICK m3 \in Entries : /\ m3 = Updated(m2)
                            /\ \A i \in Entry : m3[i] = IF Lands(i) THEN Landed(m2[i])
                                                        ELSE IF Turns(i) THEN Turned(m2[i]) ELSE m2[i]
  BY UpdatedIs
<1>4. mshr' \in Entries /\ \A i \in Entry : mshr'[i] = AgedEntry(m3[i])
  BY <1>1, <1>2, <1>3, AgedIs DEF Clock
<1>5. ASSUME NEW i \in Entry, Opens(i)
      PROVE  ~mshr[i].valid /\ ~Closes(i) /\ ~Lands(i) /\ ~Turns(i) /\ Fresh(mshr'[i])
  <2>1. ~mshr[i].valid /\ ~Closes(i) /\ ~Lands(i) /\ ~Turns(i)
    BY <1>0, <1>5
  <2>2. mshr'[i] = AgedEntry(NewEntry)
    BY <1>2, <1>3, <1>4, <1>5, <2>1
  <2>3. s1_evict \/ s1_alloc
    BY <1>5 DEF Opens
  <2>. QED
    BY <2>1, <2>2, <2>3, NewType, AgedEntryIs DEF Fresh
<1>6. ASSUME NEW i \in Entry, Closes(i) PROVE ~mshr'[i].valid /\ mshr'[i].req = NoReq
  <2>1. ~Opens(i) /\ m2[i] = FreeEntry
    BY <1>0, <1>1, <1>2, <1>6
  <2>2. m2[i] \in EntryRec /\ m3[i] \in EntryRec
    BY DEF Entries
  <2>3. m3[i].valid = m2[i].valid /\ m3[i].req = m2[i].req
    <3>1. CASE Lands(i)
      BY <1>3, <2>2, <3>1, LandedIs DEF Lands
    <3>2. CASE ~Lands(i) /\ Turns(i)
      BY <1>3, <2>2, <3>2, TurnedIs DEF Turns, vn1_take
    <3>3. CASE ~Lands(i) /\ ~Turns(i)
      BY <1>3, <3>3
    <3>. QED
      BY <3>1, <3>2, <3>3
  <2>4. m2[i].valid = FALSE /\ m2[i].req = NoReq
    BY <2>1 DEF FreeEntry
  <2>5. PICK e : e = m3[i]
    OBVIOUS
  <2>6. e \in EntryRec /\ ~e.valid /\ e.req = NoReq /\ mshr'[i] = AgedEntry(e)
    BY <1>4, <2>2, <2>3, <2>4, <2>5
  <2>. QED
    BY <2>6, AgedEntryIs
<1>7. ASSUME NEW i \in Entry, ~Opens(i), ~Closes(i) PROVE Kin(mshr[i], mshr'[i], Lands(i), Turns(i))
  <2>1. m2[i] = mshr[i] /\ mshr[i] \in EntryRec /\ m3[i] \in EntryRec
    BY <1>1, <1>2, <1>7 DEF Entries
  <2>2. PICK e, e2, e3 : e = mshr[i] /\ e3 = m3[i] /\ e2 = mshr'[i]
    OBVIOUS
  <2>3. e2 = AgedEntry(e3) /\ e \in EntryRec /\ e3 \in EntryRec
    BY <1>4, <2>1, <2>2
  <2>4. CASE Lands(i)
    <3>1. e3 = Landed(e) /\ vn2_lands
      BY <1>3, <2>1, <2>2, <2>4 DEF Lands
    <3>2. Kin(e, e2, TRUE, Turns(i))
      BY <2>3, <3>1, LandedIs, AgedEntryIs DEF Kin
    <3>. QED
      BY <2>2, <2>4, <3>2 DEF Kin
  <2>5. CASE ~Lands(i) /\ Turns(i)
    <3>1. e3 = Turned(e) /\ vn1_valid
      BY <1>3, <2>1, <2>2, <2>5 DEF Turns, vn1_take
    <3>2. Kin(e, e2, FALSE, TRUE)
      BY <2>3, <3>1, TurnedIs, AgedEntryIs DEF Kin
    <3>. QED
      BY <2>2, <2>5, <3>2 DEF Kin
  <2>6. CASE ~Lands(i) /\ ~Turns(i)
    <3>1. e3 = e
      BY <1>3, <2>1, <2>2, <2>6
    <3>2. Kin(e, e2, FALSE, FALSE)
      BY <2>3, <3>1, AgedEntryIs DEF Kin
    <3>. QED
      BY <2>2, <2>6, <3>2 DEF Kin
  <2>. QED
    BY <2>4, <2>5, <2>6
<1>. QED
  BY <1>0, <1>4, <1>5, <1>6, <1>7

\* Registers of the cache keep their types over a clock edge.
LEMMA V1Type ==
  ASSUME CacheType, EnvType, Clock
  PROVE  v1' \in V1Rec
<1>1. v1 \in V1Rec /\ v1' = NextV1
  BY DEF CacheType, Clock
<1>2. \A l, f : f \in BOOLEAN => Held(l, f) \in BOOLEAN
  BY DEF Held
<1>3. CASE v1.fsm = "IDLE" /\ vn1_take /\ vn1_sends # {}
  <2>1. vn1_i \in FwdMsg /\ vn1_way \in Way
    BY <1>3, FwdState DEF vn1_take
  <2>2. vn1_sends \in SUBSET AnsType
    BY DEF vn1_sends, AnsType
  <2>3. PICK f : f = (vn1_needs_line /\ vn1_in_mshr /\ Held(vn1_i.line, mshr[vn1_idx].fresh))
    OBVIOUS
  <2>4. f \in BOOLEAN
    BY <2>3
  <2>5. PICK m : m = IF vn1_needs_array THEN "READ" ELSE "SEND"
    OBVIOUS
  <2>6. v1' = [fsm |-> m, msg |-> vn1_i, way |-> vn1_way, sends |-> vn1_sends, fresh |-> f]
    BY <1>1, <1>3, <2>3, <2>5 DEF NextV1, V1Taken
  <2>. QED
    BY <2>1, <2>2, <2>4, <2>5, <2>6 DEF V1Rec
<1>4. CASE v1.fsm = "IDLE" /\ ~(vn1_take /\ vn1_sends # {})
  BY <1>1, <1>4 DEF NextV1, V1Taken
<1>5. CASE v1.fsm = "READ"
  <2>1. PICK f : f = Held(v1.msg.line, data[v1.way] = v1.msg.line)
    OBVIOUS
  <2>2. f \in BOOLEAN
    BY <2>1 DEF Held
  <2>3. v1' = [v1 EXCEPT !.fsm = "SEND", !.fresh = f]
    BY <1>1, <1>5, <2>1 DEF NextV1
  <2>. QED
    BY <1>1, <2>2, <2>3 DEF V1Rec
<1>6. CASE v1.fsm = "SEND" /\ v1.sends = {}
  <2>1. v1' = IdleV1
    BY <1>1, <1>6 DEF NextV1
  <2>. QED
    BY <2>1 DEF IdleV1, V1Rec, Way
<1>7. CASE v1.fsm = "SEND" /\ v1.sends # {}
  <2>1. PICK f, d : f = Held(v1.msg.line, v1.fresh) /\ d = v1.sends \ {V1Send}
    OBVIOUS
  <2>2. f \in BOOLEAN /\ d \in SUBSET AnsType
    BY <1>1, <2>1 DEF Held, V1Rec
  <2>3. v1' = [v1 EXCEPT !.sends = d, !.fresh = f]
    BY <1>1, <1>7, <2>1 DEF NextV1
  <2>. QED
    BY <1>1, <2>2, <2>3 DEF V1Rec
<1>. QED
  BY <1>1, <1>3, <1>4, <1>5, <1>6, <1>7 DEF V1Rec

\* The array keeps its type over a clock edge.
LEMMA ArrayType ==
  ASSUME CacheType, EnvType, Clock, \A i \in Entry : mshr[i].valid /\ ~mshr[i].is_evict => mshr[i].state \in ArrayState
  PROVE  state_q' \in [Way -> ArrayState] /\ tag_q' \in [Way -> Line \cup {NoLine}] /\ data' \in [Way -> Line \cup {NoLine}]
         /\ plru_q' \in Way
<1>1. ASSUME NEW w \in Way PROVE WayNext(w) \in ArrayState
  <2>1. s1_state \in ArrayState /\ TableNext(s1_state, s1_event) \in ArrayState
    <3>1. s1_state \in ArrayState
      BY WayFound DEF s1_state, CacheType, ArrayState, StableL1
    <3>2. s1_event \in CoreEvent /\ s1_event # "EVICT"
      BY DEF s1_event, CoreEvent
    <3>. QED
      BY <3>1, <3>2, CoreTable
  <2>2. Fills(w) => mshr[retire_idx].state \in ArrayState
    BY Indices DEF Fills
  <2>3. vn2_lands => vn2_state_eff \in ArrayState
    BY RspState
  <2>4. vn1_take /\ ~vn1_in_mshr => TableNext(vn1_state, vn1_event) \in ArrayState
    <3>1. ASSUME ~vn1_in_mshr PROVE vn1_state \in ArrayState
      BY <3>1, WayFound DEF vn1_state, vn1_way, CacheType, ArrayState, StableL1
    <3>. QED
      BY <3>1, FwdState DEF vn1_take
  <2>. QED
    BY <2>1, <2>2, <2>3, <2>4 DEF WayNext, CacheType, ArrayState, StableL1
<1>2. ASSUME NEW w \in Way PROVE TagNext(w) \in Line \cup {NoLine}
  <2>1. s1.line \in Line \cup {NoLine}
    BY RequestType DEF CacheType, NoReq
  <2>. QED
    BY <2>1, Indices DEF TagNext, Fills, CacheType, EntryRec
<1>3. data' \in [Way -> Line \cup {NoLine}]
  <2>1. \A w \in Way : NextData[w] \in Line \cup {NoLine}
    BY Indices DEF NextData, Kept, fill_writes_array, CacheType, EntryRec
  <2>. QED
    BY <2>1 DEF Clock, NextData
<1>4. plru_q' \in Way
  <2>1. s1_way \in Way /\ plru_q \in Way
    BY Victim DEF CacheType
  <2>2. retire_now => mshr[retire_idx].way \in Way
    BY Indices DEF CacheType, EntryRec
  <2>. QED
    BY <2>1, <2>2 DEF Clock, NextPlru, Way
<1>. QED
  BY <1>1, <1>2, <1>3, <1>4, WayEdge

\* The registers of the core pipeline and of the store write keep their types.
LEMMA RestType ==
  ASSUME CacheType, EnvType, Clock
  PROVE  /\ retire_ptr' \in Entry /\ s1' \in Requests \cup {NoReq} /\ rpl' \in Requests \cup {NoReq}
         /\ s2' \in [wr : BOOLEAN, way : Way, data : Line \cup {NoLine}]
<1>1. retire_ptr' \in Entry
  BY Indices, PipelineShape DEF Clock, CacheType, Entry
<1>2. core_i \in Requests \cup {NoReq}
  BY DEF EnvType, Requests
<1>3. s1' \in Requests \cup {NoReq} /\ rpl' \in Requests \cup {NoReq}
  BY <1>2 DEF Clock, CacheType
<1>4. s2' \in [wr : BOOLEAN, way : Way, data : Line \cup {NoLine}]
  <2>1. WayOf(s1.line) \in Way
    BY WayFound
  <2>2. LookedUp(WayOf(s1.line)) \in Line \cup {NoLine}
    BY <2>1 DEF LookedUp, CacheType
  <2>3. NoWrite \in [wr : BOOLEAN, way : Way, data : Line \cup {NoLine}]
    BY DEF NoWrite, Way
  <2>4. CASE StoreAtS1
    <3>1. PICK w, d : w = WayOf(s1.line) /\ d = LookedUp(WayOf(s1.line))
      OBVIOUS
    <3>2. s2' = [wr |-> TRUE, way |-> w, data |-> d]
      BY <2>4, <3>1 DEF Clock
    <3>. QED
      BY <2>1, <2>2, <3>1, <3>2
  <2>5. CASE ~StoreAtS1
    BY <2>3, <2>5 DEF Clock
  <2>. QED
    BY <2>4, <2>5
<1>. QED
  BY <1>1, <1>3, <1>4

\* The cache's registers keep their types over a clock edge.
LEMMA CacheTypeTick ==
  ASSUME CacheType, EnvType, Clock, \A i \in Entry : mshr[i].valid /\ ~mshr[i].is_evict => mshr[i].state \in ArrayState
  PROVE  CacheType'
BY V1Type, ArrayType, RestType, EntryEdge DEF CacheType, Entries

\* What the line's home is told in a cycle: NextVn2Out, when a message goes out.
LEMMA OutType ==
  ASSUME CacheType
  PROVE  \/ NextVn2Out = NoMsg
         \/ /\ v1.fsm = "SEND" /\ v1.sends # {} /\ V1Send \in v1.sends /\ V1Send \in AnsType
            /\ NextVn2Out = [line |-> v1.msg.line, t |-> V1Send, fresh |-> Held(v1.msg.line, v1.fresh)]
<1>1. v1.sends \subseteq AnsType
  BY DEF CacheType, V1Rec
<1>2. v1.sends # {} => V1Send \in v1.sends
  BY <1>1 DEF V1Send, AnsType
<1>. QED
  BY <1>1, <1>2 DEF NextVn2Out

\* What a home g has on record for line l after the cycle, having had h.
Told(h, g, l) ==
    /\ g \in HomeRec /\ g.us = h.us /\ g.them = h.them /\ g.acks = h.acks
    /\ g.pend = IF NextVn2Out.line = l THEN h.pend \ {NextVn2Out.t} ELSE h.pend
    /\ g.fresh <=> IF NextVn2Out.line = l /\ NextVn2Out.t # "INV_ACK" THEN NextVn2Out.fresh
                   ELSE h.fresh /\ StoredLine # l

\* A home that is told of an answer and of a store has on record what Told says.
LEMMA HomeTold ==
  ASSUME CacheType, NEW h \in HomeRec, NEW l \in Line
  PROVE  Told(h, Answered(Forgotten(h, l), l), l)
<1>1. PICK f, f2, g : f = Forgotten(h, l) /\ f2 = (h.fresh /\ StoredLine # l) /\ g = Answered(f, l)
  OBVIOUS
<1>2. f2 \in BOOLEAN
  BY <1>1
<1>3. f = [us |-> h.us, them |-> h.them, pend |-> h.pend, acks |-> h.acks, fresh |-> f2]
  <2>1. CASE StoredLine = l
    <3>1. f = [h EXCEPT !.fresh = FALSE] /\ f2 = FALSE
      BY <1>1, <2>1 DEF Forgotten
    <3>. QED
      BY <3>1 DEF HomeRec
  <2>2. CASE StoredLine # l
    <3>1. f = h /\ f2 = h.fresh
      BY <1>1, <2>2 DEF Forgotten, HomeRec
    <3>. QED
      BY <3>1 DEF HomeRec
  <2>. QED
    BY <2>1, <2>2
<1>4. CASE NextVn2Out.line # l
  <2>1. g = f
    BY <1>1, <1>4 DEF Answered
  <2>2. g \in HomeRec
    BY <1>2, <1>3, <2>1 DEF HomeRec
  <2>3. g.us = h.us /\ g.them = h.them /\ g.acks = h.acks /\ g.pend = h.pend /\ g.fresh = f2
    BY <1>3, <2>1
  <2>. QED
    BY <1>1, <1>4, <2>2, <2>3 DEF Told
<1>5. CASE NextVn2Out.line = l
  <2>1. NextVn2Out # NoMsg
    BY <1>5, PipelineShape DEF NoMsg
  <2>2. PICK n, o : n = (IF NextVn2Out.t = "INV_ACK" THEN f2 ELSE NextVn2Out.fresh) /\ o = h.pend \ {NextVn2Out.t}
    OBVIOUS
  <2>3. NextVn2Out.fresh = Held(v1.msg.line, v1.fresh)
    BY <2>1, OutType
  <2>4. n \in BOOLEAN
    BY <1>2, <2>2, <2>3 DEF Held, CacheType, V1Rec
  <2>5. g = [f EXCEPT !.pend = o, !.fresh = n]
    <3>1. f.pend = h.pend /\ f.fresh = f2 /\ [f EXCEPT !.pend = o].fresh = f2
      BY <1>3
    <3>. QED
      BY <1>1, <1>5, <2>2, <3>1 DEF Answered
  <2>6. g = [us |-> h.us, them |-> h.them, pend |-> o, acks |-> h.acks, fresh |-> n]
    BY <1>3, <2>5
  <2>7. g \in HomeRec
    BY <2>2, <2>4, <2>6 DEF HomeRec
  <2>8. g.us = h.us /\ g.them = h.them /\ g.acks = h.acks /\ g.pend = o /\ g.fresh = n
    BY <2>6
  <2>. QED
    BY <1>1, <1>5, <2>2, <2>7, <2>8 DEF Told
<1>. QED
  BY <1>1, <1>4, <1>5

\* A forward is put before the cache once what was there has been taken.
Moves == ~(vn1_valid /\ ~vn1_take)

\* What is offered on VN1 and VN2 next, and what is left.
LEMMA FwdEdge ==
  ASSUME EnvType, tick
  PROVE  /\ vn1_i' \in FwdMsg \cup {NoMsg}
         /\ ~Moves => vn1_i' = vn1_i /\ fwd' = fwd
         /\ Moves => /\ fwd' = [l \in Line |-> IF vn1_i'.line = l THEN Tail(fwd[l]) ELSE fwd[l]]
                     /\ \A l \in Line : vn1_i'.line = l => fwd[l] # <<>> /\ vn1_i' = fwd[l][1]
<1>1. PICK m : /\ NextVn1(m) /\ vn1_i' = m
               /\ fwd' = [l \in Line |-> IF m.line = l /\ Moves THEN Tail(fwd[l]) ELSE fwd[l]]
  BY DEF tick, Moves
<1>2. fwd = [l \in Line |-> fwd[l]]
  BY DEF EnvType
<1>3. CASE ~Moves
  <2>1. m = vn1_i
    BY <1>1, <1>3 DEF NextVn1, Moves
  <2>. QED
    BY <1>1, <1>2, <1>3, <2>1 DEF EnvType
<1>4. CASE Moves
  <2>1. m = NoMsg \/ \E k \in Line : fwd[k] # <<>> /\ m = fwd[k][1]
    BY <1>1, <1>4 DEF NextVn1, Moves
  <2>2. ASSUME NEW k \in Line, fwd[k] # <<>> PROVE fwd[k][1] \in FwdOf(k)
    BY <2>2 DEF EnvType
  <2>3. NoMsg.line \notin Line
    BY PipelineShape DEF NoMsg
  <2>4. m \in FwdMsg \cup {NoMsg} /\ \A l \in Line : m.line = l => fwd[l] # <<>> /\ m = fwd[l][1]
    BY <2>1, <2>2, <2>3 DEF FwdOf
  <2>. QED
    BY <1>1, <1>4, <2>4
<1>. QED
  BY <1>3, <1>4

\* The response offered next is one on its way, and is taken from there.
LEMMA RspEdge ==
  ASSUME EnvType, tick
  PROVE  /\ vn2_i' \in RspMsg \cup {NoMsg} /\ rsp' = [l \in Line |-> rsp[l] \ {vn2_i'}]
         /\ \A l \in Line : vn2_i'.line = l => vn2_i' \in rsp[l]
<1>1. PICK n : NextVn2(n) /\ vn2_i' = n /\ rsp' = [l \in Line |-> rsp[l] \ {n}]
  BY DEF tick
<1>2. NoMsg.line \notin Line
  BY PipelineShape DEF NoMsg
<1>. QED
  BY <1>1, <1>2 DEF NextVn2, EnvType, RspOf

\* What is around the cache keeps its type over a clock edge.
LEMMA EnvTypeTick ==
  ASSUME CacheType, EnvType, tick
  PROVE  EnvType'
<1>1. load' = load /\ core_i' \in load.requests \cup {NoReq}
  BY DEF tick, NextCore, CoreRequests
<1>2. vn1_i' \in FwdMsg \cup {NoMsg} /\ vn2_i' \in RspMsg \cup {NoMsg}
  BY FwdEdge, RspEdge
<1>3. req' \in [Line -> [t : ReqType \cup {"NONE"}, fresh : BOOLEAN]]
  <2>1. Vn0Type \in ReqType
    BY DEF Vn0Type, PutOf, ReqType
  <2>2. ASSUME NEW l \in Line PROVE req'[l] \in [t : ReqType \cup {"NONE"}, fresh : BOOLEAN]
    <3>1. PICK b, c : b = (s1_evict /\ LookedUp(s1_victim) = tag_q[s1_victim]) /\ c = Held(l, req[l].fresh)
      OBVIOUS
    <3>2. b \in BOOLEAN /\ c \in BOOLEAN
      BY <3>1 DEF Held, EnvType
    <3>3. req'[l] = IF (s1_evict \/ s1_alloc) /\ Vn0Line = l THEN [t |-> Vn0Type, fresh |-> b] ELSE [req[l] EXCEPT !.fresh = c]
      BY <3>1 DEF tick
    <3>4. req[l] \in [t : ReqType \cup {"NONE"}, fresh : BOOLEAN]
      BY DEF EnvType
    <3>5. [req[l] EXCEPT !.fresh = c] \in [t : ReqType \cup {"NONE"}, fresh : BOOLEAN]
      BY <3>2, <3>4
    <3>. QED
      BY <2>1, <3>2, <3>3, <3>5
  <2>. QED
    BY <2>2 DEF tick
<1>4. fwd' \in [Line -> Seq(FwdMsg)] /\ \A l \in Line : fwd'[l] \in Seq(FwdOf(l))
  <2>1. ASSUME NEW l \in Line, vn1_i'.line = l, fwd[l] # <<>> PROVE Tail(fwd[l]) \in Seq(FwdMsg) /\ Tail(fwd[l]) \in Seq(FwdOf(l))
    BY <2>1 DEF EnvType
  <2>2. ASSUME NEW l \in Line PROVE fwd'[l] \in Seq(FwdMsg) /\ fwd'[l] \in Seq(FwdOf(l))
    BY <2>1, FwdEdge DEF EnvType
  <2>. QED
    BY <2>2, FwdEdge DEF EnvType
<1>5. rsp' \in [Line -> SUBSET RspMsg] /\ \A l \in Line : rsp'[l] \subseteq RspOf(l)
  BY RspEdge DEF EnvType
<1>6. home' \in [Line -> HomeRec]
  <2>1. ASSUME NEW l \in Line PROVE Answered(Forgotten(home[l], l), l) \in HomeRec
    BY HomeTold DEF EnvType, Told
  <2>. QED
    BY <2>1 DEF tick
<1>. QED
  BY <1>1, <1>2, <1>3, <1>4, <1>5, <1>6 DEF EnvType

\* A request that is allocated an entry misses, or upgrades a shared line; what is written
\* to its way is a transient state.
LEMMA AllocFacts ==
  ASSUME CacheType, s1_alloc
  PROVE  /\ ~s1_resp /\ ~s1_evict /\ s1 \in Requests /\ s1.line \in Line /\ s1_way \in Way
         /\ EntriesOf(s1.line) = {}
         /\ s1_hit => /\ s1_way \in HitWays(s1.line) /\ state_q[s1_way] = "S" /\ s1_event = "STORE"
                      /\ TableNext(s1_state, s1_event) = "SM_AD"
         /\ ~s1_hit => /\ s1_way = s1_victim /\ state_q[s1_victim] = "I" /\ s1_victim_ok
                       /\ TableNext(s1_state, s1_event) = IF s1_event = "STORE" THEN "IM_AD" ELSE "IS_D"
         /\ TableNext(s1_state, s1_event) \in Fetching
<1>1. s1 \in Requests /\ s1_needs_txn /\ ~s1_evict /\ EntriesOf(s1.line) = {} /\ (s1_hit \/ (s1_victim_ok /\ ~needs_evict))
  BY DEF s1_alloc, CacheType, s1_valid
<1>2. ~s1_resp
  BY <1>1 DEF s1_resp, s1_served
<1>3. s1.line \in Line /\ s1_way \in Way
  BY <1>1, RequestType, Victim
<1>4. s1_event \in {"STORE", "LOAD"}
  BY DEF s1_event
<1>5. ASSUME s1_hit
      PROVE  /\ s1_way \in HitWays(s1.line) /\ state_q[s1_way] = "S" /\ s1_event = "STORE"
             /\ TableNext(s1_state, s1_event) = "SM_AD"
  <2>1. s1_way \in HitWays(s1.line) /\ s1_state = state_q[s1_way] /\ state_q[s1_way] # "I"
    BY <1>5, WayFound DEF s1_hit, s1_way, s1_state, HitWays
  <2>2. s1_state = "S" /\ s1_event = "STORE"
    BY <1>1, <2>1 DEF s1_needs_txn
  <2>3. TableNext("S", "STORE") = CoreNext("S", "STORE")
    BY CoreTable DEF CoreEvent, ArrayState, StableL1
  <2>. QED
    BY <2>1, <2>2, <2>3 DEF CoreNext
<1>6. ASSUME ~s1_hit
      PROVE  /\ s1_way = s1_victim /\ state_q[s1_victim] = "I" /\ s1_victim_ok
             /\ TableNext(s1_state, s1_event) = IF s1_event = "STORE" THEN "IM_AD" ELSE "IS_D"
  <2>1. s1_way = s1_victim /\ s1_victim_ok /\ state_q[s1_victim] = "I" /\ s1_state = "I"
    BY <1>1, <1>6 DEF needs_evict, s1_way, s1_state
  <2>2. TableNext("I", "STORE") = CoreNext("I", "STORE") /\ TableNext("I", "LOAD") = CoreNext("I", "LOAD")
    BY CoreTable DEF CoreEvent, ArrayState, StableL1
  <2>3. CoreNext("I", "STORE") = "IM_AD" /\ CoreNext("I", "LOAD") = "IS_D"
    BY DEF CoreNext
  <2>. QED
    BY <1>4, <2>1, <2>2, <2>3
<1>. QED
  BY <1>1, <1>2, <1>3, <1>5, <1>6 DEF Fetching

\* A request that hits leaves a line with the cache, and one that is fetched in its state.
LEMMA RespFacts ==
  ASSUME CacheType, s1_resp
  PROVE  /\ s1 \in Requests /\ s1.line \in Line /\ ~s1_evict /\ ~s1_alloc /\ ~retire_now
         /\ WayOf(s1.line) \in HitWays(s1.line) /\ s1_state = state_q[WayOf(s1.line)] /\ s1_hit
         /\ s1_way = WayOf(s1.line)
         /\ \/ s1_event = "LOAD" /\ s1_state \in {"S", "E", "M", "SM_AD", "SM_A"} /\ TableNext(s1_state, s1_event) = s1_state
            \/ s1_event = "STORE" /\ s1_state \in {"E", "M"} /\ TableNext(s1_state, s1_event) = "M"
<1>1. s1 \in Requests /\ ~s1_needs_txn /\ ~L1Stalls(s1_state, s1_event)
  BY DEF s1_resp, s1_served, s1_valid, CacheType
<1>2. s1.line \in Line /\ ~s1_evict /\ ~s1_alloc /\ ~retire_now
  BY <1>1, RequestType DEF s1_evict, s1_alloc, retire_now
<1>3. s1_hit /\ s1_state # "I"
  BY <1>1 DEF s1_needs_txn, s1_state
<1>4. WayOf(s1.line) \in HitWays(s1.line) /\ s1_state = state_q[WayOf(s1.line)] /\ s1_way = WayOf(s1.line)
  BY <1>3, WayFound DEF s1_hit, s1_state, s1_way
<1>5. s1_state \in ArrayState
  BY <1>4 DEF HitWays, CacheType
<1>6. s1_event \in {"STORE", "LOAD"}
  BY DEF s1_event
<1>7. s1_event = "LOAD" => s1_state \in {"S", "E", "M", "SM_AD", "SM_A"}
  BY <1>1, <1>3, <1>5 DEF L1Stalls, CoreEvent, ArrayState, StableL1, Fetching
<1>8. s1_event = "STORE" => s1_state \in {"E", "M"}
  BY <1>1, <1>3, <1>5 DEF L1Stalls, s1_needs_txn, CoreEvent, ArrayState, StableL1, Fetching
<1>9. TableNext(s1_state, s1_event) = CoreNext(s1_state, s1_event)
  BY <1>5, <1>6, CoreTable DEF CoreEvent
<1>10. s1_event = "LOAD" => CoreNext(s1_state, s1_event) = s1_state
  BY <1>7 DEF CoreNext
<1>11. s1_event = "STORE" => CoreNext(s1_state, s1_event) = "M"
  BY <1>8 DEF CoreNext
<1>. QED
  BY <1>1, <1>2, <1>3, <1>4, <1>6, <1>7, <1>8, <1>9, <1>10, <1>11

\* A victim is a line with the cache, and no fetch is for its way.
LEMMA EvictFacts ==
  ASSUME CacheType, s1_evict
  PROVE  /\ s1 \in Requests /\ ~s1_resp /\ ~s1_alloc /\ s1_victim \in Way /\ state_q[s1_victim] # "I" /\ s1_victim_ok
         /\ EntriesOf(tag_q[s1_victim]) = {} /\ ~s1_hit /\ s1_way = s1_victim
BY Victim DEF s1_evict, needs_evict, s1_resp, s1_served, s1_alloc, victim_busy, s1_valid, CacheType, s1_way

\* A response that does not complete the fetch leaves it a fetch, and nothing else is changed by one.
LEMMA RspWay ==
  ASSUME CacheType, EnvType, vn2_lands, ~vn2_complete
  PROVE  LET s == state_q[vn2_way]
         IN  /\ vn2_state_eff = RspNext(s, vn2_event) /\ vn2_event \in {"DATA_DIR_AGT0", "INV_ACK"}
             /\ s \in Fetching <=> vn2_state_eff \in Fetching
             /\ s \notin Fetching => vn2_state_eff = s
<1>1. vn2_event \in {"DATA_DIR_AGT0", "INV_ACK"} /\ ~vn2_counted
  BY RspState DEF vn2_complete, Completes, RspEvent
<1>2. vn2_state_eff = RspNext(state_q[vn2_way], vn2_event)
  BY <1>1, RspState DEF vn2_state_eff
<1>3. state_q[vn2_way] \in ArrayState
  BY RspState
<1>. QED
  BY <1>1, <1>2, <1>3 DEF RspNext, Fetching

\* A forward that is taken by the array finds a line at rest or an upgrade.
LEMMA FwdWay ==
  ASSUME CacheType, EnvType, vn1_take, ~vn1_in_mshr, HitWays(vn1_i.line) # {}
  PROVE  /\ vn1_way \in HitWays(vn1_i.line) /\ vn1_state = state_q[vn1_way]
         /\ \/ vn1_state \in {"E", "M"} /\ vn1_i.t = "FWD_GETS" /\ TableNext(vn1_state, vn1_event) = "S"
            \/ vn1_state \in {"E", "M"} /\ vn1_i.t = "FWD_GETM" /\ TableNext(vn1_state, vn1_event) = "I"
            \/ vn1_state = "S" /\ vn1_i.t = "INV" /\ TableNext(vn1_state, vn1_event) = "I"
            \/ vn1_state = "SM_AD" /\ vn1_i.t = "INV" /\ TableNext(vn1_state, vn1_event) = "IM_AD"
<1>1. vn1_way \in HitWays(vn1_i.line) /\ vn1_state = state_q[vn1_way] /\ vn1_state \in ArrayState
  BY WayFound DEF vn1_way, vn1_state, CacheType
<1>2. vn1_valid /\ L1Legal(vn1_state, vn1_event) /\ ~L1Stalls(vn1_state, vn1_event)
  BY DEF vn1_take
<1>3. \/ vn1_state \in {"E", "M"} /\ vn1_event \in {"FWD_GETS", "FWD_GETM"}
      \/ vn1_state \in {"S", "SM_AD"} /\ vn1_event = "INV"
  BY <1>1, <1>2, FwdTaken, FwdState DEF ArrayState, StableL1, Fetching, Evicting
<1>4. TableNext(vn1_state, vn1_event) = FwdNext(vn1_state, vn1_event) /\ vn1_event = vn1_i.t
  BY <1>2, FwdState
<1>5. \/ vn1_state \in {"E", "M"} /\ vn1_event = "FWD_GETS" /\ FwdNext(vn1_state, vn1_event) = "S"
      \/ vn1_state \in {"E", "M"} /\ vn1_event = "FWD_GETM" /\ FwdNext(vn1_state, vn1_event) = "I"
      \/ vn1_state = "S" /\ vn1_event = "INV" /\ FwdNext(vn1_state, vn1_event) = "I"
      \/ vn1_state = "SM_AD" /\ vn1_event = "INV" /\ FwdNext(vn1_state, vn1_event) = "IM_AD"
  BY <1>3 DEF FwdNext
<1>. QED
  BY <1>1, <1>4, <1>5

---------------------------------------------------------------------------
(* Where lines are over a clock edge *)

\* What comes into a way is what its entry fetched.
LEMMA FillFacts ==
  ASSUME CacheType, Places, NEW w \in Way, Fills(w)
  PROVE  /\ retire_idx \in Entry /\ Live(retire_idx) /\ mshr[retire_idx].done /\ Closes(retire_idx)
         /\ state_q[w] \in Fetching /\ tag_q[w] = mshr[retire_idx].line /\ mshr[retire_idx].way = w
         /\ ~s1_resp
<1>1. retire_idx \in Entry /\ mshr[retire_idx].valid /\ mshr[retire_idx].done /\ retire_now
  BY Indices DEF Fills
<1>. QED
  BY <1>1 DEF Fills, Places, Live, Closes, retire_now

\* No way that a fetch is for is the victim, nor that of a request that is allocated an entry.
LEMMA LiveWay ==
  ASSUME CacheType, Places, NEW i \in Entry, Live(i), NEW w, w = mshr[i].way
  PROVE  /\ w \in Way /\ state_q[w] \in Fetching /\ tag_q[w] = mshr[i].line /\ w \in HitWays(mshr[i].line)
         /\ s1_evict => w # s1_victim
         /\ s1_alloc => w # s1_way
         /\ Fills(w) => retire_idx = i
<1>1. w \in Way /\ state_q[w] \in Fetching /\ tag_q[w] = mshr[i].line
  BY DEF Places, Live, CacheType, EntryRec
<1>2. w \in HitWays(mshr[i].line)
  BY <1>1 DEF HitWays, Fetching
<1>3. ASSUME s1_evict PROVE w # s1_victim
  BY <1>3, EvictFacts, Victim DEF Live
<1>4. ASSUME s1_alloc, w = s1_way PROVE FALSE
  <2>1. CASE s1_hit
    <3>1. i \in EntriesOf(s1.line)
      BY <1>1, <1>4, <2>1, AllocFacts DEF HitWays, EntriesOf, Live
    <3>. QED
      BY <1>4, <3>1, AllocFacts
  <2>2. CASE ~s1_hit
    BY <1>4, <2>2, AllocFacts, Victim DEF Live
  <2>. QED
    BY <2>1, <2>2
<1>5. ASSUME Fills(w) PROVE retire_idx = i
  BY <1>1, <1>5, FillFacts DEF Places, Live
<1>. QED
  BY <1>1, <1>2, <1>3, <1>4, <1>5

\* A free way stays free, unless an entry is allocated for it.
LEMMA FreeWay ==
  ASSUME CacheType, EnvType, Places, Clock, NEW w \in Way, state_q[w] = "I", ~(s1_alloc /\ w = s1_way)
  PROVE  state_q'[w] = "I"
<1>1. ~(s1_resp /\ w = WayOf(s1.line))
  BY RespFacts DEF HitWays
<1>2. ~Fills(w)
  BY FillFacts DEF Fetching
<1>3. ~(vn2_lands /\ ~vn2_complete /\ w = vn2_way /\ vn2_state_eff # "I")
  BY RspWay DEF Fetching
<1>4. ~(vn1_take /\ ~vn1_in_mshr /\ HitWays(vn1_i.line) # {} /\ w = vn1_way)
  BY FwdWay DEF HitWays
<1>. QED
  BY <1>1, <1>2, <1>3, <1>4, WayEdge DEF WayNext

\* The tag of a way is changed by an allocation only.
LEMMA TagKept ==
  ASSUME CacheType, EnvType, Places, Clock, NEW w \in Way
  PROVE  /\ s1_alloc /\ w = s1_way => tag_q'[w] = s1.line
         /\ ~(s1_alloc /\ w = s1_way) => tag_q'[w] = tag_q[w]
<1>1. tag_q'[w] = TagNext(w)
  BY WayEdge
<1>2. Fills(w) => mshr[retire_idx].line = tag_q[w]
  BY FillFacts
<1>3. s1_alloc /\ ~s1_hit => s1_way = s1_victim
  BY AllocFacts
<1>4. s1_alloc /\ s1_hit => tag_q[s1_way] = s1.line
  BY AllocFacts DEF HitWays
<1>. QED
  BY <1>1, <1>2, <1>3, <1>4 DEF TagNext

\* A way that an entry is allocated for holds a transient state.
LEMMA NewWay ==
  ASSUME CacheType, EnvType, Places, Clock, s1_alloc
  PROVE  state_q'[s1_way] = TableNext(s1_state, s1_event) /\ state_q'[s1_way] \in Fetching
BY AllocFacts, WayEdge DEF WayNext

\* A way that is fetched stays so until its entry is closed.
LEMMA FetchedWay ==
  ASSUME CacheType, EnvType, Places, Clock, NEW i \in Entry, Live(i), ~Closes(i), NEW w, w = mshr[i].way
  PROVE  /\ state_q'[w] \in Fetching
         /\ state_q'[w] = IF vn2_lands /\ ~vn2_complete /\ w = vn2_way THEN vn2_state_eff
                          ELSE IF vn1_take /\ ~vn1_in_mshr /\ HitWays(vn1_i.line) # {} /\ w = vn1_way
                          THEN TableNext(vn1_state, vn1_event) ELSE state_q[w]
<1>1. /\ w \in Way /\ state_q[w] \in Fetching /\ (s1_evict => w # s1_victim) /\ (s1_alloc => w # s1_way)
      /\ (Fills(w) => retire_idx = i)
  BY LiveWay
<1>2. ~Fills(w)
  BY <1>1 DEF Fills, Closes
<1>3. ASSUME s1_resp, w = WayOf(s1.line)
      PROVE  TableNext(s1_state, s1_event) = state_q[w] /\ ~(vn2_lands /\ w = vn2_way)
             /\ ~(vn1_take /\ ~vn1_in_mshr /\ HitWays(vn1_i.line) # {} /\ w = vn1_way)
  <2>1. s1_way = w /\ s1_state = state_q[w]
    BY <1>3, RespFacts
  <2>2. ~s1_vn1_conflict /\ ~s1_vn2_conflict
    BY <1>3 DEF s1_resp, s1_coh_conflict
  <2>3. TableNext(s1_state, s1_event) = state_q[w]
    BY <1>1, <1>3, <2>1, RespFacts DEF Fetching
  <2>. QED
    BY <2>1, <2>2, <2>3 DEF s1_vn1_conflict, s1_vn2_conflict, vn1_take
<1>4. state_q'[w] = IF vn2_lands /\ ~vn2_complete /\ w = vn2_way THEN vn2_state_eff
                    ELSE IF vn1_take /\ ~vn1_in_mshr /\ HitWays(vn1_i.line) # {} /\ w = vn1_way
                    THEN TableNext(vn1_state, vn1_event) ELSE state_q[w]
  BY <1>1, <1>2, <1>3, WayEdge DEF WayNext
<1>5. vn2_lands /\ ~vn2_complete /\ w = vn2_way => vn2_state_eff \in Fetching
  BY <1>1, RspWay
<1>6. vn1_take /\ ~vn1_in_mshr /\ HitWays(vn1_i.line) # {} /\ w = vn1_way => TableNext(vn1_state, vn1_event) \in Fetching
  BY <1>1, FwdWay DEF Fetching
<1>. QED
  BY <1>1, <1>4, <1>5, <1>6

\* Every line stays in one place over a clock edge.
LEMMA PlacesTick ==
  ASSUME CacheType, EnvType, Places, Clock
  PROVE  Places'
<1>0. /\ \A i \in Entry : Opens(i) => ~mshr[i].valid /\ ~Closes(i) /\ Fresh(mshr'[i])
      /\ \A i \in Entry : Closes(i) => mshr[i].valid /\ ~mshr'[i].valid /\ mshr'[i].req = NoReq
      /\ \A i \in Entry : ~Opens(i) /\ ~Closes(i) => Kin(mshr[i], mshr'[i], Lands(i), Turns(i))
      /\ \A i \in Entry : Turns(i) => mshr[i].is_evict
  BY EntryEdge
<1>1. \A i \in Entry : mshr'[i].valid => ~Closes(i) /\ (Opens(i) \/ mshr[i].valid)
  BY <1>0 DEF Kin
<1>2. \A i \in Entry : mshr'[i].valid /\ ~Opens(i) =>
        /\ mshr[i].valid /\ mshr'[i].line = mshr[i].line /\ mshr'[i].req = mshr[i].req
        /\ mshr'[i].way = mshr[i].way /\ mshr'[i].is_evict = mshr[i].is_evict
  BY <1>0, <1>1 DEF Kin
<1>3. \A w \in Way : state_q'[w] # "I" /\ ~(s1_alloc /\ w = s1_way) => state_q[w] # "I" /\ tag_q'[w] = tag_q[w]
  BY FreeWay, TagKept
<1>4. ASSUME s1_alloc
      PROVE  /\ \A w \in Way : state_q[w] # "I" /\ tag_q[w] = s1.line => w = s1_way
             /\ tag_q'[s1_way] = s1.line
  <2>1. s1_way \in Way
    BY <1>4, AllocFacts
  <2>2. CASE s1_hit
    BY <1>4, <2>1, <2>2, AllocFacts, TagKept DEF Places, HitWays
  <2>3. CASE ~s1_hit
    BY <1>4, <2>1, <2>3, AllocFacts, TagKept DEF s1_hit, HitWays
  <2>. QED
    BY <2>2, <2>3
<1>5. \A u, w \in Way : state_q'[u] # "I" /\ state_q'[w] # "I" /\ tag_q'[u] = tag_q'[w] => u = w
  BY <1>3, <1>4 DEF Places
<1>6. \A w \in Way : state_q'[w] # "I" => tag_q'[w] \in Line
  BY <1>3, <1>4, AllocFacts DEF Places
<1>7. ASSUME NEW i \in Entry, NEW j \in Entry, mshr'[i].valid, mshr'[j].valid, mshr'[i].line = mshr'[j].line, i # j
      PROVE  FALSE
  <2>1. ASSUME NEW m \in Entry, NEW n \in Entry, Opens(m), ~Opens(n), mshr'[n].valid, mshr'[m].line = mshr'[n].line
        PROVE  FALSE
    <3>1. mshr[n].valid /\ mshr[n].line = mshr'[n].line
      BY <1>2, <2>1
    <3>2. mshr'[m].line = (IF s1_evict THEN tag_q[s1_victim] ELSE s1.line) /\ (s1_evict \/ s1_alloc)
      BY <1>0, <2>1 DEF Fresh, Opens
    <3>3. EntriesOf(mshr'[m].line) = {}
      BY <3>2, EvictFacts, AllocFacts
    <3>. QED
      BY <2>1, <3>1, <3>3 DEF EntriesOf
  <2>2. ~(Opens(i) /\ Opens(j))
    BY <1>7 DEF Opens
  <2>3. CASE ~Opens(i) /\ ~Opens(j)
    BY <1>2, <1>7, <2>3 DEF Places
  <2>. QED
    BY <1>7, <2>1, <2>2, <2>3
<1>8. ASSUME NEW i \in Entry, mshr'[i].valid, Opens(i)
      PROVE  /\ mshr'[i].line \in Line
             /\ mshr'[i].is_evict => mshr'[i].req = NoReq /\ \A w \in Way : state_q'[w] # "I" => tag_q'[w] # mshr'[i].line
             /\ ~mshr'[i].is_evict => /\ mshr'[i].req \in Requests /\ mshr'[i].state \in ArrayState
                                      /\ state_q'[mshr'[i].way] \in Fetching /\ tag_q'[mshr'[i].way] = mshr'[i].line
  <2>1. Fresh(mshr'[i]) /\ (s1_evict \/ s1_alloc)
    BY <1>0, <1>8 DEF Opens
  <2>2. CASE s1_evict
    <3>1. state_q'[s1_victim] = "I"
      BY <2>2, EvictFacts, WayEdge DEF WayNext
    <3>2. ~s1_alloc /\ s1_victim \in Way /\ state_q[s1_victim] # "I"
      BY <2>2, EvictFacts
    <3>3. \A w \in Way : state_q'[w] # "I" => tag_q'[w] # tag_q[s1_victim]
      BY <1>3, <3>1, <3>2 DEF Places
    <3>. QED
      BY <2>1, <2>2, <3>2, <3>3 DEF Fresh, Places
  <2>3. CASE ~s1_evict
    <3>1. s1_alloc
      BY <2>1, <2>3
    <3>2. state_q'[s1_way] \in Fetching /\ tag_q'[s1_way] = s1.line /\ s1 \in Requests /\ s1.line \in Line
      BY <1>4, <3>1, NewWay, AllocFacts
    <3>. QED
      BY <2>1, <2>3, <3>2 DEF Fresh, ArrayState, StableL1
  <2>. QED
    BY <2>2, <2>3
<1>9. ASSUME NEW i \in Entry, mshr'[i].valid, ~Opens(i)
      PROVE  /\ mshr'[i].line \in Line
             /\ mshr'[i].is_evict => mshr'[i].req = NoReq /\ \A w \in Way : state_q'[w] # "I" => tag_q'[w] # mshr'[i].line
             /\ ~mshr'[i].is_evict => /\ mshr'[i].req \in Requests /\ mshr'[i].state \in ArrayState
                                      /\ state_q'[mshr'[i].way] \in Fetching /\ tag_q'[mshr'[i].way] = mshr'[i].line
  <2>1. /\ mshr[i].valid /\ mshr'[i].line = mshr[i].line /\ mshr'[i].req = mshr[i].req
        /\ mshr'[i].way = mshr[i].way /\ mshr'[i].is_evict = mshr[i].is_evict /\ ~Closes(i)
        /\ Kin(mshr[i], mshr'[i], Lands(i), Turns(i))
    BY <1>0, <1>1, <1>2, <1>9
  <2>2. mshr[i].line \in Line
    BY <2>1 DEF Places
  <2>3. CASE mshr[i].is_evict
    <3>1. ASSUME NEW w \in Way, state_q'[w] # "I", tag_q'[w] = mshr[i].line PROVE FALSE
      <4>1. CASE s1_alloc /\ w = s1_way
        <5>1. s1.line = mshr[i].line
          BY <1>4, <3>1, <4>1
        <5>. QED
          BY <2>1, <4>1, <5>1, AllocFacts DEF EntriesOf
      <4>2. CASE ~(s1_alloc /\ w = s1_way)
        BY <1>3, <2>1, <2>3, <3>1, <4>2 DEF Places
      <4>. QED
        BY <4>1, <4>2
    <3>. QED
      BY <2>1, <2>2, <2>3, <3>1 DEF Places
  <2>4. CASE ~mshr[i].is_evict
    <3>1. Live(i)
      BY <2>1, <2>4 DEF Live
    <3>2. state_q'[mshr[i].way] \in Fetching
      BY <2>1, <3>1, FetchedWay
    <3>3. mshr[i].way \in Way /\ tag_q[mshr[i].way] = mshr[i].line /\ (s1_alloc => mshr[i].way # s1_way)
      BY <3>1, LiveWay
    <3>4. tag_q'[mshr[i].way] = mshr[i].line
      BY <3>3, TagKept
    <3>5. mshr'[i].state \in ArrayState
      <4>1. ~Turns(i) /\ mshr[i].state \in ArrayState /\ (Lands(i) => vn2_lands)
        BY <1>0, <2>1, <2>4 DEF Places, Lands
      <4>. QED
        BY <2>1, <4>1, RspState DEF Kin
    <3>. QED
      BY <2>1, <2>2, <2>4, <3>2, <3>4, <3>5 DEF Places
  <2>. QED
    BY <2>3, <2>4
<1>10. ASSUME NEW i \in Entry, ~mshr'[i].valid PROVE mshr'[i].req = NoReq
  <2>1. ~Opens(i)
    BY <1>0, <1>10 DEF Fresh
  <2>2. CASE ~Closes(i)
    BY <1>0, <1>10, <2>1, <2>2 DEF Kin, Places
  <2>. QED
    BY <1>0, <2>2
<1>. QED
  BY <1>5, <1>6, <1>7, <1>8, <1>9, <1>10 DEF Places

---------------------------------------------------------------------------
(* The home and the others *)

\* The home and the other caches move the line l.
Outside(l) ==
    \/ serve_gets(l) \/ serve_getm(l) \/ serve_put(l) \/ sharer_acks(l)
    \/ other_asks(l, "GETS") \/ other_asks(l, "GETM") \/ other_writes(l) \/ other_drops(l)

\* An entry e2 that differs from e in the freshness of its data only.
SameEntry(e, e2) ==
    /\ e2.valid = e.valid /\ e2.line = e.line /\ e2.req = e.req /\ e2.way = e.way /\ e2.is_evict = e.is_evict
    /\ e2.state = e.state /\ e2.done = e.done /\ e2.data_valid = e.data_valid /\ e2.ack_cnt = e.ack_cnt

\* The cache's registers stay, but for the freshness of data.
Quiet ==
    /\ UNCHANGED <<state_q, tag_q, plru_q, retire_ptr, s1, rpl, core_resp, vn2_o, core_i, vn1_i, load, waiting>>
    /\ vn2_i' = vn2_i
    /\ \A i \in Entry : SameEntry(mshr[i], mshr'[i])
    /\ v1'.fsm = v1.fsm /\ v1'.msg = v1.msg /\ v1'.way = v1.way /\ v1'.sends = v1.sends

\* Data that is out of date leaves everything else as it is.
LEMMA WrittenIs ==
  ASSUME CacheType, NEW l \in Line, other_writes(l)
  PROVE  /\ CacheType' /\ Quiet
         /\ data' = [w \in Way |-> IF data[w] = l THEN NoLine ELSE data[w]]
         /\ \A i \in Entry : mshr'[i].fresh <=> mshr[i].fresh /\ mshr[i].line # l
         /\ s2'.wr = s2.wr /\ s2'.way = s2.way /\ s2'.data = IF s2.data = l THEN NoLine ELSE s2.data
         /\ v1'.fresh <=> v1.fresh /\ v1.msg.line # l
<1>1. mshr' = [i \in Entry |-> [mshr[i] EXCEPT !.fresh = @ /\ mshr[i].line # l]]
  BY DEF other_writes
<1>2. ASSUME NEW i \in Entry
      PROVE  /\ mshr'[i] \in EntryRec /\ SameEntry(mshr[i], mshr'[i])
             /\ mshr'[i].fresh <=> mshr[i].fresh /\ mshr[i].line # l
  <2>1. PICK e, f : e = mshr[i] /\ f = (mshr[i].fresh /\ mshr[i].line # l)
    OBVIOUS
  <2>2. e \in EntryRec /\ f \in BOOLEAN
    BY <2>1 DEF CacheType
  <2>3. mshr'[i] = [e EXCEPT !.fresh = f]
    BY <1>1, <2>1
  <2>4. mshr'[i] = [valid |-> e.valid, line |-> e.line, state |-> e.state, req |-> e.req, way |-> e.way,
                    is_evict |-> e.is_evict, fresh |-> f, data_valid |-> e.data_valid, ack_cnt |-> e.ack_cnt,
                    done |-> e.done]
    BY <2>2, <2>3 DEF EntryRec
  <2>5. mshr'[i] \in EntryRec
    BY <2>2, <2>4 DEF EntryRec
  <2>6. SameEntry(e, mshr'[i]) /\ mshr'[i].fresh = f
    BY <2>4 DEF SameEntry
  <2>. QED
    BY <2>1, <2>5, <2>6
<1>3. mshr' \in [Entry -> EntryRec]
  BY <1>1, <1>2
<1>4. /\ s2' \in [wr : BOOLEAN, way : Way, data : Line \cup {NoLine}]
      /\ s2'.wr = s2.wr /\ s2'.way = s2.way /\ s2'.data = IF s2.data = l THEN NoLine ELSE s2.data
  <2>1. PICK d : d = IF s2.data = l THEN NoLine ELSE s2.data
    OBVIOUS
  <2>2. s2' = [s2 EXCEPT !.data = d] /\ s2 \in [wr : BOOLEAN, way : Way, data : Line \cup {NoLine}]
    BY <2>1 DEF other_writes, CacheType
  <2>3. d \in Line \cup {NoLine}
    BY <2>1, <2>2
  <2>. QED
    BY <2>1, <2>2, <2>3
<1>5. /\ v1' \in V1Rec /\ v1'.fsm = v1.fsm /\ v1'.msg = v1.msg /\ v1'.way = v1.way /\ v1'.sends = v1.sends
      /\ v1'.fresh <=> v1.fresh /\ v1.msg.line # l
  <2>1. PICK f : f = (v1.fresh /\ v1.msg.line # l)
    OBVIOUS
  <2>2. f \in BOOLEAN /\ v1 \in V1Rec
    BY <2>1 DEF CacheType
  <2>3. v1' = [v1 EXCEPT !.fresh = f]
    BY <2>1 DEF other_writes
  <2>4. v1' = [fsm |-> v1.fsm, msg |-> v1.msg, way |-> v1.way, fresh |-> f, sends |-> v1.sends]
    BY <2>2, <2>3 DEF V1Rec
  <2>5. v1' \in V1Rec
    BY <2>2, <2>4 DEF V1Rec
  <2>6. v1'.fsm = v1.fsm /\ v1'.msg = v1.msg /\ v1'.way = v1.way /\ v1'.sends = v1.sends /\ v1'.fresh = f
    BY <2>4
  <2>. QED
    BY <2>1, <2>5, <2>6
<1>6. data' = [w \in Way |-> IF data[w] = l THEN NoLine ELSE data[w]] /\ data' \in [Way -> Line \cup {NoLine}]
  BY DEF other_writes, CacheType
<1>7. UNCHANGED <<state_q, tag_q, plru_q, retire_ptr, s1, rpl, core_resp, vn2_o, inputVars, load, waiting>>
  BY DEF other_writes
<1>8. CacheType'
  BY <1>3, <1>4, <1>5, <1>6, <1>7 DEF CacheType
<1>9. Quiet
  BY <1>2, <1>5, <1>7 DEF Quiet, inputVars
<1>. QED
  BY <1>2, <1>4, <1>5, <1>6, <1>8, <1>9

\* What the home and the others do leaves the cache as it is.
LEMMA QuietOutside ==
  ASSUME CacheType, NEW l \in Line, Outside(l)
  PROVE  CacheType' /\ Quiet
<1>1. CASE other_writes(l)
  BY <1>1, WrittenIs
<1>2. CASE ~other_writes(l)
  <2>1. UNCHANGED <<cacheVars, inputVars, load, waiting>>
    BY <1>2 DEF Outside, serve_gets, serve_getm, serve_put, sharer_acks, other_asks, other_drops, HomeOnly
  <2>. QED
    BY <2>1 DEF Quiet, CacheType, cacheVars, inputVars, SameEntry
<1>. QED
  BY <1>1, <1>2

\* The lines stay where they are.
LEMMA PlacesQuiet ==
  ASSUME Places, Quiet
  PROVE  Places'
BY DEF Places, Quiet, SameEntry

\* Lines are found where they were when the cache is left alone.
LEMMA HitQuiet ==
  ASSUME Quiet, NEW l
  PROVE  HitWays(l)' = HitWays(l) /\ WayOf(l)' = WayOf(l) /\ Arr(l)' = Arr(l) /\ EntriesOf(l)' = EntriesOf(l)
<1>1. HitWays(l)' = HitWays(l) /\ EntriesOf(l)' = EntriesOf(l)
  BY DEF Quiet, HitWays, EntriesOf, SameEntry
<1>. QED
  BY <1>1 DEF WayOf, Arr, Quiet

\* A message that is still to come.
LEMMA DataType ==
  ASSUME EnvType, NEW l \in Line, NEW t \in {"DATA_E", "DATA_DIR", "DATA_OWNER"}, NEW n \in 0 .. 1
  PROVE  /\ Data(t, l, n) \in RspOf(l) /\ Data(t, l, n).line = l /\ Data(t, l, n).t = t /\ Data(t, l, n).ack = n
         /\ Data(t, l, n).fresh = home[l].fresh
         /\ InvAck(l) \in RspOf(l)
<1>1. home[l].fresh \in BOOLEAN
  BY DEF EnvType, HomeRec
<1>. QED
  BY <1>1 DEF Data, InvAck, RspOf, RspMsg

\* What is around the cache keeps its type.
LEMMA EnvTypeOutside ==
  ASSUME EnvType, NEW l \in Line, Outside(l)
  PROVE  EnvType'
<1>1. ASSUME NEW d, rsp' = [rsp EXCEPT ![l] = @ \cup {d}], d \in RspOf(l)
      PROVE  rsp' \in [Line -> SUBSET RspMsg] /\ \A k \in Line : rsp'[k] \subseteq RspOf(k)
  BY <1>1 DEF EnvType, RspOf
<1>2. ASSUME NEW m, fwd' = [fwd EXCEPT ![l] = Append(@, m)], m \in FwdOf(l)
      PROVE  fwd' \in [Line -> Seq(FwdMsg)] /\ \A k \in Line : fwd'[k] \in Seq(FwdOf(k))
  <2>1. Append(fwd[l], m) \in Seq(FwdMsg) /\ Append(fwd[l], m) \in Seq(FwdOf(l))
    BY <1>2 DEF EnvType, FwdOf
  <2>. QED
    BY <1>2, <2>1 DEF EnvType
<1>3. ASSUME NEW h, home' = [home EXCEPT ![l] = h], h \in HomeRec PROVE home' \in [Line -> HomeRec]
  BY <1>3 DEF EnvType
<1>4. home[l] \in HomeRec /\ req[l] \in [t : ReqType \cup {"NONE"}, fresh : BOOLEAN]
  BY DEF EnvType
<1>5. req' = [req EXCEPT ![l] = NoPut] => req' \in [Line -> [t : ReqType \cup {"NONE"}, fresh : BOOLEAN]]
  BY DEF EnvType, NoPut
<1>6. CASE serve_gets(l)
  <2>1. PICK h : h = [home[l] EXCEPT !.us = IF home[l].them = "I" THEN "X" ELSE "S", !.them = IF home[l].them = "I" THEN "I" ELSE "S"]
    OBVIOUS
  <2>2. h \in HomeRec /\ home' = [home EXCEPT ![l] = h]
    BY <1>4, <1>6, <2>1 DEF HomeRec, serve_gets
  <2>3. PICK t \in {"DATA_E", "DATA_DIR", "DATA_OWNER"} :
          t = CASE home[l].them = "I" -> "DATA_E" [] home[l].them = "S" -> "DATA_DIR" [] OTHER -> "DATA_OWNER"
    OBVIOUS
  <2>4. rsp' = [rsp EXCEPT ![l] = @ \cup {Data(t, l, 0)}]
    BY <1>6, <2>3 DEF serve_gets
  <2>5. Data(t, l, 0) \in RspOf(l)
    BY DataType
  <2>6. /\ req' = [req EXCEPT ![l] = NoPut] /\ fwd' = fwd /\ load' = load
        /\ core_i' = core_i /\ vn1_i' = vn1_i /\ vn2_i' = vn2_i
    BY <1>6 DEF serve_gets, HomeOnly, inputVars
  <2>7. home' \in [Line -> HomeRec] /\ rsp' \in [Line -> SUBSET RspMsg] /\ \A k \in Line : rsp'[k] \subseteq RspOf(k)
    BY <1>1, <1>3, <2>2, <2>4, <2>5
  <2>. QED
    BY <1>5, <2>6, <2>7 DEF EnvType
<1>7. CASE serve_getm(l)
  <2>1. PICK h, n : /\ n = (IF home[l].them = "S" THEN 1 ELSE 0)
                    /\ h = [home[l] EXCEPT !.us = "X", !.them = "I", !.acks = n]
    OBVIOUS
  <2>0. n \in 0 .. 1
    BY <2>1
  <2>2. h \in HomeRec /\ home' = [home EXCEPT ![l] = h]
    <3>1. home' = [home EXCEPT ![l] = h]
      BY <1>7, <2>1 DEF serve_getm
    <3>2. h \in HomeRec
      BY <1>4, <2>0, <2>1 DEF HomeRec
    <3>. QED
      BY <3>1, <3>2
  <2>3. PICK t \in {"DATA_E", "DATA_DIR", "DATA_OWNER"} : t = IF home[l].them = "X" THEN "DATA_OWNER" ELSE "DATA_DIR"
    OBVIOUS
  <2>4. rsp' = [rsp EXCEPT ![l] = @ \cup {Data(t, l, n)}]
    BY <1>7, <2>1, <2>3 DEF serve_getm
  <2>5. Data(t, l, n) \in RspOf(l)
    BY <2>0, DataType
  <2>6. /\ req' = [req EXCEPT ![l] = NoPut] /\ fwd' = fwd /\ load' = load
        /\ core_i' = core_i /\ vn1_i' = vn1_i /\ vn2_i' = vn2_i
    BY <1>7 DEF serve_getm, HomeOnly, inputVars
  <2>7. home' \in [Line -> HomeRec] /\ rsp' \in [Line -> SUBSET RspMsg] /\ \A k \in Line : rsp'[k] \subseteq RspOf(k)
    BY <1>1, <1>3, <2>2, <2>4, <2>5
  <2>. QED
    BY <1>5, <2>6, <2>7 DEF EnvType
<1>8. CASE serve_put(l)
  <2>1. PICK u, f : /\ u = (IF home[l].us = "X" /\ req[l].t = "PUTS" THEN home[l].us ELSE "I")
                    /\ f = (IF home[l].us = "X" /\ req[l].t = "PUTM" THEN req[l].fresh ELSE home[l].fresh)
    OBVIOUS
  <2>2. home' = [home EXCEPT ![l] = [home[l] EXCEPT !.us = u, !.fresh = f]]
    <3>1. home' = [home EXCEPT ![l].us = u, ![l].fresh = f]
      BY <1>8, <2>1 DEF serve_put, EnvType
    <3>. QED
      BY <3>1 DEF EnvType
  <2>3. [home[l] EXCEPT !.us = u, !.fresh = f] \in HomeRec
    BY <1>4, <2>1 DEF HomeRec
  <2>4. [line |-> l, t |-> "PUT_ACK"] \in FwdOf(l)
    BY DEF FwdOf, FwdMsg
  <2>. QED
    BY <1>2, <1>3, <1>5, <1>8, <2>2, <2>3, <2>4 DEF EnvType, serve_put, HomeOnly, inputVars
<1>9. CASE sharer_acks(l)
  <2>1. home' = [home EXCEPT ![l] = [home[l] EXCEPT !.acks = 0]]
    <3>1. home[l].acks - 1 = 0
      BY <1>4, <1>9 DEF sharer_acks, HomeRec
    <3>2. home' = [home EXCEPT ![l].acks = 0]
      BY <1>9, <3>1 DEF sharer_acks, EnvType
    <3>. QED
      BY <3>2 DEF EnvType
  <2>2. [home[l] EXCEPT !.acks = 0] \in HomeRec
    BY <1>4 DEF HomeRec
  <2>3. InvAck(l) \in RspOf(l)
    BY DEF InvAck, RspOf, RspMsg
  <2>. QED
    BY <1>1, <1>3, <1>9, <2>1, <2>2, <2>3 DEF EnvType, sharer_acks, cacheVars, inputVars
<1>10. ASSUME NEW t \in {"GETS", "GETM"}, other_asks(l, t) PROVE EnvType'
  <2>1. PICK h : home' = [home EXCEPT ![l] = h] /\ h \in HomeRec
    <3>1. PICK u, m, p : /\ u = (IF t = "GETM" \/ home[l].us = "I" THEN "I" ELSE "S")
                         /\ m = (IF t = "GETM" \/ home[l].us = "I" THEN "X" ELSE "S")
                         /\ p = CASE home[l].us = "X" /\ t = "GETS" -> {"DATA_OWNER", "WB_DATA"}
                                  [] home[l].us = "X" /\ t = "GETM" -> {"DATA_OWNER"}
                                  [] home[l].us = "S" /\ t = "GETM" -> {"INV_ACK"}
                                  [] OTHER -> {}
      OBVIOUS
    <3>2. p \in SUBSET AnsType
      BY <3>1 DEF AnsType
    <3>3. home' = [home EXCEPT ![l] = [home[l] EXCEPT !.us = u, !.them = m, !.pend = p]]
      BY <1>10, <3>1 DEF other_asks
    <3>4. [home[l] EXCEPT !.us = u, !.them = m, !.pend = p] \in HomeRec
      BY <1>4, <3>1, <3>2 DEF HomeRec
    <3>. QED
      BY <3>3, <3>4
  <2>2. fwd' = fwd \/ \E m \in FwdOf(l) : fwd' = [fwd EXCEPT ![l] = Append(@, m)]
    <3>1. \A x \in {"FWD_GETS", "FWD_GETM", "INV"} : [line |-> l, t |-> x] \in FwdOf(l)
      BY DEF FwdOf, FwdMsg
    <3>2. CASE home[l].us = "X"
      <4>1. PICK x \in {"FWD_GETS", "FWD_GETM", "INV"} : x = IF t = "GETS" THEN "FWD_GETS" ELSE "FWD_GETM"
        OBVIOUS
      <4>. QED
        BY <1>10, <3>1, <3>2, <4>1 DEF other_asks
    <3>3. CASE home[l].us # "X"
      BY <1>10, <3>1, <3>3 DEF other_asks, EnvType
    <3>. QED
      BY <3>2, <3>3
  <2>3. fwd' \in [Line -> Seq(FwdMsg)] /\ \A k \in Line : fwd'[k] \in Seq(FwdOf(k))
    BY <1>2, <2>2 DEF EnvType
  <2>. QED
    BY <1>3, <1>10, <2>1, <2>3 DEF EnvType, other_asks, cacheVars, inputVars
<1>11. CASE other_writes(l)
  <2>1. home' = [home EXCEPT ![l] = [home[l] EXCEPT !.fresh = TRUE]]
    BY <1>11 DEF other_writes, EnvType
  <2>2. [home[l] EXCEPT !.fresh = TRUE] \in HomeRec
    BY <1>4 DEF HomeRec
  <2>3. req' = [req EXCEPT ![l] = [req[l] EXCEPT !.fresh = FALSE]]
    BY <1>11 DEF other_writes, EnvType
  <2>4. req' \in [Line -> [t : ReqType \cup {"NONE"}, fresh : BOOLEAN]]
    BY <1>4, <2>3 DEF EnvType
  <2>5. ASSUME NEW m \in RspOf(l) PROVE [m EXCEPT !.fresh = FALSE] \in RspOf(l)
    BY DEF RspOf, RspMsg
  <2>6. rsp' = [rsp EXCEPT ![l] = {[m EXCEPT !.fresh = FALSE] : m \in rsp[l]}] /\ rsp[l] \subseteq RspOf(l)
    BY <1>11 DEF other_writes, EnvType
  <2>7. rsp' \in [Line -> SUBSET RspMsg] /\ \A k \in Line : rsp'[k] \subseteq RspOf(k)
    BY <2>5, <2>6 DEF EnvType, RspOf
  <2>. QED
    BY <1>3, <1>11, <2>1, <2>2, <2>4, <2>7 DEF EnvType, other_writes, inputVars
<1>12. CASE other_drops(l)
  <2>1. home' = [home EXCEPT ![l] = [home[l] EXCEPT !.them = "I"]]
    BY <1>12 DEF other_drops, EnvType
  <2>2. [home[l] EXCEPT !.them = "I"] \in HomeRec
    BY <1>4 DEF HomeRec
  <2>. QED
    BY <1>3, <1>12, <2>1, <2>2 DEF EnvType, other_drops, cacheVars, inputVars
<1>. QED
  BY <1>6, <1>7, <1>8, <1>9, <1>10, <1>11, <1>12 DEF Outside

---------------------------------------------------------------------------
(* Where requests are over a clock edge *)

\* Where a request with the tag id goes in a cycle.
Passes(id) ==
    /\ Has(s1', id) <=> s0_issue /\ (Has(rpl, id) \/ (rpl = NoReq /\ Has(core_i, id)))
    /\ Has(rpl', id) <=> (s1_replay /\ Has(s1, id)) \/ (~s1_replay /\ ~s0_issue /\ Has(rpl, id))
    /\ Has(core_resp', id) <=> (s1_resp /\ Has(s1, id)) \/ (retire_now /\ HasEntry(id, retire_idx))
    /\ \A i \in Entry :
        HasEntry(id, i)' <=> (Opens(i) /\ s1_alloc /\ Has(s1, id)) \/ (~Opens(i) /\ ~Closes(i) /\ HasEntry(id, i))
    /\ id \in waiting' <=> (id \in waiting /\ ~Has(core_resp, id)) \/ (core_req_ready /\ Has(core_i, id))

\* A request is answered, allocated an entry or replayed, and one that is taken is looked up.
LEMMA OneWay ==
  ASSUME CacheType, s1 = NoReq \/ rpl = NoReq
  PROVE  /\ s1 # NoReq => s1_resp \/ s1_alloc \/ s1_replay
         /\ ~(s1_resp /\ s1_alloc) /\ ~(s1_resp /\ s1_replay) /\ ~(s1_alloc /\ s1_replay)
         /\ s1_alloc => ~s1_evict /\ FreeIdx \in Entry /\ ~mshr[FreeIdx].valid
         /\ s1_resp => ~retire_now
         /\ s1_replay => rpl = NoReq /\ ~s0_issue
         /\ s0_issue /\ rpl = NoReq => core_req_ready /\ core_i # NoReq
         /\ core_req_ready /\ core_i # NoReq => s0_issue /\ rpl = NoReq /\ ~s1_replay
<1>1. s1_resp => ~s1_alloc
  BY DEF s1_resp, s1_alloc, s1_served
<1>2. s1_alloc => ~s1_evict
  BY DEF s1_alloc
<1>3. s1_replay => ~s1_resp /\ ~s1_alloc /\ s1 # NoReq
  BY DEF s1_replay, s1_valid
<1>4. s1 # NoReq => s1_resp \/ s1_alloc \/ s1_replay
  BY DEF s1_replay, s1_valid
<1>5. s1_resp => ~retire_now
  BY DEF retire_now
<1>6. core_req_ready => ~s1_replay /\ array_free /\ rpl = NoReq
  BY DEF core_req_ready
<1>7. s0_issue <=> array_free /\ (rpl # NoReq \/ (core_i # NoReq /\ core_req_ready))
  BY DEF s0_issue
<1>. QED
  BY <1>1, <1>2, <1>3, <1>4, <1>5, <1>6, <1>7, Indices

\* Each request goes where it should.
LEMMA PassesTick ==
  ASSUME CacheType, EnvType, Places, tick, s1 = NoReq \/ rpl = NoReq, NEW id
  PROVE  Passes(id)
<1>0. Clock
  BY DEF tick
<1>1. Has(s1', id) <=> s0_issue /\ (Has(rpl, id) \/ (rpl = NoReq /\ Has(core_i, id)))
  BY <1>0 DEF Clock, Has
<1>2. Has(rpl', id) <=> (s1_replay /\ Has(s1, id)) \/ (~s1_replay /\ ~s0_issue /\ Has(rpl, id))
  BY <1>0 DEF Clock, Has
<1>3. Has(core_resp', id) <=> (s1_resp /\ Has(s1, id)) \/ (retire_now /\ HasEntry(id, retire_idx))
  <2>1. CASE s1_resp
    <3>1. core_resp'.id = s1.id /\ core_resp'.line = s1.line
      BY <1>0, <2>1 DEF Clock, NextResp
    <3>2. s1 # NoReq /\ s1.line \in Line /\ ~retire_now
      BY <2>1, RespFacts, RequestType
    <3>3. core_resp' # NoReq
      BY <3>1, <3>2, PipelineShape DEF NoReq
    <3>. QED
      BY <2>1, <3>1, <3>2, <3>3 DEF Has
  <2>2. CASE ~s1_resp /\ retire_now
    <3>0. retire_idx \in Entry /\ mshr[retire_idx].valid /\ mshr[retire_idx].line \in Line
      BY <2>2, Indices DEF Places
    <3>1. CASE mshr[retire_idx].is_evict
      <4>1. mshr[retire_idx].req = NoReq /\ core_resp' = NoReq
        BY <1>0, <2>2, <3>0, <3>1 DEF Places, Clock, NextResp
      <4>. QED
        BY <2>2, <4>1 DEF Has, HasEntry
    <3>2. CASE ~mshr[retire_idx].is_evict
      <4>1. core_resp'.id = mshr[retire_idx].req.id /\ core_resp'.line = mshr[retire_idx].line
        BY <1>0, <2>2, <3>2 DEF Clock, NextResp
      <4>2. mshr[retire_idx].req \in Requests
        BY <3>0, <3>2 DEF Places
      <4>3. core_resp' # NoReq /\ mshr[retire_idx].req # NoReq
        BY <3>0, <4>1, <4>2, RequestType, PipelineShape DEF NoReq
      <4>. QED
        BY <2>2, <4>1, <4>3 DEF Has, HasEntry
    <3>. QED
      BY <3>1, <3>2
  <2>3. CASE ~s1_resp /\ ~retire_now
    BY <1>0, <2>3 DEF Clock, NextResp, Has
  <2>. QED
    BY <2>1, <2>2, <2>3
<1>4. ASSUME NEW i \in Entry
      PROVE  HasEntry(id, i)' <=> (Opens(i) /\ s1_alloc /\ Has(s1, id)) \/ (~Opens(i) /\ ~Closes(i) /\ HasEntry(id, i))
  <2>0. /\ Opens(i) => ~Closes(i) /\ Fresh(mshr'[i])
        /\ Closes(i) => mshr'[i].req = NoReq
        /\ ~Opens(i) /\ ~Closes(i) => Kin(mshr[i], mshr'[i], Lands(i), Turns(i))
    BY <1>0, EntryEdge
  <2>1. CASE Opens(i)
    <3>1. mshr'[i].req = IF s1_evict THEN NoReq ELSE s1
      BY <2>0, <2>1 DEF Fresh
    <3>2. s1_evict \/ s1_alloc
      BY <2>1 DEF Opens
    <3>3. s1_evict <=> ~s1_alloc
      BY <3>2 DEF s1_alloc
    <3>. QED
      BY <2>1, <3>1, <3>3 DEF HasEntry, Has
  <2>2. CASE Closes(i)
    BY <2>0, <2>2 DEF HasEntry
  <2>3. CASE ~Opens(i) /\ ~Closes(i)
    <3>1. mshr'[i].req = mshr[i].req
      BY <2>0, <2>3 DEF Kin
    <3>. QED
      BY <2>3, <3>1 DEF HasEntry
  <2>. QED
    BY <2>1, <2>2, <2>3
<1>5. id \in waiting' <=> (id \in waiting /\ ~Has(core_resp, id)) \/ (core_req_ready /\ Has(core_i, id))
  BY DEF tick, StillWaiting, Has
<1>. QED
  BY <1>1, <1>2, <1>3, <1>4, <1>5 DEF Passes

\* A request stays in one place over a clock edge.
LEMMA HeldByTick ==
  ASSUME CacheType, EnvType, Places, tick, s1 = NoReq \/ rpl = NoReq, NEW id, HeldBy(id),
         Has(core_i, id) => id \notin waiting
  PROVE  HeldBy(id)'
<1>0. Passes(id)
  BY PassesTick
<1>1. /\ \A i \in Entry : Opens(i) => i = FreeIdx /\ ~Closes(i)
      /\ \A i \in Entry : Closes(i) <=> retire_now /\ i = retire_idx
      /\ retire_now => retire_idx \in Entry
      /\ s1_alloc => Opens(FreeIdx) /\ FreeIdx \in Entry
      /\ \A i \in Entry : Opens(i) => ~HasEntry(id, i)
  <2>1. Clock
    BY DEF tick
  <2>2. \A i \in Entry : Opens(i) => ~HasEntry(id, i)
    BY <2>1, EntryEdge DEF HasEntry, Places
  <2>. QED
    BY <2>1, <2>2, EntryEdge, Indices DEF Opens, Closes
<1>2. /\ s1 # NoReq => s1_resp \/ s1_alloc \/ s1_replay
      /\ ~(s1_resp /\ s1_alloc) /\ ~(s1_resp /\ s1_replay) /\ ~(s1_alloc /\ s1_replay)
      /\ s1_resp => ~retire_now
      /\ s1_replay => rpl = NoReq /\ ~s0_issue
      /\ s0_issue /\ rpl = NoReq => core_req_ready /\ core_i # NoReq
      /\ core_req_ready /\ core_i # NoReq => s0_issue /\ rpl = NoReq /\ ~s1_replay
  BY OneWay
<1>3. PICK S, R, A, C, W : S = Has(s1, id) /\ R = Has(rpl, id) /\ A = Has(core_resp, id) /\ C = Has(core_i, id) /\ W = (id \in waiting)
  OBVIOUS
<1>4. /\ S \in BOOLEAN /\ R \in BOOLEAN /\ A \in BOOLEAN /\ C \in BOOLEAN /\ W \in BOOLEAN
  BY <1>3 DEF Has
<1>5. (S => s1 # NoReq) /\ (R => rpl # NoReq) /\ (C => core_i # NoReq)
  BY <1>3 DEF Has
<1>6. CASE S
  <2>1. ~R /\ ~A /\ ~C /\ (\A i \in Entry : ~HasEntry(id, i)) /\ W
    BY <1>3, <1>6 DEF HeldBy
  <2>2. ~Has(s1', id) /\ (Has(rpl', id) <=> s1_replay) /\ (Has(core_resp', id) <=> s1_resp)
        /\ (\A i \in Entry : HasEntry(id, i)' <=> Opens(i) /\ s1_alloc) /\ id \in waiting'
    <3>1. ~(retire_now /\ HasEntry(id, retire_idx))
      BY <1>1, <2>1
    <3>. QED
      BY <1>0, <1>2, <1>3, <1>6, <2>1, <3>1 DEF Passes
  <2>. QED
    BY <1>1, <1>2, <1>5, <1>6, <2>2 DEF HeldBy, Has, HasEntry
<1>7. CASE ~S /\ R
  <2>1. ~A /\ ~C /\ (\A i \in Entry : ~HasEntry(id, i)) /\ W
    BY <1>3, <1>7 DEF HeldBy
  <2>2. (Has(s1', id) <=> s0_issue) /\ (Has(rpl', id) <=> ~s0_issue) /\ ~Has(core_resp', id)
        /\ (\A i \in Entry : ~HasEntry(id, i)') /\ id \in waiting'
    <3>1. ~(retire_now /\ HasEntry(id, retire_idx))
      BY <1>1, <2>1
    <3>. QED
      BY <1>0, <1>2, <1>3, <1>5, <1>7, <2>1, <3>1 DEF Passes
  <2>. QED
    BY <2>2 DEF HeldBy, Has, HasEntry
<1>8. CASE ~S /\ ~R /\ A
  <2>1. ~C /\ (\A i \in Entry : ~HasEntry(id, i)) /\ W
    BY <1>3, <1>8 DEF HeldBy
  <2>2. ~Has(s1', id) /\ ~Has(rpl', id) /\ ~Has(core_resp', id)
        /\ (\A i \in Entry : ~HasEntry(id, i)') /\ id \notin waiting'
    <3>1. ~(retire_now /\ HasEntry(id, retire_idx))
      BY <1>1, <2>1
    <3>. QED
      BY <1>0, <1>2, <1>3, <1>5, <1>8, <2>1, <3>1 DEF Passes
  <2>. QED
    BY <2>2 DEF HeldBy, Has, HasEntry
<1>9. CASE ~S /\ ~R /\ ~A /\ \E i \in Entry : HasEntry(id, i)
  <2>1. PICK j \in Entry : HasEntry(id, j) /\ \A i \in Entry : HasEntry(id, i) => i = j
    BY <1>9 DEF HeldBy
  <2>2. ~C /\ W
    BY <1>3, <1>9 DEF HeldBy
  <2>3. (retire_now /\ HasEntry(id, retire_idx)) <=> Closes(j)
    BY <1>1, <2>1
  <2>4. ~Has(s1', id) /\ ~Has(rpl', id) /\ (Has(core_resp', id) <=> Closes(j))
        /\ (\A i \in Entry : HasEntry(id, i)' <=> i = j /\ ~Closes(j)) /\ id \in waiting'
    BY <1>0, <1>1, <1>2, <1>3, <1>5, <1>9, <2>1, <2>2, <2>3 DEF Passes
  <2>5. ~HasEntry(id, j)' <=> Closes(j)
    BY <2>4
  <2>. QED
    BY <1>4, <2>4 DEF HeldBy, Has, HasEntry
<1>10. CASE ~S /\ ~R /\ ~A /\ \A i \in Entry : ~HasEntry(id, i)
  <2>1. ~W
    BY <1>3, <1>10 DEF HeldBy
  <2>2. (Has(s1', id) <=> core_req_ready /\ C) /\ ~Has(rpl', id) /\ ~Has(core_resp', id)
        /\ (\A i \in Entry : ~HasEntry(id, i)') /\ (id \in waiting' <=> core_req_ready /\ C)
    <3>1. ~(retire_now /\ HasEntry(id, retire_idx))
      BY <1>1, <1>10
    <3>. QED
      BY <1>0, <1>2, <1>3, <1>5, <1>10, <2>1, <3>1 DEF Passes
  <2>. QED
    BY <2>2 DEF HeldBy, Has, HasEntry
<1>. QED
  BY <1>4, <1>6, <1>7, <1>8, <1>9, <1>10

\* Every request stays in one place over a clock edge.
LEMMA RequestedTick ==
  ASSUME CacheType, EnvType, Places, tick, Requested
  PROVE  Requested'
<1>0. Clock /\ load' = load
  BY DEF tick
<1>1. (s1 = NoReq \/ rpl = NoReq)'
  BY <1>0, OneWay DEF Clock, Requested
<1>2. core_i' # NoReq => core_i'.id \notin waiting'
  <2>1. PICK r \in CoreRequests \cup {NoReq} : NextCore(r) /\ core_i' = r
    BY DEF tick
  <2>2. waiting' = StillWaiting \cup (IF core_i # NoReq /\ core_req_ready THEN {core_i.id} ELSE {})
    BY DEF tick
  <2>3. StillWaiting \subseteq waiting
    BY DEF StillWaiting
  <2>4. CASE core_i # NoReq /\ ~core_req_ready
    BY <2>1, <2>2, <2>3, <2>4 DEF NextCore, Requested
  <2>5. CASE ~(core_i # NoReq /\ ~core_req_ready)
    BY <2>1, <2>2, <2>5 DEF NextCore
  <2>. QED
    BY <2>4, <2>5
<1>3. ASSUME NEW r \in CoreRequests PROVE HeldBy(r.id)'
  BY <1>3, HeldByTick DEF Requested, Has
<1>4. core_i \in CoreRequests \cup {NoReq}
  BY DEF EnvType, CoreRequests
<1>5. s1' \in CoreRequests \cup {NoReq} /\ rpl' \in CoreRequests \cup {NoReq}
  BY <1>0, <1>4 DEF Clock, Requested
<1>6. ASSUME NEW i \in Entry PROVE mshr'[i].req \in CoreRequests \cup {NoReq}
  BY <1>0, EntryEdge DEF Fresh, Kin, Requested
<1>. QED
  BY <1>0, <1>1, <1>2, <1>3, <1>5, <1>6 DEF Requested, CoreRequests

\* Requests stay where they are when the cache is left alone.
LEMMA RequestedQuiet ==
  ASSUME Quiet, Requested
  PROVE  Requested'
<1>1. /\ s1' = s1 /\ rpl' = rpl /\ core_resp' = core_resp /\ waiting' = waiting /\ load' = load /\ core_i' = core_i
      /\ \A i \in Entry : mshr'[i].req = mshr[i].req
  BY DEF Quiet, SameEntry
<1>. QED
  BY <1>1 DEF Requested, HeldBy, HasEntry, Has, CoreRequests

\* One place holds each request that is waited for.
LEMMA OneHolder ==
  ASSUME Requested
  PROVE  RequestHeldOnce
<1>. SUFFICES ASSUME NEW r \in CoreRequests PROVE Cardinality(Holders(r.id)) = (IF r.id \in waiting THEN 1 ELSE 0)
  BY DEF RequestHeldOnce
<1>1. HeldBy(r.id)
  BY DEF Requested
<1>2. PICK id : id = r.id
  OBVIOUS
<1>3. Holders(id) = (IF Has(s1, id) THEN {"S1"} ELSE {}) \cup (IF Has(rpl, id) THEN {"REPLAY"} ELSE {})
                    \cup (IF Has(core_resp, id) THEN {"ANSWER"} ELSE {})
                    \cup {<<"MSHR", i>> : i \in {j \in Entry : HasEntry(id, j)}}
  BY DEF Holders, Has, HasEntry
<1>4. CASE id \in waiting
  <2>1. \E x : Holders(id) = {x}
    <3>1. CASE Has(s1, id)
      <4>1. Holders(id) = {"S1"}
        BY <1>1, <1>2, <1>3, <3>1 DEF HeldBy
      <4>. QED
        BY <4>1
    <3>2. CASE ~Has(s1, id) /\ Has(rpl, id)
      <4>1. Holders(id) = {"REPLAY"}
        BY <1>1, <1>2, <1>3, <3>2 DEF HeldBy
      <4>. QED
        BY <4>1
    <3>3. CASE ~Has(s1, id) /\ ~Has(rpl, id) /\ Has(core_resp, id)
      <4>1. Holders(id) = {"ANSWER"}
        BY <1>1, <1>2, <1>3, <3>3 DEF HeldBy
      <4>. QED
        BY <4>1
    <3>4. CASE ~Has(s1, id) /\ ~Has(rpl, id) /\ ~Has(core_resp, id)
      <4>1. PICK j \in Entry : HasEntry(id, j) /\ \A i \in Entry : HasEntry(id, i) => i = j
        BY <1>1, <1>2, <1>4, <3>4 DEF HeldBy
      <4>2. {i \in Entry : HasEntry(id, i)} = {j}
        BY <4>1
      <4>3. Holders(id) = {<<"MSHR", j>>}
        BY <1>3, <3>4, <4>2
      <4>. QED
        BY <4>3
    <3>. QED
      BY <3>1, <3>2, <3>3, <3>4
  <2>. QED
    BY <1>2, <1>4, <2>1, FS_Singleton
<1>5. CASE id \notin waiting
  <2>1. Holders(id) = {}
    BY <1>1, <1>2, <1>3, <1>5 DEF HeldBy
  <2>. QED
    BY <1>2, <1>5, <2>1, FS_EmptySet
<1>. QED
  BY <1>2, <1>4, <1>5

\* A set of equal members has one at the most.
LEMMA AtMostOne ==
  ASSUME NEW S, \A x, y \in S : x = y
  PROVE  Cardinality(S) <= 1
<1>1. CASE S = {}
  BY <1>1, FS_EmptySet
<1>2. CASE S # {}
  <2>1. \E x : S = {x}
    BY <1>2
  <2>. QED
    BY <2>1, FS_Singleton
<1>. QED
  BY <1>1, <1>2

\* A line is in one way or one entry.
LEMMA InOnePlace ==
  ASSUME Places
  PROVE  OnePlace
<1>. SUFFICES ASSUME NEW l \in Line
              PROVE  /\ Cardinality(HitWays(l)) <= 1 /\ Cardinality(EntriesOf(l)) <= 1
                     /\ EvictionsOf(l) # {} => HitWays(l) = {}
  BY DEF OnePlace
<1>1. Cardinality(HitWays(l)) <= 1
  BY AtMostOne DEF HitWays, Places
<1>2. Cardinality(EntriesOf(l)) <= 1
  BY AtMostOne DEF EntriesOf, Places
<1>3. EvictionsOf(l) # {} => HitWays(l) = {}
  BY DEF EvictionsOf, EntriesOf, HitWays, Places
<1>. QED
  BY <1>1, <1>2, <1>3

---------------------------------------------------------------------------
(* Messages of a line over a clock edge *)

\* A message put behind another.
LEMMA AppendOne ==
  ASSUME NEW f, NEW q
  PROVE  Append(<<f>>, q) = <<f, q>>
<1>1. PICK s, t : s = Append(<<f>>, q) /\ t = <<f, q>>
  OBVIOUS
<1>2. s \in Seq({f, q}) /\ t \in Seq({f, q}) /\ Len(s) = 2 /\ Len(t) = 2
  BY <1>1
<1>3. s[1] = f /\ s[2] = q /\ t[1] = f /\ t[2] = q
  BY <1>1
<1>4. s = t
  BY <1>2, <1>3, SeqEqual
<1>. QED
  BY <1>1, <1>4

\* What the queue of a line holds, from its head.
LEMMA QueueIs ==
  ASSUME NEW l, NEW d, NEW p \in BOOLEAN
  PROVE  /\ Queue(l, "NONE", FALSE) = <<>>
         /\ Queue(l, d, p) = <<>> <=> d = "NONE" /\ ~p
         /\ d # "NONE" => Queue(l, d, p)[1] = Forward(l, d) /\ Tail(Queue(l, d, p)) = Queue(l, "NONE", p)
         /\ d = "NONE" /\ p => Queue(l, d, p)[1] = Forward(l, "PUT_ACK") /\ Tail(Queue(l, d, p)) = <<>>
         /\ d # "NONE" => Append(Queue(l, "NONE", FALSE), Forward(l, d)) = Queue(l, d, FALSE)
         /\ Append(Queue(l, d, FALSE), Forward(l, "PUT_ACK")) = Queue(l, d, TRUE)
<1>1. PICK f, q : f = Forward(l, d) /\ q = Forward(l, "PUT_ACK")
  OBVIOUS
<1>3. /\ Queue(l, "NONE", FALSE) = <<>> /\ Queue(l, "NONE", TRUE) = <<q>>
      /\ d # "NONE" => Queue(l, d, FALSE) = <<f>> /\ Queue(l, d, TRUE) = <<f, q>>
  BY <1>1 DEF Queue
<1>e. <<q>>[1] = q /\ <<f>>[1] = f /\ <<f, q>>[1] = f
  OBVIOUS
<1>f. Tail(<<q>>) = <<>>
  OBVIOUS
<1>g. Tail(<<f>>) = <<>>
  OBVIOUS
<1>h. Tail(<<f, q>>) = <<q>>
  OBVIOUS
<1>i. Append(<<>>, f) = <<f>>
  OBVIOUS
<1>j. Append(<<>>, q) = <<q>>
  OBVIOUS
<1>k. Append(<<f>>, q) = <<f, q>>
  BY AppendOne
<1>l. <<q>> # <<>> /\ <<f>> # <<>> /\ <<f, q>> # <<>>
  OBVIOUS
<1>4. /\ <<q>>[1] = q /\ Tail(<<q>>) = <<>> /\ <<f>>[1] = f /\ Tail(<<f>>) = <<>> /\ <<f, q>>[1] = f /\ Tail(<<f, q>>) = <<q>>
      /\ Append(<<>>, f) = <<f>> /\ Append(<<>>, q) = <<q>> /\ Append(<<f>>, q) = <<f, q>>
      /\ <<q>> # <<>> /\ <<f>> # <<>> /\ <<f, q>> # <<>>
  BY <1>e, <1>f, <1>g, <1>h, <1>i, <1>j, <1>k, <1>l
<1>5. CASE d = "NONE" /\ p
  BY <1>1, <1>3, <1>4, <1>5
<1>6. CASE d = "NONE" /\ ~p
  BY <1>1, <1>3, <1>4, <1>6
<1>7. CASE d # "NONE" /\ p
  BY <1>1, <1>3, <1>4, <1>7
<1>8. CASE d # "NONE" /\ ~p
  BY <1>1, <1>3, <1>4, <1>8
<1>. QED
  BY <1>5, <1>6, <1>7, <1>8

\* A forward of the line l is taken, and a response.
T1(l) == vn1_take /\ vn1_i.line = l
T2(l) == vn2_lands /\ vn2_i.line = l

\* What is on its way to the cache once T1 has happened: a demand d2, and an answer to a Put if p2.
Past1(l, d, p, d2, p2) ==
    IF ~T1(l) THEN d2 = d /\ p2 = p
    ELSE IF d # "NONE" THEN vn1_i = Forward(l, d) /\ d2 = "NONE" /\ p2 = p
    ELSE vn1_i = Forward(l, "PUT_ACK") /\ p /\ d2 = "NONE" /\ p2 = FALSE

\* What is next is put before the cache.
LEMMA QueueMoves ==
  ASSUME EnvType, tick, NEW l \in Line, NEW d, NEW p \in BOOLEAN, Moves, fwd[l] = Queue(l, d, p)
  PROVE  FwdShape(l, d, p)'
<1>1. /\ fwd'[l] = IF vn1_i'.line = l THEN Tail(fwd[l]) ELSE fwd[l]
      /\ vn1_i'.line = l => fwd[l] # <<>> /\ vn1_i' = fwd[l][1]
  BY FwdEdge
<1>4. /\ Queue(l, d, p) = <<>> <=> d = "NONE" /\ ~p
      /\ d # "NONE" => Queue(l, d, p)[1] = Forward(l, d) /\ Tail(Queue(l, d, p)) = Queue(l, "NONE", p)
      /\ d = "NONE" /\ p => Queue(l, d, p)[1] = Forward(l, "PUT_ACK") /\ Tail(Queue(l, d, p)) = <<>>
  BY QueueIs
<1>2. CASE vn1_i'.line # l
  BY <1>1, <1>2 DEF FwdShape
<1>3. CASE vn1_i'.line = l
  <2>1. CASE d # "NONE"
    <3>1. vn1_i' = Forward(l, d) /\ fwd'[l] = Queue(l, "NONE", p)
      BY <1>1, <1>3, <1>4, <2>1
    <3>. QED
      BY <2>1, <3>1 DEF FwdShape
  <2>2. CASE d = "NONE"
    <3>1. p /\ vn1_i' = Forward(l, "PUT_ACK") /\ fwd'[l] = <<>>
      BY <1>1, <1>3, <1>4, <2>2
    <3>. QED
      BY <2>2, <3>1 DEF FwdShape
  <2>. QED
    BY <2>1, <2>2
<1>. QED
  BY <1>2, <1>3

\* What is on its way on VN1 after a cycle is what was, without what has been taken.
LEMMA FwdShapeTick ==
  ASSUME EnvType, tick, NEW l \in Line, NEW d, NEW p \in BOOLEAN, FwdShape(l, d, p)
  PROVE  \E d2 \in {d, "NONE"}, p2 \in BOOLEAN : Past1(l, d, p, d2, p2) /\ FwdShape(l, d2, p2)'
<1>0. NoMsg.line # l /\ (vn1_i.line = l => vn1_valid)
  BY PipelineShape DEF NoMsg, vn1_valid
<1>1. CASE T1(l)
  <2>0. Moves
    BY <1>1 DEF T1, Moves
  <2>1. CASE d # "NONE"
    <3>1. vn1_i = Forward(l, d) /\ fwd[l] = Queue(l, "NONE", p)
      BY <1>1, <2>1 DEF FwdShape, T1
    <3>2. FwdShape(l, "NONE", p)'
      BY <2>0, <3>1, QueueMoves
    <3>. QED
      BY <1>1, <2>1, <3>1, <3>2 DEF Past1
  <2>2. CASE d = "NONE"
    <3>1. p /\ vn1_i = Forward(l, "PUT_ACK") /\ fwd[l] = Queue(l, "NONE", FALSE)
      BY <1>1, <2>2, QueueIs DEF FwdShape, T1
    <3>2. FwdShape(l, "NONE", FALSE)'
      BY <2>0, <3>1, QueueMoves
    <3>. QED
      BY <1>1, <2>2, <3>1, <3>2 DEF Past1
  <2>. QED
    BY <2>1, <2>2
<1>2. CASE ~T1(l)
  <2>1. CASE Moves
    <3>1. vn1_i.line # l
      BY <1>0, <1>2, <2>1 DEF Moves, T1
    <3>2. fwd[l] = Queue(l, d, p)
      BY <3>1 DEF FwdShape, Forward
    <3>3. FwdShape(l, d, p)'
      BY <2>1, <3>2, QueueMoves
    <3>. QED
      BY <1>2, <3>3 DEF Past1
  <2>2. CASE ~Moves
    <3>1. FwdShape(l, d, p)'
      BY <2>2, FwdEdge DEF FwdShape
    <3>. QED
      BY <1>2, <3>1 DEF Past1
  <2>. QED
    BY <2>1, <2>2
<1>. QED
  BY <1>1, <1>2

\* What is on its way once a response of the line has been taken.
Past2(l, x, a, x2, a2) ==
    IF vn2_i.line # l THEN x2 = x /\ a2 = a
    ELSE \/ x # NoMsg /\ vn2_i = x /\ x2 = NoMsg /\ a2 = a
         \/ a = 1 /\ vn2_i = InvAck(l) /\ x2 = x /\ a2 = 0

\* What is on its way on VN2 after a cycle is what was, without what has been taken.
LEMMA RspShapeTick ==
  ASSUME EnvType, tick, NEW l \in Line, NEW x, NEW a, RspShape(l, x, a)
  PROVE  \E x2 \in {x, NoMsg}, a2 \in 0 .. 1 : Past2(l, x, a, x2, a2) /\ RspShape(l, x2, a2)'
<1>0. NoMsg.line # l /\ a \in 0 .. 1
  BY PipelineShape DEF NoMsg, RspShape
<1>1. rsp'[l] = rsp[l] \ {vn2_i'} /\ (vn2_i'.line = l => vn2_i' \in rsp[l]) /\ (vn2_i' \in RspMsg \cup {NoMsg})
  BY RspEdge
<1>2. \A m \in rsp[l] : m.line = l
  BY DEF EnvType, RspOf
<1>3. rsp'[l] \cup Offered2(l)' = rsp[l] /\ rsp'[l] \cap Offered2(l)' = {}
  BY <1>0, <1>1, <1>2 DEF Offered2
<1>4. InvAck(l)' = InvAck(l) /\ InvAck(l).t = "INV_ACK"
  BY DEF InvAck
<1>5. PICK i : i = InvAck(l) /\ i.t = "INV_ACK" /\ i = InvAck(l)'
  BY <1>4
<1>6. CASE vn2_i.line # l
  <2>1. RspShape(l, x, a)'
    BY <1>3, <1>4, <1>6 DEF RspShape, Offered2
  <2>. QED
    BY <1>0, <1>6, <2>1 DEF Past2
<1>7. CASE vn2_i.line = l
  <2>1. Offered2(l) = {vn2_i} /\ vn2_i \notin rsp[l]
    BY <1>0, <1>7 DEF Offered2, RspShape
  <2>2. rsp[l] \cup {vn2_i} = (IF x = NoMsg THEN {} ELSE {x}) \cup (IF a = 1 THEN {i} ELSE {})
    BY <1>5, <2>1 DEF RspShape
  <2>3. x # NoMsg => x # i
    BY <1>5 DEF RspShape
  <2>4. CASE x # NoMsg /\ vn2_i = x
    <3>1. rsp[l] = IF a = 1 THEN {i} ELSE {}
      BY <2>1, <2>2, <2>3, <2>4
    <3>2. RspShape(l, NoMsg, a)'
      BY <1>0, <1>3, <1>5, <3>1 DEF RspShape
    <3>. QED
      BY <1>0, <1>7, <2>4, <3>2 DEF Past2
  <2>5. CASE ~(x # NoMsg /\ vn2_i = x)
    <3>1. a = 1 /\ vn2_i = i
      BY <2>2, <2>5
    <3>2. rsp[l] = IF x = NoMsg THEN {} ELSE {x}
      BY <2>1, <2>2, <2>3, <3>1
    <3>3. x # NoMsg => x.t # "INV_ACK"
      BY DEF RspShape
    <3>4. RspShape(l, x, 0)'
      BY <1>3, <3>2, <3>3 DEF RspShape
    <3>. QED
      BY <1>0, <1>5, <1>7, <3>1, <3>4 DEF Past2
  <2>. QED
    BY <2>4, <2>5
<1>. QED
  BY <1>6, <1>7

\* The home is told in a cycle what the V1 machine sends.
LEMMA HomeEdge ==
  ASSUME CacheType, EnvType, tick, NEW l \in Line
  PROVE  Told(home[l], home'[l], l)
<1>1. home'[l] = Answered(Forgotten(home[l], l), l) /\ home[l] \in HomeRec
  BY DEF tick, EnvType
<1>. QED
  BY <1>1, HomeTold

\* A forward that is taken is answered with what its home waits for.
LEMMA Taken ==
  ASSUME CacheType, EnvType, vn1_take
  PROVE  /\ vn1_i \in FwdMsg /\ v1.fsm = "IDLE" /\ vn1_valid
         /\ vn1_sends = Answers(vn1_i.t)
         /\ \/ vn1_state \in {"E", "M", "EI_A", "MI_A"} /\ vn1_i.t \in {"FWD_GETS", "FWD_GETM"}
            \/ vn1_state \in {"S", "SM_AD", "SI_A"} /\ vn1_i.t = "INV"
            \/ vn1_state \in Evicting /\ vn1_i.t = "PUT_ACK"
<1>1. vn1_valid /\ v1.fsm = "IDLE" /\ L1Legal(vn1_state, vn1_event) /\ ~L1Stalls(vn1_state, vn1_event)
  BY DEF vn1_take
<1>2. vn1_i \in FwdMsg /\ vn1_event = vn1_i.t /\ vn1_event \in FwdEvent /\ vn1_state \in L1State
  BY <1>1, FwdState
<1>3. \/ vn1_state \in {"E", "M", "EI_A", "MI_A"} /\ vn1_event \in {"FWD_GETS", "FWD_GETM"}
      \/ vn1_state \in {"S", "SM_AD", "SI_A"} /\ vn1_event = "INV"
      \/ vn1_state \in Evicting /\ vn1_event = "PUT_ACK"
  BY <1>1, <1>2, FwdTaken
<1>4. PICK s, e : s = vn1_state /\ e = vn1_event
  OBVIOUS
<1>5. vn1_sends = (IF SendsInvAck(s, e) THEN {"INV_ACK"} ELSE {}) \cup (IF SendsDataReq(s, e) THEN {"DATA_OWNER"} ELSE {})
                  \cup (IF SendsDataDir(s, e) THEN {"WB_DATA"} ELSE {})
  BY <1>4 DEF vn1_sends
<1>6. ASSUME s \in {"E", "M", "EI_A", "MI_A"} /\ e = "FWD_GETS" PROVE vn1_sends = Answers(e)
  <2>1. ~SendsInvAck(s, e) /\ SendsDataReq(s, e) /\ SendsDataDir(s, e)
    BY <1>6 DEF SendsInvAck, SendsDataReq, SendsDataDir
  <2>2. vn1_sends = {"DATA_OWNER", "WB_DATA"}
    BY <1>5, <2>1
  <2>3. Answers(e) = {"DATA_OWNER", "WB_DATA"}
    BY <1>6 DEF Answers
  <2>. QED
    BY <2>2, <2>3
<1>7. ASSUME s \in {"E", "M", "EI_A", "MI_A"} /\ e = "FWD_GETM" PROVE vn1_sends = Answers(e)
  <2>1. ~SendsInvAck(s, e) /\ SendsDataReq(s, e) /\ ~SendsDataDir(s, e)
    BY <1>7 DEF SendsInvAck, SendsDataReq, SendsDataDir
  <2>2. vn1_sends = {"DATA_OWNER"}
    BY <1>5, <2>1
  <2>3. Answers(e) = {"DATA_OWNER"}
    BY <1>7 DEF Answers
  <2>. QED
    BY <2>2, <2>3
<1>8. ASSUME s \in {"S", "SM_AD", "SI_A"} /\ e = "INV" PROVE vn1_sends = Answers(e)
  <2>1. SendsInvAck(s, e) /\ ~SendsDataReq(s, e) /\ ~SendsDataDir(s, e)
    BY <1>8 DEF SendsInvAck, SendsDataReq, SendsDataDir
  <2>2. vn1_sends = {"INV_ACK"}
    BY <1>5, <2>1
  <2>3. Answers(e) = {"INV_ACK"}
    BY <1>8 DEF Answers
  <2>. QED
    BY <2>2, <2>3
<1>9. ASSUME s \in Evicting /\ e = "PUT_ACK" PROVE vn1_sends = Answers(e)
  <2>1. ~SendsInvAck(s, e) /\ ~SendsDataReq(s, e) /\ ~SendsDataDir(s, e)
    BY <1>9 DEF SendsInvAck, SendsDataReq, SendsDataDir
  <2>2. vn1_sends = {}
    BY <1>5, <2>1
  <2>3. Answers(e) = {}
    BY <1>9 DEF Answers
  <2>. QED
    BY <2>2, <2>3
<1>10. vn1_sends = Answers(e)
  BY <1>3, <1>4, <1>6, <1>7, <1>8, <1>9
<1>. QED
  BY <1>1, <1>2, <1>3, <1>4, <1>10

\* What the V1 machine is left with.
LEMMA V1Edge ==
  ASSUME CacheType, EnvType, V1Ok, Clock
  PROVE  /\ v1.fsm = "IDLE" /\ vn1_take /\ vn1_sends # {} => v1'.msg = vn1_i /\ v1'.sends = vn1_sends /\ v1'.fsm # "IDLE"
         /\ v1.fsm = "IDLE" /\ ~(vn1_take /\ vn1_sends # {}) => v1' = v1
         /\ v1.fsm = "READ" => v1'.fsm = "SEND" /\ v1'.msg = v1.msg /\ v1'.sends = v1.sends /\ NextVn2Out = NoMsg
         /\ v1.fsm = "IDLE" => NextVn2Out = NoMsg
         /\ v1.fsm = "SEND" /\ v1.sends = {} => v1' = IdleV1 /\ NextVn2Out = NoMsg
         /\ v1.fsm = "SEND" /\ v1.sends # {} =>
              /\ v1'.fsm = "SEND" /\ v1'.msg = v1.msg /\ v1'.sends = v1.sends \ {V1Send} /\ V1Send \in v1.sends
              /\ NextVn2Out.line = v1.msg.line /\ NextVn2Out.t = V1Send
<1>1. v1 \in V1Rec /\ v1' = NextV1
  BY DEF CacheType, Clock
<1>2. v1.fsm = "IDLE" => v1' = V1Taken /\ NextVn2Out = NoMsg
  BY <1>1 DEF NextV1, NextVn2Out
<1>3. v1.fsm = "READ" => v1' = [v1 EXCEPT !.fsm = "SEND", !.fresh = Held(v1.msg.line, data[v1.way] = v1.msg.line)]
                         /\ NextVn2Out = NoMsg
  BY <1>1 DEF NextV1, NextVn2Out
<1>4. v1.fsm = "SEND" /\ v1.sends = {} => v1' = IdleV1 /\ NextVn2Out = NoMsg
  BY <1>1 DEF NextV1, NextVn2Out
<1>5. v1.fsm = "SEND" /\ v1.sends # {} =>
        v1' = [v1 EXCEPT !.sends = v1.sends \ {V1Send}, !.fresh = Held(v1.msg.line, v1.fresh)]
  BY <1>1 DEF NextV1
<1>6. v1.fsm = "SEND" /\ v1.sends # {} =>
        NextVn2Out = [line |-> v1.msg.line, t |-> V1Send, fresh |-> Held(v1.msg.line, v1.fresh)] /\ V1Send \in v1.sends
  <2>1. v1.sends # {} => V1Send \in v1.sends
    BY <1>1 DEF V1Send, V1Rec, AnsType
  <2>. QED
    BY <2>1 DEF NextVn2Out
<1>7. CASE v1.fsm = "IDLE" /\ vn1_take /\ vn1_sends # {}
  <2>1. v1'.msg = vn1_i /\ v1'.sends = vn1_sends /\ v1'.fsm # "IDLE"
    BY <1>2, <1>7 DEF V1Taken
  <2>. QED
    BY <1>2, <1>7, <2>1
<1>8. CASE v1.fsm = "IDLE" /\ ~(vn1_take /\ vn1_sends # {})
  BY <1>2, <1>8 DEF V1Taken
<1>9. CASE v1.fsm = "READ"
  BY <1>1, <1>3, <1>9 DEF V1Rec
<1>10. CASE v1.fsm = "SEND" /\ v1.sends = {}
  BY <1>4, <1>10
<1>11. CASE v1.fsm = "SEND" /\ v1.sends # {}
  <2>1. PICK f, r : f = Held(v1.msg.line, v1.fresh) /\ r = v1.sends \ {V1Send}
    OBVIOUS
  <2>2. v1' = [v1 EXCEPT !.sends = r, !.fresh = f]
    BY <1>5, <1>11, <2>1
  <2>3. v1' = [fsm |-> v1.fsm, msg |-> v1.msg, way |-> v1.way, fresh |-> f, sends |-> r]
    BY <1>1, <2>2 DEF V1Rec
  <2>4. v1'.fsm = "SEND" /\ v1'.msg = v1.msg /\ v1'.sends = r
    BY <1>11, <2>3
  <2>5. NextVn2Out.line = v1.msg.line /\ NextVn2Out.t = V1Send /\ V1Send \in v1.sends
    BY <1>6, <1>11
  <2>. QED
    BY <1>11, <2>1, <2>4, <2>5
<1>. QED
  BY <1>1, <1>2, <1>7, <1>8, <1>9, <1>10, <1>11 DEF V1Rec

\* The machine has something to send only when it is not idle.
LEMMA V1OkTick ==
  ASSUME CacheType, EnvType, V1Ok, Clock
  PROVE  V1Ok'
<1>1. v1 \in V1Rec /\ v1' = NextV1
  BY DEF CacheType, Clock
<1>2. CASE v1.fsm = "IDLE" /\ vn1_take /\ vn1_sends # {}
  <2>1. v1' = [fsm |-> IF vn1_needs_array THEN "READ" ELSE "SEND", msg |-> vn1_i, way |-> vn1_way, sends |-> vn1_sends,
               fresh |-> vn1_needs_line /\ vn1_in_mshr /\ Held(vn1_i.line, mshr[vn1_idx].fresh)]
    BY <1>1, <1>2 DEF NextV1, V1Taken
  <2>2. v1'.fsm = (IF vn1_needs_array THEN "READ" ELSE "SEND") /\ v1'.msg = vn1_i /\ v1'.sends = vn1_sends
    BY <2>1
  <2>3. vn1_i \in FwdMsg
    BY <1>2, Taken
  <2>4. vn1_needs_array => vn1_sends \cap {"DATA_OWNER", "WB_DATA"} # {}
    BY DEF vn1_needs_array, vn1_needs_line
  <2>. QED
    BY <2>2, <2>3, <2>4 DEF V1Ok
<1>3. CASE ~(v1.fsm = "IDLE" /\ vn1_take /\ vn1_sends # {})
  BY <1>1, <1>3, V1Edge DEF V1Ok, IdleV1, V1Rec
<1>. QED
  BY <1>2, <1>3

\* What the machine has left to send for a line.
LEMMA SendingTick ==
  ASSUME CacheType, EnvType, V1Ok, tick, NEW l \in Line
  PROVE  /\ T1(l) => Sending(l) = {} /\ Sending(l)' = Answers(vn1_i.t) /\ home'[l].pend = home[l].pend
         /\ ~T1(l) => \E s \in SUBSET AnsType : Sending(l)' = Sending(l) \ s /\ home'[l].pend = home[l].pend \ s
                                              /\ (s = {} \/ Sending(l) # {})
<1>0. Clock /\ Told(home[l], home'[l], l) /\ v1 \in V1Rec /\ l # NoLine
  BY HomeEdge, PipelineShape DEF tick, CacheType
<1>1. NextVn2Out.line # l => home'[l].pend = home[l].pend
  BY <1>0 DEF Told
<1>2. NextVn2Out = NoMsg => home'[l].pend = home[l].pend
  BY <1>0, <1>1 DEF NoMsg
<1>3. CASE v1.fsm = "IDLE" /\ vn1_take /\ vn1_sends # {}
  <2>1. v1'.msg = vn1_i /\ v1'.sends = vn1_sends /\ v1.sends = {} /\ vn1_sends = Answers(vn1_i.t)
    BY <1>0, <1>3, V1Edge, Taken DEF V1Ok
  <2>2. home'[l].pend = home[l].pend /\ Sending(l) = {}
    BY <1>0, <1>2, <1>3, <2>1, V1Edge DEF Sending
  <2>3. CASE T1(l)
    BY <2>1, <2>2, <2>3 DEF T1, Sending
  <2>4. CASE ~T1(l)
    <3>1. Sending(l)' = {}
      BY <1>3, <2>1, <2>4 DEF T1, Sending
    <3>2. Sending(l)' = Sending(l) \ {} /\ home'[l].pend = home[l].pend \ {}
      BY <2>2, <3>1
    <3>. QED
      BY <2>4, <3>2
  <2>. QED
    BY <2>3, <2>4
<1>4. CASE v1.fsm = "IDLE" /\ ~(vn1_take /\ vn1_sends # {})
  <2>1. v1' = v1 /\ v1.sends = {} /\ home'[l].pend = home[l].pend
    BY <1>0, <1>2, <1>4, V1Edge DEF V1Ok
  <2>2. Sending(l) = {} /\ Sending(l)' = {}
    BY <2>1 DEF Sending
  <2>3. T1(l) => Answers(vn1_i.t) = {}
    BY <1>4, Taken DEF T1
  <2>4. Sending(l)' = Sending(l) \ {} /\ home'[l].pend = home[l].pend \ {}
    BY <2>1, <2>2
  <2>. QED
    BY <2>1, <2>2, <2>3, <2>4
<1>5. CASE v1.fsm = "READ" \/ (v1.fsm = "SEND" /\ v1.sends = {})
  <2>1. ~T1(l)
    BY <1>5, Taken DEF T1
  <2>2. home'[l].pend = home[l].pend
    BY <1>0, <1>2, <1>5, V1Edge
  <2>3. Sending(l)' = Sending(l)
    <3>1. CASE v1.fsm = "READ"
      BY <1>0, <3>1, V1Edge DEF Sending
    <3>2. CASE v1.fsm = "SEND" /\ v1.sends = {}
      BY <1>0, <3>2, V1Edge DEF Sending, IdleV1
    <3>. QED
      BY <1>5, <3>1, <3>2
  <2>4. Sending(l)' = Sending(l) \ {} /\ home'[l].pend = home[l].pend \ {}
    BY <2>2, <2>3
  <2>. QED
    BY <2>1, <2>4
<1>6. CASE v1.fsm = "SEND" /\ v1.sends # {}
  <2>1. /\ ~T1(l) /\ v1'.msg = v1.msg /\ v1'.sends = v1.sends \ {V1Send} /\ V1Send \in v1.sends
        /\ NextVn2Out.line = v1.msg.line /\ NextVn2Out.t = V1Send
    BY <1>0, <1>6, V1Edge, Taken DEF T1
  <2>2. CASE v1.msg.line = l
    <3>1. Sending(l) = v1.sends /\ Sending(l)' = v1.sends \ {V1Send}
      BY <2>1, <2>2 DEF Sending
    <3>2. home'[l].pend = home[l].pend \ {V1Send}
      BY <1>0, <2>1, <2>2 DEF Told
    <3>3. {V1Send} \in SUBSET AnsType
      BY <1>0, <2>1 DEF V1Rec
    <3>. QED
      BY <1>6, <2>1, <3>1, <3>2, <3>3
  <2>3. CASE v1.msg.line # l
    <3>1. Sending(l) = {} /\ Sending(l)' = {} /\ home'[l].pend = home[l].pend
      BY <1>1, <2>1, <2>3 DEF Sending
    <3>2. Sending(l)' = Sending(l) \ {} /\ home'[l].pend = home[l].pend \ {}
      BY <3>1
    <3>. QED
      BY <2>1, <3>2
  <2>. QED
    BY <2>2, <2>3
<1>. QED
  BY <1>0, <1>3, <1>4, <1>5, <1>6 DEF V1Rec

\* A home waits for the answers to the demand on its way and to those taken.
LEMMA PendTick ==
  ASSUME CacheType, EnvType, V1Ok, tick, NEW l \in Line, NEW d, NEW p, NEW d2, NEW p2, d \in Dem,
         PendOk(l, d), Past1(l, d, p, d2, p2)
  PROVE  PendOk(l, d2)' /\ d2 \in Dem /\ (~T1(l) => (Sending(l)' # {} => Sending(l) # {}))
<1>0. Answers("NONE") = {} /\ Answers("PUT_ACK") = {}
  BY DEF Answers
<1>1. CASE T1(l)
  <2>1. Sending(l) = {} /\ Sending(l)' = Answers(vn1_i.t) /\ home'[l].pend = home[l].pend
    BY <1>1, SendingTick
  <2>2. d2 = "NONE" /\ vn1_i.t = IF d # "NONE" THEN d ELSE "PUT_ACK"
    BY <1>1 DEF Past1, Forward
  <2>3. home'[l].pend = Answers(d)
    BY <2>1 DEF PendOk
  <2>. QED
    BY <1>0, <1>1, <2>1, <2>2, <2>3 DEF PendOk, Dem
<1>2. CASE ~T1(l)
  <2>1. PICK s \in SUBSET AnsType : Sending(l)' = Sending(l) \ s /\ home'[l].pend = home[l].pend \ s /\ (s = {} \/ Sending(l) # {})
    BY <1>2, SendingTick
  <2>2. d2 = d
    BY <1>2 DEF Past1
  <2>3. d # "NONE" => s = {} /\ Sending(l) = {}
    BY <2>1 DEF PendOk
  <2>4. home'[l].pend = Answers(d) \cup Sending(l)'
    BY <1>0, <2>1, <2>3 DEF PendOk
  <2>. QED
    BY <2>1, <2>2, <2>3, <2>4 DEF PendOk
<1>. QED
  BY <1>1, <1>2

---------------------------------------------------------------------------
(* A line over a clock edge *)

\* Its entry is retired; its request is answered, allocated an entry, or finds it the victim.
Ret(l) == retire_now /\ mshr[retire_idx].line = l
Hit1(l) == s1_resp /\ s1.line = l
New1(l) == s1_alloc /\ s1.line = l
Put1(l) == s1_evict /\ tag_q[s1_victim] = l

\* What becomes of the entry of a line.
LEMMA LineEntry ==
  ASSUME CacheType, EnvType, Places, tick, NEW l \in Line
  PROVE  /\ \A i \in EntriesOf(l) : ~Ret(l) => i \in EntriesOf(l)' /\ Kin(mshr[i], mshr'[i], T2(l), T1(l) /\ mshr[i].is_evict)
         /\ \A i \in EntriesOf(l)' : \/ i \in EntriesOf(l) /\ ~Ret(l)
                                     \/ EntriesOf(l) = {} /\ (New1(l) \/ Put1(l)) /\ Fresh(mshr'[i])
         /\ New1(l) \/ Put1(l) => EntriesOf(l) = {} /\ EntriesOf(l)' # {}
         /\ Ret(l) => retire_idx \in EntriesOf(l) /\ EntriesOf(l)' = {} /\ mshr[retire_idx].done
<1>0. Clock
  BY DEF tick
<1>1. \A i, j \in EntriesOf(l) : i = j
  BY DEF EntriesOf, Places
<1>2. ASSUME NEW i \in EntriesOf(l)
      PROVE  /\ i \in Entry /\ mshr[i].valid /\ mshr[i].line = l /\ ~Opens(i)
             /\ Closes(i) <=> Ret(l)
             /\ Lands(i) <=> T2(l)
             /\ Turns(i) <=> ~vn2_lands /\ T1(l) /\ mshr[i].is_evict
  <2>1. i \in Entry /\ mshr[i].valid /\ mshr[i].line = l
    BY DEF EntriesOf
  <2>2. ~Opens(i)
    BY <1>0, <2>1, EntryEdge
  <2>3. Closes(i) <=> Ret(l)
    BY <1>1, <2>1, Indices DEF Closes, Ret, EntriesOf
  <2>4. Lands(i) <=> T2(l)
    BY <1>1, <2>1, Indices DEF Lands, T2, EntriesOf
  <2>5. Turns(i) <=> ~vn2_lands /\ T1(l) /\ mshr[i].is_evict
    <3>1. ASSUME Turns(i) PROVE ~vn2_lands /\ T1(l) /\ mshr[i].is_evict
      BY <2>1, <3>1, Indices DEF Turns, T1
    <3>2. ASSUME ~vn2_lands, T1(l), mshr[i].is_evict PROVE Turns(i)
      <4>1. vn1_in_mshr
        BY <3>2 DEF vn1_in_mshr, EvictionsOf, T1
      <4>2. vn1_idx \in EntriesOf(l)
        BY <3>2, <4>1, Indices DEF EntriesOf, T1
      <4>. QED
        BY <1>1, <3>2, <4>1, <4>2 DEF Turns, T1
    <3>. QED
      BY <3>1, <3>2
  <2>. QED
    BY <2>1, <2>2, <2>3, <2>4, <2>5
<1>3. ASSUME NEW i \in EntriesOf(l), ~Ret(l)
      PROVE  i \in EntriesOf(l)' /\ Kin(mshr[i], mshr'[i], T2(l), T1(l) /\ mshr[i].is_evict)
  <2>1. Kin(mshr[i], mshr'[i], Lands(i), Turns(i)) /\ i \in Entry /\ mshr[i].valid /\ mshr[i].line = l
    BY <1>0, <1>2, <1>3, EntryEdge
  <2>2. T1(l) => ~vn2_lands
    BY DEF T1, vn1_take
  <2>3. (Lands(i) <=> T2(l)) /\ (Turns(i) <=> T1(l) /\ mshr[i].is_evict)
    BY <1>2, <2>2
  <2>4. Kin(mshr[i], mshr'[i], T2(l), T1(l) /\ mshr[i].is_evict)
    BY <2>1, <2>3 DEF Kin
  <2>5. i \in EntriesOf(l)'
    BY <2>1 DEF Kin, EntriesOf
  <2>. QED
    BY <2>4, <2>5
<1>4. New1(l) \/ Put1(l) => EntriesOf(l) = {}
  BY EvictFacts, AllocFacts DEF New1, Put1
<1>5. ASSUME NEW i \in EntriesOf(l)'
      PROVE  \/ i \in EntriesOf(l) /\ ~Ret(l)
             \/ (New1(l) \/ Put1(l)) /\ Fresh(mshr'[i])
  <2>1. i \in Entry /\ mshr'[i].valid /\ mshr'[i].line = l
    BY DEF EntriesOf
  <2>2. CASE Opens(i)
    <3>1. Fresh(mshr'[i]) /\ (s1_evict \/ s1_alloc)
      BY <1>0, <2>1, <2>2, EntryEdge DEF Opens
    <3>2. l = IF s1_evict THEN tag_q[s1_victim] ELSE s1.line
      BY <2>1, <3>1 DEF Fresh
    <3>. QED
      BY <3>1, <3>2 DEF New1, Put1
  <2>3. CASE ~Opens(i)
    <3>1. ~Closes(i) /\ Kin(mshr[i], mshr'[i], Lands(i), Turns(i))
      BY <1>0, <2>1, <2>3, EntryEdge
    <3>2. i \in EntriesOf(l)
      BY <2>1, <3>1 DEF Kin, EntriesOf
    <3>. QED
      BY <1>2, <3>1, <3>2
  <2>. QED
    BY <2>2, <2>3
<1>6. ASSUME New1(l) \/ Put1(l) PROVE EntriesOf(l)' # {}
  <2>1. FreeIdx \in Entry /\ Opens(FreeIdx)
    BY <1>6, Indices DEF New1, Put1, Opens
  <2>2. Fresh(mshr'[FreeIdx])
    BY <1>0, <2>1, EntryEdge
  <2>3. s1_alloc => ~s1_evict
    BY DEF s1_alloc
  <2>4. FreeIdx \in EntriesOf(l)'
    BY <1>6, <2>1, <2>2, <2>3 DEF Fresh, New1, Put1, EntriesOf
  <2>. QED
    BY <2>4
<1>7. ASSUME Ret(l) PROVE retire_idx \in EntriesOf(l) /\ EntriesOf(l)' = {} /\ mshr[retire_idx].done
  <2>1. retire_idx \in EntriesOf(l) /\ mshr[retire_idx].done
    BY <1>7, Indices DEF Ret, EntriesOf
  <2>. QED
    BY <1>4, <1>5, <1>7, <2>1
<1>. QED
  BY <1>3, <1>4, <1>5, <1>6, <1>7

\* A response that lands is for a line that has a way.
Expected == vn2_lands => HitWays(vn2_i.line) # {}

\* What becomes of the state of a line in the array.
ArrNext(l) ==
    IF Hit1(l) THEN TableNext(Arr(l), s1_event)
    ELSE IF Put1(l) THEN "I"
    ELSE IF New1(l) THEN TableNext(Arr(l), s1_event)
    ELSE IF Ret(l) /\ ~mshr[retire_idx].is_evict THEN mshr[retire_idx].state
    ELSE IF T2(l) /\ ~vn2_complete THEN vn2_state_eff
    ELSE IF T1(l) /\ HitWays(l) # {} THEN TableNext(Arr(l), vn1_event)
    ELSE Arr(l)

\* A line that is in a way is in that one only, and its state is the way's.
LEMMA ArrIs ==
  ASSUME Places, NEW l, NEW w \in Way, w \in HitWays(l)
  PROVE  WayOf(l) = w /\ Arr(l) = state_q[w] /\ Arr(l) # "I" /\ \A u \in HitWays(l) : u = w
<1>1. \A u \in HitWays(l) : u = w
  BY DEF HitWays, Places
<1>2. WayOf(l) = w
  BY <1>1, WayFound
<1>. QED
  BY <1>1, <1>2 DEF Arr, HitWays

\* The only way that has a line is the one found.
LEMMA OnlyWay ==
  ASSUME NEW w \in Way
  PROVE  Greatest({w} \cup {0}) = w
<1>1. \A y \in {w} \cup {0} : y <= w
  BY DEF Way
<1>2. \A x \in {w} \cup {0} : (\A y \in {w} \cup {0} : y <= x) => x = w
  BY DEF Way
<1>. QED
  BY <1>1, <1>2 DEF Greatest

\* Over a clock edge an upgrade or a miss leaves its line in its way, and other lines stay in theirs.
LEMMA HitEdge ==
  ASSUME CacheType, EnvType, Places, Clock, NEW l \in Line
  PROVE  /\ New1(l) => HitWays(l)' = {s1_way} /\ HitWays(l) \subseteq {s1_way} /\ s1_way \in Way
         /\ ~New1(l) => HitWays(l)' = {w \in HitWays(l) : state_q'[w] # "I"}
<1>0. Places'
  BY PlacesTick
<1>1. CASE New1(l)
  <2>1. /\ s1_alloc /\ s1_way \in Way /\ state_q'[s1_way] # "I" /\ tag_q'[s1_way] = l
        /\ (s1_hit => s1_way \in HitWays(l)) /\ (~s1_hit => HitWays(l) = {})
    BY <1>1, AllocFacts, NewWay, TagKept DEF New1, Fetching, s1_hit
  <2>2. HitWays(l)' = {s1_way}
    BY <1>0, <2>1 DEF HitWays, Places
  <2>3. HitWays(l) \subseteq {s1_way}
    BY <2>1, ArrIs
  <2>. QED
    BY <1>1, <2>1, <2>2, <2>3
<1>2. CASE ~New1(l)
  <2>1. ASSUME NEW w \in Way, state_q'[w] # "I", tag_q'[w] = l PROVE w \in HitWays(l)
    <3>1. ~(s1_alloc /\ w = s1_way)
      BY <1>2, <2>1, TagKept DEF New1
    <3>. QED
      BY <2>1, <3>1, FreeWay, TagKept DEF HitWays
  <2>2. ASSUME NEW w \in Way, state_q[w] # "I", tag_q[w] = l PROVE tag_q'[w] = l
    <3>1. CASE s1_alloc /\ w = s1_way
      <4>1. state_q[s1_way] # "I" /\ s1_alloc
        BY <2>2, <3>1
      <4>2. s1_hit
        BY <4>1, AllocFacts
      <4>. QED
        BY <2>2, <3>1, <4>1, <4>2, AllocFacts, TagKept DEF HitWays
    <3>2. CASE ~(s1_alloc /\ w = s1_way)
      BY <2>2, <3>2, TagKept
    <3>. QED
      BY <3>1, <3>2
  <2>. QED
    BY <1>2, <2>1, <2>2 DEF HitWays
<1>. QED
  BY <1>1, <1>2

\* The state of a line in the array after the edge is what ArrNext says.
LEMMA ArrEdge ==
  ASSUME CacheType, EnvType, Places, Clock, Expected, NEW l \in Line
  PROVE  Arr(l)' = ArrNext(l)
<1>0. Places'
  BY PlacesTick
<1>1. CASE New1(l)
  <2>1. s1_alloc /\ s1.line = l /\ ~s1_resp /\ ~s1_evict
    BY <1>1, AllocFacts DEF New1
  <2>2. Arr(l)' = state_q'[s1_way]
    <3>1. HitWays(l)' = {s1_way} /\ s1_way \in Way
      BY <1>1, HitEdge
    <3>. QED
      BY <3>1, OnlyWay DEF Arr, WayOf
  <2>3. state_q'[s1_way] = TableNext(s1_state, s1_event)
    BY <2>1, NewWay
  <2>4. s1_state = Arr(l)
    BY <2>1 DEF s1_state, s1_hit, Arr
  <2>. QED
    BY <1>1, <2>1, <2>2, <2>3, <2>4 DEF ArrNext, Hit1, Put1
<1>2. CASE ~New1(l) /\ HitWays(l) = {}
  <2>1. HitWays(l)' = {} /\ Arr(l) = "I" /\ Arr(l)' = "I"
    BY <1>2, HitEdge DEF Arr
  <2>2. ~Hit1(l)
    BY <1>2, RespFacts DEF Hit1
  <2>3. ~Put1(l)
    BY <1>2, EvictFacts DEF Put1, HitWays
  <2>4. ~(Ret(l) /\ ~mshr[retire_idx].is_evict)
    <3>1. ASSUME Ret(l), ~mshr[retire_idx].is_evict PROVE FALSE
      <4>1. retire_idx \in Entry /\ Live(retire_idx)
        BY <3>1, Indices DEF Ret, Live
      <4>2. mshr[retire_idx].way \in HitWays(l)
        BY <3>1, <4>1, LiveWay DEF Ret
      <4>. QED
        BY <1>2, <4>2
    <3>. QED
      BY <3>1
  <2>5. ~T2(l)
    BY <1>2 DEF T2, Expected
  <2>. QED
    BY <1>2, <2>1, <2>2, <2>3, <2>4, <2>5 DEF ArrNext
<1>3. CASE ~New1(l) /\ HitWays(l) # {}
  <2>1. PICK w \in Way : w \in HitWays(l) /\ WayOf(l) = w /\ Arr(l) = state_q[w]
    BY <1>3, ArrIs DEF HitWays
  <2>2. \A k : w \in HitWays(k) => k = l
    BY <2>1 DEF HitWays
  <2>3. Arr(l)' = state_q'[w]
    <3>1. CASE state_q'[w] # "I"
      <4>1. w \in HitWays(l)'
        BY <1>3, <2>1, <3>1, HitEdge
      <4>2. \A u \in HitWays(l)' : u = w
        BY <1>0, <4>1 DEF HitWays, Places
      <4>3. WayOf(l)' = w
        <5>1. HitWays(l)' = {w}
          BY <4>1, <4>2
        <5>. QED
          BY <5>1, OnlyWay DEF WayOf
      <4>. QED
        BY <4>1, <4>3 DEF Arr
    <3>2. CASE state_q'[w] = "I"
      <4>1. HitWays(l) = {w}
        BY <2>1, ArrIs
      <4>2. HitWays(l)' = {}
        BY <1>3, <3>2, <4>1, HitEdge
      <4>. QED
        BY <3>2, <4>2 DEF Arr
    <3>. QED
      BY <3>1, <3>2
  <2>4. state_q'[w] = WayNext(w)
    BY WayEdge
  <2>5. (s1_resp /\ w = WayOf(s1.line)) <=> Hit1(l)
    BY <2>1, <2>2, RespFacts DEF Hit1
  <2>6. Hit1(l) => s1_state = Arr(l)
    BY <2>1, RespFacts DEF Hit1
  <2>7. (s1_evict /\ w = s1_victim) <=> Put1(l)
    <3>1. tag_q[w] = l /\ state_q[w] # "I"
      BY <2>1 DEF HitWays
    <3>2. s1_evict => state_q[s1_victim] # "I" /\ s1_victim \in Way
      BY EvictFacts
    <3>. QED
      BY <3>1, <3>2 DEF Put1, Places
  <2>8. s1_alloc => w # s1_way
    <3>1. ASSUME s1_alloc, w = s1_way PROVE FALSE
      <4>1. s1_hit
        BY <2>1, <3>1, AllocFacts DEF HitWays
      <4>2. s1.line = l
        BY <2>2, <3>1, <4>1, AllocFacts
      <4>. QED
        BY <1>3, <3>1, <4>2 DEF New1
    <3>. QED
      BY <3>1
  <2>9. Fills(w) <=> Ret(l) /\ ~mshr[retire_idx].is_evict
    <3>1. tag_q[w] = l
      BY <2>1 DEF HitWays
    <3>2. ASSUME Fills(w) PROVE Ret(l) /\ ~mshr[retire_idx].is_evict
      BY <3>1, <3>2, FillFacts DEF Fills, Ret
    <3>3. ASSUME Ret(l), ~mshr[retire_idx].is_evict PROVE Fills(w)
      <4>1. retire_idx \in Entry /\ Live(retire_idx)
        BY <3>3, Indices DEF Ret, Live
      <4>2. mshr[retire_idx].way \in HitWays(l)
        BY <3>3, <4>1, LiveWay DEF Ret
      <4>. QED
        BY <2>1, <3>3, <4>2, ArrIs DEF Fills, Ret
    <3>. QED
      BY <3>2, <3>3
  <2>10. vn2_lands => ((w = vn2_way) <=> vn2_i.line = l)
    BY <2>1, <2>2, WayFound DEF Expected, vn2_way
  <2>11. HitWays(vn1_i.line) # {} => ((w = vn1_way) <=> vn1_i.line = l)
    BY <2>1, <2>2, WayFound DEF vn1_way
  <2>12. ~vn1_in_mshr /\ T1(l) => vn1_state = Arr(l)
    BY <1>3, <2>1 DEF vn1_state, vn1_way, T1
  <2>13. T1(l) => ~vn1_in_mshr
    BY <1>3, <2>1, Indices DEF vn1_in_mshr, EvictionsOf, EntriesOf, T1, Places, HitWays
  <2>14. (vn1_take /\ ~vn1_in_mshr /\ HitWays(vn1_i.line) # {} /\ w = vn1_way) <=> T1(l)
    BY <1>3, <2>11, <2>13 DEF T1
  <2>15. (vn2_lands /\ ~vn2_complete /\ w = vn2_way) <=> (T2(l) /\ ~vn2_complete)
    BY <2>10 DEF T2
  <2>16. Put1(l) => ~s1_resp
    BY EvictFacts DEF Put1
  <2>. QED
    BY <1>3, <2>1, <2>3, <2>4, <2>5, <2>6, <2>7, <2>8, <2>9, <2>12, <2>13, <2>14, <2>15, <2>16 DEF WayNext, ArrNext
<1>. QED
  BY <1>1, <1>2, <1>3

\* What the line's home has to serve.
LEMMA ReqEdge ==
  ASSUME CacheType, EnvType, tick, NEW l \in Line
  PROVE  /\ New1(l) => req'[l].t = IF s1_event = "STORE" THEN "GETM" ELSE "GETS"
         /\ Put1(l) => req'[l].t = PutOf(state_q[s1_victim])
         /\ Put1(l) => (req'[l].fresh <=> LookedUp(s1_victim) = l)
         /\ ~New1(l) /\ ~Put1(l) => req'[l].t = req[l].t /\ (req'[l].fresh <=> req[l].fresh /\ l # StoredLine)
<1>1. PICK b, c : b = (s1_evict /\ LookedUp(s1_victim) = tag_q[s1_victim]) /\ c = Held(l, req[l].fresh)
  OBVIOUS
<1>2. req'[l] = IF (s1_evict \/ s1_alloc) /\ Vn0Line = l THEN [t |-> Vn0Type, fresh |-> b] ELSE [req[l] EXCEPT !.fresh = c]
  BY <1>1 DEF tick
<1>3. s1_alloc => ~s1_evict
  BY DEF s1_alloc
<1>4. ((s1_evict \/ s1_alloc) /\ Vn0Line = l) <=> New1(l) \/ Put1(l)
  BY <1>3 DEF Vn0Line, New1, Put1
<1>5. req[l] \in [t : ReqType \cup {"NONE"}, fresh : BOOLEAN] /\ (c <=> req[l].fresh /\ l # StoredLine)
  BY <1>1 DEF EnvType, Held
<1>6. CASE New1(l) \/ Put1(l)
  <2>1. req'[l].t = Vn0Type /\ req'[l].fresh = b
    BY <1>2, <1>4, <1>6
  <2>2. req'[l].fresh <=> b
    BY <2>1
  <2>. QED
    BY <1>1, <1>3, <1>6, <2>1, <2>2 DEF Vn0Type, New1, Put1
<1>7. CASE ~New1(l) /\ ~Put1(l)
  <2>1. req'[l] = [req[l] EXCEPT !.fresh = c]
    BY <1>2, <1>4, <1>7
  <2>2. req'[l] = [t |-> req[l].t, fresh |-> c]
    BY <1>5, <2>1
  <2>3. req'[l].t = req[l].t /\ req'[l].fresh = c
    BY <2>2
  <2>4. req'[l].fresh <=> c
    BY <2>3
  <2>. QED
    BY <1>5, <1>7, <2>3, <2>4
<1>. QED
  BY <1>6, <1>7

\* Where the entry of a line is in its life.
Phase(l, d, p, x, a) ==
    /\ EntriesOf(l) = {} => AtRest(l, d, p, x, a)
    /\ \A i \in EntriesOf(l) : IF mshr[i].is_evict THEN Evicted(l, i, d, p, x, a) ELSE Fetched(l, i, d, p, x, a)

\* Not two of these happen to one line in one cycle.
LEMMA OneEvent ==
  ASSUME CacheType, EnvType, Places, NEW l \in Line
  PROVE  /\ Hit1(l) => ~New1(l) /\ ~Put1(l) /\ ~Ret(l) /\ ~T1(l) /\ ~T2(l)
         /\ Put1(l) => ~New1(l) /\ ~Ret(l) /\ ~T1(l) /\ ~T2(l) /\ EntriesOf(l) = {}
         /\ New1(l) => ~Ret(l) /\ ~T1(l) /\ ~T2(l) /\ EntriesOf(l) = {}
         /\ T1(l) => ~Ret(l) /\ ~T2(l)
         /\ T2(l) => EntriesOf(l) # {}
         /\ Ret(l) => EntriesOf(l) # {}
<1>1. T1(l) => ~Ret(l) /\ ~T2(l)
  BY DEF T1, T2, Ret, vn1_take
<1>2. T2(l) => EntriesOf(l) # {}
  BY DEF T2, vn2_lands, vn2_hit
<1>3. Ret(l) => EntriesOf(l) # {}
  BY Indices DEF Ret, EntriesOf
<1>4. ASSUME Hit1(l) PROVE ~New1(l) /\ ~Put1(l) /\ ~Ret(l) /\ ~T1(l) /\ ~T2(l)
  <2>1. s1_resp /\ s1.line = l /\ ~s1_evict /\ ~s1_alloc /\ ~retire_now /\ s1_way = WayOf(l) /\ HitWays(l) # {}
    BY <1>4, RespFacts DEF Hit1
  <2>2. ~s1_vn1_conflict /\ ~s1_vn2_conflict
    BY <2>1 DEF s1_resp, s1_coh_conflict
  <2>. QED
    BY <2>1, <2>2 DEF New1, Put1, Ret, T1, T2, s1_vn1_conflict, s1_vn2_conflict, vn1_take, vn1_way, vn2_way
<1>5. ASSUME Put1(l) PROVE ~New1(l) /\ EntriesOf(l) = {} /\ ~T1(l)
  <2>1. s1_evict /\ ~s1_alloc /\ s1_victim \in HitWays(l) /\ s1_way = s1_victim /\ EntriesOf(l) = {} /\ s1_victim \in Way
    BY <1>5, EvictFacts DEF Put1, HitWays
  <2>2. WayOf(l) = s1_victim
    BY <2>1, ArrIs
  <2>3. ~s1_vn1_conflict
    BY <2>1 DEF s1_evict, s1_coh_conflict
  <2>. QED
    BY <2>1, <2>2, <2>3 DEF New1, T1, s1_vn1_conflict, vn1_take, vn1_way
<1>6. ASSUME New1(l) PROVE EntriesOf(l) = {} /\ ~T1(l)
  <2>1. EntriesOf(l) = {}
    BY <1>6, AllocFacts DEF New1
  <2>2. CASE s1_hit
    <3>1. s1_way = WayOf(l) /\ HitWays(l) # {}
      BY <1>6, <2>2 DEF New1, s1_way, s1_hit
    <3>2. ~s1_vn1_conflict
      BY <1>6 DEF New1, s1_alloc, s1_coh_conflict
    <3>. QED
      BY <2>1, <3>1, <3>2 DEF T1, s1_vn1_conflict, vn1_take, vn1_way
  <2>3. CASE ~s1_hit
    <3>1. HitWays(l) = {}
      BY <1>6, <2>3 DEF New1, s1_hit
    <3>2. ASSUME T1(l) PROVE FALSE
      <4>1. ~vn1_in_mshr
        BY <2>1, <3>2 DEF vn1_in_mshr, EvictionsOf, T1
      <4>2. vn1_state = "I" /\ vn1_take
        BY <3>1, <3>2, <4>1 DEF vn1_state, T1
      <4>. QED
        BY <4>2, Taken DEF Evicting
    <3>. QED
      BY <2>1, <3>2
  <2>. QED
    BY <2>2, <2>3
<1>. QED
  BY <1>1, <1>2, <1>3, <1>4, <1>5, <1>6

\* A forward is checked with the state of its line, in the array or in the entry of an eviction.
LEMMA FwdLine ==
  ASSUME CacheType, EnvType, Places, NEW l \in Line, vn1_i.line = l
  PROVE  /\ \A i \in EntriesOf(l) : mshr[i].is_evict => vn1_state = mshr[i].state
         /\ (\A i \in EntriesOf(l) : ~mshr[i].is_evict) => vn1_state = Arr(l) /\ ~vn1_in_mshr
<1>1. ASSUME NEW i \in EntriesOf(l), mshr[i].is_evict PROVE vn1_state = mshr[i].state
  <2>1. vn1_in_mshr
    BY <1>1 DEF vn1_in_mshr, EvictionsOf
  <2>2. vn1_idx = i
    BY <1>1, <2>1, Indices DEF Places, EntriesOf
  <2>. QED
    BY <2>1, <2>2 DEF vn1_state
<1>2. ASSUME \A i \in EntriesOf(l) : ~mshr[i].is_evict PROVE vn1_state = Arr(l) /\ ~vn1_in_mshr
  <2>1. ~vn1_in_mshr
    BY <1>2 DEF vn1_in_mshr, EvictionsOf
  <2>. QED
    BY <2>1 DEF vn1_state, Arr, vn1_way
<1>. QED
  BY <1>1, <1>2

\* A response is for the line's entry and its way.
LEMMA RspLine ==
  ASSUME CacheType, EnvType, Places, Expected, NEW l \in Line, T2(l), NEW i \in EntriesOf(l)
  PROVE  /\ vn2_i \in RspMsg /\ vn2_next = RspNext(Arr(l), vn2_event) /\ vn2_event \in RspEvent
         /\ vn2_ack_next = mshr[i].ack_cnt + (IF AddsAcks(vn2_event) THEN vn2_i.ack ELSE 0)
                                          - (IF TakesAck(vn2_event) THEN 1 ELSE 0)
<1>1. vn2_idx = i
  BY Indices DEF T2, Places, EntriesOf
<1>2. state_q[vn2_way] = Arr(l)
  BY DEF T2, Expected, Arr, vn2_way
<1>3. vn2_i \in RspMsg /\ vn2_event \in RspEvent /\ vn2_next = RspNext(state_q[vn2_way], vn2_event)
  BY RspState DEF T2
<1>. QED
  BY <1>1, <1>2, <1>3 DEF vn2_ack_next

\* What a line that is fetched has in the array.
LEMMA FetchedArr ==
  ASSUME CacheType, Places, NEW l \in Line, NEW i \in EntriesOf(l)
  PROVE  /\ ~mshr[i].is_evict => Arr(l) \in Fetching /\ HitWays(l) # {}
         /\ mshr[i].is_evict => HitWays(l) = {} /\ Arr(l) = "I"
<1>1. i \in Entry /\ mshr[i].valid /\ mshr[i].line = l
  BY DEF EntriesOf
<1>2. ASSUME ~mshr[i].is_evict PROVE Arr(l) \in Fetching /\ HitWays(l) # {}
  <2>1. Live(i)
    BY <1>1, <1>2 DEF Live
  <2>2. PICK w \in Way : w \in HitWays(l) /\ state_q[w] \in Fetching
    BY <1>1, <2>1, LiveWay
  <2>. QED
    BY <2>2, ArrIs
<1>3. ASSUME mshr[i].is_evict PROVE HitWays(l) = {} /\ Arr(l) = "I"
  BY <1>1, <1>3 DEF Places, HitWays, Arr
<1>. QED
  BY <1>2, <1>3

\* What the home has on record stays over a clock edge.
Kept2(l) == home'[l].us = home[l].us /\ home'[l].acks = home[l].acks

\* An entry that stays what it is.
SameKin(e, e2) ==
    /\ e2.is_evict = e.is_evict /\ e2.state = e.state /\ e2.ack_cnt = e.ack_cnt
    /\ e2.done <=> e.done
    /\ e2.data_valid <=> e.data_valid

SameLine(l) ==
    /\ EntriesOf(l)' = EntriesOf(l) /\ req'[l].t = req[l].t /\ Kept2(l)
    /\ \A i \in EntriesOf(l) : SameKin(mshr[i], mshr'[i])

\* A line nothing happens to stays where it is in its life.
LEMMA PhaseSame ==
  ASSUME NEW l \in Line, NEW d, NEW p, NEW x, NEW a, Phase(l, d, p, x, a), SameLine(l),
         Arr(l)' = Arr(l)
  PROVE  Phase(l, d, p, x, a)'
<1>1. EntriesOf(l) = {} => AtRest(l, d, p, x, a)'
  BY DEF Phase, AtRest, None, SameLine, Kept2
<1>2. ASSUME NEW i \in EntriesOf(l), mshr[i].is_evict PROVE Evicted(l, i, d, p, x, a)' /\ mshr'[i].is_evict
  <2>1. Evicted(l, i, d, p, x, a)
    BY <1>2 DEF Phase
  <2>. QED
    BY <1>2, <2>1 DEF Evicted, None, SameLine, Kept2, SameKin
<1>3. ASSUME NEW i \in EntriesOf(l), ~mshr[i].is_evict PROVE Fetched(l, i, d, p, x, a)' /\ ~mshr'[i].is_evict
  <2>0. /\ (mshr'[i].done <=> mshr[i].done) /\ mshr'[i].ack_cnt = mshr[i].ack_cnt /\ (mshr'[i].data_valid <=> mshr[i].data_valid)
        /\ mshr'[i].state = mshr[i].state /\ req'[l].t = req[l].t /\ ~mshr'[i].is_evict /\ Kept2(l)
    BY <1>3 DEF SameLine, SameKin
  <2>1. Fetched(l, i, d, p, x, a)
    BY <1>3 DEF Phase
  <2>2. Unserved(l, i, d, x, a) => Unserved(l, i, d, x, a)'
    BY <2>0 DEF Unserved, None, Kept2
  <2>3. Served(l, i, d, x, a) => Served(l, i, d, x, a)'
    BY <2>0 DEF Served, Kept2
  <2>4. Finished(l, i, d, x, a) => Finished(l, i, d, x, a)'
    BY <2>0 DEF Finished, None, Kept2
  <2>. QED
    BY <2>0, <2>1, <2>2, <2>3, <2>4 DEF Fetched
<1>. QED
  BY <1>1, <1>2, <1>3 DEF Phase, SameLine

\* A line no entry is opened or closed for, and neither a forward nor a response.
LEMMA LineSame ==
  ASSUME CacheType, EnvType, Places, tick, NEW l \in Line, ~New1(l), ~Put1(l), ~Ret(l), ~T2(l),
         T1(l) => \A i \in EntriesOf(l) : ~mshr[i].is_evict
  PROVE  SameLine(l)
<1>1. EntriesOf(l)' = EntriesOf(l)
  BY LineEntry
<1>2. \A i \in EntriesOf(l) : SameKin(mshr[i], mshr'[i])
  BY LineEntry DEF Kin, SameKin
<1>3. req'[l].t = req[l].t
  BY ReqEdge
<1>4. Kept2(l)
  BY HomeEdge DEF Told, Kept2
<1>. QED
  BY <1>1, <1>2, <1>3, <1>4 DEF SameLine

\* A line that has its request answered, or nothing done to it.
LEMMA PhaseHit ==
  ASSUME CacheType, EnvType, Places, Expected, tick, NEW l \in Line, NEW d, NEW p, NEW x, NEW a, Phase(l, d, p, x, a),
         ~New1(l), ~Put1(l), ~Ret(l), ~T1(l), ~T2(l)
  PROVE  Phase(l, d, p, x, a)'
<1>0. Clock
  BY DEF tick
<1>1. SameLine(l)
  BY LineSame
<1>2. Arr(l)' = ArrNext(l)
  BY <1>0, ArrEdge
<1>3. CASE ~Hit1(l)
  <2>1. Arr(l)' = Arr(l)
    BY <1>2, <1>3 DEF ArrNext
  <2>. QED
    BY <1>1, <2>1, PhaseSame
<1>4. CASE Hit1(l)
  <2>1. /\ HitWays(l) # {} /\ s1_state = Arr(l) /\ Arr(l)' = TableNext(Arr(l), s1_event)
        /\ \/ Arr(l)' = Arr(l)
           \/ Arr(l) \in {"E", "M"} /\ Arr(l)' = "M"
    <3>1. s1_state = Arr(l) /\ HitWays(l) # {}
      BY <1>4, RespFacts DEF Hit1, Arr, s1_state
    <3>2. Arr(l)' = TableNext(Arr(l), s1_event)
      BY <1>2, <1>4 DEF ArrNext
    <3>. QED
      BY <1>4, <3>1, <3>2, RespFacts DEF Hit1
  <2>2. CASE EntriesOf(l) = {}
    <3>1. AtRest(l, d, p, x, a)
      BY <2>2 DEF Phase
    <3>2. AtRest(l, d, p, x, a)'
      BY <1>1, <2>1, <3>1 DEF AtRest, None, SameLine, Kept2, Agree
    <3>. QED
      BY <1>1, <2>2, <3>2 DEF Phase, SameLine
  <2>3. CASE EntriesOf(l) # {}
    <3>1. Arr(l) \in Fetching
      BY <2>1, <2>3, FetchedArr
    <3>2. Arr(l)' = Arr(l)
      BY <2>1, <3>1 DEF Fetching
    <3>. QED
      BY <1>1, <3>2, PhaseSame
  <2>. QED
    BY <2>2, <2>3
<1>. QED
  BY <1>3, <1>4

\* A line whose fetch or eviction is over.
LEMMA PhaseRet ==
  ASSUME CacheType, EnvType, Places, Expected, tick, NEW l \in Line, NEW d, NEW p, NEW x, NEW a, Phase(l, d, p, x, a),
         Ret(l), ~T2(l)
  PROVE  Phase(l, d, p, x, a)'
<1>0. Clock /\ Arr(l)' = ArrNext(l)
  BY ArrEdge DEF tick
<1>1. ~Hit1(l) /\ ~New1(l) /\ ~Put1(l) /\ ~T1(l)
  BY OneEvent
<1>2. EntriesOf(l)' = {} /\ retire_idx \in EntriesOf(l) /\ mshr[retire_idx].done
  BY LineEntry
<1>3. req'[l].t = req[l].t /\ Kept2(l)
  BY <1>1, ReqEdge, HomeEdge DEF Told, Kept2
<1>4. CASE mshr[retire_idx].is_evict
  <2>1. Arr(l)' = "I"
    BY <1>0, <1>1, <1>2, <1>4, FetchedArr DEF ArrNext
  <2>2. Evicted(l, retire_idx, d, p, x, a)
    BY <1>2, <1>4 DEF Phase
  <2>3. AtRest(l, d, p, x, a)'
    BY <1>2, <1>3, <2>1, <2>2 DEF Evicted, AtRest, None, Kept2, Agree
  <2>. QED
    BY <1>2, <2>3 DEF Phase
<1>5. CASE ~mshr[retire_idx].is_evict
  <2>1. Arr(l)' = mshr[retire_idx].state
    BY <1>0, <1>1, <1>5 DEF ArrNext
  <2>2. Fetched(l, retire_idx, d, p, x, a)
    BY <1>2, <1>5 DEF Phase
  <2>3. Finished(l, retire_idx, d, x, a) /\ ~p
    BY <1>2, <2>2 DEF Fetched, Unserved, Served
  <2>4. AtRest(l, d, p, x, a)'
    BY <1>3, <2>1, <2>3 DEF Finished, AtRest, None, Kept2, Agree
  <2>. QED
    BY <1>2, <2>4 DEF Phase
<1>. QED
  BY <1>4, <1>5

\* A line that is asked for.
LEMMA PhaseNew ==
  ASSUME CacheType, EnvType, Places, Expected, tick, NEW l \in Line, NEW d, NEW p, NEW x, NEW a, Phase(l, d, p, x, a),
         New1(l)
  PROVE  Phase(l, d, p, x, a)'
<1>0. Clock /\ Arr(l)' = ArrNext(l)
  BY ArrEdge DEF tick
<1>1. ~Hit1(l) /\ ~Put1(l) /\ EntriesOf(l) = {}
  BY OneEvent
<1>2. AtRest(l, d, p, x, a)
  BY <1>1 DEF Phase
<1>3. Arr(l)' = TableNext(Arr(l), s1_event) /\ s1_state = Arr(l) /\ s1.line = l /\ s1_alloc
  BY <1>0, <1>1 DEF ArrNext, New1, s1_state, s1_hit, Arr
<1>4. req'[l].t = (IF s1_event = "STORE" THEN "GETM" ELSE "GETS") /\ Kept2(l)
  BY ReqEdge, HomeEdge DEF Told, Kept2
<1>5. \/ Arr(l) = "S" /\ s1_event = "STORE" /\ Arr(l)' = "SM_AD"
      \/ Arr(l) = "I" /\ Arr(l)' = IF s1_event = "STORE" THEN "IM_AD" ELSE "IS_D"
  <2>1. CASE s1_hit
    <3>1. s1_way \in HitWays(l) /\ state_q[s1_way] = "S" /\ s1_event = "STORE" /\ TableNext(s1_state, s1_event) = "SM_AD"
          /\ s1_way \in Way
      BY <1>3, <2>1, AllocFacts
    <3>2. Arr(l) = "S"
      BY <3>1, ArrIs
    <3>. QED
      BY <1>3, <3>1, <3>2
  <2>2. CASE ~s1_hit
    <3>1. TableNext(s1_state, s1_event) = IF s1_event = "STORE" THEN "IM_AD" ELSE "IS_D"
      BY <1>3, <2>2, AllocFacts
    <3>2. Arr(l) = "I"
      BY <1>3, <2>2 DEF s1_hit, Arr
    <3>. QED
      BY <1>3, <3>1, <3>2
  <2>. QED
    BY <2>1, <2>2
<1>6. ASSUME NEW i \in EntriesOf(l)' PROVE ~mshr'[i].is_evict /\ Fetched(l, i, d, p, x, a)'
  <2>1. Fresh(mshr'[i])
    BY <1>1, LineEntry
  <2>2. ~s1_evict
    BY <1>3 DEF s1_alloc
  <2>3. ~mshr'[i].is_evict /\ mshr'[i].ack_cnt = 0 /\ ~mshr'[i].done /\ ~mshr'[i].data_valid
    BY <2>1, <2>2 DEF Fresh
  <2>4. Agree(Arr(l), d, home'[l].us) /\ None(l, x, a)' /\ ~p
    BY <1>2, <1>4 DEF AtRest, None, Kept2
  <2>5. Unserved(l, i, d, x, a)'
    BY <1>4, <1>5, <2>3, <2>4 DEF Unserved
  <2>. QED
    BY <2>3, <2>4, <2>5 DEF Fetched
<1>7. EntriesOf(l)' # {}
  BY LineEntry
<1>. QED
  BY <1>6, <1>7 DEF Phase

\* A line that is given back.
LEMMA PhasePut ==
  ASSUME CacheType, EnvType, Places, Expected, tick, NEW l \in Line, NEW d, NEW p, NEW x, NEW a, Phase(l, d, p, x, a),
         Put1(l)
  PROVE  Phase(l, d, p, x, a)'
<1>1. EntriesOf(l) = {}
  BY OneEvent
<1>2. AtRest(l, d, p, x, a)
  BY <1>1 DEF Phase
<1>3. s1_evict /\ s1_victim \in Way /\ s1_victim \in HitWays(l)
  BY EvictFacts DEF Put1, HitWays
<1>4. state_q[s1_victim] = Arr(l) /\ Arr(l) # "I"
  BY <1>3, ArrIs
<1>5. req'[l].t = PutOf(Arr(l)) /\ Kept2(l)
  <2>1. PICK s : s = state_q[s1_victim]
    OBVIOUS
  <2>2. req'[l].t = PutOf(s)
    BY <2>1, ReqEdge
  <2>3. s = Arr(l)
    BY <1>4, <2>1
  <2>4. Kept2(l)
    BY HomeEdge DEF Told, Kept2
  <2>. QED
    BY <2>2, <2>3, <2>4
<1>6. Arr(l) \in {"S", "E", "M"}
  BY <1>2, <1>4 DEF AtRest, Agree
<1>7. TableNext(Arr(l), "EVICT") = CoreNext(Arr(l), "EVICT")
  BY <1>6, CoreTable DEF ArrayState, StableL1, CoreEvent
<1>8. ASSUME NEW i \in EntriesOf(l)' PROVE mshr'[i].is_evict /\ Evicted(l, i, d, p, x, a)'
  <2>1. Fresh(mshr'[i])
    BY <1>1, LineEntry
  <2>2. mshr'[i].is_evict /\ ~mshr'[i].done /\ mshr'[i].state = CoreNext(Arr(l), "EVICT")
    BY <1>3, <1>4, <1>7, <2>1 DEF Fresh
  <2>3. Agree(Arr(l), d, home'[l].us) /\ None(l, x, a)' /\ ~p
    BY <1>2, <1>5 DEF AtRest, None, Kept2
  <2>4. /\ mshr'[i].state \in Evicting /\ EvictedFrom(mshr'[i].state) = Arr(l) /\ req'[l].t \in {"PUTS", "PUTE", "PUTM"}
        /\ req'[l].t = "PUTS" => mshr'[i].state \in {"SI_A", "II_A"}
        /\ req'[l].t = "PUTE" => mshr'[i].state # "MI_A"
    <3>1. CASE Arr(l) = "S"
      BY <1>5, <2>2, <3>1 DEF CoreNext, EvictedFrom, Evicting, PutOf
    <3>2. CASE Arr(l) = "E"
      BY <1>5, <2>2, <3>2 DEF CoreNext, EvictedFrom, Evicting, PutOf
    <3>3. CASE Arr(l) = "M"
      BY <1>5, <2>2, <3>3 DEF CoreNext, EvictedFrom, Evicting, PutOf
    <3>. QED
      BY <1>6, <3>1, <3>2, <3>3
  <2>. QED
    BY <2>2, <2>3, <2>4 DEF Evicted
<1>9. EntriesOf(l)' # {}
  BY LineEntry
<1>. QED
  BY <1>8, <1>9 DEF Phase

\* What a demand finds, and what it leaves, when the line agrees with its home.
LEMMA DemandAgrees ==
  ASSUME NEW st, NEW d, NEW u, d # "NONE", Agree(st, d, u)
  PROVE  \/ st = "S" /\ d = "INV" /\ u = "I" /\ Agree("I", "NONE", u)
         \/ st \in {"E", "M"} /\ d = "FWD_GETS" /\ u = "S" /\ Agree("S", "NONE", u)
         \/ st \in {"E", "M"} /\ d = "FWD_GETM" /\ u = "I" /\ Agree("I", "NONE", u)
BY DEF Agree

\* A line whose forward is taken.
LEMMA PhaseFwd ==
  ASSUME CacheType, EnvType, Places, Expected, tick, NEW l \in Line, NEW d, NEW p, NEW x, NEW a, Phase(l, d, p, x, a),
         NEW d2, NEW p2, T1(l), Past1(l, d, p, d2, p2)
  PROVE  Phase(l, d2, p2, x, a)'
<1>0. Clock /\ Arr(l)' = ArrNext(l)
  BY ArrEdge DEF tick
<1>1. ~Hit1(l) /\ ~New1(l) /\ ~Put1(l) /\ ~Ret(l) /\ ~T2(l)
  BY OneEvent
<1>2. vn1_take /\ vn1_i.line = l
  BY DEF T1
<1>3. /\ vn1_i.t = IF d # "NONE" THEN d ELSE "PUT_ACK"
      /\ d2 = "NONE" /\ (d # "NONE" => p2 = p) /\ (d = "NONE" => p /\ p2 = FALSE)
  BY DEF Past1, Forward
<1>4. /\ \/ vn1_state \in {"E", "M", "EI_A", "MI_A"} /\ vn1_i.t \in {"FWD_GETS", "FWD_GETM"}
         \/ vn1_state \in {"S", "SM_AD", "SI_A"} /\ vn1_i.t = "INV"
         \/ vn1_state \in Evicting /\ vn1_i.t = "PUT_ACK"
      /\ TableNext(vn1_state, vn1_event) = FwdNext(vn1_state, vn1_i.t) /\ vn1_event = vn1_i.t
  BY <1>2, Taken, FwdState
<1>5. CASE \E i \in EntriesOf(l) : mshr[i].is_evict
  <2>1. PICK i \in EntriesOf(l) : mshr[i].is_evict
    BY <1>5
  <2>2. EntriesOf(l) = {i}
    BY <2>1 DEF EntriesOf, Places
  <2>3. EntriesOf(l)' = {i}
    BY <1>1, <2>2, LineEntry
  <2>4. vn1_state = mshr[i].state
    BY <1>2, <2>1, FwdLine
  <2>5. Kin(mshr[i], mshr'[i], FALSE, TRUE)
    <3>1. Kin(mshr[i], mshr'[i], T2(l), T1(l) /\ mshr[i].is_evict)
      BY <1>1, LineEntry
    <3>. QED
      BY <1>1, <2>1, <3>1 DEF Kin
  <2>6. /\ mshr'[i].is_evict /\ mshr'[i].state = FwdNext(mshr[i].state, vn1_i.t)
        /\ mshr'[i].done <=> mshr[i].done \/ vn1_i.t = "PUT_ACK"
    BY <1>4, <2>1, <2>4, <2>5 DEF Kin
  <2>7. req'[l].t = req[l].t /\ Kept2(l)
    BY <1>1, ReqEdge, HomeEdge DEF Told, Kept2
  <2>8. Evicted(l, i, d, p, x, a)
    BY <2>1 DEF Phase
  <2>9. None(l, x, a)'
    BY <2>7, <2>8 DEF Evicted, None, Kept2
  <2>10. PICK st, st2 : st = mshr[i].state /\ st2 = mshr'[i].state
    OBVIOUS
  <2>11. ~mshr[i].done /\ st \in Evicting
    BY <1>3, <1>4, <2>4, <2>8, <2>10 DEF Evicted, Evicting
  <2>12. CASE d = "NONE"
    <3>1. p /\ vn1_i.t = "PUT_ACK" /\ p2 = FALSE
      BY <1>3, <2>12
    <3>2. st2 = "I" /\ mshr'[i].done
      BY <2>6, <2>10, <2>11, <3>1 DEF FwdNext, Evicting
    <3>3. req[l].t = "NONE" /\ home[l].us = "I"
      BY <2>8, <2>11, <3>1 DEF Evicted
    <3>4. Evicted(l, i, d2, p2, x, a)'
      BY <1>3, <2>7, <2>9, <2>10, <3>1, <3>2, <3>3 DEF Evicted, Kept2
    <3>. QED
      BY <2>3, <2>6, <3>4 DEF Phase
  <2>13. CASE d # "NONE"
    <3>1. vn1_i.t = d /\ d2 = "NONE" /\ p2 = p
      BY <1>3, <2>13
    <3>2. \/ st \in {"EI_A", "MI_A"} /\ d = "FWD_GETS" /\ st2 = "SI_A"
          \/ st \in {"EI_A", "MI_A"} /\ d = "FWD_GETM" /\ st2 = "II_A"
          \/ st = "SI_A" /\ d = "INV" /\ st2 = "II_A"
      <4>1. \/ st \in {"EI_A", "MI_A"} /\ d = "FWD_GETS"
            \/ st \in {"EI_A", "MI_A"} /\ d = "FWD_GETM"
            \/ st = "SI_A" /\ d = "INV"
        <5>1. d # "PUT_ACK"
          BY <2>8, <2>11, <2>13 DEF Evicted, Agree
        <5>. QED
          BY <1>4, <2>4, <2>10, <2>11, <3>1, <5>1 DEF Evicting
      <4>2. st2 = FwdNext(st, d)
        BY <2>6, <2>10, <3>1
      <4>. QED
        BY <4>1, <4>2 DEF FwdNext
    <3>3. ~mshr'[i].done
      BY <2>6, <2>11, <3>1, <3>2
    <3>4. \A u : Agree(EvictedFrom(st), d, u) => Agree(EvictedFrom(st2), "NONE", u)
      <4>1. /\ st = "MI_A" => EvictedFrom(st) = "M"
            /\ st = "EI_A" => EvictedFrom(st) = "E"
            /\ st = "SI_A" => EvictedFrom(st) = "S"
            /\ st2 = "SI_A" => EvictedFrom(st2) = "S"
            /\ st2 = "II_A" => EvictedFrom(st2) = "I"
        BY DEF EvictedFrom
      <4>. QED
        BY <3>2, <4>1 DEF Agree
    <3>5. st2 \in {"SI_A", "II_A"}
      BY <3>2
    <3>6. Evicted(l, i, d2, p2, x, a)'
      BY <2>7, <2>8, <2>9, <2>10, <2>11, <3>1, <3>3, <3>4, <3>5 DEF Evicted, Kept2, Evicting
    <3>. QED
      BY <2>3, <2>6, <3>6 DEF Phase
  <2>. QED
    BY <2>12, <2>13
<1>6. CASE \A i \in EntriesOf(l) : ~mshr[i].is_evict
  <2>1. SameLine(l)
    BY <1>1, <1>6, LineSame
  <2>2. vn1_state = Arr(l)
    BY <1>2, <1>6, FwdLine
  <2>3. HitWays(l) # {}
    BY <1>4, <2>2 DEF Arr, Evicting
  <2>4. Arr(l)' = FwdNext(Arr(l), vn1_i.t)
    BY <1>0, <1>1, <1>4, <2>2, <2>3 DEF ArrNext
  <2>5. Arr(l) \in ArrayState
    BY WayFound DEF Arr, CacheType, ArrayState, StableL1
  <2>6. \/ Arr(l) \in {"E", "M"} /\ vn1_i.t = "FWD_GETS" /\ Arr(l)' = "S"
        \/ Arr(l) \in {"E", "M"} /\ vn1_i.t = "FWD_GETM" /\ Arr(l)' = "I"
        \/ Arr(l) = "S" /\ vn1_i.t = "INV" /\ Arr(l)' = "I"
        \/ Arr(l) = "SM_AD" /\ vn1_i.t = "INV" /\ Arr(l)' = "IM_AD"
    <3>1. \/ Arr(l) \in {"E", "M"} /\ vn1_i.t = "FWD_GETS"
          \/ Arr(l) \in {"E", "M"} /\ vn1_i.t = "FWD_GETM"
          \/ Arr(l) = "S" /\ vn1_i.t = "INV"
          \/ Arr(l) = "SM_AD" /\ vn1_i.t = "INV"
      BY <1>4, <2>2, <2>5 DEF ArrayState, StableL1, Fetching, Evicting
    <3>. QED
      BY <2>4, <3>1 DEF FwdNext
  <2>7. d # "NONE" /\ vn1_i.t = d /\ p2 = p
    BY <1>3, <2>6
  <2>8. CASE EntriesOf(l) = {}
    <3>1. AtRest(l, d, p, x, a)
      BY <2>8 DEF Phase
    <3>2. Agree(Arr(l)', "NONE", home[l].us)
      BY <2>6, <2>7, <3>1, DemandAgrees DEF AtRest
    <3>3. AtRest(l, d2, p2, x, a)'
      BY <1>3, <2>1, <2>7, <3>1, <3>2 DEF AtRest, None, SameLine, Kept2
    <3>. QED
      BY <2>1, <2>8, <3>3 DEF Phase, SameLine
  <2>9. CASE EntriesOf(l) # {}
    <3>1. PICK i \in EntriesOf(l) : TRUE
      BY <2>9
    <3>2. EntriesOf(l) = {i} /\ ~mshr[i].is_evict
      BY <1>6, <3>1 DEF EntriesOf, Places
    <3>3. Arr(l) \in Fetching /\ Fetched(l, i, d, p, x, a)
      BY <3>2, FetchedArr DEF Phase
    <3>4. Arr(l) = "SM_AD" /\ d = "INV" /\ Arr(l)' = "IM_AD"
      BY <2>6, <2>7, <3>3 DEF Fetching
    <3>5. Unserved(l, i, d, x, a) /\ ~p
      BY <3>3, <3>4 DEF Fetched, Served, Finished, Agree
    <3>6. req[l].t = "GETM" /\ Agree("S", d, home[l].us)
      BY <3>4, <3>5 DEF Unserved
    <3>7. Agree("I", "NONE", home[l].us)
      BY <3>4, <3>6, DemandAgrees
    <3>8. Unserved(l, i, d2, x, a)'
      BY <1>3, <2>1, <3>2, <3>4, <3>5, <3>6, <3>7 DEF Unserved, None, SameLine, SameKin, Kept2
    <3>. QED
      BY <2>1, <2>7, <3>2, <3>5, <3>8 DEF Phase, SameLine, SameKin, Fetched
  <2>. QED
    BY <2>8, <2>9
<1>. QED
  BY <1>5, <1>6

\* The entry and the way of a fetch that a response lands in.
LEMMA RspLands ==
  ASSUME CacheType, EnvType, Places, Expected, tick, NEW l \in Line, T2(l), NEW i \in EntriesOf(l), ~Ret(l)
  PROVE  /\ EntriesOf(l)' = {i} /\ EntriesOf(l) = {i} /\ req'[l].t = req[l].t /\ Kept2(l)
         /\ mshr'[i].is_evict = mshr[i].is_evict
         /\ mshr'[i].ack_cnt = vn2_ack_next
         /\ mshr'[i].data_valid <=> mshr[i].data_valid \/ FillsData(vn2_event)
         /\ mshr'[i].done <=> mshr[i].done \/ vn2_complete
         /\ vn2_complete => mshr'[i].state = vn2_state_eff /\ Arr(l)' = Arr(l)
         /\ ~vn2_complete => Arr(l)' = vn2_next
<1>0. Clock /\ Arr(l)' = ArrNext(l)
  BY ArrEdge DEF tick
<1>1. ~Hit1(l) /\ ~New1(l) /\ ~Put1(l) /\ ~T1(l)
  BY OneEvent
<1>2. EntriesOf(l) = {i}
  BY DEF EntriesOf, Places
<1>3. EntriesOf(l)' = {i}
  BY <1>1, <1>2, LineEntry
<1>4. Kin(mshr[i], mshr'[i], TRUE, FALSE)
  <2>1. Kin(mshr[i], mshr'[i], T2(l), T1(l) /\ mshr[i].is_evict)
    BY <1>1, LineEntry
  <2>. QED
    BY <1>1, <2>1 DEF Kin
<1>5. req'[l].t = req[l].t /\ Kept2(l)
  BY <1>1, ReqEdge, HomeEdge DEF Told, Kept2
<1>6. vn2_complete => Arr(l)' = Arr(l)
  BY <1>0, <1>1 DEF ArrNext
<1>7. ~vn2_complete => Arr(l)' = vn2_next
  <2>1. ~vn2_complete => Arr(l)' = vn2_state_eff
    BY <1>0, <1>1 DEF ArrNext
  <2>. QED
    BY <2>1 DEF vn2_state_eff, vn2_complete
<1>. QED
  BY <1>2, <1>3, <1>4, <1>5, <1>6, <1>7 DEF Kin

\* What a response brings about, in the terms of the state, the count and the message.
LEMMA RspOutcome ==
  ASSUME CacheType, EnvType, Places, Expected, NEW l \in Line, T2(l), NEW i \in EntriesOf(l),
         NEW s, NEW c, NEW t, NEW k, s = Arr(l), c = mshr[i].ack_cnt, t = vn2_i.t, k = vn2_i.ack, s \in Fetching
  PROVE  /\ t = "DATA_E" /\ s = "IS_D" => vn2_complete /\ vn2_state_eff = "E" /\ vn2_ack_next = c /\ FillsData(vn2_event)
         /\ t \in {"DATA_DIR", "DATA_OWNER"} /\ s = "IS_D" /\ k = 0 =>
              vn2_complete /\ vn2_state_eff = "S" /\ vn2_ack_next = c /\ FillsData(vn2_event)
         /\ (t = "DATA_OWNER" \/ (t = "DATA_DIR" /\ k = 0)) /\ s \in {"IM_AD", "SM_AD"} =>
              vn2_complete /\ vn2_state_eff = "M" /\ vn2_ack_next = c /\ FillsData(vn2_event)
         /\ t = "DATA_DIR" /\ k # 0 /\ s \in {"IM_AD", "SM_AD"} =>
              /\ vn2_ack_next = c + k /\ FillsData(vn2_event)
              /\ c + k = 0 => vn2_complete /\ vn2_state_eff = "M"
              /\ c + k # 0 => ~vn2_complete /\ vn2_next \in {"IM_A", "SM_A"}
         /\ t = "INV_ACK" /\ s \in {"IM_AD", "SM_AD"} => vn2_ack_next = c - 1 /\ ~vn2_complete /\ vn2_next = s
         /\ t = "INV_ACK" /\ s \in {"IM_A", "SM_A"} =>
              /\ vn2_ack_next = c - 1
              /\ c - 1 = 0 => vn2_complete /\ vn2_state_eff = "M"
<1>1. /\ vn2_i \in RspMsg /\ vn2_next = RspNext(s, vn2_event)
      /\ vn2_ack_next = c + (IF AddsAcks(vn2_event) THEN k ELSE 0) - (IF TakesAck(vn2_event) THEN 1 ELSE 0)
  BY RspLine
<1>2. c \in Int /\ k \in 0 .. 1
  BY <1>1 DEF CacheType, EntryRec, EntriesOf, RspMsg
<1>3. vn2_event = RspEventOf(t, k)
  BY DEF vn2_event
<1>4. PICK e : e = vn2_event
  OBVIOUS
<1>5. /\ t = "DATA_E" => e = "DATA_E_DIR"
      /\ t = "DATA_DIR" /\ k = 0 => e = "DATA_DIR_A0"
      /\ t = "DATA_DIR" /\ k # 0 => e = "DATA_DIR_AGT0"
      /\ t = "DATA_OWNER" => e = "DATA_OWNER"
      /\ t = "INV_ACK" => e = "INV_ACK"
  BY <1>3, <1>4 DEF RspEventOf, DataDirEvent
<1>6. /\ e \in {"DATA_E_DIR", "DATA_DIR_A0", "DATA_OWNER"} => Completes(e) /\ FillsData(e) /\ ~AddsAcks(e) /\ ~TakesAck(e)
      /\ e = "DATA_DIR_AGT0" => ~Completes(e) /\ FillsData(e) /\ AddsAcks(e) /\ ~TakesAck(e)
      /\ e = "INV_ACK" => ~Completes(e) /\ ~AddsAcks(e) /\ TakesAck(e)
  BY DEF Completes, FillsData, AddsAcks, TakesAck
<1>7. /\ s = "IS_D" /\ e = "DATA_E_DIR" => RspNext(s, e) = "E"
      /\ s = "IS_D" /\ e \in {"DATA_DIR_A0", "DATA_OWNER"} => RspNext(s, e) = "S"
      /\ s \in {"IM_AD", "SM_AD"} /\ e \in {"DATA_DIR_A0", "DATA_OWNER"} => RspNext(s, e) = "M"
      /\ s \in {"IM_AD", "SM_AD"} /\ e = "DATA_DIR_AGT0" => RspNext(s, e) \in {"IM_A", "SM_A"}
      /\ s \in Fetching /\ e = "INV_ACK" => RspNext(s, e) = s
  BY DEF RspNext
<1>8. vn2_counted <=> RspNext(s, e) \in {"IM_A", "SM_A"} /\ vn2_ack_next = 0
  BY <1>1, <1>4 DEF vn2_counted
<1>9. vn2_complete <=> vn2_counted \/ Completes(e)
  BY <1>4 DEF vn2_complete
<1>10. vn2_state_eff = IF vn2_counted THEN "M" ELSE RspNext(s, e)
  BY <1>1, <1>4 DEF vn2_state_eff
<1>11. vn2_ack_next = c + (IF AddsAcks(e) THEN k ELSE 0) - (IF TakesAck(e) THEN 1 ELSE 0)
  BY <1>1, <1>4
<1>12. CASE e \in {"DATA_E_DIR", "DATA_DIR_A0", "DATA_OWNER"}
  <2>1. vn2_complete /\ vn2_ack_next = c /\ FillsData(vn2_event) /\ TRUE
    BY <1>2, <1>4, <1>6, <1>9, <1>11, <1>12
  <2>2. ASSUME RspNext(s, e) \in {"E", "S", "M"} PROVE vn2_state_eff = RspNext(s, e)
    BY <1>8, <1>10, <2>2
  <2>. QED
    BY <1>5, <1>7, <1>12, <2>1, <2>2
<1>13. CASE e = "DATA_DIR_AGT0"
  <2>1. vn2_ack_next = c + k /\ FillsData(vn2_event)
    BY <1>2, <1>4, <1>6, <1>11, <1>13
  <2>2. ASSUME s \in {"IM_AD", "SM_AD"}
        PROVE  /\ c + k = 0 => vn2_complete /\ vn2_state_eff = "M"
               /\ c + k # 0 => ~vn2_complete /\ vn2_next \in {"IM_A", "SM_A"}
    BY <1>1, <1>4, <1>6, <1>7, <1>8, <1>9, <1>10, <1>13, <2>1, <2>2
  <2>. QED
    BY <1>5, <1>13, <2>1, <2>2
<1>14. CASE e = "INV_ACK"
  <2>1. vn2_ack_next = c - 1 /\ RspNext(s, e) = s /\ vn2_next = s
    BY <1>1, <1>2, <1>4, <1>6, <1>7, <1>11, <1>14
  <2>2. ~Completes(e)
    BY <1>6, <1>14
  <2>. QED
    BY <1>5, <1>8, <1>9, <1>10, <1>14, <2>1, <2>2
<1>15. e \in RspEvent
  BY <1>4, RspLine
<1>. QED
  BY <1>12, <1>13, <1>14, <1>15 DEF RspEvent

\* A line that a response comes for.
LEMMA PhaseRsp ==
  ASSUME CacheType, EnvType, Places, Expected, tick, NEW l \in Line, NEW d, NEW p, NEW x, NEW a, Phase(l, d, p, x, a),
         NEW x2, NEW a2, T2(l), RspShape(l, x, a), Past2(l, x, a, x2, a2)
  PROVE  Phase(l, d, p, x2, a2)' /\ ~Ret(l)
<1>1. ~Hit1(l) /\ ~New1(l) /\ ~Put1(l) /\ ~T1(l) /\ EntriesOf(l) # {}
  BY OneEvent
<1>2. PICK i \in EntriesOf(l) : TRUE
  BY <1>1
<1>3. EntriesOf(l) = {i}
  BY <1>2 DEF EntriesOf, Places
<1>4. ~None(l, x, a) /\ vn2_i.line = l
  BY DEF T2, Past2, None
<1>5. ~mshr[i].is_evict /\ Served(l, i, d, x, a) /\ ~p
  BY <1>3, <1>4 DEF Phase, Evicted, Fetched, Unserved, Finished
<1>6. ~Ret(l)
  BY <1>3, <1>5, LineEntry DEF Served
<1>7. /\ EntriesOf(l)' = {i} /\ EntriesOf(l) = {i} /\ req'[l].t = req[l].t /\ Kept2(l)
      /\ ~mshr'[i].is_evict
      /\ mshr'[i].ack_cnt = vn2_ack_next
      /\ mshr'[i].data_valid <=> mshr[i].data_valid \/ FillsData(vn2_event)
      /\ mshr'[i].done <=> vn2_complete
      /\ vn2_complete => mshr'[i].state = vn2_state_eff /\ Arr(l)' = Arr(l)
      /\ ~vn2_complete => Arr(l)' = vn2_next
  BY <1>3, <1>5, <1>6, RspLands DEF Served
<1>8. PICK s, c, t, k : s = Arr(l) /\ c = mshr[i].ack_cnt /\ t = vn2_i.t /\ k = vn2_i.ack
  OBVIOUS
<1>9. s \in Fetching /\ c \in Int
  BY <1>5, <1>8, FetchedArr DEF CacheType, EntryRec, EntriesOf
<1>10. /\ t = "DATA_E" /\ s = "IS_D" => vn2_complete /\ vn2_state_eff = "E" /\ vn2_ack_next = c /\ FillsData(vn2_event)
       /\ t \in {"DATA_DIR", "DATA_OWNER"} /\ s = "IS_D" /\ k = 0 =>
            vn2_complete /\ vn2_state_eff = "S" /\ vn2_ack_next = c /\ FillsData(vn2_event)
       /\ (t = "DATA_OWNER" \/ (t = "DATA_DIR" /\ k = 0)) /\ s \in {"IM_AD", "SM_AD"} =>
            vn2_complete /\ vn2_state_eff = "M" /\ vn2_ack_next = c /\ FillsData(vn2_event)
       /\ t = "DATA_DIR" /\ k # 0 /\ s \in {"IM_AD", "SM_AD"} =>
            /\ vn2_ack_next = c + k /\ FillsData(vn2_event)
            /\ c + k = 0 => vn2_complete /\ vn2_state_eff = "M"
            /\ c + k # 0 => ~vn2_complete /\ vn2_next \in {"IM_A", "SM_A"}
       /\ t = "INV_ACK" /\ s \in {"IM_AD", "SM_AD"} => vn2_ack_next = c - 1 /\ ~vn2_complete /\ vn2_next = s
       /\ t = "INV_ACK" /\ s \in {"IM_A", "SM_A"} =>
            /\ vn2_ack_next = c - 1
            /\ c - 1 = 0 => vn2_complete /\ vn2_state_eff = "M"
  BY <1>8, <1>9, RspOutcome
<1>11. /\ a \in 0 .. 1 /\ home[l].acks \in 0 .. 1 /\ home'[l].acks = home[l].acks /\ home'[l].us = home[l].us
       /\ req'[l].t = "NONE"
  BY <1>5, <1>7 DEF RspShape, EnvType, HomeRec, Kept2, Served
<1>12. t \in {"DATA_E", "DATA_DIR", "DATA_OWNER", "INV_ACK"} /\ k \in 0 .. 1
  BY <1>8, RspState DEF T2, RspMsg
<1>13. CASE x # NoMsg /\ vn2_i = x /\ x2 = NoMsg /\ a2 = a
  <2>1. t # "INV_ACK" /\ t = x.t /\ k = x.ack
    BY <1>8, <1>13 DEF RspShape
  <2>2. CASE s = "IS_D"
    <3>1. k = 0 /\ a = 0 /\ home[l].acks = 0 /\ c = 0 /\ Agree(Grant(x), d, home[l].us)
      BY <1>5, <1>8, <1>13, <2>1, <2>2 DEF Served
    <3>2. vn2_complete /\ vn2_state_eff = Grant(x) /\ vn2_ack_next = 0 /\ FillsData(vn2_event)
      BY <1>10, <1>12, <2>1, <2>2, <3>1 DEF Grant
    <3>3. Grant(x) \in {"E", "S"}
      BY DEF Grant
    <3>4. Finished(l, i, d, x2, a2)'
      BY <1>7, <1>8, <1>11, <1>13, <2>2, <3>1, <3>2, <3>3 DEF Finished, None
    <3>. QED
      BY <1>5, <1>6, <1>7, <3>4 DEF Phase, Fetched
  <2>3. CASE s \in {"IM_AD", "SM_AD"}
    <3>1. /\ t \in {"DATA_DIR", "DATA_OWNER"} /\ (t = "DATA_OWNER" => k = 0)
          /\ k = a + home[l].acks - c /\ c \in -1 .. 0 /\ Agree("M", d, home[l].us)
      BY <1>5, <1>8, <1>13, <2>1, <2>3 DEF Served
    <3>2. CASE vn2_complete
      <4>1. vn2_state_eff = "M" /\ vn2_ack_next = 0 /\ a = 0 /\ home[l].acks = 0 /\ FillsData(vn2_event)
        BY <1>9, <1>10, <1>11, <1>12, <2>3, <3>1, <3>2
      <4>2. Finished(l, i, d, x2, a2)'
        BY <1>7, <1>8, <1>11, <1>13, <2>3, <3>1, <3>2, <4>1 DEF Finished, None
      <4>. QED
        BY <1>5, <1>6, <1>7, <4>2 DEF Phase, Fetched
    <3>3. CASE ~vn2_complete
      <4>1. vn2_ack_next = 1 /\ a + home[l].acks = 1 /\ FillsData(vn2_event) /\ vn2_next \in {"IM_A", "SM_A"}
        BY <1>9, <1>10, <1>11, <1>12, <2>3, <3>1, <3>3
      <4>2. Served(l, i, d, x2, a2)'
        BY <1>7, <1>11, <1>13, <3>1, <3>3, <4>1 DEF Served
      <4>. QED
        BY <1>5, <1>6, <1>7, <4>2 DEF Phase, Fetched
    <3>. QED
      BY <3>2, <3>3
  <2>4. s \notin {"IM_A", "SM_A"}
    BY <1>5, <1>8, <1>13 DEF Served
  <2>. QED
    BY <1>9, <2>2, <2>3, <2>4 DEF Fetching
<1>14. CASE a = 1 /\ vn2_i = InvAck(l) /\ x2 = x /\ a2 = 0
  <2>1. t = "INV_ACK"
    BY <1>8, <1>14 DEF InvAck
  <2>2. s # "IS_D"
    BY <1>5, <1>8, <1>14 DEF Served
  <2>3. CASE s \in {"IM_AD", "SM_AD"}
    <3>1. /\ x # NoMsg /\ x.t \in {"DATA_DIR", "DATA_OWNER"} /\ (x.t = "DATA_OWNER" => x.ack = 0) /\ x.ack \in 0 .. 1
          /\ x.ack = a + home[l].acks - c /\ c \in -1 .. 0 /\ Agree("M", d, home[l].us)
      BY <1>5, <1>8, <2>3 DEF Served
    <3>2. vn2_ack_next = c - 1 /\ ~vn2_complete /\ vn2_next = s
      BY <1>10, <2>1, <2>3
    <3>3. c = 0 /\ x.ack = 0 + home[l].acks - (c - 1)
      BY <1>11, <1>14, <3>1
    <3>4. Served(l, i, d, x2, a2)'
      BY <1>7, <1>8, <1>11, <1>14, <2>3, <3>1, <3>2, <3>3 DEF Served
    <3>. QED
      BY <1>5, <1>6, <1>7, <3>4 DEF Phase, Fetched
  <2>4. CASE s \in {"IM_A", "SM_A"}
    <3>1. x = NoMsg /\ mshr[i].data_valid /\ c = 1 /\ a + home[l].acks = 1 /\ Agree("M", d, home[l].us)
      BY <1>5, <1>8, <2>4 DEF Served
    <3>2. vn2_complete /\ vn2_state_eff = "M" /\ vn2_ack_next = 0 /\ home[l].acks = 0
      BY <1>10, <1>11, <1>14, <2>1, <2>4, <3>1
    <3>3. Finished(l, i, d, x2, a2)'
      BY <1>7, <1>8, <1>11, <1>14, <2>4, <3>1, <3>2 DEF Finished, None
    <3>. QED
      BY <1>5, <1>6, <1>7, <3>3 DEF Phase, Fetched
  <2>. QED
    BY <1>9, <2>2, <2>3, <2>4 DEF Fetching
<1>. QED
  BY <1>4, <1>13, <1>14 DEF Past2

\* While the machine answers a forward of the line, nothing new is granted to it.
LEMMA CalmTick ==
  ASSUME CacheType, EnvType, Places, V1Ok, Expected, tick, NEW l \in Line, NEW d, NEW p, NEW x, NEW a,
         Phase(l, d, p, x, a), Calm(l), NEW d2, NEW p2, Past1(l, d, p, d2, p2),
         T2(l) => ~Ret(l), ~T1(l) => (Sending(l)' # {} => Sending(l) # {})
  PROVE  Calm(l)'
<1>. SUFFICES ASSUME Sending(l)' # {}
              PROVE  \/ EntriesOf(l)' = {} /\ Arr(l)' \in {"I", "S"}
                     \/ req'[l].t # "NONE"
                     \/ \E i \in EntriesOf(l)' : mshr'[i].is_evict
  BY DEF Calm
<1>c. Clock /\ Arr(l)' = ArrNext(l)
  BY ArrEdge DEF tick
<1>e. /\ Hit1(l) => ~New1(l) /\ ~Put1(l) /\ ~Ret(l) /\ ~T1(l) /\ ~T2(l)
      /\ T1(l) => ~Ret(l) /\ ~T2(l) /\ ~New1(l) /\ ~Put1(l) /\ ~Hit1(l)
      /\ T2(l) => EntriesOf(l) # {}
      /\ Ret(l) => EntriesOf(l) # {}
  BY OneEvent
<1>n. /\ New1(l) => req'[l].t # "NONE"
      /\ ~New1(l) /\ ~Put1(l) => req'[l].t = req[l].t
  BY ReqEdge
<1>l. /\ \A i \in EntriesOf(l) : ~Ret(l) => i \in EntriesOf(l)' /\ Kin(mshr[i], mshr'[i], T2(l), T1(l) /\ mshr[i].is_evict)
      /\ \A i \in EntriesOf(l)' : \/ i \in EntriesOf(l) /\ ~Ret(l)
                                  \/ EntriesOf(l) = {} /\ (New1(l) \/ Put1(l)) /\ Fresh(mshr'[i])
      /\ New1(l) \/ Put1(l) => EntriesOf(l) = {} /\ EntriesOf(l)' # {}
      /\ Ret(l) => retire_idx \in EntriesOf(l) /\ EntriesOf(l)' = {} /\ mshr[retire_idx].done
  BY LineEntry
<1>k. \A i \in EntriesOf(l) : mshr[i].is_evict /\ ~Ret(l) => i \in EntriesOf(l)' /\ mshr'[i].is_evict
  BY <1>l DEF Kin
<1>1. CASE New1(l)
  BY <1>1, <1>n
<1>2. CASE Put1(l)
  <2>1. PICK i \in EntriesOf(l)' : Fresh(mshr'[i])
    BY <1>2, <1>l
  <2>2. mshr'[i].is_evict
    BY <2>1, <1>2 DEF Fresh, Put1
  <2>. QED  BY <2>2
<1>3. CASE T1(l)
  <2>1. vn1_take /\ vn1_i.line = l
    BY <1>3 DEF T1
  <2>2. /\ vn1_sends = Answers(vn1_i.t) /\ vn1_i \in FwdMsg
        /\ \/ vn1_state \in {"E", "M", "EI_A", "MI_A"} /\ vn1_i.t \in {"FWD_GETS", "FWD_GETM"}
           \/ vn1_state \in {"S", "SM_AD", "SI_A"} /\ vn1_i.t = "INV"
           \/ vn1_state \in Evicting /\ vn1_i.t = "PUT_ACK"
    BY <2>1, Taken
  <2>3. Sending(l)' = Answers(vn1_i.t)
    BY <1>3, SendingTick
  <2>4. vn1_i.t # "PUT_ACK"
    BY <2>3 DEF Answers
  <2>5. d # "NONE" /\ vn1_i.t = d
    BY <2>4, <1>3 DEF Past1, Forward
  <2>6. CASE EntriesOf(l) = {}
    <3>1. vn1_state = Arr(l) /\ ~vn1_in_mshr
      BY <2>6, <2>1, FwdLine
    <3>2. vn1_state \in {"E", "M", "S", "SM_AD", "EI_A", "MI_A", "SI_A"}
      BY <2>2, <2>4
    <3>3. HitWays(l) # {}
      BY <3>1, <3>2 DEF Arr
    <3>4. TableNext(Arr(l), vn1_event) \in {"S", "I"} \/ vn1_state = "SM_AD"
      BY <2>1, <3>1, <3>3, FwdWay
    <3>5. vn1_state # "SM_AD"
      BY <2>6, <3>1 DEF Phase, AtRest, Agree
    <3>6. Arr(l)' = TableNext(Arr(l), vn1_event)
      BY <1>3, <1>c, <1>e, <3>3 DEF ArrNext
    <3>7. EntriesOf(l)' = {}
      BY <1>l, <2>6, <1>3, <1>e
    <3>. QED  BY <3>4, <3>5, <3>6, <3>7
  <2>7. CASE \E i \in EntriesOf(l) : mshr[i].is_evict
    BY <2>7, <1>k, <1>e, <1>3
  <2>8. ASSUME NEW i \in EntriesOf(l), \A j \in EntriesOf(l) : ~mshr[j].is_evict
        PROVE  req'[l].t # "NONE"
    <3>1. vn1_state = Arr(l)
      BY <2>8, <2>1, FwdLine
    <3>2. Arr(l) \in Fetching
      BY <2>8, FetchedArr
    <3>3. Arr(l) = "SM_AD" /\ d = "INV"
      BY <3>1, <3>2, <2>2, <2>4, <2>5 DEF Fetching, Evicting
    <3>4. Fetched(l, i, d, p, x, a)
      BY <2>8 DEF Phase
    <3>5. ~Agree("M", d, home[l].us)
      BY <3>3 DEF Agree
    <3>6. ~Served(l, i, d, x, a) /\ ~Finished(l, i, d, x, a)
      BY <3>3, <3>5 DEF Served, Finished
    <3>7. req[l].t # "NONE"
      BY <3>4, <3>6 DEF Fetched, Unserved
    <3>. QED  BY <3>7, <1>n, <1>e, <1>3
  <2>. QED  BY <2>6, <2>7, <2>8
<1>4. CASE ~T1(l) /\ ~New1(l) /\ ~Put1(l)
  <2>1. Sending(l) # {}
    BY <1>4
  <2>2. CASE req[l].t # "NONE"
    BY <2>2, <1>n, <1>4
  <2>3. CASE EntriesOf(l) = {} /\ Arr(l) \in {"I", "S"}
    <3>1. EntriesOf(l)' = {}
      BY <2>3, <1>l, <1>4
    <3>2. ~T2(l) /\ ~Ret(l)
      BY <2>3, <1>e
    <3>3. CASE Hit1(l)
      <4>1. s1_resp /\ s1.line = l
        BY <3>3 DEF Hit1
      <4>2. /\ WayOf(l) \in HitWays(l) /\ s1_state = state_q[WayOf(l)]
            /\ \/ s1_event = "LOAD" /\ s1_state \in {"S", "E", "M", "SM_AD", "SM_A"} /\ TableNext(s1_state, s1_event) = s1_state
               \/ s1_event = "STORE" /\ s1_state \in {"E", "M"} /\ TableNext(s1_state, s1_event) = "M"
        BY <4>1, RespFacts
      <4>3. Arr(l) = s1_state
        BY <4>2 DEF Arr
      <4>4. TableNext(Arr(l), s1_event) = Arr(l)
        BY <4>2, <4>3, <2>3
      <4>. QED  BY <3>1, <3>3, <4>4, <1>c, <2>3 DEF ArrNext
    <3>4. CASE ~Hit1(l)
      BY <3>1, <3>2, <3>4, <1>4, <1>c, <2>3 DEF ArrNext
    <3>. QED  BY <3>3, <3>4
  <2>4. CASE \E i \in EntriesOf(l) : mshr[i].is_evict
    <3>1. CASE ~Ret(l)
      BY <3>1, <2>4, <1>k
    <3>2. CASE Ret(l)
      <4>1. EntriesOf(l)' = {} /\ retire_idx \in EntriesOf(l)
        BY <3>2, <1>l
      <4>2. PICK i \in EntriesOf(l) : mshr[i].is_evict
        BY <2>4
      <4>3. Arr(l) = "I"
        BY <4>2, FetchedArr
      <4>4. \A j \in EntriesOf(l) : ~mshr[j].is_evict => Arr(l) \in Fetching
        BY FetchedArr
      <4>5. mshr[retire_idx].is_evict
        BY <4>1, <4>3, <4>4 DEF Fetching
      <4>6. ~Hit1(l) /\ ~T2(l)
        BY <3>2, <1>e
      <4>7. Arr(l)' = "I"
        BY <4>3, <4>5, <4>6, <1>4, <1>c DEF ArrNext
      <4>. QED  BY <4>1, <4>7
    <3>. QED  BY <3>1, <3>2
  <2>. QED  BY <2>1, <2>2, <2>3, <2>4 DEF Calm
<1>. QED  BY <1>1, <1>2, <1>3, <1>4

\* Only a line that is fetched has a response offered.
LEMMA RspExpected ==
  ASSUME CacheType, EnvType, Places, NEW l \in Line, NEW d, NEW p, NEW x, NEW a, LineOk(l, d, p, x, a), vn2_i.line = l
  PROVE  T2(l) /\ HitWays(l) # {}
<1>1. vn2_i # NoMsg
  BY PipelineShape DEF NoMsg
<1>2. Offered2(l) = {vn2_i}
  BY <1>1 DEF Offered2
<1>3. ~None(l, x, a)
  BY <1>2 DEF LineOk, RspShape, None
<1>4. EntriesOf(l) # {}
  BY <1>3 DEF LineOk, AtRest
<1>5. PICK i \in EntriesOf(l) : ~mshr[i].is_evict
  BY <1>3, <1>4 DEF LineOk, Evicted
<1>6. HitWays(l) # {}
  BY <1>5, FetchedArr
<1>. QED  BY <1>1, <1>4, <1>6 DEF T2, vn2_lands, vn2_take, vn2_hit

\* No response lands for a line that has no way.
LEMMA ExpectedHere ==
  ASSUME CacheType, EnvType, Places, LinesOk
  PROVE  Expected
<1>. SUFFICES ASSUME vn2_lands PROVE HitWays(vn2_i.line) # {}
  BY DEF Expected
<1>1. vn2_i \in RspMsg
  BY DEF vn2_lands, vn2_take, EnvType
<1>2. vn2_i.line \in Line
  BY <1>1 DEF RspMsg
<1>3. PICK l : l = vn2_i.line
  OBVIOUS
<1>4. PICK d, p, x, a : LineOk(l, d, p, x, a)
  BY <1>2, <1>3 DEF LinesOk
<1>5. HitWays(l) # {}
  BY <1>2, <1>3, <1>4, RspExpected
<1>. QED  BY <1>3, <1>5

\* A line keeps its place in its life over a clock edge, whatever happens to it.
LEMMA PhaseTick ==
  ASSUME CacheType, EnvType, Places, Expected, tick, NEW l \in Line, NEW d, NEW p, NEW x, NEW a, LineOk(l, d, p, x, a),
         NEW d2, NEW p2, Past1(l, d, p, d2, p2), NEW x2, NEW a2, Past2(l, x, a, x2, a2)
  PROVE  Phase(l, d2, p2, x2, a2)' /\ (T2(l) => ~Ret(l))
<1>p. Phase(l, d, p, x, a) /\ RspShape(l, x, a)
  BY DEF LineOk, Phase
<1>e. /\ Hit1(l) => ~New1(l) /\ ~Put1(l) /\ ~Ret(l) /\ ~T1(l) /\ ~T2(l)
      /\ Put1(l) => ~New1(l) /\ ~Ret(l) /\ ~T1(l) /\ ~T2(l)
      /\ New1(l) => ~Ret(l) /\ ~T1(l) /\ ~T2(l)
      /\ T1(l) => ~Ret(l) /\ ~T2(l)
  BY OneEvent
<1>1. ~T2(l) => vn2_i.line # l
  BY RspExpected
<1>2. ~T2(l) => x2 = x /\ a2 = a
  BY <1>1 DEF Past2
<1>3. ~T1(l) => d2 = d /\ p2 = p
  BY DEF Past1
<1>4. CASE T2(l)
  <2>1. Phase(l, d, p, x2, a2)' /\ ~Ret(l)
    BY <1>4, <1>p, PhaseRsp
  <2>. QED  BY <2>1, <1>3, <1>4, <1>e
<1>5. CASE T1(l)
  <2>1. Phase(l, d2, p2, x, a)'
    BY <1>5, <1>p, PhaseFwd
  <2>. QED  BY <2>1, <1>2, <1>5, <1>e
<1>6. CASE ~T1(l) /\ ~T2(l)
  <2>1. Phase(l, d, p, x, a)'
    <3>1. CASE Ret(l)
      BY <3>1, <1>6, <1>p, PhaseRet
    <3>2. CASE New1(l)
      BY <3>2, <1>p, PhaseNew
    <3>3. CASE Put1(l)
      BY <3>3, <1>p, PhasePut
    <3>4. CASE ~Ret(l) /\ ~New1(l) /\ ~Put1(l)
      BY <3>4, <1>6, <1>p, PhaseHit
    <3>. QED  BY <3>1, <3>2, <3>3, <3>4
  <2>. QED  BY <2>1, <1>2, <1>3, <1>6
<1>. QED  BY <1>4, <1>5, <1>6

\* What a line, its home and the messages between them have in common stays over a clock edge.
LEMMA LineTick ==
  ASSUME CacheType, EnvType, Places, V1Ok, Expected, tick, NEW l \in Line, NEW d \in Dem, NEW p \in BOOLEAN, NEW x, NEW a,
         LineOk(l, d, p, x, a)
  PROVE  \E d2 \in Dem, p2 \in BOOLEAN, x2 \in rsp'[l] \cup {vn2_i', NoMsg}, a2 \in 0 .. 1 : LineOk(l, d2, p2, x2, a2)'
<1>1. FwdShape(l, d, p) /\ RspShape(l, x, a) /\ PendOk(l, d) /\ Calm(l) /\ Phase(l, d, p, x, a)
  BY DEF LineOk, Phase
<1>2. PICK d2 \in {d, "NONE"}, p2 \in BOOLEAN : Past1(l, d, p, d2, p2) /\ FwdShape(l, d2, p2)'
  BY <1>1, FwdShapeTick
<1>3. PICK x2 \in {x, NoMsg}, a2 \in 0 .. 1 : Past2(l, x, a, x2, a2) /\ RspShape(l, x2, a2)'
  BY <1>1, RspShapeTick
<1>4. PendOk(l, d2)' /\ d2 \in Dem /\ (~T1(l) => (Sending(l)' # {} => Sending(l) # {}))
  BY <1>1, <1>2, PendTick
<1>5. Phase(l, d2, p2, x2, a2)' /\ (T2(l) => ~Ret(l))
  BY <1>2, <1>3, PhaseTick
<1>6. Calm(l)'
  BY <1>1, <1>2, <1>4, <1>5, CalmTick
<1>7. LineOk(l, d2, p2, x2, a2)'
  BY <1>2, <1>3, <1>4, <1>5, <1>6 DEF LineOk, Phase
<1>8. x2 \in rsp'[l] \cup {vn2_i', NoMsg}
  BY <1>3 DEF RspShape, Offered2
<1>. QED  BY <1>4, <1>7, <1>8

\* Every line stays in order with its home over a clock edge.
LEMMA LinesTick ==
  ASSUME CacheType, EnvType, Places, V1Ok, LinesOk, tick
  PROVE  LinesOk'
<1>1. Expected
  BY ExpectedHere
<1>2. SUFFICES ASSUME NEW l \in Line
               PROVE  \E d2 \in Dem, p2 \in BOOLEAN, x2 \in rsp'[l] \cup {vn2_i', NoMsg}, a2 \in 0 .. 1 :
                        LineOk(l, d2, p2, x2, a2)'
  BY DEF LinesOk
<1>3. PICK d \in Dem, p \in BOOLEAN, x \in rsp[l] \cup {vn2_i, NoMsg}, a \in 0 .. 1 : LineOk(l, d, p, x, a)
  BY DEF LinesOk
<1>. QED  BY <1>1, <1>3, LineTick

\* Nobody shares with an owner, over a clock edge.
LEMMA OthersTick ==
  ASSUME CacheType, EnvType, OthersOk, tick
  PROVE  OthersOk'
<1>1. \A l \in Line : home'[l].us = home[l].us /\ home'[l].them = home[l].them
  BY HomeEdge DEF Told
<1>. QED  BY <1>1 DEF OthersOk

---------------------------------------------------------------------------
(* A line when its home or the others move *)

\* What the home and the others do for one line leaves the others alone.
Else(l) == \A k \in Line : k # l => req'[k] = req[k] /\ fwd'[k] = fwd[k] /\ rsp'[k] = rsp[k] /\ home'[k] = home[k]

\* What the home and the others do is for one line.
LEMMA ElseOutside ==
  ASSUME EnvType, NEW l \in Line, Outside(l)
  PROVE  Else(l)
<1>t. req = [k \in Line |-> req[k]] /\ fwd = [k \in Line |-> fwd[k]] /\ rsp = [k \in Line |-> rsp[k]]
      /\ home = [k \in Line |-> home[k]]
  BY DEF EnvType
<1>1. CASE serve_gets(l) \/ serve_getm(l) \/ sharer_acks(l)
  BY <1>1, <1>t DEF Else, serve_gets, serve_getm, sharer_acks, HomeOnly
<1>2. CASE serve_put(l)
  BY <1>2, <1>t DEF Else, serve_put, HomeOnly
<1>3. CASE other_writes(l) \/ other_drops(l)
  BY <1>3, <1>t DEF Else, other_writes, other_drops
<1>4. ASSUME NEW t, other_asks(l, t) PROVE Else(l)
  <2>1. \A k \in Line : k # l => home'[k] = home[k] /\ req'[k] = req[k] /\ rsp'[k] = rsp[k]
    BY <1>4, <1>t DEF other_asks
  <2>2. PICK q : fwd' = [fwd EXCEPT ![l] = q]
    BY <1>4 DEF other_asks
  <2>. QED  BY <2>1, <2>2, <1>t DEF Else
<1>. QED  BY <1>1, <1>2, <1>3, <1>4 DEF Outside

\* What the cache has of a line is not changed by what is around it.
SameCache(l) ==
    /\ Arr(l)' = Arr(l) /\ EntriesOf(l)' = EntriesOf(l) /\ Offered2(l)' = Offered2(l) /\ Sending(l)' = Sending(l)
    /\ vn1_i' = vn1_i
    /\ \A i \in EntriesOf(l) : SameKin(mshr[i], mshr'[i])

\* A cache that is left alone has of each line what it had.
LEMMA CacheQuiet ==
  ASSUME Quiet, NEW l
  PROVE  SameCache(l)
<1>1. Arr(l)' = Arr(l) /\ EntriesOf(l)' = EntriesOf(l)
  BY HitQuiet
<1>2. \A i \in EntriesOf(l) : SameKin(mshr[i], mshr'[i])
  BY DEF Quiet, SameEntry, SameKin, EntriesOf
<1>. QED  BY <1>1, <1>2 DEF SameCache, Quiet, Offered2, Sending

\* A line that keeps what is on record for it and what is on its way stays as it is.
LEMMA LineQuiet ==
  ASSUME NEW l \in Line, SameCache(l), NEW d, NEW p, NEW x, NEW a, LineOk(l, d, p, x, a),
         fwd'[l] = fwd[l], rsp'[l] = rsp[l], req'[l].t = req[l].t,
         home'[l].us = home[l].us, home'[l].acks = home[l].acks,
         home'[l].pend = home[l].pend
  PROVE  LineOk(l, d, p, x, a)'
<1>0. Phase(l, d, p, x, a)
  BY DEF LineOk, Phase
<1>1. SameLine(l) /\ Arr(l)' = Arr(l)
  BY DEF SameCache, SameLine, Kept2
<1>2. Phase(l, d, p, x, a)'
  BY <1>0, <1>1, PhaseSame
<1>3. FwdShape(l, d, p)'
  BY DEF LineOk, FwdShape, SameCache
<1>4. RspShape(l, x, a)'
  BY DEF LineOk, RspShape, SameCache
<1>5. PendOk(l, d)'
  BY DEF LineOk, PendOk, SameCache
<1>6. Calm(l)'
  <2>1. \A i \in EntriesOf(l) : mshr'[i].is_evict = mshr[i].is_evict
    BY DEF SameCache, SameKin
  <2>2. Calm(l)
    BY DEF LineOk
  <2>. QED  BY <2>1, <2>2 DEF Calm, SameCache
<1>. QED  BY <1>2, <1>3, <1>4, <1>5, <1>6 DEF LineOk, Phase

\* A line none of whose answers is waited for has no demand on its way and no answer half sent.
LEMMA NoneWaited ==
  ASSUME NEW l, NEW d, d \in Dem, PendOk(l, d), home[l].pend = {}
  PROVE  d = "NONE" /\ Sending(l) = {}
BY DEF PendOk, Answers, Dem

\* What the home and the others have done for the line l.
GetsDone(l, y, u, v) ==
    /\ req[l].t = "GETS" /\ home[l].pend = {} /\ req'[l].t = "NONE" /\ fwd'[l] = fwd[l] /\ rsp'[l] = rsp[l] \cup {y}
    /\ home'[l].us = u /\ home'[l].them = v /\ home'[l].pend = {} /\ home'[l].acks = home[l].acks
    /\ y # NoMsg /\ y.t # "INV_ACK" /\ y.ack = 0 /\ Grant(y) = IF u = "X" THEN "E" ELSE "S"
    /\ (u = "X" /\ v = "I") \/ (u = "S" /\ v = "S")

\* What serving a read does.
LEMMA GetsIs ==
  ASSUME EnvType, NEW l \in Line, serve_gets(l)
  PROVE  \E y, u, v : GetsDone(l, y, u, v)
<1>1. PICK t \in {"DATA_E", "DATA_DIR", "DATA_OWNER"} :
        t = CASE home[l].them = "I" -> "DATA_E" [] home[l].them = "S" -> "DATA_DIR" [] OTHER -> "DATA_OWNER"
  OBVIOUS
<1>2. PICK u, v : u = (IF home[l].them = "I" THEN "X" ELSE "S") /\ v = (IF home[l].them = "I" THEN "I" ELSE "S")
  OBVIOUS
<1>3. PICK y : y = Data(t, l, 0)
  OBVIOUS
<1>4. home' = [home EXCEPT ![l] = [home[l] EXCEPT !.us = u, !.them = v]]
  BY <1>2 DEF serve_gets
<1>5. home[l] \in HomeRec /\ home'[l] = [home[l] EXCEPT !.us = u, !.them = v]
  BY <1>4 DEF EnvType
<1>6. home'[l].us = u /\ home'[l].them = v /\ home'[l].pend = home[l].pend /\ home'[l].acks = home[l].acks
  BY <1>5 DEF HomeRec
<1>7. rsp' = [rsp EXCEPT ![l] = @ \cup {y}]
  BY <1>1, <1>3 DEF serve_gets
<1>8. req[l].t = "GETS" /\ home[l].pend = {} /\ fwd' = fwd /\ req' = [req EXCEPT ![l] = NoPut]
  BY DEF serve_gets, HomeOnly
<1>9. rsp'[l] = rsp[l] \cup {y} /\ req'[l].t = "NONE"
  BY <1>7, <1>8 DEF EnvType, NoPut
<1>10. y \in RspOf(l) /\ y.t = t /\ y.ack = 0
  BY <1>3, DataType
<1>11. y # NoMsg
  BY <1>10, PipelineShape DEF RspOf, NoMsg
<1>12. Grant(y) = IF u = "X" THEN "E" ELSE "S"
  BY <1>10, <1>1, <1>2 DEF Grant
<1>13. GetsDone(l, y, u, v)
  BY <1>1, <1>2, <1>6, <1>8, <1>9, <1>10, <1>11, <1>12 DEF GetsDone
<1>. QED  BY <1>13

GetmDone(l, y, n) ==
    /\ req[l].t = "GETM" /\ home[l].pend = {} /\ req'[l].t = "NONE" /\ fwd'[l] = fwd[l] /\ rsp'[l] = rsp[l] \cup {y}
    /\ home'[l].us = "X" /\ home'[l].them = "I" /\ home'[l].pend = {} /\ home'[l].acks = n /\ n \in 0 .. 1
    /\ y # NoMsg /\ y.t \in {"DATA_DIR", "DATA_OWNER"} /\ y.ack = n /\ (y.t = "DATA_OWNER" => n = 0)

\* What serving a write does.
LEMMA GetmIs ==
  ASSUME EnvType, NEW l \in Line, serve_getm(l)
  PROVE  \E y, n : GetmDone(l, y, n)
<1>1. PICK t \in {"DATA_E", "DATA_DIR", "DATA_OWNER"} : t = IF home[l].them = "X" THEN "DATA_OWNER" ELSE "DATA_DIR"
  OBVIOUS
<1>2. PICK n \in 0 .. 1 : n = IF home[l].them = "S" THEN 1 ELSE 0
  OBVIOUS
<1>3. PICK y : y = Data(t, l, n)
  OBVIOUS
<1>4. home' = [home EXCEPT ![l] = [home[l] EXCEPT !.us = "X", !.them = "I", !.acks = n]]
  BY <1>2 DEF serve_getm
<1>5. home[l] \in HomeRec /\ home'[l] = [home[l] EXCEPT !.us = "X", !.them = "I", !.acks = n]
  BY <1>4 DEF EnvType
<1>6. home'[l].us = "X" /\ home'[l].them = "I" /\ home'[l].pend = home[l].pend /\ home'[l].acks = n
  BY <1>5 DEF HomeRec
<1>7. rsp' = [rsp EXCEPT ![l] = @ \cup {y}]
  BY <1>1, <1>2, <1>3 DEF serve_getm
<1>8. req[l].t = "GETM" /\ home[l].pend = {} /\ fwd' = fwd /\ req' = [req EXCEPT ![l] = NoPut]
  BY DEF serve_getm, HomeOnly
<1>9. rsp'[l] = rsp[l] \cup {y} /\ req'[l].t = "NONE"
  BY <1>7, <1>8 DEF EnvType, NoPut
<1>10. y \in RspOf(l) /\ y.t = t /\ y.ack = n
  BY <1>3, DataType
<1>11. y # NoMsg
  BY <1>10, PipelineShape DEF RspOf, NoMsg
<1>12. GetmDone(l, y, n)
  BY <1>1, <1>2, <1>6, <1>8, <1>9, <1>10, <1>11 DEF GetmDone
<1>. QED  BY <1>12

PutDone(l) ==
    /\ req[l].t \in {"PUTS", "PUTE", "PUTM"} /\ req'[l].t = "NONE" /\ rsp'[l] = rsp[l]
    /\ fwd'[l] = Append(fwd[l], Forward(l, "PUT_ACK"))
    /\ home'[l].us = (IF home[l].us = "X" /\ req[l].t = "PUTS" THEN "X" ELSE "I")
    /\ home'[l].them = home[l].them /\ home'[l].pend = home[l].pend /\ home'[l].acks = home[l].acks

\* What serving a Put does.
LEMMA PutIs ==
  ASSUME EnvType, NEW l \in Line, serve_put(l)
  PROVE  PutDone(l)
<1>1. PICK u, f : /\ u = (IF home[l].us = "X" /\ req[l].t = "PUTS" THEN home[l].us ELSE "I")
                  /\ f = (IF home[l].us = "X" /\ req[l].t = "PUTM" THEN req[l].fresh ELSE home[l].fresh)
  OBVIOUS
<1>2. home' = [home EXCEPT ![l].us = u, ![l].fresh = f]
  BY <1>1 DEF serve_put, EnvType
<1>3. home[l] \in HomeRec /\ home'[l] = [home[l] EXCEPT !.us = u, !.fresh = f]
  BY <1>2 DEF EnvType
<1>4. home'[l].us = u /\ home'[l].them = home[l].them /\ home'[l].pend = home[l].pend /\ home'[l].acks = home[l].acks
  BY <1>3 DEF HomeRec
<1>5. req[l].t \in {"PUTS", "PUTE", "PUTM"} /\ rsp' = rsp /\ req' = [req EXCEPT ![l] = NoPut]
      /\ fwd' = [fwd EXCEPT ![l] = Append(@, Forward(l, "PUT_ACK"))]
  BY DEF serve_put, HomeOnly, Forward
<1>6. req'[l].t = "NONE" /\ fwd'[l] = Append(fwd[l], Forward(l, "PUT_ACK"))
  BY <1>5 DEF EnvType, NoPut
<1>. QED  BY <1>1, <1>4, <1>5, <1>6 DEF PutDone

AckDone(l) ==
    /\ home[l].acks = 1 /\ rsp'[l] = rsp[l] \cup {InvAck(l)} /\ fwd'[l] = fwd[l] /\ req'[l] = req[l]
    /\ home'[l].us = home[l].us /\ home'[l].them = home[l].them /\ home'[l].pend = home[l].pend /\ home'[l].acks = 0

\* What the other sharer's acknowledgement does.
LEMMA AckIs ==
  ASSUME EnvType, NEW l \in Line, sharer_acks(l)
  PROVE  AckDone(l)
<1>1. home[l] \in HomeRec
  BY DEF EnvType
<1>2. home[l].acks = 1 /\ home[l].acks - 1 = 0
  BY <1>1 DEF sharer_acks, HomeRec
<1>3. home'[l] = [home[l] EXCEPT !.acks = 0]
  BY <1>2 DEF sharer_acks, EnvType
<1>4. home'[l].us = home[l].us /\ home'[l].them = home[l].them /\ home'[l].pend = home[l].pend /\ home'[l].acks = 0
  BY <1>1, <1>3 DEF HomeRec
<1>. QED  BY <1>2, <1>4 DEF AckDone, sharer_acks, EnvType

\* What a demand of kind t asks of a cache that has u on record, and leaves on record.
Demand(t, u) ==
    IF u = "X" THEN IF t = "GETS" THEN "FWD_GETS" ELSE "FWD_GETM"
    ELSE IF u = "S" /\ t = "GETM" THEN "INV" ELSE "NONE"

LeftUs(t, u) == IF t = "GETM" \/ u = "I" THEN "I" ELSE "S"

AskDone(l, t, u, d) ==
    /\ home[l].pend = {} /\ home[l].us = u /\ u \in {"I", "S", "X"} /\ home[l].them # "X"
    /\ req'[l] = req[l] /\ rsp'[l] = rsp[l]
    /\ fwd'[l] = IF d = "NONE" THEN fwd[l] ELSE Append(fwd[l], Forward(l, d))
    /\ d = Demand(t, u) /\ home'[l].us = LeftUs(t, u) /\ home'[l].pend = Answers(d) /\ home'[l].acks = home[l].acks
    /\ home'[l].them = (IF t = "GETM" \/ u = "I" THEN "X" ELSE "S")

\* What the request of another cache does.
LEMMA AskIs ==
  ASSUME EnvType, NEW l \in Line, NEW t \in {"GETS", "GETM"}, other_asks(l, t)
  PROVE  \E u, d : AskDone(l, t, u, d)
<1>1. PICK u : u = home[l].us
  OBVIOUS
<1>2. PICK d : d = Demand(t, u)
  OBVIOUS
<1>3. home[l] \in HomeRec /\ u \in {"I", "S", "X"}
  BY <1>1 DEF EnvType, HomeRec
<1>4. PICK v, m, p : /\ v = LeftUs(t, u)
                     /\ m = (IF t = "GETM" \/ u = "I" THEN "X" ELSE "S")
                     /\ p = CASE u = "X" /\ t = "GETS" -> {"DATA_OWNER", "WB_DATA"}
                              [] u = "X" /\ t = "GETM" -> {"DATA_OWNER"}
                              [] u = "S" /\ t = "GETM" -> {"INV_ACK"}
                              [] OTHER -> {}
  OBVIOUS
<1>5. p = Answers(d)
  BY <1>2, <1>3, <1>4 DEF Demand, Answers
<1>6. home' = [home EXCEPT ![l] = [home[l] EXCEPT !.us = v, !.them = m, !.pend = p]]
  BY <1>1, <1>4 DEF other_asks, LeftUs
<1>7. home'[l] = [home[l] EXCEPT !.us = v, !.them = m, !.pend = p]
  BY <1>6 DEF EnvType
<1>8. home'[l].us = v /\ home'[l].them = m /\ home'[l].pend = p /\ home'[l].acks = home[l].acks
  BY <1>3, <1>7 DEF HomeRec
<1>9. /\ home[l].pend = {} /\ req' = req /\ rsp' = rsp
      /\ IF t = "GETS" THEN home[l].them = "I" ELSE home[l].them # "X"
  BY DEF other_asks
<1>10. fwd' = [fwd EXCEPT ![l] =
                CASE u = "X" -> Append(fwd[l], [line |-> l, t |-> IF t = "GETS" THEN "FWD_GETS" ELSE "FWD_GETM"])
                  [] u = "S" /\ t = "GETM" -> Append(fwd[l], [line |-> l, t |-> "INV"])
                  [] OTHER -> fwd[l]]
  BY <1>1 DEF other_asks
<1>11. PICK q : q = CASE u = "X" -> Append(fwd[l], [line |-> l, t |-> IF t = "GETS" THEN "FWD_GETS" ELSE "FWD_GETM"])
                      [] u = "S" /\ t = "GETM" -> Append(fwd[l], [line |-> l, t |-> "INV"])
                      [] OTHER -> fwd[l]
  OBVIOUS
<1>12. fwd'[l] = q
  BY <1>10, <1>11 DEF EnvType
<1>13. q = IF d = "NONE" THEN fwd[l] ELSE Append(fwd[l], Forward(l, d))
  <2>1. CASE u = "X"
    <3>1. q = Append(fwd[l], [line |-> l, t |-> IF t = "GETS" THEN "FWD_GETS" ELSE "FWD_GETM"])
      BY <2>1, <1>11
    <3>. QED  BY <3>1, <2>1, <1>2 DEF Demand, Forward
  <2>2. CASE u = "S" /\ t = "GETM"
    <3>1. q = Append(fwd[l], [line |-> l, t |-> "INV"])
      BY <2>2, <1>11
    <3>. QED  BY <3>1, <2>2, <1>2 DEF Demand, Forward
  <2>3. CASE u # "X" /\ ~(u = "S" /\ t = "GETM")
    <3>1. q = fwd[l]
      BY <2>3, <1>11
    <3>. QED  BY <3>1, <2>3, <1>2 DEF Demand
  <2>. QED  BY <2>1, <2>2, <2>3
<1>14. AskDone(l, t, u, d)
  BY <1>1, <1>2, <1>3, <1>4, <1>5, <1>8, <1>9, <1>12, <1>13 DEF AskDone
<1>. QED  BY <1>14

\* A line that no response of is on its way has none.
LEMMA NoRsp ==
  ASSUME NEW l, NEW x, NEW a, RspShape(l, x, a), None(l, x, a)
  PROVE  rsp[l] \cup Offered2(l) = {} /\ x = NoMsg /\ a = 0
BY DEF RspShape, None

\* A read is granted: what it is granted is on its way to a fetch.
LEMMA LineGets ==
  ASSUME CacheType, Places, NEW l \in Line, SameCache(l), NEW d \in Dem, NEW p \in BOOLEAN, NEW x, NEW a, LineOk(l, d, p, x, a),
         NEW y, NEW u, NEW v, GetsDone(l, y, u, v)
  PROVE  LineOk(l, d, p, y, 0)'
<1>1. d = "NONE" /\ Sending(l) = {}
  BY NoneWaited DEF LineOk, GetsDone
<1>2. EntriesOf(l) # {}
  BY DEF LineOk, AtRest, GetsDone
<1>3. ASSUME NEW i \in EntriesOf(l)
      PROVE  ~mshr[i].is_evict /\ ~p /\ Unserved(l, i, d, x, a) /\ Arr(l) = "IS_D"
  <2>1. ~mshr[i].is_evict
    BY DEF LineOk, Evicted, GetsDone
  <2>2. Fetched(l, i, d, p, x, a)
    BY <2>1 DEF LineOk
  <2>3. ~Served(l, i, d, x, a) /\ ~Finished(l, i, d, x, a)
    BY DEF Served, Finished, GetsDone
  <2>. QED  BY <2>1, <2>2, <2>3 DEF Fetched, Unserved, GetsDone
<1>4. rsp[l] \cup Offered2(l) = {} /\ home[l].acks = 0
  BY <1>2, <1>3, NoRsp DEF LineOk, Unserved, None
<1>5. FwdShape(l, d, p)'
  BY DEF LineOk, FwdShape, SameCache, GetsDone
<1>6. RspShape(l, y, 0)'
  BY <1>4 DEF RspShape, SameCache, GetsDone
<1>7. PendOk(l, d)' /\ Calm(l)'
  BY <1>1 DEF PendOk, Calm, SameCache, GetsDone, LineOk, Answers
<1>8. EntriesOf(l)' = EntriesOf(l) /\ Arr(l)' = Arr(l)
  BY DEF SameCache
<1>9. Agree(Grant(y), "NONE", u)
  BY DEF GetsDone, Agree
<1>10. ASSUME NEW i \in EntriesOf(l)
       PROVE  ~mshr'[i].is_evict /\ Fetched(l, i, d, p, y, 0)'
  <2>1. SameKin(mshr[i], mshr'[i])
    BY DEF SameCache
  <2>2. ~mshr'[i].is_evict /\ ~mshr'[i].done /\ mshr'[i].ack_cnt = 0
    BY <2>1, <1>3 DEF SameKin, Unserved
  <2>3. req'[l].t = "NONE" /\ home'[l].us = u /\ home'[l].acks = 0 /\ y # NoMsg /\ y.ack = 0
    BY <1>4 DEF GetsDone
  <2>4. Served(l, i, d, y, 0)'
    BY <2>2, <2>3, <1>1, <1>3, <1>8, <1>9 DEF Served
  <2>. QED  BY <2>2, <2>4, <1>3 DEF Fetched
<1>. QED  BY <1>2, <1>5, <1>6, <1>7, <1>8, <1>10 DEF LineOk

\* A write is granted, and the others that share the line are told.
LEMMA LineGetm ==
  ASSUME CacheType, Places, NEW l \in Line, SameCache(l), NEW d \in Dem, NEW p \in BOOLEAN, NEW x, NEW a, LineOk(l, d, p, x, a),
         NEW y, NEW n, GetmDone(l, y, n)
  PROVE  LineOk(l, d, p, y, 0)'
<1>1. d = "NONE" /\ Sending(l) = {}
  BY NoneWaited DEF LineOk, GetmDone
<1>2. EntriesOf(l) # {}
  BY DEF LineOk, AtRest, GetmDone
<1>3. ASSUME NEW i \in EntriesOf(l)
      PROVE  ~mshr[i].is_evict /\ ~p /\ Unserved(l, i, d, x, a) /\ Arr(l) \in {"IM_AD", "SM_AD"}
  <2>1. ~mshr[i].is_evict
    BY DEF LineOk, Evicted, GetmDone
  <2>2. Fetched(l, i, d, p, x, a)
    BY <2>1 DEF LineOk
  <2>3. ~Served(l, i, d, x, a) /\ ~Finished(l, i, d, x, a)
    BY DEF Served, Finished, GetmDone
  <2>. QED  BY <2>1, <2>2, <2>3 DEF Fetched, Unserved, GetmDone
<1>4. rsp[l] \cup Offered2(l) = {} /\ home[l].acks = 0
  BY <1>2, <1>3, NoRsp DEF LineOk, Unserved, None
<1>5. FwdShape(l, d, p)'
  BY DEF LineOk, FwdShape, SameCache, GetmDone
<1>6. RspShape(l, y, 0)'
  BY <1>4 DEF RspShape, SameCache, GetmDone
<1>7. PendOk(l, d)' /\ Calm(l)'
  BY <1>1 DEF PendOk, Calm, SameCache, GetmDone, LineOk, Answers
<1>8. EntriesOf(l)' = EntriesOf(l) /\ Arr(l)' = Arr(l)
  BY DEF SameCache
<1>9. Agree("M", "NONE", "X")
  BY DEF Agree
<1>10. ASSUME NEW i \in EntriesOf(l)
       PROVE  ~mshr'[i].is_evict /\ Fetched(l, i, d, p, y, 0)'
  <2>1. SameKin(mshr[i], mshr'[i])
    BY DEF SameCache
  <2>2. ~mshr'[i].is_evict /\ ~mshr'[i].done /\ mshr'[i].ack_cnt = 0
    BY <2>1, <1>3 DEF SameKin, Unserved
  <2>3. req'[l].t = "NONE" /\ home'[l].us = "X" /\ home'[l].acks = n /\ n \in 0 .. 1 /\ y # NoMsg /\ y.ack = n
        /\ y.t \in {"DATA_DIR", "DATA_OWNER"} /\ (y.t = "DATA_OWNER" => n = 0)
    BY DEF GetmDone
  <2>4. y.ack = 0 + n - 0
    BY <2>3
  <2>5. Served(l, i, d, y, 0)'
    BY <2>2, <2>3, <2>4, <1>1, <1>3, <1>8, <1>9 DEF Served
  <2>. QED  BY <2>2, <2>5, <1>3 DEF Fetched
<1>. QED  BY <1>2, <1>5, <1>6, <1>7, <1>8, <1>10 DEF LineOk

\* A Put is answered: the answer is behind what the home sent before it.
LEMMA LinePut ==
  ASSUME CacheType, Places, NEW l \in Line, SameCache(l), NEW d \in Dem, NEW p \in BOOLEAN, NEW x, NEW a, LineOk(l, d, p, x, a),
         PutDone(l), home[l].us \in {"I", "S", "X"}
  PROVE  LineOk(l, d, TRUE, x, a)' /\ home'[l].us = "I"
<1>1. EntriesOf(l) # {}
  BY DEF LineOk, AtRest, PutDone
<1>2. ASSUME NEW i \in EntriesOf(l)
      PROVE  /\ mshr[i].is_evict /\ None(l, x, a) /\ ~mshr[i].done /\ ~p /\ mshr[i].state \in Evicting
             /\ Agree(EvictedFrom(mshr[i].state), d, home[l].us)
             /\ req[l].t = "PUTS" => mshr[i].state \in {"SI_A", "II_A"}
  <2>1. mshr[i].is_evict
    <3>1. ~Unserved(l, i, d, x, a) /\ ~Served(l, i, d, x, a) /\ ~Finished(l, i, d, x, a)
      BY DEF Unserved, Served, Finished, PutDone
    <3>. QED  BY <3>1 DEF LineOk, Fetched
  <2>2. Evicted(l, i, d, p, x, a)
    BY <2>1 DEF LineOk
  <2>. QED  BY <2>1, <2>2 DEF Evicted, PutDone
<1>3. home'[l].us = "I"
  <2>1. PICK i \in EntriesOf(l) : TRUE
    BY <1>1
  <2>2. req[l].t = "PUTS" => EvictedFrom(mshr[i].state) \in {"S", "I"}
    BY <1>2 DEF EvictedFrom
  <2>3. req[l].t = "PUTS" => home[l].us # "X"
    BY <1>2, <2>2 DEF Agree
  <2>. QED  BY <2>3 DEF PutDone
<1>4. ~p /\ p = FALSE
  BY <1>1, <1>2
<1>5. FwdShape(l, d, TRUE)'
  <2>1. CASE vn1_i.line # l /\ fwd[l] = Queue(l, d, p)
    <3>1. Append(Queue(l, d, FALSE), Forward(l, "PUT_ACK")) = Queue(l, d, TRUE)
      BY QueueIs
    <3>. QED  BY <2>1, <3>1, <1>4 DEF FwdShape, SameCache, PutDone
  <2>2. CASE d # "NONE" /\ vn1_i = Forward(l, d) /\ fwd[l] = Queue(l, "NONE", p)
    <3>1. Append(Queue(l, "NONE", FALSE), Forward(l, "PUT_ACK")) = Queue(l, "NONE", TRUE)
      BY QueueIs
    <3>. QED  BY <2>2, <3>1, <1>4 DEF FwdShape, SameCache, PutDone
  <2>. QED  BY <2>1, <2>2, <1>4 DEF LineOk, FwdShape
<1>6. RspShape(l, x, a)' /\ PendOk(l, d)'
  BY DEF LineOk, RspShape, PendOk, SameCache, PutDone
<1>7. EntriesOf(l)' = EntriesOf(l) /\ Arr(l)' = Arr(l)
  BY DEF SameCache
<1>8. ASSUME NEW i \in EntriesOf(l)
      PROVE  mshr'[i].is_evict /\ Evicted(l, i, d, TRUE, x, a)'
  <2>1. SameKin(mshr[i], mshr'[i])
    BY DEF SameCache
  <2>2. mshr'[i].is_evict /\ ~mshr'[i].done /\ mshr'[i].state = mshr[i].state
    BY <2>1, <1>2 DEF SameKin
  <2>3. None(l, x, a)'
    BY <1>2 DEF None, PutDone
  <2>4. \E u \in {"I", "S", "X"} : Agree(EvictedFrom(mshr'[i].state), d, u)
    BY <1>2, <2>2
  <2>5. req'[l].t = "NONE"
    BY DEF PutDone
  <2>. QED  BY <2>2, <2>3, <2>4, <2>5, <1>2, <1>3 DEF Evicted
<1>9. Calm(l)'
  BY <1>1, <1>7, <1>8 DEF Calm
<1>. QED  BY <1>1, <1>3, <1>5, <1>6, <1>7, <1>8, <1>9 DEF LineOk

\* The other sharer's acknowledgement is counted or on its way, never both.
LEMMA LineAck ==
  ASSUME EnvType, Places, NEW l \in Line, SameCache(l), NEW d \in Dem, NEW p \in BOOLEAN, NEW x, NEW a, LineOk(l, d, p, x, a),
         AckDone(l)
  PROVE  LineOk(l, d, p, x, 1)'
<1>1. ~None(l, x, a)
  BY DEF None, AckDone
<1>2. EntriesOf(l) # {}
  BY <1>1 DEF LineOk, AtRest
<1>x. x # NoMsg => x.ack \in 0 .. 1 /\ x.t # "INV_ACK"
  <2>1. rsp[l] \subseteq RspMsg /\ (vn2_i # NoMsg => vn2_i \in RspMsg)
    BY DEF EnvType
  <2>. QED  BY <2>1 DEF LineOk, RspShape, Offered2, RspMsg
<1>3. ASSUME NEW i \in EntriesOf(l)
      PROVE  ~mshr[i].is_evict /\ ~p /\ Served(l, i, d, x, a) /\ Arr(l) # "IS_D"
  <2>1. ~mshr[i].is_evict
    BY <1>1 DEF LineOk, Evicted
  <2>2. Fetched(l, i, d, p, x, a)
    BY <2>1 DEF LineOk
  <2>3. Served(l, i, d, x, a) /\ ~p
    BY <1>1, <2>2 DEF Fetched, Unserved, Finished
  <2>4. Arr(l) # "IS_D"
    BY <2>3 DEF Served, AckDone
  <2>. QED  BY <2>1, <2>3, <2>4
<1>4. a = 0
  <2>1. PICK i \in EntriesOf(l) : TRUE
    BY <1>2
  <2>2. Served(l, i, d, x, a) /\ Arr(l) # "IS_D" /\ home[l].acks = 1
    BY <1>3, <2>1 DEF AckDone
  <2>3. a \in 0 .. 1
    BY DEF LineOk, RspShape
  <2>4. PICK c : c = mshr[i].ack_cnt
    OBVIOUS
  <2>5. CASE Arr(l) \in {"IM_AD", "SM_AD"}
    <3>1. x.ack \in 0 .. 1 /\ x.ack = a + 1 - c /\ c \in -1 .. 0
      BY <2>2, <2>4, <2>5 DEF Served
    <3>. QED  BY <3>1, <2>3
  <2>6. CASE Arr(l) \in {"IM_A", "SM_A"}
    <3>1. a + 1 = 1
      BY <2>2, <2>6 DEF Served
    <3>. QED  BY <3>1, <2>3
  <2>. QED  BY <2>2, <2>5, <2>6 DEF Served
<1>5. FwdShape(l, d, p)' /\ PendOk(l, d)'
  BY DEF LineOk, FwdShape, PendOk, SameCache, AckDone
<1>6. RspShape(l, x, 1)'
  <2>1. rsp[l] \cup Offered2(l) = (IF x = NoMsg THEN {} ELSE {x}) /\ rsp[l] \cap Offered2(l) = {}
    BY <1>4 DEF LineOk, RspShape
  <2>2. InvAck(l) \notin Offered2(l)
    BY <2>1, <1>x DEF InvAck
  <2>3. rsp'[l] \cup Offered2(l) = (IF x = NoMsg THEN {} ELSE {x}) \cup {InvAck(l)} /\ rsp'[l] \cap Offered2(l) = {}
    BY <2>1, <2>2 DEF AckDone
  <2>. QED  BY <2>3, <1>x DEF RspShape, SameCache
<1>7. EntriesOf(l)' = EntriesOf(l) /\ Arr(l)' = Arr(l)
  BY DEF SameCache
<1>8. ASSUME NEW i \in EntriesOf(l)
      PROVE  mshr'[i].is_evict = mshr[i].is_evict /\ ~mshr'[i].is_evict /\ Fetched(l, i, d, p, x, 1)'
  <2>1. SameKin(mshr[i], mshr'[i])
    BY DEF SameCache
  <2>2. mshr'[i].is_evict = mshr[i].is_evict /\ ~mshr'[i].is_evict /\ ~mshr'[i].done /\ mshr'[i].ack_cnt = mshr[i].ack_cnt
        /\ (mshr[i].data_valid => mshr'[i].data_valid)
    BY <2>1, <1>3 DEF SameKin, Served
  <2>3. req'[l] = req[l] /\ home'[l].us = home[l].us /\ home'[l].acks = 0 /\ home[l].acks = 1
    BY DEF AckDone
  <2>4. Served(l, i, d, x, a) /\ Arr(l) # "IS_D"
    BY <1>3
  <2>5. Served(l, i, d, x, 1)'
    <3>1. CASE Arr(l) \in {"IM_AD", "SM_AD"}
      <4>1. x.ack = 0 + 1 - mshr[i].ack_cnt
        BY <2>3, <2>4, <3>1, <1>4 DEF Served
      <4>c. PICK c : c = mshr[i].ack_cnt
        OBVIOUS
      <4>i. c \in -1 .. 0
        BY <4>c, <2>4, <3>1 DEF Served
      <4>j. x.ack = 0 + 1 - c /\ 0 + 1 - c = 1 + 0 - c
        BY <4>c, <4>i, <4>1
      <4>2. x.ack = 1 + home'[l].acks - mshr'[i].ack_cnt
        BY <4>c, <4>j, <2>2, <2>3
      <4>. QED  BY <4>2, <2>2, <2>3, <2>4, <3>1, <1>7 DEF Served
    <3>2. CASE Arr(l) \in {"IM_A", "SM_A"}
      <4>1. 1 + home'[l].acks = 1
        BY <2>3
      <4>. QED  BY <4>1, <2>2, <2>3, <2>4, <3>2, <1>7 DEF Served
    <3>. QED  BY <2>4, <3>1, <3>2 DEF Served
  <2>. QED  BY <2>2, <2>5, <1>3 DEF Fetched
<1>9. Calm(l)'
  <2>1. Sending(l)' = Sending(l) /\ req'[l] = req[l]
    BY DEF SameCache, AckDone
  <2>. QED  BY <2>1, <1>7, <1>8 DEF Calm, LineOk
<1>. QED  BY <1>2, <1>5, <1>6, <1>7, <1>8, <1>9 DEF LineOk

\* A line that agrees with its home agrees with it once another has asked for it.
LEMMA DemandOk ==
  ASSUME NEW st, NEW u \in {"I", "S", "X"}, NEW t \in {"GETS", "GETM"}, Agree(st, "NONE", u)
  PROVE  Agree(st, Demand(t, u), LeftUs(t, u)) /\ Demand(t, u) \in Dem
BY DEF Agree, Demand, LeftUs, Dem

\* Another cache asks for the line: what it asks of this cache is behind nothing else.
LEMMA LineAsk ==
  ASSUME CacheType, Places, NEW l \in Line, SameCache(l), NEW d \in Dem, NEW p \in BOOLEAN, NEW x, NEW a, LineOk(l, d, p, x, a),
         NEW t \in {"GETS", "GETM"}, NEW u, NEW e, AskDone(l, t, u, e)
  PROVE  LineOk(l, e, p, x, a)' /\ e \in Dem
<1>1. d = "NONE" /\ Sending(l) = {}
  BY NoneWaited DEF LineOk, AskDone
<1>2. u \in {"I", "S", "X"} /\ home[l].us = u /\ e = Demand(t, u) /\ home'[l].us = LeftUs(t, u)
  BY DEF AskDone
<1>3. e \in Dem
  BY <1>2 DEF Demand, Dem
<1>4. \A st : Agree(st, d, home[l].us) => Agree(st, e, home'[l].us)
  BY <1>1, <1>2, DemandOk
<1>k. EntriesOf(l)' = EntriesOf(l) /\ Arr(l)' = Arr(l) /\ req'[l] = req[l] /\ home'[l].acks = home[l].acks
  BY DEF SameCache, AskDone
<1>i. u = "I" => home'[l].us = "I" /\ e = "NONE"
  BY <1>2 DEF Demand, LeftUs
<1>5. e # "NONE" => ~p
  <2>1. SUFFICES ASSUME e # "NONE", p PROVE FALSE
    OBVIOUS
  <2>2. u # "I"
    BY <1>i, <2>1
  <2>3. EntriesOf(l) # {}
    BY <2>1 DEF LineOk, AtRest
  <2>4. PICK i \in EntriesOf(l) : TRUE
    BY <2>3
  <2>5. mshr[i].is_evict /\ Evicted(l, i, d, p, x, a)
    BY <2>1 DEF LineOk, Fetched
  <2>. QED  BY <2>1, <2>2, <2>5, <1>2 DEF Evicted
<1>6. FwdShape(l, e, p)'
  <2>1. CASE e = "NONE"
    BY <2>1, <1>1 DEF LineOk, FwdShape, SameCache, AskDone
  <2>2. CASE e # "NONE"
    <3>1. p = FALSE
      BY <2>2, <1>5
    <3>2. vn1_i.line # l /\ fwd[l] = Queue(l, "NONE", FALSE)
      BY <3>1, <1>1 DEF LineOk, FwdShape
    <3>3. Append(Queue(l, "NONE", FALSE), Forward(l, e)) = Queue(l, e, FALSE)
      BY <2>2, QueueIs
    <3>. QED  BY <2>2, <3>1, <3>2, <3>3 DEF FwdShape, SameCache, AskDone
  <2>. QED  BY <2>1, <2>2
<1>7. RspShape(l, x, a)'
  BY DEF LineOk, RspShape, SameCache, AskDone
<1>8. PendOk(l, e)' /\ Calm(l)'
  BY <1>1 DEF PendOk, Calm, SameCache, AskDone
<1>9. EntriesOf(l) = {} => AtRest(l, e, p, x, a)'
  BY <1>4, <1>k DEF LineOk, AtRest, None
<1>10. ASSUME NEW i \in EntriesOf(l), ~mshr[i].is_evict
       PROVE  ~mshr'[i].is_evict /\ Fetched(l, i, e, p, x, a)'
  <2>1. SameKin(mshr[i], mshr'[i])
    BY DEF SameCache
  <2>2. Fetched(l, i, d, p, x, a)
    BY <1>10 DEF LineOk
  <2>3. CASE Unserved(l, i, d, x, a)
    <3>1. Unserved(l, i, e, x, a)'
      BY <2>1, <2>3, <1>4, <1>k DEF SameKin, Unserved, None
    <3>. QED  BY <2>1, <2>2, <3>1, <1>10 DEF SameKin, Fetched
  <2>4. CASE Served(l, i, d, x, a)
    <3>1. Served(l, i, e, x, a)'
      BY <2>1, <2>4, <1>4, <1>k DEF SameKin, Served
    <3>. QED  BY <2>1, <2>2, <3>1, <1>10 DEF SameKin, Fetched
  <2>5. CASE Finished(l, i, d, x, a)
    <3>1. Finished(l, i, e, x, a)'
      BY <2>1, <2>5, <1>4, <1>k DEF SameKin, Finished, None
    <3>. QED  BY <2>1, <2>2, <3>1, <1>10 DEF SameKin, Fetched
  <2>. QED  BY <2>2, <2>3, <2>4, <2>5 DEF Fetched
<1>11. ASSUME NEW i \in EntriesOf(l), mshr[i].is_evict
       PROVE  mshr'[i].is_evict /\ Evicted(l, i, e, p, x, a)'
  <2>1. SameKin(mshr[i], mshr'[i])
    BY DEF SameCache
  <2>2. Evicted(l, i, d, p, x, a)
    BY <1>11 DEF LineOk
  <2>3. PICK st, v : st = mshr[i].state /\ v = EvictedFrom(st)
    OBVIOUS
  <2>4. mshr'[i].is_evict /\ mshr'[i].state = st /\ (mshr'[i].done <=> mshr[i].done)
    BY <2>1, <2>3, <1>11 DEF SameKin
  <2>5. None(l, x, a)'
    BY <2>2, <1>k DEF Evicted, None
  <2>6. CASE mshr[i].done /\ mshr[i].state = "I" /\ d = "NONE" /\ ~p /\ home[l].us = "I" /\ req[l].t = "NONE"
    BY <2>3, <2>4, <2>5, <2>6, <1>2, <1>i, <1>k DEF Evicted
  <2>7. CASE /\ ~mshr[i].done /\ ~p /\ req[l].t \in {"PUTS", "PUTE", "PUTM"}
             /\ mshr[i].state \in Evicting /\ Agree(EvictedFrom(mshr[i].state), d, home[l].us)
             /\ req[l].t = "PUTS" => mshr[i].state \in {"SI_A", "II_A"}
             /\ req[l].t = "PUTE" => mshr[i].state # "MI_A"
    <3>1. Agree(EvictedFrom(st), e, home'[l].us)
      BY <2>3, <2>7, <1>4
    <3>. QED  BY <2>3, <2>4, <2>5, <2>7, <3>1, <1>k DEF Evicted
  <2>8. CASE /\ ~mshr[i].done /\ p /\ req[l].t = "NONE" /\ home[l].us = "I"
             /\ mshr[i].state \in Evicting /\ \E w \in {"I", "S", "X"} : Agree(EvictedFrom(mshr[i].state), d, w)
    <3>1. \E w \in {"I", "S", "X"} : Agree(EvictedFrom(st), e, w)
      BY <2>3, <2>8, <1>1, <1>2, <1>i
    <3>. QED  BY <2>3, <2>4, <2>5, <2>8, <3>1, <1>2, <1>i, <1>k DEF Evicted
  <2>. QED  BY <2>2, <2>6, <2>7, <2>8 DEF Evicted
<1>. QED  BY <1>3, <1>6, <1>7, <1>8, <1>9, <1>10, <1>11, <1>k DEF LineOk

\* A line that another owns has nothing on its way to this cache.
LEMMA NothingOwed ==
  ASSUME NEW l \in Line, NEW d \in Dem, NEW p, NEW x, NEW a, LineOk(l, d, p, x, a), home[l].us = "I", home[l].pend = {}
  PROVE  rsp[l] \cup Offered2(l) = {} /\ d = "NONE" /\ Sending(l) = {}
<1>1. d = "NONE" /\ Sending(l) = {}
  BY NoneWaited DEF LineOk
<1>2. ~Agree("M", d, "I") /\ ~Agree("E", d, "I") /\ ~Agree("S", d, "I")
  BY <1>1 DEF Agree
<1>3. None(l, x, a)
  <2>1. CASE EntriesOf(l) = {}
    BY <2>1 DEF LineOk, AtRest
  <2>2. ASSUME NEW i \in EntriesOf(l) PROVE None(l, x, a)
    <3>1. ~Served(l, i, d, x, a)
      BY <1>2 DEF Served, Grant
    <3>. QED  BY <3>1 DEF LineOk, Evicted, Fetched, Unserved, Finished
  <2>. QED  BY <2>1, <2>2
<1>. QED  BY <1>1, <1>3, NoRsp DEF LineOk

\* The line that the home or the others do something for stays in order.
LEMMA LineOutside ==
  ASSUME CacheType, EnvType, Places, OthersOk, NEW l \in Line, Outside(l), NEW d \in Dem, NEW p \in BOOLEAN, NEW x, NEW a,
         LineOk(l, d, p, x, a)
  PROVE  \E d2 \in Dem, p2 \in BOOLEAN, x2 \in rsp'[l] \cup {vn2_i', NoMsg}, a2 \in 0 .. 1 : LineOk(l, d2, p2, x2, a2)'
<1>x. \A d2, p2, x2, a2 : LineOk(l, d2, p2, x2, a2)' => x2 \in rsp'[l] \cup {vn2_i', NoMsg} /\ a2 \in 0 .. 1
  BY DEF LineOk, RspShape, Offered2
<1>0. SameCache(l) /\ home[l] \in HomeRec /\ a \in 0 .. 1
  BY QuietOutside, CacheQuiet DEF EnvType, LineOk, RspShape
<1>1. CASE serve_gets(l)
  <2>1. PICK y, u, v : GetsDone(l, y, u, v)
    BY <1>1, GetsIs
  <2>2. LineOk(l, d, p, y, 0)'
    BY <1>0, <2>1, LineGets
  <2>. QED  BY <2>2, <1>x
<1>2. CASE serve_getm(l)
  <2>1. PICK y, n : GetmDone(l, y, n)
    BY <1>2, GetmIs
  <2>2. LineOk(l, d, p, y, 0)'
    BY <1>0, <2>1, LineGetm
  <2>. QED  BY <2>2, <1>x
<1>3. CASE serve_put(l)
  <2>1. PutDone(l) /\ home[l].us \in {"I", "S", "X"}
    BY <1>0, <1>3, PutIs DEF HomeRec
  <2>2. LineOk(l, d, TRUE, x, a)'
    BY <1>0, <2>1, LinePut
  <2>. QED  BY <2>2, <1>x
<1>4. CASE sharer_acks(l)
  <2>1. AckDone(l)
    BY <1>4, AckIs
  <2>2. LineOk(l, d, p, x, 1)'
    BY <1>0, <2>1, LineAck
  <2>. QED  BY <2>2, <1>x
<1>5. ASSUME NEW t \in {"GETS", "GETM"}, other_asks(l, t)
      PROVE  \E d2 \in Dem : LineOk(l, d2, p, x, a)'
  <2>1. PICK u, e : AskDone(l, t, u, e)
    BY <1>5, AskIs
  <2>2. LineOk(l, e, p, x, a)' /\ e \in Dem
    BY <1>0, <2>1, LineAsk
  <2>. QED  BY <2>2
<1>6. CASE other_writes(l)
  <2>1. home[l].us = "I" /\ home[l].pend = {}
    BY <1>6 DEF OthersOk, other_writes
  <2>2. rsp[l] = {}
    BY <2>1, NothingOwed
  <2>3. fwd' = fwd /\ rsp' = [rsp EXCEPT ![l] = {[m EXCEPT !.fresh = FALSE] : m \in @}]
        /\ req' = [req EXCEPT ![l].fresh = FALSE] /\ home' = [home EXCEPT ![l].fresh = TRUE]
    BY <1>6 DEF other_writes
  <2>4. rsp'[l] = rsp[l]
    BY <2>2, <2>3 DEF EnvType
  <2>5. req'[l].t = req[l].t /\ home'[l] = [home[l] EXCEPT !.fresh = TRUE]
    BY <2>3 DEF EnvType
  <2>6. home'[l].us = home[l].us /\ home'[l].acks = home[l].acks /\ home'[l].pend = home[l].pend
    BY <2>5, <1>0 DEF HomeRec
  <2>7. LineOk(l, d, p, x, a)'
    BY <1>0, <2>3, <2>4, <2>5, <2>6, LineQuiet
  <2>. QED  BY <2>7, <1>x
<1>7. CASE other_drops(l)
  <2>1. home' = [home EXCEPT ![l].them = "I"] /\ req' = req /\ fwd' = fwd /\ rsp' = rsp
    BY <1>7 DEF other_drops
  <2>2. home'[l] = [home[l] EXCEPT !.them = "I"]
    BY <2>1 DEF EnvType
  <2>3. home'[l].us = home[l].us /\ home'[l].acks = home[l].acks /\ home'[l].pend = home[l].pend
    BY <2>2, <1>0 DEF HomeRec
  <2>4. LineOk(l, d, p, x, a)'
    BY <1>0, <2>1, <2>3, LineQuiet
  <2>. QED  BY <2>4, <1>x
<1>. QED  BY <1>0, <1>x, <1>1, <1>2, <1>3, <1>4, <1>5, <1>6, <1>7 DEF Outside

\* Every line stays in order.
LEMMA LinesOutside ==
  ASSUME CacheType, EnvType, Places, LinesOk, OthersOk, NEW l \in Line, Outside(l)
  PROVE  LinesOk'
<1>1. Else(l) /\ Quiet
  BY ElseOutside, QuietOutside
<1>2. SUFFICES ASSUME NEW k \in Line
               PROVE  \E d2 \in Dem, p2 \in BOOLEAN, x2 \in rsp'[k] \cup {vn2_i', NoMsg}, a2 \in 0 .. 1 :
                        LineOk(k, d2, p2, x2, a2)'
  BY DEF LinesOk
<1>3. PICK d \in Dem, p \in BOOLEAN, x \in rsp[k] \cup {vn2_i, NoMsg}, a \in 0 .. 1 : LineOk(k, d, p, x, a)
  BY DEF LinesOk
<1>4. CASE k = l
  BY <1>3, <1>4, LineOutside
<1>5. CASE k # l
  <2>1. SameCache(k)
    BY <1>1, CacheQuiet
  <2>2. LineOk(k, d, p, x, a)'
    BY <1>1, <1>3, <1>5, <2>1, LineQuiet DEF Else
  <2>3. x \in rsp'[k] \cup {vn2_i', NoMsg}
    BY <1>1, <1>3, <1>5 DEF Else, Quiet
  <2>. QED  BY <2>2, <2>3
<1>. QED  BY <1>4, <1>5

\* Nobody shares with an owner, whatever the home and the others do.
LEMMA OthersOutside ==
  ASSUME CacheType, EnvType, Places, LinesOk, OthersOk, NEW l \in Line, Outside(l)
  PROVE  OthersOk'
<1>1. Else(l) /\ SameCache(l) /\ home[l] \in HomeRec
  BY ElseOutside, QuietOutside, CacheQuiet DEF EnvType
<1>2. PICK d \in Dem, p \in BOOLEAN, x \in rsp[l] \cup {vn2_i, NoMsg}, a \in 0 .. 1 : LineOk(l, d, p, x, a)
  BY DEF LinesOk
<1>3. SUFFICES /\ home'[l].us # "I" => home'[l].them # "X"
               /\ home'[l].us = "X" => home'[l].them = "I"
  BY <1>1 DEF Else, OthersOk
<1>4. CASE serve_gets(l)
  BY <1>4, GetsIs DEF GetsDone
<1>5. CASE serve_getm(l)
  BY <1>5, GetmIs DEF GetmDone
<1>6. CASE serve_put(l)
  <2>1. PutDone(l) /\ home[l].us \in {"I", "S", "X"}
    BY <1>1, <1>6, PutIs DEF HomeRec
  <2>2. home'[l].us = "I"
    BY <1>1, <1>2, <2>1, LinePut
  <2>. QED  BY <2>2
<1>7. CASE sharer_acks(l)
  BY <1>7, AckIs DEF AckDone, OthersOk
<1>8. ASSUME NEW t \in {"GETS", "GETM"}, other_asks(l, t)
      PROVE  /\ home'[l].us # "I" => home'[l].them # "X"
             /\ home'[l].us = "X" => home'[l].them = "I"
  BY <1>8, AskIs DEF AskDone, LeftUs
<1>9. CASE other_writes(l)
  <2>1. home'[l] = [home[l] EXCEPT !.fresh = TRUE]
    BY <1>9 DEF other_writes, EnvType
  <2>. QED  BY <1>1, <2>1 DEF HomeRec, OthersOk
<1>10. CASE other_drops(l)
  <2>1. home'[l] = [home[l] EXCEPT !.them = "I"]
    BY <1>10 DEF other_drops, EnvType
  <2>. QED  BY <1>1, <2>1 DEF HomeRec, OthersOk
<1>. QED  BY <1>4, <1>5, <1>6, <1>7, <1>8, <1>9, <1>10 DEF Outside

\* The V1 machine stays as it is when the cache is left alone.
LEMMA V1OkQuiet ==
  ASSUME V1Ok, Quiet
  PROVE  V1Ok'
BY DEF V1Ok, Quiet

---------------------------------------------------------------------------
(* Nothing illegal is offered *)

\* Cells of the table that are not blank.
LEMMA LegalFwd ==
  ASSUME NEW s, NEW e,
         \/ s \in {"E", "M", "EI_A", "MI_A"} /\ e \in {"FWD_GETS", "FWD_GETM"}
         \/ s \in {"S", "SM_AD", "SI_A"} /\ e = "INV"
         \/ s \in Evicting /\ e = "PUT_ACK"
         \/ s \in {"IS_D", "IM_AD", "IM_A"} /\ e \in {"FWD_GETS", "FWD_GETM", "INV"}
         \/ s \in {"SM_AD", "SM_A"} /\ e \in {"FWD_GETS", "FWD_GETM"}
  PROVE  L1Legal(s, e)
<1>1. CASE s \in {"E", "M", "EI_A", "MI_A"} /\ e \in {"FWD_GETS", "FWD_GETM"}
  <2>1. \E n \in {"S", "I", "SI_A", "II_A"} : <<s, e, n>> \in FwdArcs
    BY <1>1 DEF FwdArcs
  <2>2. \E n \in L1State : <<s, e, n>> \in L1Arcs
    BY <2>1 DEF L1Arcs, L1State, StableL1, Evicting
  <2>. QED  BY <2>2 DEF L1Legal
<1>2. CASE s \in {"S", "SM_AD", "SI_A"} /\ e = "INV"
  <2>1. \E n \in {"I", "IM_AD", "II_A"} : <<s, e, n>> \in InvArcs
    BY <1>2 DEF InvArcs
  <2>2. \E n \in L1State : <<s, e, n>> \in L1Arcs
    BY <2>1 DEF L1Arcs, FwdArcs, L1State, StableL1, Fetching, Evicting
  <2>. QED  BY <2>2 DEF L1Legal
<1>3. CASE s \in Evicting /\ e = "PUT_ACK"
  <2>1. <<s, e, "I">> \in FwdArcs
    BY <1>3 DEF FwdArcs
  <2>2. \E n \in L1State : <<s, e, n>> \in L1Arcs
    BY <2>1 DEF L1Arcs, L1State, StableL1
  <2>. QED  BY <2>2 DEF L1Legal
<1>4. CASE s \in {"IS_D", "IM_AD", "IM_A"} /\ e \in {"FWD_GETS", "FWD_GETM", "INV"}
  BY <1>4 DEF L1Legal, L1Stalls
<1>5. CASE s \in {"SM_AD", "SM_A"} /\ e \in {"FWD_GETS", "FWD_GETM"}
  BY <1>5 DEF L1Legal, L1Stalls
<1>. QED  BY <1>1, <1>2, <1>3, <1>4, <1>5

\* Cells of the table for responses that are not blank.
LEMMA LegalRsp ==
  ASSUME NEW s, NEW e,
         \/ s = "IS_D" /\ e \in {"DATA_E_DIR", "DATA_DIR_A0", "DATA_OWNER"}
         \/ s \in {"IM_AD", "SM_AD"} /\ e \in {"DATA_DIR_A0", "DATA_DIR_AGT0", "DATA_OWNER", "INV_ACK"}
         \/ s \in {"IM_A", "SM_A"} /\ e = "INV_ACK"
  PROVE  L1Legal(s, e)
<1>1. \E n \in {"E", "S", "M", "IM_A", "SM_A", "IM_AD", "SM_AD"} : <<s, e, n>> \in RspArcs
  BY DEF RspArcs
<1>2. \E n \in L1State : <<s, e, n>> \in L1Arcs
  BY <1>1 DEF L1Arcs, L1State, StableL1, Fetching
<1>. QED  BY <1>2 DEF L1Legal

\* A forward that is offered is expected where its line is.
LEMMA FwdLegal ==
  ASSUME CacheType, EnvType, Places, LinesOk, vn1_valid
  PROVE  L1Legal(vn1_state, vn1_event)
<1>1. vn1_i \in FwdMsg /\ vn1_event = vn1_i.t
  BY FwdState
<1>2. PICK l : l = vn1_i.line
  OBVIOUS
<1>3. l \in Line
  BY <1>1, <1>2 DEF FwdMsg
<1>4. PICK d \in Dem, p \in BOOLEAN, x \in rsp[l] \cup {vn2_i, NoMsg}, a \in 0 .. 1 : LineOk(l, d, p, x, a)
  BY <1>3 DEF LinesOk
<1>5. \/ d # "NONE" /\ vn1_i.t = d
      \/ d = "NONE" /\ p /\ vn1_i.t = "PUT_ACK"
  BY <1>2, <1>4 DEF LineOk, FwdShape, Forward
<1>6. /\ \A i \in EntriesOf(l) : mshr[i].is_evict => vn1_state = mshr[i].state
      /\ (\A i \in EntriesOf(l) : ~mshr[i].is_evict) => vn1_state = Arr(l) /\ ~vn1_in_mshr
  BY <1>2, <1>3, FwdLine
<1>7. CASE EntriesOf(l) = {}
  <2>1. AtRest(l, d, p, x, a) /\ vn1_state = Arr(l)
    BY <1>4, <1>6, <1>7 DEF LineOk
  <2>2. d # "NONE" /\ Agree(Arr(l), d, home[l].us)
    BY <1>5, <2>1 DEF AtRest
  <2>. QED  BY <1>1, <1>5, <2>1, <2>2, DemandAgrees, LegalFwd
<1>8. ASSUME NEW i \in EntriesOf(l), mshr[i].is_evict
      PROVE  L1Legal(vn1_state, vn1_event)
  <2>1. PICK st : st = mshr[i].state /\ vn1_state = st
    BY <1>6, <1>8
  <2>2. Evicted(l, i, d, p, x, a)
    BY <1>4, <1>8 DEF LineOk
  <2>3. st \in Evicting /\ \E u \in {"I", "S", "X"} : Agree(EvictedFrom(st), d, u)
    <3>1. home[l].us \in {"I", "S", "X"}
      BY <1>3 DEF EnvType, HomeRec
    <3>. QED  BY <2>1, <2>2, <3>1, <1>5 DEF Evicted
  <2>4. CASE d = "NONE"
    BY <2>1, <2>3, <2>4, <1>1, <1>5, LegalFwd
  <2>5. CASE d # "NONE"
    <3>1. PICK v : v = EvictedFrom(st)
      OBVIOUS
    <3>2. \/ v = "S" /\ d = "INV"
          \/ v \in {"E", "M"} /\ d \in {"FWD_GETS", "FWD_GETM"}
      BY <2>3, <2>5, <3>1, DemandAgrees
    <3>3. /\ v = "S" => st = "SI_A"
          /\ v = "E" => st = "EI_A"
          /\ v = "M" => st = "MI_A"
      BY <3>1 DEF EvictedFrom
    <3>. QED  BY <2>1, <2>5, <3>2, <3>3, <1>1, <1>5, LegalFwd
  <2>. QED  BY <2>4, <2>5
<1>9. ASSUME NEW i \in EntriesOf(l), \A j \in EntriesOf(l) : ~mshr[j].is_evict
      PROVE  L1Legal(vn1_state, vn1_event)
  <2>1. vn1_state = Arr(l) /\ Arr(l) \in Fetching
    BY <1>3, <1>6, <1>9, FetchedArr
  <2>2. Fetched(l, i, d, p, x, a)
    BY <1>4, <1>9 DEF LineOk
  <2>3. d # "NONE" /\ vn1_event = d /\ d \in {"FWD_GETS", "FWD_GETM", "INV"}
    BY <1>1, <1>4, <1>5, <2>2 DEF Fetched, Dem
  <2>4. ~(Arr(l) = "SM_A" /\ d = "INV")
    <3>1. ~Agree("M", "INV", home[l].us)
      BY DEF Agree
    <3>. QED  BY <2>2, <3>1 DEF Fetched, Unserved, Served, Finished
  <2>5. Arr(l) \in {"IS_D", "IM_AD", "IM_A", "SM_AD", "SM_A"}
    BY <2>1 DEF Fetching
  <2>. QED  BY <2>1, <2>3, <2>4, <2>5, LegalFwd
<1>. QED  BY <1>7, <1>8, <1>9

\* A response that is offered is expected by the fetch of its line.
LEMMA RspLegal ==
  ASSUME CacheType, EnvType, Places, LinesOk, vn2_take
  PROVE  vn2_hit /\ L1Legal(state_q[vn2_way], vn2_event)
<1>1. vn2_i \in RspMsg
  BY DEF vn2_take, EnvType
<1>2. PICK l : l = vn2_i.line
  OBVIOUS
<1>3. l \in Line
  BY <1>1, <1>2 DEF RspMsg
<1>4. PICK d \in Dem, p \in BOOLEAN, x \in rsp[l] \cup {vn2_i, NoMsg}, a \in 0 .. 1 : LineOk(l, d, p, x, a)
  BY <1>3 DEF LinesOk
<1>5. T2(l) /\ HitWays(l) # {}
  BY <1>2, <1>3, <1>4, RspExpected
<1>6. vn2_hit /\ state_q[vn2_way] = Arr(l)
  BY <1>2, <1>5 DEF T2, vn2_lands, vn2_way, Arr
<1>7. PICK i \in EntriesOf(l) : TRUE
  BY <1>2, <1>6 DEF vn2_hit
<1>8. Offered2(l) = {vn2_i}
  BY <1>2 DEF Offered2, vn2_take
<1>9. ~None(l, x, a)
  BY <1>4, <1>8 DEF LineOk, RspShape, None
<1>10. Served(l, i, d, x, a)
  <2>1. ~mshr[i].is_evict
    BY <1>4, <1>9 DEF LineOk, Evicted
  <2>2. Fetched(l, i, d, p, x, a)
    BY <1>4, <2>1 DEF LineOk
  <2>. QED  BY <1>9, <2>2 DEF Fetched, Unserved, Finished
<1>11. \/ x # NoMsg /\ vn2_i = x /\ x.t \in {"DATA_E", "DATA_DIR", "DATA_OWNER"}
       \/ a = 1 /\ vn2_i.t = "INV_ACK"
  <2>1. x # NoMsg /\ vn2_i = x => x.t \in {"DATA_E", "DATA_DIR", "DATA_OWNER"}
    BY <1>1, <1>4 DEF LineOk, RspShape, RspMsg
  <2>2. (x # NoMsg /\ vn2_i = x) \/ (a = 1 /\ vn2_i = InvAck(l))
    BY <1>4, <1>8 DEF LineOk, RspShape
  <2>. QED  BY <2>1, <2>2 DEF InvAck
<1>12. PICK t, k, s, e : t = vn2_i.t /\ k = vn2_i.ack /\ s = Arr(l) /\ e = vn2_event
  OBVIOUS
<1>13. e = RspEventOf(t, k)
  BY <1>12 DEF vn2_event
<1>14. /\ t = "DATA_E" => e = "DATA_E_DIR"
       /\ t = "DATA_DIR" => e = IF k = 0 THEN "DATA_DIR_A0" ELSE "DATA_DIR_AGT0"
       /\ t = "DATA_OWNER" => e = "DATA_OWNER"
       /\ t = "INV_ACK" => e = "INV_ACK"
  BY <1>13 DEF RspEventOf, DataDirEvent
<1>15. \/ s = "IS_D" /\ a = 0 /\ x.ack = 0
       \/ s \in {"IM_AD", "SM_AD"} /\ x.t \in {"DATA_DIR", "DATA_OWNER"}
       \/ s \in {"IM_A", "SM_A"} /\ x = NoMsg
  BY <1>10, <1>12 DEF Served
<1>. QED  BY <1>6, <1>11, <1>12, <1>14, <1>15, LegalRsp

\* Whatever is offered finds an arc or a stall.
LEMMA AllLegal ==
  ASSUME CacheType, EnvType, Places, LinesOk
  PROVE  EventsLegal
BY FwdLegal, RspLegal DEF EventsLegal

\* A forward whose line has it on its way is before the cache or at the head of what is sent.
LEMMA DemandComes ==
  ASSUME NEW l \in Line, NEW d \in Dem, d # "NONE", NEW p, FwdShape(l, d, p), NEW types, d \in types
  PROVE  OnItsWay(l, types)
<1>1. CASE vn1_i.line # l /\ fwd[l] = Queue(l, d, p)
  <2>1. 1 \in DOMAIN fwd[l] /\ fwd[l][1] = Forward(l, d)
    BY <1>1 DEF Queue
  <2>2. fwd[l][1].t = d
    BY <2>1 DEF Forward
  <2>. QED  BY <2>1, <2>2 DEF OnItsWay
<1>2. CASE vn1_i = Forward(l, d)
  <2>1. vn1_i.line = l /\ vn1_i.t = d
    BY <1>2 DEF Forward
  <2>2. vn1_i # NoMsg
    BY <2>1, PipelineShape DEF NoMsg
  <2>. QED  BY <2>1, <2>2 DEF OnItsWay
<1>. QED  BY <1>1, <1>2 DEF FwdShape

\* What the cache holds and what its home has on record differ by what is on its way.
LEMMA AllAgree ==
  ASSUME CacheType, EnvType, Places, LinesOk
  PROVE  HomeAgrees
<1>1. SUFFICES ASSUME NEW w \in Way, NEW l, l = tag_q[w], state_q[w] \in {"E", "M", "S"}
               PROVE  /\ state_q[w] \in {"E", "M"} /\ home[l].us # "X" => OnItsWay(l, {"FWD_GETS", "FWD_GETM"})
                      /\ state_q[w] = "S" /\ home[l].us # "S" => OnItsWay(l, {"INV"})
  BY DEF HomeAgrees
<1>2. w \in HitWays(l) /\ l \in Line
  BY <1>1 DEF HitWays, Places
<1>3. Arr(l) = state_q[w] /\ HitWays(l) # {}
  BY <1>2, ArrIs
<1>4. EntriesOf(l) = {}
  <2>1. Arr(l) \notin Fetching
    BY <1>1, <1>3 DEF Fetching
  <2>. QED  BY <1>2, <1>3, <2>1, FetchedArr
<1>5. PICK d \in Dem, p \in BOOLEAN, x \in rsp[l] \cup {vn2_i, NoMsg}, a \in 0 .. 1 : LineOk(l, d, p, x, a)
  BY <1>2 DEF LinesOk
<1>6. Agree(state_q[w], d, home[l].us) /\ FwdShape(l, d, p)
  BY <1>3, <1>4, <1>5 DEF LineOk, AtRest
<1>7. CASE state_q[w] \in {"E", "M"} /\ home[l].us # "X"
  <2>1. d \in {"FWD_GETS", "FWD_GETM"}
    BY <1>6, <1>7 DEF Agree
  <2>. QED  BY <1>2, <1>6, <1>7, <2>1, DemandComes
<1>8. CASE state_q[w] = "S" /\ home[l].us # "S"
  <2>1. d = "INV"
    BY <1>6, <1>8 DEF Agree
  <2>. QED  BY <1>2, <1>6, <1>8, <2>1, DemandComes
<1>. QED  BY <1>7, <1>8

\* An entry that is closed, and that no response is for, is free.
LEMMA ClosedIs ==
  ASSUME CacheType, EnvType, Clock, NEW i \in Entry, Closes(i), ~Lands(i)
  PROVE  mshr'[i].state = "I" /\ mshr'[i].ack_cnt = 0
<1>0. ~Opens(i) /\ ~Turns(i)
  BY Indices DEF Opens, Closes, Turns, vn1_take
<1>1. PICK m1 \in Entries : m1 = Freed(mshr) /\ m1[i] = FreeEntry
  BY FreedIs DEF CacheType, Entries
<1>2. PICK m2 \in Entries : m2 = Allocated(m1) /\ m2[i] = FreeEntry
  BY <1>0, <1>1, AllocatedIs
<1>3. PICK m3 \in Entries : m3 = Updated(m2) /\ m3[i] = FreeEntry
  BY <1>0, <1>2, UpdatedIs
<1>4. mshr'[i] = AgedEntry(FreeEntry)
  BY <1>1, <1>2, <1>3, AgedIs DEF Clock
<1>5. FreeEntry.state = "I" /\ FreeEntry.ack_cnt = 0 /\ FreeEntry \in EntryRec
  BY FreeType DEF FreeEntry
<1>. QED  BY <1>4, <1>5, AgedEntryIs

\* What an entry holds when no line is fetched into it.
EntriesSound ==
    \A i \in Entry : /\ mshr[i].state \in StableL1 \cup Evicting
                     /\ ~mshr[i].valid \/ mshr[i].is_evict => mshr[i].ack_cnt = 0

\* A line that is given up is at rest.
LEMMA VictimRests ==
  ASSUME CacheType, Places, LinesOk, s1_evict
  PROVE  state_q[s1_victim] \in {"S", "E", "M"}
<1>1. s1_victim \in Way /\ state_q[s1_victim] # "I" /\ EntriesOf(tag_q[s1_victim]) = {}
  BY EvictFacts
<1>2. PICK l : l = tag_q[s1_victim]
  OBVIOUS
<1>3. s1_victim \in HitWays(l) /\ l \in Line
  BY <1>1, <1>2 DEF HitWays, Places
<1>4. Arr(l) = state_q[s1_victim]
  BY <1>1, <1>3, ArrIs
<1>5. PICK d \in Dem, p \in BOOLEAN, x \in rsp[l] \cup {vn2_i, NoMsg}, a \in 0 .. 1 : LineOk(l, d, p, x, a)
  BY <1>3 DEF LinesOk
<1>6. Agree(Arr(l), d, home[l].us)
  BY <1>1, <1>2, <1>5 DEF LineOk, AtRest
<1>. QED  BY <1>1, <1>4, <1>6 DEF Agree

\* Entries keep their states and counts in range over a clock edge.
LEMMA EntriesSoundTick ==
  ASSUME CacheType, EnvType, Places, V1Ok, LinesOk, LinesOk', CacheType', Places', EntriesSound, tick
  PROVE  EntriesSound'
<1>c. Clock /\ Expected
  BY ExpectedHere DEF tick
<1>e. \A i \in Entry :
         /\ Opens(i) => ~mshr[i].valid /\ ~Closes(i) /\ ~Lands(i) /\ ~Turns(i) /\ Fresh(mshr'[i])
         /\ Closes(i) => mshr[i].valid /\ mshr[i].done /\ ~mshr'[i].valid /\ mshr'[i].req = NoReq
         /\ Lands(i) => mshr[i].valid /\ mshr[i].line = vn2_i.line
         /\ Turns(i) => mshr[i].valid /\ mshr[i].line = vn1_i.line /\ mshr[i].is_evict
         /\ ~Opens(i) /\ ~Closes(i) => Kin(mshr[i], mshr'[i], Lands(i), Turns(i))
  BY <1>c, EntryEdge
<1>s. SUFFICES ASSUME NEW i \in Entry
               PROVE  /\ mshr'[i].state \in StableL1 \cup Evicting
                      /\ ~mshr'[i].valid \/ mshr'[i].is_evict => mshr'[i].ack_cnt = 0
  BY DEF EntriesSound
<1>t. mshr[i].state \in StableL1 \cup Evicting /\ (~mshr[i].valid \/ mshr[i].is_evict => mshr[i].ack_cnt = 0)
  BY DEF EntriesSound
\* A response is for a fetch that is not over.
<1>l. Lands(i) => ~mshr[i].is_evict /\ ~Closes(i)
  <2>1. SUFFICES ASSUME Lands(i) PROVE ~mshr[i].is_evict /\ ~Closes(i)
    OBVIOUS
  <2>2. PICK l : l = vn2_i.line
    OBVIOUS
  <2>3. mshr[i].valid /\ mshr[i].line = l /\ l \in Line /\ i \in EntriesOf(l)
    BY <1>e, <2>1, <2>2 DEF EntriesOf, Places
  <2>4. PICK d \in Dem, p \in BOOLEAN, x \in rsp[l] \cup {vn2_i, NoMsg}, a \in 0 .. 1 : LineOk(l, d, p, x, a)
    BY <2>3 DEF LinesOk
  <2>5. vn2_i # NoMsg
    BY <2>2, <2>3, PipelineShape DEF NoMsg
  <2>6. ~None(l, x, a)
    BY <2>2, <2>4, <2>5 DEF LineOk, RspShape, Offered2, None
  <2>7. ~mshr[i].is_evict
    BY <2>3, <2>4, <2>6 DEF LineOk, Evicted
  <2>8. ~mshr[i].done
    BY <2>3, <2>4, <2>6, <2>7 DEF LineOk, Fetched, Unserved, Served, Finished
  <2>. QED  BY <1>e, <2>7, <2>8
<1>1. CASE Opens(i)
  <2>1. Fresh(mshr'[i]) /\ (s1_evict \/ s1_alloc)
    BY <1>1, <1>e DEF Opens
  <2>2. CASE s1_evict
    <3>1. state_q[s1_victim] \in {"S", "E", "M"}
      BY <2>2, VictimRests
    <3>2. TableNext(state_q[s1_victim], "EVICT") = CoreNext(state_q[s1_victim], "EVICT")
      BY <3>1, CoreTable DEF ArrayState, StableL1, CoreEvent
    <3>3. TableNext(state_q[s1_victim], "EVICT") \in Evicting
      BY <3>1, <3>2 DEF CoreNext, Evicting
    <3>. QED  BY <2>1, <2>2, <3>3 DEF Fresh
  <2>3. CASE ~s1_evict
    BY <2>1, <2>3 DEF Fresh, StableL1
  <2>. QED  BY <2>2, <2>3
<1>2. CASE Closes(i)
  <2>1. mshr'[i].state = "I" /\ mshr'[i].ack_cnt = 0
    BY <1>2, <1>c, <1>l, ClosedIs
  <2>. QED  BY <2>1 DEF StableL1
<1>3. CASE ~Opens(i) /\ ~Closes(i)
  <2>1. Kin(mshr[i], mshr'[i], Lands(i), Turns(i))
    BY <1>3, <1>e
  <2>2. ~mshr'[i].valid \/ mshr'[i].is_evict => mshr'[i].ack_cnt = 0
    BY <2>1, <1>t, <1>l, <1>e DEF Kin
  <2>3. CASE mshr'[i].state = mshr[i].state
    BY <2>2, <2>3, <1>t
  <2>4. CASE mshr'[i].state # mshr[i].state
    <3>1. (Lands(i) /\ vn2_complete) \/ (Turns(i) /\ mshr[i].is_evict)
      BY <2>1, <2>4, <1>e DEF Kin
    <3>2. mshr'[i].valid /\ (mshr'[i].done \/ mshr'[i].is_evict)
      BY <2>1, <3>1, <1>e DEF Kin
    <3>3. PICK l : l = mshr'[i].line
      OBVIOUS
    <3>4. l \in Line /\ i \in EntriesOf(l)'
      BY <3>2, <3>3 DEF Places, EntriesOf
    <3>5. PICK d \in Dem, p \in BOOLEAN, x \in rsp'[l] \cup {vn2_i', NoMsg}, a \in 0 .. 1 : LineOk(l, d, p, x, a)'
      BY <3>4 DEF LinesOk
    <3>6. CASE mshr'[i].is_evict
      <4>1. Evicted(l, i, d, p, x, a)'
        BY <3>4, <3>5, <3>6 DEF LineOk
      <4>2. mshr'[i].state \in {"I"} \cup Evicting
        BY <4>1 DEF Evicted
      <4>. QED  BY <2>2, <4>2 DEF StableL1
    <3>7. CASE ~mshr'[i].is_evict
      <4>1. Fetched(l, i, d, p, x, a)' /\ mshr'[i].done
        BY <3>2, <3>4, <3>5, <3>7 DEF LineOk
      <4>2. Finished(l, i, d, x, a)'
        BY <4>1 DEF Fetched, Unserved, Served
      <4>3. mshr'[i].state \in {"S", "E", "M"}
        BY <4>2 DEF Finished
      <4>. QED  BY <2>2, <4>3 DEF StableL1
    <3>. QED  BY <3>6, <3>7
  <2>. QED  BY <2>3, <2>4
<1>. QED  BY <1>1, <1>2, <1>3

\* Entries keep their states and counts when the cache is left alone.
LEMMA EntriesSoundQuiet ==
  ASSUME EntriesSound, Quiet
  PROVE  EntriesSound'
BY DEF EntriesSound, Quiet, SameEntry

\* The counts of an entry are those of at most one acknowledgement.
LEMMA Typed ==
  ASSUME CacheType, Places, LinesOk, EntriesSound
  PROVE  TypeOK
<1>1. ASSUME NEW i \in Entry PROVE mshr[i].ack_cnt \in -1 .. 1
  <2>1. CASE ~mshr[i].valid \/ mshr[i].is_evict
    BY <2>1 DEF EntriesSound
  <2>2. CASE mshr[i].valid /\ ~mshr[i].is_evict
    <3>1. PICK l : l = mshr[i].line
      OBVIOUS
    <3>2. l \in Line /\ i \in EntriesOf(l)
      BY <2>2, <3>1 DEF Places, EntriesOf
    <3>3. PICK d \in Dem, p \in BOOLEAN, x \in rsp[l] \cup {vn2_i, NoMsg}, a \in 0 .. 1 : LineOk(l, d, p, x, a)
      BY <3>2 DEF LinesOk
    <3>4. PICK c : c = mshr[i].ack_cnt
      OBVIOUS
    <3>5. c = 0 \/ c \in -1 .. 0 \/ c = 1
      BY <2>2, <3>2, <3>3, <3>4 DEF LineOk, Fetched, Unserved, Served, Finished
    <3>. QED  BY <3>4, <3>5
  <2>. QED  BY <2>1, <2>2
<1>. QED  BY <1>1 DEF TypeOK, CacheType, EntriesSound, ArrayState, V1Rec

\* What a store waits for is the line to write.
StoresWait == \A i \in Entry : Live(i) /\ mshr[i].req.op = "ST" => state_q[mshr[i].way] # "IS_D"

\* A store goes on waiting for a line it may write, over a clock edge.
LEMMA StoresWaitTick ==
  ASSUME CacheType, EnvType, Places, StoresWait, Clock
  PROVE  StoresWait'
<1>e. \A i \in Entry :
         /\ Opens(i) => ~mshr[i].valid /\ ~Closes(i) /\ ~Lands(i) /\ ~Turns(i) /\ Fresh(mshr'[i])
         /\ Closes(i) => mshr[i].valid /\ mshr[i].done /\ ~mshr'[i].valid /\ mshr'[i].req = NoReq
         /\ ~Opens(i) /\ ~Closes(i) => Kin(mshr[i], mshr'[i], Lands(i), Turns(i))
  BY EntryEdge
<1>s. SUFFICES ASSUME NEW i \in Entry, Live(i)', mshr'[i].req.op = "ST"
               PROVE  state_q'[mshr'[i].way] # "IS_D"
  BY DEF StoresWait
<1>p. PICK e, e2, r, b, b2 : e = mshr[i] /\ e2 = mshr'[i] /\ r = e2.req /\ b = e.is_evict /\ b2 = e2.is_evict
  OBVIOUS
<1>v. e2.valid /\ ~b2 /\ r.op = "ST"
  BY <1>p, <1>s DEF Live
<1>1. CASE Opens(i)
  <2>0. Fresh(e2)
    BY <1>1, <1>e, <1>p
  <2>1. (b2 <=> s1_evict) /\ r = IF s1_evict THEN NoReq ELSE s1
    BY <2>0, <1>p DEF Fresh
  <2>a. ~s1_evict /\ s1_alloc
    BY <2>1, <1>v, <1>1 DEF Opens
  <2>2. mshr'[i].way = s1_way /\ s1.op = "ST"
    BY <2>0, <2>1, <2>a, <1>p, <1>v DEF Fresh
  <2>3. s1_event = "STORE"
    BY <2>2 DEF s1_event
  <2>4. TableNext(s1_state, s1_event) \in {"SM_AD", "IM_AD"}
    BY <2>a, <2>3, AllocFacts
  <2>. QED  BY <2>a, <2>2, <2>4, NewWay
<1>2. CASE ~Opens(i)
  <2>1. ~Closes(i)
    BY <1>e, <1>p, <1>v
  <2>2. Kin(mshr[i], mshr'[i], Lands(i), Turns(i))
    BY <1>2, <1>e, <2>1
  <2>3. PICK w : w = mshr[i].way /\ mshr'[i].way = w
    BY <2>2 DEF Kin
  <2>b. Kin(e, e2, Lands(i), Turns(i))
    BY <2>2, <1>p
  <2>c. e.valid /\ ~b /\ e.req = r
    BY <2>b, <1>p, <1>v DEF Kin
  <2>4. Live(i) /\ mshr[i].req.op = "ST"
    BY <2>c, <1>p, <1>v DEF Live
  <2>5. state_q[w] # "IS_D" /\ state_q[w] \in Fetching /\ w \in Way
    BY <2>3, <2>4, LiveWay DEF StoresWait
  <2>6. state_q'[w] = IF vn2_lands /\ ~vn2_complete /\ w = vn2_way THEN vn2_state_eff
                      ELSE IF vn1_take /\ ~vn1_in_mshr /\ HitWays(vn1_i.line) # {} /\ w = vn1_way
                      THEN TableNext(vn1_state, vn1_event) ELSE state_q[w]
    BY <2>1, <2>3, <2>4, FetchedWay
  <2>7. CASE vn2_lands /\ ~vn2_complete /\ w = vn2_way
    <3>1. vn2_state_eff = RspNext(state_q[w], vn2_event)
      BY <2>7, RspWay
    <3>2. RspNext(state_q[w], vn2_event) # "IS_D"
      BY <2>5 DEF RspNext
    <3>. QED  BY <2>3, <2>6, <2>7, <3>1, <3>2
  <2>8. CASE ~(vn2_lands /\ ~vn2_complete /\ w = vn2_way)
    <3>1. CASE vn1_take /\ ~vn1_in_mshr /\ HitWays(vn1_i.line) # {} /\ w = vn1_way
      <4>1. TableNext(vn1_state, vn1_event) # "IS_D"
        BY <3>1, FwdWay
      <4>. QED  BY <2>3, <2>6, <2>8, <3>1, <4>1
    <3>2. CASE ~(vn1_take /\ ~vn1_in_mshr /\ HitWays(vn1_i.line) # {} /\ w = vn1_way)
      BY <2>3, <2>5, <2>6, <2>8, <3>2
    <3>. QED  BY <3>1, <3>2
  <2>. QED  BY <2>7, <2>8
<1>. QED  BY <1>1, <1>2

\* A store goes on waiting for what it waits for when the cache is left alone.
LEMMA StoresWaitQuiet ==
  ASSUME StoresWait, Quiet
  PROVE  StoresWait'
BY DEF StoresWait, Quiet, SameEntry, Live

\* A line is written while it is at rest or comes in, and nothing else has it.
LEMMA StoredIs ==
  ASSUME CacheType, EnvType, Places, StoresWait, NEW l \in Line, NEW d, NEW p, NEW x, NEW a, LineOk(l, d, p, x, a),
         StoredLine = l
  PROVE  /\ req[l].t = "NONE" /\ Sending(l) = {}
         /\ \/ StoreAtS1 /\ Hit1(l) /\ EntriesOf(l) = {} /\ Arr(l) \in {"E", "M"} /\ s1_event = "STORE"
            \/ /\ ~StoreAtS1 /\ Ret(l) /\ retire_idx \in EntriesOf(l)
               /\ ~mshr[retire_idx].is_evict /\ mshr[retire_idx].state = "M"
<1>1. CASE StoreAtS1
  <2>1. s1_resp /\ s1.line = l /\ s1.op = "ST"
    BY <1>1 DEF StoredLine, StoreAtS1
  <2>2. s1_event = "STORE"
    BY <2>1 DEF s1_event
  <2>3. WayOf(l) \in HitWays(l) /\ state_q[WayOf(l)] \in {"E", "M"}
    BY <2>1, <2>2, RespFacts
  <2>4. Arr(l) \in {"E", "M"}
    BY <2>3 DEF Arr
  <2>5. Arr(l) \notin Fetching /\ Arr(l) # "I"
    BY <2>4 DEF Fetching
  <2>6. EntriesOf(l) = {}
    BY <2>5, FetchedArr
  <2>7. req[l].t = "NONE"
    BY <2>6 DEF LineOk, AtRest
  <2>8. Sending(l) = {}
    BY <2>4, <2>6, <2>7 DEF LineOk, Calm
  <2>. QED  BY <1>1, <2>1, <2>2, <2>4, <2>6, <2>7, <2>8 DEF Hit1
<1>2. CASE ~StoreAtS1
  <2>1. StoreAtRetire /\ mshr[retire_idx].line = l
    BY <1>2, PipelineShape DEF StoredLine
  <2>2. PICK i : i = retire_idx
    OBVIOUS
  <2>3. retire_now /\ ~mshr[i].is_evict /\ mshr[i].req.op = "ST" /\ mshr[i].line = l
    BY <2>1, <2>2 DEF StoreAtRetire
  <2>4. i \in Entry /\ mshr[i].valid /\ mshr[i].done /\ i \in EntriesOf(l)
    BY <2>2, <2>3, Indices DEF EntriesOf
  <2>5. Live(i)
    BY <2>3, <2>4 DEF Live
  <2>6. PICK w : w = mshr[i].way
    OBVIOUS
  <2>7. w \in Way /\ w \in HitWays(l) /\ state_q[w] # "IS_D"
    BY <2>3, <2>4, <2>5, <2>6, LiveWay DEF StoresWait
  <2>8. Arr(l) # "IS_D"
    BY <2>7, ArrIs
  <2>9. Finished(l, i, d, x, a)
    BY <2>3, <2>4 DEF LineOk, Fetched, Unserved, Served
  <2>10. req[l].t = "NONE" /\ mshr[i].state = "M"
    BY <2>8, <2>9 DEF Finished
  <2>11. Arr(l) # "I"
    BY <2>7, ArrIs
  <2>12. \A j \in EntriesOf(l) : ~mshr[j].is_evict
    BY <2>11, FetchedArr
  <2>13. Sending(l) = {}
    BY <2>4, <2>10, <2>12 DEF LineOk, Calm
  <2>. QED  BY <1>2, <2>2, <2>3, <2>4, <2>10, <2>13 DEF Ret
<1>. QED  BY <1>1, <1>2

\* The data found in a way after the edge.
LEMMA LookedEdge ==
  ASSUME CacheType, EnvType, Clock, NEW w \in Way
  PROVE  /\ data'[w] = IF s2.wr /\ s2.way = w THEN Kept(s2.data)
                       ELSE IF fill_writes_array /\ mshr[retire_idx].way = w
                       THEN IF mshr[retire_idx].fresh THEN mshr[retire_idx].line ELSE NoLine
                       ELSE Kept(data[w])
         /\ StoreAtS1 /\ w = WayOf(s1.line) => LookedUp(w)' = LookedUp(w)
         /\ ~(StoreAtS1 /\ w = WayOf(s1.line)) => LookedUp(w)' = data'[w]
         /\ ~(fill_writes_array /\ mshr[retire_idx].way = w) => data'[w] = Kept(LookedUp(w))
         /\ fill_writes_array => ~s2.wr /\ ~s1_resp
<1>1. data'[w] = IF s2.wr /\ s2.way = w THEN Kept(s2.data)
                 ELSE IF fill_writes_array /\ mshr[retire_idx].way = w
                 THEN IF mshr[retire_idx].fresh THEN mshr[retire_idx].line ELSE NoLine
                 ELSE Kept(data[w])
  BY DEF Clock, NextData
<1>2. fill_writes_array => ~s2.wr /\ ~s1_resp
  BY DEF fill_writes_array, retire_now
<1>3. ~(fill_writes_array /\ mshr[retire_idx].way = w) => data'[w] = Kept(LookedUp(w))
  BY <1>1 DEF LookedUp
<1>4. CASE StoreAtS1
  <2>1. PICK k : k = LookedUp(WayOf(s1.line))
    OBVIOUS
  <2>2. s2' = [wr |-> TRUE, way |-> WayOf(s1.line), data |-> k]
    BY <1>4, <2>1 DEF Clock
  <2>3. s2'.wr /\ s2'.way = WayOf(s1.line) /\ s2'.data = k
    BY <2>2
  <2>4. LookedUp(w)' = IF w = WayOf(s1.line) THEN k ELSE data'[w]
    BY <2>3 DEF LookedUp
  <2>. QED  BY <1>1, <1>2, <1>3, <1>4, <2>1, <2>4
<1>5. CASE ~StoreAtS1
  <2>1. ~s2'.wr
    BY <1>5 DEF Clock, NoWrite
  <2>2. LookedUp(w)' = data'[w]
    BY <2>1 DEF LookedUp
  <2>. QED  BY <1>1, <1>2, <1>3, <1>5, <2>2
<1>. QED  BY <1>4, <1>5

---------------------------------------------------------------------------
(* Where the latest data is *)

\* States in which the cache reads its line.
HasData(l) == Arr(l) \in {"S", "E", "M", "SM_AD", "SM_A"}

Datas == {"DATA_OWNER", "WB_DATA"}

\* The latest data of the line is with the cache, or on its way from it.
Dirty(l) ==
    \/ EntriesOf(l) = {} /\ Arr(l) = "M"
    \/ req[l].t = "PUTM" /\ home[l].us = "X"
    \/ home[l].pend \cap Datas # {}

\* The places the latest data of a line is found in.
WaysFresh(l) == HasData(l) => \A w \in HitWays(l) : LookedUp(w) = l

EntriesFresh(l) ==
    \A i \in EntriesOf(l) :
        /\ ~mshr[i].is_evict /\ mshr[i].data_valid => mshr[i].fresh
        /\ mshr[i].is_evict /\ mshr[i].state \in {"MI_A", "EI_A"} /\ (req[l].t # "NONE" \/ home[l].pend # {}) => mshr[i].fresh

RspsFresh(l) == \A m \in rsp[l] \cup Offered2(l) : m.t # "INV_ACK" => m.fresh

AnswersFresh(l) == Sending(l) \cap Datas # {} => IF v1.fsm = "READ" THEN data[v1.way] = l ELSE v1.fresh

PutFresh(l) == req[l].t = "PUTM" /\ home[l].us = "X" => req[l].fresh

HomeFresh(l) == ~Dirty(l) => home[l].fresh

FreshLine(l) == WaysFresh(l) /\ EntriesFresh(l) /\ RspsFresh(l) /\ AnswersFresh(l) /\ PutFresh(l) /\ HomeFresh(l)

\* What the cache has just answered.
AnsweredFresh ==
    /\ core_resp # NoReq => core_resp.fresh
    /\ vn2_o # NoMsg /\ vn2_o.t # "INV_ACK" => vn2_o.fresh

\* Data that is not fetched in this cycle was there before, in the same way.
LEMMA DataStays ==
  ASSUME CacheType, EnvType, Places, Expected, tick, NEW l \in Line, HasData(l)', ~Ret(l), NEW w \in HitWays(l)'
  PROVE  HasData(l) /\ w \in HitWays(l) /\ w = WayOf(l) /\ w \in Way /\ ~Fills(w)
<1>c. Clock /\ Arr(l)' = ArrNext(l) /\ Arr(l)' \in {"S", "E", "M", "SM_AD", "SM_A"}
  BY ArrEdge DEF tick, HasData
<1>e. /\ Hit1(l) => ~New1(l) /\ ~Put1(l) /\ ~Ret(l) /\ ~T1(l) /\ ~T2(l)
      /\ New1(l) => ~Put1(l)
  BY OneEvent
<1>1. HasData(l)
  <2>1. CASE Hit1(l)
    <3>1. s1_resp /\ s1.line = l
      BY <2>1 DEF Hit1
    <3>2. WayOf(l) \in HitWays(l) /\ state_q[WayOf(l)] \in {"S", "E", "M", "SM_AD", "SM_A"}
      BY <3>1, RespFacts
    <3>. QED  BY <3>2 DEF HasData, Arr
  <2>2. CASE Put1(l) /\ ~Hit1(l)
    BY <2>2, <1>c DEF ArrNext
  <2>3. CASE New1(l)
    <3>1. s1_alloc /\ s1.line = l
      BY <2>3 DEF New1
    <3>2. s1_state = Arr(l)
      BY <3>1 DEF s1_state, s1_hit, Arr
    <3>3. Arr(l)' = TableNext(s1_state, s1_event)
      BY <2>3, <3>2, <1>c, <1>e DEF ArrNext
    <3>4. s1_hit
      BY <3>1, <3>3, <1>c, AllocFacts
    <3>5. s1_way \in HitWays(l) /\ state_q[s1_way] = "S" /\ s1_way \in Way
      BY <3>1, <3>4, AllocFacts
    <3>6. Arr(l) = "S"
      BY <3>5, ArrIs
    <3>. QED  BY <3>6 DEF HasData
  <2>4. CASE T2(l) /\ ~vn2_complete /\ ~Hit1(l) /\ ~Put1(l) /\ ~New1(l)
    <3>1. vn2_lands /\ vn2_i.line = l /\ HitWays(l) # {}
      BY <2>4 DEF T2, Expected
    <3>2. state_q[vn2_way] = Arr(l)
      BY <3>1 DEF vn2_way, Arr
    <3>3. Arr(l)' = RspNext(Arr(l), vn2_event) /\ vn2_event \in {"DATA_DIR_AGT0", "INV_ACK"}
      BY <2>4, <3>1, <3>2, <1>c, RspWay DEF ArrNext
    <3>4. Arr(l)' = Arr(l) \/ Arr(l) = "SM_AD" \/ Arr(l)' = "IM_A"
      BY <3>3 DEF RspNext
    <3>. QED  BY <3>4, <1>c DEF HasData
  <2>5. CASE T1(l) /\ HitWays(l) # {}
    <3>1. vn1_take /\ vn1_i.line = l
      BY <2>5 DEF T1
    <3>2. \A i \in EntriesOf(l) : ~mshr[i].is_evict
      BY <2>5, FetchedArr
    <3>3. vn1_state = Arr(l) /\ ~vn1_in_mshr
      BY <3>1, <3>2, FwdLine
    <3>4. vn1_state \in {"S", "E", "M", "SM_AD"}
      BY <2>5, <3>1, <3>3, FwdWay
    <3>. QED  BY <3>3, <3>4 DEF HasData
  <2>6. CASE /\ ~Hit1(l) /\ ~Put1(l) /\ ~New1(l)
             /\ ~(T2(l) /\ ~vn2_complete) /\ ~(T1(l) /\ HitWays(l) # {})
    BY <2>6, <1>c DEF ArrNext, HasData
  <2>. QED  BY <2>1, <2>2, <2>3, <2>4, <2>5, <2>6
<1>2. HitWays(l) # {} /\ Arr(l) # "I"
  BY <1>1 DEF HasData, Arr
<1>3. w \in HitWays(l)
  <2>1. CASE New1(l)
    BY <2>1, <1>2, <1>c, HitEdge
  <2>2. CASE ~New1(l)
    BY <2>2, <1>c, HitEdge
  <2>. QED  BY <2>1, <2>2
<1>4. w \in Way /\ w = WayOf(l) /\ tag_q[w] = l
  BY <1>3, ArrIs DEF HitWays
<1>5. ~Fills(w)
  <2>1. Fills(w) => tag_q[w] = mshr[retire_idx].line /\ retire_now
    BY <1>4, FillFacts DEF Fills
  <2>. QED  BY <2>1, <1>4 DEF Ret
<1>. QED  BY <1>1, <1>3, <1>4, <1>5

\* What the cache reads in the array is the latest after a clock edge.
LEMMA WaysFreshTick ==
  ASSUME CacheType, EnvType, Places, Expected, StoresWait, tick, NEW l \in Line, NEW d, NEW p, NEW x, NEW a,
         LineOk(l, d, p, x, a), WaysFresh(l), EntriesFresh(l)
  PROVE  WaysFresh(l)'
<1>c. Clock /\ Arr(l)' = ArrNext(l)
  BY ArrEdge DEF tick
<1>e. /\ Hit1(l) => ~New1(l) /\ ~Put1(l) /\ ~Ret(l) /\ ~T1(l) /\ ~T2(l)
      /\ Ret(l) => ~Hit1(l) /\ ~Put1(l) /\ ~New1(l) /\ ~T1(l)
  BY OneEvent
<1>s. SUFFICES ASSUME HasData(l)', NEW w \in HitWays(l)' PROVE LookedUp(w)' = l
  BY DEF WaysFresh
<1>w. w \in Way
  BY DEF HitWays
<1>k. Kept(l) = IF l = StoredLine THEN NoLine ELSE l
  BY DEF Kept
<1>1. CASE ~Ret(l)
  <2>1. HasData(l) /\ w \in HitWays(l) /\ w = WayOf(l) /\ ~Fills(w)
    BY <1>1, <1>s, DataStays
  <2>2. LookedUp(w) = l
    BY <2>1 DEF WaysFresh
  <2>3. ~(fill_writes_array /\ mshr[retire_idx].way = w)
    BY <2>1 DEF fill_writes_array, Fills
  <2>4. CASE StoreAtS1 /\ w = WayOf(s1.line)
    BY <2>2, <2>4, <1>c, <1>w, LookedEdge
  <2>5. CASE ~(StoreAtS1 /\ w = WayOf(s1.line))
    <3>1. StoredLine # l
      <4>1. SUFFICES ASSUME StoredLine = l PROVE FALSE
        OBVIOUS
      <4>2. StoreAtS1 /\ Hit1(l)
        BY <4>1, <1>1, StoredIs
      <4>. QED  BY <4>2, <2>1, <2>5 DEF Hit1
    <3>2. LookedUp(w)' = Kept(l)
      BY <2>2, <2>3, <2>5, <1>c, <1>w, LookedEdge
    <3>. QED  BY <3>1, <3>2, <1>k
  <2>. QED  BY <2>4, <2>5
<1>2. CASE Ret(l)
  <2>1. PICK i : i = retire_idx
    OBVIOUS
  <2>2. retire_now /\ mshr[i].line = l /\ i \in EntriesOf(l) /\ i \in Entry /\ mshr[i].valid /\ mshr[i].done
    BY <1>2, <2>1, Indices DEF Ret, EntriesOf
  <2>3. ~s1_resp
    BY <2>2 DEF retire_now
  <2>4. HitWays(l)' \subseteq HitWays(l)
    BY <1>2, <1>e, <1>c, HitEdge
  <2>5. w \in HitWays(l)
    BY <2>4
  <2>6. ~mshr[i].is_evict
    BY <2>2, <2>5, FetchedArr
  <2>7. PICK u : u = mshr[i].way
    OBVIOUS
  <2>8. Live(i)
    BY <2>2, <2>6 DEF Live
  <2>9. u \in Way /\ u \in HitWays(l)
    BY <2>2, <2>7, <2>8, LiveWay
  <2>10. w = u
    BY <2>5, <2>9, ArrIs
  <2>11. Finished(l, i, d, x, a)
    BY <2>2, <2>6 DEF LineOk, Fetched, Unserved, Served
  <2>12. mshr[i].data_valid /\ mshr[i].fresh
    BY <2>2, <2>6, <2>11 DEF Finished, EntriesFresh
  <2>13. fill_writes_array /\ ~s2.wr
    BY <2>1, <2>2, <2>6, <2>12 DEF fill_writes_array, retire_now
  <2>14. data'[w] = l
    BY <2>1, <2>2, <2>7, <2>10, <2>12, <2>13, <1>c, <1>w, LookedEdge
  <2>15. LookedUp(w)' = data'[w]
    BY <2>3, <1>c, <1>w, LookedEdge DEF StoreAtS1
  <2>. QED  BY <2>14, <2>15
<1>. QED  BY <1>1, <1>2

\* A line that something else happens to is not written in this cycle.
LEMMA NotStored ==
  ASSUME CacheType, EnvType, Places, StoresWait, NEW l \in Line, NEW d, NEW p, NEW x, NEW a, LineOk(l, d, p, x, a),
         T1(l) \/ (T2(l) /\ ~Ret(l)) \/ Put1(l) \/ Sending(l) # {} \/ req[l].t # "NONE"
  PROVE  StoredLine # l
<1>. SUFFICES ASSUME StoredLine = l PROVE FALSE
  OBVIOUS
<1>1. req[l].t = "NONE" /\ Sending(l) = {} /\ (Hit1(l) \/ Ret(l))
  BY StoredIs
<1>2. /\ Hit1(l) => ~Put1(l) /\ ~Ret(l) /\ ~T1(l) /\ ~T2(l)
      /\ Ret(l) => ~Put1(l) /\ ~T1(l)
  BY OneEvent
<1>. QED  BY <1>1, <1>2

\* The data a line is read from in the array.
LEMMA WayData ==
  ASSUME CacheType, Places, NEW l \in Line, WaysFresh(l), NEW w \in Way, tag_q[w] = l, state_q[w] \in {"S", "E", "M", "SM_AD", "SM_A"}
  PROVE  LookedUp(w) = l /\ HasData(l) /\ w = WayOf(l)
<1>1. w \in HitWays(l)
  BY DEF HitWays
<1>2. Arr(l) = state_q[w] /\ WayOf(l) = w
  BY <1>1, ArrIs
<1>. QED  BY <1>1, <1>2 DEF WaysFresh, HasData

\* What an entry has fetched or gives back is the latest after a clock edge.
LEMMA EntriesFreshTick ==
  ASSUME CacheType, EnvType, Places, LinesOk, Expected, StoresWait, tick, NEW l \in Line, NEW d, NEW p, NEW x, NEW a,
         LineOk(l, d, p, x, a), WaysFresh(l), EntriesFresh(l), RspsFresh(l), T2(l) => ~Ret(l)
  PROVE  EntriesFresh(l)'
<1>c. Clock
  BY DEF tick
<1>t. CacheType /\ mshr' \in Entries
  BY <1>c, EntryEdge
<1>n. T1(l) \/ T2(l) \/ Put1(l) => StoredLine # l
  BY NotStored
<1>1. SUFFICES ASSUME NEW i \in EntriesOf(l)', NEW e2, e2 = mshr'[i]
               PROVE  /\ ~e2.is_evict /\ e2.data_valid => e2.fresh
                      /\ e2.is_evict /\ e2.state \in {"MI_A", "EI_A"} /\ (req'[l].t # "NONE" \/ home'[l].pend # {}) => e2.fresh
  BY DEF EntriesFresh
<1>2. \/ i \in EntriesOf(l) /\ ~Ret(l)
      \/ EntriesOf(l) = {} /\ (New1(l) \/ Put1(l)) /\ Fresh(e2)
  BY <1>1, LineEntry
<1>3. CASE EntriesOf(l) = {} /\ (New1(l) \/ Put1(l)) /\ Fresh(e2)
  <2>1. ~e2.data_valid /\ (e2.is_evict <=> s1_evict)
    BY <1>3 DEF Fresh
  <2>2. CASE ~s1_evict
    BY <2>1, <2>2
  <2>3. CASE s1_evict
    <3>1. Put1(l) /\ e2.line = l /\ tag_q[s1_victim] = l
      <4>1. ~s1_alloc
        BY <2>3 DEF s1_alloc
      <4>. QED  BY <1>3, <2>3, <4>1 DEF Fresh, New1, Put1
    <3>2. state_q[s1_victim] \in {"S", "E", "M"} /\ s1_victim \in Way
      BY <2>3, VictimRests, EvictFacts
    <3>3. LookedUp(s1_victim) = l
      BY <3>1, <3>2, WayData
    <3>4. StoredLine # l
      BY <3>1, <1>n
    <3>5. e2.fresh
      BY <1>3, <2>3, <3>1, <3>3, <3>4 DEF Fresh
    <3>. QED  BY <3>5
  <2>. QED  BY <2>2, <2>3
<1>4. CASE i \in EntriesOf(l) /\ ~Ret(l)
  <2>1. PICK e : e = mshr[i]
    OBVIOUS
  <2>2. PICK b : b = (T1(l) /\ e.is_evict)
    OBVIOUS
  <2>3. Kin(e, e2, T2(l), T1(l) /\ e.is_evict)
    BY <1>1, <1>4, <2>1, LineEntry
  <2>4. e \in EntryRec /\ e.line = l /\ i \in Entry
    BY <1>4, <2>1 DEF CacheType, EntriesOf
  <2>5. /\ ~e.is_evict /\ e.data_valid => e.fresh
        /\ e.is_evict /\ e.state \in {"MI_A", "EI_A"} /\ (req[l].t # "NONE" \/ home[l].pend # {}) => e.fresh
    BY <1>4, <2>1 DEF EntriesFresh
  <2>6. e.fresh /\ StoredLine # l /\ ~T2(l) => e2.fresh
    BY <2>3, <2>4 DEF Kin
  <2>7. e2.is_evict = e.is_evict
    BY <2>3 DEF Kin
  <2>s. StoredLine # l
    <3>1. SUFFICES ASSUME StoredLine = l PROVE FALSE
      OBVIOUS
    <3>2. Hit1(l) /\ EntriesOf(l) = {}
      BY <3>1, <1>4, StoredIs
    <3>. QED  BY <3>2, <1>4
  <2>8. CASE ~e.is_evict
    <3>1. CASE T2(l) /\ FillsData(vn2_event)
      <4>1. vn2_i \in RspMsg /\ vn2_i # NoMsg /\ vn2_i.line = l
        BY <3>1, RspState DEF T2, vn2_lands, vn2_take
      <4>2. vn2_i.t # "INV_ACK"
        BY <3>1 DEF vn2_event, RspEventOf, FillsData
      <4>3. vn2_i \in Offered2(l)
        BY <4>1 DEF Offered2
      <4>4. vn2_i.fresh
        BY <4>2, <4>3 DEF RspsFresh
      <4>5. e2.fresh
        BY <2>3, <2>4, <2>s, <3>1, <4>4 DEF Kin
      <4>. QED  BY <4>5, <2>7, <2>8
    <3>2. CASE ~(T2(l) /\ FillsData(vn2_event))
      <4>1. (e2.data_valid <=> e.data_valid) /\ (e2.fresh <=> e.fresh /\ l # StoredLine)
        BY <2>3, <2>4, <3>2 DEF Kin
      <4>. QED  BY <4>1, <2>5, <2>7, <2>8, <2>s
    <3>. QED  BY <3>1, <3>2
  <2>9. CASE e.is_evict
    <3>1. ~T2(l)
      <4>1. HitWays(l) = {}
        BY <1>4, <2>1, <2>9, FetchedArr
      <4>. QED  BY <4>1 DEF T2, Expected
    <3>2. CASE T1(l)
      <4>1. vn1_state = e.state
        BY <1>4, <2>1, <2>9, <3>2, FwdLine DEF T1
      <4>2. e2.state = TableNext(vn1_state, vn1_event)
        BY <2>3, <2>9, <3>1, <3>2 DEF Kin
      <4>3. vn1_valid /\ vn1_i \in FwdMsg /\ vn1_event = vn1_i.t /\ TableNext(vn1_state, vn1_event) = FwdNext(vn1_state, vn1_event)
        BY <3>2, Taken, FwdState DEF T1
      <4>4. \/ vn1_state \in {"E", "M", "EI_A", "MI_A"} /\ vn1_i.t \in {"FWD_GETS", "FWD_GETM"}
            \/ vn1_state \in {"S", "SM_AD", "SI_A"} /\ vn1_i.t = "INV"
            \/ vn1_state \in Evicting /\ vn1_i.t = "PUT_ACK"
        BY <3>2, Taken DEF T1
      <4>5. e2.state \notin {"MI_A", "EI_A"}
        BY <4>2, <4>3, <4>4 DEF FwdNext, Evicting
      <4>. QED  BY <4>5, <2>7, <2>9
    <3>3. CASE ~T1(l)
      <4>1. e2.state = e.state
        BY <2>3, <3>1, <3>3 DEF Kin
      <4>2. ~New1(l) /\ ~Put1(l)
        BY <1>4, LineEntry
      <4>3. req'[l].t = req[l].t
        BY <4>2, ReqEdge
      <4>4. home'[l].pend \subseteq home[l].pend
        BY HomeEdge DEF Told
      <4>. QED  BY <4>1, <4>3, <4>4, <2>5, <2>6, <2>7, <2>9, <2>s, <3>1
    <3>. QED  BY <3>2, <3>3
  <2>. QED  BY <2>8, <2>9
<1>. QED  BY <1>2, <1>3, <1>4

\* Data on its way to the cache is the latest after a clock edge.
LEMMA RspsFreshTick ==
  ASSUME EnvType, tick, NEW l \in Line, RspsFresh(l)
  PROVE  RspsFresh(l)'
<1>1. rsp'[l] = rsp[l] \ {vn2_i'} /\ (vn2_i'.line = l => vn2_i' \in rsp[l])
  BY RspEdge
<1>2. Offered2(l)' \subseteq rsp[l]
  BY <1>1 DEF Offered2
<1>. QED  BY <1>1, <1>2 DEF RspsFresh

\* What the machine sends is what it has left to send.
LEMMA OutIs ==
  ASSUME CacheType, V1Ok, NEW l \in Line, NextVn2Out.line = l
  PROVE  /\ v1.fsm = "SEND" /\ Sending(l) # {} /\ NextVn2Out.t \in Sending(l)
         /\ NextVn2Out.fresh <=> v1.fresh /\ l # StoredLine
         /\ NextVn2Out # NoMsg
<1>1. l # NoLine
  BY PipelineShape
<1>2. NextVn2Out # NoMsg
  BY <1>1 DEF NoMsg
<1>3. /\ v1.fsm = "SEND" /\ v1.sends # {} /\ V1Send \in v1.sends
      /\ NextVn2Out = [line |-> v1.msg.line, t |-> V1Send, fresh |-> Held(v1.msg.line, v1.fresh)]
  BY <1>2, OutType
<1>4. NextVn2Out.line = v1.msg.line /\ NextVn2Out.t = V1Send /\ NextVn2Out.fresh = Held(v1.msg.line, v1.fresh)
  BY <1>3
<1>5. v1.msg.line = l /\ Sending(l) = v1.sends
  BY <1>4 DEF Sending
<1>. QED  BY <1>2, <1>3, <1>4, <1>5 DEF Held

\* Data that goes out is the latest of its line.
LEMMA OutFresh ==
  ASSUME CacheType, EnvType, Places, V1Ok, StoresWait, NEW l \in Line, NEW d, NEW p, NEW x, NEW a, LineOk(l, d, p, x, a),
         AnswersFresh(l), NextVn2Out.line = l, NextVn2Out.t # "INV_ACK"
  PROVE  NextVn2Out.fresh /\ Sending(l) \cap Datas # {} /\ StoredLine # l
<1>1. v1.fsm = "SEND" /\ Sending(l) # {} /\ NextVn2Out.t \in Sending(l) /\ (NextVn2Out.fresh <=> v1.fresh /\ l # StoredLine)
  BY OutIs
<1>2. v1 \in V1Rec
  BY DEF CacheType
<1>3. Sending(l) \subseteq AnsType
  BY <1>2 DEF Sending, V1Rec
<1>4. Sending(l) \cap Datas # {}
  BY <1>1, <1>3 DEF AnsType, Datas
<1>5. v1.fresh
  BY <1>1, <1>4 DEF AnswersFresh
<1>6. StoredLine # l
  BY <1>1, NotStored
<1>. QED  BY <1>1, <1>4, <1>5, <1>6

\* A forward is taken: the data is read from the array next, or found in an entry now.
V1Took ==
    /\ v1'.way = vn1_way
    /\ vn1_needs_array => v1'.fsm = "READ"
    /\ ~vn1_needs_array => v1'.fsm = "SEND"
    /\ v1'.fresh <=> vn1_needs_line /\ vn1_in_mshr /\ mshr[vn1_idx].fresh /\ vn1_i.line # StoredLine

\* How the machine comes by the data it will send.
LEMMA V1Data ==
  ASSUME CacheType, EnvType, V1Ok, Clock
  PROVE  /\ vn1_take /\ vn1_sends # {} => V1Took
         /\ v1.fsm = "READ" => v1'.fsm = "SEND" /\ (v1'.fresh <=> data[v1.way] = v1.msg.line /\ v1.msg.line # StoredLine)
         /\ v1.fsm = "SEND" /\ v1.sends # {} => v1'.fsm = "SEND" /\ (v1'.fresh <=> v1.fresh /\ v1.msg.line # StoredLine)
<1>0. v1 \in V1Rec /\ v1' = NextV1 /\ v1.fsm \in {"IDLE", "READ", "SEND"}
  BY DEF CacheType, V1Rec, Clock
<1>1. ASSUME vn1_take, vn1_sends # {}
      PROVE  V1Took
  <2>1. v1.fsm = "IDLE"
    BY <1>1 DEF vn1_take
  <2>2. NextV1 = V1Taken
    BY <2>1 DEF NextV1
  <2>3. v1' = [ fsm |-> IF vn1_needs_array THEN "READ" ELSE "SEND",
           msg |-> vn1_i, way |-> vn1_way, sends |-> vn1_sends,
           fresh |-> vn1_needs_line /\ vn1_in_mshr /\ Held(vn1_i.line, mshr[vn1_idx].fresh) ]
    BY <1>0, <1>1, <2>2 DEF V1Taken
  <2>4. /\ v1'.way = vn1_way /\ v1'.fsm = (IF vn1_needs_array THEN "READ" ELSE "SEND")
        /\ v1'.fresh = (vn1_needs_line /\ vn1_in_mshr /\ Held(vn1_i.line, mshr[vn1_idx].fresh))
    BY <2>3
  <2>. QED  BY <2>4 DEF Held, V1Took
<1>2. ASSUME v1.fsm = "READ"
      PROVE  v1'.fsm = "SEND" /\ (v1'.fresh <=> data[v1.way] = v1.msg.line /\ v1.msg.line # StoredLine)
  <2>1. PICK b : b = Held(v1.msg.line, data[v1.way] = v1.msg.line)
    OBVIOUS
  <2>2. NextV1 = [v1 EXCEPT !.fsm = "SEND", !.fresh = b]
    BY <1>2, <2>1 DEF NextV1
  <2>3. NextV1 = [fsm |-> "SEND", msg |-> v1.msg, way |-> v1.way, fresh |-> b, sends |-> v1.sends]
    BY <1>0, <2>2 DEF V1Rec
  <2>4. v1'.fsm = "SEND" /\ v1'.fresh = b
    BY <1>0, <2>3
  <2>. QED  BY <2>1, <2>4 DEF Held
<1>3. ASSUME v1.fsm = "SEND", v1.sends # {}
      PROVE  v1'.fsm = "SEND" /\ (v1'.fresh <=> v1.fresh /\ v1.msg.line # StoredLine)
  <2>1. PICK b : b = Held(v1.msg.line, v1.fresh)
    OBVIOUS
  <2>2. PICK s : s = v1.sends \ {V1Send}
    OBVIOUS
  <2>3. NextV1 = [v1 EXCEPT !.sends = s, !.fresh = b]
    BY <1>3, <2>1, <2>2 DEF NextV1
  <2>4. NextV1 = [fsm |-> v1.fsm, msg |-> v1.msg, way |-> v1.way, fresh |-> b, sends |-> s]
    BY <1>0, <2>3 DEF V1Rec
  <2>5. v1'.fsm = v1.fsm /\ v1'.fresh = b
    BY <1>0, <2>4
  <2>. QED  BY <1>3, <2>1, <2>5 DEF Held
<1>. QED  BY <1>1, <1>2, <1>3

\* What the V1 machine has yet to send is the latest after a clock edge.
LEMMA AnswersFreshTick ==
  ASSUME CacheType, EnvType, Places, V1Ok, Expected, StoresWait, tick, NEW l \in Line, NEW d \in Dem, NEW p, NEW x, NEW a,
         LineOk(l, d, p, x, a), WaysFresh(l), EntriesFresh(l), AnswersFresh(l)
  PROVE  AnswersFresh(l)'
<1>c. Clock
  BY DEF tick
<1>n. T1(l) \/ Sending(l) # {} => StoredLine # l
  BY NotStored
<1>v. v1.fsm \in {"IDLE", "READ", "SEND"} /\ (v1.fsm = "IDLE" => v1.sends = {})
  BY DEF CacheType, V1Rec, V1Ok
<1>1. SUFFICES ASSUME Sending(l)' \cap Datas # {}
               PROVE  (v1'.fsm = "READ" => data'[v1'.way] = l) /\ (v1'.fsm # "READ" => v1'.fresh)
  BY DEF AnswersFresh
<1>2. CASE T1(l)
  <2>1. vn1_take /\ vn1_i.line = l
    BY <1>2 DEF T1
  <2>2. Sending(l)' = Answers(vn1_i.t)
    BY <1>2, SendingTick
  <2>3. /\ vn1_i \in FwdMsg /\ v1.fsm = "IDLE" /\ vn1_sends = Answers(vn1_i.t)
        /\ \/ vn1_state \in {"E", "M", "EI_A", "MI_A"} /\ vn1_i.t \in {"FWD_GETS", "FWD_GETM"}
           \/ vn1_state \in {"S", "SM_AD", "SI_A"} /\ vn1_i.t = "INV"
           \/ vn1_state \in Evicting /\ vn1_i.t = "PUT_ACK"
    BY <2>1, Taken
  <2>4. vn1_sends \cap Datas # {}
    BY <1>1, <2>2, <2>3
  <2>5. vn1_needs_line /\ vn1_sends # {}
    BY <2>4 DEF vn1_needs_line, Datas
  <2>6. vn1_i.t # "INV" /\ vn1_i.t # "PUT_ACK"
    <3>1. SUFFICES ASSUME vn1_i.t \in {"INV", "PUT_ACK"} PROVE FALSE
      OBVIOUS
    <3>2. PICK t : t = vn1_i.t
      OBVIOUS
    <3>3. Answers(t) \subseteq {"INV_ACK"}
      BY <3>1, <3>2 DEF Answers
    <3>. QED  BY <2>3, <2>4, <3>2, <3>3 DEF Datas
  <2>7. vn1_state \in {"E", "M", "EI_A", "MI_A"}
    BY <2>3, <2>6
  <2>8. StoredLine # l
    BY <1>2, <1>n
  <2>9. V1Took
    BY <1>c, <2>1, <2>5, V1Data
  <2>10. CASE ~vn1_in_mshr
    <3>1. vn1_needs_array
      BY <2>5, <2>10 DEF vn1_needs_array
    <3>2. vn1_way \in HitWays(l) /\ vn1_state = state_q[vn1_way]
      <4>1. HitWays(vn1_i.line) # {}
        BY <2>7, <2>10 DEF vn1_state
      <4>. QED  BY <2>1, <2>10, <4>1, FwdWay
    <3>3. vn1_way \in Way /\ tag_q[vn1_way] = l /\ Arr(l) = vn1_state
      <4>1. vn1_way \in Way /\ tag_q[vn1_way] = l
        BY <3>2 DEF HitWays
      <4>. QED  BY <3>2, <4>1, ArrIs
    <3>4. state_q[vn1_way] \in {"S", "E", "M", "SM_AD", "SM_A"}
      <4>1. state_q[vn1_way] \in ArrayState
        BY <3>3 DEF CacheType
      <4>. QED  BY <2>7, <3>2, <4>1 DEF ArrayState, StableL1, Fetching
    <3>5. LookedUp(vn1_way) = l
      BY <3>3, <3>4, WayData
    <3>6. ~s2.wr /\ ~fill_writes_array
      BY <2>1, <3>1 DEF vn1_take
    <3>7. data'[vn1_way] = Kept(LookedUp(vn1_way))
      BY <1>c, <3>3, <3>6, LookedEdge
    <3>8. data'[vn1_way] = l
      BY <2>8, <3>5, <3>7 DEF Kept
    <3>. QED  BY <2>9, <3>1, <3>8 DEF V1Took
  <2>11. CASE vn1_in_mshr
    <3>1. PICK i : i = vn1_idx
      OBVIOUS
    <3>2. i \in Entry /\ mshr[i].valid /\ mshr[i].line = l /\ mshr[i].is_evict
      BY <2>1, <2>11, <3>1, Indices
    <3>3. i \in EntriesOf(l)
      BY <3>2 DEF EntriesOf
    <3>4. vn1_state = mshr[i].state
      BY <2>1, <3>2, <3>3, FwdLine
    <3>5. mshr[i].state \in {"MI_A", "EI_A"}
      <4>1. HitWays(l) = {}
        BY <3>2, <3>3, FetchedArr
      <4>2. Evicted(l, i, d, p, x, a)
        BY <3>2, <3>3 DEF LineOk
      <4>3. mshr[i].state \in {"I"} \cup Evicting
        BY <4>2 DEF Evicted
      <4>. QED  BY <2>7, <3>4, <4>3 DEF Evicting
    <3>6. home[l].pend # {}
      <4>1. FwdShape(l, d, p) /\ home[l].pend = Answers(d) \cup Sending(l)
        BY DEF LineOk, PendOk
      <4>2. vn1_i = Forward(l, d) /\ d # "NONE"
        <5>1. vn1_i # Forward(l, "PUT_ACK")
          BY <2>6 DEF Forward
        <5>. QED  BY <2>1, <4>1, <5>1 DEF FwdShape
      <4>3. vn1_i.t = d
        BY <4>2 DEF Forward
      <4>. QED  BY <4>1, <4>3, <2>3, <2>5
    <3>7. mshr[i].fresh
      BY <3>2, <3>3, <3>5, <3>6 DEF EntriesFresh
    <3>8. ~vn1_needs_array
      BY <2>11 DEF vn1_needs_array
    <3>. QED  BY <2>1, <2>5, <2>8, <2>9, <2>11, <3>1, <3>7, <3>8 DEF V1Took
  <2>. QED  BY <2>10, <2>11
<1>3. CASE ~T1(l)
  <2>1. Sending(l)' \subseteq Sending(l)
    BY <1>3, SendingTick
  <2>2. Sending(l) \cap Datas # {} /\ Sending(l) # {} /\ v1.sends # {} /\ v1.msg.line = l /\ StoredLine # l
    BY <1>1, <2>1, <1>n DEF Sending
  <2>3. CASE v1.fsm = "READ"
    BY <1>c, <2>2, <2>3, V1Data DEF AnswersFresh
  <2>4. CASE v1.fsm = "SEND"
    BY <1>c, <2>2, <2>4, V1Data DEF AnswersFresh
  <2>. QED  BY <1>v, <2>2, <2>3, <2>4
<1>. QED  BY <1>2, <1>3

\* An owner's write-back carries the latest data after a clock edge.
LEMMA PutFreshTick ==
  ASSUME CacheType, EnvType, Places, LinesOk, StoresWait, tick, NEW l \in Line, NEW d, NEW p, NEW x, NEW a,
         LineOk(l, d, p, x, a), WaysFresh(l), PutFresh(l)
  PROVE  PutFresh(l)'
<1>1. SUFFICES ASSUME req'[l].t = "PUTM", home'[l].us = "X" PROVE req'[l].fresh
  BY DEF PutFresh
<1>2. home[l].us = "X"
  BY <1>1, HomeEdge DEF Told
<1>3. CASE Put1(l)
  <2>1. s1_evict /\ tag_q[s1_victim] = l
    BY <1>3 DEF Put1
  <2>2. state_q[s1_victim] \in {"S", "E", "M"} /\ s1_victim \in Way
    BY <2>1, VictimRests, EvictFacts
  <2>3. LookedUp(s1_victim) = l
    BY <2>1, <2>2, WayData
  <2>. QED  BY <1>3, <2>3, ReqEdge
<1>4. CASE New1(l)
  BY <1>1, <1>4, ReqEdge
<1>5. CASE ~New1(l) /\ ~Put1(l)
  <2>1. req[l].t = "PUTM" /\ (req'[l].fresh <=> req[l].fresh /\ l # StoredLine)
    BY <1>1, <1>5, ReqEdge
  <2>2. StoredLine # l
    BY <2>1, NotStored
  <2>. QED  BY <1>2, <2>1, <2>2 DEF PutFresh
<1>. QED  BY <1>3, <1>4, <1>5

\* While a demand for the data of a line is on its way, or half answered, its home waits for data.
LEMMA DataWaited ==
  ASSUME NEW l, NEW d, d \in {"FWD_GETS", "FWD_GETM"}, PendOk(l, d)
  PROVE  home[l].pend \cap Datas # {}
<1>1. "DATA_OWNER" \in Answers(d)
  BY DEF Answers
<1>. QED  BY <1>1 DEF PendOk, Datas

\* A line whose latest data is the cache's stays so until the data has been sent.
LEMMA DirtyTick ==
  ASSUME CacheType, EnvType, Places, V1Ok, Expected, StoresWait, tick, NEW l \in Line, NEW d \in Dem, NEW p, NEW x, NEW a,
         LineOk(l, d, p, x, a), T2(l) => ~Ret(l), Dirty(l), ~(NextVn2Out.line = l /\ NextVn2Out.t # "INV_ACK")
  PROVE  Dirty(l)'
<1>c. Clock /\ Told(home[l], home'[l], l)
  BY HomeEdge DEF tick
<1>1. CASE home[l].pend \cap Datas # {}
  <2>1. home'[l].pend \cap Datas = home[l].pend \cap Datas
    BY <1>c DEF Told, Datas
  <2>. QED  BY <1>1, <2>1 DEF Dirty
<1>2. CASE req[l].t = "PUTM" /\ home[l].us = "X"
  <2>1. EntriesOf(l) # {}
    <3>1. SUFFICES ASSUME EntriesOf(l) = {} PROVE FALSE
      OBVIOUS
    <3>. QED  BY <1>2, <3>1 DEF LineOk, AtRest
  <2>2. ~New1(l) /\ ~Put1(l)
    BY <2>1, LineEntry
  <2>3. req'[l].t = "PUTM"
    BY <1>2, <2>2, ReqEdge
  <2>. QED  BY <1>2, <1>c, <2>3 DEF Told, Dirty
<1>3. CASE EntriesOf(l) = {} /\ Arr(l) = "M" /\ home[l].pend \cap Datas = {}
  <2>1. Agree(Arr(l), d, home[l].us) /\ ~p /\ PendOk(l, d) /\ FwdShape(l, d, p)
    BY <1>3 DEF LineOk, AtRest
  <2>2. d = "NONE" /\ home[l].us = "X"
    <3>1. d \notin {"FWD_GETS", "FWD_GETM"}
      BY <1>3, <2>1, DataWaited
    <3>. QED  BY <1>3, <2>1, <3>1 DEF Agree
  <2>3. ~T1(l)
    <3>1. SUFFICES ASSUME vn1_take, vn1_i.line = l PROVE FALSE
      BY DEF T1
    <3>. QED  BY <2>1, <2>2, <3>1 DEF FwdShape
  <2>4. ~T2(l) /\ ~Ret(l)
    BY <1>3, OneEvent
  <2>5. ~New1(l)
    <3>1. SUFFICES ASSUME s1_alloc, s1.line = l PROVE FALSE
      BY DEF New1
    <3>2. CASE s1_hit
      <4>1. s1_way \in HitWays(l) /\ state_q[s1_way] = "S" /\ s1_way \in Way
        BY <3>1, <3>2, AllocFacts
      <4>2. Arr(l) = "S"
        BY <4>1, ArrIs
      <4>. QED  BY <1>3, <4>2
    <3>3. CASE ~s1_hit
      <4>1. HitWays(l) = {}
        BY <3>1, <3>3 DEF s1_hit
      <4>. QED  BY <1>3, <4>1 DEF Arr
    <3>. QED  BY <3>2, <3>3
  <2>6. CASE Put1(l)
    <3>1. s1_evict /\ tag_q[s1_victim] = l
      BY <2>6 DEF Put1
    <3>2. state_q[s1_victim] = "M"
      <4>1. s1_victim \in Way /\ s1_victim \in HitWays(l)
        BY <3>1, EvictFacts DEF HitWays
      <4>. QED  BY <1>3, <4>1, ArrIs
    <3>3. req'[l].t = "PUTM"
      BY <2>6, <3>2, ReqEdge DEF PutOf
    <3>. QED  BY <1>c, <2>2, <3>3 DEF Told, Dirty
  <2>7. CASE ~Put1(l)
    <3>1. EntriesOf(l)' = {}
      BY <1>3, <2>5, <2>7, LineEntry
    <3>2. Arr(l)' = ArrNext(l)
      BY <1>c, ArrEdge
    <3>3. ArrNext(l) = "M"
      <4>1. CASE Hit1(l)
        <5>1. s1_event \in {"LOAD", "STORE"} /\ TableNext(Arr(l), s1_event) = CoreNext("M", s1_event)
          BY <1>3, CoreTable DEF s1_event, ArrayState, StableL1, CoreEvent
        <5>. QED  BY <4>1, <5>1 DEF ArrNext, CoreNext
      <4>2. CASE ~Hit1(l)
        BY <1>3, <2>3, <2>4, <2>5, <2>7, <4>2 DEF ArrNext
      <4>. QED  BY <4>1, <4>2
    <3>. QED  BY <3>1, <3>2, <3>3 DEF Dirty
  <2>. QED  BY <2>6, <2>7
<1>. QED  BY <1>1, <1>2, <1>3 DEF Dirty

\* A line that is written is the cache's from then on.
LEMMA StoredDirty ==
  ASSUME CacheType, EnvType, Places, Expected, StoresWait, tick, NEW l \in Line, NEW d \in Dem, NEW p, NEW x, NEW a,
         LineOk(l, d, p, x, a), T2(l) => ~Ret(l), StoredLine = l
  PROVE  Dirty(l)'
<1>c. Clock /\ Arr(l)' = ArrNext(l)
  BY ArrEdge DEF tick
<1>1. /\ Hit1(l) => ~New1(l) /\ ~Put1(l) /\ ~Ret(l) /\ ~T1(l) /\ ~T2(l)
      /\ Ret(l) => ~Hit1(l) /\ ~Put1(l) /\ ~New1(l) /\ ~T1(l)
  BY OneEvent
<1>2. CASE StoreAtS1 /\ Hit1(l) /\ EntriesOf(l) = {} /\ Arr(l) \in {"E", "M"} /\ s1_event = "STORE"
  <2>1. EntriesOf(l)' = {}
    BY <1>1, <1>2, LineEntry
  <2>2. TableNext(Arr(l), s1_event) = "M"
    BY <1>2, CoreTable DEF CoreNext, ArrayState, StableL1, CoreEvent
  <2>3. ArrNext(l) = "M"
    BY <1>2, <2>2 DEF ArrNext
  <2>. QED  BY <1>c, <2>1, <2>3 DEF Dirty
<1>3. CASE Ret(l) /\ ~mshr[retire_idx].is_evict /\ mshr[retire_idx].state = "M"
  <2>1. EntriesOf(l)' = {}
    BY <1>3, LineEntry
  <2>2. ArrNext(l) = "M"
    BY <1>1, <1>3 DEF ArrNext
  <2>. QED  BY <1>c, <2>1, <2>2 DEF Dirty
<1>. QED  BY <1>2, <1>3, StoredIs

\* The home has the latest data of a line that is not dirty, after a clock edge.
LEMMA HomeFreshTick ==
  ASSUME CacheType, EnvType, Places, V1Ok, Expected, StoresWait, tick, NEW l \in Line, NEW d \in Dem, NEW p, NEW x, NEW a,
         LineOk(l, d, p, x, a), T2(l) => ~Ret(l), AnswersFresh(l), HomeFresh(l)
  PROVE  HomeFresh(l)'
<1>1. SUFFICES ASSUME ~Dirty(l)' PROVE home'[l].fresh
  BY DEF HomeFresh
<1>2. PICK h, g : h = home[l] /\ g = home'[l]
  OBVIOUS
<1>3. Told(h, g, l)
  BY <1>2, HomeEdge
<1>4. h \in HomeRec /\ g \in HomeRec
  BY <1>2, <1>3 DEF Told, EnvType
<1>5. CASE NextVn2Out.line = l /\ NextVn2Out.t # "INV_ACK"
  <2>1. NextVn2Out.fresh
    BY <1>5, OutFresh
  <2>2. g.fresh
    BY <1>3, <1>5, <2>1 DEF Told
  <2>. QED  BY <1>2, <2>2
<1>6. CASE ~(NextVn2Out.line = l /\ NextVn2Out.t # "INV_ACK")
  <2>1. ~Dirty(l)
    BY <1>1, <1>6, DirtyTick
  <2>2. StoredLine # l
    BY <1>1, StoredDirty
  <2>3. h.fresh
    BY <1>2, <2>1 DEF HomeFresh
  <2>4. g.fresh
    BY <1>3, <1>6, <2>2, <2>3 DEF Told
  <2>. QED  BY <1>2, <2>4
<1>. QED  BY <1>5, <1>6

\* A response does not land in an entry that is closed.
LEMMA RetLater ==
  ASSUME CacheType, EnvType, Places, Expected, tick, NEW l \in Line, NEW d, NEW p \in BOOLEAN, NEW x, NEW a, LineOk(l, d, p, x, a)
  PROVE  T2(l) => ~Ret(l)
<1>1. FwdShape(l, d, p) /\ RspShape(l, x, a)
  BY DEF LineOk
<1>2. PICK d2 \in {d, "NONE"}, p2 \in BOOLEAN : Past1(l, d, p, d2, p2)
  BY <1>1, FwdShapeTick
<1>3. PICK x2 \in {x, NoMsg}, a2 \in 0 .. 1 : Past2(l, x, a, x2, a2)
  BY <1>1, RspShapeTick
<1>. QED  BY <1>2, <1>3, PhaseTick

\* The line keeps its data in order over a clock edge.
LEMMA FreshLineTick ==
  ASSUME CacheType, EnvType, Places, V1Ok, LinesOk, Expected, StoresWait, tick, NEW l \in Line, FreshLine(l)
  PROVE  FreshLine(l)'
<1>1. PICK d \in Dem, p \in BOOLEAN, x \in rsp[l] \cup {vn2_i, NoMsg}, a \in 0 .. 1 : LineOk(l, d, p, x, a)
  BY DEF LinesOk
<1>2. WaysFresh(l) /\ EntriesFresh(l) /\ RspsFresh(l) /\ AnswersFresh(l) /\ PutFresh(l) /\ HomeFresh(l)
  BY DEF FreshLine
<1>3. T2(l) => ~Ret(l)
  BY <1>1, RetLater
<1>4. WaysFresh(l)'
  BY <1>1, <1>2, WaysFreshTick
<1>5. EntriesFresh(l)'
  BY <1>1, <1>2, <1>3, EntriesFreshTick
<1>6. RspsFresh(l)'
  BY <1>2, RspsFreshTick
<1>7. AnswersFresh(l)'
  BY <1>1, <1>2, AnswersFreshTick
<1>8. PutFresh(l)'
  BY <1>1, <1>2, PutFreshTick
<1>9. HomeFresh(l)'
  BY <1>1, <1>2, <1>3, HomeFreshTick
<1>. QED  BY <1>4, <1>5, <1>6, <1>7, <1>8, <1>9 DEF FreshLine

\* What the core is answered and what goes out is the latest.
LEMMA AnsweredFreshTick ==
  ASSUME CacheType, EnvType, Places, V1Ok, LinesOk, StoresWait, tick, \A l \in Line : FreshLine(l)
  PROVE  AnsweredFresh'
<1>c. Clock /\ core_resp' = NextResp /\ vn2_o' = NextVn2Out
  BY DEF tick, Clock
<1>1. ASSUME NextResp # NoReq PROVE NextResp.fresh
  <2>1. CASE s1_resp
    <3>1. s1.line \in Line /\ WayOf(s1.line) \in HitWays(s1.line) /\ state_q[WayOf(s1.line)] \in {"S", "E", "M", "SM_AD", "SM_A"}
      BY <2>1, RespFacts
    <3>2. PICK l \in Line : l = s1.line
      BY <3>1
    <3>3. WayOf(l) \in Way /\ tag_q[WayOf(l)] = l
      BY <3>1, <3>2 DEF HitWays
    <3>4. WaysFresh(l)
      BY DEF FreshLine
    <3>5. LookedUp(WayOf(l)) = l
      BY <3>1, <3>2, <3>3, <3>4, WayData
    <3>6. NextResp = [line |-> s1.line, id |-> s1.id, fresh |-> TRUE]
      BY <2>1, <3>2, <3>5 DEF NextResp
    <3>. QED  BY <3>6
  <2>2. CASE ~s1_resp
    <3>1. retire_now /\ ~mshr[retire_idx].is_evict
      BY <1>1, <2>2 DEF NextResp
    <3>2. PICK i : i = retire_idx
      OBVIOUS
    <3>3. i \in Entry /\ mshr[i].valid /\ mshr[i].done /\ mshr[i].line \in Line
      BY <3>1, <3>2, Indices DEF Places
    <3>4. PICK l \in Line : l = mshr[i].line
      BY <3>3
    <3>5. i \in EntriesOf(l)
      BY <3>3, <3>4 DEF EntriesOf
    <3>6. PICK d \in Dem, p \in BOOLEAN, x \in rsp[l] \cup {vn2_i, NoMsg}, a \in 0 .. 1 : LineOk(l, d, p, x, a)
      BY DEF LinesOk
    <3>7. Fetched(l, i, d, p, x, a)
      BY <3>1, <3>2, <3>5, <3>6 DEF LineOk
    <3>8. mshr[i].data_valid
      BY <3>3, <3>7 DEF Fetched, Unserved, Served, Finished
    <3>9. EntriesFresh(l)
      BY DEF FreshLine
    <3>10. mshr[i].fresh
      BY <3>1, <3>2, <3>5, <3>8, <3>9 DEF EntriesFresh
    <3>11. NextResp.fresh = mshr[retire_idx].fresh
      BY <2>2, <3>1 DEF NextResp
    <3>. QED  BY <3>2, <3>10, <3>11
  <2>. QED  BY <2>1, <2>2
<1>2. ASSUME NextVn2Out # NoMsg, NextVn2Out.t # "INV_ACK" PROVE NextVn2Out.fresh
  <2>1. v1.fsm = "SEND" /\ NextVn2Out = [line |-> v1.msg.line, t |-> V1Send, fresh |-> Held(v1.msg.line, v1.fresh)]
    BY <1>2, OutType
  <2>2. v1.msg \in FwdMsg
    BY <2>1 DEF V1Ok
  <2>3. PICK l \in Line : l = v1.msg.line
    BY <2>2 DEF FwdMsg
  <2>4. NextVn2Out.line = l
    BY <2>1, <2>3
  <2>5. PICK d \in Dem, p \in BOOLEAN, x \in rsp[l] \cup {vn2_i, NoMsg}, a \in 0 .. 1 : LineOk(l, d, p, x, a)
    BY DEF LinesOk
  <2>6. AnswersFresh(l)
    BY DEF FreshLine
  <2>. QED  BY <1>2, <2>4, <2>5, <2>6, OutFresh
<1>. QED  BY <1>c, <1>1, <1>2 DEF AnsweredFresh

\* Nothing of the cache, nor of what is offered to it, is changed.
Still == UNCHANGED <<cacheVars, inputVars>>

\* What is made of registers that stay stays.
LEMMA StillIs ==
  ASSUME Still, NEW l
  PROVE  /\ HitWays(l)' = HitWays(l) /\ Arr(l)' = Arr(l) /\ EntriesOf(l)' = EntriesOf(l) /\ mshr' = mshr
         /\ Offered2(l)' = Offered2(l) /\ Sending(l)' = Sending(l) /\ v1' = v1 /\ data' = data /\ s2' = s2
<1>. USE DEF Still, cacheVars, inputVars
<1>1. HitWays(l)' = HitWays(l) /\ EntriesOf(l)' = EntriesOf(l)
  BY DEF HitWays, EntriesOf
<1>2. WayOf(l)' = WayOf(l)
  BY <1>1 DEF WayOf, Greatest
<1>3. Arr(l)' = Arr(l)
  BY <1>1, <1>2 DEF Arr
<1>. QED  BY <1>1, <1>3 DEF Offered2, Sending

\* An entry that holds the data of a line given back.
Keeps(l) == \E i \in EntriesOf(l) : mshr[i].is_evict /\ mshr[i].state \in {"MI_A", "EI_A"}

\* The cache's own data stays as it is.
LEMMA CacheFreshStill ==
  ASSUME Still, NEW l, WaysFresh(l), EntriesFresh(l), AnswersFresh(l),
         Keeps(l) /\ (req'[l].t # "NONE" \/ home'[l].pend # {}) => req[l].t # "NONE" \/ home[l].pend # {}
  PROVE  WaysFresh(l)' /\ EntriesFresh(l)' /\ AnswersFresh(l)'
<1>0. /\ HitWays(l)' = HitWays(l) /\ Arr(l)' = Arr(l) /\ EntriesOf(l)' = EntriesOf(l) /\ mshr' = mshr
      /\ Offered2(l)' = Offered2(l) /\ Sending(l)' = Sending(l) /\ v1' = v1 /\ data' = data /\ s2' = s2
  BY StillIs
<1>1. WaysFresh(l)'
  BY <1>0 DEF WaysFresh, HasData, LookedUp
<1>2. EntriesFresh(l)'
  <2>1. SUFFICES ASSUME NEW i \in EntriesOf(l), NEW e, e = mshr[i]
                 PROVE  /\ ~e.is_evict /\ e.data_valid => e.fresh
                        /\ e.is_evict /\ e.state \in {"MI_A", "EI_A"} /\ (req'[l].t # "NONE" \/ home'[l].pend # {}) => e.fresh
    BY <1>0 DEF EntriesFresh
  <2>2. /\ ~e.is_evict /\ e.data_valid => e.fresh
        /\ e.is_evict /\ e.state \in {"MI_A", "EI_A"} /\ (req[l].t # "NONE" \/ home[l].pend # {}) => e.fresh
    BY <2>1 DEF EntriesFresh
  <2>3. e.is_evict /\ e.state \in {"MI_A", "EI_A"} => Keeps(l)
    BY <2>1 DEF Keeps
  <2>. QED  BY <2>2, <2>3
<1>3. AnswersFresh(l)'
  BY <1>0 DEF AnswersFresh
<1>. QED  BY <1>1, <1>2, <1>3

\* Another line that the home and the others do nothing for.
LEMMA FreshStill ==
  ASSUME Still, NEW k, FreshLine(k), req'[k] = req[k], rsp'[k] = rsp[k], home'[k] = home[k]
  PROVE  FreshLine(k)'
<1>0. Arr(k)' = Arr(k) /\ EntriesOf(k)' = EntriesOf(k) /\ Offered2(k)' = Offered2(k)
  BY StillIs
<1>1. WaysFresh(k) /\ EntriesFresh(k) /\ RspsFresh(k) /\ AnswersFresh(k) /\ PutFresh(k) /\ HomeFresh(k)
  BY DEF FreshLine
<1>2. WaysFresh(k)' /\ EntriesFresh(k)' /\ AnswersFresh(k)'
  BY <1>1, CacheFreshStill
<1>3. RspsFresh(k)' /\ PutFresh(k)'
  BY <1>0, <1>1 DEF RspsFresh, PutFresh
<1>4. Dirty(k)' <=> Dirty(k)
  BY <1>0 DEF Dirty
<1>5. HomeFresh(k)'
  BY <1>1, <1>4 DEF HomeFresh
<1>. QED  BY <1>2, <1>3, <1>5 DEF FreshLine

\* What a read or a write is granted has the latest data, since the cache has not.
Granted(l, y) ==
    /\ req[l].t \in {"GETS", "GETM"} /\ home[l].pend = {}
    /\ req'[l].t = "NONE" /\ home'[l].pend = {} /\ home'[l].fresh = home[l].fresh
    /\ rsp'[l] = rsp[l] \cup {y} /\ y.fresh = home[l].fresh

\* A read is granted the home's data.
LEMMA GetsGrants ==
  ASSUME EnvType, NEW l \in Line, serve_gets(l)
  PROVE  Still /\ \E y : Granted(l, y)
<1>1. PICK h : h = home[l]
  OBVIOUS
<1>2. PICK t : t = CASE h.them = "I" -> "DATA_E" [] h.them = "S" -> "DATA_DIR" [] OTHER -> "DATA_OWNER"
  OBVIOUS
<1>3. PICK u, v : u = (IF h.them = "I" THEN "X" ELSE "S") /\ v = (IF h.them = "I" THEN "I" ELSE "S")
  OBVIOUS
<1>4. /\ req[l].t = "GETS" /\ home[l].pend = {} /\ Still
      /\ home' = [home EXCEPT ![l] = [h EXCEPT !.us = u, !.them = v]]
      /\ rsp' = [rsp EXCEPT ![l] = rsp[l] \cup {Data(t, l, 0)}]
      /\ req' = [req EXCEPT ![l] = NoPut]
  BY <1>1, <1>2, <1>3 DEF serve_gets, HomeOnly, Still
<1>5. Data(t, l, 0).fresh = home[l].fresh
  BY DEF Data
<1>6. h \in HomeRec
  BY <1>1 DEF EnvType
<1>7. home'[l] = [h EXCEPT !.us = u, !.them = v]
  BY <1>4 DEF EnvType
<1>8. home'[l].pend = h.pend /\ home'[l].fresh = h.fresh
  BY <1>6, <1>7 DEF HomeRec
<1>9. req'[l].t = "NONE" /\ rsp'[l] = rsp[l] \cup {Data(t, l, 0)}
  BY <1>4 DEF EnvType, NoPut
<1>. QED  BY <1>1, <1>4, <1>5, <1>8, <1>9 DEF Granted

\* A write is granted the home's data.
LEMMA GetmGrants ==
  ASSUME EnvType, NEW l \in Line, serve_getm(l)
  PROVE  Still /\ \E y : Granted(l, y)
<1>1. PICK h : h = home[l]
  OBVIOUS
<1>2. PICK n : n = IF h.them = "S" THEN 1 ELSE 0
  OBVIOUS
<1>3. PICK t : t = IF h.them = "X" THEN "DATA_OWNER" ELSE "DATA_DIR"
  OBVIOUS
<1>4. /\ req[l].t = "GETM" /\ home[l].pend = {} /\ Still
      /\ home' = [home EXCEPT ![l] = [h EXCEPT !.us = "X", !.them = "I", !.acks = n]]
      /\ rsp' = [rsp EXCEPT ![l] = rsp[l] \cup {Data(t, l, n)}]
      /\ req' = [req EXCEPT ![l] = NoPut]
  BY <1>1, <1>2, <1>3 DEF serve_getm, HomeOnly, Still
<1>5. Data(t, l, n).fresh = home[l].fresh
  BY DEF Data
<1>6. h \in HomeRec
  BY <1>1 DEF EnvType
<1>7. home'[l] = [h EXCEPT !.us = "X", !.them = "I", !.acks = n]
  BY <1>4 DEF EnvType
<1>8. home'[l].pend = h.pend /\ home'[l].fresh = h.fresh
  BY <1>6, <1>7 DEF HomeRec
<1>9. req'[l].t = "NONE" /\ rsp'[l] = rsp[l] \cup {Data(t, l, n)}
  BY <1>4 DEF EnvType, NoPut
<1>. QED  BY <1>1, <1>4, <1>5, <1>8, <1>9 DEF Granted

\* A line that is granted has its latest data on the way.
LEMMA FreshGrant ==
  ASSUME Still, NEW l, NEW d, NEW p, NEW x, NEW a, LineOk(l, d, p, x, a), FreshLine(l), NEW y, Granted(l, y)
  PROVE  FreshLine(l)'
<1>0. Arr(l)' = Arr(l) /\ EntriesOf(l)' = EntriesOf(l) /\ Offered2(l)' = Offered2(l)
  BY StillIs
<1>1. WaysFresh(l) /\ EntriesFresh(l) /\ RspsFresh(l) /\ AnswersFresh(l) /\ PutFresh(l) /\ HomeFresh(l)
  BY DEF FreshLine
<1>2. WaysFresh(l)' /\ EntriesFresh(l)' /\ AnswersFresh(l)'
  BY <1>1, CacheFreshStill DEF Granted
<1>3. EntriesOf(l) # {}
  <2>1. SUFFICES ASSUME EntriesOf(l) = {} PROVE FALSE
    OBVIOUS
  <2>. QED  BY <2>1 DEF LineOk, AtRest, Granted
<1>4. ~Dirty(l)
  BY <1>3 DEF Dirty, Granted
<1>5. home[l].fresh
  BY <1>1, <1>4 DEF HomeFresh
<1>6. RspsFresh(l)'
  BY <1>0, <1>1, <1>5 DEF RspsFresh, Granted
<1>7. PutFresh(l)' /\ HomeFresh(l)'
  BY <1>5 DEF PutFresh, HomeFresh, Granted
<1>. QED  BY <1>2, <1>6, <1>7 DEF FreshLine

\* A line whose Put is served has its latest data with the home, where the owner gave it back.
LEMMA FreshPut ==
  ASSUME EnvType, NEW l \in Line, serve_put(l), NEW d, NEW p, NEW x, NEW a, LineOk(l, d, p, x, a), FreshLine(l)
  PROVE  FreshLine(l)'
<1>s. Still
  BY DEF serve_put, HomeOnly, Still
<1>0. Arr(l)' = Arr(l) /\ EntriesOf(l)' = EntriesOf(l) /\ Offered2(l)' = Offered2(l)
  BY <1>s, StillIs
<1>1. WaysFresh(l) /\ EntriesFresh(l) /\ RspsFresh(l) /\ AnswersFresh(l) /\ PutFresh(l) /\ HomeFresh(l)
  BY DEF FreshLine
<1>2. PICK h : h = home[l]
  OBVIOUS
<1>3. PICK u, f : /\ u = IF h.us = "X" /\ req[l].t = "PUTS" THEN h.us ELSE "I"
                  /\ f = IF h.us = "X" /\ req[l].t = "PUTM" THEN req[l].fresh ELSE h.fresh
  OBVIOUS
<1>4. /\ req[l].t \in {"PUTS", "PUTE", "PUTM"}
      /\ home' = [home EXCEPT ![l].us = u, ![l].fresh = f]
      /\ rsp' = rsp /\ req' = [req EXCEPT ![l] = NoPut]
  BY <1>2, <1>3 DEF serve_put, HomeOnly
<1>5. h \in HomeRec /\ home'[l] = [h EXCEPT !.us = u, !.fresh = f]
  BY <1>2, <1>4 DEF EnvType
<1>6. home'[l].pend = h.pend /\ home'[l].fresh = f
  BY <1>5 DEF HomeRec
<1>7. req'[l].t = "NONE"
  BY <1>4 DEF EnvType, NoPut
<1>8. WaysFresh(l)' /\ EntriesFresh(l)' /\ AnswersFresh(l)'
  BY <1>s, <1>1, <1>2, <1>4, <1>6, <1>7, CacheFreshStill
<1>9. RspsFresh(l)' /\ PutFresh(l)'
  BY <1>0, <1>1, <1>4, <1>7 DEF RspsFresh, PutFresh
<1>10. HomeFresh(l)'
  <2>1. SUFFICES ASSUME ~Dirty(l)' PROVE f
    BY <1>6 DEF HomeFresh
  <2>2. CASE h.us = "X" /\ req[l].t = "PUTM"
    BY <1>1, <1>2, <1>3, <2>2 DEF PutFresh
  <2>3. CASE ~(h.us = "X" /\ req[l].t = "PUTM")
    <3>1. EntriesOf(l) # {}
      <4>1. SUFFICES ASSUME EntriesOf(l) = {} PROVE FALSE
        OBVIOUS
      <4>. QED  BY <1>4, <4>1 DEF LineOk, AtRest
    <3>2. ~Dirty(l)
      BY <1>2, <1>6, <2>1, <2>3, <3>1 DEF Dirty
    <3>3. h.fresh
      BY <1>1, <1>2, <3>2 DEF HomeFresh
    <3>. QED  BY <1>3, <2>3, <3>3
  <2>. QED  BY <2>2, <2>3
<1>. QED  BY <1>8, <1>9, <1>10 DEF FreshLine

\* An acknowledgement carries no data.
LEMMA FreshAck ==
  ASSUME EnvType, NEW l \in Line, sharer_acks(l), FreshLine(l)
  PROVE  FreshLine(l)'
<1>s. Still
  BY DEF sharer_acks, Still
<1>0. Arr(l)' = Arr(l) /\ EntriesOf(l)' = EntriesOf(l) /\ Offered2(l)' = Offered2(l)
  BY <1>s, StillIs
<1>1. WaysFresh(l) /\ EntriesFresh(l) /\ RspsFresh(l) /\ AnswersFresh(l) /\ PutFresh(l) /\ HomeFresh(l)
  BY DEF FreshLine
<1>2. PICK h : h = home[l]
  OBVIOUS
<1>3. PICK n : n = h.acks - 1
  OBVIOUS
<1>4. home' = [home EXCEPT ![l].acks = n] /\ rsp' = [rsp EXCEPT ![l] = rsp[l] \cup {InvAck(l)}] /\ req' = req
  BY <1>2, <1>3 DEF sharer_acks
<1>5. h \in HomeRec /\ home'[l] = [h EXCEPT !.acks = n]
  BY <1>2, <1>4 DEF EnvType
<1>6. home'[l].pend = h.pend /\ home'[l].fresh = h.fresh /\ home'[l].us = h.us
  BY <1>5 DEF HomeRec
<1>7. rsp'[l] = rsp[l] \cup {InvAck(l)} /\ InvAck(l).t = "INV_ACK"
  BY <1>4 DEF EnvType, InvAck
<1>8. WaysFresh(l)' /\ EntriesFresh(l)' /\ AnswersFresh(l)'
  BY <1>s, <1>1, <1>2, <1>4, <1>6, CacheFreshStill
<1>9. RspsFresh(l)' /\ PutFresh(l)'
  BY <1>0, <1>1, <1>2, <1>4, <1>6, <1>7 DEF RspsFresh, PutFresh
<1>10. HomeFresh(l)'
  <2>1. Dirty(l)' <=> Dirty(l)
    BY <1>0, <1>2, <1>4, <1>6 DEF Dirty
  <2>. QED  BY <1>1, <1>2, <1>6, <2>1 DEF HomeFresh
<1>. QED  BY <1>8, <1>9, <1>10 DEF FreshLine

\* A line that another asks for is dirty until its data has been sent.
LEMMA FreshAsk ==
  ASSUME EnvType, CacheType, Places, NEW l \in Line, NEW t \in {"GETS", "GETM"}, other_asks(l, t), NEW d \in Dem, NEW p, NEW x, NEW a,
         LineOk(l, d, p, x, a), FreshLine(l)
  PROVE  FreshLine(l)'
<1>s. Still
  BY DEF other_asks, Still
<1>0. Arr(l)' = Arr(l) /\ EntriesOf(l)' = EntriesOf(l) /\ Offered2(l)' = Offered2(l)
  BY <1>s, StillIs
<1>1. WaysFresh(l) /\ EntriesFresh(l) /\ RspsFresh(l) /\ AnswersFresh(l) /\ PutFresh(l) /\ HomeFresh(l)
  BY DEF FreshLine
<1>2. PICK u, e : AskDone(l, t, u, e)
  BY AskIs
<1>3. home'[l].fresh = home[l].fresh
  <2>1. PICK h : h = home[l]
    OBVIOUS
  <2>2. PICK v, w, q : home' = [home EXCEPT ![l] = [h EXCEPT !.us = v, !.them = w, !.pend = q]]
    BY <2>1 DEF other_asks
  <2>3. h \in HomeRec /\ home'[l] = [h EXCEPT !.us = v, !.them = w, !.pend = q]
    BY <2>1, <2>2 DEF EnvType
  <2>. QED  BY <2>1, <2>3 DEF HomeRec
<1>4. /\ home[l].pend = {} /\ home[l].us = u /\ req'[l] = req[l] /\ rsp'[l] = rsp[l] /\ u \in {"I", "S", "X"}
      /\ e = Demand(t, u) /\ home'[l].us = LeftUs(t, u) /\ home'[l].pend = Answers(e)
  BY <1>2 DEF AskDone
<1>5. d = "NONE" /\ Sending(l) = {}
  BY <1>4, NoneWaited DEF LineOk
<1>6. u = "I" => home'[l].pend = {}
  BY <1>4 DEF Demand, Answers
<1>7. Keeps(l) /\ req[l].t = "NONE" => u = "I"
  <2>1. SUFFICES ASSUME NEW i \in EntriesOf(l), mshr[i].is_evict, mshr[i].state \in {"MI_A", "EI_A"}, req[l].t = "NONE" PROVE u = "I"
    BY DEF Keeps
  <2>2. Evicted(l, i, d, p, x, a)
    BY <2>1 DEF LineOk
  <2>. QED  BY <1>4, <2>1, <2>2 DEF Evicted
<1>8. WaysFresh(l)' /\ EntriesFresh(l)' /\ AnswersFresh(l)'
  BY <1>s, <1>1, <1>4, <1>6, <1>7, CacheFreshStill
<1>9. RspsFresh(l)'
  BY <1>0, <1>1, <1>4 DEF RspsFresh
<1>10. PutFresh(l)'
  <2>1. LeftUs(t, u) # "X"
    BY DEF LeftUs
  <2>. QED  BY <1>4, <2>1 DEF PutFresh
<1>11. Dirty(l) => Dirty(l)'
  <2>1. CASE EntriesOf(l) = {} /\ Arr(l) = "M"
    BY <1>0, <2>1 DEF Dirty
  <2>2. CASE req[l].t = "PUTM" /\ home[l].us = "X"
    <3>1. e \in {"FWD_GETS", "FWD_GETM"}
      BY <1>4, <2>2 DEF Demand
    <3>2. "DATA_OWNER" \in Answers(e)
      BY <3>1 DEF Answers
    <3>. QED  BY <1>4, <3>2 DEF Dirty, Datas
  <2>. QED  BY <1>4, <2>1, <2>2 DEF Dirty
<1>12. HomeFresh(l)'
  BY <1>1, <1>3, <1>11 DEF HomeFresh
<1>. QED  BY <1>8, <1>9, <1>10, <1>12 DEF FreshLine

\* The others leave the latest data with the home.
LEMMA FreshDrop ==
  ASSUME EnvType, NEW l \in Line, other_drops(l), FreshLine(l)
  PROVE  FreshLine(l)'
<1>s. Still
  BY DEF other_drops, Still
<1>0. Arr(l)' = Arr(l) /\ EntriesOf(l)' = EntriesOf(l) /\ Offered2(l)' = Offered2(l)
  BY <1>s, StillIs
<1>1. WaysFresh(l) /\ EntriesFresh(l) /\ RspsFresh(l) /\ AnswersFresh(l) /\ PutFresh(l) /\ HomeFresh(l)
  BY DEF FreshLine
<1>2. PICK h : h = home[l]
  OBVIOUS
<1>3. home' = [home EXCEPT ![l].them = "I"] /\ rsp' = rsp /\ req' = req
  BY DEF other_drops
<1>4. h \in HomeRec /\ home'[l] = [h EXCEPT !.them = "I"]
  BY <1>2, <1>3 DEF EnvType
<1>5. home'[l].pend = h.pend /\ home'[l].fresh = h.fresh /\ home'[l].us = h.us
  BY <1>4 DEF HomeRec
<1>6. WaysFresh(l)' /\ EntriesFresh(l)' /\ AnswersFresh(l)'
  BY <1>s, <1>1, <1>2, <1>3, <1>5, CacheFreshStill
<1>7. RspsFresh(l)' /\ PutFresh(l)'
  BY <1>0, <1>1, <1>2, <1>3, <1>5 DEF RspsFresh, PutFresh
<1>8. HomeFresh(l)'
  <2>1. Dirty(l)' <=> Dirty(l)
    BY <1>0, <1>2, <1>3, <1>5 DEF Dirty
  <2>. QED  BY <1>1, <1>2, <1>5, <2>1 DEF HomeFresh
<1>. QED  BY <1>6, <1>7, <1>8 DEF FreshLine

\* A line another owns has no data in the cache that is read again.
LEMMA FreshWritten ==
  ASSUME CacheType, EnvType, Places, OthersOk, NEW l \in Line, other_writes(l), NEW d \in Dem, NEW p, NEW x, NEW a, LineOk(l, d, p, x, a)
  PROVE  FreshLine(l)'
<1>1. home[l].them = "X" /\ home[l].pend = {} /\ home' = [home EXCEPT ![l].fresh = TRUE]
  BY DEF other_writes
<1>2. home[l].us = "I"
  BY <1>1 DEF OthersOk, EnvType, HomeRec
<1>3. rsp[l] \cup Offered2(l) = {} /\ d = "NONE" /\ Sending(l) = {}
  BY <1>1, <1>2, NothingOwed
<1>q. Quiet
  BY WrittenIs
<1>4. /\ Arr(l)' = Arr(l) /\ EntriesOf(l)' = EntriesOf(l) /\ Offered2(l)' = Offered2(l) /\ Sending(l)' = Sending(l)
      /\ \A i \in EntriesOf(l) : SameKin(mshr[i], mshr'[i])
  BY <1>q, CacheQuiet DEF SameCache
<1>5. home'[l].us = "I" /\ home'[l].pend = {} /\ home'[l].fresh
  <2>1. PICK h : h = home[l]
    OBVIOUS
  <2>2. h \in HomeRec /\ home'[l] = [h EXCEPT !.fresh = TRUE]
    BY <1>1, <2>1 DEF EnvType
  <2>. QED  BY <1>1, <1>2, <2>1, <2>2 DEF HomeRec
<1>6. rsp'[l] = {}
  BY <1>3 DEF other_writes, EnvType
<1>7. \A i \in EntriesOf(l) : ~mshr[i].is_evict => ~mshr[i].data_valid /\ Arr(l) \in {"IS_D", "IM_AD"}
  <2>1. SUFFICES ASSUME NEW i \in EntriesOf(l), ~mshr[i].is_evict PROVE ~mshr[i].data_valid /\ Arr(l) \in {"IS_D", "IM_AD"}
    OBVIOUS
  <2>2. Fetched(l, i, d, p, x, a) /\ RspShape(l, x, a)
    BY <2>1 DEF LineOk
  <2>3. x = NoMsg
    BY <1>3, <2>2 DEF RspShape
  <2>4. ~Served(l, i, d, x, a)
    BY <1>2, <1>3, <2>3 DEF Served, Agree
  <2>5. ~Finished(l, i, d, x, a)
    BY <1>2, <1>3 DEF Finished, Agree
  <2>6. Unserved(l, i, d, x, a)
    BY <2>2, <2>4, <2>5 DEF Fetched
  <2>. QED  BY <1>2, <1>3, <2>6 DEF Unserved, Agree
<1>8. \A i \in EntriesOf(l) : mshr[i].is_evict /\ mshr[i].state \in {"MI_A", "EI_A"} => req[l].t = "NONE"
  <2>1. SUFFICES ASSUME NEW i \in EntriesOf(l), mshr[i].is_evict, mshr[i].state \in {"MI_A", "EI_A"} PROVE req[l].t = "NONE"
    OBVIOUS
  <2>2. Evicted(l, i, d, p, x, a)
    BY <2>1 DEF LineOk
  <2>3. EvictedFrom(mshr[i].state) \in {"E", "M"}
    BY <2>1 DEF EvictedFrom
  <2>. QED  BY <1>2, <1>3, <2>1, <2>2, <2>3 DEF Evicted, Agree
<1>9. req'[l].t = req[l].t
  BY DEF other_writes, EnvType
<1>10. ~HasData(l)
  <2>1. CASE EntriesOf(l) = {}
    <3>1. Agree(Arr(l), d, home[l].us)
      BY <2>1 DEF LineOk, AtRest
    <3>. QED  BY <1>2, <1>3, <3>1 DEF Agree, HasData
  <2>2. CASE \E i \in EntriesOf(l) : ~mshr[i].is_evict
    BY <1>7, <2>2 DEF HasData
  <2>3. CASE \E i \in EntriesOf(l) : mshr[i].is_evict
    BY <2>3, FetchedArr DEF HasData
  <2>. QED  BY <2>1, <2>2, <2>3
<1>11. WaysFresh(l)'
  BY <1>4, <1>10 DEF WaysFresh, HasData
<1>12. EntriesFresh(l)'
  <2>1. SUFFICES ASSUME NEW i \in EntriesOf(l), NEW e, NEW e2, e = mshr[i], e2 = mshr'[i]
                 PROVE  /\ ~e2.is_evict /\ e2.data_valid => e2.fresh
                        /\ e2.is_evict /\ e2.state \in {"MI_A", "EI_A"} /\ (req'[l].t # "NONE" \/ home'[l].pend # {}) => e2.fresh
    BY <1>4 DEF EntriesFresh
  <2>2. SameKin(e, e2)
    BY <1>4, <2>1
  <2>3. /\ ~e.is_evict => ~e.data_valid
        /\ e.is_evict /\ e.state \in {"MI_A", "EI_A"} => req[l].t = "NONE"
    BY <1>7, <1>8, <2>1
  <2>. QED  BY <1>5, <1>9, <2>2, <2>3 DEF SameKin
<1>13. RspsFresh(l)' /\ AnswersFresh(l)' /\ PutFresh(l)' /\ HomeFresh(l)'
  BY <1>3, <1>4, <1>5, <1>6 DEF RspsFresh, AnswersFresh, PutFresh, HomeFresh
<1>. QED  BY <1>11, <1>12, <1>13 DEF FreshLine

\* The other lines' data is not touched.
LEMMA FreshBeside ==
  ASSUME CacheType, EnvType, NEW l \in Line, other_writes(l), NEW k \in Line, k # l, FreshLine(k), Else(l)
  PROVE  FreshLine(k)'
<1>1. WaysFresh(k) /\ EntriesFresh(k) /\ RspsFresh(k) /\ AnswersFresh(k) /\ PutFresh(k) /\ HomeFresh(k)
  BY DEF FreshLine
<1>w. /\ Quiet
      /\ data' = [w \in Way |-> IF data[w] = l THEN NoLine ELSE data[w]]
      /\ \A i \in Entry : mshr'[i].fresh <=> mshr[i].fresh /\ mshr[i].line # l
      /\ s2'.wr = s2.wr /\ s2'.way = s2.way /\ s2'.data = (IF s2.data = l THEN NoLine ELSE s2.data)
      /\ v1'.fresh <=> v1.fresh /\ v1.msg.line # l
  BY WrittenIs
<1>2. /\ Arr(k)' = Arr(k) /\ EntriesOf(k)' = EntriesOf(k) /\ Offered2(k)' = Offered2(k) /\ Sending(k)' = Sending(k)
      /\ \A i \in EntriesOf(k) : SameKin(mshr[i], mshr'[i])
  BY <1>w, CacheQuiet DEF SameCache
<1>3. HitWays(k)' = HitWays(k)
  BY <1>w, HitQuiet
<1>4. req'[k] = req[k] /\ rsp'[k] = rsp[k] /\ home'[k] = home[k]
  BY DEF Else
<1>5. WaysFresh(k)'
  <2>1. SUFFICES ASSUME HasData(k), NEW w \in HitWays(k) PROVE LookedUp(w)' = k
    BY <1>2, <1>3 DEF WaysFresh, HasData
  <2>2. LookedUp(w) = k /\ w \in Way
    BY <1>1, <2>1 DEF WaysFresh, HitWays
  <2>. QED  BY <1>w, <2>2 DEF LookedUp
<1>6. EntriesFresh(k)'
  <2>1. SUFFICES ASSUME NEW i \in EntriesOf(k), NEW e, NEW e2, e = mshr[i], e2 = mshr'[i]
                 PROVE  /\ ~e2.is_evict /\ e2.data_valid => e2.fresh
                        /\ e2.is_evict /\ e2.state \in {"MI_A", "EI_A"} /\ (req[k].t # "NONE" \/ home[k].pend # {}) => e2.fresh
    BY <1>2, <1>4 DEF EntriesFresh
  <2>2. SameKin(e, e2)
    BY <1>2, <2>1
  <2>3. e.fresh => e2.fresh
    <3>1. i \in Entry /\ mshr[i].line = k
      BY <2>1 DEF EntriesOf
    <3>. QED  BY <1>w, <2>1, <3>1
  <2>4. /\ ~e.is_evict /\ e.data_valid => e.fresh
        /\ e.is_evict /\ e.state \in {"MI_A", "EI_A"} /\ (req[k].t # "NONE" \/ home[k].pend # {}) => e.fresh
    BY <1>1, <2>1 DEF EntriesFresh
  <2>. QED  BY <2>2, <2>3, <2>4 DEF SameKin
<1>7. AnswersFresh(k)'
  <2>1. SUFFICES ASSUME Sending(k) \cap Datas # {}
                 PROVE  (v1'.fsm = "READ" => data'[v1'.way] = k) /\ (v1'.fsm # "READ" => v1'.fresh)
    BY <1>2 DEF AnswersFresh
  <2>2. v1.msg.line = k
    BY <2>1 DEF Sending
  <2>3. v1'.fsm = v1.fsm /\ v1'.way = v1.way /\ v1.way \in Way
    BY <1>w DEF Quiet, CacheType, V1Rec
  <2>4. (v1.fsm = "READ" => data[v1.way] = k) /\ (v1.fsm # "READ" => v1.fresh)
    BY <1>1, <2>1 DEF AnswersFresh
  <2>. QED  BY <1>w, <2>2, <2>3, <2>4
<1>8. RspsFresh(k)' /\ PutFresh(k)'
  BY <1>1, <1>2, <1>4 DEF RspsFresh, PutFresh
<1>9. Dirty(k)' <=> Dirty(k)
  BY <1>2, <1>4 DEF Dirty
<1>10. HomeFresh(k)'
  BY <1>1, <1>4, <1>9 DEF HomeFresh
<1>. QED  BY <1>5, <1>6, <1>7, <1>8, <1>10 DEF FreshLine

\* Every line keeps its data in order whatever the home and the others do for one of them.
LEMMA FreshOutside ==
  ASSUME CacheType, EnvType, Places, LinesOk, OthersOk, NEW l \in Line, Outside(l), NEW k \in Line, FreshLine(k)
  PROVE  FreshLine(k)'
<1>1. Else(l)
  BY ElseOutside
<1>2. CASE k # l
  <2>1. CASE other_writes(l)
    BY <1>1, <1>2, <2>1, FreshBeside
  <2>2. CASE ~other_writes(l)
    <3>1. Still
      BY <2>2 DEF Outside, Still, serve_gets, serve_getm, serve_put, HomeOnly, sharer_acks, other_asks, other_drops
    <3>. QED  BY <1>1, <1>2, <3>1, FreshStill DEF Else
  <2>. QED  BY <2>1, <2>2
<1>3. CASE k = l
  <2>0. PICK d \in Dem, p \in BOOLEAN, x \in rsp[l] \cup {vn2_i, NoMsg}, a \in 0 .. 1 : LineOk(l, d, p, x, a)
    BY DEF LinesOk
  <2>f. FreshLine(l)
    BY <1>3
  <2>1. CASE serve_gets(l)
    BY <1>3, <2>0, <2>f, <2>1, GetsGrants, FreshGrant
  <2>2. CASE serve_getm(l)
    BY <1>3, <2>0, <2>f, <2>2, GetmGrants, FreshGrant
  <2>3. CASE serve_put(l)
    BY <1>3, <2>0, <2>f, <2>3, FreshPut
  <2>4. CASE sharer_acks(l)
    BY <1>3, <2>0, <2>f, <2>4, FreshAck
  <2>5. CASE other_asks(l, "GETS")
    BY <1>3, <2>0, <2>f, <2>5, FreshAsk
  <2>6. CASE other_asks(l, "GETM")
    BY <1>3, <2>0, <2>f, <2>6, FreshAsk
  <2>7. CASE other_writes(l)
    BY <1>3, <2>0, <2>7, FreshWritten
  <2>8. CASE other_drops(l)
    BY <1>3, <2>f, <2>8, FreshDrop
  <2>. QED  BY <2>1, <2>2, <2>3, <2>4, <2>5, <2>6, <2>7, <2>8 DEF Outside
<1>. QED  BY <1>2, <1>3

---------------------------------------------------------------------------
(* The theorems *)

\* What the theorems rest on: where lines and requests are, what a line and its home
\* have in common, and where the latest data is.
IInv ==
    /\ CacheType /\ EnvType /\ Places /\ Requested /\ V1Ok
    /\ LinesOk /\ OthersOk /\ EntriesSound /\ StoresWait
    /\ (\A l \in Line : FreshLine(l)) /\ AnsweredFresh

\* What the cache has at first.
LEMMA AtFirst ==
  ASSUME Init
  PROVE  /\ state_q = [w \in Way |-> "I"] /\ tag_q = [w \in Way |-> NoLine] /\ data = [w \in Way |-> NoLine]
         /\ mshr = [i \in Entry |-> FreeEntry] /\ s1 = NoReq /\ rpl = NoReq /\ s2 = NoWrite /\ v1 = IdleV1
         /\ core_resp = NoReq /\ vn2_o = NoMsg /\ core_i = NoReq /\ vn1_i = NoMsg /\ vn2_i = NoMsg /\ waiting = {}
         /\ \A w \in Way : state_q[w] = "I"
         /\ \A i \in Entry : mshr[i] = FreeEntry
         /\ \A l \in Line : req[l] = NoPut /\ fwd[l] = <<>> /\ rsp[l] = {} /\ home[l] = NewHome /\ l # NoLine
         /\ \A l \in Line : HitWays(l) = {} /\ EntriesOf(l) = {} /\ Arr(l) = "I" /\ Offered2(l) = {} /\ Sending(l) = {}
<1>1. /\ state_q = [w \in Way |-> "I"] /\ tag_q = [w \in Way |-> NoLine] /\ data = [w \in Way |-> NoLine]
      /\ mshr = [i \in Entry |-> FreeEntry] /\ s1 = NoReq /\ rpl = NoReq /\ s2 = NoWrite /\ v1 = IdleV1
      /\ core_resp = NoReq /\ vn2_o = NoMsg /\ core_i = NoReq /\ vn1_i = NoMsg /\ vn2_i = NoMsg /\ waiting = {}
      /\ \A l \in Line : req[l] = NoPut /\ fwd[l] = <<>> /\ rsp[l] = {} /\ home[l] = NewHome /\ l # NoLine
  BY PipelineShape DEF Init, CacheInit
<1>2. (\A w \in Way : state_q[w] = "I") /\ \A i \in Entry : mshr[i] = FreeEntry
  BY <1>1
<1>3. \A l \in Line : HitWays(l) = {} /\ EntriesOf(l) = {}
  BY <1>2 DEF HitWays, EntriesOf, FreeEntry
<1>4. \A l \in Line : Arr(l) = "I" /\ Offered2(l) = {} /\ Sending(l) = {}
  BY <1>1, <1>3 DEF Arr, Offered2, Sending, IdleV1
<1>. QED  BY <1>1, <1>2, <1>3, <1>4

\* Registers have their types at first.
LEMMA TypesFirst ==
  ASSUME Init
  PROVE  CacheType /\ EnvType
<1>1. FreeEntry \in EntryRec
  BY FreeType
<1>2. CacheType
  <2>1. state_q \in [Way -> ArrayState] /\ tag_q \in [Way -> Line \cup {NoLine}] /\ data \in [Way -> Line \cup {NoLine}]
    BY AtFirst DEF ArrayState, StableL1
  <2>2. plru_q \in Way /\ retire_ptr \in Entry
    BY PipelineShape DEF Init, CacheInit, Way, Entry
  <2>3. mshr \in [Entry -> EntryRec]
    BY <1>1, AtFirst
  <2>0. s2 = NoWrite /\ v1 = IdleV1 /\ s1 = NoReq /\ rpl = NoReq
    BY AtFirst
  <2>4. s2 \in [wr : BOOLEAN, way : Way, data : Line \cup {NoLine}] /\ s1 = NoReq /\ rpl = NoReq
    BY <2>0 DEF NoWrite, Way
  <2>5. v1 \in V1Rec
    BY <2>0 DEF IdleV1, V1Rec, Way
  <2>. QED  BY <2>1, <2>2, <2>3, <2>4, <2>5 DEF CacheType
<1>3. EnvType
  <2>1. load \in Workloads /\ core_i = NoReq /\ vn1_i = NoMsg /\ vn2_i = NoMsg
    BY DEF Init
  <2>2. NewHome \in HomeRec /\ NoPut \in [t : ReqType \cup {"NONE"}, fresh : BOOLEAN]
    BY DEF NewHome, HomeRec, NoPut
  <2>3. req \in [Line -> [t : ReqType \cup {"NONE"}, fresh : BOOLEAN]] /\ home \in [Line -> HomeRec]
    BY <2>2 DEF Init
  <2>4. <<>> \in Seq(FwdMsg) /\ \A l \in Line : <<>> \in Seq(FwdOf(l))
    OBVIOUS
  <2>5. fwd \in [Line -> Seq(FwdMsg)] /\ \A l \in Line : fwd[l] \in Seq(FwdOf(l))
    BY <2>4 DEF Init
  <2>6. rsp \in [Line -> SUBSET RspMsg] /\ \A l \in Line : rsp[l] \subseteq RspOf(l)
    BY DEF Init
  <2>. QED  BY <2>1, <2>3, <2>5, <2>6 DEF EnvType
<1>. QED  BY <1>2, <1>3

\* No line and no request is anywhere at first.
LEMMA PlacesFirst ==
  ASSUME Init
  PROVE  Places /\ Requested /\ V1Ok /\ EntriesSound /\ StoresWait
<1>1. /\ ~FreeEntry.valid /\ FreeEntry.req = NoReq /\ FreeEntry.state = "I" /\ FreeEntry.ack_cnt = 0
  BY DEF FreeEntry
<1>2. Places
  BY <1>1, AtFirst DEF Places
<1>3. Requested
  BY <1>1, AtFirst DEF Requested, HeldBy, Has, HasEntry
<1>4. V1Ok
  BY AtFirst DEF V1Ok, IdleV1
<1>5. EntriesSound /\ StoresWait
  BY <1>1, AtFirst DEF EntriesSound, StoresWait, Live, StableL1
<1>. QED  BY <1>2, <1>3, <1>4, <1>5

\* Every line is with nobody at first.
LEMMA LinesFirst ==
  ASSUME Init
  PROVE  LinesOk /\ OthersOk
<1>1. ASSUME NEW l \in Line PROVE LineOk(l, "NONE", FALSE, NoMsg, 0)
  <2>1. FwdShape(l, "NONE", FALSE)
    <3>1. vn1_i.line # l
      BY <1>1, AtFirst DEF NoMsg
    <3>2. fwd[l] = <<>> /\ Queue(l, "NONE", FALSE) = <<>>
      BY <1>1, AtFirst DEF Queue
    <3>. QED  BY <3>1, <3>2 DEF FwdShape
  <2>2. RspShape(l, NoMsg, 0)
    BY <1>1, AtFirst DEF RspShape
  <2>3. home[l] = NewHome /\ Sending(l) = {} /\ EntriesOf(l) = {} /\ Arr(l) = "I" /\ req[l] = NoPut
    BY <1>1, AtFirst
  <2>4. PendOk(l, "NONE") /\ Calm(l)
    BY <2>3 DEF PendOk, Answers, NewHome, Calm
  <2>5. AtRest(l, "NONE", FALSE, NoMsg, 0)
    BY <2>3 DEF AtRest, None, Agree, NewHome, NoPut
  <2>. QED  BY <2>1, <2>2, <2>3, <2>4, <2>5 DEF LineOk
<1>2. LinesOk
  <2>1. SUFFICES ASSUME NEW l \in Line
                 PROVE  \E d \in Dem, p \in BOOLEAN, x \in rsp[l] \cup {vn2_i, NoMsg}, a \in 0 .. 1 : LineOk(l, d, p, x, a)
    BY DEF LinesOk
  <2>2. "NONE" \in Dem /\ FALSE \in BOOLEAN /\ NoMsg \in rsp[l] \cup {vn2_i, NoMsg} /\ 0 \in 0 .. 1
    BY DEF Dem
  <2>3. LineOk(l, "NONE", FALSE, NoMsg, 0)
    BY <1>1
  <2>. QED  BY <2>2, <2>3
<1>3. OthersOk
  BY AtFirst DEF OthersOk, NewHome
<1>. QED  BY <1>2, <1>3

\* The homes have the latest data at first.
LEMMA FreshFirst ==
  ASSUME Init
  PROVE  (\A l \in Line : FreshLine(l)) /\ AnsweredFresh
<1>1. ASSUME NEW l \in Line PROVE FreshLine(l)
  <2>1. /\ HitWays(l) = {} /\ EntriesOf(l) = {} /\ Arr(l) = "I" /\ Offered2(l) = {} /\ Sending(l) = {} /\ rsp[l] = {}
        /\ req[l] = NoPut /\ home[l] = NewHome
    BY <1>1, AtFirst
  <2>2. req[l].t = "NONE" /\ home[l].fresh
    BY <2>1 DEF NoPut, NewHome
  <2>. QED  BY <2>1, <2>2 DEF FreshLine, WaysFresh, HasData, EntriesFresh, RspsFresh, AnswersFresh, PutFresh, HomeFresh
<1>2. AnsweredFresh
  BY AtFirst DEF AnsweredFresh
<1>. QED  BY <1>1, <1>2

\* The invariant holds at first.
LEMMA IInvFirst ==
  ASSUME Init
  PROVE  IInv
BY TypesFirst, PlacesFirst, LinesFirst, FreshFirst DEF IInv

\* Fetches have the states of lines in the array.
LEMMA FetchState ==
  ASSUME Places
  PROVE  \A i \in Entry : mshr[i].valid /\ ~mshr[i].is_evict => mshr[i].state \in ArrayState
BY DEF Places

\* A clock edge keeps the invariant.
LEMMA IInvTick ==
  ASSUME IInv, tick
  PROVE  IInv'
<1>0. /\ CacheType /\ EnvType /\ Places /\ Requested /\ V1Ok /\ LinesOk /\ OthersOk /\ EntriesSound /\ StoresWait
      /\ (\A l \in Line : FreshLine(l)) /\ AnsweredFresh
  BY DEF IInv
<1>c. Clock
  BY DEF tick
<1>x. Expected
  BY <1>0, ExpectedHere
<1>1. CacheType'
  BY <1>0, <1>c, FetchState, CacheTypeTick
<1>2. EnvType'
  BY <1>0, EnvTypeTick
<1>3. Places'
  BY <1>0, <1>c, PlacesTick
<1>4. Requested'
  BY <1>0, RequestedTick
<1>5. V1Ok'
  BY <1>0, <1>c, V1OkTick
<1>6. LinesOk'
  BY <1>0, LinesTick
<1>7. OthersOk'
  BY <1>0, OthersTick
<1>8. EntriesSound'
  BY <1>0, <1>1, <1>3, <1>6, EntriesSoundTick
<1>9. StoresWait'
  BY <1>0, <1>c, StoresWaitTick
<1>10. \A l \in Line : FreshLine(l)'
  BY <1>0, <1>x, FreshLineTick
<1>11. AnsweredFresh'
  BY <1>0, AnsweredFreshTick
<1>. QED  BY <1>1, <1>2, <1>3, <1>4, <1>5, <1>6, <1>7, <1>8, <1>9, <1>10, <1>11 DEF IInv

\* The home and the others keep the invariant.
LEMMA IInvOutside ==
  ASSUME IInv, NEW l \in Line, Outside(l)
  PROVE  IInv'
<1>0. /\ CacheType /\ EnvType /\ Places /\ Requested /\ V1Ok /\ LinesOk /\ OthersOk /\ EntriesSound /\ StoresWait
      /\ (\A k \in Line : FreshLine(k)) /\ AnsweredFresh
  BY DEF IInv
<1>1. CacheType' /\ Quiet
  BY <1>0, QuietOutside
<1>2. EnvType'
  BY <1>0, EnvTypeOutside
<1>3. Places' /\ Requested' /\ V1Ok' /\ EntriesSound' /\ StoresWait'
  BY <1>0, <1>1, PlacesQuiet, RequestedQuiet, V1OkQuiet, EntriesSoundQuiet, StoresWaitQuiet
<1>4. LinesOk' /\ OthersOk'
  BY <1>0, LinesOutside, OthersOutside
<1>5. \A k \in Line : FreshLine(k)'
  BY <1>0, FreshOutside
<1>6. AnsweredFresh'
  BY <1>0, <1>1 DEF Quiet, AnsweredFresh
<1>. QED  BY <1>1, <1>2, <1>3, <1>4, <1>5, <1>6 DEF IInv

\* Nothing happens.
LEMMA IInvStill ==
  ASSUME IInv, UNCHANGED vars
  PROVE  IInv'
<1>0. /\ CacheType /\ EnvType /\ Places /\ Requested /\ V1Ok /\ LinesOk /\ OthersOk /\ EntriesSound /\ StoresWait
      /\ (\A l \in Line : FreshLine(l)) /\ AnsweredFresh
  BY DEF IInv
<1>1. Still /\ UNCHANGED <<load, waiting, req, fwd, rsp, home>>
  BY DEF vars, Still, envVars
<1>2. Quiet
  BY <1>1 DEF Still, Quiet, SameEntry, cacheVars, inputVars
<1>3. CacheType'
  BY <1>0, <1>1 DEF CacheType, Still, cacheVars
<1>4. EnvType'
  BY <1>0, <1>1 DEF EnvType, Still, inputVars
<1>5. Places' /\ Requested' /\ V1Ok' /\ EntriesSound' /\ StoresWait'
  BY <1>0, <1>2, PlacesQuiet, RequestedQuiet, V1OkQuiet, EntriesSoundQuiet, StoresWaitQuiet
<1>6. LinesOk'
  <2>1. SUFFICES ASSUME NEW l \in Line
                 PROVE  \E d \in Dem, p \in BOOLEAN, x \in rsp'[l] \cup {vn2_i', NoMsg}, a \in 0 .. 1 : LineOk(l, d, p, x, a)'
    BY DEF LinesOk
  <2>2. PICK d \in Dem, p \in BOOLEAN, x \in rsp[l] \cup {vn2_i, NoMsg}, a \in 0 .. 1 : LineOk(l, d, p, x, a)
    BY <1>0 DEF LinesOk
  <2>3. SameCache(l)
    BY <1>2, CacheQuiet
  <2>4. LineOk(l, d, p, x, a)'
    BY <1>1, <2>2, <2>3, LineQuiet
  <2>5. x \in rsp'[l] \cup {vn2_i', NoMsg}
    BY <1>1, <1>2, <2>2 DEF Quiet
  <2>. QED  BY <2>2, <2>4, <2>5
<1>7. OthersOk'
  BY <1>0, <1>1 DEF OthersOk
<1>8. \A l \in Line : FreshLine(l)'
  BY <1>0, <1>1, FreshStill
<1>9. AnsweredFresh'
  BY <1>0, <1>2 DEF Quiet, AnsweredFresh
<1>. QED  BY <1>3, <1>4, <1>5, <1>6, <1>7, <1>8, <1>9 DEF IInv

\* Every step keeps the invariant.
LEMMA IInvNext ==
  ASSUME IInv, [Next]_vars
  PROVE  IInv'
<1>1. CASE tick
  BY <1>1, IInvTick
<1>2. CASE \E l \in Line : Outside(l)
  BY <1>2, IInvOutside
<1>3. CASE UNCHANGED vars
  BY <1>3, IInvStill
<1>. QED  BY <1>1, <1>2, <1>3 DEF Next, Outside

\* The invariants of the run.
LEMMA IInvSays ==
  ASSUME IInv
  PROVE  EventsLegal /\ NothingTwice /\ ReadsAreCurrent
<1>0. /\ CacheType /\ EnvType /\ Places /\ Requested /\ V1Ok /\ LinesOk /\ OthersOk /\ EntriesSound /\ StoresWait
      /\ (\A l \in Line : FreshLine(l)) /\ AnsweredFresh
  BY DEF IInv
<1>1. EventsLegal /\ HomeAgrees
  BY <1>0, AllLegal, AllAgree
<1>2. NothingTwice
  BY <1>0, Typed, InOnePlace, OneHolder DEF NothingTwice
<1>3. DataFresh
  BY <1>0 DEF DataFresh, AnsweredFresh, FreshLine, PutFresh
<1>. QED  BY <1>1, <1>2, <1>3 DEF ReadsAreCurrent

\* The invariant holds throughout: where each line and request is, what a line, its home and
\* the messages between them have in common, and where the latest data is.
THEOREM InvHolds == Spec => []IInv
<1>1. Init => IInv
  BY IInvFirst
<1>2. IInv /\ [Next]_vars => IInv'
  BY IInvNext
<1>. QED  BY <1>1, <1>2, PTL DEF Spec

\* For any lines, workloads and number of MSHRs, no forward or response that is offered to the
\* cache meets a blank cell of its table or finds no MSHR, though S1, the V1 machine and the VN2
\* sink may write the state of one line in one cycle.
THEOREM EventsAlwaysLegal == Spec => []EventsLegal
<1>1. IInv => EventsLegal
  BY IInvSays
<1>. QED  BY <1>1, InvHolds, PTL

\* For any lines, workloads and number of MSHRs, a line is in one way or one MSHR, and a request
\* the core waits for in exactly one place: neither is lost or doubled by a replay or a race.
THEOREM NeverTwice == Spec => []NothingTwice
<1>1. IInv => NothingTwice
  BY IInvSays
<1>. QED  BY <1>1, InvHolds, PTL

\* For any lines, workloads and number of MSHRs, the cache has no permission that its home has
\* taken back without a message on its way, and everything that is read from it is the latest.
THEOREM ReadsStayCurrent == Spec => []ReadsAreCurrent
<1>1. IInv => ReadsAreCurrent
  BY IInvSays
<1>. QED  BY <1>1, InvHolds, PTL

==============================================================================
