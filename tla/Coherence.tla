------------------------------- MODULE Coherence -------------------------------
(***************************************************************************)
(* The MESI protocol of the design: the L1 controllers of rtl/l1 and the   *)
(* directory banks of rtl/l2, joined by per-source, per-destination FIFO   *)
(* channels on three virtual networks.  An action is one handled message,  *)
(* one core operation or one retirement; the sub-steps of a handler (the   *)
(* VN1 and D_SEND state machines) are one step here because the handler    *)
(* takes nothing else until they end.  A line's contents are a version     *)
(* number modulo Versions; latest[l] is the version of the last store.     *)
(***************************************************************************)
EXTENDS Integers, Sequences, FiniteSets, L1Table, DirTable

CONSTANTS Cache,        \* tiles whose core issues requests
          Home,         \* directory banks
          Line,         \* lines; those of one bank share one L2 set
          HomeOf,       \* the bank of a line
          VcOf,         \* the VC a bank's packets travel in: its tile id's low bit
          CoreOps,      \* the operations cores issue on each line: among LD, ST, EV
          Versions,     \* how many versions are told apart
          L2Ways, TbeEntries, MshrEntries,
          AckHalf,      \* 2^(ACK_CNT_W - 1), which is also 2^ACK_FIELD_W
          None          \* the value of an empty field

ASSUME TopologyAssumption ==
    /\ IsFiniteSet(Cache) /\ IsFiniteSet(Line)
    /\ Cache \cap Home = {}
    /\ None \notin Cache \cup Home \cup Line
    /\ HomeOf \in [Line -> Home]
    /\ VcOf \in [Home -> {0, 1}]

ASSUME SizeAssumption ==
    /\ Versions \in Nat \ {0}
    /\ L2Ways \in Nat \ {0}
    /\ TbeEntries \in Nat \ {0}
    /\ MshrEntries \in Nat \ {0}
    /\ AckHalf \in Nat \ {0}
    /\ CoreOps \in [Line -> SUBSET {"LD", "ST", "EV"}]

VARIABLES l1,        \* l1[c][l]: tag-array state, or the eviction MSHR's state
          mshr,      \* mshr[c][l]: the transaction of cache c on line l
          copy,      \* copy[c][l]: the data of the way, or of the eviction MSHR
          dir,       \* dir[l]: the L2 way's metadata
          l2,        \* l2[l]: the L2 way's data
          mem,       \* mem[l]: main memory
          tbe,       \* tbe[h][i]: transaction buffer entries
          binv,      \* binv[h]: the registers of the running back-invalidation
          req,       \* req[c][h]: VN0
          fwd,       \* fwd[h][c]: VN1
          rsp,       \* rsp[s][d]: VN2
          stuckReq,  \* stuckReq[h]: whose request is stalled at the VN0 queue head
          stuckFwd,  \* stuckFwd[c][v]: whose forward is stalled in ejection VC v
          latest     \* ghost: the version last written to each line

l1Vars == <<l1, mshr, copy>>
dirVars == <<dir, l2, mem, tbe, binv>>
vars == <<l1, mshr, copy, dir, l2, mem, tbe, binv, req, fwd, rsp, stuckReq,
          stuckFwd, latest>>

---------------------------------------------------------------------------
(* Types *)

Node == Cache \cup Home
Version == 0 .. Versions - 1
TbeIdx == 1 .. TbeEntries
AckRange == SignedRange(AckHalf)
AckField == 0 .. AckHalf - 1
MshrOp == {"none", "LD", "ST", "EV"}

Mshr == [op: MshrOp, ack: AckRange, done: BOOLEAN, fin: L1State, data: Version]

Meta == [present: BOOLEAN, state: DirState, sharers: SUBSET Cache,
         owner: Cache \cup {None}, data_valid: BOOLEAN]

Tbe == [state: TbeState, line: Line \cup {None}, ack: AckRange]

Binv == [line: Line \cup {None}, idx: TbeIdx, wb: BOOLEAN, data: Version]

ReqMsg == [type: ReqType, line: Line, data: Version]
FwdMsg == [type: FwdType, line: Line, requester: Node]
RspMsg == [type: RspType, line: Line, ack: AckField, data: Version]

NoMshr == [op |-> "none", ack |-> 0, done |-> FALSE, fin |-> "I", data |-> 0]
NoMeta == [present |-> FALSE, state |-> "I", sharers |-> {}, owner |-> None,
           data_valid |-> FALSE]
NoTbe == [state |-> "INVALID", line |-> None, ack |-> 0]
NoBinv == [line |-> None, idx |-> 1, wb |-> FALSE, data |-> 0]

TypeOK ==
    /\ l1 \in [Cache -> [Line -> L1State]]
    /\ mshr \in [Cache -> [Line -> Mshr]]
    /\ copy \in [Cache -> [Line -> Version]]
    /\ dir \in [Line -> Meta]
    /\ l2 \in [Line -> Version]
    /\ mem \in [Line -> Version]
    /\ tbe \in [Home -> [TbeIdx -> Tbe]]
    /\ binv \in [Home -> Binv]
    /\ req \in [Cache -> [Home -> Seq(ReqMsg)]]
    /\ fwd \in [Home -> [Cache -> Seq(FwdMsg)]]
    /\ rsp \in [Node -> [Node -> Seq(RspMsg)]]
    /\ stuckReq \in [Home -> Cache \cup {None}]
    /\ stuckFwd \in [Cache -> [{0, 1} -> Home \cup {None}]]
    /\ latest \in [Line -> Version]

Init ==
    /\ l1 = [c \in Cache |-> [l \in Line |-> "I"]]
    /\ mshr = [c \in Cache |-> [l \in Line |-> NoMshr]]
    /\ copy = [c \in Cache |-> [l \in Line |-> 0]]
    /\ dir = [l \in Line |-> NoMeta]
    /\ l2 = [l \in Line |-> 0]
    /\ mem = [l \in Line |-> 0]
    /\ tbe = [h \in Home |-> [i \in TbeIdx |-> NoTbe]]
    /\ binv = [h \in Home |-> NoBinv]
    /\ req = [c \in Cache |-> [h \in Home |-> <<>>]]
    /\ fwd = [h \in Home |-> [c \in Cache |-> <<>>]]
    /\ rsp = [s \in Node |-> [d \in Node |-> <<>>]]
    /\ stuckReq = [h \in Home |-> None]
    /\ stuckFwd = [c \in Cache |-> [v \in {0, 1} |-> None]]
    /\ latest = [l \in Line |-> 0]

---------------------------------------------------------------------------
(* Messages and registers *)

Next1(v) == (v + 1) % Versions

Request(t, l, v) == [type |-> t, line |-> l, data |-> v]
Forward(t, l, n) == [type |-> t, line |-> l, requester |-> n]
Response(t, l, a, v) == [type |-> t, line |-> l, ack |-> a, data |-> v]

\* Queue m from s to d on VN2, where q is the state of the VN2 channels.
SendRsp(q, s, d, m) == [q EXCEPT ![s][d] = Append(@, m)]

\* Faulty: VN1 does not keep the order a bank sent in.
SendFwdUnordered(h, ds, m) ==
    [fwd EXCEPT ![h] = [c \in Cache |-> IF c \in ds THEN <<m>> \o @[c] ELSE @[c]]]

\* Queue m from bank h to every cache of ds on VN1.
SendFwd(h, ds, m) ==
    [fwd EXCEPT ![h] = [c \in Cache |-> IF c \in ds THEN Append(@[c], m) ELSE @[c]]]

\* The L1's state once its way is given up: nothing of the data can be read.
DropIfInvalid(c, l, s) == IF s = "I" THEN 0 ELSE copy[c][l]

BusyMshrs(c) == {l \in Line : mshr[c][l].op # "none"}

MshrFree(c) == Cardinality(BusyMshrs(c)) < MshrEntries

---------------------------------------------------------------------------
(* The L1 controller: core operations *)

OpEvent(op) == IF op = "ST" THEN "STORE" ELSE "LOAD"

\* A load or store that misses, or a store to a shared line: claim an MSHR,
\* move the line to its transient state, send the request.
CoreMiss(c, l, op) ==
    /\ op \in CoreOps[l]
    /\ mshr[c][l].op = "none"
    /\ MshrFree(c)
    /\ l1[c][l] = "I" \/ (l1[c][l] = "S" /\ op = "ST")
    /\ \E n \in L1State :
         /\ <<l1[c][l], OpEvent(op), n>> \in CoreArcs
         /\ l1' = [l1 EXCEPT ![c][l] = n]
    /\ mshr' = [mshr EXCEPT ![c][l] = [NoMshr EXCEPT !.op = op]]
    /\ req' = [req EXCEPT ![c][HomeOf[l]] =
                 Append(@, Request(IF op = "ST" THEN "GETM" ELSE "GETS", l, 0))]
    /\ UNCHANGED <<copy, dirVars, fwd, rsp, stuckReq, stuckFwd, latest>>

\* A store to a line held in E or M; E becomes M silently.  Load hits change
\* nothing and are not steps.
StoreHit(c, l) ==
    /\ "ST" \in CoreOps[l]
    /\ l1[c][l] \in {"E", "M"}
    /\ \E n \in L1State :
         /\ <<l1[c][l], "STORE", n>> \in CoreArcs
         /\ l1' = [l1 EXCEPT ![c][l] = n]
    /\ copy' = [copy EXCEPT ![c][l] = Next1(@)]
    /\ latest' = [latest EXCEPT ![l] = Next1(@)]
    /\ UNCHANGED <<mshr, dirVars, req, fwd, rsp, stuckReq, stuckFwd>>

\* A request for some other line of the set claims the way: the line leaves
\* the array and its state moves into an MSHR of its own.
Evict(c, l) ==
    /\ "EV" \in CoreOps[l]
    /\ mshr[c][l].op = "none"
    /\ MshrFree(c)
    /\ \E n \in L1State :
         /\ <<l1[c][l], "EVICT", n>> \in CoreArcs
         /\ l1' = [l1 EXCEPT ![c][l] = n]
    /\ mshr' = [mshr EXCEPT ![c][l] = [NoMshr EXCEPT !.op = "EV"]]
    /\ req' = [req EXCEPT ![c][HomeOf[l]] =
                 Append(@, Request(PutOf(l1[c][l]), l, copy[c][l]))]
    /\ UNCHANGED <<copy, dirVars, fwd, rsp, stuckReq, stuckFwd, latest>>

---------------------------------------------------------------------------
(* The L1 controller: VN1 *)

\* The network interface keeps one packet per VC and presents the lowest full
\* VC, so a stalled packet blocks its own VC, and VC 0 blocks VC 1.
FwdPresented(c, h) ==
    /\ fwd[h][c] # <<>>
    /\ stuckFwd[c][VcOf[h]] \in {None, h}
    /\ VcOf[h] = 1 => stuckFwd[c][0] = None

\* The answers to forward m in state s, as a state of the VN2 channels.
FwdAnswers(c, m, s) ==
    LET e == FwdEventOf(m.type)
        h == HomeOf[m.line]
        v == copy[c][m.line]
    IN  CASE SendsInvAck(s, e) /\ m.type = "INV" ->
               SendRsp(rsp, c, m.requester, Response("INV_ACK", m.line, 0, 0))
          [] SendsInvAck(s, e) /\ m.type = "RECALL_INV" ->
               SendRsp(rsp, c, h, Response("RECALL_ACK", m.line, 0, 0))
          [] SendsDataReq(s, e) /\ m.type = "RECALL" ->
               SendRsp(rsp, c, h, Response("WB_DATA", m.line, 0, v))
          [] SendsDataReq(s, e) /\ m.type = "FWD_GETM" ->
               SendRsp(rsp, c, m.requester, Response("DATA_OWNER", m.line, 0, v))
          [] SendsDataReq(s, e) /\ SendsDataDir(s, e) ->
               SendRsp(SendRsp(rsp, c, m.requester, Response("DATA_OWNER", m.line, 0, v)),
                       c, h, Response("WB_DATA", m.line, 0, v))
          [] OTHER -> rsp

\* A forward whose state has an arc is taken and answered.
TakeForward(c, h) ==
    /\ FwdPresented(c, h)
    /\ LET m == Head(fwd[h][c])
           s == l1[c][m.line]
       IN  /\ \E n \in L1State :
                /\ <<s, FwdEventOf(m.type), n>> \in FwdArcs
                /\ l1' = [l1 EXCEPT ![c][m.line] = n]
                /\ copy' = [copy EXCEPT ![c][m.line] = DropIfInvalid(c, m.line, n)]
           /\ mshr' = IF m.type = "PUT_ACK" THEN [mshr EXCEPT ![c][m.line].done = TRUE]
                      ELSE mshr
           /\ rsp' = FwdAnswers(c, m, s)
    /\ fwd' = [fwd EXCEPT ![h][c] = Tail(@)]
    /\ stuckFwd' = [stuckFwd EXCEPT ![c][VcOf[h]] = None]
    /\ UNCHANGED <<dirVars, req, stuckReq, latest>>

\* A forward whose line is in a stalling state stays in its ejection slot.
StallForward(c, h) ==
    /\ FwdPresented(c, h)
    /\ stuckFwd[c][VcOf[h]] = None
    /\ L1Stalls(l1[c][Head(fwd[h][c]).line], FwdEventOf(Head(fwd[h][c]).type))
    /\ stuckFwd' = [stuckFwd EXCEPT ![c][VcOf[h]] = h]
    /\ UNCHANGED <<l1Vars, dirVars, req, fwd, rsp, stuckReq, latest>>

---------------------------------------------------------------------------
(* The L1 controller: VN2 and retirement *)

\* The acknowledgement count after a response, in the counter's own width.
AckAfter(x, m, e) ==
    Signed(AckHalf, x.ack + (IF AddsAcks(e) THEN m.ack ELSE 0) - (IF TakesAck(e) THEN 1 ELSE 0))

\* A response is never refused.  It updates the MSHR; the state it completes
\* waits there for retirement, any other goes to the array.
TakeResponse(c, s) ==
    /\ rsp[s][c] # <<>>
    /\ LET m == Head(rsp[s][c])
           x == mshr[c][m.line]
           e == RspEventOf(m.type, m.ack)
           a == AckAfter(x, m, e)
       IN  \E n \in L1State :
             LET all == n \in {"IM_A", "SM_A"} /\ a = 0
                 fin == Completes(e) \/ all
             IN  /\ x.op # "none"
                 /\ <<l1[c][m.line], e, n>> \in RspArcs
                 /\ mshr' = [mshr EXCEPT ![c][m.line] =
                       [op |-> x.op, ack |-> a, done |-> fin,
                        fin |-> IF all THEN "M" ELSE IF fin THEN n ELSE x.fin,
                        data |-> IF FillsData(e) THEN m.data ELSE x.data]]
                 /\ l1' = IF fin THEN l1 ELSE [l1 EXCEPT ![c][m.line] = n]
    /\ rsp' = [rsp EXCEPT ![s][c] = Tail(@)]
    /\ UNCHANGED <<copy, dirVars, req, fwd, stuckReq, stuckFwd, latest>>

\* A finished fetch installs state and data together and performs the store
\* that was waiting; a finished eviction frees its MSHR.
Retire(c, l) ==
    /\ mshr[c][l].done
    /\ mshr' = [mshr EXCEPT ![c][l] = NoMshr]
    /\ l1' = [l1 EXCEPT ![c][l] = IF mshr[c][l].op = "EV" THEN @ ELSE mshr[c][l].fin]
    /\ copy' = [copy EXCEPT ![c][l] = CASE mshr[c][l].op = "LD" -> mshr[c][l].data
                                        [] mshr[c][l].op = "ST" -> Next1(mshr[c][l].data)
                                        [] OTHER -> @]
    /\ latest' = [latest EXCEPT ![l] = IF mshr[c][l].op = "ST" THEN Next1(@) ELSE @]
    /\ UNCHANGED <<dirVars, req, fwd, rsp, stuckReq, stuckFwd>>

---------------------------------------------------------------------------
(* The directory bank: its transaction buffers and its L2 set *)

TbesOf(h, l) == {i \in TbeIdx : tbe[h][i].state # "INVALID" /\ tbe[h][i].line = l}

FreeTbes(h) == {i \in TbeIdx : tbe[h][i].state = "INVALID"}

Lowest(S) == CHOOSE i \in S : \A j \in S : i <= j

\* The allocation index: the lowest free entry, or entry 1 if there is none.
AllocIdx(h) == IF FreeTbes(h) = {} THEN 1 ELSE Lowest(FreeTbes(h))

\* Allocation writes nothing when no entry is free.
AllocTbe(h, t) == IF FreeTbes(h) = {} THEN tbe ELSE [tbe EXCEPT ![h][AllocIdx(h)] = t]

\* Is there a back-invalidation in flight for line l?
Recalling(h, l) == \E i \in TbesOf(h, l) : tbe[h][i].state = "INV_PEND"

BinvActive(h) == \E i \in TbeIdx : tbe[h][i].state = "INV_PEND"

LinesOf(h) == {l \in Line : HomeOf[l] = h}

Resident(h) == {l \in LinesOf(h) : dir[l].present}

HaveFreeWay(h) == Cardinality(Resident(h)) < L2Ways

\* Faulty: a line in transition is replaced like any other.
VictimsAny(h) == Resident(h)

\* Faulty: the busy check compares set indices and not whole addresses.
VictimsBySet(h) == {l \in Resident(h) : FreeTbes(h) = TbeIdx}

\* Lines that may be replaced: no transaction is in flight for them.
Victims(h) == {l \in Resident(h) : TbesOf(h, l) = {}}

\* The line the bank does replace: when no line may be, way 0 all the same.
VictimChoice(h) == IF Victims(h) = {} THEN Resident(h) ELSE Victims(h)

---------------------------------------------------------------------------
(* The directory bank: requests and data against the table *)

IsOwner(md, c) == md.state \in {"E", "M"} /\ md.owner = c

DirEventOf(t, md, c) ==
    CASE t = "PUTS" -> IF md.sharers \ {c} = {} THEN "PUTS_LAST" ELSE "PUTS_NOT_LAST"
      [] t = "PUTM" -> IF IsOwner(md, c) THEN "PUTM_OWNER" ELSE "PUTM_NON_OWNER"
      [] t = "PUTE" -> IF IsOwner(md, c) THEN "PUTE_OWNER" ELSE "PUTE_NON_OWNER"
      [] t = "WB_DATA" -> "DATA"
      [] OTHER -> t

\* Faulty: the owner is read after it was cleared.
NewSharersLate(md, e, c) == IF ForwardsToOwner(md.state, e) THEN {None, c} ELSE md.sharers

\* Faulty: a GetM leaves the sharers it invalidates on the list.
NewSharersKept(md, e, c) ==
    CASE AddsSharer(md.state, e) -> md.sharers \cup {c}
      [] RemovesSharer(md.state, e) -> md.sharers \ {c}
      [] ForwardsToOwner(md.state, e) /\ e = "GETS" -> {md.owner, c}
      [] OTHER -> md.sharers

NewSharers(md, e, c) ==
    CASE AddsSharer(md.state, e) -> md.sharers \cup {c}
      [] RemovesSharer(md.state, e) -> md.sharers \ {c}
      [] InvalidatesOthers(md.state, e) -> {}
      [] ForwardsToOwner(md.state, e) /\ e = "GETS" -> {md.owner, c}
      [] OTHER -> md.sharers

\* Faulty: a clean Put does not say that the L2 copy is current again (bug B21).
NewDataValidPutM(md, e, n) ==
    IF SendsDataE(md.state, e) \/ (SendsData(md.state, e) /\ n = "M") THEN FALSE
    ELSE CopiesData(md.state, e) \/ md.data_valid

NewDataValid(md, e, n) ==
    CASE CopiesData(md.state, e) \/ e = "PUTE_OWNER" -> TRUE
      [] SendsDataE(md.state, e) \/ (SendsData(md.state, e) /\ n = "M") -> FALSE
      [] OTHER -> md.data_valid

\* The metadata after event e of cache c, moving to state n.
NewMeta(md, e, c, n) ==
    [present |-> TRUE,
     state |-> n,
     sharers |-> NewSharers(md, e, c),
     owner |-> CASE SetsOwner(md.state, e) -> c
                 [] ClearsOwner(md.state, e) -> None
                 [] OTHER -> md.owner,
     data_valid |-> NewDataValid(md, e, n)]

\* Faulty: an upgrade by a sharer forgets the other sharers.
InvTargetsUpgrade(md, e, c) ==
    IF InvalidatesOthers(md.state, e) /\ c \notin md.sharers THEN md.sharers ELSE {}

\* Who is sent an Inv by event e of cache c.
InvTargets(md, e, c) == IF InvalidatesOthers(md.state, e) THEN md.sharers \ {c} ELSE {}

\* Faulty: a Put accepted in S_D allocates again.
NeedsTbeAgain(md, n) == n = "S_D"

NeedsTbe(md, n) == n = "S_D" /\ md.state # "S_D"

\* Bank h executes message m of cache c against the table.  rspIn is VN2 with
\* the message already taken from it.
DirExec(h, c, m, rspIn) ==
    LET l == m.line
        md == dir[l]
        e == DirEventOf(m.type, md, c)
        inv == InvTargets(md, e, c)
    IN  \E n \in DirState :
          /\ <<md.state, e, n>> \in DirArcs
          /\ NeedsTbe(md, n) => FreeTbes(h) # {}
          /\ dir' = [dir EXCEPT ![l] = NewMeta(md, e, c, n)]
          /\ l2' = IF CopiesData(md.state, e) THEN [l2 EXCEPT ![l] = m.data] ELSE l2
          /\ tbe' = CASE NeedsTbe(md, n) ->
                           AllocTbe(h, [state |-> "WB_PEND", line |-> l, ack |-> 0])
                      [] md.state = "S_D" /\ e = "DATA" ->
                           [tbe EXCEPT ![h] = [i \in TbeIdx |->
                              IF i \in TbesOf(h, l) THEN NoTbe ELSE @[i]]]
                      [] OTHER -> tbe
          /\ rsp' = CASE SendsDataE(md.state, e) ->
                           SendRsp(rspIn, h, c, Response("DATA_E", l, 0, l2[l]))
                      [] SendsData(md.state, e) ->
                           SendRsp(rspIn, h, c, Response("DATA_DIR", l,
                                     Cardinality(inv) % AckHalf, l2[l]))
                      [] OTHER -> rspIn
          /\ fwd' = CASE SendsPutAck(e) -> SendFwd(h, {c}, Forward("PUT_ACK", l, c))
                      [] ForwardsToOwner(md.state, e) ->
                           SendFwd(h, {md.owner},
                             Forward(IF e = "GETS" THEN "FWD_GETS" ELSE "FWD_GETM", l, c))
                      [] OTHER -> SendFwd(h, inv, Forward("INV", l, c))

\* The VN0 queue is a FIFO: while its head is stalled nothing passes it.
ReqPresented(h, c) == req[c][h] # <<>> /\ stuckReq[h] \in {None, c}

\* A request to a resident line that the table has an arc for is executed.
TakeRequest(h, c) ==
    /\ ReqPresented(h, c)
    /\ dir[Head(req[c][h]).line].present
    /\ DirExec(h, c, Head(req[c][h]), rsp)
    /\ req' = [req EXCEPT ![c][h] = Tail(@)]
    /\ stuckReq' = [stuckReq EXCEPT ![h] = None]
    /\ UNCHANGED <<l1Vars, mem, binv, stuckFwd, latest>>

\* A request stays at the queue head while its line is in S_D, while it needs
\* a transaction buffer and none is free, and while a way is being freed.
StallRequest(h, c) ==
    /\ ReqPresented(h, c)
    /\ stuckReq[h] = None
    /\ LET m == Head(req[c][h])
           md == dir[m.line]
       IN  \/ md.present /\ DirStalls(md.state, m.type)
           \/ /\ md.present /\ FreeTbes(h) = {}
              /\ md.state \in {"E", "M"} /\ m.type = "GETS"
           \/ ~md.present /\ ~HaveFreeWay(h) /\ BinvActive(h)
    /\ stuckReq' = [stuckReq EXCEPT ![h] = c]
    /\ UNCHANGED <<l1Vars, dirVars, req, fwd, rsp, stuckFwd, latest>>

\* Data a forwarded GetS brings back: the line leaves S_D.
TakeOwnerData(h, c) ==
    /\ rsp[c][h] # <<>>
    /\ LET m == Head(rsp[c][h])
       IN  /\ m.type = "WB_DATA"
           /\ dir[m.line].present
           /\ ~Recalling(h, m.line)
           /\ DirExec(h, c, m, [rsp EXCEPT ![c][h] = Tail(@)])
    /\ UNCHANGED <<l1Vars, mem, binv, req, stuckReq, stuckFwd, latest>>

---------------------------------------------------------------------------
(* The directory bank: misses and back-invalidation *)

\* A miss with a free way installs the line from memory and retries.
FetchLine(h, c) ==
    /\ ReqPresented(h, c)
    /\ HaveFreeWay(h)
    /\ LET l == Head(req[c][h]).line
       IN  /\ ~dir[l].present
           /\ dir' = [dir EXCEPT ![l] = [NoMeta EXCEPT !.present = TRUE, !.data_valid = TRUE]]
           /\ l2' = [l2 EXCEPT ![l] = mem[l]]
    /\ stuckReq' = [stuckReq EXCEPT ![h] = c]
    /\ UNCHANGED <<l1Vars, mem, tbe, binv, req, fwd, rsp, stuckFwd, latest>>

\* Faulty: a clean exclusive copy is not recalled.
RecallExpectDirty(md) ==
    CASE md.state = "S" -> Cardinality(md.sharers)
      [] md.state = "M" -> 1
      [] OTHER -> 0

\* How many answers a recall of a line with metadata md produces.
RecallExpect(md) ==
    CASE md.state = "S" -> Cardinality(md.sharers)
      [] md.state \in {"E", "M"} -> 1
      [] OTHER -> 0

MissesFullSet(h, c) ==
    /\ ReqPresented(h, c)
    /\ ~dir[Head(req[c][h]).line].present
    /\ ~HaveFreeWay(h)
    /\ ~BinvActive(h)

\* Victim v is replaced for a request of c.  Every copy of it is recalled and
\* the request waits ...
RecallCopies(h, c, v) ==
    LET md == dir[v]
    IN  /\ RecallExpect(md) # 0
        /\ tbe' = AllocTbe(h, [state |-> "INV_PEND", line |-> v,
                               ack |-> Signed(AckHalf, RecallExpect(md))])
        /\ binv' = [binv EXCEPT ![h] = [line |-> v, idx |-> AllocIdx(h),
                                        wb |-> md.data_valid, data |-> l2[v]]]
        /\ fwd' = IF md.state = "S"
                  THEN SendFwd(h, md.sharers, Forward("RECALL_INV", v, h))
                  ELSE SendFwd(h, {md.owner}, Forward("RECALL", v, h))
        /\ stuckReq' = [stuckReq EXCEPT ![h] = c]
        /\ UNCHANGED <<l1Vars, dir, l2, mem, req, rsp, stuckFwd, latest>>

\* ... or, when nobody holds it, it is written back, if the L2 copy is current,
\* and its way and the buffer entry it was given are freed.
FreeUnheld(h, c, v) ==
    /\ RecallExpect(dir[v]) = 0
    /\ mem' = IF dir[v].data_valid THEN [mem EXCEPT ![v] = l2[v]] ELSE mem
    /\ dir' = [dir EXCEPT ![v] = NoMeta]
    /\ tbe' = [tbe EXCEPT ![h][AllocIdx(h)] = NoTbe]
    /\ stuckReq' = [stuckReq EXCEPT ![h] = c]
    /\ UNCHANGED <<l1Vars, l2, binv, req, fwd, rsp, stuckFwd, latest>>

\* What a replacement takes for granted: an entry to track it in, and a line
\* with nothing in flight.
RecallPossible(h) == FreeTbes(h) # {} /\ Victims(h) # {}

StartRecall(h, c) ==
    /\ MissesFullSet(h, c)
    /\ RecallPossible(h)
    /\ \E v \in VictimChoice(h) : RecallCopies(h, c, v)

ReplaceUnheld(h, c) ==
    /\ MissesFullSet(h, c)
    /\ RecallPossible(h)
    /\ \E v \in VictimChoice(h) : FreeUnheld(h, c, v)

\* The bank replaces a line whether or not it can: D_LOOK tests neither.
ReplaceAnyway(h, c) ==
    /\ MissesFullSet(h, c)
    /\ ~RecallPossible(h)
    /\ \E v \in VictimChoice(h) : RecallCopies(h, c, v) \/ FreeUnheld(h, c, v)

\* An answer to a recall is counted outside the table.  The last one, by the
\* signed count, writes the line back and releases the way and the entry.
TakeRecallAnswer(h, c) ==
    /\ rsp[c][h] # <<>>
    /\ LET m == Head(rsp[c][h])
           i == Lowest(TbesOf(h, m.line))
           wb == binv[h].wb \/ m.type = "WB_DATA"
           v == IF m.type = "WB_DATA" THEN m.data ELSE binv[h].data
           last == tbe[h][i].ack <= 1
       IN  /\ Recalling(h, m.line)
           /\ mem' = IF last /\ wb THEN [mem EXCEPT ![binv[h].line] = v] ELSE mem
           /\ dir' = IF last THEN [dir EXCEPT ![binv[h].line] = NoMeta] ELSE dir
           /\ tbe' = IF last THEN [tbe EXCEPT ![h][binv[h].idx] = NoTbe]
                     ELSE [tbe EXCEPT ![h][i].ack = Signed(AckHalf, @ - 1)]
           /\ binv' = [binv EXCEPT ![h] = IF last THEN NoBinv
                                          ELSE [@ EXCEPT !.wb = wb, !.data = v]]
    /\ rsp' = [rsp EXCEPT ![c][h] = Tail(@)]
    /\ UNCHANGED <<l1Vars, l2, req, fwd, stuckReq, stuckFwd, latest>>

---------------------------------------------------------------------------
(* The specification *)

CoreStep(c) ==
    \E l \in Line :
        \/ \E op \in {"LD", "ST"} : CoreMiss(c, l, op)
        \/ StoreHit(c, l)
        \/ Evict(c, l)

L1Step(c) ==
    \/ \E h \in Home : TakeForward(c, h) \/ StallForward(c, h)
    \/ \E s \in Node : TakeResponse(c, s)
    \/ \E l \in Line : Retire(c, l)

DirStep(h) ==
    \E c \in Cache :
        \/ TakeRequest(h, c)
        \/ StallRequest(h, c)
        \/ TakeOwnerData(h, c)
        \/ FetchLine(h, c)
        \/ StartRecall(h, c)
        \/ ReplaceUnheld(h, c)
        \/ TakeRecallAnswer(h, c)

\* What the hardware does without a new core operation.
SystemStep ==
    \/ \E c \in Cache : L1Step(c)
    \/ \E h \in Home : DirStep(h)

RoomyNext == (\E c \in Cache : CoreStep(c)) \/ SystemStep

Next == RoomyNext \/ \E h \in Home, c \in Cache : ReplaceAnyway(h, c)

Spec == Init /\ [][Next]_vars

\* The executions in which a bank replaces a line only when it can: the request
\* that needs the way waits until then.
RoomySpec == Init /\ [][RoomyNext]_vars

\* A back-invalidation starts with a transaction buffer to track it in: its
\* answers could not be told from data nobody asked for, and the entry it
\* frees at the end would be another line's (dir_ctrl's a_tbe_alloc_into_free;
\* the D_LOOK to D_BINV branch does not test tbe_alloc_ready).
EntryForRecall == \A h \in Home, c \in Cache : MissesFullSet(h, c) => FreeTbes(h) # {}

\* A full set always has a line that may be replaced: replacing one in
\* transition strands whoever waits for it (dir_ctrl's a_victim_available).
VictimForRecall == \A h \in Home, c \in Cache : MissesFullSet(h, c) => Victims(h) # {}

---------------------------------------------------------------------------
(* Safety *)

Readable(c, l) == l1[c][l] \in {"S", "E", "M", "SM_AD", "SM_A"}
Writable(c, l) == l1[c][l] \in {"E", "M"}

\* Single writer or many readers, in real time: while one core may store to a
\* line, no other core may load it.  It takes the GetM's Invs, their acks and
\* the count in the Data all to agree before retirement installs M.
SingleWriter ==
    \A c, d \in Cache, l \in Line : c # d /\ Writable(c, l) => ~Readable(d, l)

\* Every load hit returns the last store, and data a finished miss is about
\* to return or to merge a store into is the last store's line: no race of
\* forwards, Puts, recalls and refetches loses or revives a version.
LatestDataRead ==
    \A c \in Cache, l \in Line :
        /\ Readable(c, l) => copy[c][l] = latest[l]
        /\ mshr[c][l].done /\ mshr[c][l].op # "EV" => mshr[c][l].data = latest[l]

\* What the directory believes about its own copy: with no owner and no data
\* on its way the L2 holds the last store and says so, and once the line has
\* left the L2 memory holds it.  This is what a back-invalidation relies on
\* when it frees a way (dir_ctrl's a_l2_copy_current, bug B21).
L2CopyCurrent ==
    \A l \in Line :
        /\ dir[l].present /\ dir[l].state \in {"I", "S"} =>
             dir[l].data_valid /\ l2[l] = latest[l]
        /\ ~dir[l].present => mem[l] = latest[l]

\* Inclusion: a line a core may load or store is resident in its bank, and
\* the bank knows the copy: as owner, as sharer, or as one it has already sent
\* for.  Replacing a line while a copy survives, or forgetting a holder on a
\* late Put (race R5), leaves a copy that no later write invalidates.
Summoned(c, l) ==
    \E i \in 1 .. Len(fwd[HomeOf[l]][c]) :
        /\ fwd[HomeOf[l]][c][i].line = l
        /\ fwd[HomeOf[l]][c][i].type # "PUT_ACK"

Inclusion ==
    \A c \in Cache, l \in Line :
        /\ Readable(c, l) => dir[l].present
        /\ Writable(c, l) => dir[l].owner = c \/ Summoned(c, l)
        /\ Readable(c, l) => c \in dir[l].sharers \cup {dir[l].owner} \/ Summoned(c, l)

\* No message reaches a blank cell of either table (a_vn1_event_legal,
\* a_vn2_event_legal, a_no_illegal_event): whatever is at the head of a
\* channel has an arc or a stall in the state its line is in.
ForwardsLegal ==
    \A h \in Home, c \in Cache : fwd[h][c] # <<>> =>
        LET m == Head(fwd[h][c]) IN L1Legal(l1[c][m.line], FwdEventOf(m.type))

\* A response always lands: the line has an MSHR, the table has an arc, and
\* an AckCount is never added to a count that is already positive
\* (a_vn2_always_lands, a_ack_never_positive_after_data).
ResponsesLand ==
    \A s \in Node, c \in Cache : rsp[s][c] # <<>> =>
        LET m == Head(rsp[s][c])
            e == RspEventOf(m.type, m.ack)
        IN  /\ mshr[c][m.line].op \in {"LD", "ST"}
            /\ ~mshr[c][m.line].done
            /\ \E n \in L1State : <<l1[c][m.line], e, n>> \in RspArcs
            /\ AddsAcks(e) => mshr[c][m.line].ack <= 0

\* What a cache is sent always finds its line in a state made for it.
CacheEventsLegal == ForwardsLegal /\ ResponsesLand

\* A bank can classify everything it is sent: data arrives for a line in S_D
\* or being recalled, an acknowledgement only for one being recalled, and a
\* request never finds a blank cell.
BankEventsLegal ==
    \A h \in Home, c \in Cache :
        /\ req[c][h] # <<>> =>
             LET m == Head(req[c][h])
                 md == dir[m.line]
             IN  md.present => DirLegal(md.state, DirEventOf(m.type, md, c))
        /\ rsp[c][h] # <<>> =>
             LET m == Head(rsp[c][h])
             IN  /\ dir[m.line].present
                 /\ \/ Recalling(h, m.line)
                    \/ m.type = "WB_DATA" /\ dir[m.line].state = "S_D"

\* The transaction buffers and the metadata agree: a resident line is in S_D
\* exactly when an entry waits for its data, no line has two entries, and a
\* recalled line is resident, and the one the bank's registers describe, until
\* its last answer.
TbesMatchDirectory ==
    \A h \in Home : \A l \in LinesOf(h) :
        /\ \A i, j \in TbesOf(h, l) : i = j
        /\ (dir[l].present /\ dir[l].state = "S_D") <=>
             \E i \in TbesOf(h, l) : tbe[h][i].state = "WB_PEND"
        /\ Recalling(h, l) => dir[l].present /\ binv[h].line = l

\* The bank waits for exactly the answers that are still owed: the count of a
\* recall is the number of recalls and answers in flight for its line.
RecallsOf(h, l) ==
    {c \in Cache : \E i \in 1 .. Len(fwd[h][c]) :
        fwd[h][c][i].line = l /\ fwd[h][c][i].type \in {"RECALL", "RECALL_INV"}}
AnswersOf(h, l) ==
    {c \in Cache : \E i \in 1 .. Len(rsp[c][h]) : rsp[c][h][i].line = l}
RecallCountExact ==
    \A h \in Home, l \in Line :
        LET owed == RecallsOf(h, l) \cup AnswersOf(h, l)
        IN  /\ RecallsOf(h, l) # {} => Recalling(h, l)
            /\ \A i \in TbesOf(h, l) : tbe[h][i].state = "INV_PEND" =>
                 tbe[h][i].ack = Cardinality(owed)

\* Nothing waits on itself: while a transaction is outstanding some step of
\* the hardware is possible, without replacing a line in transition or starting
\* a recall untracked, so no set of stalled forwards, stalled requests
\* and waiting MSHRs blocks itself.
Outstanding == \E c \in Cache, l \in Line : mshr[c][l].op # "none"
NoDeadlock == Outstanding => ENABLED SystemStep

---------------------------------------------------------------------------
(* Refinement *)

PermOf(c, l) ==
    CASE Writable(c, l) -> "write"
      [] Readable(c, l) /\ ~Writable(c, l) -> "read"
      [] OTHER -> "none"

Memory == INSTANCE SharedMemory WITH
    perm <- [c \in Cache |-> [l \in Line |-> PermOf(c, l)]],
    view <- [c \in Cache |-> [l \in Line |-> IF Readable(c, l) THEN copy[c][l] ELSE 0]],
    value <- latest

\* Seen from the cores, the caches, the directory and every message in flight
\* are one shared memory: each step of the protocol grants or takes away one
\* permission legally, stores, or is invisible.
ImplementsSharedMemory == Memory!SMSpec

---------------------------------------------------------------------------
(* Liveness *)

\* The hardware keeps working: each handler that can run does.  A bank's VN0
\* queue is a FIFO that a tile's at most MSHR_ENTRIES requests enter in turn,
\* so a waiting request is not overtaken for ever: strong fairness.
Fairness ==
    /\ \A c \in Cache, h \in Home : WF_vars(TakeForward(c, h))
    /\ \A c \in Cache, s \in Node : WF_vars(TakeResponse(c, s))
    /\ \A c \in Cache, l \in Line : WF_vars(Retire(c, l))
    /\ \A c \in Cache, h \in Home :
         /\ SF_vars(TakeRequest(h, c))
         /\ SF_vars(FetchLine(h, c))
         /\ SF_vars(StartRecall(h, c) \/ ReplaceUnheld(h, c))
         /\ WF_vars(TakeOwnerData(h, c))
         /\ WF_vars(TakeRecallAnswer(h, c))

===============================================================================
