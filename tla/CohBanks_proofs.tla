------------------------------ MODULE CohBanks_proofs ------------------------------
(***************************************************************************)
(* Every step of a bank keeps the invariant: a request executed or put     *)
(* aside, data that comes back, a line fetched, a line recalled or         *)
(* dropped, and the answers to a recall.                                   *)
(***************************************************************************)
EXTENDS CohInvariant_proofs

---------------------------------------------------------------------------
(* A request: the directory table *)

WbTbe(l) == [state |-> "WB_PEND", line |-> l, ack |-> 0]

\* Bank h has executed event e of cache c about line l, which carried v, and
\* moved the line to n; q is VN2 with the message taken.
Executed(h, c, l, e, v, q, n) ==
    /\ <<dir[l].state, e, n>> \in DirArcs
    /\ dir'[l].present /\ dir'[l].state = n
    /\ dir'[l].sharers = NewSharers(dir[l], e, c)
    /\ dir'[l].data_valid = NewDataValid(dir[l], e, n)
    /\ SetsOwner(dir[l].state, e) => dir'[l].owner = c
    /\ ~SetsOwner(dir[l].state, e) /\ ClearsOwner(dir[l].state, e) => dir'[l].owner = None
    /\ ~SetsOwner(dir[l].state, e) /\ ~ClearsOwner(dir[l].state, e) => dir'[l].owner = dir[l].owner
    /\ l2'[l] = IF CopiesData(dir[l].state, e) THEN v ELSE l2[l]
    /\ \A k \in Line : k # l => dir'[k] = dir[k] /\ l2'[k] = l2[k]
    /\ NeedsTbe(dir[l], n) => FreeTbes(h) # {} /\ tbe' = AllocTbe(h, WbTbe(l))
    /\ ~NeedsTbe(dir[l], n) /\ dir[l].state = "S_D" /\ e = "DATA" =>
         tbe' = [tbe EXCEPT ![h] = [i \in TbeIdx |-> IF i \in TbesOf(h, l) THEN NoTbe ELSE @[i]]]
    /\ ~NeedsTbe(dir[l], n) /\ ~(dir[l].state = "S_D" /\ e = "DATA") => tbe' = tbe
    /\ SendsDataE(dir[l].state, e) => rsp' = SendRsp(q, h, c, Response("DATA_E", l, 0, l2[l]))
    /\ ~SendsDataE(dir[l].state, e) /\ SendsData(dir[l].state, e) =>
         rsp' = SendRsp(q, h, c, Response("DATA_DIR", l, Cardinality(InvTargets(dir[l], e, c)) % AckHalf, l2[l]))
    /\ ~SendsDataE(dir[l].state, e) /\ ~SendsData(dir[l].state, e) => rsp' = q
    /\ SendsPutAck(e) => fwd' = SendFwd(h, {c}, Forward("PUT_ACK", l, c))
    /\ ~SendsPutAck(e) /\ ForwardsToOwner(dir[l].state, e) =>
         fwd' = SendFwd(h, {dir[l].owner}, Forward(IF e = "GETS" THEN "FWD_GETS" ELSE "FWD_GETM", l, c))
    /\ ~SendsPutAck(e) /\ ~ForwardsToOwner(dir[l].state, e) =>
         fwd' = SendFwd(h, InvTargets(dir[l], e, c), Forward("INV", l, c))

\* What executing an arc of the directory table does, field by field.
LEMMA ExecFacts ==
  ASSUME TypeOK, NEW h \in Home, NEW c \in Cache, NEW m, NEW l \in Line, m.line = l, NEW q,
         DirExec(h, c, m, q)
  PROVE  \E n \in DirState : Executed(h, c, l, DirEventOf(m.type, dir[l], c), m.data, q, n)
<1>. DEFINE l0 == m.line
            md == dir[l0]
            e == DirEventOf(m.type, md, c)
            inv == InvTargets(md, e, c)
<1>1. PICK n \in DirState :
        /\ <<md.state, e, n>> \in DirArcs
        /\ NeedsTbe(md, n) => FreeTbes(h) # {}
        /\ dir' = [dir EXCEPT ![l0] = NewMeta(md, e, c, n)]
        /\ l2' = IF CopiesData(md.state, e) THEN [l2 EXCEPT ![l0] = m.data] ELSE l2
        /\ tbe' = CASE NeedsTbe(md, n) ->
                         AllocTbe(h, [state |-> "WB_PEND", line |-> l0, ack |-> 0])
                    [] md.state = "S_D" /\ e = "DATA" ->
                         [tbe EXCEPT ![h] = [i \in TbeIdx |->
                            IF i \in TbesOf(h, l0) THEN NoTbe ELSE @[i]]]
                    [] OTHER -> tbe
        /\ rsp' = CASE SendsDataE(md.state, e) ->
                         SendRsp(q, h, c, Response("DATA_E", l0, 0, l2[l0]))
                    [] SendsData(md.state, e) ->
                         SendRsp(q, h, c, Response("DATA_DIR", l0,
                                   Cardinality(inv) % AckHalf, l2[l0]))
                    [] OTHER -> q
        /\ fwd' = CASE SendsPutAck(e) -> SendFwd(h, {c}, Forward("PUT_ACK", l0, c))
                    [] ForwardsToOwner(md.state, e) ->
                         SendFwd(h, {md.owner},
                           Forward(IF e = "GETS" THEN "FWD_GETS" ELSE "FWD_GETM", l0, c))
                    [] OTHER -> SendFwd(h, inv, Forward("INV", l0, c))
  BY DEF DirExec
<1>. HIDE DEF e, inv, md, l0
<1>2. /\ NeedsTbe(md, n) => tbe' = AllocTbe(h, [state |-> "WB_PEND", line |-> l0, ack |-> 0])
      /\ ~NeedsTbe(md, n) /\ md.state = "S_D" /\ e = "DATA" =>
           tbe' = [tbe EXCEPT ![h] = [i \in TbeIdx |-> IF i \in TbesOf(h, l0) THEN NoTbe ELSE @[i]]]
      /\ ~NeedsTbe(md, n) /\ ~(md.state = "S_D" /\ e = "DATA") => tbe' = tbe
  <2>. DEFINE P == NeedsTbe(md, n)
              Q == md.state = "S_D" /\ e = "DATA"
              A == AllocTbe(h, [state |-> "WB_PEND", line |-> l0, ack |-> 0])
              B == [tbe EXCEPT ![h] = [i \in TbeIdx |-> IF i \in TbesOf(h, l0) THEN NoTbe ELSE @[i]]]
  <2>1. P => ~Q
    BY DEF NeedsTbe
  <2>2. tbe' = CASE P -> A [] Q -> B [] OTHER -> tbe
    BY <1>1
  <2>. HIDE DEF P, Q, A, B
  <2>3. (P => tbe' = A) /\ (~P /\ Q => tbe' = B) /\ (~P /\ ~Q => tbe' = tbe)
    BY <2>1, <2>2, Zenon
  <2>. QED
    BY <2>3 DEF P, Q, A, B
<1>3. /\ SendsDataE(md.state, e) => rsp' = SendRsp(q, h, c, Response("DATA_E", l0, 0, l2[l0]))
      /\ ~SendsDataE(md.state, e) /\ SendsData(md.state, e) =>
           rsp' = SendRsp(q, h, c, Response("DATA_DIR", l0, Cardinality(inv) % AckHalf, l2[l0]))
      /\ ~SendsDataE(md.state, e) /\ ~SendsData(md.state, e) => rsp' = q
  <2>. DEFINE P == SendsDataE(md.state, e)
              Q == SendsData(md.state, e)
              A == SendRsp(q, h, c, Response("DATA_E", l0, 0, l2[l0]))
              B == SendRsp(q, h, c, Response("DATA_DIR", l0, Cardinality(inv) % AckHalf, l2[l0]))
  <2>1. P => ~Q
    BY DEF SendsDataE, SendsData
  <2>2. rsp' = CASE P -> A [] Q -> B [] OTHER -> q
    BY <1>1
  <2>. HIDE DEF P, Q, A, B
  <2>3. (P => rsp' = A) /\ (~P /\ Q => rsp' = B) /\ (~P /\ ~Q => rsp' = q)
    BY <2>1, <2>2, Zenon
  <2>. QED
    BY <2>3 DEF P, Q, A, B
<1>4. /\ SendsPutAck(e) => fwd' = SendFwd(h, {c}, Forward("PUT_ACK", l0, c))
      /\ ~SendsPutAck(e) /\ ForwardsToOwner(md.state, e) =>
           fwd' = SendFwd(h, {md.owner}, Forward(IF e = "GETS" THEN "FWD_GETS" ELSE "FWD_GETM", l0, c))
      /\ ~SendsPutAck(e) /\ ~ForwardsToOwner(md.state, e) =>
           fwd' = SendFwd(h, inv, Forward("INV", l0, c))
  <2>. DEFINE P == SendsPutAck(e)
              Q == ForwardsToOwner(md.state, e)
              A == SendFwd(h, {c}, Forward("PUT_ACK", l0, c))
              B == SendFwd(h, {md.owner}, Forward(IF e = "GETS" THEN "FWD_GETS" ELSE "FWD_GETM", l0, c))
              C == SendFwd(h, inv, Forward("INV", l0, c))
  <2>1. P => ~Q
    BY DEF SendsPutAck, ForwardsToOwner, PutEvent
  <2>2. fwd' = CASE P -> A [] Q -> B [] OTHER -> C
    BY <1>1
  <2>. HIDE DEF P, Q, A, B, C
  <2>3. (P => fwd' = A) /\ (~P /\ Q => fwd' = B) /\ (~P /\ ~Q => fwd' = C)
    BY <2>1, <2>2, Zenon
  <2>. QED
    BY <2>3 DEF P, Q, A, B, C
<1>. DEFINE nm == NewMeta(md, e, c, n)
<1>5. /\ nm.present /\ nm.state = n
      /\ nm.sharers = NewSharers(md, e, c)
      /\ nm.data_valid = NewDataValid(md, e, n)
      /\ SetsOwner(md.state, e) => nm.owner = c
      /\ ~SetsOwner(md.state, e) /\ ClearsOwner(md.state, e) => nm.owner = None
      /\ ~SetsOwner(md.state, e) /\ ~ClearsOwner(md.state, e) => nm.owner = md.owner
  <2>. DEFINE P == SetsOwner(md.state, e)
              Q == ClearsOwner(md.state, e)
              o == CASE P -> c [] Q -> None [] OTHER -> md.owner
  <2>1. nm = [present |-> TRUE, state |-> n, sharers |-> NewSharers(md, e, c),
              owner |-> o, data_valid |-> NewDataValid(md, e, n)]
    BY DEF NewMeta
  <2>2. P => ~Q
    BY DEF SetsOwner, ClearsOwner, SendsDataE
  <2>. HIDE DEF P, Q
  <2>3. (P => o = c) /\ (~P /\ Q => o = None) /\ (~P /\ ~Q => o = md.owner)
    BY <2>2, Zenon
  <2>. HIDE DEF o, nm
  <2>. QED
    BY <2>1, <2>3 DEF P, Q
<1>. HIDE DEF nm
<1>6. l0 = l /\ md = dir[l] /\ e = DirEventOf(m.type, dir[l], c) /\ inv = InvTargets(md, e, c)
  BY DEF l0, md, e, inv
<1>7. dir'[l] = nm /\ \A k \in Line : k # l => dir'[k] = dir[k]
  BY <1>1, <1>6 DEF nm, TypeOK
<1>8. /\ l2'[l] = IF CopiesData(md.state, e) THEN m.data ELSE l2[l]
      /\ \A k \in Line : k # l => l2'[k] = l2[k]
  BY <1>1, <1>6 DEF TypeOK
<1>9. /\ <<md.state, e, n>> \in DirArcs /\ (NeedsTbe(md, n) => FreeTbes(h) # {})
  BY <1>1
<1>10. Executed(h, c, l, e, m.data, q, n)
  <2>1. /\ <<dir[l].state, e, n>> \in DirArcs
        /\ dir'[l].present /\ dir'[l].state = n
        /\ dir'[l].sharers = NewSharers(dir[l], e, c)
        /\ dir'[l].data_valid = NewDataValid(dir[l], e, n)
        /\ SetsOwner(dir[l].state, e) => dir'[l].owner = c
        /\ ~SetsOwner(dir[l].state, e) /\ ClearsOwner(dir[l].state, e) => dir'[l].owner = None
        /\ ~SetsOwner(dir[l].state, e) /\ ~ClearsOwner(dir[l].state, e) => dir'[l].owner = dir[l].owner
        /\ l2'[l] = IF CopiesData(dir[l].state, e) THEN m.data ELSE l2[l]
        /\ \A k \in Line : k # l => dir'[k] = dir[k] /\ l2'[k] = l2[k]
    BY <1>5, <1>6, <1>7, <1>8, <1>9
  <2>. QED
    BY <2>1, <1>2, <1>3, <1>4, <1>6, <1>9, ZenonT(60) DEF Executed, WbTbe
<1>. QED
  BY <1>6, <1>10

\* The values of the directory's table operators.
LEMMA NewSharersValue ==
  ASSUME NEW md, NEW e, NEW c
  PROVE  /\ AddsSharer(md.state, e) => NewSharers(md, e, c) = md.sharers \cup {c}
         /\ RemovesSharer(md.state, e) => NewSharers(md, e, c) = md.sharers \ {c}
         /\ InvalidatesOthers(md.state, e) => NewSharers(md, e, c) = {}
         /\ ForwardsToOwner(md.state, e) /\ e = "GETS" => NewSharers(md, e, c) = {md.owner, c}
         /\ ~AddsSharer(md.state, e) /\ ~RemovesSharer(md.state, e) /\ ~InvalidatesOthers(md.state, e)
              /\ ~(ForwardsToOwner(md.state, e) /\ e = "GETS") => NewSharers(md, e, c) = md.sharers
<1>. DEFINE P == AddsSharer(md.state, e)
            Q == RemovesSharer(md.state, e)
            R == InvalidatesOthers(md.state, e)
            S == ForwardsToOwner(md.state, e) /\ e = "GETS"
<1>1. (P => ~Q /\ ~R /\ ~S) /\ (Q => ~R /\ ~S) /\ (R => ~S)
  BY DEF AddsSharer, RemovesSharer, InvalidatesOthers, ForwardsToOwner, PutEvent
<1>2. NewSharers(md, e, c) = CASE P -> md.sharers \cup {c} [] Q -> md.sharers \ {c} [] R -> {}
                               [] S -> {md.owner, c} [] OTHER -> md.sharers
  BY DEF NewSharers
<1>. HIDE DEF P, Q, R, S
<1>3. /\ P => NewSharers(md, e, c) = md.sharers \cup {c}
      /\ Q => NewSharers(md, e, c) = md.sharers \ {c}
      /\ R => NewSharers(md, e, c) = {}
      /\ S => NewSharers(md, e, c) = {md.owner, c}
      /\ ~P /\ ~Q /\ ~R /\ ~S => NewSharers(md, e, c) = md.sharers
  BY <1>1, <1>2, Zenon
<1>. QED
  BY <1>3, Zenon DEF P, Q, R, S

\* When the L2 copy becomes current, when it stops being so, and when neither.
LEMMA NewDataValidValue ==
  ASSUME NEW md, NEW e, NEW n
  PROVE  LET P == CopiesData(md.state, e) \/ e = "PUTE_OWNER"
             Q == SendsDataE(md.state, e) \/ (SendsData(md.state, e) /\ n = "M")
         IN  /\ P => NewDataValid(md, e, n) = TRUE
             /\ Q => NewDataValid(md, e, n) = FALSE
             /\ ~P /\ ~Q => NewDataValid(md, e, n) = md.data_valid
<1>. DEFINE P == CopiesData(md.state, e) \/ e = "PUTE_OWNER"
            Q == SendsDataE(md.state, e) \/ (SendsData(md.state, e) /\ n = "M")
<1>1. P => ~Q
  BY DEF CopiesData, SendsDataE, SendsData
<1>2. NewDataValid(md, e, n) = CASE P -> TRUE [] Q -> FALSE [] OTHER -> md.data_valid
  BY DEF NewDataValid
<1>. HIDE DEF P, Q
<1>3. /\ P => NewDataValid(md, e, n) = TRUE
      /\ Q => NewDataValid(md, e, n) = FALSE
      /\ ~P /\ ~Q => NewDataValid(md, e, n) = md.data_valid
  BY <1>1, <1>2, Zenon
<1>. QED
  BY <1>3 DEF P, Q

---------------------------------------------------------------------------
(* A request: the bookkeeping of the banks *)

\* What becomes of the entries of the banks: those of recalls stay.
RecallsKept ==
    \A g \in Home, i \in TbeIdx :
        tbe[g][i].state = "INV_PEND" \/ tbe'[g][i].state = "INV_PEND" => tbe'[g][i] = tbe[g][i]

\* A step that starts and ends no recall keeps what is said of recalls.
LEMMA RecallsFrame ==
  ASSUME TypeOK, TypeOK', RecallsKept, UNCHANGED binv
  PROVE  /\ \A k \in Line : SameRecall(k)
         /\ \A g \in Home : BinvActive(g)' <=> BinvActive(g)
<1>. SUFFICES ASSUME NEW k \in Line
              PROVE  SameRecall(k) /\ \A g \in Home : BinvActive(g)' <=> BinvActive(g)
  BY DEF RecallsKept, BinvActive
<1>. PICK h : h = HomeOf[k] /\ h \in Home
  BY NodeSets
<1>1. Recalled(k)' <=> Recalled(k)
  <2>1. Recalled(k) <=> \E i \in TbeIdx : tbe[h][i].state = "INV_PEND" /\ tbe[h][i].line = k
    BY DEF Recalled, Recalling, TbesOf
  <2>2. Recalled(k)' <=> \E i \in TbeIdx : tbe'[h][i].state = "INV_PEND" /\ tbe'[h][i].line = k
    BY DEF Recalled, Recalling, TbesOf
  <2>. QED
    BY <2>1, <2>2 DEF RecallsKept
<1>2. ASSUME NEW n PROVE RecallCount(k, n)' <=> RecallCount(k, n)
  <2>1. RecallCount(k, n) <=> \E i \in TbeIdx : tbe[h][i].state = "INV_PEND" /\ tbe[h][i].line = k /\ tbe[h][i].ack = n
    BY DEF RecallCount, TbesOf
  <2>2. RecallCount(k, n)' <=> \E i \in TbeIdx : tbe'[h][i].state = "INV_PEND" /\ tbe'[h][i].line = k /\ tbe'[h][i].ack = n
    BY DEF RecallCount, TbesOf
  <2>. QED
    BY <2>1, <2>2 DEF RecallsKept
<1>3. \A g \in Home : BinvActive(g)' <=> BinvActive(g)
  BY DEF RecallsKept, BinvActive
<1>. QED
  BY <1>1, <1>2, <1>3 DEF SameRecall

\* What executing a message does to the entries of the bank.
LEMMA ExecTbes ==
  ASSUME TypeOK, Banks, NEW h \in Home, NEW c \in Cache, NEW l \in Line, h = HomeOf[l], NEW e, NEW v, NEW q,
         NEW n \in DirState, Executed(h, c, l, e, v, q, n)
  PROVE  /\ \A g \in Home, i \in TbeIdx : g # h => tbe'[g][i] = tbe[g][i]
         /\ \/ /\ n = "S_D" /\ dir[l].state # "S_D"
               /\ \E j \in TbeIdx : /\ tbe[h][j].state = "INVALID"
                                    /\ tbe'[h][j].state = "WB_PEND" /\ tbe'[h][j].line = l
                                    /\ \A i \in TbeIdx : i # j => tbe'[h][i] = tbe[h][i]
            \/ /\ n # "S_D" /\ dir[l].state = "S_D"
               /\ \A i \in TbeIdx : IF i \in TbesOf(h, l) THEN tbe'[h][i].state = "INVALID"
                                    ELSE tbe'[h][i] = tbe[h][i]
            \/ /\ n = "S_D" <=> dir[l].state = "S_D"
               /\ \A i \in TbeIdx : tbe'[h][i] = tbe[h][i]
<1>0. tbe \in [Home -> [TbeIdx -> Tbe]]
  BY DEF TypeOK
<1>1. CASE NeedsTbe(dir[l], n)
  <2>1. n = "S_D" /\ dir[l].state # "S_D"
    BY <1>1 DEF NeedsTbe
  <2>2. FreeTbes(h) # {} /\ tbe' = [tbe EXCEPT ![h][AllocIdx(h)] = WbTbe(l)]
    BY <1>1 DEF Executed, AllocTbe
  <2>3. AllocIdx(h) \in TbeIdx /\ tbe[h][AllocIdx(h)].state = "INVALID"
    BY <2>2, AllocIdxType DEF FreeTbes
  <2>4. WbTbe(l).state = "WB_PEND" /\ WbTbe(l).line = l
    BY DEF WbTbe
  <2>. QED
    BY <1>0, <2>1, <2>2, <2>3, <2>4
<1>2. CASE ~NeedsTbe(dir[l], n) /\ dir[l].state = "S_D" /\ e = "DATA"
  <2>1. n # "S_D"
    BY <1>2 DEF Executed, DirArcs, PutEvent
  <2>2. tbe' = [tbe EXCEPT ![h] = [i \in TbeIdx |-> IF i \in TbesOf(h, l) THEN NoTbe ELSE @[i]]]
    BY <1>2 DEF Executed
  <2>3. NoTbe.state = "INVALID"
    BY DEF NoTbe
  <2>. QED
    BY <1>0, <1>2, <2>1, <2>2, <2>3
<1>3. CASE ~NeedsTbe(dir[l], n) /\ ~(dir[l].state = "S_D" /\ e = "DATA")
  <2>1. tbe' = tbe
    BY <1>3 DEF Executed
  <2>2. n = "S_D" <=> dir[l].state = "S_D"
    BY <1>3 DEF Executed, NeedsTbe, DirArcs, PutEvent
  <2>. QED
    BY <2>1, <2>2
<1>. QED
  BY <1>1, <1>2, <1>3

\* Executing an arc for a line not being recalled keeps the banks as they must
\* be: a buffer entry exactly while the line is in S_D.
LEMMA ExecBanks ==
  ASSUME TypeOK, TypeOK', Banks, NEW h \in Home, NEW c \in Cache, NEW l \in Line, h = HomeOf[l], NEW e, NEW v, NEW q,
         NEW n \in DirState, Executed(h, c, l, e, v, q, n),
         UNCHANGED binv, dir[l].present, ~Recalled(l),
         \A g \in Home : BinvActive(g) =>
            stuckReq'[g] = stuckReq[g] /\ \A d \in Cache : req'[d][g] = req[d][g]
  PROVE  /\ Banks'
         /\ \A k \in Line : SameRecall(k)
<1>1. /\ \A g \in Home, i \in TbeIdx : g # h => tbe'[g][i] = tbe[g][i]
      /\ \/ /\ n = "S_D" /\ dir[l].state # "S_D"
            /\ \E j \in TbeIdx : /\ tbe[h][j].state = "INVALID"
                                 /\ tbe'[h][j].state = "WB_PEND" /\ tbe'[h][j].line = l
                                 /\ \A i \in TbeIdx : i # j => tbe'[h][i] = tbe[h][i]
         \/ /\ n # "S_D" /\ dir[l].state = "S_D"
            /\ \A i \in TbeIdx : IF i \in TbesOf(h, l) THEN tbe'[h][i].state = "INVALID"
                                 ELSE tbe'[h][i] = tbe[h][i]
         \/ /\ n = "S_D" <=> dir[l].state = "S_D"
            /\ \A i \in TbeIdx : tbe'[h][i] = tbe[h][i]
  BY ExecTbes
<1>2. /\ dir'[l].present /\ dir'[l].state = n
      /\ \A k \in Line : k # l => dir'[k] = dir[k]
      /\ \A k \in Line : dir'[k].present <=> dir[k].present
  BY DEF Executed
<1>3. \A i \in TbesOf(h, l) : tbe[h][i].state = "WB_PEND"
  BY DEF TbesOf, Recalled, Recalling, TypeOK, Tbe, TbeState
<1>4. RecallsKept
  BY <1>1, <1>3 DEF RecallsKept
<1>5. (\A k \in Line : SameRecall(k)) /\ \A g \in Home : BinvActive(g)' <=> BinvActive(g)
  BY <1>4, RecallsFrame
<1>6. ASSUME NEW g \in Home PROVE HaveFreeWay(g)' <=> HaveFreeWay(g)
  <2>1. Resident(g)' = Resident(g)
    BY <1>2 DEF Resident, LinesOf
  <2>. QED
    BY <2>1 DEF HaveFreeWay
<1>7. ASSUME NEW g \in Home PROVE BankOf(g)'
  <2>1. BankOf(g)
    BY DEF Banks
  <2>2. /\ \A i \in TbeIdx : tbe'[g][i].state = "INV_PEND" =>
             binv'[g].idx = i /\ binv'[g].line = tbe'[g][i].line /\ dir'[tbe'[g][i].line].present
    <3>1. \A i \in TbeIdx : tbe[g][i].state = "INV_PEND" => tbe[g][i].line \in Line
      BY <2>1 DEF BankOf, LinesOf
    <3>. QED
      BY <1>2, <1>4, <2>1, <3>1 DEF BankOf, RecallsKept
  <2>3. BinvActive(g)' =>
         /\ ~HaveFreeWay(g)'
         /\ stuckReq'[g] \in Cache
         /\ req'[stuckReq'[g]][g] # <<>>
         /\ ~dir'[Head(req'[stuckReq'[g]][g]).line].present
    <3>. SUFFICES ASSUME BinvActive(g)
                  PROVE  /\ ~HaveFreeWay(g)'
                         /\ stuckReq'[g] \in Cache
                         /\ req'[stuckReq'[g]][g] # <<>>
                         /\ ~dir'[Head(req'[stuckReq'[g]][g]).line].present
      BY <1>5
    <3>. PICK d : d = stuckReq[g]
      OBVIOUS
    <3>1. d \in Cache /\ req[d][g] # <<>> /\ ~HaveFreeWay(g) /\ ~dir[Head(req[d][g]).line].present
      BY <2>1 DEF BankOf
    <3>2. stuckReq'[g] = d /\ req'[d][g] = req[d][g]
      BY <3>1
    <3>3. Head(req[d][g]) \in ReqMsg
      BY <3>1, HeadTail DEF TypeOK
    <3>4. Head(req[d][g]).line \in Line
      BY <3>3 DEF ReqMsg
    <3>. QED
      BY <1>2, <1>6, <3>1, <3>2, <3>4
  <2>4. /\ \A k \in LinesOf(g) : \A i, j \in TbesOf(g, k)' : i = j
        /\ \A i \in TbeIdx : tbe'[g][i].state # "INVALID" => tbe'[g][i].line \in LinesOf(g)
        /\ \A k \in LinesOf(g) :
             (dir'[k].state = "S_D") <=> \E i \in TbesOf(g, k)' : tbe'[g][i].state = "WB_PEND"
    <3>0. /\ \A k \in LinesOf(g) : \A i, j \in TbesOf(g, k) : i = j
          /\ \A i \in TbeIdx : tbe[g][i].state # "INVALID" => tbe[g][i].line \in LinesOf(g)
          /\ \A k \in LinesOf(g) :
               (dir[k].state = "S_D") <=> \E i \in TbesOf(g, k) : tbe[g][i].state = "WB_PEND"
          /\ \A k \in LinesOf(g) : k \in Line
      BY <2>1 DEF BankOf, LinesOf
    <3>1. CASE g # h
      <4>1. \A k \in LinesOf(g) : k # l
        BY <3>1 DEF LinesOf
      <4>. QED
        BY <1>1, <1>2, <3>0, <3>1, <4>1, SMTT(25), ZenonT(25) DEF TbesOf
    <3>2. CASE g = h
      <4>0. l \in LinesOf(g)
        BY <3>2 DEF LinesOf
      <4>1. CASE n = "S_D" /\ dir[l].state # "S_D"
        <5>1. PICK j \in TbeIdx : /\ tbe[h][j].state = "INVALID"
                                  /\ tbe'[h][j].state = "WB_PEND" /\ tbe'[h][j].line = l
                                  /\ \A i \in TbeIdx : i # j => tbe'[h][i] = tbe[h][i]
          BY <1>1, <4>1
        <5>2. TbesOf(h, l) = {}
          BY <1>3, <3>0, <3>2, <4>0, <4>1
        <5>3. TbesOf(h, l)' = {j}
          BY <5>1, <5>2 DEF TbesOf
        <5>4. \A k \in LinesOf(g) : k # l =>
                /\ TbesOf(h, k)' = TbesOf(h, k)
                /\ \A i \in TbesOf(h, k) : i \in TbeIdx /\ tbe'[h][i] = tbe[h][i]
          BY <5>1 DEF TbesOf
        <5>5. \A k \in LinesOf(g) : \A i1, i2 \in TbesOf(g, k)' : i1 = i2
          BY <3>0, <3>2, <5>3, <5>4
        <5>6. \A i \in TbeIdx : tbe'[g][i].state # "INVALID" => tbe'[g][i].line \in LinesOf(g)
          BY <3>0, <3>2, <4>0, <5>1
        <5>7. \A k \in LinesOf(g) :
             (dir'[k].state = "S_D") <=> \E i \in TbesOf(g, k)' : tbe'[g][i].state = "WB_PEND"
          <6>1. TAKE k \in LinesOf(g)
          <6>2. CASE k = l
            BY <1>2, <3>2, <4>1, <5>1, <5>3, <6>2
          <6>3. CASE k # l
            BY <1>2, <3>0, <3>2, <5>4, <6>3
          <6>. QED
            BY <6>2, <6>3
        <5>. QED
          BY <5>5, <5>6, <5>7
      <4>2. CASE n # "S_D" /\ dir[l].state = "S_D"
        <5>1. \A i \in TbeIdx : IF i \in TbesOf(h, l) THEN tbe'[h][i].state = "INVALID"
                                ELSE tbe'[h][i] = tbe[h][i]
          BY <1>1, <4>2
        <5>2. TbesOf(h, l)' = {}
          BY <5>1 DEF TbesOf
        <5>3. \A k \in LinesOf(g) : k # l => TbesOf(h, k)' = TbesOf(h, k) /\ \A i \in TbesOf(h, k) : tbe'[h][i] = tbe[h][i]
          BY <5>1 DEF TbesOf
        <5>4. \A i \in TbeIdx : tbe'[h][i].state # "INVALID" => tbe'[h][i] = tbe[h][i]
          BY <5>1
        <5>. QED
          BY <1>2, <3>0, <3>2, <4>0, <4>2, <5>2, <5>3, <5>4
      <4>3. CASE n = "S_D" <=> dir[l].state = "S_D"
        <5>1. \A i \in TbeIdx : tbe'[h][i] = tbe[h][i]
          BY <1>1, <4>3
        <5>2. \A k \in LinesOf(g) : TbesOf(h, k)' = TbesOf(h, k)
          BY <5>1 DEF TbesOf
        <5>3. \A k \in LinesOf(g) : \A i \in TbesOf(h, k) : i \in TbeIdx
          BY DEF TbesOf
        <5>. QED
          BY <1>2, <3>0, <3>2, <4>3, <5>1, <5>2, <5>3
      <4>. QED
        BY <4>1, <4>2, <4>3
    <3>. QED
      BY <3>1, <3>2
  <2>. QED
    BY <2>2, <2>3, <2>4 DEF BankOf, LinesOf
<1>. QED
  BY <1>5, <1>7 DEF Banks

---------------------------------------------------------------------------
(* A request: what it does *)

\* The bank of l has taken request t, with data v, of cache c.
Served(c, l, t, v, n) ==
    /\ dir[l].present /\ ~Recalled(l) /\ SameRecall(l)
    /\ Asks(c, l, t, v)
    /\ \A d \in Cache : \A t2, v2 :
         Asks(d, l, t2, v2)' <=> Asks(d, l, t2, v2) /\ ~(d = c /\ t2 = t /\ v2 = v)
    /\ SameCaches(l) /\ mem'[l] = mem[l] /\ latest'[l] = latest[l]
    /\ Executed(HomeOf[l], c, l, DirEventOf(t, dir[l], c), v, rsp, n)

\* The other lines, but for what is sent.
SameButSends(k) ==
    SameAsks(k) /\ SameCaches(k) /\ SameBank(k) /\ SameRecall(k) /\ latest'[k] = latest[k]

\* What remains to be shown of a message the bank of l has taken.
LineKept(l) ==
    /\ LineInv(l)' /\ RspChannels(rsp)' /\ FwdChannels'
    /\ \A k \in Line : k # l => SameAt(k) /\ SameSent(k)

\* What taking a request does, by its line, type, data and next state.
LEMMA TakeRequestServed ==
  ASSUME IInv, TypeOK', NEW h \in Home, NEW c \in Cache, TakeRequest(h, c)
  PROVE  \E l \in Line, t \in ReqType, v \in Version, n \in DirState :
            /\ Served(c, l, t, v, n)
            /\ ReqChannels' /\ Banks' /\ \A k \in Line : k # l => SameButSends(k)
<1>0. TypeOK /\ Channels /\ Banks /\ BankOf(h)
  BY DEF IInv, Banks
<1>. PICK m : m = Head(req[c][h])
  OBVIOUS
<1>1. ReqTaken(c, h, m)
  BY <1>0 DEF ReqTaken, TakeRequest, ReqPresented, Channels
<1>2. /\ m \in ReqMsg /\ HomeOf[m.line] = h
      /\ Asks(c, m.line, m.type, m.data)
      /\ \A d \in Cache, k \in Line : \A t, v :
           Asks(d, k, t, v)' <=> Asks(d, k, t, v)
                                   /\ ~(d = c /\ k = m.line /\ t = m.type /\ v = m.data)
      /\ ReqChannels'
  BY <1>1, TakeReqEffect
<1>. PICK l \in Line : l = m.line
  BY <1>2 DEF ReqMsg
<1>3. m.type \in ReqType /\ m.data \in Version /\ h = HomeOf[l]
  BY <1>2 DEF ReqMsg
<1>4. PICK n \in DirState : Executed(h, c, l, DirEventOf(m.type, dir[l], c), m.data, rsp, n)
  <2>1. DirExec(h, c, m, rsp)
    BY DEF TakeRequest
  <2>. QED
    BY <1>0, <2>1, ExecFacts
<1>5. dir[l].present
  BY DEF TakeRequest
<1>6. ~BinvActive(h)
  BY <1>0, TopologyAssumption DEF BankOf, TakeRequest, ReqPresented
<1>7. ~Recalled(l)
  BY <1>3, <1>6 DEF Recalled, Recalling, BinvActive, TbesOf
<1>8. Banks' /\ \A k \in Line : SameRecall(k)
  <2>1. \A g \in Home : BinvActive(g) =>
            stuckReq'[g] = stuckReq[g] /\ \A d \in Cache : req'[d][g] = req[d][g]
    BY <1>0, <1>6 DEF TakeRequest, TypeOK
  <2>2. UNCHANGED binv
    BY DEF TakeRequest
  <2>. QED
    BY <1>0, <1>3, <1>4, <1>5, <1>7, <2>1, <2>2, ExecBanks
<1>9. \A k \in Line : /\ SameCaches(k) /\ mem'[k] = mem[k] /\ latest'[k] = latest[k]
  BY DEF TakeRequest, SameCaches, l1Vars
<1>10. Served(c, l, m.type, m.data, n)
  BY <1>2, <1>3, <1>4, <1>5, <1>7, <1>8, <1>9, SMTT(25), ZenonT(25) DEF Served
<1>11. \A k \in Line : k # l => SameButSends(k)
  <2>1. \A k \in Line : k # l => dir'[k] = dir[k] /\ l2'[k] = l2[k]
    BY <1>4 DEF Executed
  <2>2. \A k \in Line : k # l => SameAsks(k)
    BY <1>2 DEF SameAsks
  <2>. QED
    BY <1>8, <1>9, <2>1, <2>2 DEF SameButSends, SameBank
<1>. QED
  BY <1>2, <1>3, <1>8, <1>10, <1>11

\* The request's sender asks nothing else, and is asked nothing on its own
\* behalf.
LEMMA ServedFacts ==
  ASSUME IInv, NEW c \in Cache, NEW l \in Line, NEW t \in ReqType, NEW v \in Version,
         NEW n \in DirState, Served(c, l, t, v, n)
  PROVE  /\ LineInv(l)
         /\ HasReq(c, l) /\ ~HasReq(c, l)'
         /\ \A t2 \in ReqType, v2 \in Version : ~Asks(c, l, t2, v2)'
         /\ \A d \in Cache : d # c =>
              /\ HasReq(d, l)' <=> HasReq(d, l)
              /\ \A t2, v2 : Asks(d, l, t2, v2)' <=> Asks(d, l, t2, v2)
         /\ ~mshr[c][l].done /\ ~HasData(c, l) /\ ~HasDataE(c, l) /\ ~At(c, l, "PUT_ACK", c)
         /\ \A s \in Node, t2 \in DataType, a \in AckField, v2 \in Version : ~Sent(s, c, l, t2, a, v2)
         /\ ~Waits(c, l)
         /\ \A p \in Cache : ~At(p, l, "FWD_GETS", c) /\ ~At(p, l, "FWD_GETM", c)
         /\ t \in {"GETS", "GETM"} =>
              /\ ~Own(c, l) /\ ~Expects(c, l)
              /\ Owed(c, l) = {}
              /\ mshr[c][l].op \in {"LD", "ST"}
<1>0. LineInv(l)
  BY DEF IInv
<1>1. /\ Asks(c, l, t, v)
      /\ \A d \in Cache : \A t2, v2 :
           Asks(d, l, t2, v2)' <=> Asks(d, l, t2, v2) /\ ~(d = c /\ t2 = t /\ v2 = v)
  BY DEF Served
<1>2. /\ \A t2 \in ReqType, v2 \in Version : Asks(c, l, t2, v2) => t2 = t /\ v2 = v
      /\ ~mshr[c][l].done /\ ~HasData(c, l) /\ ~At(c, l, "PUT_ACK", c)
      /\ t = "GETS" => mshr[c][l].op = "LD"
      /\ t = "GETM" => mshr[c][l].op = "ST" /\ l1[c][l] \in {"IM_AD", "SM_AD"}
  BY <1>0, <1>1 DEF LineInv, Questions
<1>3. /\ HasReq(c, l) /\ ~HasReq(c, l)'
      /\ \A t2 \in ReqType, v2 \in Version : ~Asks(c, l, t2, v2)'
      /\ \A d \in Cache : d # c =>
              /\ HasReq(d, l)' <=> HasReq(d, l)
              /\ \A t2, v2 : Asks(d, l, t2, v2)' <=> Asks(d, l, t2, v2)
  BY <1>1, <1>2 DEF HasReq
<1>4. /\ ~HasDataE(c, l)
      /\ \A s \in Node, t2 \in DataType, a \in AckField, v2 \in Version : ~Sent(s, c, l, t2, a, v2)
  BY <1>2, ZeroTypes DEF HasData, HasDataE, DataType
<1>5. ~Waits(c, l) /\ \A p \in Cache : ~At(p, l, "FWD_GETS", c) /\ ~At(p, l, "FWD_GETM", c)
  BY <1>0, <1>3 DEF LineInv, OwnerFwds, Waits
<1>6. ASSUME t \in {"GETS", "GETM"}
      PROVE /\ ~Own(c, l) /\ ~Expects(c, l)
            /\ Owed(c, l) = {}
            /\ mshr[c][l].op \in {"LD", "ST"}
  <2>1. mshr[c][l].op \in {"LD", "ST"}
    BY <1>2, <1>6
  <2>2. t = "GETS" => l1[c][l] = "IS_D"
    BY <1>0, <1>2 DEF LineInv, MshrMatches
  <2>3. ~Own(c, l)
    BY <1>2, <1>4, <1>6, <2>2 DEF Own
  <2>4. Owed(c, l) = {}
    BY <1>0, <2>3, ZeroTypes DEF LineInv, Invs, InvAcks, Owed
  <2>. QED
    BY <1>5, <2>1, <2>3, <2>4 DEF Expects
<1>. QED
  BY <1>0, <1>2, <1>3, <1>4, <1>5, <1>6

---------------------------------------------------------------------------
(* What a bank sends *)

\* The values the metadata and the data of a line range over.
LEMMA MetaValues ==
  ASSUME TypeOK, NEW l \in Line
  PROVE  /\ dir[l].sharers \in SUBSET Cache /\ dir[l].state \in {"I", "S", "E", "M", "S_D"}
         /\ dir[l].owner \in Cache \cup {None} /\ dir[l].present \in BOOLEAN /\ dir[l].data_valid \in BOOLEAN
         /\ l2[l] \in Version /\ mem[l] \in Version /\ latest[l] \in Version
BY DEF TypeOK, Meta, DirState

\* A line nobody owns and that is not being recalled has nothing in flight but
\* requests, data and PutAcks.
LEMMA IdleFacts ==
  ASSUME TypeOK, NEW l \in Line, LineInv(l), dir[l].state \in {"I", "S"}, dir[l].present, ~Recalled(l)
  PROVE  /\ ~WbInFlight(l)
         /\ \A d \in Cache : /\ ~Own(d, l) /\ ~Waits(d, l) /\ ~Expects(d, l) /\ ~HasOwnerFwd(d, l)
                             /\ ~HasInv(d, l) /\ Owed(d, l) = {}
                             /\ Shares(d, l) => d \in dir[l].sharers /\ dir[l].state = "S"
                             /\ \A r \in Node : \A t \in OwnerFwd : ~At(d, l, t, r)
                             /\ \A r \in Cache : ~At(d, l, "INV", r)
                             /\ ~At(d, l, "RECALL", HomeOf[l]) /\ ~At(d, l, "RECALL_INV", HomeOf[l])
                             /\ \A r \in Cache, a \in AckField, v \in Version : ~Sent(d, r, l, "INV_ACK", a, v)
                             /\ \A t \in RspToDir, a \in AckField, v \in Version : ~Sent(d, HomeOf[l], l, t, a, v)
         /\ RecallOwed(l) = {}
         /\ dir[l].data_valid /\ l2[l] = latest[l] /\ ~Exclusive(l)
         /\ dir[l].state = "I" => dir[l].sharers = {}
<1>1. \A d \in Cache : ~Own(d, l) /\ ~Waits(d, l) /\ ~Expects(d, l) /\ ~HasOwnerFwd(d, l)
  BY DEF LineInv, Owners, Expects
<1>2. \A d \in Cache : \A r \in Node : \A t \in OwnerFwd : ~At(d, l, t, r)
  BY <1>1 DEF HasOwnerFwd
<1>3. \A d, r \in Cache : ~At(d, l, "INV", r)
  BY <1>1 DEF LineInv, Invs
<1>4. \A d, r \in Cache, a \in AckField, v \in Version : ~Sent(d, r, l, "INV_ACK", a, v)
  BY <1>1 DEF LineInv, InvAcks
<1>5. \A d \in Cache : ~At(d, l, "RECALL", HomeOf[l]) /\ ~At(d, l, "RECALL_INV", HomeOf[l])
  BY DEF LineInv, Recalls
<1>6. \A d \in Cache, a \in AckField, v \in Version : ~Sent(d, HomeOf[l], l, "RECALL_ACK", a, v)
  BY DEF LineInv, Recalls
<1>7. \A d \in Cache, a \in AckField, v \in Version : ~Sent(d, HomeOf[l], l, "WB_DATA", a, v)
  BY DEF LineInv, WriteBacks
<1>8. \A d \in Cache, t \in RspToDir, a \in AckField, v \in Version : ~Sent(d, HomeOf[l], l, t, a, v)
  BY <1>6, <1>7 DEF RspToDir
<1>9. \A d \in Cache : ~HasInv(d, l) /\ Owed(d, l) = {}
  BY <1>3, <1>4, ZeroTypes DEF HasInv, Owed
<1>10. \A d \in Cache : Shares(d, l) => d \in dir[l].sharers /\ dir[l].state = "S"
  BY <1>1, <1>9 DEF LineInv, Sharers
<1>11. ~WbInFlight(l) /\ RecallOwed(l) = {}
  BY <1>5, <1>7, <1>8, ZeroTypes DEF WbInFlight, RecallOwed
<1>12. dir[l].data_valid /\ l2[l] = latest[l] /\ ~Exclusive(l)
  BY DEF LineInv, BankCopy, Exclusive
<1>13. dir[l].state = "I" => \A d \in Cache : d \notin dir[l].sharers
  BY DEF LineInv, Sharers
<1>. QED
  BY <1>1, <1>2, <1>3, <1>4, <1>5, <1>8, <1>9, <1>10, <1>11, <1>12, <1>13, MetaValues

\* The bank sends the line to c, which has no data on its way.
GivesData(c, l, t0, a0, v0) ==
    /\ TypeOK /\ RspChannels(rsp) /\ c \in Cache /\ l \in Line /\ t0 \in {"DATA_E", "DATA_DIR"}
    /\ a0 \in AckField /\ v0 \in Version
    /\ \A s \in Node, t \in DataType, a \in AckField, v \in Version : ~Sent(s, c, l, t, a, v)
    /\ rsp' = SendRsp(rsp, HomeOf[l], c, Response(t0, l, a0, v0))

\* The data is on its way to c, and that is all the step sends.
GaveData(c, l, t0, a0, v0) ==
    /\ \A s, d \in Node : \A t, a, v :
         Sent(s, d, l, t, a, v)' <=>
           \/ Sent(s, d, l, t, a, v)
           \/ s = HomeOf[l] /\ d = c /\ t = t0 /\ a = a0 /\ v = v0
    /\ \A k \in Line : k # l => SameSent(k)
    /\ RspChannels(rsp)'
    /\ \A d \in Cache : d # c => \A s \in Node : \A t, a, v : Sent(s, d, l, t, a, v)' <=> Sent(s, d, l, t, a, v)
    /\ \A s \in Node : \A t \in DataType, a \in AckField, v \in Version :
         Sent(s, c, l, t, a, v)' <=> s = HomeOf[l] /\ t = t0 /\ a = a0 /\ v = v0
    /\ \A s \in Node : \A d \in Cache : \A a, v :
         Sent(s, d, l, "INV_ACK", a, v)' <=> Sent(s, d, l, "INV_ACK", a, v)
    /\ \A s \in Node : \A t, a, v : Sent(s, HomeOf[l], l, t, a, v)' <=> Sent(s, HomeOf[l], l, t, a, v)
    /\ HasData(c, l)' /\ (HasDataE(c, l)' <=> t0 = "DATA_E" /\ a0 = 0)
    /\ \A d \in Cache : d # c => (HasData(d, l)' <=> HasData(d, l)) /\ (HasDataE(d, l)' <=> HasDataE(d, l))
    /\ WbInFlight(l)' <=> WbInFlight(l)
    /\ RecallOwed(l)' = RecallOwed(l) \/ ~SameAt(l)
    /\ \A d \in Cache : Owed(d, l)' = Owed(d, l) \/ ~SameAt(l)

\* Sending data to a cache that has none on its way.
LEMMA DirData ==
  ASSUME NEW c, NEW l, NEW t0, NEW a0, NEW v0, GivesData(c, l, t0, a0, v0)
  PROVE  GaveData(c, l, t0, a0, v0)
<1>. USE DEF GivesData
<1>1. Sends(HomeOf[l], c, l, t0, a0, v0)
  <2>1. RspFits(HomeOf[l], c, Response(t0, l, a0, v0))
    BY NodeSets, ResponseEq, TopologyAssumption DEF RspFits
  <2>2. t0 \in RspType /\ t0 \in DataType /\ rsp \in [Node -> [Node -> Seq(RspMsg)]]
    BY DEF RspType, RspToL1, TypeOK, DataType
  <2>. QED
    BY <2>1, <2>2, NodeSets DEF Sent, Sends, CanSend
<1>2. /\ \A s, d \in Node : \A t, a, v :
           Sent(s, d, l, t, a, v)' <=>
             \/ Sent(s, d, l, t, a, v)
             \/ s = HomeOf[l] /\ d = c /\ t = t0 /\ a = a0 /\ v = v0
      /\ \A k \in Line : k # l => SameSent(k)
      /\ RspChannels(rsp)'
  BY <1>1, SendOne
<1>3. \A d \in Cache : d \in Node /\ HomeOf[l] \in Node /\ HomeOf[l] # d
  BY NodeSets
<1>4. t0 \in DataType /\ t0 # "INV_ACK"
  BY DEF DataType
<1>5. /\ \A d \in Cache : d # c => \A s \in Node : \A t, a, v : Sent(s, d, l, t, a, v)' <=> Sent(s, d, l, t, a, v)
      /\ \A s \in Node : \A t \in DataType, a \in AckField, v \in Version :
           Sent(s, c, l, t, a, v)' <=> s = HomeOf[l] /\ t = t0 /\ a = a0 /\ v = v0
  BY <1>2, <1>3
<1>6. /\ \A s \in Node : \A d \in Cache : \A a, v :
           Sent(s, d, l, "INV_ACK", a, v)' <=> Sent(s, d, l, "INV_ACK", a, v)
      /\ \A s \in Node : \A t, a, v : Sent(s, HomeOf[l], l, t, a, v)' <=> Sent(s, HomeOf[l], l, t, a, v)
  BY <1>2, <1>3, <1>4
<1>7. HasData(c, l)' /\ (HasDataE(c, l)' <=> t0 = "DATA_E" /\ a0 = 0)
  <2>1. HasData(c, l)'
    BY <1>3, <1>4, <1>5 DEF HasData
  <2>2. HasDataE(c, l)' <=> t0 = "DATA_E" /\ a0 = 0
    BY <1>3, <1>5, ZeroTypes DEF HasDataE, DataType
  <2>. QED
    BY <2>1, <2>2
<1>8. \A d \in Cache : d # c => (HasData(d, l)' <=> HasData(d, l)) /\ (HasDataE(d, l)' <=> HasDataE(d, l))
  BY <1>5 DEF HasData, HasDataE
<1>9. WbInFlight(l)' <=> WbInFlight(l)
  BY <1>3, <1>6 DEF WbInFlight
<1>10. RecallOwed(l)' = RecallOwed(l) \/ ~SameAt(l)
  BY <1>3, <1>6 DEF RecallOwed, SameAt
<1>11. \A d \in Cache : Owed(d, l)' = Owed(d, l) \/ ~SameAt(l)
  BY <1>3, <1>6 DEF Owed, SameAt
<1>. QED
  BY <1>2, <1>5, <1>6, <1>7, <1>8, <1>9, <1>10, <1>11 DEF GaveData

\* The bank of l has queued a forward to each cache of ds.
Forwards(l, ds, t0, r0) ==
    /\ TypeOK /\ FwdChannels /\ l \in Line /\ t0 \in FwdType /\ r0 \in Node
    /\ \A c \in Cache : c \in ds => /\ ~At(c, l, t0, r0)
                                    /\ ~At(c, l, "PUT_ACK", c)
                                    /\ OnBehalf(Forward(t0, l, r0), HomeOf[l], c)
    /\ fwd' = SendFwd(HomeOf[l], ds, Forward(t0, l, r0))

\* The forwards a bank sends are about the line it serves.
LEMMA DirForwards ==
  ASSUME NEW l, NEW ds, NEW t0, NEW r0, Forwards(l, ds, t0, r0)
  PROVE  /\ \A c \in Cache : \A t, r :
              At(c, l, t, r)' <=> At(c, l, t, r) \/ (c \in ds /\ t = t0 /\ r = r0)
         /\ \A k \in Line : k # l => SameAt(k)
         /\ FwdChannels'
<1>1. /\ TypeOK /\ FwdChannels /\ l \in Line /\ t0 \in FwdType /\ r0 \in Node
      /\ \A c \in Cache : c \in ds => /\ ~At(c, l, t0, r0)
                                      /\ ~At(c, l, "PUT_ACK", c)
                                      /\ OnBehalf(Forward(t0, l, r0), HomeOf[l], c)
      /\ fwd' = SendFwd(HomeOf[l], ds, Forward(t0, l, r0))
  BY DEF Forwards
<1>2. /\ \A c \in Cache, k \in Line : \A t, r :
           At(c, k, t, r)' <=> At(c, k, t, r) \/ (k = l /\ c \in ds /\ t = t0 /\ r = r0)
      /\ FwdChannels'
  BY <1>1, SendFwdEffect
<1>. QED
  BY <1>1, <1>2 DEF SameAt

\* An execution that forwards nothing.
LEMMA NoForward ==
  ASSUME TypeOK, FwdChannels, NEW l \in Line, NEW t0 \in FwdType, NEW r0 \in Node,
         fwd' = SendFwd(HomeOf[l], {}, Forward(t0, l, r0))
  PROVE  FwdChannels' /\ \A k \in Line : SameAt(k)
<1>. PICK ds : ds = {}
  OBVIOUS
<1>1. /\ \A c \in Cache : c \notin ds
      /\ fwd' = SendFwd(HomeOf[l], ds, Forward(t0, l, r0))
  OBVIOUS
<1>2. /\ \A c \in Cache, k \in Line : \A t, r :
           At(c, k, t, r)' <=> At(c, k, t, r) \/ (k = l /\ c \in ds /\ t = t0 /\ r = r0)
      /\ FwdChannels'
  BY <1>1, SendFwdEffect
<1>. QED
  BY <1>1, <1>2 DEF SameAt

---------------------------------------------------------------------------
(* A GetS to a line nobody holds *)

\* The table event each message is to a bank (dir_ctrl's decode).
LEMMA DirEvents ==
  ASSUME NEW md, NEW c
  PROVE  /\ DirEventOf("GETS", md, c) = "GETS"
         /\ DirEventOf("GETM", md, c) = "GETM"
         /\ DirEventOf("WB_DATA", md, c) = "DATA"
         /\ md.sharers \ {c} = {} => DirEventOf("PUTS", md, c) = "PUTS_LAST"
         /\ md.sharers \ {c} # {} => DirEventOf("PUTS", md, c) = "PUTS_NOT_LAST"
         /\ IsOwner(md, c) => DirEventOf("PUTM", md, c) = "PUTM_OWNER" /\ DirEventOf("PUTE", md, c) = "PUTE_OWNER"
         /\ ~IsOwner(md, c) => DirEventOf("PUTM", md, c) = "PUTM_NON_OWNER" /\ DirEventOf("PUTE", md, c) = "PUTE_NON_OWNER"
BY DEF DirEventOf

\* What no request disturbs.
LEMMA ServedFrame ==
  ASSUME IInv, NEW c \in Cache, NEW l \in Line, NEW t \in ReqType, NEW v \in Version,
         NEW n \in DirState, Served(c, l, t, v, n)
  PROVE  /\ LineInv(l) /\ TypeOK /\ Channels /\ Banks
         /\ \A d \in Cache : l1'[d][l] = l1[d][l] /\ mshr'[d][l] = mshr[d][l] /\ copy'[d][l] = copy[d][l]
         /\ latest'[l] = latest[l] /\ mem'[l] = mem[l]
         /\ dir[l].present /\ ~Recalled(l) /\ ~Recalled(l)'
         /\ \A k : RecallCount(l, k)' <=> RecallCount(l, k)
         /\ dir'[l].present /\ dir'[l].state = n
         /\ MshrMatches(l)'
         /\ \A k : ~RecallCount(l, k)
<1>1. LineInv(l) /\ TypeOK /\ Channels /\ Banks
  BY DEF IInv
<1>2. /\ \A d \in Cache : l1'[d][l] = l1[d][l] /\ mshr'[d][l] = mshr[d][l] /\ copy'[d][l] = copy[d][l]
      /\ latest'[l] = latest[l] /\ mem'[l] = mem[l]
      /\ dir[l].present /\ ~Recalled(l) /\ ~Recalled(l)'
      /\ \A k : RecallCount(l, k)' <=> RecallCount(l, k)
      /\ dir'[l].present /\ dir'[l].state = n
  BY DEF Served, SameCaches, SameRecall, Executed
<1>3. MshrMatches(l)'
  BY <1>1, <1>2 DEF LineInv, MshrMatches
<1>4. \A k : ~RecallCount(l, k)
  BY <1>2 DEF Recalled, Recalling, RecallCount
<1>. QED
  BY <1>1, <1>2, <1>3, <1>4

\* A GetS for a line nobody holds, when the exclusive state is in use.
LEMMA ServedGrantE ==
  ASSUME IInv, NEW c \in Cache, NEW l \in Line, NEW v \in Version,
         NEW n \in DirState, Served(c, l, "GETS", v, n), dir[l].state = "I", EnableE
  PROVE  LineKept(l)
<1>0. "GETS" \in ReqType
  BY DEF ReqType
<1>1. /\ LineInv(l) /\ TypeOK /\ Channels /\ Banks
      /\ \A d \in Cache : l1'[d][l] = l1[d][l] /\ mshr'[d][l] = mshr[d][l] /\ copy'[d][l] = copy[d][l]
      /\ latest'[l] = latest[l] /\ mem'[l] = mem[l]
      /\ dir[l].present /\ ~Recalled(l) /\ ~Recalled(l)'
      /\ \A k : RecallCount(l, k)' <=> RecallCount(l, k)
      /\ dir'[l].present /\ dir'[l].state = n
      /\ MshrMatches(l)'
      /\ \A k : ~RecallCount(l, k)
  BY <1>0, ServedFrame
<1>2. /\ HasReq(c, l) /\ ~HasReq(c, l)'
      /\ \A t2 \in ReqType, v2 \in Version : ~Asks(c, l, t2, v2)'
      /\ \A d \in Cache : d # c =>
              /\ HasReq(d, l)' <=> HasReq(d, l)
              /\ \A t2, v2 : Asks(d, l, t2, v2)' <=> Asks(d, l, t2, v2)
      /\ ~mshr[c][l].done /\ ~HasData(c, l) /\ ~HasDataE(c, l) /\ ~At(c, l, "PUT_ACK", c)
      /\ \A s \in Node, t2 \in DataType, a \in AckField, v2 \in Version : ~Sent(s, c, l, t2, a, v2)
      /\ mshr[c][l].op = "LD" /\ l1[c][l] = "IS_D"
  <2>1. mshr[c][l].op = "LD" /\ l1[c][l] = "IS_D"
    BY <1>0, <1>1 DEF LineInv, Questions, Served, MshrMatches
  <2>. QED
    BY <1>0, <2>1, ServedFacts
<1>3. /\ ~WbInFlight(l)
      /\ \A d \in Cache : /\ ~Own(d, l) /\ ~Waits(d, l) /\ ~Expects(d, l) /\ ~HasOwnerFwd(d, l)
                          /\ ~HasInv(d, l) /\ Owed(d, l) = {}
                          /\ ~Shares(d, l)
                          /\ \A r \in Node : \A t \in OwnerFwd : ~At(d, l, t, r)
                          /\ \A r \in Cache : ~At(d, l, "INV", r)
                          /\ ~At(d, l, "RECALL", HomeOf[l]) /\ ~At(d, l, "RECALL_INV", HomeOf[l])
                          /\ \A r \in Cache, a \in AckField, x \in Version : ~Sent(d, r, l, "INV_ACK", a, x)
                          /\ \A t \in RspToDir, a \in AckField, x \in Version : ~Sent(d, HomeOf[l], l, t, a, x)
      /\ RecallOwed(l) = {}
      /\ l2[l] = latest[l]
      /\ dir[l].sharers = {}
  BY <1>1, IdleFacts
<1>4. /\ dir'[l].state = "E" /\ dir'[l].owner = c /\ dir'[l].sharers = {} /\ l2'[l] = l2[l]
      /\ rsp' = SendRsp(rsp, HomeOf[l], c, Response("DATA_E", l, 0, l2[l]))
      /\ fwd' = SendFwd(HomeOf[l], {}, Forward("INV", l, c))
  <2>1. Executed(HomeOf[l], c, l, "GETS", v, rsp, n)
    BY DirEvents DEF Served
  <2>2. <<"I", "GETS", n>> \in DirArcs
    BY <2>1 DEF Executed
  <2>3. n = "E"
    BY <2>2 DEF DirArcs, PutEvent
  <2>4. /\ SendsDataE(dir[l].state, "GETS") /\ SetsOwner(dir[l].state, "GETS") /\ ~CopiesData(dir[l].state, "GETS")
        /\ ~SendsPutAck("GETS") /\ ~ForwardsToOwner(dir[l].state, "GETS")
        /\ InvTargets(dir[l], "GETS", c) = {}
        /\ ~AddsSharer(dir[l].state, "GETS") /\ ~RemovesSharer(dir[l].state, "GETS")
        /\ ~InvalidatesOthers(dir[l].state, "GETS")
    BY DEF SendsDataE, SetsOwner, CopiesData, SendsPutAck, ForwardsToOwner, InvTargets,
       InvalidatesOthers, PutEvent, AddsSharer, RemovesSharer
  <2>5. NewSharers(dir[l], "GETS", c) = {}
    BY <1>3, <2>4, NewSharersValue
  <2>. QED
    BY <2>1, <2>3, <2>4, <2>5, <1>1 DEF Executed
<1>5. FwdChannels' /\ \A k \in Line : SameAt(k)
  <2>1. "INV" \in FwdType /\ c \in Node
    BY NodeSets DEF FwdType
  <2>. QED
    BY <1>1, <1>4, <2>1, NoForward DEF Channels
<1>6. /\ \A k \in Line : k # l => SameSent(k)
      /\ RspChannels(rsp)'
      /\ \A d \in Cache : d # c => \A s \in Node : \A t, a, x : Sent(s, d, l, t, a, x)' <=> Sent(s, d, l, t, a, x)
      /\ \A s \in Node : \A t \in DataType, a \in AckField, x \in Version :
           Sent(s, c, l, t, a, x)' <=> s = HomeOf[l] /\ t = "DATA_E" /\ a = 0 /\ x = l2[l]
      /\ \A s \in Node : \A d \in Cache : \A a, x : Sent(s, d, l, "INV_ACK", a, x)' <=> Sent(s, d, l, "INV_ACK", a, x)
      /\ \A s \in Node : \A t, a, x : Sent(s, HomeOf[l], l, t, a, x)' <=> Sent(s, HomeOf[l], l, t, a, x)
      /\ HasData(c, l)' /\ HasDataE(c, l)'
      /\ \A d \in Cache : d # c => (HasData(d, l)' <=> HasData(d, l)) /\ (HasDataE(d, l)' <=> HasDataE(d, l))
      /\ WbInFlight(l)' <=> WbInFlight(l)
      /\ RecallOwed(l)' = RecallOwed(l)
      /\ \A d \in Cache : Owed(d, l)' = Owed(d, l)
  <2>1. l2[l] \in Version /\ SameAt(l)
    BY <1>1, <1>5, MetaValues
  <2>2. GivesData(c, l, "DATA_E", 0, l2[l])
    BY <1>1, <1>2, <1>4, <2>1, ZeroTypes DEF Channels, GivesData
  <2>3. GaveData(c, l, "DATA_E", 0, l2[l])
    BY <2>2, DirData
  <2>. QED
    BY <2>1, <2>3 DEF GaveData
<1>7. \A d \in Cache : /\ HasOwnerFwd(d, l)' <=> HasOwnerFwd(d, l)
                       /\ HasInv(d, l)' <=> HasInv(d, l)
                       /\ Waits(d, l)' <=> Waits(d, l)
  BY <1>5, AtFrame
<1>8. /\ Own(c, l)' /\ Expects(c, l)'
      /\ \A d \in Cache : d # c => ~Own(d, l)' /\ ~Expects(d, l)'
      /\ \A d \in Cache : ~Shares(d, l)'
      /\ Exclusive(l)'
  <2>1. Own(c, l)'
    BY <1>1, <1>2, <1>6 DEF Own
  <2>2. \A d \in Cache : d # c => ~Own(d, l)'
    BY <1>1, <1>2, <1>3, <1>6, <1>7 DEF Own
  <2>3. ~Shares(c, l)'
    BY <1>1, <1>2, <1>3, <1>6 DEF Shares
  <2>4. \A d \in Cache : d # c => ~Shares(d, l)'
    BY <1>1, <1>3, <1>6 DEF Shares
  <2>. QED
    BY <1>3, <1>4, <1>7, <2>1, <2>2, <2>3, <2>4 DEF Expects, Exclusive
<1>. USE <1>1, <1>2, <1>3
<1>22. Questions(l)'
  BY <1>5, <1>6 DEF LineInv, Questions, SameAt
<1>23. PutAcks(l)' /\ DataMsgs(l)'
  <2>1. PutAcks(l)'
    BY <1>5 DEF LineInv, PutAcks, SameAt
  <2>2. DataMsgs(l)'
    BY <1>6 DEF LineInv, DataMsgs
  <2>. QED
    BY <2>1, <2>2
<1>24. Owners(l)'
  BY <1>4, <1>6, <1>7, <1>8 DEF Owners
<1>25. OwnerFwds(l)' /\ NoCycle(l)'
  <2>1. \A d \in Cache : \A r \in Node : \A t \in OwnerFwd : ~At(d, l, t, r)'
    BY <1>5 DEF SameAt
  <2>2. \A d \in Cache : \A r \in Cache : ~At(d, l, "FWD_GETS", r)' /\ ~At(d, l, "FWD_GETM", r)'
    BY <2>1, NodeSets DEF OwnerFwd
  <2>3. dir'[l].state # "S_D"
    BY <1>4
  <2>4. \A d \in Cache : \A r \in Node : ~At(d, l, "FWD_GETS", r)' /\ ~At(d, l, "FWD_GETM", r)'
    BY <2>1 DEF OwnerFwd
  <2>. QED
    BY <2>1, <2>2, <2>3, <2>4 DEF OwnerFwds, NoCycle
<1>26. WriteBacks(l)'
  BY <1>6, NodeSets DEF WriteBacks, RspToDir
<1>27. Sharers(l)'
  BY <1>4, <1>8 DEF Sharers
<1>28. Invs(l)' /\ InvAcks(l)'
  BY <1>5, <1>6, NodeSets DEF Invs, InvAcks, SameAt
<1>29. AckCounts(l)'
  BY <1>6, NodeSets DEF LineInv, AckCounts
<1>30. Recalls(l)'
  BY <1>5, <1>6, NodeSets DEF Recalls, SameAt, RspToDir
<1>31. Contents(l)'
  <2>1. \A d \in Cache : Own(d, l)' => d = c
    BY <1>8
  <2>2. \A d \in Cache, s \in Node, t \in DataType, a \in AckField, x \in Version :
         Sent(s, d, l, t, a, x)' => x = latest[l]
    BY <1>6 DEF LineInv, Contents
  <2>3. \A d \in Cache, x \in Version : ~Sent(d, HomeOf[l], l, "WB_DATA", 0, x)'
    BY <1>6, ZeroTypes, NodeSets DEF RspToDir
  <2>4. /\ \A d \in Cache : Readable(d, l)' => copy'[d][l] = latest'[l]
        /\ \A d \in Cache :
             mshr'[d][l].op \in {"LD", "ST"} /\ (mshr'[d][l].done \/ l1'[d][l] \in {"IM_A", "SM_A"}) =>
                mshr'[d][l].data = latest'[l]
    BY DEF LineInv, Contents, Readable
  <2>5. \A d \in Cache : l1'[d][l] \in {"EI_A", "MI_A"} => ~Own(d, l)'
    BY <2>1
  <2>6. \A d \in Cache, x \in Version : Asks(d, l, "PUTM", x)' => ~Own(d, l)'
    BY <2>1 DEF ReqType
  <2>. QED
    BY <2>2, <2>3, <2>4, <2>5, <2>6 DEF Contents
<1>32. BankCopy(l)'
  BY <1>4, <1>8 DEF BankCopy
<1>. QED
  BY <1>5, <1>6, <1>22, <1>23, <1>24, <1>25, <1>26, <1>27, <1>28, <1>29, <1>30, <1>31,
     <1>32 DEF LineInv, LineKept

---------------------------------------------------------------------------
(* A GetM to a line nobody owns *)

\* A GetM for a line nobody owns: the other sharers are invalidated.
LEMMA ServedGrantM ==
  ASSUME IInv, CachesFit, NEW c \in Cache, NEW l \in Line, NEW v \in Version,
         NEW n \in DirState, Served(c, l, "GETM", v, n), dir[l].state \in {"I", "S"}
  PROVE  LineKept(l)
<1>. DEFINE J == dir[l].sharers \ {c}
<1>0. "GETM" \in ReqType
  BY DEF ReqType
<1>1. /\ LineInv(l) /\ TypeOK /\ Channels /\ Banks
      /\ \A d \in Cache : l1'[d][l] = l1[d][l] /\ mshr'[d][l] = mshr[d][l] /\ copy'[d][l] = copy[d][l]
      /\ latest'[l] = latest[l] /\ mem'[l] = mem[l]
      /\ dir[l].present /\ ~Recalled(l) /\ ~Recalled(l)'
      /\ \A k : RecallCount(l, k)' <=> RecallCount(l, k)
      /\ dir'[l].present /\ dir'[l].state = n
      /\ MshrMatches(l)'
      /\ \A k : ~RecallCount(l, k)
  BY <1>0, ServedFrame
<1>2. /\ HasReq(c, l) /\ ~HasReq(c, l)'
      /\ \A t2 \in ReqType, v2 \in Version : ~Asks(c, l, t2, v2)'
      /\ \A d \in Cache : d # c =>
              /\ HasReq(d, l)' <=> HasReq(d, l)
              /\ \A t2, v2 : Asks(d, l, t2, v2)' <=> Asks(d, l, t2, v2)
      /\ ~mshr[c][l].done /\ ~HasData(c, l) /\ ~HasDataE(c, l) /\ ~At(c, l, "PUT_ACK", c)
      /\ \A s \in Node, t2 \in DataType, a \in AckField, v2 \in Version : ~Sent(s, c, l, t2, a, v2)
      /\ mshr[c][l].op = "ST" /\ l1[c][l] \in {"IM_AD", "SM_AD"} /\ mshr[c][l].ack = 0
  <2>1. mshr[c][l].op = "ST" /\ l1[c][l] \in {"IM_AD", "SM_AD"} /\ mshr[c][l].ack = 0
    BY <1>0, <1>1 DEF LineInv, Questions, Served, MshrMatches
  <2>. QED
    BY <1>0, <2>1, ServedFacts
<1>3. /\ ~WbInFlight(l)
      /\ \A d \in Cache : /\ ~Own(d, l) /\ ~Waits(d, l) /\ ~Expects(d, l) /\ ~HasOwnerFwd(d, l)
                          /\ ~HasInv(d, l) /\ Owed(d, l) = {}
                          /\ Shares(d, l) => d \in dir[l].sharers
                          /\ \A r \in Node : \A t \in OwnerFwd : ~At(d, l, t, r)
                          /\ \A r \in Cache : ~At(d, l, "INV", r)
                          /\ ~At(d, l, "RECALL", HomeOf[l]) /\ ~At(d, l, "RECALL_INV", HomeOf[l])
                          /\ \A r \in Cache, a \in AckField, x \in Version : ~Sent(d, r, l, "INV_ACK", a, x)
                          /\ \A t \in RspToDir, a \in AckField, x \in Version : ~Sent(d, HomeOf[l], l, t, a, x)
      /\ RecallOwed(l) = {}
      /\ l2[l] = latest[l]
      /\ dir[l].state = "I" => dir[l].sharers = {}
      /\ \A d \in Cache : d \in dir[l].sharers => ~At(d, l, "PUT_ACK", d) /\ l1[d][l] \in Invalidatable
  <2>1. \A d \in Cache : d \in dir[l].sharers =>
            ~At(d, l, "PUT_ACK", d) /\ (HasOwnerFwd(d, l) \/ l1[d][l] \in Invalidatable)
    BY <1>1 DEF LineInv, Sharers
  <2>. QED
    BY <1>1, <2>1, IdleFacts
<1>4. /\ dir'[l].state = "M" /\ dir'[l].owner = c /\ dir'[l].sharers = {} /\ l2'[l] = l2[l]
      /\ rsp' = SendRsp(rsp, HomeOf[l], c, Response("DATA_DIR", l, Cardinality(J), l2[l]))
      /\ fwd' = SendFwd(HomeOf[l], J, Forward("INV", l, c))
      /\ J \in SUBSET Cache /\ Cardinality(J) \in AckField
  <2>1. Executed(HomeOf[l], c, l, "GETM", v, rsp, n)
    BY DirEvents DEF Served
  <2>2. <<dir[l].state, "GETM", n>> \in DirArcs
    BY <2>1 DEF Executed
  <2>3. n = "M"
    BY <2>2 DEF DirArcs, PutEvent
  <2>4. /\ ~SendsDataE(dir[l].state, "GETM") /\ SendsData(dir[l].state, "GETM")
        /\ SetsOwner(dir[l].state, "GETM") /\ ~CopiesData(dir[l].state, "GETM")
        /\ ~SendsPutAck("GETM") /\ ~ForwardsToOwner(dir[l].state, "GETM")
        /\ ~AddsSharer(dir[l].state, "GETM") /\ ~RemovesSharer(dir[l].state, "GETM")
        /\ InvalidatesOthers(dir[l].state, "GETM") <=> dir[l].state = "S"
    BY DEF SendsDataE, SendsData, SetsOwner, CopiesData, SendsPutAck, ForwardsToOwner,
       InvalidatesOthers, PutEvent, AddsSharer, RemovesSharer
  <2>5. NewSharers(dir[l], "GETM", c) = {}
    BY <1>3, <2>4, NewSharersValue
  <2>6. InvTargets(dir[l], "GETM", c) = J
    BY <1>3, <2>4 DEF InvTargets
  <2>7. J \in SUBSET Cache
    BY <1>1, MetaValues
  <2>8. Cardinality(J) % AckHalf = Cardinality(J) /\ Cardinality(J) \in AckField
    <3>1. Cardinality(J) < AckHalf
      BY <2>7, AllButOne
    <3>. QED
      BY <2>7, <3>1, CacheCount
  <2>. HIDE DEF J
  <2>. QED
    BY <2>1, <2>3, <2>4, <2>5, <2>6, <2>7, <2>8, <1>1 DEF Executed
<1>. HIDE DEF J
<1>5. /\ FwdChannels' /\ \A k \in Line : k # l => SameAt(k)
      /\ \A d \in Cache : \A t, r : At(d, l, t, r)' <=> At(d, l, t, r) \/ (d \in J /\ t = "INV" /\ r = c)
  <2>1. "INV" \in FwdType /\ c \in Node
    BY NodeSets DEF FwdType
  <2>2. \A d \in Cache : d \in J => /\ ~At(d, l, "INV", c)
                                   /\ ~At(d, l, "PUT_ACK", d)
                                   /\ OnBehalf(Forward("INV", l, c), HomeOf[l], d)
    BY <1>3, ForwardEq DEF J, OnBehalf
  <2>3. Forwards(l, J, "INV", c)
    BY <1>1, <1>4, <2>1, <2>2 DEF Channels, Forwards
  <2>. QED
    BY <2>3, DirForwards
<1>6. /\ \A k \in Line : k # l => SameSent(k)
      /\ RspChannels(rsp)'
      /\ \A d \in Cache : d # c => \A s \in Node : \A t, a, x : Sent(s, d, l, t, a, x)' <=> Sent(s, d, l, t, a, x)
      /\ \A s \in Node : \A t \in DataType, a \in AckField, x \in Version :
           Sent(s, c, l, t, a, x)' <=> s = HomeOf[l] /\ t = "DATA_DIR" /\ a = Cardinality(J) /\ x = l2[l]
      /\ \A s \in Node : \A d \in Cache : \A a, x : Sent(s, d, l, "INV_ACK", a, x)' <=> Sent(s, d, l, "INV_ACK", a, x)
      /\ \A s \in Node : \A t, a, x : Sent(s, HomeOf[l], l, t, a, x)' <=> Sent(s, HomeOf[l], l, t, a, x)
      /\ HasData(c, l)' /\ ~HasDataE(c, l)'
      /\ \A d \in Cache : d # c => (HasData(d, l)' <=> HasData(d, l)) /\ (HasDataE(d, l)' <=> HasDataE(d, l))
      /\ WbInFlight(l)' <=> WbInFlight(l)
  <2>1. l2[l] \in Version
    BY <1>1, MetaValues
  <2>2. GivesData(c, l, "DATA_DIR", Cardinality(J), l2[l])
    BY <1>1, <1>2, <1>4, <2>1, ZeroTypes DEF Channels, GivesData
  <2>3. GaveData(c, l, "DATA_DIR", Cardinality(J), l2[l])
    BY <2>2, DirData
  <2>. QED
    BY <2>1, <2>3 DEF GaveData
<1>7. \A d \in Cache : /\ HasOwnerFwd(d, l)' <=> HasOwnerFwd(d, l)
                       /\ HasInv(d, l)' <=> d \in J
                       /\ Waits(d, l)' <=> Waits(d, l)
  BY <1>3, <1>5 DEF HasOwnerFwd, OwnerFwd, HasInv, Waits
<1>9. Owed(c, l)' = J /\ \A d \in Cache : d # c => Owed(d, l)' = {}
  BY <1>3, <1>4, <1>5, <1>6, NodeSets, ZeroTypes DEF Owed
<1>8. /\ Own(c, l)' /\ Expects(c, l)'
      /\ \A d \in Cache : d # c => ~Own(d, l)' /\ ~Expects(d, l)'
      /\ \A d \in Cache : Shares(d, l)' => d = c \/ d \in J
      /\ Exclusive(l)'
  <2>1. Own(c, l)'
    BY <1>1, <1>2, <1>6 DEF Own
  <2>2. \A d \in Cache : d # c => ~Own(d, l)'
    BY <1>1, <1>2, <1>3, <1>6, <1>7 DEF Own
  <2>4. \A d \in Cache : d # c => (Shares(d, l)' => d \in J)
    BY <1>1, <1>3, <1>6 DEF Shares, J
  <2>. QED
    BY <1>3, <1>4, <1>7, <2>1, <2>2, <2>4 DEF Expects, Exclusive
<1>. USE <1>1, <1>2, <1>3
<1>22. Questions(l)'
  BY <1>5, <1>6 DEF LineInv, Questions, SameAt
<1>23. PutAcks(l)' /\ DataMsgs(l)'
  <2>1. PutAcks(l)'
    BY <1>5 DEF LineInv, PutAcks, SameAt
  <2>2. DataMsgs(l)'
    BY <1>6 DEF LineInv, DataMsgs
  <2>. QED
    BY <2>1, <2>2
<1>24. Owners(l)'
  BY <1>4, <1>6, <1>7, <1>8 DEF Owners
<1>25. OwnerFwds(l)' /\ NoCycle(l)'
  <2>1. \A d \in Cache : \A r \in Node : \A t \in OwnerFwd : ~At(d, l, t, r)'
    BY <1>5 DEF OwnerFwd
  <2>2. \A d \in Cache : \A r \in Cache : ~At(d, l, "FWD_GETS", r)' /\ ~At(d, l, "FWD_GETM", r)'
    BY <2>1, NodeSets DEF OwnerFwd
  <2>3. dir'[l].state # "S_D"
    BY <1>4
  <2>4. \A d \in Cache : \A r \in Node : ~At(d, l, "FWD_GETS", r)' /\ ~At(d, l, "FWD_GETM", r)'
    BY <2>1 DEF OwnerFwd
  <2>. QED
    BY <2>1, <2>2, <2>3, <2>4 DEF OwnerFwds, NoCycle
<1>26. WriteBacks(l)'
  BY <1>6, NodeSets DEF WriteBacks, RspToDir
<1>27. Sharers(l)'
  BY <1>4, <1>7, <1>8 DEF Sharers
<1>28. Invs(l)' /\ InvAcks(l)'
  <2>1. InvAcks(l)'
    BY <1>6, NodeSets DEF InvAcks
  <2>2. \A d \in J : d # c /\ l1[d][l] \in Invalidatable
    BY <1>3, <1>4 DEF J
  <2>3. \A d, r \in Cache : At(d, l, "INV", r)' => d \in J /\ r = c
    BY <1>5
  <2>4. \A d \in Cache : ~Sent(d, c, l, "INV_ACK", 0, 0)'
    BY <1>6, NodeSets, ZeroTypes
  <2>. QED
    BY <1>8, <2>1, <2>2, <2>3, <2>4 DEF Invs
<1>29. AckCounts(l)'
  <2>1. Cardinality({}) = 0 /\ Cardinality(J) \in Int
    BY <1>4, FS_EmptySet DEF AckField
  <2>2. \A r \in Cache : r # c => Owed(r, l)' = Owed(r, l)
    BY <1>9
  <2>. QED
    BY <1>6, <1>9, <2>1, <2>2, NodeSets DEF LineInv, AckCounts
<1>30. Recalls(l)'
  BY <1>5, <1>6, NodeSets DEF Recalls, SameAt, RspToDir
<1>31. Contents(l)'
  <2>1. \A d \in Cache : Own(d, l)' => d = c
    BY <1>8
  <2>2. \A d \in Cache, s \in Node, t \in DataType, a \in AckField, x \in Version :
         Sent(s, d, l, t, a, x)' => x = latest[l]
    BY <1>6 DEF LineInv, Contents
  <2>3. \A d \in Cache, x \in Version : ~Sent(d, HomeOf[l], l, "WB_DATA", 0, x)'
    BY <1>6, ZeroTypes, NodeSets DEF RspToDir
  <2>4. /\ \A d \in Cache : Readable(d, l)' => copy'[d][l] = latest'[l]
        /\ \A d \in Cache :
             mshr'[d][l].op \in {"LD", "ST"} /\ (mshr'[d][l].done \/ l1'[d][l] \in {"IM_A", "SM_A"}) =>
                mshr'[d][l].data = latest'[l]
    BY DEF LineInv, Contents, Readable
  <2>5. \A d \in Cache : l1'[d][l] \in {"EI_A", "MI_A"} => ~Own(d, l)'
    BY <2>1
  <2>6. \A d \in Cache, x \in Version : Asks(d, l, "PUTM", x)' => ~Own(d, l)'
    BY <2>1 DEF ReqType
  <2>. QED
    BY <2>2, <2>3, <2>4, <2>5, <2>6 DEF Contents
<1>32. BankCopy(l)'
  BY <1>4, <1>8 DEF BankCopy
<1>. QED
  BY <1>5, <1>6, <1>22, <1>23, <1>24, <1>25, <1>26, <1>27, <1>28, <1>29, <1>30, <1>31,
     <1>32 DEF LineInv, LineKept

---------------------------------------------------------------------------
(* A GetS answered with a shared copy *)

\* A GetS answered with a shared copy.
LEMMA ServedShare ==
  ASSUME IInv, NEW c \in Cache, NEW l \in Line, NEW v \in Version,
         NEW n \in DirState, Served(c, l, "GETS", v, n), dir[l].state = "S" \/ (dir[l].state = "I" /\ ~EnableE)
  PROVE  LineKept(l)
<1>0. "GETS" \in ReqType
  BY DEF ReqType
<1>1. /\ LineInv(l) /\ TypeOK /\ Channels /\ Banks
      /\ \A d \in Cache : l1'[d][l] = l1[d][l] /\ mshr'[d][l] = mshr[d][l] /\ copy'[d][l] = copy[d][l]
      /\ latest'[l] = latest[l] /\ mem'[l] = mem[l]
      /\ dir[l].present /\ ~Recalled(l) /\ ~Recalled(l)'
      /\ \A k : RecallCount(l, k)' <=> RecallCount(l, k)
      /\ dir'[l].present /\ dir'[l].state = n
      /\ MshrMatches(l)'
      /\ \A k : ~RecallCount(l, k)
  BY <1>0, ServedFrame
<1>2. /\ HasReq(c, l) /\ ~HasReq(c, l)'
      /\ \A t2 \in ReqType, v2 \in Version : ~Asks(c, l, t2, v2)'
      /\ \A d \in Cache : d # c =>
              /\ HasReq(d, l)' <=> HasReq(d, l)
              /\ \A t2, v2 : Asks(d, l, t2, v2)' <=> Asks(d, l, t2, v2)
      /\ ~mshr[c][l].done /\ ~HasData(c, l) /\ ~HasDataE(c, l) /\ ~At(c, l, "PUT_ACK", c)
      /\ \A s \in Node, t2 \in DataType, a \in AckField, v2 \in Version : ~Sent(s, c, l, t2, a, v2)
      /\ mshr[c][l].op = "LD" /\ l1[c][l] = "IS_D"
  <2>1. mshr[c][l].op = "LD" /\ l1[c][l] = "IS_D"
    BY <1>0, <1>1 DEF LineInv, Questions, Served, MshrMatches
  <2>. QED
    BY <1>0, <2>1, ServedFacts
<1>3. /\ ~WbInFlight(l)
      /\ \A d \in Cache : /\ ~Own(d, l) /\ ~Waits(d, l) /\ ~Expects(d, l) /\ ~HasOwnerFwd(d, l)
                          /\ ~HasInv(d, l) /\ Owed(d, l) = {}
                          /\ Shares(d, l) => d \in dir[l].sharers
                          /\ \A r \in Node : \A t \in OwnerFwd : ~At(d, l, t, r)
                          /\ \A r \in Cache : ~At(d, l, "INV", r)
                          /\ ~At(d, l, "RECALL", HomeOf[l]) /\ ~At(d, l, "RECALL_INV", HomeOf[l])
                          /\ \A r \in Cache, a \in AckField, x \in Version : ~Sent(d, r, l, "INV_ACK", a, x)
                          /\ \A t \in RspToDir, a \in AckField, x \in Version : ~Sent(d, HomeOf[l], l, t, a, x)
      /\ RecallOwed(l) = {}
      /\ l2[l] = latest[l]
      /\ dir[l].data_valid
      /\ \A d \in Cache : d \in dir[l].sharers => ~At(d, l, "PUT_ACK", d) /\ l1[d][l] \in Invalidatable
  <2>1. \A d \in Cache : d \in dir[l].sharers =>
            ~At(d, l, "PUT_ACK", d) /\ (HasOwnerFwd(d, l) \/ l1[d][l] \in Invalidatable)
    BY <1>1 DEF LineInv, Sharers
  <2>. QED
    BY <1>1, <2>1, IdleFacts
<1>4. /\ dir'[l].state = "S" /\ dir'[l].data_valid /\ l2'[l] = l2[l]
      /\ \A d : d \in dir'[l].sharers <=> d \in dir[l].sharers \/ d = c
      /\ rsp' = SendRsp(rsp, HomeOf[l], c, Response("DATA_DIR", l, 0, l2[l]))
      /\ fwd' = SendFwd(HomeOf[l], {}, Forward("INV", l, c))
  <2>1. Executed(HomeOf[l], c, l, "GETS", v, rsp, n)
    BY DirEvents DEF Served
  <2>2. <<dir[l].state, "GETS", n>> \in DirArcs
    BY <2>1 DEF Executed
  <2>3. n = "S"
    BY <2>2 DEF DirArcs, PutEvent
  <2>4. /\ ~SendsDataE(dir[l].state, "GETS") /\ SendsData(dir[l].state, "GETS")
        /\ ~CopiesData(dir[l].state, "GETS") /\ AddsSharer(dir[l].state, "GETS")
        /\ ~SendsPutAck("GETS") /\ ~ForwardsToOwner(dir[l].state, "GETS")
        /\ InvTargets(dir[l], "GETS", c) = {}
    BY DEF SendsDataE, SendsData, CopiesData, SendsPutAck, ForwardsToOwner, InvTargets,
       InvalidatesOthers, PutEvent, AddsSharer
  <2>5. NewSharers(dir[l], "GETS", c) = dir[l].sharers \cup {c}
    BY <2>4, NewSharersValue
  <2>6. NewDataValid(dir[l], "GETS", n) = dir[l].data_valid
    BY <2>3, <2>4, NewDataValidValue
  <2>7. Cardinality({}) % AckHalf = 0
    BY SizeAssumption, FS_EmptySet
  <2>. QED
    BY <2>1, <2>3, <2>4, <2>5, <2>6, <2>7, <1>1, <1>3, SMTT(20), ZenonT(30) DEF Executed
<1>5. FwdChannels' /\ \A k \in Line : SameAt(k)
  <2>1. "INV" \in FwdType /\ c \in Node
    BY NodeSets DEF FwdType
  <2>. QED
    BY <1>1, <1>4, <2>1, NoForward DEF Channels
<1>6. /\ \A k \in Line : k # l => SameSent(k)
      /\ RspChannels(rsp)'
      /\ \A d \in Cache : d # c => \A s \in Node : \A t, a, x : Sent(s, d, l, t, a, x)' <=> Sent(s, d, l, t, a, x)
      /\ \A s \in Node : \A t \in DataType, a \in AckField, x \in Version :
           Sent(s, c, l, t, a, x)' <=> s = HomeOf[l] /\ t = "DATA_DIR" /\ a = 0 /\ x = l2[l]
      /\ \A s \in Node : \A d \in Cache : \A a, x : Sent(s, d, l, "INV_ACK", a, x)' <=> Sent(s, d, l, "INV_ACK", a, x)
      /\ \A s \in Node : \A t, a, x : Sent(s, HomeOf[l], l, t, a, x)' <=> Sent(s, HomeOf[l], l, t, a, x)
      /\ HasData(c, l)' /\ ~HasDataE(c, l)'
      /\ \A d \in Cache : d # c => (HasData(d, l)' <=> HasData(d, l)) /\ (HasDataE(d, l)' <=> HasDataE(d, l))
      /\ WbInFlight(l)' <=> WbInFlight(l)
      /\ RecallOwed(l)' = RecallOwed(l)
      /\ \A d \in Cache : Owed(d, l)' = Owed(d, l)
  <2>1. l2[l] \in Version /\ SameAt(l)
    BY <1>1, <1>5, MetaValues
  <2>. PICK a0, v0, t0 : a0 = 0 /\ v0 = l2[l] /\ t0 = "DATA_DIR"
    OBVIOUS
  <2>2. GivesData(c, l, t0, a0, v0)
    BY <1>1, <1>2, <1>4, <2>1, ZeroTypes DEF Channels, GivesData
  <2>3. GaveData(c, l, t0, a0, v0)
    BY <2>2, DirData
  <2>. QED
    BY <2>1, <2>3 DEF GaveData
<1>7. \A d \in Cache : /\ HasOwnerFwd(d, l)' <=> HasOwnerFwd(d, l)
                       /\ HasInv(d, l)' <=> HasInv(d, l)
                       /\ Waits(d, l)' <=> Waits(d, l)
  BY <1>5, AtFrame
<1>8. /\ \A d \in Cache : ~Own(d, l)' /\ ~Expects(d, l)'
      /\ \A d \in Cache : Shares(d, l)' => d = c \/ d \in dir[l].sharers
      /\ ~Exclusive(l)'
  <2>1. ~Own(c, l)'
    BY <1>1, <1>2, <1>6 DEF Own
  <2>2. \A d \in Cache : d # c => ~Own(d, l)'
    BY <1>1, <1>2, <1>3, <1>6, <1>7 DEF Own
  <2>4. \A d \in Cache : d # c => (Shares(d, l)' => d \in dir[l].sharers)
    BY <1>1, <1>3, <1>6 DEF Shares
  <2>. QED
    BY <1>3, <1>4, <1>7, <2>1, <2>2, <2>4 DEF Expects, Exclusive
<1>. USE <1>1, <1>2, <1>3
<1>22. Questions(l)'
  BY <1>5, <1>6 DEF LineInv, Questions, SameAt
<1>23. PutAcks(l)' /\ DataMsgs(l)'
  <2>1. PutAcks(l)'
    BY <1>5 DEF LineInv, PutAcks, SameAt
  <2>2. DataMsgs(l)'
    BY <1>6 DEF LineInv, DataMsgs
  <2>. QED
    BY <2>1, <2>2
<1>24. Owners(l)'
  BY <1>4, <1>6, <1>7, <1>8 DEF Owners
<1>25. OwnerFwds(l)' /\ NoCycle(l)'
  <2>1. \A d \in Cache : \A r \in Node : \A t \in OwnerFwd : ~At(d, l, t, r)'
    BY <1>5 DEF SameAt
  <2>2. \A d \in Cache : \A r \in Cache : ~At(d, l, "FWD_GETS", r)' /\ ~At(d, l, "FWD_GETM", r)'
    BY <2>1, NodeSets DEF OwnerFwd
  <2>3. dir'[l].state # "S_D"
    BY <1>4
  <2>4. \A d \in Cache : \A r \in Node : ~At(d, l, "FWD_GETS", r)' /\ ~At(d, l, "FWD_GETM", r)'
    BY <2>1 DEF OwnerFwd
  <2>. QED
    BY <2>1, <2>2, <2>3, <2>4 DEF OwnerFwds, NoCycle
<1>26. WriteBacks(l)'
  BY <1>6, NodeSets DEF WriteBacks, RspToDir
<1>27. Sharers(l)'
  BY <1>4, <1>5, <1>8 DEF Sharers, SameAt, Invalidatable
<1>28. Invs(l)' /\ InvAcks(l)'
  BY <1>5, <1>6, NodeSets DEF Invs, InvAcks, SameAt
<1>29. AckCounts(l)'
  BY <1>6, NodeSets DEF LineInv, AckCounts
<1>30. Recalls(l)'
  BY <1>5, <1>6, NodeSets DEF Recalls, SameAt, RspToDir
<1>31. Contents(l)'
  <2>1. \A d \in Cache : ~Own(d, l)'
    BY <1>8
  <2>2. \A d \in Cache, s \in Node, t \in DataType, a \in AckField, x \in Version :
         Sent(s, d, l, t, a, x)' => x = latest[l]
    BY <1>6 DEF LineInv, Contents
  <2>3. \A d \in Cache, x \in Version : ~Sent(d, HomeOf[l], l, "WB_DATA", 0, x)'
    BY <1>6, ZeroTypes, NodeSets DEF RspToDir
  <2>4. /\ \A d \in Cache : Readable(d, l)' => copy'[d][l] = latest'[l]
        /\ \A d \in Cache :
             mshr'[d][l].op \in {"LD", "ST"} /\ (mshr'[d][l].done \/ l1'[d][l] \in {"IM_A", "SM_A"}) =>
                mshr'[d][l].data = latest'[l]
    BY DEF LineInv, Contents, Readable
  <2>5. \A d \in Cache : l1'[d][l] \in {"EI_A", "MI_A"} => ~Own(d, l)'
    BY <2>1
  <2>6. \A d \in Cache, x \in Version : Asks(d, l, "PUTM", x)' => ~Own(d, l)'
    BY <2>1 DEF ReqType
  <2>. QED
    BY <2>2, <2>3, <2>4, <2>5, <2>6 DEF Contents
<1>32. BankCopy(l)'
  BY <1>4, <1>8 DEF BankCopy
<1>. QED
  BY <1>5, <1>6, <1>22, <1>23, <1>24, <1>25, <1>26, <1>27, <1>28, <1>29, <1>30, <1>31,
     <1>32 DEF LineInv, LineKept

---------------------------------------------------------------------------
(* A request forwarded to the owner *)

\* A line with a recorded owner, not being recalled: nothing has been asked of
\* the owner, and it will answer.
LEMMA OwnedFacts ==
  ASSUME IInv, OwnerKnown, NEW l \in Line, dir[l].state \in {"E", "M"}, ~Recalled(l), NEW p, p = dir[l].owner
  PROVE  /\ p \in Cache /\ Expects(p, l) /\ ~HasOwnerFwd(p, l) /\ ~At(p, l, "PUT_ACK", p)
         /\ l1[p][l] \in {"EI_A", "MI_A"} => HasReq(p, l)
         /\ \A r \in Node : \A t \in OwnerFwd : ~At(p, l, t, r)
         /\ ~WbInFlight(l)
         /\ \A d \in Cache : d \notin dir[l].sharers
         /\ \A d \in Cache : Expects(d, l) /\ d # p => HasOwnerFwd(d, l)
         /\ \A d \in Cache : HasOwnerFwd(d, l) => Expects(d, l)
         /\ \A d, r \in Cache : ~At(d, l, "FWD_GETS", r)
         /\ \A d \in Cache : \A r \in Node : \A t \in OwnerFwd : At(d, l, t, r) => t = "FWD_GETM" /\ r \in Cache
         /\ \A d \in Cache : ~At(d, l, "RECALL", HomeOf[l]) /\ ~At(d, l, "RECALL_INV", HomeOf[l])
         /\ \A d \in Cache : \A t \in RspToDir, a \in AckField, x \in Version : ~Sent(d, HomeOf[l], l, t, a, x)
         /\ \A d \in Cache : Shares(d, l) => HasInv(d, l) \/ Own(d, l)
         /\ RecallOwed(l) = {}
<1>0. LineInv(l) /\ TypeOK /\ Channels /\ p \in Cache /\ Exclusive(l)
  BY DEF IInv, OwnerKnown, Exclusive
<1>1. Expects(p, l) /\ ~WbInFlight(l)
  BY <1>0 DEF LineInv, Owners
<1>2. \A d \in Cache : ~At(d, l, "RECALL", HomeOf[l]) /\ ~At(d, l, "RECALL_INV", HomeOf[l])
  BY <1>0 DEF LineInv, Recalls
<1>3. \A d \in Cache : \A r \in Node : ~At(d, l, "RECALL", r)
  <2>. SUFFICES ASSUME NEW d \in Cache, NEW r \in Node, At(d, l, "RECALL", r) PROVE FALSE
    OBVIOUS
  <2>. PICK h \in Home : h = HomeOf[l]
    BY NodeSets
  <2>1. PICK m \in Items(fwd[h][d]) : m = Forward("RECALL", l, r)
    BY DEF At
  <2>2. OnBehalf(m, h, d)
    BY <1>0 DEF Channels, FwdChannels
  <2>3. r = h
    BY <2>1, <2>2, ForwardEq DEF OnBehalf
  <2>. QED
    BY <1>2, <2>3
<1>4. \A d, r \in Cache : ~At(d, l, "FWD_GETS", r)
  BY <1>0 DEF LineInv, OwnerFwds
<1>5. \A d \in Cache : \A r \in Node : \A t \in {"FWD_GETS", "FWD_GETM"} : At(d, l, t, r) => r \in Cache
  <2>. SUFFICES ASSUME NEW d \in Cache, NEW r \in Node, NEW t \in {"FWD_GETS", "FWD_GETM"}, At(d, l, t, r)
                PROVE  r \in Cache
    OBVIOUS
  <2>. PICK h \in Home : h = HomeOf[l]
    BY NodeSets
  <2>1. PICK m \in Items(fwd[h][d]) : m = Forward(t, l, r)
    BY DEF At
  <2>2. OnBehalf(m, h, d)
    BY <1>0 DEF Channels, FwdChannels
  <2>. QED
    BY <2>1, <2>2, ForwardEq DEF OnBehalf
<1>6. \A d \in Cache : \A r \in Node : \A t \in OwnerFwd : At(d, l, t, r) => t = "FWD_GETM" /\ r \in Cache
  BY <1>3, <1>4, <1>5 DEF OwnerFwd
<1>7. \A r \in Node : \A t \in OwnerFwd : ~At(p, l, t, r)
  BY <1>0, <1>6 DEF LineInv, OwnerFwds
<1>8. ~HasOwnerFwd(p, l)
  BY <1>7 DEF HasOwnerFwd
<1>9. l1[p][l] \in {"EI_A", "MI_A"} => HasReq(p, l)
  <2>. SUFFICES ASSUME l1[p][l] \in {"EI_A", "MI_A"}, ~HasReq(p, l) PROVE FALSE
    OBVIOUS
  <2>1. mshr[p][l].op = "EV"
    BY <1>0, StateValues DEF LineInv, MshrMatches, StableL1
  <2>2. ~Own(p, l)
    BY <1>8, <2>1 DEF Own
  <2>3. Waits(p, l)
    BY <1>1, <2>2 DEF Expects
  <2>. QED
    BY <1>0, <2>1, <2>3 DEF LineInv, OwnerFwds, Waits
<1>10. ~At(p, l, "PUT_ACK", p)
  <2>. SUFFICES ASSUME At(p, l, "PUT_ACK", p) PROVE FALSE
    OBVIOUS
  <2>1. mshr[p][l].op = "EV" /\ ~mshr[p][l].done
    BY <1>0 DEF LineInv, PutAcks
  <2>2. l1[p][l] \in Evicting
    BY <1>0, <2>1 DEF LineInv, MshrMatches
  <2>3. ~HasReq(p, l)
    BY <1>0 DEF LineInv, Questions, HasReq
  <2>4. ~Own(p, l)
    BY <1>9, <2>1, <2>2, <2>3 DEF Own, Evicting
  <2>5. Waits(p, l)
    BY <1>1, <2>4 DEF Expects
  <2>. QED
    BY <1>0, <2>1, <2>5 DEF LineInv, OwnerFwds, Waits
<1>11. \A d \in Cache : d \notin dir[l].sharers
  BY <1>0 DEF LineInv, Sharers
<1>12. \A d \in Cache : (Expects(d, l) /\ d # p => HasOwnerFwd(d, l)) /\ (HasOwnerFwd(d, l) => Expects(d, l))
  BY <1>0 DEF LineInv, Owners
<1>13. \A d \in Cache : \A t \in RspToDir, a \in AckField, x \in Version : ~Sent(d, HomeOf[l], l, t, a, x)
  <2>1. \A d \in Cache, a \in AckField, x \in Version : ~Sent(d, HomeOf[l], l, "RECALL_ACK", a, x)
    BY <1>0 DEF LineInv, Recalls
  <2>2. \A d \in Cache, a \in AckField, x \in Version : ~Sent(d, HomeOf[l], l, "WB_DATA", a, x)
    BY <1>0 DEF LineInv, WriteBacks
  <2>. QED
    BY <2>1, <2>2 DEF RspToDir
<1>14. RecallOwed(l) = {}
  BY <1>2, <1>13, ZeroTypes DEF RecallOwed
<1>15. \A d \in Cache : Shares(d, l) => HasInv(d, l) \/ Own(d, l)
  BY <1>0, <1>11 DEF LineInv, Sharers
<1>. QED
  BY <1>0, <1>1, <1>2, <1>4, <1>6, <1>7, <1>8, <1>9, <1>10, <1>11, <1>12, <1>13, <1>14, <1>15

\* A GetS or a GetM forwarded to the recorded owner.
LEMMA ServedForward ==
  ASSUME IInv, OwnerKnown, NEW c \in Cache, NEW l \in Line, NEW t \in {"GETS", "GETM"}, NEW v \in Version,
         NEW n \in DirState, Served(c, l, t, v, n), dir[l].state \in {"E", "M"}
  PROVE  \E p \in Cache :
           /\ p = dir[l].owner /\ p # c
           /\ dir'[l].state = IF t = "GETS" THEN "S_D" ELSE "M"
           /\ t = "GETM" => dir'[l].owner = c
           /\ \A d : d \in dir'[l].sharers <=> t = "GETS" /\ d \in {p, c}
           /\ rsp' = rsp
           /\ FwdChannels' /\ \A k \in Line : k # l => SameAt(k)
           /\ \A d \in Cache : \A t2, r : At(d, l, t2, r)' <=>
                \/ At(d, l, t2, r)
                \/ d = p /\ t2 = (IF t = "GETS" THEN "FWD_GETS" ELSE "FWD_GETM") /\ r = c
           /\ l2'[l] = l2[l]
<1>. PICK t2 : t2 = IF t = "GETS" THEN "FWD_GETS" ELSE "FWD_GETM"
  OBVIOUS
<1>. PICK p : p = dir[l].owner
  OBVIOUS
<1>0. t \in ReqType
  BY DEF ReqType
<1>1. LineInv(l) /\ TypeOK /\ Channels /\ ~Recalled(l) /\ dir'[l].state = n
  BY <1>0, ServedFrame
<1>2. /\ p \in Cache /\ Expects(p, l) /\ ~At(p, l, "PUT_ACK", p)
      /\ \A r \in Node : \A u \in OwnerFwd : ~At(p, l, u, r)
      /\ \A d \in Cache : d \notin dir[l].sharers
  BY <1>1, OwnedFacts
<1>3. p # c
  BY <1>0, <1>2, ServedFacts
<1>4. dir[l].sharers = {}
  BY <1>1, <1>2, MetaValues
<1>5. /\ n = IF t = "GETS" THEN "S_D" ELSE "M"
      /\ t = "GETM" => dir'[l].owner = c
      /\ \A d : d \in dir'[l].sharers <=> t = "GETS" /\ d \in {p, c}
      /\ rsp' = rsp
      /\ fwd' = SendFwd(HomeOf[l], {p}, Forward(t2, l, c))
      /\ l2'[l] = l2[l]
  <2>1. Executed(HomeOf[l], c, l, t, v, rsp, n)
    BY DirEvents DEF Served
  <2>2. <<dir[l].state, t, n>> \in DirArcs
    BY <2>1 DEF Executed
  <2>3. n = IF t = "GETS" THEN "S_D" ELSE "M"
    BY <2>2 DEF DirArcs, PutEvent
  <2>4. /\ ~SendsDataE(dir[l].state, t) /\ ~SendsData(dir[l].state, t)
        /\ ~CopiesData(dir[l].state, t) /\ ~AddsSharer(dir[l].state, t)
        /\ ~RemovesSharer(dir[l].state, t) /\ ~InvalidatesOthers(dir[l].state, t)
        /\ ~SendsPutAck(t) /\ ForwardsToOwner(dir[l].state, t)
        /\ t = "GETM" => SetsOwner(dir[l].state, t)
    BY DEF SendsDataE, SendsData, CopiesData, SendsPutAck, ForwardsToOwner, InvalidatesOthers,
       PutEvent, AddsSharer, RemovesSharer, SetsOwner
  <2>5. /\ t = "GETS" => NewSharers(dir[l], t, c) = {p, c}
        /\ t = "GETM" => NewSharers(dir[l], t, c) = {}
    BY <1>4, <2>4, NewSharersValue
  <2>6. /\ dir'[l].sharers = NewSharers(dir[l], t, c)
        /\ t = "GETM" => dir'[l].owner = c
        /\ rsp' = rsp
        /\ fwd' = SendFwd(HomeOf[l], {p}, Forward(t2, l, c))
        /\ l2'[l] = l2[l]
    BY <2>1, <2>4 DEF Executed
  <2>. QED
    BY <2>3, <2>5, <2>6
<1>6. /\ FwdChannels' /\ \A k \in Line : k # l => SameAt(k)
      /\ \A d \in Cache : \A u, r : At(d, l, u, r)' <=> At(d, l, u, r) \/ (d \in {p} /\ u = t2 /\ r = c)
  <2>1. t2 \in FwdType /\ t2 \in OwnerFwd /\ c \in Node
    BY NodeSets DEF FwdType, OwnerFwd
  <2>2. \A d \in Cache : d \in {p} => /\ ~At(d, l, t2, c)
                                   /\ ~At(d, l, "PUT_ACK", d)
                                   /\ OnBehalf(Forward(t2, l, c), HomeOf[l], d)
    BY <1>2, <2>1, ForwardEq DEF OnBehalf
  <2>. PICK ds : ds = {p}
    OBVIOUS
  <2>3. Forwards(l, ds, t2, c)
    BY <1>1, <1>5, <2>1, <2>2 DEF Channels, Forwards
  <2>. QED
    BY <2>3, DirForwards
<1>. QED
  BY <1>1, <1>2, <1>3, <1>5, <1>6

\* A GetS forwarded to the owner.
LEMMA ServedForwardGetS ==
  ASSUME IInv, OwnerKnown, NEW c \in Cache, NEW l \in Line, NEW v \in Version,
         NEW n \in DirState, Served(c, l, "GETS", v, n), dir[l].state \in {"E", "M"}
  PROVE  LineKept(l)
<1>0. "GETS" \in ReqType
  BY DEF ReqType
<1>1. /\ LineInv(l) /\ TypeOK /\ Channels /\ Banks
      /\ \A d \in Cache : l1'[d][l] = l1[d][l] /\ mshr'[d][l] = mshr[d][l] /\ copy'[d][l] = copy[d][l]
      /\ latest'[l] = latest[l] /\ mem'[l] = mem[l]
      /\ dir[l].present /\ ~Recalled(l) /\ ~Recalled(l)'
      /\ \A k : RecallCount(l, k)' <=> RecallCount(l, k)
      /\ dir'[l].present /\ dir'[l].state = n
      /\ MshrMatches(l)'
      /\ \A k : ~RecallCount(l, k)
  BY <1>0, ServedFrame
<1>2. /\ HasReq(c, l) /\ ~HasReq(c, l)'
      /\ \A t2 \in ReqType, v2 \in Version : ~Asks(c, l, t2, v2)'
      /\ \A d \in Cache : d # c =>
              /\ HasReq(d, l)' <=> HasReq(d, l)
              /\ \A t2, v2 : Asks(d, l, t2, v2)' <=> Asks(d, l, t2, v2)
      /\ ~mshr[c][l].done /\ ~HasData(c, l) /\ ~HasDataE(c, l) /\ ~At(c, l, "PUT_ACK", c)
      /\ \A s \in Node, t2 \in DataType, a \in AckField, v2 \in Version : ~Sent(s, c, l, t2, a, v2)
      /\ ~Waits(c, l) /\ ~Expects(c, l) /\ ~Own(c, l)
      /\ \A p \in Cache : ~At(p, l, "FWD_GETS", c) /\ ~At(p, l, "FWD_GETM", c)
  BY <1>0, ServedFacts
<1>3. mshr[c][l].op = "LD" /\ l1[c][l] = "IS_D"
  BY <1>0, <1>1 DEF LineInv, Questions, Served, MshrMatches
<1>4. PICK p \in Cache :
           /\ p = dir[l].owner /\ p # c
           /\ dir'[l].state = "S_D"
           /\ \A d : d \in dir'[l].sharers <=> d \in {p, c}
           /\ rsp' = rsp
           /\ FwdChannels' /\ \A k \in Line : k # l => SameAt(k)
           /\ \A d \in Cache : \A t2, r : At(d, l, t2, r)' <=>
                At(d, l, t2, r) \/ (d = p /\ t2 = "FWD_GETS" /\ r = c)
           /\ l2'[l] = l2[l]
  <2>. PICK t \in {"GETS", "GETM"} : t = "GETS"
    OBVIOUS
  <2>1. Served(c, l, t, v, n)
    OBVIOUS
  <2>. HIDE DEF Served
  <2>2. \E p \in Cache :
           /\ p = dir[l].owner /\ p # c
           /\ dir'[l].state = IF t = "GETS" THEN "S_D" ELSE "M"
           /\ t = "GETM" => dir'[l].owner = c
           /\ \A d : d \in dir'[l].sharers <=> t = "GETS" /\ d \in {p, c}
           /\ rsp' = rsp
           /\ FwdChannels' /\ \A k \in Line : k # l => SameAt(k)
           /\ \A d \in Cache : \A t2, r : At(d, l, t2, r)' <=>
                \/ At(d, l, t2, r)
                \/ d = p /\ t2 = (IF t = "GETS" THEN "FWD_GETS" ELSE "FWD_GETM") /\ r = c
           /\ l2'[l] = l2[l]
    BY <2>1, ServedForward
  <2>. QED
    BY <2>2
<1>5. /\ p \in Cache /\ Expects(p, l) /\ ~HasOwnerFwd(p, l) /\ ~At(p, l, "PUT_ACK", p)
      /\ l1[p][l] \in {"EI_A", "MI_A"} => HasReq(p, l)
      /\ \A r \in Node : \A t \in OwnerFwd : ~At(p, l, t, r)
      /\ ~WbInFlight(l)
      /\ \A d \in Cache : Expects(d, l) /\ d # p => HasOwnerFwd(d, l)
      /\ \A d \in Cache : HasOwnerFwd(d, l) => Expects(d, l)
      /\ \A d, r \in Cache : ~At(d, l, "FWD_GETS", r)
      /\ \A d \in Cache : \A r \in Node : \A t \in OwnerFwd : At(d, l, t, r) => t = "FWD_GETM" /\ r \in Cache
      /\ \A d \in Cache : ~At(d, l, "RECALL", HomeOf[l]) /\ ~At(d, l, "RECALL_INV", HomeOf[l])
      /\ \A d \in Cache : \A t \in RspToDir, a \in AckField, x \in Version : ~Sent(d, HomeOf[l], l, t, a, x)
      /\ \A d \in Cache : Shares(d, l) => HasInv(d, l) \/ Own(d, l)
      /\ RecallOwed(l) = {}
  BY <1>1, <1>4, OwnedFacts
<1>6. SameSent(l) /\ RspChannels(rsp)' /\ \A k \in Line : SameSent(k)
  BY <1>1, <1>4 DEF SameSent, Sent, Channels, RspChannels
<1>7. /\ \A d \in Cache : /\ HasData(d, l)' <=> HasData(d, l)
                          /\ HasDataE(d, l)' <=> HasDataE(d, l)
      /\ WbInFlight(l)' <=> WbInFlight(l)
  BY <1>6, SentFrame
<1>8. \A d \in Cache : /\ HasOwnerFwd(d, l)' <=> HasOwnerFwd(d, l) \/ d = p
                       /\ HasInv(d, l)' <=> HasInv(d, l)
                       /\ Waits(d, l)' <=> Waits(d, l)
                       /\ At(d, l, "PUT_ACK", d)' <=> At(d, l, "PUT_ACK", d)
  <2>1. \A d \in Cache : HasOwnerFwd(d, l)' <=> HasOwnerFwd(d, l) \/ d = p
    BY <1>4, NodeSets DEF HasOwnerFwd, OwnerFwd
  <2>. QED
    BY <1>4, <2>1 DEF HasInv, Waits
<1>9. /\ \A d \in Cache : (Own(d, l)' <=> Own(d, l)) /\ (Shares(d, l)' <=> Shares(d, l))
      /\ \A d \in Cache : Expects(d, l)' <=> Expects(d, l)
  <2>1. ~Own(c, l)'
    BY <1>1, <1>2, <1>3, <1>7 DEF Own
  <2>2. Own(p, l)' <=> Own(p, l)
    BY <1>1, <1>2, <1>4, <1>5, <1>7, <1>8 DEF Own
  <2>3. \A d \in Cache : d # p /\ d # c => (Own(d, l)' <=> Own(d, l))
    BY <1>1, <1>2, <1>7, <1>8 DEF Own
  <2>4. \A d \in Cache : Shares(d, l)' <=> Shares(d, l)
    BY <1>1, <1>7 DEF Shares
  <2>. QED
    BY <1>2, <1>8, <2>1, <2>2, <2>3, <2>4 DEF Expects
<1>10. /\ \A d \in Cache : \A r : At(d, l, "INV", r)' <=> At(d, l, "INV", r)
       /\ RecallOwed(l)' = {}
       /\ \A d \in Cache : Owed(d, l)' = Owed(d, l)
       /\ \A d \in Cache : ~At(d, l, "RECALL", HomeOf[l])' /\ ~At(d, l, "RECALL_INV", HomeOf[l])'
  <2>1. /\ \A d \in Cache : \A r : At(d, l, "INV", r)' <=> At(d, l, "INV", r)
        /\ \A d \in Cache : ~At(d, l, "RECALL", HomeOf[l])' /\ ~At(d, l, "RECALL_INV", HomeOf[l])'
    BY <1>4, <1>5
  <2>2. RecallOwed(l)' = RecallOwed(l)
    BY <1>5, <1>6, <2>1, NodeSets DEF RecallOwed, SameSent
  <2>3. \A d \in Cache : Owed(d, l)' = Owed(d, l)
    BY <1>6, <2>1, NodeSets DEF Owed, SameSent
  <2>. QED
    BY <1>5, <2>1, <2>2, <2>3
<1>. USE <1>1, <1>2
<1>22. Questions(l)'
  BY <1>7, <1>8 DEF LineInv, Questions
<1>23. PutAcks(l)' /\ DataMsgs(l)'
  BY <1>6, <1>8, NodeSets DEF LineInv, PutAcks, DataMsgs, SameSent
<1>24. Owners(l)'
  <2>1. \A d, e \in Cache : Own(d, l)' /\ Own(e, l)' => d = e
    BY <1>9 DEF LineInv, Owners
  <2>. QED
    BY <1>4, <1>5, <1>7, <1>8, <1>9, <2>1 DEF Owners, Exclusive
<1>25. OwnerFwds(l)'
  <2>1. \A d \in Cache : \A r \in Node : \A t \in OwnerFwd :
           At(d, l, t, r)' <=> At(d, l, t, r) \/ (d = p /\ t = "FWD_GETS" /\ r = c)
    BY <1>4
  <2>2. \A d \in Cache, t, t2 \in OwnerFwd, r, r2 \in Node :
           At(d, l, t, r)' /\ At(d, l, t2, r2)' => t = t2 /\ r = r2
    BY <1>5, <2>1 DEF LineInv, OwnerFwds
  <2>3. \A d \in Cache : \A r : At(d, l, "FWD_GETM", r)' <=> At(d, l, "FWD_GETM", r)
    BY <1>4
  <2>4. \A d, r \in Cache : At(d, l, "FWD_GETS", r)' <=> d = p /\ r = c
    BY <1>4, <1>5
  <2>5. dir'[l].sharers \subseteq {p, c} /\ p \in dir'[l].sharers /\ c \in dir'[l].sharers
    BY <1>4
  <2>6. ~Exclusive(l)'
    BY <1>4 DEF Exclusive
  <2>. QED
    BY <1>3, <1>4, <1>7, <1>8, <2>2, <2>3, <2>4, <2>5, <2>6 DEF LineInv, OwnerFwds, Exclusive
<1>26. NoCycle(l)'
  BY <1>4 DEF LineInv, NoCycle
<1>27. WriteBacks(l)'
  BY <1>5, <1>6, NodeSets DEF WriteBacks, SameSent, RspToDir
<1>28. Sharers(l)'
  BY <1>3, <1>4, <1>5, <1>8, <1>9 DEF Sharers, Invalidatable
<1>29. Invs(l)' /\ InvAcks(l)'
  BY <1>4, <1>6, <1>9, <1>10, NodeSets DEF LineInv, Invs, InvAcks, SameSent
<1>30. AckCounts(l)'
  BY <1>6, <1>7, <1>10, NodeSets DEF LineInv, AckCounts, SameSent
<1>31. Recalls(l)'
  <2>1. \A d \in Cache, a \in AckField, x \in Version : ~Sent(d, HomeOf[l], l, "RECALL_ACK", a, x)'
    BY <1>5, <1>6, NodeSets DEF SameSent, RspToDir
  <2>. QED
    BY <1>10, <2>1 DEF Recalls
<1>32. Contents(l)'
  BY <1>6, <1>9, NodeSets DEF LineInv, Contents, Readable, SameSent
<1>33. BankCopy(l)'
  BY <1>4, <1>9 DEF BankCopy, Exclusive
<1>. QED
  BY <1>4, <1>6, <1>22, <1>23, <1>24, <1>25, <1>26, <1>27, <1>28, <1>29, <1>30, <1>31, <1>32,
     <1>33 DEF LineInv, LineKept

\* A GetM forwarded to the owner: its sender waits for the line.
LEMMA ServedForwardGetM ==
  ASSUME IInv, OwnerKnown, NEW c \in Cache, NEW l \in Line, NEW v \in Version,
         NEW n \in DirState, Served(c, l, "GETM", v, n), dir[l].state \in {"E", "M"}
  PROVE  LineKept(l)
<1>0. "GETM" \in ReqType
  BY DEF ReqType
<1>1. /\ LineInv(l) /\ TypeOK /\ Channels /\ Banks
      /\ \A d \in Cache : l1'[d][l] = l1[d][l] /\ mshr'[d][l] = mshr[d][l] /\ copy'[d][l] = copy[d][l]
      /\ latest'[l] = latest[l] /\ mem'[l] = mem[l]
      /\ dir[l].present /\ ~Recalled(l) /\ ~Recalled(l)'
      /\ \A k : RecallCount(l, k)' <=> RecallCount(l, k)
      /\ dir'[l].present /\ dir'[l].state = n
      /\ MshrMatches(l)'
      /\ \A k : ~RecallCount(l, k)
  BY <1>0, ServedFrame
<1>2. /\ HasReq(c, l) /\ ~HasReq(c, l)'
      /\ \A t2 \in ReqType, v2 \in Version : ~Asks(c, l, t2, v2)'
      /\ \A d \in Cache : d # c =>
              /\ HasReq(d, l)' <=> HasReq(d, l)
              /\ \A t2, v2 : Asks(d, l, t2, v2)' <=> Asks(d, l, t2, v2)
      /\ ~mshr[c][l].done /\ ~HasData(c, l) /\ ~HasDataE(c, l) /\ ~At(c, l, "PUT_ACK", c)
      /\ \A s \in Node, t2 \in DataType, a \in AckField, v2 \in Version : ~Sent(s, c, l, t2, a, v2)
      /\ ~Waits(c, l) /\ ~Expects(c, l) /\ ~Own(c, l)
      /\ \A p \in Cache : ~At(p, l, "FWD_GETS", c) /\ ~At(p, l, "FWD_GETM", c)
  BY <1>0, ServedFacts
<1>3. mshr[c][l].op = "ST" /\ l1[c][l] \in {"IM_AD", "SM_AD"} /\ mshr[c][l].ack = 0
  BY <1>0, <1>1 DEF LineInv, Questions, Served
<1>4. PICK p \in Cache :
           /\ p = dir[l].owner /\ p # c
           /\ dir'[l].state = "M"
           /\ dir'[l].owner = c
           /\ \A d : d \notin dir'[l].sharers
           /\ rsp' = rsp
           /\ FwdChannels' /\ \A k \in Line : k # l => SameAt(k)
           /\ \A d \in Cache : \A t2, r : At(d, l, t2, r)' <=>
                At(d, l, t2, r) \/ (d = p /\ t2 = "FWD_GETM" /\ r = c)
           /\ l2'[l] = l2[l]
  <2>. PICK t \in {"GETS", "GETM"} : t = "GETM"
    OBVIOUS
  <2>1. Served(c, l, t, v, n)
    OBVIOUS
  <2>. HIDE DEF Served
  <2>2. \E p \in Cache :
           /\ p = dir[l].owner /\ p # c
           /\ dir'[l].state = IF t = "GETS" THEN "S_D" ELSE "M"
           /\ t = "GETM" => dir'[l].owner = c
           /\ \A d : d \in dir'[l].sharers <=> t = "GETS" /\ d \in {p, c}
           /\ rsp' = rsp
           /\ FwdChannels' /\ \A k \in Line : k # l => SameAt(k)
           /\ \A d \in Cache : \A t2, r : At(d, l, t2, r)' <=>
                \/ At(d, l, t2, r)
                \/ d = p /\ t2 = (IF t = "GETS" THEN "FWD_GETS" ELSE "FWD_GETM") /\ r = c
           /\ l2'[l] = l2[l]
    BY <2>1, ServedForward
  <2>. QED
    BY <2>2
<1>5. /\ p \in Cache /\ Expects(p, l) /\ ~HasOwnerFwd(p, l) /\ ~At(p, l, "PUT_ACK", p)
      /\ l1[p][l] \in {"EI_A", "MI_A"} => HasReq(p, l)
      /\ \A r \in Node : \A t \in OwnerFwd : ~At(p, l, t, r)
      /\ ~WbInFlight(l)
      /\ \A d \in Cache : Expects(d, l) /\ d # p => HasOwnerFwd(d, l)
      /\ \A d \in Cache : HasOwnerFwd(d, l) => Expects(d, l)
      /\ \A d, r \in Cache : ~At(d, l, "FWD_GETS", r)
      /\ \A d \in Cache : \A r \in Node : \A t \in OwnerFwd : At(d, l, t, r) => t = "FWD_GETM" /\ r \in Cache
      /\ \A d \in Cache : ~At(d, l, "RECALL", HomeOf[l]) /\ ~At(d, l, "RECALL_INV", HomeOf[l])
      /\ \A d \in Cache : \A t \in RspToDir, a \in AckField, x \in Version : ~Sent(d, HomeOf[l], l, t, a, x)
      /\ \A d \in Cache : Shares(d, l) => HasInv(d, l) \/ Own(d, l)
      /\ RecallOwed(l) = {}
  BY <1>1, <1>4, OwnedFacts
<1>6. SameSent(l) /\ RspChannels(rsp)' /\ \A k \in Line : SameSent(k)
  BY <1>1, <1>4 DEF SameSent, Sent, Channels, RspChannels
<1>7. /\ \A d \in Cache : /\ HasData(d, l)' <=> HasData(d, l)
                          /\ HasDataE(d, l)' <=> HasDataE(d, l)
      /\ WbInFlight(l)' <=> WbInFlight(l)
  BY <1>6, SentFrame
<1>8. \A d \in Cache : /\ HasOwnerFwd(d, l)' <=> HasOwnerFwd(d, l) \/ d = p
                       /\ HasInv(d, l)' <=> HasInv(d, l)
                       /\ Waits(d, l)' <=> Waits(d, l) \/ d = c
                       /\ At(d, l, "PUT_ACK", d)' <=> At(d, l, "PUT_ACK", d)
  <2>1. \A d \in Cache : HasOwnerFwd(d, l)' <=> HasOwnerFwd(d, l) \/ d = p
    BY <1>4, NodeSets DEF HasOwnerFwd, OwnerFwd
  <2>. QED
    BY <1>4, <2>1 DEF HasInv, Waits
<1>9. /\ \A d \in Cache : (Own(d, l)' <=> Own(d, l)) /\ (Shares(d, l)' <=> Shares(d, l))
      /\ \A d \in Cache : Expects(d, l)' <=> Expects(d, l) \/ d = c
  <2>1. ~Own(c, l)'
    BY <1>1, <1>2, <1>3, <1>7 DEF Own
  <2>2. Own(p, l)' <=> Own(p, l)
    BY <1>1, <1>2, <1>4, <1>5, <1>7, <1>8 DEF Own
  <2>3. \A d \in Cache : d # p /\ d # c => (Own(d, l)' <=> Own(d, l))
    BY <1>1, <1>2, <1>7, <1>8 DEF Own
  <2>4. \A d \in Cache : Shares(d, l)' <=> Shares(d, l)
    BY <1>1, <1>7 DEF Shares
  <2>. QED
    BY <1>2, <1>8, <2>1, <2>2, <2>3, <2>4 DEF Expects
<1>10. /\ \A d \in Cache : \A r : At(d, l, "INV", r)' <=> At(d, l, "INV", r)
       /\ RecallOwed(l)' = {}
       /\ \A d \in Cache : Owed(d, l)' = Owed(d, l)
       /\ \A d \in Cache : ~At(d, l, "RECALL", HomeOf[l])' /\ ~At(d, l, "RECALL_INV", HomeOf[l])'
  <2>1. /\ \A d \in Cache : \A r : At(d, l, "INV", r)' <=> At(d, l, "INV", r)
        /\ \A d \in Cache : ~At(d, l, "RECALL", HomeOf[l])' /\ ~At(d, l, "RECALL_INV", HomeOf[l])'
    BY <1>4, <1>5
  <2>2. RecallOwed(l)' = RecallOwed(l)
    BY <1>5, <1>6, <2>1, NodeSets DEF RecallOwed, SameSent
  <2>3. \A d \in Cache : Owed(d, l)' = Owed(d, l)
    BY <1>6, <2>1, NodeSets DEF Owed, SameSent
  <2>. QED
    BY <1>5, <2>1, <2>2, <2>3
<1>. USE <1>1, <1>2
<1>22. Questions(l)'
  BY <1>7, <1>8 DEF LineInv, Questions
<1>23. PutAcks(l)' /\ DataMsgs(l)'
  BY <1>6, <1>8, NodeSets DEF LineInv, PutAcks, DataMsgs, SameSent
<1>24. Owners(l)'
  <2>1. \A d, e \in Cache : Own(d, l)' /\ Own(e, l)' => d = e
    BY <1>9 DEF LineInv, Owners
  <2>. QED
    BY <1>4, <1>5, <1>7, <1>8, <1>9, <2>1 DEF Owners, Exclusive
<1>25. OwnerFwds(l)'
  <2>1. \A d \in Cache : \A r \in Node : \A t \in OwnerFwd :
           At(d, l, t, r)' <=> At(d, l, t, r) \/ (d = p /\ t = "FWD_GETM" /\ r = c)
    BY <1>4
  <2>2. \A d \in Cache, t, t2 \in OwnerFwd, r, r2 \in Node :
           At(d, l, t, r)' /\ At(d, l, t2, r2)' => t = t2 /\ r = r2
    BY <1>5, <2>1 DEF LineInv, OwnerFwds
  <2>3. \A d \in Cache : \A r : At(d, l, "FWD_GETM", r)' <=> At(d, l, "FWD_GETM", r) \/ (d = p /\ r = c)
    BY <1>4
  <2>4. \A d, r \in Cache : ~At(d, l, "FWD_GETS", r)'
    BY <1>4, <1>5
  <2>5. \A r \in Node : \A t \in OwnerFwd : ~At(c, l, t, r)'
    BY <1>2, <1>4, <1>5, <2>1 DEF HasOwnerFwd
  <2>6. \A d \in Cache, r \in Node : Exclusive(l)' /\ dir'[l].owner = d =>
         ~At(d, l, "FWD_GETM", r)' /\ ~At(d, l, "FWD_GETS", r)'
    BY <1>4, <2>5 DEF OwnerFwd
  <2>7. \A d, e, r \in Cache : At(d, l, "FWD_GETM", r)' /\ At(e, l, "FWD_GETM", r)' => d = e
    BY <2>3 DEF LineInv, OwnerFwds
  <2>8. \A d, r \in Cache : At(d, l, "FWD_GETM", r)' =>
         /\ mshr'[r][l].op = "ST" /\ ~mshr'[r][l].done /\ mshr'[r][l].ack = 0
         /\ l1'[r][l] \in {"IM_AD", "SM_AD"}
         /\ ~HasReq(r, l)' /\ ~HasData(r, l)'
    BY <1>3, <1>7, <2>3 DEF LineInv, OwnerFwds
  <2>9. dir'[l].state # "S_D"
    BY <1>4
  <2>. QED
    BY <2>2, <2>4, <2>6, <2>7, <2>8, <2>9 DEF OwnerFwds
<1>26. NoCycle(l)'
  <2>1. ASSUME NEW S \in SUBSET Cache, S # {}
        PROVE  \E r \in S : \A q \in S : ~At(q, l, "FWD_GETM", r)'
    <3>1. \A q \in Cache : \A r : At(q, l, "FWD_GETM", r)' <=> At(q, l, "FWD_GETM", r) \/ (q = p /\ r = c)
      BY <1>4
    <3>2. \A r \in Cache : ~At(c, l, "FWD_GETM", r)
      BY <1>2, <1>5, NodeSets DEF HasOwnerFwd, OwnerFwd
    <3>. DEFINE T == S \ {c}
    <3>3. CASE T = {}
      <4>1. S = {c}
        BY <2>1, <3>3
      <4>. QED
        BY <1>4, <3>1, <3>2, <4>1
    <3>4. CASE T # {}
      <4>1. T \in SUBSET Cache
        BY <2>1
      <4>. HIDE DEF T
      <4>2. PICK r \in T : \A q \in T : ~At(q, l, "FWD_GETM", r)
        BY <3>4, <4>1 DEF LineInv, NoCycle
      <4>3. r \in S /\ r # c /\ r \in Cache
        BY <4>1, <4>2 DEF T
      <4>4. \A q \in S : q \in T \/ q = c
        BY DEF T
      <4>. QED
        BY <2>1, <3>1, <3>2, <4>2, <4>3, <4>4
    <3>. QED
      BY <3>3, <3>4
  <2>. QED
    BY <2>1 DEF NoCycle
<1>27. WriteBacks(l)'
  BY <1>5, <1>6, NodeSets DEF WriteBacks, SameSent, RspToDir
<1>28. Sharers(l)'
  BY <1>4, <1>5, <1>8, <1>9 DEF Sharers
<1>29. Invs(l)' /\ InvAcks(l)'
  BY <1>4, <1>6, <1>9, <1>10, NodeSets DEF LineInv, Invs, InvAcks, SameSent
<1>30. AckCounts(l)'
  BY <1>6, <1>7, <1>10, NodeSets DEF LineInv, AckCounts, SameSent
<1>31. Recalls(l)'
  <2>1. \A d \in Cache, a \in AckField, x \in Version : ~Sent(d, HomeOf[l], l, "RECALL_ACK", a, x)'
    BY <1>5, <1>6, NodeSets DEF SameSent, RspToDir
  <2>. QED
    BY <1>10, <2>1 DEF Recalls
<1>32. Contents(l)'
  BY <1>6, <1>9, NodeSets DEF LineInv, Contents, Readable, SameSent
<1>33. BankCopy(l)'
  BY <1>4, <1>9 DEF BankCopy, Exclusive
<1>. QED
  BY <1>4, <1>6, <1>22, <1>23, <1>24, <1>25, <1>26, <1>27, <1>28, <1>29, <1>30, <1>31, <1>32,
     <1>33 DEF LineInv, LineKept

---------------------------------------------------------------------------
(* A Put *)

\* A Put of the owner: the line is the bank's again.
LEMMA ServedPutOwner ==
  ASSUME IInv, OwnerKnown, NEW c \in Cache, NEW l \in Line, NEW t \in {"PUTE", "PUTM"}, NEW v \in Version,
         NEW n \in DirState, Served(c, l, t, v, n), IsOwner(dir[l], c)
  PROVE  LineKept(l)
<1>0. t \in ReqType
  BY DEF ReqType
<1>1. /\ LineInv(l) /\ TypeOK /\ Channels /\ Banks
      /\ \A d \in Cache : l1'[d][l] = l1[d][l] /\ mshr'[d][l] = mshr[d][l] /\ copy'[d][l] = copy[d][l]
      /\ latest'[l] = latest[l] /\ mem'[l] = mem[l]
      /\ dir[l].present /\ ~Recalled(l) /\ ~Recalled(l)'
      /\ \A k : RecallCount(l, k)' <=> RecallCount(l, k)
      /\ dir'[l].present /\ dir'[l].state = n
      /\ MshrMatches(l)'
      /\ \A k : ~RecallCount(l, k)
  BY <1>0, ServedFrame
<1>2. /\ HasReq(c, l) /\ ~HasReq(c, l)'
      /\ \A t2 \in ReqType, v2 \in Version : ~Asks(c, l, t2, v2)'
      /\ \A d \in Cache : d # c =>
              /\ HasReq(d, l)' <=> HasReq(d, l)
              /\ \A t2, v2 : Asks(d, l, t2, v2)' <=> Asks(d, l, t2, v2)
      /\ ~mshr[c][l].done /\ ~HasData(c, l) /\ ~HasDataE(c, l) /\ ~At(c, l, "PUT_ACK", c)
      /\ \A s \in Node, t2 \in DataType, a \in AckField, v2 \in Version : ~Sent(s, c, l, t2, a, v2)
      /\ ~Waits(c, l)
      /\ \A p \in Cache : ~At(p, l, "FWD_GETS", c) /\ ~At(p, l, "FWD_GETM", c)
  BY <1>0, ServedFacts
<1>3. /\ mshr[c][l].op = "EV" /\ l1[c][l] \in Evicting /\ ~Shares(c, l)
      /\ t = "PUTE" => l1[c][l] \in {"EI_A", "SI_A", "II_A"}
      /\ t = "PUTM" => l1[c][l] \in {"MI_A", "SI_A", "II_A"}
      /\ t = "PUTS" => l1[c][l] \in {"SI_A", "II_A"}
  <2>1. /\ mshr[c][l].op = "EV" /\ l1[c][l] \in Evicting
        /\ t = "PUTE" => l1[c][l] \in {"EI_A", "SI_A", "II_A"}
        /\ t = "PUTM" => l1[c][l] \in {"MI_A", "SI_A", "II_A"}
        /\ t = "PUTS" => l1[c][l] \in {"SI_A", "II_A"}
    <3>1. Asks(c, l, t, v)
      BY DEF Served
    <3>2. /\ mshr[c][l].op = "EV"
          /\ t = "PUTE" => l1[c][l] \in {"EI_A", "SI_A", "II_A"}
          /\ t = "PUTM" => l1[c][l] \in {"MI_A", "SI_A", "II_A"}
          /\ t = "PUTS" => l1[c][l] \in {"SI_A", "II_A"}
      BY <1>0, <1>1, <3>1 DEF LineInv, Questions
    <3>3. l1[c][l] \in Evicting
      BY <1>1, <1>2, <3>2 DEF LineInv, MshrMatches
    <3>. QED
      BY <3>2, <3>3
  <2>. QED
    BY <2>1 DEF Shares, Evicting
<1>11. /\ dir[l].state \in {"E", "M"} /\ c = dir[l].owner
  BY DEF IsOwner
<1>12. /\ Expects(c, l) /\ ~HasOwnerFwd(c, l)
       /\ \A r \in Node : \A t2 \in OwnerFwd : ~At(c, l, t2, r)
       /\ ~WbInFlight(l)
       /\ \A d \in Cache : d \notin dir[l].sharers
       /\ \A d \in Cache : HasOwnerFwd(d, l) => Expects(d, l)
       /\ \A d \in Cache : ~At(d, l, "RECALL", HomeOf[l]) /\ ~At(d, l, "RECALL_INV", HomeOf[l])
       /\ \A d \in Cache : \A t2 \in RspToDir, a \in AckField, x \in Version : ~Sent(d, HomeOf[l], l, t2, a, x)
       /\ \A d \in Cache : Shares(d, l) => HasInv(d, l) \/ Own(d, l)
       /\ RecallOwed(l) = {}
  BY <1>1, <1>11, OwnedFacts
<1>13. Own(c, l) /\ l1[c][l] \in {"EI_A", "MI_A"}
  <2>1. Own(c, l)
    BY <1>2, <1>12 DEF Expects
  <2>. QED
    BY <1>3, <2>1 DEF Own, Evicting
<1>14. \A d \in Cache : d # c => ~Expects(d, l)
  <2>1. \A r \in Cache : ~At(c, l, "FWD_GETM", r)
    BY <1>12, NodeSets DEF OwnerFwd
  <2>. QED
    BY <1>1, <1>13, <2>1, LastOwner
<1>15. \A d, r \in Cache : ~At(d, l, "INV", r)
  BY <1>1, <1>3, <1>14 DEF LineInv, Invs, Expects
<1>16. \A d, r \in Cache, a \in AckField, x \in Version : ~Sent(d, r, l, "INV_ACK", a, x)
  BY <1>1, <1>3, <1>14 DEF LineInv, InvAcks, Expects
<1>17. \A d \in Cache : ~Shares(d, l)
  BY <1>3, <1>12, <1>14, <1>15 DEF Expects, HasInv
<1>18. /\ t = "PUTE" => dir[l].state = "E" /\ l2[l] = latest[l]
       /\ t = "PUTM" => v = latest[l]
  <2>1. Exclusive(l) /\ dir[l].owner = c
    BY <1>11 DEF Exclusive
  <2>2. t = "PUTE" => l1[c][l] = "EI_A"
    BY <1>3, <1>13
  <2>3. t = "PUTE" => dir[l].state = "E" /\ l2[l] = latest[l]
    BY <1>1, <1>13, <2>1, <2>2 DEF LineInv, BankCopy
  <2>4. t = "PUTM" => v = latest[l]
    BY <1>1, <1>13 DEF LineInv, Contents, Served
  <2>. QED
    BY <2>3, <2>4
<1>4. /\ dir'[l].state = "I" /\ l2'[l] = latest[l] /\ dir'[l].data_valid
      /\ \A d \in Cache : d \notin dir'[l].sharers
      /\ rsp' = rsp
      /\ fwd' = SendFwd(HomeOf[l], {c}, Forward("PUT_ACK", l, c))
  <2>. PICK e : e = IF t = "PUTE" THEN "PUTE_OWNER" ELSE "PUTM_OWNER"
    OBVIOUS
  <2>0. DirEventOf(t, dir[l], c) = e
    BY DirEvents
  <2>1. Executed(HomeOf[l], c, l, e, v, rsp, n)
    BY <2>0 DEF Served
  <2>2. <<dir[l].state, e, n>> \in DirArcs
    BY <2>1 DEF Executed
  <2>3. n = "I"
    <3>1. t = "PUTE" => e = "PUTE_OWNER" /\ dir[l].state = "E"
      BY <1>18
    <3>2. t = "PUTM" => e = "PUTM_OWNER" /\ dir[l].state \in {"E", "M"}
      BY <1>11
    <3>3. CASE t = "PUTE"
      BY <2>2, <3>1, <3>3 DEF DirArcs, PutEvent
    <3>4. CASE t = "PUTM"
      BY <2>2, <3>2, <3>4 DEF DirArcs, PutEvent
    <3>. QED
      BY <3>3, <3>4
  <2>4. /\ ~SendsDataE(dir[l].state, e) /\ ~SendsData(dir[l].state, e)
        /\ ~AddsSharer(dir[l].state, e)
        /\ ~RemovesSharer(dir[l].state, e) /\ ~InvalidatesOthers(dir[l].state, e)
        /\ SendsPutAck(e) /\ ~ForwardsToOwner(dir[l].state, e)
        /\ CopiesData(dir[l].state, e) <=> t = "PUTM"
    BY <1>11 DEF SendsDataE, SendsData, CopiesData, SendsPutAck, ForwardsToOwner,
       InvalidatesOthers, PutEvent, AddsSharer, RemovesSharer
  <2>5. NewSharers(dir[l], e, c) = dir[l].sharers
    BY <2>4, NewSharersValue
  <2>6. NewDataValid(dir[l], e, n) = TRUE
    BY <2>4, NewDataValidValue
  <2>7. /\ dir'[l].sharers = NewSharers(dir[l], e, c)
        /\ dir'[l].data_valid = NewDataValid(dir[l], e, n)
        /\ rsp' = rsp
        /\ fwd' = SendFwd(HomeOf[l], {c}, Forward("PUT_ACK", l, c))
        /\ l2'[l] = IF t = "PUTM" THEN v ELSE l2[l]
    BY <2>1, <2>4 DEF Executed
  <2>. QED
    BY <1>1, <1>12, <1>18, <2>3, <2>5, <2>6, <2>7
<1>6. SameSent(l) /\ RspChannels(rsp)' /\ \A k \in Line : SameSent(k)
  BY <1>1, <1>4 DEF SameSent, Sent, Channels, RspChannels
<1>7. /\ \A d \in Cache : /\ HasData(d, l)' <=> HasData(d, l)
                          /\ HasDataE(d, l)' <=> HasDataE(d, l)
      /\ WbInFlight(l)' <=> WbInFlight(l)
  BY <1>6, SentFrame
<1>5. /\ FwdChannels' /\ \A k \in Line : k # l => SameAt(k)
      /\ \A d \in Cache : \A u, r : At(d, l, u, r)' <=> At(d, l, u, r) \/ (d = c /\ u = "PUT_ACK" /\ r = c)
  <2>. PICK ds, t0 : ds = {c} /\ t0 = "PUT_ACK"
    OBVIOUS
  <2>1. t0 \in FwdType /\ c \in Node
    BY NodeSets DEF FwdType
  <2>2. \A d \in Cache : d \in ds => /\ ~At(d, l, t0, c)
                                   /\ ~At(d, l, "PUT_ACK", d)
                                   /\ OnBehalf(Forward(t0, l, c), HomeOf[l], d)
    BY <1>2, <2>1, ForwardEq DEF OnBehalf
  <2>3. Forwards(l, ds, t0, c)
    BY <1>1, <1>4, <2>1, <2>2 DEF Channels, Forwards
  <2>. QED
    BY <2>3, DirForwards
<1>8. /\ \A d \in Cache : /\ HasOwnerFwd(d, l)' <=> HasOwnerFwd(d, l)
                          /\ HasInv(d, l)' <=> HasInv(d, l)
                          /\ Waits(d, l)' <=> Waits(d, l)
                          /\ At(d, l, "PUT_ACK", d)' <=> At(d, l, "PUT_ACK", d) \/ d = c
                          /\ \A r : At(d, l, "INV", r)' <=> At(d, l, "INV", r)
                          /\ \A t2 \in OwnerFwd : \A r : At(d, l, t2, r)' <=> At(d, l, t2, r)
                          /\ \A r : At(d, l, "RECALL_INV", r)' <=> At(d, l, "RECALL_INV", r)
      /\ RecallOwed(l)' = RecallOwed(l)
      /\ \A d \in Cache : Owed(d, l)' = Owed(d, l)
  <2>1. \A d \in Cache : /\ At(d, l, "PUT_ACK", d)' <=> At(d, l, "PUT_ACK", d) \/ d = c
                         /\ \A r : At(d, l, "INV", r)' <=> At(d, l, "INV", r)
                         /\ \A t2 \in OwnerFwd : \A r : At(d, l, t2, r)' <=> At(d, l, t2, r)
                         /\ \A r : At(d, l, "RECALL_INV", r)' <=> At(d, l, "RECALL_INV", r)
    BY <1>5 DEF OwnerFwd
  <2>2. \A d \in Cache : /\ HasOwnerFwd(d, l)' <=> HasOwnerFwd(d, l)
                         /\ HasInv(d, l)' <=> HasInv(d, l)
    BY <2>1 DEF HasOwnerFwd, HasInv
  <2>3. \A d \in Cache : Waits(d, l)' <=> Waits(d, l)
    BY <1>5 DEF Waits
  <2>4. RecallOwed(l)' = RecallOwed(l)
    BY <1>6, <1>5, NodeSets DEF RecallOwed, SameSent
  <2>5. \A d \in Cache : Owed(d, l)' = Owed(d, l)
    BY <1>6, <2>1, NodeSets DEF Owed, SameSent
  <2>. QED
    BY <2>1, <2>2, <2>3, <2>4, <2>5
<1>9. \A d \in Cache : ~Own(d, l)' /\ ~Expects(d, l)' /\ ~Shares(d, l)' /\ ~HasOwnerFwd(d, l)'
  <2>1. ~Own(c, l)'
    BY <1>1, <1>2, <1>3, <1>7, <1>8, <1>12 DEF Own, Evicting
  <2>2. \A d \in Cache : d # c => (Own(d, l)' <=> Own(d, l))
    BY <1>1, <1>2, <1>7, <1>8 DEF Own
  <2>3. \A d \in Cache : ~Shares(d, l)'
    BY <1>1, <1>7, <1>17 DEF Shares
  <2>. QED
    BY <1>2, <1>8, <1>12, <1>14, <2>1, <2>2, <2>3 DEF Expects
<1>. USE <1>1, <1>2
<1>22. Questions(l)'
  BY <1>7, <1>8 DEF LineInv, Questions
<1>23. PutAcks(l)' /\ DataMsgs(l)'
  BY <1>3, <1>6, <1>8, NodeSets DEF LineInv, PutAcks, DataMsgs, SameSent
<1>24. Owners(l)'
  BY <1>4, <1>9, <1>7, <1>12 DEF Owners, Exclusive
<1>25. OwnerFwds(l)'
  <2>1. \A d \in Cache : \A r \in Node : \A t2 \in OwnerFwd : ~At(d, l, t2, r)'
    BY <1>9 DEF HasOwnerFwd
  <2>2. \A d \in Cache : \A r \in Cache : ~At(d, l, "FWD_GETS", r)' /\ ~At(d, l, "FWD_GETM", r)'
    BY <2>1, NodeSets DEF OwnerFwd
  <2>3. dir'[l].state # "S_D" /\ ~Exclusive(l)'
    BY <1>4 DEF Exclusive
  <2>. QED
    BY <2>1, <2>2, <2>3 DEF OwnerFwds, Exclusive
<1>26. NoCycle(l)'
  BY <1>5 DEF LineInv, NoCycle
<1>27. WriteBacks(l)'
  BY <1>6, <1>12, NodeSets DEF WriteBacks, SameSent, RspToDir
<1>28. Sharers(l)'
  BY <1>4, <1>9 DEF Sharers
<1>29. Invs(l)' /\ InvAcks(l)'
  BY <1>6, <1>8, <1>15, <1>16, NodeSets DEF Invs, InvAcks, SameSent
<1>31. Recalls(l)'
  <2>1. \A d \in Cache, a \in AckField, x \in Version : ~Sent(d, HomeOf[l], l, "RECALL_ACK", a, x)'
    BY <1>6, <1>12, NodeSets DEF SameSent, RspToDir
  <2>2. \A d \in Cache : ~At(d, l, "RECALL", HomeOf[l])' /\ ~At(d, l, "RECALL_INV", HomeOf[l])'
    BY <1>5, <1>12
  <2>. QED
    BY <2>1, <2>2 DEF Recalls
<1>32. Contents(l)'
  BY <1>6, <1>9, NodeSets DEF LineInv, Contents, Readable, SameSent
<1>33. BankCopy(l)'
  BY <1>4, <1>9 DEF BankCopy
<1>30. AckCounts(l)'
  BY <1>6, <1>7, <1>8, NodeSets DEF LineInv, AckCounts, SameSent
<1>. QED
  BY <1>5, <1>6, <1>22, <1>23, <1>24, <1>25, <1>26, <1>27, <1>28, <1>29, <1>30, <1>31, <1>32,
     <1>33 DEF LineInv, LineKept

\* A Put of a cache that is not the owner.
LEMMA ServedPut ==
  ASSUME IInv, OwnerKnown, NEW c \in Cache, NEW l \in Line, NEW t \in {"PUTS", "PUTE", "PUTM"}, NEW v \in Version,
         NEW n \in DirState, Served(c, l, t, v, n), t = "PUTS" \/ ~IsOwner(dir[l], c)
  PROVE  LineKept(l)
<1>0. t \in ReqType
  BY DEF ReqType
<1>1. /\ LineInv(l) /\ TypeOK /\ Channels /\ Banks
      /\ \A d \in Cache : l1'[d][l] = l1[d][l] /\ mshr'[d][l] = mshr[d][l] /\ copy'[d][l] = copy[d][l]
      /\ latest'[l] = latest[l] /\ mem'[l] = mem[l]
      /\ dir[l].present /\ ~Recalled(l) /\ ~Recalled(l)'
      /\ \A k : RecallCount(l, k)' <=> RecallCount(l, k)
      /\ dir'[l].present /\ dir'[l].state = n
      /\ MshrMatches(l)'
      /\ \A k : ~RecallCount(l, k)
  BY <1>0, ServedFrame
<1>2. /\ HasReq(c, l) /\ ~HasReq(c, l)'
      /\ \A t2 \in ReqType, v2 \in Version : ~Asks(c, l, t2, v2)'
      /\ \A d \in Cache : d # c =>
              /\ HasReq(d, l)' <=> HasReq(d, l)
              /\ \A t2, v2 : Asks(d, l, t2, v2)' <=> Asks(d, l, t2, v2)
      /\ ~mshr[c][l].done /\ ~HasData(c, l) /\ ~HasDataE(c, l) /\ ~At(c, l, "PUT_ACK", c)
      /\ \A s \in Node, t2 \in DataType, a \in AckField, v2 \in Version : ~Sent(s, c, l, t2, a, v2)
      /\ ~Waits(c, l)
      /\ \A p \in Cache : ~At(p, l, "FWD_GETS", c) /\ ~At(p, l, "FWD_GETM", c)
  BY <1>0, ServedFacts
<1>3. /\ mshr[c][l].op = "EV" /\ l1[c][l] \in Evicting /\ ~Shares(c, l)
      /\ t = "PUTE" => l1[c][l] \in {"EI_A", "SI_A", "II_A"}
      /\ t = "PUTM" => l1[c][l] \in {"MI_A", "SI_A", "II_A"}
      /\ t = "PUTS" => l1[c][l] \in {"SI_A", "II_A"}
  <2>1. /\ mshr[c][l].op = "EV" /\ l1[c][l] \in Evicting
        /\ t = "PUTE" => l1[c][l] \in {"EI_A", "SI_A", "II_A"}
        /\ t = "PUTM" => l1[c][l] \in {"MI_A", "SI_A", "II_A"}
        /\ t = "PUTS" => l1[c][l] \in {"SI_A", "II_A"}
    <3>1. Asks(c, l, t, v)
      BY DEF Served
    <3>2. /\ mshr[c][l].op = "EV"
          /\ t = "PUTE" => l1[c][l] \in {"EI_A", "SI_A", "II_A"}
          /\ t = "PUTM" => l1[c][l] \in {"MI_A", "SI_A", "II_A"}
          /\ t = "PUTS" => l1[c][l] \in {"SI_A", "II_A"}
      BY <1>0, <1>1, <3>1 DEF LineInv, Questions
    <3>3. l1[c][l] \in Evicting
      BY <1>1, <1>2, <3>2 DEF LineInv, MshrMatches
    <3>. QED
      BY <3>2, <3>3
  <2>. QED
    BY <2>1 DEF Shares, Evicting
<1>11. /\ ~(Exclusive(l) /\ dir[l].owner = c)
       /\ Expects(c, l) => HasOwnerFwd(c, l)
  <2>1. t = "PUTS" => ~Own(c, l)
    BY <1>3 DEF Own
  <2>2. t = "PUTS" => ~(Exclusive(l) /\ dir[l].owner = c)
    BY <1>1, <1>2, <2>1 DEF LineInv, Owners, Expects
  <2>3. ~(Exclusive(l) /\ dir[l].owner = c)
    BY <2>2 DEF IsOwner, Exclusive
  <2>. QED
    BY <1>1, <2>3 DEF LineInv, Owners
<1>4. /\ dir'[l].state = n
      /\ n = dir[l].state \/ (n = "I" /\ dir[l].state = "S" /\ \A d \in Cache : d \notin dir'[l].sharers)
      /\ dir'[l].owner = dir[l].owner /\ l2'[l] = l2[l]
      /\ dir'[l].data_valid <=> dir[l].data_valid
      /\ \A d \in Cache : d \in dir'[l].sharers <=> d \in dir[l].sharers /\ d # c
      /\ dir'[l].sharers \subseteq dir[l].sharers
      /\ rsp' = rsp
      /\ fwd' = SendFwd(HomeOf[l], {c}, Forward("PUT_ACK", l, c))
  <2>. PICK e : e = DirEventOf(t, dir[l], c)
    OBVIOUS
  <2>0. /\ e \in {"PUTS_LAST", "PUTS_NOT_LAST", "PUTM_NON_OWNER", "PUTE_NON_OWNER"}
        /\ e = "PUTS_LAST" => dir[l].sharers \ {c} = {}
    BY DirEvents
  <2>1. Executed(HomeOf[l], c, l, e, v, rsp, n)
    BY DEF Served
  <2>2. <<dir[l].state, e, n>> \in DirArcs
    BY <2>1 DEF Executed
  <2>3. n = dir[l].state \/ (n = "I" /\ dir[l].state = "S" /\ e = "PUTS_LAST")
    BY <2>0, <2>2 DEF DirArcs, PutEvent
  <2>4. /\ ~SendsDataE(dir[l].state, e) /\ ~SendsData(dir[l].state, e)
        /\ ~AddsSharer(dir[l].state, e) /\ ~InvalidatesOthers(dir[l].state, e)
        /\ SendsPutAck(e) /\ ~ForwardsToOwner(dir[l].state, e)
        /\ ~CopiesData(dir[l].state, e) /\ ~SetsOwner(dir[l].state, e) /\ ~ClearsOwner(dir[l].state, e)
        /\ RemovesSharer(dir[l].state, e) <=> dir[l].state \in {"S", "S_D"}
        /\ e # "PUTE_OWNER"
    BY <2>0 DEF SendsDataE, SendsData, CopiesData, SendsPutAck, ForwardsToOwner, InvalidatesOthers,
       PutEvent, AddsSharer, RemovesSharer, SetsOwner, ClearsOwner
  <2>5. NewSharers(dir[l], e, c) = IF dir[l].state \in {"S", "S_D"} THEN dir[l].sharers \ {c} ELSE dir[l].sharers
    BY <2>4, NewSharersValue
  <2>6. NewDataValid(dir[l], e, n) = dir[l].data_valid
    BY <2>4, NewDataValidValue
  <2>7. /\ dir'[l].sharers = NewSharers(dir[l], e, c)
        /\ dir'[l].data_valid = NewDataValid(dir[l], e, n)
        /\ dir'[l].owner = dir[l].owner
        /\ rsp' = rsp
        /\ fwd' = SendFwd(HomeOf[l], {c}, Forward("PUT_ACK", l, c))
        /\ l2'[l] = l2[l]
    BY <2>1, <2>4 DEF Executed
  <2>8. \A d \in Cache : d \in dir[l].sharers => dir[l].state \in {"S", "S_D"}
    BY <1>1 DEF LineInv, Sharers
  <2>9. \A d \in Cache : d \in dir'[l].sharers <=> d \in dir[l].sharers /\ d # c
    BY <2>5, <2>7, <2>8
  <2>10. dir'[l].sharers \subseteq dir[l].sharers
    BY <2>5, <2>7
  <2>. QED
    BY <1>1, <2>0, <2>3, <2>6, <2>7, <2>9, <2>10
<1>6. SameSent(l) /\ RspChannels(rsp)' /\ \A k \in Line : SameSent(k)
  BY <1>1, <1>4 DEF SameSent, Sent, Channels, RspChannels
<1>7. /\ \A d \in Cache : /\ HasData(d, l)' <=> HasData(d, l)
                          /\ HasDataE(d, l)' <=> HasDataE(d, l)
      /\ WbInFlight(l)' <=> WbInFlight(l)
  BY <1>6, SentFrame
<1>5. /\ FwdChannels' /\ \A k \in Line : k # l => SameAt(k)
      /\ \A d \in Cache : \A u, r : At(d, l, u, r)' <=> At(d, l, u, r) \/ (d = c /\ u = "PUT_ACK" /\ r = c)
  <2>. PICK ds, t0 : ds = {c} /\ t0 = "PUT_ACK"
    OBVIOUS
  <2>1. t0 \in FwdType /\ c \in Node
    BY NodeSets DEF FwdType
  <2>2. \A d \in Cache : d \in ds => /\ ~At(d, l, t0, c)
                                   /\ ~At(d, l, "PUT_ACK", d)
                                   /\ OnBehalf(Forward(t0, l, c), HomeOf[l], d)
    BY <1>2, <2>1, ForwardEq DEF OnBehalf
  <2>3. Forwards(l, ds, t0, c)
    BY <1>1, <1>4, <2>1, <2>2 DEF Channels, Forwards
  <2>. QED
    BY <2>3, DirForwards
<1>8. /\ \A d \in Cache : /\ HasOwnerFwd(d, l)' <=> HasOwnerFwd(d, l)
                          /\ HasInv(d, l)' <=> HasInv(d, l)
                          /\ Waits(d, l)' <=> Waits(d, l)
                          /\ At(d, l, "PUT_ACK", d)' <=> At(d, l, "PUT_ACK", d) \/ d = c
                          /\ \A r : At(d, l, "INV", r)' <=> At(d, l, "INV", r)
                          /\ \A t2 \in OwnerFwd : \A r : At(d, l, t2, r)' <=> At(d, l, t2, r)
                          /\ \A r : At(d, l, "RECALL_INV", r)' <=> At(d, l, "RECALL_INV", r)
      /\ RecallOwed(l)' = RecallOwed(l)
      /\ \A d \in Cache : Owed(d, l)' = Owed(d, l)
  <2>1. \A d \in Cache : /\ At(d, l, "PUT_ACK", d)' <=> At(d, l, "PUT_ACK", d) \/ d = c
                         /\ \A r : At(d, l, "INV", r)' <=> At(d, l, "INV", r)
                         /\ \A t2 \in OwnerFwd : \A r : At(d, l, t2, r)' <=> At(d, l, t2, r)
                         /\ \A r : At(d, l, "RECALL_INV", r)' <=> At(d, l, "RECALL_INV", r)
    BY <1>5 DEF OwnerFwd
  <2>2. \A d \in Cache : /\ HasOwnerFwd(d, l)' <=> HasOwnerFwd(d, l)
                         /\ HasInv(d, l)' <=> HasInv(d, l)
    BY <2>1 DEF HasOwnerFwd, HasInv
  <2>3. \A d \in Cache : Waits(d, l)' <=> Waits(d, l)
    BY <1>5 DEF Waits
  <2>4. RecallOwed(l)' = RecallOwed(l)
    BY <1>6, <1>5, NodeSets DEF RecallOwed, SameSent
  <2>5. \A d \in Cache : Owed(d, l)' = Owed(d, l)
    BY <1>6, <2>1, NodeSets DEF Owed, SameSent
  <2>. QED
    BY <2>1, <2>2, <2>3, <2>4, <2>5
<1>9. \A d \in Cache : /\ Own(d, l)' <=> Own(d, l)
                       /\ Expects(d, l)' <=> Expects(d, l)
                       /\ Shares(d, l)' <=> Shares(d, l)
  <2>1. Own(c, l)' <=> Own(c, l)
    <3>1. Own(c, l) <=> l1[c][l] \in {"EI_A", "MI_A"} /\ HasOwnerFwd(c, l)
      BY <1>3, <1>11 DEF Own, Evicting, Expects
    <3>2. Own(c, l)' <=> l1[c][l] \in {"EI_A", "MI_A"} /\ HasOwnerFwd(c, l)
      BY <1>1, <1>2, <1>3, <1>8 DEF Own, Evicting
    <3>. QED
      BY <3>1, <3>2
  <2>2. \A d \in Cache : d # c => (Own(d, l)' <=> Own(d, l))
    BY <1>1, <1>2, <1>7, <1>8 DEF Own
  <2>3. \A d \in Cache : Shares(d, l)' <=> Shares(d, l)
    BY <1>1, <1>7 DEF Shares
  <2>. QED
    BY <1>8, <2>1, <2>2, <2>3 DEF Expects
<1>. USE <1>1, <1>2
<1>22. Questions(l)'
  BY <1>7, <1>8 DEF LineInv, Questions
<1>23. PutAcks(l)' /\ DataMsgs(l)'
  BY <1>3, <1>6, <1>8, NodeSets DEF LineInv, PutAcks, DataMsgs, SameSent
<1>24. Owners(l)'
  <2>1. Exclusive(l)' <=> Exclusive(l)
    BY <1>4 DEF Exclusive
  <2>2. dir'[l].state \in {"I", "S"} => dir[l].state \in {"I", "S"}
    BY <1>4
  <2>. QED
    BY <1>4, <1>7, <1>8, <1>9, <2>1, <2>2 DEF LineInv, Owners
<1>25. OwnerFwds(l)'
  <2>1. \A d \in Cache : \A r : /\ (At(d, l, "FWD_GETM", r)' <=> At(d, l, "FWD_GETM", r))
                                 /\ (At(d, l, "FWD_GETS", r)' <=> At(d, l, "FWD_GETS", r))
    BY <1>8 DEF OwnerFwd
  <2>2. Exclusive(l)' <=> Exclusive(l)
    BY <1>4 DEF Exclusive
  <2>3. \A d \in Cache, t2, t3 \in OwnerFwd, r, r2 \in Node :
          At(d, l, t2, r)' /\ At(d, l, t3, r2)' => t2 = t3 /\ r = r2
    BY <1>8 DEF LineInv, OwnerFwds
  <2>4. dir'[l].state = "S_D" <=> dir[l].state = "S_D"
    BY <1>4
  <2>5. \A d, r \in Cache : At(d, l, "FWD_GETM", r)' =>
         /\ mshr'[r][l].op = "ST" /\ ~mshr'[r][l].done /\ mshr'[r][l].ack = 0
         /\ l1'[r][l] \in {"IM_AD", "SM_AD"}
         /\ ~HasReq(r, l)' /\ ~HasData(r, l)'
    BY <1>7, <2>1 DEF LineInv, OwnerFwds
  <2>6. \A d, r \in Cache : At(d, l, "FWD_GETS", r)' =>
         /\ dir'[l].state = "S_D"
         /\ r \in dir'[l].sharers /\ dir'[l].sharers \subseteq {d, r}
         /\ d \in dir'[l].sharers \/ At(d, l, "PUT_ACK", d)'
         /\ mshr'[r][l].op = "LD" /\ ~mshr'[r][l].done
         /\ ~HasReq(r, l)' /\ ~HasData(r, l)'
    <3>. SUFFICES ASSUME NEW d \in Cache, NEW r \in Cache, At(d, l, "FWD_GETS", r)
                  PROVE  /\ dir'[l].state = "S_D"
                         /\ r \in dir'[l].sharers /\ dir'[l].sharers \subseteq {d, r}
                         /\ d \in dir'[l].sharers \/ At(d, l, "PUT_ACK", d)'
                         /\ mshr'[r][l].op = "LD" /\ ~mshr'[r][l].done
                         /\ ~HasReq(r, l)' /\ ~HasData(r, l)'
      BY <2>1
    <3>1. /\ dir[l].state = "S_D"
          /\ r \in dir[l].sharers /\ dir[l].sharers \subseteq {d, r}
          /\ d \in dir[l].sharers \/ At(d, l, "PUT_ACK", d)
          /\ mshr[r][l].op = "LD" /\ ~mshr[r][l].done
          /\ ~HasReq(r, l) /\ ~HasData(r, l)
      BY DEF LineInv, OwnerFwds
    <3>2. r # c
      BY <3>1
    <3>3. /\ dir'[l].state = "S_D" /\ r \in dir'[l].sharers /\ dir'[l].sharers \subseteq {d, r}
      BY <1>4, <2>4, <3>1, <3>2
    <3>4. d \in dir'[l].sharers \/ At(d, l, "PUT_ACK", d)'
      BY <1>4, <1>8, <3>1
    <3>. QED
      BY <1>7, <3>1, <3>2, <3>3, <3>4
  <2>. QED
    BY <1>4, <1>7, <2>1, <2>2, <2>3, <2>4, <2>5, <2>6 DEF LineInv, OwnerFwds
<1>26. NoCycle(l)'
  BY <1>5 DEF LineInv, NoCycle
<1>27. WriteBacks(l)'
  <2>1. dir'[l].state = "S_D" <=> dir[l].state = "S_D"
    BY <1>4
  <2>. QED
    BY <1>6, <2>1, NodeSets DEF LineInv, WriteBacks, SameSent
<1>28. Sharers(l)'
  BY <1>3, <1>4, <1>8, <1>9 DEF LineInv, Sharers
<1>29. Invs(l)' /\ InvAcks(l)'
  BY <1>6, <1>8, <1>9, NodeSets DEF LineInv, Invs, InvAcks, SameSent
<1>31. Recalls(l)'
  <2>1. \A d \in Cache, a \in AckField, x \in Version : ~Sent(d, HomeOf[l], l, "RECALL_ACK", a, x)'
    BY <1>6, NodeSets DEF LineInv, Recalls, SameSent
  <2>2. \A d \in Cache : ~At(d, l, "RECALL", HomeOf[l])' /\ ~At(d, l, "RECALL_INV", HomeOf[l])'
    BY <1>5 DEF LineInv, Recalls
  <2>. QED
    BY <2>1, <2>2 DEF Recalls
<1>32. Contents(l)'
  <2>1. \A d \in Cache, x \in Version : Asks(d, l, "PUTM", x)' => Asks(d, l, "PUTM", x)
    BY DEF ReqType
  <2>2. /\ \A d \in Cache, s \in Node, t2 \in DataType, a \in AckField, x \in Version :
             Sent(s, d, l, t2, a, x)' => x = latest[l]
        /\ \A d \in Cache, x \in Version : Sent(d, HomeOf[l], l, "WB_DATA", 0, x)' => x = latest[l]
    BY <1>6, NodeSets DEF LineInv, Contents, SameSent
  <2>. QED
    BY <1>9, <2>1, <2>2 DEF LineInv, Contents, Readable
<1>33. BankCopy(l)'
  BY <1>4, <1>9 DEF LineInv, BankCopy, Exclusive
<1>30. AckCounts(l)'
  BY <1>6, <1>7, <1>8, NodeSets DEF LineInv, AckCounts, SameSent
<1>. QED
  BY <1>5, <1>6, <1>22, <1>23, <1>24, <1>25, <1>26, <1>27, <1>28, <1>29, <1>30, <1>31, <1>32,
     <1>33 DEF LineInv, LineKept

---------------------------------------------------------------------------
(* Requests together, and data brought back *)

\* Any request the bank takes.
LEMMA TakeRequestLine ==
  ASSUME IInv, OwnerKnown, CachesFit, TypeOK', NEW h \in Home, NEW c \in Cache, TakeRequest(h, c)
  PROVE  \E l \in Line : LineInv(l)' /\ KeepsOthers(l)
<1>1. PICK l \in Line, t \in ReqType, v \in Version, n \in DirState :
            /\ Served(c, l, t, v, n)
            /\ ReqChannels' /\ Banks' /\ \A k \in Line : k # l => SameButSends(k)
  BY TakeRequestServed
<1>2. TypeOK
  BY DEF IInv
<1>3. LineKept(l)
  <2>1. <<dir[l].state, DirEventOf(t, dir[l], c), n>> \in DirArcs
    BY <1>1 DEF Served, Executed
  <2>2. t \in {"GETS", "GETM", "PUTS", "PUTE", "PUTM"}
    BY DEF ReqType
  <2>3. dir[l].state \in {"I", "S", "E", "M", "S_D"}
    BY <1>2, MetaValues
  <2>4. CASE t = "GETS"
    <3>1. dir[l].state # "S_D"
      BY <2>1, <2>4, DirEvents DEF DirArcs, PutEvent
    <3>2. CASE dir[l].state = "I" /\ EnableE
      BY <1>1, <2>4, <3>2, ServedGrantE
    <3>3. CASE dir[l].state = "S" \/ (dir[l].state = "I" /\ ~EnableE)
      BY <1>1, <2>4, <3>3, ServedShare
    <3>4. CASE dir[l].state \in {"E", "M"}
      BY <1>1, <2>4, <3>4, ServedForwardGetS
    <3>. QED
      BY <2>3, <3>1, <3>2, <3>3, <3>4
  <2>5. CASE t = "GETM"
    <3>1. dir[l].state # "S_D"
      BY <2>1, <2>5, DirEvents DEF DirArcs, PutEvent
    <3>2. CASE dir[l].state \in {"I", "S"}
      BY <1>1, <2>5, <3>2, ServedGrantM
    <3>3. CASE dir[l].state \in {"E", "M"}
      BY <1>1, <2>5, <3>3, ServedForwardGetM
    <3>. QED
      BY <2>3, <3>1, <3>2, <3>3
  <2>6. CASE t \in {"PUTE", "PUTM"} /\ IsOwner(dir[l], c)
    BY <1>1, <2>6, ServedPutOwner
  <2>7. CASE t \in {"PUTS", "PUTE", "PUTM"} /\ (t = "PUTS" \/ ~IsOwner(dir[l], c))
    BY <1>1, <2>7, ServedPut
  <2>. QED
    BY <2>2, <2>4, <2>5, <2>6, <2>7
<1>. QED
  BY <1>1, <1>3 DEF KeepsOthers, LineKept, Channels, SameButSends, SameLine

\* The bank of l has taken the data of c that it waited for.
DataBack(c, l, a0, v) ==
    /\ dir[l].state = "S_D"
    /\ dir'[l].state = "S" /\ dir'[l].present /\ dir'[l].data_valid /\ dir'[l].sharers = dir[l].sharers
    /\ l2'[l] = v
    /\ SameAt(l) /\ SameAsks(l) /\ SameCaches(l) /\ SameRecall(l) /\ latest'[l] = latest[l]
    /\ ~Recalled(l)
    /\ Sent(c, HomeOf[l], l, "WB_DATA", a0, v)
    /\ \A s2, d2 \in Node : \A t, a, x :
         Sent(s2, d2, l, t, a, x)' <=>
           Sent(s2, d2, l, t, a, x) /\ ~(s2 = c /\ d2 = HomeOf[l] /\ t = "WB_DATA" /\ a = a0 /\ x = v)

\* The data a forwarded GetS brings back: the bank has the line again.
LEMMA TakeOwnerDataBack ==
  ASSUME IInv, TypeOK', NEW h \in Home, NEW c \in Cache, TakeOwnerData(h, c)
  PROVE  \E l \in Line, a0 \in AckField, v \in Version : DataBack(c, l, a0, v) /\ KeepsOthers(l)
<1>0. TypeOK /\ Channels /\ Banks /\ BankOf(h)
  BY DEF IInv, Banks
<1>d. PICK m : m = Head(rsp[c][h])
  OBVIOUS
<1>e. PICK q : q = RspTail(c, h)
  OBVIOUS
<1>1. m.type = "WB_DATA" /\ dir[m.line].present /\ ~Recalling(h, m.line) /\ DirExec(h, c, m, q)
  BY <1>d, <1>e DEF TakeOwnerData, RspTail
<1>2. TakesRsp(c, h, m, q)
  BY <1>0, <1>d, <1>e, NodeSets DEF TakesRsp, TakeOwnerData, Channels
<1>3. m \in RspMsg /\ RspFits(c, h, m)
  BY <1>2, TakeRspEffect
<1>a. PICK l \in Line : l = m.line
  BY <1>3 DEF RspMsg
<1>b. PICK v \in Version : v = m.data
  BY <1>3 DEF RspMsg
<1>c. PICK a0 \in AckField : a0 = m.ack
  BY <1>3 DEF RspMsg
<1>4. h = HomeOf[l] /\ LineInv(l)
  BY <1>3, <1>a DEF RspFits, IInv, RspMsg
<1>5. PICK n \in DirState : Executed(h, c, l, "DATA", v, q, n)
  <2>1. DirEventOf(m.type, dir[l], c) = "DATA"
    BY <1>1, <1>a, DirEvents
  <2>2. \E n \in DirState : Executed(h, c, l, DirEventOf(m.type, dir[l], c), m.data, q, n)
    BY <1>0, <1>1, <1>a, ExecFacts
  <2>. QED
    BY <1>b, <2>1, <2>2
<1>6. dir[l].state = "S_D" /\ n = "S"
  BY <1>5 DEF Executed, DirArcs, PutEvent
<1>. PICK e : e = "DATA"
  OBVIOUS
<1>7. /\ dir'[l].state = "S" /\ dir'[l].present /\ dir'[l].data_valid /\ dir'[l].sharers = dir[l].sharers
      /\ l2'[l] = v /\ rsp' = q /\ fwd' = SendFwd(h, {}, Forward("INV", l, c))
      /\ \A k \in Line : k # l => dir'[k] = dir[k] /\ l2'[k] = l2[k]
  <2>0. Executed(h, c, l, e, v, q, n)
    BY <1>5
  <2>1. /\ ~SendsDataE(dir[l].state, e) /\ ~SendsData(dir[l].state, e)
        /\ ~AddsSharer(dir[l].state, e)
        /\ ~RemovesSharer(dir[l].state, e) /\ ~InvalidatesOthers(dir[l].state, e)
        /\ ~SendsPutAck(e) /\ ~ForwardsToOwner(dir[l].state, e)
        /\ CopiesData(dir[l].state, e)
        /\ InvTargets(dir[l], e, c) = {}
    BY <1>6 DEF SendsDataE, SendsData, CopiesData, SendsPutAck, ForwardsToOwner, InvalidatesOthers,
       InvTargets, PutEvent, AddsSharer, RemovesSharer
  <2>2. NewSharers(dir[l], e, c) = dir[l].sharers
    BY <2>1, NewSharersValue
  <2>3. NewDataValid(dir[l], e, n) = TRUE
    BY <2>1, NewDataValidValue
  <2>4. /\ dir'[l].sharers = NewSharers(dir[l], e, c)
        /\ dir'[l].data_valid = NewDataValid(dir[l], e, n)
        /\ l2'[l] = v /\ rsp' = q /\ fwd' = SendFwd(h, {}, Forward("INV", l, c))
    BY <1>5, <2>0, <2>1 DEF Executed
  <2>. QED
    BY <1>5, <1>6, <2>0, <2>2, <2>3, <2>4 DEF Executed
<1>8. FwdChannels' /\ \A k \in Line : SameAt(k)
  <2>1. "INV" \in FwdType /\ c \in Node
    BY NodeSets DEF FwdType
  <2>. QED
    BY <1>0, <1>4, <1>7, <2>1, NoForward DEF Channels
<1>9. /\ Sent(c, h, l, "WB_DATA", a0, v)
      /\ \A s2, d2 \in Node : \A t, a, x :
           Sent(s2, d2, l, t, a, x)' <=>
             /\ Sent(s2, d2, l, t, a, x)
             /\ ~(s2 = c /\ d2 = h /\ t = "WB_DATA" /\ a = a0 /\ x = v)
      /\ \A k \in Line : k # l => SameSent(k)
      /\ RspChannels(rsp)'
  <2>1. TakesRsp(c, h, m, rsp')
    BY <1>2, <1>7
  <2>. HIDE DEF TakesRsp
  <2>2. /\ Sent(c, h, m.line, m.type, m.ack, m.data)
        /\ \A s2, d2 \in Node : \A t, a, x :
              Sent(s2, d2, m.line, t, a, x)' <=>
                /\ Sent(s2, d2, m.line, t, a, x)
                /\ ~(s2 = c /\ d2 = h /\ t = m.type /\ a = m.ack /\ x = m.data)
        /\ \A k \in Line : k # m.line => SameSent(k)
        /\ RspChannels(rsp)'
    <3>1. TookOne(c, h, m)
      BY <2>1, TakeOne
    <3>. QED
      BY <3>1 DEF TookOne
  <2>. QED
    BY <1>1, <1>a, <1>b, <1>c, <2>2
<1>10. Banks' /\ \A k \in Line : SameRecall(k)
  <2>1. ~Recalled(l) /\ UNCHANGED binv /\ dir[l].present
    BY <1>1, <1>4, <1>a DEF Recalled, TakeOwnerData
  <2>2. \A g \in Home : BinvActive(g) =>
            stuckReq'[g] = stuckReq[g] /\ \A d \in Cache : req'[d][g] = req[d][g]
    BY DEF TakeOwnerData
  <2>. QED
    BY <1>0, <1>4, <1>5, <2>1, <2>2, ExecBanks
<1>11. /\ \A k \in Line : SameAsks(k) /\ SameCaches(k) /\ mem'[k] = mem[k] /\ latest'[k] = latest[k]
  BY DEF TakeOwnerData, SameAsks, Asks, SameCaches, l1Vars
<1>12. ReqChannels'
  BY <1>0 DEF Channels, ReqChannels, TakeOwnerData
<1>13. KeepsOthers(l)
  BY <1>7, <1>8, <1>9, <1>10, <1>11, <1>12 DEF KeepsOthers, Channels, SameLine, SameBank
<1>14. DataBack(c, l, a0, v)
  <2>1. ~Recalled(l)
    BY <1>1, <1>4, <1>a DEF Recalled
  <2>2. /\ Sent(c, HomeOf[l], l, "WB_DATA", a0, v)
        /\ \A s2, d2 \in Node : \A t, a, x :
             Sent(s2, d2, l, t, a, x)' <=>
               Sent(s2, d2, l, t, a, x) /\ ~(s2 = c /\ d2 = HomeOf[l] /\ t = "WB_DATA" /\ a = a0 /\ x = v)
    BY <1>4, <1>9
  <2>3. SameAt(l) /\ SameAsks(l) /\ SameCaches(l) /\ SameRecall(l) /\ latest'[l] = latest[l]
    BY <1>8, <1>10, <1>11
  <2>. QED
    BY <1>6, <1>7, <2>1, <2>2, <2>3 DEF DataBack
<1>. QED
  BY <1>4, <1>13, <1>14

\* Data brought back by a forwarded GetS keeps what must hold of its line.
LEMMA DataBackLine ==
  ASSUME IInv, NEW c \in Cache, NEW l \in Line, NEW a0 \in AckField, NEW v \in Version, DataBack(c, l, a0, v)
  PROVE  LineInv(l)'
<1>0. LineInv(l) /\ TypeOK
  BY DEF IInv
<1>4. /\ LineInv(l) /\ dir[l].state = "S_D"
      /\ dir'[l].state = "S" /\ dir'[l].present /\ dir'[l].data_valid /\ dir'[l].sharers = dir[l].sharers
      /\ l2'[l] = v
      /\ SameAt(l) /\ SameAsks(l) /\ SameCaches(l) /\ SameRecall(l) /\ latest'[l] = latest[l]
      /\ ~Recalled(l)
      /\ Sent(c, HomeOf[l], l, "WB_DATA", a0, v)
      /\ \A s2, d2 \in Node : \A t, a, x :
           Sent(s2, d2, l, t, a, x)' <=>
             Sent(s2, d2, l, t, a, x) /\ ~(s2 = c /\ d2 = HomeOf[l] /\ t = "WB_DATA" /\ a = a0 /\ x = v)
  BY <1>0 DEF DataBack
<1>12. /\ ~Recalled(l) /\ ~Recalled(l)'
       /\ \A k : ~RecallCount(l, k) /\ ~RecallCount(l, k)'
  <2>1. ~Recalled(l)
    BY <1>4
  <2>2. \A k : ~RecallCount(l, k)
    BY <2>1 DEF Recalled, Recalling, RecallCount
  <2>. QED
    BY <1>4, <2>1, <2>2 DEF SameRecall
<1>13. /\ a0 = 0 /\ v = latest[l]
       /\ \A d \in Cache : ~Expects(d, l) /\ ~Own(d, l) /\ ~Waits(d, l) /\ ~HasOwnerFwd(d, l)
       /\ \A d \in Cache : \A r \in Node : \A t \in OwnerFwd : ~At(d, l, t, r)
       /\ \A d \in Cache, a \in AckField, x \in Version : ~Sent(d, HomeOf[l], l, "WB_DATA", a, x)'
       /\ \A d, r \in Cache : ~At(d, l, "INV", r)
       /\ \A d \in Cache : ~At(d, l, "RECALL", HomeOf[l]) /\ ~At(d, l, "RECALL_INV", HomeOf[l])
       /\ \A d \in Cache, a \in AckField, x \in Version : ~Sent(d, HomeOf[l], l, "RECALL_ACK", a, x)
  <2>1. a0 = 0
    BY <1>4 DEF LineInv, WriteBacks
  <2>2. v = latest[l] /\ WbInFlight(l)
    BY <1>4, <2>1 DEF LineInv, Contents, WbInFlight
  <2>3. \A d \in Cache : ~Expects(d, l) /\ ~Own(d, l) /\ ~Waits(d, l) /\ ~HasOwnerFwd(d, l)
    BY <1>4, <2>2 DEF LineInv, Owners, Expects
  <2>4. \A d \in Cache : \A r \in Node : \A t \in OwnerFwd : ~At(d, l, t, r)
    BY <2>3 DEF HasOwnerFwd
  <2>5. \A d \in Cache, a \in AckField, x \in Version : Sent(d, HomeOf[l], l, "WB_DATA", a, x) => d = c /\ x = v /\ a = a0
    BY <1>4, <2>1 DEF LineInv, WriteBacks
  <2>6. \A d \in Cache, a \in AckField, x \in Version : ~Sent(d, HomeOf[l], l, "WB_DATA", a, x)'
    BY <1>4, <2>5, NodeSets
  <2>7. \A d, r \in Cache : ~At(d, l, "INV", r)
    BY <1>4, <2>3 DEF LineInv, Invs
  <2>8. /\ \A d \in Cache : ~At(d, l, "RECALL", HomeOf[l]) /\ ~At(d, l, "RECALL_INV", HomeOf[l])
        /\ \A d \in Cache, a \in AckField, x \in Version : ~Sent(d, HomeOf[l], l, "RECALL_ACK", a, x)
    BY <1>4, <1>12 DEF LineInv, Recalls
  <2>. QED
    BY <2>1, <2>2, <2>3, <2>4, <2>6, <2>7, <2>8
<1>14. /\ \A d \in Cache : \A s \in Node : \A t, a, x : Sent(s, d, l, t, a, x)' <=> Sent(s, d, l, t, a, x)
       /\ \A d \in Cache : /\ HasData(d, l)' <=> HasData(d, l)
                           /\ HasDataE(d, l)' <=> HasDataE(d, l)
       /\ ~WbInFlight(l)'
       /\ \A d \in Cache : Owed(d, l)' = Owed(d, l)
       /\ RecallOwed(l)' = {}
       /\ \A d \in Cache, a \in AckField, x \in Version : ~Sent(d, HomeOf[l], l, "RECALL_ACK", a, x)'
  <2>1. \A d \in Cache : \A s \in Node : \A t, a, x : Sent(s, d, l, t, a, x)' <=> Sent(s, d, l, t, a, x)
    BY <1>4, NodeSets
  <2>2. \A d \in Cache : /\ HasData(d, l)' <=> HasData(d, l)
                         /\ HasDataE(d, l)' <=> HasDataE(d, l)
    BY <2>1 DEF HasData, HasDataE
  <2>3. ~WbInFlight(l)'
    BY <1>4, <1>13, ZeroTypes DEF WbInFlight
  <2>4. \A d \in Cache : Owed(d, l)' = Owed(d, l)
    BY <1>4, <2>1, NodeSets DEF Owed, SameAt
  <2>5. \A d \in Cache, a \in AckField, x \in Version : ~Sent(d, HomeOf[l], l, "RECALL_ACK", a, x)'
    BY <1>4, <1>13, NodeSets
  <2>6. RecallOwed(l)' = {}
    BY <1>4, <1>13, <2>5, ZeroTypes DEF RecallOwed, SameAt, RspToDir
  <2>. QED
    BY <2>1, <2>2, <2>3, <2>4, <2>5, <2>6
<1>15. \A d \in Cache : /\ HasOwnerFwd(d, l)' <=> HasOwnerFwd(d, l)
                        /\ HasInv(d, l)' <=> HasInv(d, l)
                        /\ Waits(d, l)' <=> Waits(d, l)
                        /\ HasReq(d, l)' <=> HasReq(d, l)
  BY <1>4, AtFrame, AsksFrame
<1>16. \A d \in Cache : /\ ~Own(d, l)' /\ ~Expects(d, l)'
                        /\ Shares(d, l)' <=> Shares(d, l)
  <2>1. \A d \in Cache : l1'[d][l] = l1[d][l] /\ mshr'[d][l] = mshr[d][l]
    BY <1>4 DEF SameCaches
  <2>2. \A d \in Cache : Own(d, l)' <=> Own(d, l)
    BY <1>14, <1>15, <2>1 DEF Own
  <2>3. \A d \in Cache : Shares(d, l)' <=> Shares(d, l)
    BY <1>14, <2>1 DEF Shares
  <2>. QED
    BY <1>13, <1>15, <2>2, <2>3 DEF Expects
<1>. USE <1>4
<1>17. \A d \in Cache : l1'[d][l] = l1[d][l] /\ mshr'[d][l] = mshr[d][l] /\ copy'[d][l] = copy[d][l]
  BY <1>4 DEF SameCaches
<1>18. latest'[l] = latest[l] /\ ~Exclusive(l)'
  BY <1>4 DEF Exclusive
<1>21. MshrMatches(l)'
  BY <1>17 DEF LineInv, MshrMatches
<1>22. Questions(l)'
  BY <1>4, <1>14, <1>17 DEF LineInv, Questions, SameAt, SameAsks
<1>23. PutAcks(l)' /\ DataMsgs(l)'
  BY <1>4, <1>14, <1>17 DEF LineInv, PutAcks, DataMsgs, SameAt
<1>24. Owners(l)'
  BY <1>13, <1>14, <1>15, <1>16, <1>18 DEF Owners
<1>25. OwnerFwds(l)'
  <2>1. \A d \in Cache : \A r \in Node : \A t \in OwnerFwd : ~At(d, l, t, r)'
    BY <1>4, <1>13 DEF SameAt
  <2>2. \A d \in Cache : \A r \in Cache : ~At(d, l, "FWD_GETS", r)' /\ ~At(d, l, "FWD_GETM", r)'
    BY <2>1, NodeSets DEF OwnerFwd
  <2>3. dir'[l].state # "S_D"
    BY <1>4
  <2>. QED
    BY <1>18, <2>1, <2>2, <2>3 DEF OwnerFwds
<1>26. NoCycle(l)' /\ WriteBacks(l)'
  BY <1>4, <1>13 DEF LineInv, NoCycle, WriteBacks, SameAt
<1>28. Sharers(l)'
  <2>1. \A d \in Cache : d \in dir[l].sharers => ~At(d, l, "PUT_ACK", d) /\ l1[d][l] \in Invalidatable
    BY <1>4, <1>12, <1>13 DEF LineInv, Sharers
  <2>2. \A d \in Cache : Shares(d, l) => HasInv(d, l) \/ d \in dir[l].sharers
    BY <1>4, <1>13 DEF LineInv, Sharers
  <2>3. \A d \in Cache : Shares(d, l)' => HasInv(d, l)' \/ d \in dir'[l].sharers
    BY <1>4, <1>15, <1>16, <2>2
  <2>4. \A d \in Cache : d \in dir'[l].sharers => ~At(d, l, "PUT_ACK", d)' /\ l1'[d][l] \in Invalidatable
    BY <1>4, <1>17, <2>1, NodeSets DEF SameAt
  <2>. QED
    BY <1>4, <1>16, <2>3, <2>4 DEF Sharers, Invalidatable
<1>29. Invs(l)' /\ InvAcks(l)'
  <2>1. \A d, r \in Cache, a \in AckField, x \in Version : ~Sent(d, r, l, "INV_ACK", a, x)
    BY <1>13 DEF LineInv, InvAcks
  <2>. QED
    BY <1>4, <1>13, <1>14, <2>1, NodeSets DEF Invs, InvAcks, SameAt
<1>30. AckCounts(l)'
  BY <1>14, <1>17 DEF LineInv, AckCounts
<1>31. Recalls(l)'
  BY <1>4, <1>12, <1>13, <1>14 DEF Recalls, SameAt
<1>32. Contents(l)'
  <2>1. /\ \A d \in Cache, s \in Node, t2 \in DataType, a \in AckField, x \in Version :
             Sent(s, d, l, t2, a, x)' => x = latest[l]
        /\ \A d \in Cache, x \in Version : ~Sent(d, HomeOf[l], l, "WB_DATA", 0, x)'
    BY <1>13, <1>14, ZeroTypes DEF LineInv, Contents
  <2>. QED
    BY <1>16, <1>17, <1>18, <2>1 DEF LineInv, Contents, Readable
<1>33. BankCopy(l)'
  BY <1>4, <1>12, <1>13, <1>16, <1>18 DEF BankCopy
<1>. QED
  BY <1>21, <1>22, <1>23, <1>24, <1>25, <1>26, <1>28, <1>29, <1>30, <1>31, <1>32, <1>33 DEF LineInv

\* Taking the data a line in S_D waits for keeps what must hold of it.
LEMMA TakeOwnerDataLine ==
  ASSUME IInv, TypeOK', NEW h \in Home, NEW c \in Cache, TakeOwnerData(h, c)
  PROVE  \E l \in Line : LineInv(l)' /\ KeepsOthers(l)
BY TakeOwnerDataBack, DataBackLine

---------------------------------------------------------------------------
(* A request that waits, a line fetched, a line dropped *)

\* A request that has to wait changes no line.
LEMMA StallRequestKeeps ==
  ASSUME IInv, NEW h \in Home, NEW c \in Cache, StallRequest(h, c)
  PROVE  Channels' /\ Banks' /\ \A k \in Line : SameLine(k)
<1>1. /\ UNCHANGED <<l1, mshr, copy, dir, l2, mem, tbe, binv, req, fwd, rsp, latest>>
      /\ stuckReq[h] = None /\ \A g \in Home : g # h => stuckReq'[g] = stuckReq[g]
  BY DEF StallRequest, l1Vars, dirVars, IInv, TypeOK
<1>2. ASSUME NEW g \in Home PROVE BankOf(g)'
  <2>1. BankOf(g)
    BY DEF IInv, Banks
  <2>2. /\ \A l : TbesOf(g, l)' = TbesOf(g, l)
        /\ BinvActive(g)' <=> BinvActive(g)
        /\ HaveFreeWay(g)' <=> HaveFreeWay(g)
    BY <1>1 DEF TbesOf, BinvActive, HaveFreeWay, Resident, LinesOf
  <2>3. BinvActive(g) => g # h
    BY <1>1, <2>1, TopologyAssumption DEF BankOf
  <2>. QED
    BY <1>1, <2>1, <2>2, <2>3 DEF BankOf, LinesOf
<1>3. Channels'
  BY <1>1 DEF IInv, Channels, ReqChannels, FwdChannels, RspChannels
<1>4. \A k \in Line : SameLine(k)
  BY <1>1 DEF SameLine, SameAsks, SameAt, SameSent, SameCaches, SameBank, SameRecall, Asks, At,
     Sent, InRsp, Recalled, Recalling, TbesOf, RecallCount
<1>. QED
  BY <1>2, <1>3, <1>4 DEF Banks

\* The bank of l, which nobody holds, takes the line in or gives it up.
Settled(l) ==
    /\ SameAsks(l) /\ SameAt(l) /\ SameSent(l) /\ SameCaches(l) /\ SameRecall(l) /\ latest'[l] = latest[l]
    /\ ~Recalled(l)
    /\ dir[l].state \in {"I", "S"} /\ dir[l].sharers = {}
    /\ dir'[l].state \in {"I", "S"} /\ dir'[l].sharers = {}
    /\ ~dir'[l].present => dir'[l] = NoMeta /\ mem'[l] = latest[l]
    /\ dir'[l].present => dir'[l].data_valid /\ l2'[l] = latest[l]

\* A line fetched or dropped while nobody holds it is as it must be.
LEMMA SettledLine ==
  ASSUME NEW l \in Line, LineInv(l), Settled(l)
  PROVE  LineInv(l)'
<1>1. /\ SameAsks(l) /\ SameAt(l) /\ SameSent(l)
      /\ \A c \in Cache : l1'[c][l] = l1[c][l] /\ mshr'[c][l] = mshr[c][l] /\ copy'[c][l] = copy[c][l]
      /\ latest'[l] = latest[l]
      /\ SameRecall(l)
      /\ ~Recalled(l)
      /\ dir[l].state \in {"I", "S"} /\ dir[l].sharers = {}
      /\ dir'[l].state \in {"I", "S"} /\ dir'[l].sharers = {}
  BY DEF Settled, SameCaches
<1>2. \A c \in Cache : /\ Own(c, l)' <=> Own(c, l)
                       /\ Expects(c, l)' <=> Expects(c, l)
                       /\ Shares(c, l)' <=> Shares(c, l)
  BY <1>1, HoldersFrame
<1>3. \A c \in Cache : /\ HasReq(c, l)' <=> HasReq(c, l)
                       /\ HasOwnerFwd(c, l)' <=> HasOwnerFwd(c, l)
                       /\ HasInv(c, l)' <=> HasInv(c, l)
                       /\ HasData(c, l)' <=> HasData(c, l)
  BY <1>1, AsksFrame, AtFrame, SentFrame
<1>4. /\ WbInFlight(l)' <=> WbInFlight(l)
      /\ ~Exclusive(l)' /\ ~Exclusive(l)
      /\ ~Recalled(l)'
  BY <1>1, SentFrame DEF Exclusive, SameRecall
<1>. USE <1>1
<1>5. MshrMatches(l)'
  BY DEF LineInv, MshrMatches
<1>6. Questions(l)'
  BY <1>3 DEF LineInv, Questions, SameAsks, SameAt
<1>7. PutAcks(l)'
  BY DEF LineInv, PutAcks, SameAt
<1>8. DataMsgs(l)'
  BY NodeSets DEF LineInv, DataMsgs, SameSent
<1>0. \A c \in Cache : ~Expects(c, l) /\ ~HasOwnerFwd(c, l)
  BY DEF LineInv, Owners
<1>9. Owners(l)'
  BY <1>0, <1>2, <1>3, <1>4 DEF Owners, Expects
<1>10. OwnerFwds(l)'
  <2>1. \A c \in Cache : \A t \in OwnerFwd, r \in Node : ~At(c, l, t, r)
    BY <1>0 DEF HasOwnerFwd
  <2>2. \A c \in Cache : \A t \in OwnerFwd, r \in Node : ~At(c, l, t, r)'
    BY <2>1 DEF SameAt
  <2>3. \A c, r \in Cache : ~At(c, l, "FWD_GETM", r)' /\ ~At(c, l, "FWD_GETS", r)'
    BY <2>2, NodeSets DEF OwnerFwd
  <2>. QED
    BY <1>4, <2>2, <2>3 DEF OwnerFwds
<1>11. NoCycle(l)'
  BY DEF LineInv, NoCycle, SameAt
<1>12. WriteBacks(l)'
  BY <1>4, NodeSets DEF LineInv, WriteBacks, SameSent
<1>13. Sharers(l)'
  BY <1>2, <1>3, <1>4 DEF LineInv, Sharers, SameAt
<1>14. Invs(l)' /\ InvAcks(l)'
  BY <1>2, NodeSets DEF LineInv, Invs, InvAcks, SameAt, SameSent
<1>18. AckCounts(l)'
  <2>1. \A r \in Cache : Owed(r, l)' = Owed(r, l)
    BY NodeSets DEF Owed, SameAt, SameSent
  <2>. QED
    BY <1>3, <2>1, NodeSets DEF LineInv, AckCounts, SameSent
<1>15. Recalls(l)'
  <2>1. RecallOwed(l)' = RecallOwed(l)
    BY NodeSets DEF RecallOwed, SameAt, SameSent
  <2>. QED
    BY <1>2, <1>4, <2>1, NodeSets DEF LineInv, Recalls, SameAt, SameSent, SameRecall
<1>16. Contents(l)'
  BY <1>2, NodeSets DEF LineInv, Contents, Readable, SameAsks, SameSent
<1>17. BankCopy(l)'
  BY <1>2, <1>4 DEF LineInv, BankCopy, Settled
<1>. QED
  BY <1>5, <1>6, <1>7, <1>8, <1>9, <1>10, <1>11, <1>12, <1>13, <1>14, <1>15, <1>16, <1>17, <1>18 DEF LineInv

\* Bank h, with c's request at its head, has changed line l, and its way, only.
\* None of its entries is a recall's, before or after.
Refilled(h, c, l) ==
    /\ h = HomeOf[l] /\ c \in Cache
    /\ \A g \in Home : g # h => stuckReq'[g] = stuckReq[g]
    /\ ~BinvActive(h) /\ UNCHANGED binv
    /\ \A g \in Home : \A i \in TbeIdx :
         tbe'[g][i] = tbe[g][i] \/ (tbe[g][i].state = "INVALID" /\ tbe'[g][i].state = "INVALID")
    /\ \A k \in Line : k # l => dir'[k] = dir[k]
    /\ dir[l].state # "S_D" /\ dir'[l].state # "S_D"
    /\ UNCHANGED req

\* Fetching or dropping a line keeps the banks as they must be.
LEMMA RefilledBanks ==
  ASSUME Banks, Channels, TypeOK, NEW h \in Home, NEW c, NEW l \in Line, Refilled(h, c, l)
  PROVE  Banks' /\ \A k \in Line : SameRecall(k)
<1>1. /\ h = HomeOf[l]
      /\ \A g \in Home : g # h => stuckReq'[g] = stuckReq[g]
      /\ ~BinvActive(h) /\ UNCHANGED binv
      /\ \A g \in Home : \A i \in TbeIdx :
         tbe'[g][i] = tbe[g][i] \/ (tbe[g][i].state = "INVALID" /\ tbe'[g][i].state = "INVALID")
      /\ \A k \in Line : k # l => dir'[k] = dir[k]
      /\ dir[l].state # "S_D" /\ dir'[l].state # "S_D"
      /\ UNCHANGED req
  BY DEF Refilled
<1>2. \A g \in Home : \A k : TbesOf(g, k)' = TbesOf(g, k) /\ TbesOf(g, k) \subseteq TbeIdx
  BY <1>1 DEF TbesOf
<1>3. \A g \in Home : BinvActive(g)' <=> BinvActive(g)
  BY <1>1 DEF BinvActive
<1>4. ASSUME NEW k \in Line PROVE SameRecall(k)
  <2>1. Recalled(k)' <=> Recalled(k)
    BY <1>1, <1>2, NodeSets DEF Recalled, Recalling, TbesOf
  <2>2. ASSUME NEW n PROVE RecallCount(k, n)' <=> RecallCount(k, n)
    BY <1>1, <1>2, NodeSets DEF RecallCount, TbesOf
  <2>. QED
    BY <1>1, <2>1, <2>2 DEF SameRecall
<1>5. ASSUME NEW g \in Home PROVE BankOf(g)'
  <2>1. BankOf(g)
    BY DEF Banks
  <2>2. /\ \A k \in LinesOf(g) : \A i, j \in TbesOf(g, k)' : i = j
        /\ \A i \in TbeIdx : tbe'[g][i].state # "INVALID" => tbe'[g][i].line \in LinesOf(g)
        /\ \A k \in LinesOf(g) :
             (dir'[k].state = "S_D") <=> \E i \in TbesOf(g, k)' : tbe'[g][i].state = "WB_PEND"
    <3>1. \A k \in LinesOf(g) : k \in Line /\ (dir'[k].state = "S_D" <=> dir[k].state = "S_D")
      BY <1>1 DEF LinesOf
    <3>2. \A k : \A i \in TbesOf(g, k) : tbe'[g][i] = tbe[g][i]
      BY <1>1, <1>2 DEF TbesOf
    <3>. QED
      BY <1>1, <1>2, <2>1, <3>1, <3>2 DEF BankOf
  <2>3. CASE g = h
    <3>1. \A i \in TbeIdx : tbe'[g][i].state # "INV_PEND"
      BY <1>1, <2>3 DEF BinvActive
    <3>2. ~BinvActive(g)'
      BY <1>1, <1>3, <2>3
    <3>. QED
      BY <2>2, <3>1, <3>2 DEF BankOf, LinesOf
  <2>4. CASE g # h
    <3>1. \A k \in LinesOf(g) : k \in Line /\ dir'[k] = dir[k]
      BY <1>1, <2>4 DEF LinesOf
    <3>2. HaveFreeWay(g)' <=> HaveFreeWay(g)
      <4>1. Resident(g)' = Resident(g)
        BY <3>1 DEF Resident, LinesOf
      <4>. QED
        BY <4>1 DEF HaveFreeWay
    <3>3. \A i \in TbeIdx : tbe'[g][i].state = "INV_PEND" =>
             binv'[g].idx = i /\ binv'[g].line = tbe'[g][i].line /\ dir'[tbe'[g][i].line].present
      BY <1>1, <2>1, <3>1 DEF BankOf
    <3>4. BinvActive(g)' =>
         /\ ~HaveFreeWay(g)'
         /\ stuckReq'[g] \in Cache
         /\ req'[stuckReq'[g]][g] # <<>>
         /\ ~dir'[Head(req'[stuckReq'[g]][g]).line].present
      <4>. SUFFICES ASSUME BinvActive(g)
                    PROVE  /\ ~HaveFreeWay(g)'
                           /\ stuckReq'[g] \in Cache
                           /\ req'[stuckReq'[g]][g] # <<>>
                           /\ ~dir'[Head(req'[stuckReq'[g]][g]).line].present
        BY <1>3
      <4>. PICK d : d = stuckReq[g]
        OBVIOUS
      <4>1. d \in Cache /\ req[d][g] # <<>> /\ ~HaveFreeWay(g) /\ ~dir[Head(req[d][g]).line].present
        BY <2>1 DEF BankOf
      <4>2. stuckReq'[g] = d /\ req'[d][g] = req[d][g]
        BY <1>1, <2>4
      <4>3. Head(req[d][g]) \in Items(req[d][g])
        <5>1. req[d][g] \in Seq(ReqMsg)
          BY <4>1 DEF TypeOK
        <5>. QED
          BY <4>1, <5>1 DEF Items
      <4>4. Head(req[d][g]).line \in LinesOf(g)
        <5>1. HomeOf[Head(req[d][g]).line] = g
          BY <4>1, <4>3 DEF Channels, ReqChannels
        <5>2. Head(req[d][g]) \in ReqMsg
          BY <4>1, HeadTail DEF TypeOK
        <5>. QED
          BY <5>1, <5>2 DEF LinesOf, ReqMsg
      <4>. QED
        BY <3>1, <3>2, <4>1, <4>2, <4>4
    <3>. QED
      BY <2>2, <3>3, <3>4 DEF BankOf, LinesOf
  <2>. QED
    BY <2>3, <2>4
<1>. QED
  BY <1>4, <1>5 DEF Banks

\* The request at the head of a bank's queue.
LEMMA HeadLine ==
  ASSUME TypeOK, Channels, NEW h \in Home, NEW c \in Cache, req[c][h] # <<>>
  PROVE  Head(req[c][h]).line \in Line /\ HomeOf[Head(req[c][h]).line] = h
<1>1. Head(req[c][h]) \in ReqMsg /\ req[c][h] \in Seq(ReqMsg)
  BY HeadTail DEF TypeOK
<1>2. Head(req[c][h]) \in Items(req[c][h])
  BY <1>1 DEF Items
<1>. QED
  BY <1>1, <1>2 DEF Channels, ReqChannels, ReqMsg

\* A miss with a free way.
LEMMA FetchLineLine ==
  ASSUME IInv, NEW h \in Home, NEW c \in Cache, FetchLine(h, c)
  PROVE  \E l \in Line : LineInv(l)' /\ KeepsOthers(l)
<1>0. TypeOK /\ Channels /\ Banks /\ BankOf(h)
  BY DEF IInv, Banks
<1>1. PICK l \in Line : l = Head(req[c][h]).line /\ HomeOf[l] = h
  BY <1>0, HeadLine DEF FetchLine, ReqPresented
<1>2. LineInv(l) /\ ~dir[l].present
  BY <1>1 DEF IInv, FetchLine
<1>3. dir[l] = NoMeta /\ mem[l] = latest[l]
  BY <1>2 DEF LineInv, BankCopy
<1>4. /\ UNCHANGED <<l1, mshr, copy, mem, tbe, binv, req, fwd, rsp, latest>>
      /\ dir' = [dir EXCEPT ![l] = [NoMeta EXCEPT !.present = TRUE, !.data_valid = TRUE]]
      /\ l2' = [l2 EXCEPT ![l] = mem[l]]
      /\ \A g \in Home : g # h => stuckReq'[g] = stuckReq[g]
  BY <1>0, <1>1 DEF FetchLine, l1Vars, TypeOK
<1>5. /\ dir'[l].present /\ dir'[l].data_valid /\ dir'[l].state = "I" /\ dir'[l].sharers = {}
      /\ dir[l].state = "I" /\ dir[l].sharers = {}
      /\ l2'[l] = mem[l]
      /\ \A k \in Line : k # l => dir'[k] = dir[k] /\ l2'[k] = l2[k]
  BY <1>0, <1>3, <1>4 DEF NoMeta, TypeOK
<1>6. ~BinvActive(h)
  BY <1>0 DEF BankOf, FetchLine
<1>7. Banks' /\ \A k \in Line : SameRecall(k)
  <2>1. Refilled(h, c, l)
    BY <1>1, <1>4, <1>5, <1>6 DEF Refilled
  <2>. QED
    BY <1>0, <2>1, RefilledBanks
<1>8. ~Recalled(l)
  BY <1>1, <1>6 DEF Recalled, Recalling, BinvActive, TbesOf
<1>9. \A k \in Line : SameAsks(k) /\ SameAt(k) /\ SameSent(k) /\ SameCaches(k)
  BY <1>4 DEF SameAsks, SameAt, SameSent, SameCaches, Asks, At, Sent, InRsp
<1>10. Settled(l)
  BY <1>3, <1>4, <1>5, <1>7, <1>8, <1>9 DEF Settled
<1>11. Channels'
  BY <1>0, <1>4 DEF Channels, ReqChannels, FwdChannels, RspChannels
<1>12. \A k \in Line : k # l => SameLine(k)
  BY <1>4, <1>5, <1>7, <1>9 DEF SameLine, SameBank
<1>. QED
  BY <1>2, <1>7, <1>10, <1>11, <1>12, SettledLine DEF KeepsOthers

\* A line nobody holds gives up its way.
LEMMA ReplaceUnheldLine ==
  ASSUME IInv, NEW h \in Home, NEW c \in Cache, ReplaceUnheld(h, c)
  PROVE  \E l \in Line : LineInv(l)' /\ KeepsOthers(l)
<1>0. TypeOK /\ Channels /\ Banks /\ BankOf(h)
  BY DEF IInv, Banks
<1>1. PICK l \in Victims(h) : FreeUnheld(h, c, l)
  BY DEF ReplaceUnheld, VictimChoice, RecallPossible
<1>2. l \in Line /\ h = HomeOf[l] /\ LineInv(l) /\ dir[l].present /\ TbesOf(h, l) = {}
  BY <1>1 DEF Victims, Resident, LinesOf, IInv
<1>3. FreeTbes(h) # {} /\ ~BinvActive(h)
  BY DEF ReplaceUnheld, MissesFullSet, RecallPossible
<1>4. /\ UNCHANGED <<l1, mshr, copy, l2, binv, req, fwd, rsp, latest>>
      /\ RecallExpect(dir[l]) = 0
      /\ mem' = IF dir[l].data_valid THEN [mem EXCEPT ![l] = l2[l]] ELSE mem
      /\ dir' = [dir EXCEPT ![l] = NoMeta]
      /\ tbe' = [tbe EXCEPT ![h][AllocIdx(h)] = NoTbe]
      /\ \A g \in Home : g # h => stuckReq'[g] = stuckReq[g]
  BY <1>0, <1>1 DEF FreeUnheld, l1Vars, TypeOK
<1>5. dir[l].state # "S_D"
  BY <1>0, <1>2 DEF BankOf, LinesOf
<1>6. dir[l].state \in {"I", "S"} /\ (dir[l].state = "S" => Cardinality(dir[l].sharers) = 0)
  <2>1. dir[l].state \in {"I", "S", "E", "M", "S_D"}
    BY <1>0, <1>2, MetaValues
  <2>2. CASE dir[l].state = "S"
    BY <1>4, <2>2 DEF RecallExpect
  <2>3. CASE dir[l].state \in {"E", "M"}
    <3>1. RecallExpect(dir[l]) = 1
      BY <2>3 DEF RecallExpect
    <3>. QED
      BY <1>4, <3>1
  <2>. QED
    BY <1>5, <2>1, <2>2, <2>3
<1>7. ~Recalled(l)
  BY <1>2 DEF Recalled, Recalling
<1>8. dir[l].sharers = {} /\ dir[l].data_valid /\ l2[l] = latest[l]
  <2>1. dir[l].state = "S" => dir[l].sharers = {}
    BY <1>0, <1>2, <1>6, CacheSets, MetaValues
  <2>. QED
    BY <1>0, <1>2, <1>6, <1>7, <2>1, IdleFacts
<1>9. /\ dir'[l] = NoMeta /\ mem'[l] = latest[l]
      /\ ~dir'[l].present /\ dir'[l].state = "I" /\ dir'[l].sharers = {}
      /\ \A k \in Line : k # l => dir'[k] = dir[k] /\ mem'[k] = mem[k]
  BY <1>0, <1>2, <1>4, <1>8 DEF NoMeta, TypeOK
<1>10. \A g \in Home : \A i \in TbeIdx :
         tbe'[g][i] = tbe[g][i] \/ (tbe[g][i].state = "INVALID" /\ tbe'[g][i].state = "INVALID")
  <2>1. AllocIdx(h) \in TbeIdx /\ tbe[h][AllocIdx(h)].state = "INVALID"
    BY <1>3, AllocIdxType DEF FreeTbes
  <2>2. NoTbe.state = "INVALID" /\ tbe \in [Home -> [TbeIdx -> Tbe]]
    BY <1>0 DEF NoTbe, TypeOK
  <2>. QED
    BY <1>4, <2>1, <2>2
<1>11. Banks' /\ \A k \in Line : SameRecall(k)
  <2>1. Refilled(h, c, l)
    BY <1>2, <1>3, <1>4, <1>5, <1>9, <1>10 DEF Refilled
  <2>. QED
    BY <1>0, <1>2, <2>1, RefilledBanks
<1>12. \A k \in Line : SameAsks(k) /\ SameAt(k) /\ SameSent(k) /\ SameCaches(k)
  BY <1>4 DEF SameAsks, SameAt, SameSent, SameCaches, Asks, At, Sent, InRsp
<1>13. Settled(l)
  <2>1. latest'[l] = latest[l]
    BY <1>4
  <2>. QED
    BY <1>2, <1>6, <1>7, <1>8, <1>9, <1>11, <1>12, <2>1 DEF Settled
<1>14. Channels'
  BY <1>0, <1>4 DEF Channels, ReqChannels, FwdChannels, RspChannels
<1>15. \A k \in Line : k # l => SameLine(k)
  BY <1>4, <1>9, <1>11, <1>12 DEF SameLine, SameBank
<1>. QED
  BY <1>2, <1>11, <1>13, <1>14, <1>15, SettledLine DEF KeepsOthers

---------------------------------------------------------------------------
(* A recall: its bookkeeping *)

\* The bank of l has asked the caches of ds, with t, to give the line back.
RecallStarted(l, ds, t) ==
    /\ ds \in SUBSET Cache
    /\ SameAsks(l) /\ SameSent(l) /\ SameCaches(l) /\ SameBank(l) /\ latest'[l] = latest[l]
    /\ dir[l].present /\ ~Recalled(l) /\ Recalled(l)'
    /\ \A k : RecallCount(l, k)' => k = Cardinality(ds)
    /\ \A d \in Cache : \A t2, r2 :
         At(d, l, t2, r2)' <=> At(d, l, t2, r2) \/ (d \in ds /\ t2 = t /\ r2 = HomeOf[l])
    /\ (binv'[HomeOf[l]].wb <=> dir[l].data_valid) /\ binv'[HomeOf[l]].data = l2[l]

\* The bank's bookkeeping of a recall it starts.
BookKept(h, c, l, n) ==
    /\ l \in LinesOf(h) /\ c \in Cache /\ dir[l].present /\ TbesOf(h, l) = {}
    /\ ~BinvActive(h) /\ ~HaveFreeWay(h)
    /\ req[c][h] # <<>> /\ ~dir[Head(req[c][h]).line].present
    /\ stuckReq'[h] = c /\ \A g \in Home : g # h => stuckReq'[g] = stuckReq[g]
    /\ UNCHANGED <<dir, req>>
    /\ \A g \in Home : g # h => tbe'[g] = tbe[g] /\ binv'[g] = binv[g]
    /\ \E j \in TbeIdx :
         /\ tbe[h][j].state = "INVALID"
         /\ tbe'[h][j].state = "INV_PEND" /\ tbe'[h][j].line = l /\ tbe'[h][j].ack = n
         /\ \A i \in TbeIdx : i # j => tbe'[h][i] = tbe[h][i]
         /\ binv'[h].line = l /\ binv'[h].idx = j

\* Starting a recall keeps the banks as they must be, with a count of n.
LEMMA BookKeeping ==
  ASSUME TypeOK, Banks, NEW h \in Home, NEW c, NEW l \in Line, NEW n, BookKept(h, c, l, n)
  PROVE  /\ Banks'
         /\ \A k \in Line : k # l => SameRecall(k)
         /\ ~Recalled(l) /\ Recalled(l)'
         /\ \A k : RecallCount(l, k)' => k = n
<1>1. /\ l \in LinesOf(h) /\ c \in Cache /\ dir[l].present /\ TbesOf(h, l) = {}
      /\ ~BinvActive(h) /\ ~HaveFreeWay(h)
      /\ req[c][h] # <<>> /\ ~dir[Head(req[c][h]).line].present
      /\ stuckReq'[h] = c /\ \A g \in Home : g # h => stuckReq'[g] = stuckReq[g]
      /\ UNCHANGED <<dir, req>>
      /\ \A g \in Home : g # h => tbe'[g] = tbe[g] /\ binv'[g] = binv[g]
  BY DEF BookKept
<1>2. PICK j \in TbeIdx :
         /\ tbe[h][j].state = "INVALID"
         /\ tbe'[h][j].state = "INV_PEND" /\ tbe'[h][j].line = l /\ tbe'[h][j].ack = n
         /\ \A i \in TbeIdx : i # j => tbe'[h][i] = tbe[h][i]
         /\ binv'[h].line = l /\ binv'[h].idx = j
  BY DEF BookKept
<1>3. \A g \in Home : g # h => /\ \A k : TbesOf(g, k)' = TbesOf(g, k)
                               /\ BinvActive(g)' <=> BinvActive(g)
  BY <1>1 DEF TbesOf, BinvActive
<1>4. /\ TbesOf(h, l)' = {j}
      /\ \A k : k # l => TbesOf(h, k)' = TbesOf(h, k) /\ j \notin TbesOf(h, k)
  BY <1>1, <1>2 DEF TbesOf
<1>5. \A i \in TbeIdx : tbe[h][i].state # "INV_PEND"
  BY <1>1 DEF BinvActive
<1>6. \A k : TbesOf(h, k) \subseteq TbeIdx
  BY DEF TbesOf
<1>7. \A g \in Home : HaveFreeWay(g)' <=> HaveFreeWay(g)
  BY <1>1 DEF HaveFreeWay, Resident
<1>8. ASSUME NEW k \in Line, k # l PROVE SameRecall(k)
  <2>1. CASE HomeOf[k] # h
    BY <1>1, <1>3, <2>1, NodeSets DEF SameRecall, Recalled, Recalling, RecallCount
  <2>2. CASE HomeOf[k] = h
    <3>1. ~Recalled(k)
      BY <1>5, <1>6, <2>2 DEF Recalled, Recalling
    <3>2. ~Recalled(k)'
      BY <1>2, <1>4, <1>5, <1>6, <1>8, <2>2 DEF Recalled, Recalling
    <3>3. \A x : ~RecallCount(k, x) /\ ~RecallCount(k, x)'
      BY <3>1, <3>2 DEF Recalled, Recalling, RecallCount
    <3>. QED
      BY <3>1, <3>2, <3>3 DEF SameRecall
  <2>. QED
    BY <2>1, <2>2
<1>9. /\ ~Recalled(l) /\ Recalled(l)'
      /\ \A k : RecallCount(l, k)' => k = n
  <2>1. HomeOf[l] = h
    BY <1>1 DEF LinesOf
  <2>. QED
    BY <1>1, <1>2, <1>4, <2>1 DEF Recalled, Recalling, RecallCount
<1>10. ASSUME NEW g \in Home PROVE BankOf(g)'
  <2>1. BankOf(g)
    BY DEF Banks
  <2>2. CASE g # h
    BY <1>1, <1>3, <1>7, <2>1, <2>2 DEF BankOf, LinesOf
  <2>3. CASE g = h
    <3>1. \A k \in LinesOf(h) : \A x, y \in TbesOf(h, k)' : x = y
      BY <1>4, <2>1, <2>3 DEF BankOf
    <3>2. \A i \in TbeIdx : tbe'[h][i].state # "INVALID" => tbe'[h][i].line \in LinesOf(h)
      BY <1>1, <1>2, <2>1, <2>3 DEF BankOf
    <3>3. ASSUME NEW k \in LinesOf(h)
          PROVE  (dir'[k].state = "S_D") <=> \E i \in TbesOf(h, k)' : tbe'[h][i].state = "WB_PEND"
      <4>1. (dir[k].state = "S_D") <=> \E i \in TbesOf(h, k) : tbe[h][i].state = "WB_PEND"
        BY <2>1, <2>3 DEF BankOf
      <4>2. CASE k = l
        BY <1>1, <1>2, <1>4, <4>1, <4>2
      <4>3. CASE k # l
        <5>1. \A i \in TbesOf(h, k) : tbe'[h][i] = tbe[h][i]
          BY <1>2, <1>4, <1>6, <4>3
        <5>. QED
          BY <1>1, <1>4, <4>1, <4>3, <5>1
      <4>. QED
        BY <4>2, <4>3
    <3>4. \A i \in TbeIdx : tbe'[h][i].state = "INV_PEND" =>
             binv'[h].idx = i /\ binv'[h].line = tbe'[h][i].line /\ dir'[tbe'[h][i].line].present
      BY <1>1, <1>2, <1>5
    <3>5. /\ ~HaveFreeWay(h)' /\ stuckReq'[h] \in Cache /\ req'[stuckReq'[h]][h] # <<>>
          /\ ~dir'[Head(req'[stuckReq'[h]][h]).line].present
      BY <1>1, <1>7
    <3>. QED
      BY <2>3, <3>1, <3>2, <3>3, <3>4, <3>5 DEF BankOf, LinesOf
  <2>. QED
    BY <2>2, <2>3
<1>. QED
  BY <1>8, <1>9, <1>10 DEF Banks

\* A recall is for the sharers or for the owner.
LEMMA StartRecallStarted ==
  ASSUME IInv, OwnerKnown, RecallsFit, NEW h \in Home, NEW c \in Cache, StartRecall(h, c)
  PROVE  \E l \in Line, ds \in SUBSET Cache, t \in {"RECALL", "RECALL_INV"} :
           /\ RecallStarted(l, ds, t)
           /\ \/ t = "RECALL_INV" /\ dir[l].state = "S" /\ ds = dir[l].sharers
              \/ t = "RECALL" /\ dir[l].state \in {"E", "M"} /\ ds = {dir[l].owner}
           /\ KeepsOthers(l)
<1>0. TypeOK /\ Channels /\ Banks /\ BankOf(h)
  BY DEF IInv, Banks
<1>1. PICK l \in Victims(h) : RecallCopies(h, c, l)
  BY DEF StartRecall, VictimChoice, RecallPossible
<1>2. l \in Line /\ h = HomeOf[l] /\ LineInv(l) /\ dir[l].present /\ TbesOf(h, l) = {} /\ l \in LinesOf(h)
  BY <1>1 DEF Victims, Resident, LinesOf, IInv
<1>3. /\ FreeTbes(h) # {} /\ ~BinvActive(h) /\ ~HaveFreeWay(h)
      /\ req[c][h] # <<>> /\ ~dir[Head(req[c][h]).line].present
  BY DEF StartRecall, MissesFullSet, RecallPossible, ReqPresented
<1>. PICK n : n = Signed(AckHalf, RecallExpect(dir[l]))
  OBVIOUS
<1>. PICK j : j = AllocIdx(h)
  OBVIOUS
<1>4. /\ UNCHANGED <<l1, mshr, copy, dir, l2, mem, req, rsp, latest>>
      /\ RecallExpect(dir[l]) # 0
      /\ tbe' = [tbe EXCEPT ![h][j] = [state |-> "INV_PEND", line |-> l, ack |-> n]]
      /\ binv' = [binv EXCEPT ![h] = [line |-> l, idx |-> j, wb |-> dir[l].data_valid, data |-> l2[l]]]
      /\ fwd' = IF dir[l].state = "S"
                THEN SendFwd(h, dir[l].sharers, Forward("RECALL_INV", l, h))
                ELSE SendFwd(h, {dir[l].owner}, Forward("RECALL", l, h))
      /\ stuckReq'[h] = c /\ \A g \in Home : g # h => stuckReq'[g] = stuckReq[g]
  BY <1>0, <1>1, <1>3 DEF RecallCopies, l1Vars, TypeOK, AllocTbe
<1>5. dir[l].state # "S_D"
  BY <1>0, <1>2 DEF BankOf
<1>6. \/ dir[l].state = "S" /\ RecallExpect(dir[l]) = Cardinality(dir[l].sharers)
      \/ dir[l].state \in {"E", "M"} /\ RecallExpect(dir[l]) = 1
  <2>1. dir[l].state \in {"I", "S", "E", "M", "S_D"}
    BY <1>0, <1>2, MetaValues
  <2>2. CASE dir[l].state = "S"
    BY <2>2 DEF RecallExpect
  <2>3. CASE dir[l].state \in {"E", "M"}
    <3>1. RecallExpect(dir[l]) = 1
      BY <2>3 DEF RecallExpect
    <3>. QED
      BY <2>3, <3>1
  <2>4. dir[l].state # "I"
    <3>1. dir[l].state = "I" => RecallExpect(dir[l]) = 0
      BY DEF RecallExpect
    <3>. QED
      BY <1>4, <3>1
  <2>. QED
    BY <1>5, <2>1, <2>2, <2>3, <2>4
<1>7. PICK ds \in SUBSET Cache, t \in {"RECALL", "RECALL_INV"} :
        /\ \/ t = "RECALL_INV" /\ dir[l].state = "S" /\ ds = dir[l].sharers
           \/ t = "RECALL" /\ dir[l].state \in {"E", "M"} /\ ds = {dir[l].owner}
        /\ fwd' = SendFwd(HomeOf[l], ds, Forward(t, l, HomeOf[l]))
        /\ RecallExpect(dir[l]) = Cardinality(ds)
  <2>1. CASE dir[l].state = "S" /\ RecallExpect(dir[l]) = Cardinality(dir[l].sharers)
    <3>1. dir[l].sharers \in SUBSET Cache
      BY <1>0, <1>2, MetaValues
    <3>. QED
      BY <1>2, <1>4, <2>1, <3>1
  <2>2. CASE dir[l].state \in {"E", "M"} /\ RecallExpect(dir[l]) = 1
    <3>1. dir[l].owner \in Cache
      BY <1>2, <2>2 DEF OwnerKnown
    <3>2. Cardinality({dir[l].owner}) = 1
      BY FS_Singleton
    <3>. QED
      BY <1>2, <1>4, <2>2, <3>1, <3>2
  <2>. QED
    BY <1>6, <2>1, <2>2
<1>8. n = Cardinality(ds)
  <2>1. RecallExpect(dir[l]) < AckHalf
    BY <1>1 DEF StartRecall, RecallsFit
  <2>. QED
    BY <1>7, <2>1, CacheCount
<1>9. BookKept(h, c, l, n)
  <2>1. j \in TbeIdx /\ tbe[h][j].state = "INVALID"
    BY <1>3, AllocIdxType DEF FreeTbes
  <2>2. /\ \A g \in Home : g # h => tbe'[g] = tbe[g] /\ binv'[g] = binv[g]
        /\ tbe'[h][j] = [state |-> "INV_PEND", line |-> l, ack |-> n]
        /\ \A i \in TbeIdx : i # j => tbe'[h][i] = tbe[h][i]
        /\ binv'[h] = [line |-> l, idx |-> j, wb |-> dir[l].data_valid, data |-> l2[l]]
    BY <1>0, <1>4, <2>1 DEF TypeOK
  <2>3. tbe'[h][j].state = "INV_PEND" /\ tbe'[h][j].line = l /\ tbe'[h][j].ack = n
        /\ binv'[h].line = l /\ binv'[h].idx = j
    BY <2>2
  <2>. QED
    BY <1>2, <1>3, <1>4, <2>1, <2>2, <2>3 DEF BookKept
<1>10. /\ Banks'
       /\ \A k \in Line : k # l => SameRecall(k)
       /\ ~Recalled(l) /\ Recalled(l)'
       /\ \A k : RecallCount(l, k)' => k = n
  BY <1>0, <1>2, <1>9, BookKeeping
<1>11. /\ \A d \in Cache : \A t2, r2 :
            At(d, l, t2, r2)' <=> At(d, l, t2, r2) \/ (d \in ds /\ t2 = t /\ r2 = HomeOf[l])
       /\ \A k \in Line : k # l => SameAt(k)
       /\ FwdChannels'
  <2>1. ASSUME NEW d \in Cache, d \in ds
        PROVE  /\ ~At(d, l, t, HomeOf[l])
               /\ ~At(d, l, "PUT_ACK", d)
    <3>1. CASE t = "RECALL_INV" /\ dir[l].state = "S" /\ ds = dir[l].sharers
      BY <1>2, <1>10, <2>1, <3>1 DEF LineInv, Recalls, Sharers
    <3>2. CASE t = "RECALL" /\ dir[l].state \in {"E", "M"} /\ ds = {dir[l].owner}
      BY <1>2, <1>10, <2>1, <3>2, OwnedFacts
    <3>. QED
      BY <1>7, <3>1, <3>2
  <2>2. \A d \in Cache : OnBehalf(Forward(t, l, HomeOf[l]), HomeOf[l], d)
    BY ForwardEq DEF OnBehalf
  <2>3. t \in FwdType /\ HomeOf[l] \in Node
    BY <1>2, NodeSets DEF FwdType
  <2>4. Forwards(l, ds, t, HomeOf[l])
    BY <1>0, <1>2, <1>7, <2>1, <2>2, <2>3 DEF Forwards, Channels
  <2>. QED
    BY <1>2, <2>4, DirForwards
<1>12. \A k \in Line : SameAsks(k) /\ SameSent(k) /\ SameCaches(k) /\ SameBank(k) /\ latest'[k] = latest[k]
  BY <1>4 DEF SameAsks, SameSent, SameCaches, SameBank, Asks, Sent, InRsp
<1>13. RecallStarted(l, ds, t)
  <2>1. binv'[h] = [line |-> l, idx |-> j, wb |-> dir[l].data_valid, data |-> l2[l]]
    BY <1>0, <1>4 DEF TypeOK
  <2>2. (binv'[HomeOf[l]].wb <=> dir[l].data_valid) /\ binv'[HomeOf[l]].data = l2[l]
    BY <1>2, <2>1
  <2>. QED
    BY <1>2, <1>8, <1>10, <1>11, <1>12, <2>2 DEF RecallStarted
<1>14. Channels'
  BY <1>0, <1>4, <1>11 DEF Channels, ReqChannels, RspChannels
<1>15. KeepsOthers(l)
  BY <1>10, <1>11, <1>12, <1>14 DEF KeepsOthers, SameLine
<1>. QED
  BY <1>2, <1>7, <1>13, <1>15

---------------------------------------------------------------------------
(* A recall starts *)

\* A recall, of either kind, starts.
LEMMA RecallStartedLine ==
  ASSUME IInv, OwnerKnown, NEW l \in Line, NEW ds \in SUBSET Cache, NEW t \in {"RECALL", "RECALL_INV"},
         RecallStarted(l, ds, t),
         \/ t = "RECALL_INV" /\ dir[l].state = "S" /\ ds = dir[l].sharers
         \/ t = "RECALL" /\ dir[l].state \in {"E", "M"} /\ ds = {dir[l].owner}
  PROVE  LineInv(l)'
<1>. DEFINE ToSharers == t = "RECALL_INV" /\ dir[l].state = "S" /\ ds = dir[l].sharers
            ToOwner == t = "RECALL" /\ dir[l].state \in {"E", "M"} /\ ds = {dir[l].owner}
<1>0. LineInv(l) /\ TypeOK /\ (ToSharers \/ ToOwner)
  BY DEF IInv
<1>1. /\ SameAsks(l) /\ SameSent(l) /\ SameCaches(l) /\ SameBank(l) /\ latest'[l] = latest[l]
      /\ dir[l].present /\ ~Recalled(l) /\ Recalled(l)'
      /\ \A k : RecallCount(l, k)' => k = Cardinality(ds)
      /\ \A d \in Cache : \A t2, r2 :
           At(d, l, t2, r2)' <=> At(d, l, t2, r2) \/ (d \in ds /\ t2 = t /\ r2 = HomeOf[l])
      /\ (binv'[HomeOf[l]].wb <=> dir[l].data_valid) /\ binv'[HomeOf[l]].data = l2[l]
  BY DEF RecallStarted
<1>2. /\ \A c \in Cache : l1'[c][l] = l1[c][l] /\ mshr'[c][l] = mshr[c][l] /\ copy'[c][l] = copy[c][l]
      /\ dir'[l] = dir[l] /\ l2'[l] = l2[l] /\ mem'[l] = mem[l]
      /\ Exclusive(l)' <=> Exclusive(l)
  BY <1>1 DEF SameCaches, SameBank, Exclusive
<1>3. /\ \A c \in Cache : /\ HasReq(c, l)' <=> HasReq(c, l)
                          /\ HasData(c, l)' <=> HasData(c, l)
                          /\ HasDataE(c, l)' <=> HasDataE(c, l)
      /\ WbInFlight(l)' <=> WbInFlight(l)
  BY <1>1, AsksFrame, SentFrame
<1>4. /\ \A d \in Cache : \A t2 \in {"FWD_GETS", "FWD_GETM", "INV", "PUT_ACK"}, r2 \in Node :
           At(d, l, t2, r2)' <=> At(d, l, t2, r2)
      /\ HomeOf[l] \in Node /\ HomeOf[l] \notin Cache
  BY <1>1, NodeSets
<1>5. \A d \in Cache : /\ HasInv(d, l)' <=> HasInv(d, l)
                       /\ Waits(d, l)' <=> Waits(d, l)
  BY <1>4, NodeSets DEF HasInv, Waits
\* What the line is like before.
<1>6. /\ \A d \in Cache : \A t2 \in RspToDir, a \in AckField, x \in Version : ~Sent(d, HomeOf[l], l, t2, a, x)
      /\ \A d \in Cache : ~At(d, l, "RECALL", HomeOf[l]) /\ ~At(d, l, "RECALL_INV", HomeOf[l])
      /\ ~WbInFlight(l)
      /\ \A p \in ds : \A t2 \in OwnerFwd, r \in Node : ~At(p, l, t2, r)
      /\ \A p \in ds : ~HasOwnerFwd(p, l)
  <2>1. CASE ToSharers
    BY <1>0, <1>1, <2>1, IdleFacts
  <2>2. CASE ToOwner
    BY <1>0, <1>1, <2>2, OwnedFacts
  <2>. QED
    BY <1>0, <2>1, <2>2
<1>7. /\ ToSharers => \A d \in Cache : HasOwnerFwd(d, l)' <=> HasOwnerFwd(d, l)
      /\ ToOwner => \A d \in Cache : HasOwnerFwd(d, l)' <=> HasOwnerFwd(d, l) \/ d \in ds
  <2>1. ASSUME NEW d \in Cache, ToSharers PROVE HasOwnerFwd(d, l)' <=> HasOwnerFwd(d, l)
    BY <1>1, <2>1 DEF HasOwnerFwd, OwnerFwd
  <2>2. ASSUME NEW d \in Cache, ToOwner PROVE HasOwnerFwd(d, l)' <=> HasOwnerFwd(d, l) \/ d \in ds
    BY <1>1, <1>4, <2>2 DEF HasOwnerFwd, OwnerFwd
  <2>. QED
    BY <2>1, <2>2
<1>8. \A d \in Cache : /\ Own(d, l)' <=> Own(d, l)
                       /\ Expects(d, l)' <=> Expects(d, l)
                       /\ Shares(d, l)' <=> Shares(d, l)
  <2>. SUFFICES ASSUME NEW d \in Cache
                PROVE  /\ Own(d, l)' <=> Own(d, l)
                       /\ Expects(d, l)' <=> Expects(d, l)
                       /\ Shares(d, l)' <=> Shares(d, l)
    OBVIOUS
  <2>1. l1[d][l] \in {"EI_A", "MI_A"} =>
          ((HasReq(d, l)' \/ HasOwnerFwd(d, l)') <=> (HasReq(d, l) \/ HasOwnerFwd(d, l)))
    <3>1. CASE ToSharers
      BY <1>3, <1>7, <3>1
    <3>2. CASE ToOwner
      <4>1. d \in ds => (l1[d][l] \in {"EI_A", "MI_A"} => HasReq(d, l))
        BY <1>1, <3>2, OwnedFacts
      <4>. QED
        BY <1>3, <1>7, <3>2, <4>1
    <3>. QED
      BY <1>0, <3>1, <3>2
  <2>2. Own(d, l)' <=> Own(d, l)
    BY <1>2, <1>3, <2>1 DEF Own
  <2>3. Shares(d, l)' <=> Shares(d, l)
    BY <1>2, <1>3 DEF Shares
  <2>. QED
    BY <1>5, <2>2, <2>3 DEF Expects
<1>9. \A p \in ds : ToOwner => Expects(p, l) /\ dir[l].owner = p /\ Exclusive(l)
  BY <1>1, OwnedFacts DEF Exclusive
<1>10. ToSharers => \A d \in Cache : ~Expects(d, l) /\ ~HasOwnerFwd(d, l) /\ ~HasInv(d, l)
                      /\ (Shares(d, l) => d \in dir[l].sharers)
                      /\ (d \in dir[l].sharers => l1[d][l] \in Invalidatable)
  <2>. SUFFICES ASSUME ToSharers, NEW d \in Cache
                PROVE  /\ ~Expects(d, l) /\ ~HasOwnerFwd(d, l) /\ ~HasInv(d, l)
                       /\ (Shares(d, l) => d \in dir[l].sharers)
                       /\ (d \in dir[l].sharers => l1[d][l] \in Invalidatable)
    OBVIOUS
  <2>1. ~Expects(d, l) /\ ~HasOwnerFwd(d, l) /\ ~HasInv(d, l) /\ (Shares(d, l) => d \in dir[l].sharers)
    BY <1>0, <1>1, IdleFacts
  <2>2. d \in dir[l].sharers => l1[d][l] \in Invalidatable
    BY <1>0, <1>1, <2>1 DEF LineInv, Sharers
  <2>. QED
    BY <2>1, <2>2
<1>. USE <1>1, <1>2
<1>21. MshrMatches(l)'
  BY <1>0 DEF LineInv, MshrMatches
<1>22. Questions(l)'
  BY <1>0, <1>3, <1>4, NodeSets DEF LineInv, Questions, SameAsks
<1>23. PutAcks(l)'
  BY <1>0, <1>4, NodeSets DEF LineInv, PutAcks
<1>24. DataMsgs(l)'
  BY <1>0, NodeSets DEF LineInv, DataMsgs, SameSent
<1>25. Owners(l)'
  <2>1. \A c, d \in Cache : Own(c, l)' /\ Own(d, l)' => c = d
    BY <1>0, <1>8 DEF LineInv, Owners
  <2>2. \A c \in Cache : Expects(c, l)' => (Exclusive(l)' /\ dir'[l].owner = c) \/ HasOwnerFwd(c, l)'
    BY <1>0, <1>7, <1>8 DEF LineInv, Owners
  <2>3. \A c \in Cache : HasOwnerFwd(c, l)' => Expects(c, l)'
    BY <1>0, <1>7, <1>8, <1>9 DEF LineInv, Owners
  <2>4. \A c \in Cache : Exclusive(l)' /\ dir'[l].owner = c => Expects(c, l)'
    BY <1>0, <1>8 DEF LineInv, Owners
  <2>5. dir'[l].state \in {"I", "S"} => \A c \in Cache : ~Expects(c, l)'
    BY <1>0, <1>8 DEF LineInv, Owners
  <2>6. ~WbInFlight(l)'
    BY <1>3, <1>6
  <2>. QED
    BY <2>1, <2>2, <2>3, <2>4, <2>5, <2>6 DEF Owners
<1>26. OwnerFwds(l)'
  <2>1. \A c \in Cache, t1, t2 \in OwnerFwd, r, r2 \in Node :
          At(c, l, t1, r)' /\ At(c, l, t2, r2)' => t1 = t2 /\ r = r2
    <3>1. \A c \in Cache : c \notin ds => \A t1, r : At(c, l, t1, r)' <=> At(c, l, t1, r)
      OBVIOUS
    <3>2. \A c \in ds : \A t1 \in OwnerFwd, r \in Node : At(c, l, t1, r)' => t1 = t /\ r = HomeOf[l]
      BY <1>6
    <3>3. \A c \in Cache, t1, t2 \in OwnerFwd, r, r2 \in Node :
          At(c, l, t1, r) /\ At(c, l, t2, r2) => t1 = t2 /\ r = r2
      BY <1>0 DEF LineInv, OwnerFwds
    <3>. QED
      BY <3>1, <3>2, <3>3
  <2>2. \A d \in Cache, r \in Node : /\ At(d, l, "FWD_GETM", r)' <=> At(d, l, "FWD_GETM", r)
                                     /\ At(d, l, "FWD_GETS", r)' <=> At(d, l, "FWD_GETS", r)
                                     /\ At(d, l, "PUT_ACK", r)' <=> At(d, l, "PUT_ACK", r)
    BY <1>4
  <2>3. /\ \A c, d, r \in Cache : At(c, l, "FWD_GETM", r)' /\ At(d, l, "FWD_GETM", r)' => c = d
        /\ \A c, d, r, r2 \in Cache : At(c, l, "FWD_GETS", r)' /\ At(d, l, "FWD_GETS", r2)' => c = d
        /\ \A c \in Cache, r \in Node : Exclusive(l)' /\ dir'[l].owner = c =>
             ~At(c, l, "FWD_GETM", r)' /\ ~At(c, l, "FWD_GETS", r)'
    BY <1>0, <2>2, NodeSets DEF LineInv, OwnerFwds
  <2>4. /\ \A c, r \in Cache : At(c, l, "FWD_GETM", r)' =>
             /\ mshr'[r][l].op = "ST" /\ ~mshr'[r][l].done /\ mshr'[r][l].ack = 0
             /\ l1'[r][l] \in {"IM_AD", "SM_AD"}
             /\ ~HasReq(r, l)' /\ ~HasData(r, l)'
    BY <1>0, <1>3, <2>2, NodeSets DEF LineInv, OwnerFwds
  <2>5. dir[l].state # "S_D"
    BY <1>0
  <2>6. \A c, r \in Cache : ~At(c, l, "FWD_GETS", r)'
    BY <1>0, <2>2, <2>5, NodeSets DEF LineInv, OwnerFwds
  <2>. QED
    BY <2>1, <2>3, <2>4, <2>5, <2>6 DEF OwnerFwds
<1>27. NoCycle(l)'
  BY <1>0, <1>4, NodeSets DEF LineInv, NoCycle
<1>28. WriteBacks(l)'
  BY <1>6, NodeSets DEF WriteBacks, SameSent, RspToDir
<1>29. Sharers(l)'
  <2>1. \A c \in Cache : Shares(c, l)' =>
         \/ HasInv(c, l)'
         \/ Own(c, l)'
         \/ /\ c \in dir'[l].sharers /\ dir'[l].state \in {"S", "S_D"}
            /\ \A p \in Cache : ~Expects(p, l)'
    BY <1>0, <1>5, <1>8 DEF LineInv, Sharers
  <2>2. \A c \in Cache : c \in dir'[l].sharers => dir'[l].state \in {"S", "S_D"}
    BY <1>0 DEF LineInv, Sharers
  <2>. QED
    BY <2>1, <2>2 DEF Sharers
<1>30. Invs(l)' /\ InvAcks(l)'
  <2>1. \A c, r \in Cache : At(c, l, "INV", r)' <=> At(c, l, "INV", r)
    BY <1>4, NodeSets
  <2>2. \A c, r \in Cache : \A a, v : Sent(c, r, l, "INV_ACK", a, v)' <=> Sent(c, r, l, "INV_ACK", a, v)
    BY NodeSets DEF SameSent
  <2>. QED
    BY <1>0, <1>8, <2>1, <2>2 DEF LineInv, Invs, InvAcks
<1>31. AckCounts(l)'
  <2>1. \A r \in Cache : Owed(r, l)' = Owed(r, l)
    BY <1>4, NodeSets DEF Owed, SameSent
  <2>. QED
    BY <1>0, <1>3, <2>1, NodeSets DEF LineInv, AckCounts, SameSent
<1>32. Recalls(l)'
  <2>1. RecallOwed(l)' = ds
    <3>1. \A d \in Cache : \A t2 \in RspToDir, x \in Version : ~Sent(d, HomeOf[l], l, t2, 0, x)'
      BY <1>6, NodeSets, ZeroTypes DEF SameSent
    <3>2. \A d \in Cache : (At(d, l, "RECALL", HomeOf[l])' \/ At(d, l, "RECALL_INV", HomeOf[l])') <=> d \in ds
      BY <1>6
    <3>. QED
      BY <3>1, <3>2 DEF RecallOwed
  <2>2. \A d \in Cache, a \in AckField, v \in Version : ~Sent(d, HomeOf[l], l, "RECALL_ACK", a, v)'
    BY <1>6, NodeSets DEF SameSent, RspToDir
  <2>3. \A c \in Cache : At(c, l, "RECALL", HomeOf[l])' => Exclusive(l)' /\ dir'[l].owner = c
    BY <1>0, <1>6 DEF Exclusive
  <2>4. \A c \in Cache : At(c, l, "RECALL_INV", HomeOf[l])' =>
         dir'[l].state = "S" /\ c \in dir'[l].sharers /\ l1'[c][l] \in Invalidatable
    BY <1>0, <1>6, <1>10
  <2>5. dir'[l].state = "S" => \A c \in Cache : Shares(c, l)' => At(c, l, "RECALL_INV", HomeOf[l])'
    BY <1>0, <1>8, <1>10
  <2>6. dir'[l].state \in {"S", "E", "M"}
    BY <1>0
  <2>. QED
    BY <2>1, <2>2, <2>3, <2>4, <2>5, <2>6, ZeroTypes DEF Recalls, Invalidatable
<1>33. Contents(l)'
  BY <1>0, <1>8, NodeSets DEF LineInv, Contents, Readable, SameAsks, SameSent
<1>34. BankCopy(l)'
  <2>1. dir[l].state = "S" => dir[l].data_valid /\ l2[l] = latest[l]
    BY <1>0 DEF LineInv, BankCopy
  <2>. QED
    BY <1>0, <1>8, <2>1 DEF LineInv, BankCopy
<1>. QED
  BY <1>21, <1>22, <1>23, <1>24, <1>25, <1>26, <1>27, <1>28, <1>29, <1>30, <1>31, <1>32, <1>33,
     <1>34 DEF LineInv

\* Starting a recall keeps what must hold of the victim: one message to each
\* holder, and a count of as many.
LEMMA StartRecallLine ==
  ASSUME IInv, OwnerKnown, RecallsFit, NEW h \in Home, NEW c \in Cache, StartRecall(h, c)
  PROVE  \E l \in Line : LineInv(l)' /\ KeepsOthers(l)
BY StartRecallStarted, RecallStartedLine

---------------------------------------------------------------------------
(* An answer to a recall: its bookkeeping *)

\* Bank h has counted an answer to its recall of line l in entry i, which
\* waited for n; the last one frees the entry and the way.
AnswerCounted(h, l, i, n, last) ==
    /\ l \in LinesOf(h) /\ i \in TbeIdx
    /\ tbe[h][i].state = "INV_PEND" /\ tbe[h][i].line = l /\ tbe[h][i].ack = n
    /\ \A g \in Home : g # h => tbe'[g] = tbe[g] /\ binv'[g] = binv[g]
    /\ \A x \in TbeIdx : x # i => tbe'[h][x] = tbe[h][x]
    /\ \A k \in Line : k # l => dir'[k] = dir[k]
    /\ last => tbe'[h][i].state = "INVALID" /\ dir'[l].state = "I"
    /\ ~last => /\ tbe'[h][i].state = "INV_PEND" /\ tbe'[h][i].line = l /\ tbe'[h][i].ack = n - 1
                /\ binv'[h].idx = binv[h].idx /\ binv'[h].line = binv[h].line
                /\ dir'[l] = dir[l]
    /\ UNCHANGED <<req, stuckReq>>

\* A bank whose own registers and lines a step leaves alone.
OtherBank(g, l) ==
    /\ tbe'[g] = tbe[g] /\ binv'[g] = binv[g] /\ stuckReq'[g] = stuckReq[g]
    /\ \A k \in Line : k # l => dir'[k] = dir[k]
    /\ UNCHANGED req

\* A recall answered at one bank leaves the others alone.
LEMMA OtherBankKept ==
  ASSUME TypeOK, Banks, Channels, NEW l \in Line, NEW g \in Home, g # HomeOf[l], OtherBank(g, l)
  PROVE  BankOf(g)' /\ \A k \in Line : HomeOf[k] = g => SameRecall(k)
<1>1. /\ tbe'[g] = tbe[g] /\ binv'[g] = binv[g] /\ stuckReq'[g] = stuckReq[g]
      /\ \A k \in LinesOf(g) : k \in Line /\ dir'[k] = dir[k]
      /\ UNCHANGED req
  BY DEF OtherBank, LinesOf
<1>2. BankOf(g)
  BY DEF Banks
<1>3. /\ \A k : TbesOf(g, k)' = TbesOf(g, k)
      /\ BinvActive(g)' <=> BinvActive(g)
      /\ Resident(g)' = Resident(g)
  BY <1>1 DEF TbesOf, BinvActive, Resident, LinesOf
<1>4. HaveFreeWay(g)' <=> HaveFreeWay(g)
  BY <1>3 DEF HaveFreeWay
<1>5. ASSUME BinvActive(g)
      PROVE  /\ ~HaveFreeWay(g)'
             /\ stuckReq'[g] \in Cache
             /\ req'[stuckReq'[g]][g] # <<>>
             /\ ~dir'[Head(req'[stuckReq'[g]][g]).line].present
  <2>. PICK d : d = stuckReq[g]
    OBVIOUS
  <2>1. d \in Cache /\ req[d][g] # <<>> /\ ~HaveFreeWay(g) /\ ~dir[Head(req[d][g]).line].present
    BY <1>2, <1>5 DEF BankOf
  <2>2. Head(req[d][g]).line \in LinesOf(g)
    BY <2>1, HeadLine DEF LinesOf
  <2>. QED
    BY <1>1, <1>4, <2>1, <2>2
<1>6. \A i \in TbeIdx : tbe'[g][i].state = "INV_PEND" =>
         binv'[g].idx = i /\ binv'[g].line = tbe'[g][i].line /\ dir'[tbe'[g][i].line].present
  BY <1>1, <1>2 DEF BankOf
<1>7. /\ \A k \in LinesOf(g) : \A i, j \in TbesOf(g, k)' : i = j
      /\ \A i \in TbeIdx : tbe'[g][i].state # "INVALID" => tbe'[g][i].line \in LinesOf(g)
      /\ \A k \in LinesOf(g) :
           (dir'[k].state = "S_D") <=> \E i \in TbesOf(g, k)' : tbe'[g][i].state = "WB_PEND"
  BY <1>1, <1>2, <1>3 DEF BankOf
<1>8. BankOf(g)'
  BY <1>3, <1>5, <1>6, <1>7 DEF BankOf, LinesOf
<1>9. \A k \in Line : HomeOf[k] = g => SameRecall(k)
  BY <1>1, <1>3 DEF SameRecall, Recalled, Recalling, RecallCount
<1>. QED
  BY <1>8, <1>9

\* Counting an answer keeps the banks as they must be.
LEMMA AnswerCounting ==
  ASSUME TypeOK, Banks, Channels, NEW h \in Home, NEW l \in Line, NEW i, NEW n, NEW last \in BOOLEAN,
         AnswerCounted(h, l, i, n, last)
  PROVE  /\ Banks'
         /\ \A k \in Line : k # l => SameRecall(k)
         /\ Recalled(l)' <=> ~last
         /\ \A k : RecallCount(l, k)' => k = n - 1
<1>1. /\ l \in LinesOf(h) /\ HomeOf[l] = h /\ i \in TbeIdx
      /\ tbe[h][i].state = "INV_PEND" /\ tbe[h][i].line = l /\ tbe[h][i].ack = n
      /\ \A g \in Home : g # h => tbe'[g] = tbe[g] /\ binv'[g] = binv[g]
      /\ \A x \in TbeIdx : x # i => tbe'[h][x] = tbe[h][x]
      /\ \A k \in Line : k # l => dir'[k] = dir[k]
      /\ last => tbe'[h][i].state = "INVALID" /\ dir'[l].state = "I"
      /\ ~last => /\ tbe'[h][i].state = "INV_PEND" /\ tbe'[h][i].line = l /\ tbe'[h][i].ack = n - 1
                  /\ binv'[h].idx = binv[h].idx /\ binv'[h].line = binv[h].line
                  /\ dir'[l] = dir[l]
      /\ UNCHANGED <<req, stuckReq>>
  BY DEF AnswerCounted, LinesOf
<1>2. BankOf(h)
  BY DEF Banks
<1>3. ASSUME NEW g \in Home, g # h
      PROVE  BankOf(g)' /\ \A k \in Line : HomeOf[k] = g => SameRecall(k)
  <2>1. OtherBank(g, l)
    BY <1>1, <1>3 DEF OtherBank
  <2>. QED
    BY <1>1, <1>3, <2>1, OtherBankKept
<1>4. /\ TbesOf(h, l) = {i}
      /\ binv[h].idx = i /\ binv[h].line = l
      /\ \A x \in TbeIdx : tbe[h][x].state = "INV_PEND" => x = i
      /\ BinvActive(h)
  <2>1. /\ binv[h].idx = i /\ binv[h].line = l
        /\ \A x \in TbeIdx : tbe[h][x].state = "INV_PEND" => x = i
    BY <1>1, <1>2 DEF BankOf
  <2>2. i \in TbesOf(h, l) /\ BinvActive(h)
    BY <1>1 DEF TbesOf, BinvActive
  <2>3. \A x \in TbesOf(h, l) : x = i
    BY <1>1, <1>2, <2>2 DEF BankOf
  <2>. QED
    BY <2>1, <2>2, <2>3
<1>5. \A k : k # l => /\ TbesOf(h, k)' = TbesOf(h, k) /\ TbesOf(h, k) \subseteq TbeIdx
                      /\ \A x \in TbesOf(h, k) : x # i /\ tbe'[h][x] = tbe[h][x] /\ tbe[h][x].state # "INV_PEND"
  <2>1. ASSUME NEW k, k # l
        PROVE  /\ TbesOf(h, k) \subseteq TbeIdx
               /\ \A x \in TbesOf(h, k) : x # i /\ tbe'[h][x] = tbe[h][x] /\ tbe[h][x].state # "INV_PEND"
    BY <1>1, <1>4, <2>1 DEF TbesOf
  <2>2. ASSUME NEW k, k # l PROVE TbesOf(h, k)' = TbesOf(h, k)
    <3>1. \A x \in TbeIdx : x = i =>
            ~(tbe[h][x].state # "INVALID" /\ tbe[h][x].line = k) /\ ~(tbe'[h][x].state # "INVALID" /\ tbe'[h][x].line = k)
      BY <1>1, <2>2
    <3>2. \A x \in TbeIdx :
            (tbe'[h][x].state # "INVALID" /\ tbe'[h][x].line = k) <=> (tbe[h][x].state # "INVALID" /\ tbe[h][x].line = k)
      BY <1>1, <3>1
    <3>. QED
      BY <3>2 DEF TbesOf
  <2>. QED
    BY <2>1, <2>2
<1>6. /\ last => TbesOf(h, l)' = {}
      /\ ~last => TbesOf(h, l)' = {i}
  <2>1. \A x \in TbeIdx : x # i => ~(tbe'[h][x].state # "INVALID" /\ tbe'[h][x].line = l)
    BY <1>1, <1>4 DEF TbesOf
  <2>. QED
    BY <1>1, <2>1 DEF TbesOf
<1>7. \A k \in Line : k # l => SameRecall(k)
  <2>. SUFFICES ASSUME NEW k \in Line, k # l PROVE SameRecall(k)
    OBVIOUS
  <2>1. CASE HomeOf[k] # h
    BY <1>3, <2>1, NodeSets
  <2>2. CASE HomeOf[k] = h
    <3>1. ~Recalled(k) /\ ~Recalled(k)'
      BY <1>5, <2>2 DEF Recalled, Recalling
    <3>2. \A x : ~RecallCount(k, x) /\ ~RecallCount(k, x)'
      BY <3>1 DEF Recalled, Recalling, RecallCount
    <3>. QED
      BY <3>1, <3>2 DEF SameRecall
  <2>. QED
    BY <2>1, <2>2
<1>8. /\ Recalled(l)' <=> ~last
      /\ \A k : RecallCount(l, k)' => k = n - 1
  BY <1>1, <1>6 DEF Recalled, Recalling, RecallCount
<1>9. BankOf(h)'
  <2>1. \A k \in LinesOf(h) : \A x, y \in TbesOf(h, k)' : x = y
    BY <1>2, <1>5, <1>6 DEF BankOf
  <2>2. \A x \in TbeIdx : tbe'[h][x].state # "INVALID" => tbe'[h][x].line \in LinesOf(h)
    BY <1>1, <1>2 DEF BankOf
  <2>3. ASSUME NEW k \in LinesOf(h)
        PROVE  (dir'[k].state = "S_D") <=> \E x \in TbesOf(h, k)' : tbe'[h][x].state = "WB_PEND"
    <3>1. (dir[k].state = "S_D") <=> \E x \in TbesOf(h, k) : tbe[h][x].state = "WB_PEND"
      BY <1>2 DEF BankOf
    <3>2. k \in Line
      BY DEF LinesOf
    <3>3. CASE k # l
      BY <1>1, <1>5, <3>1, <3>2, <3>3
    <3>4. CASE k = l /\ last
      BY <1>1, <1>6, <3>4
    <3>5. CASE k = l /\ ~last
      BY <1>1, <1>4, <1>6, <3>1, <3>5
    <3>. QED
      BY <3>3, <3>4, <3>5
  <2>4. CASE last
    <3>1. \A x \in TbeIdx : tbe'[h][x].state # "INV_PEND"
      BY <1>1, <1>4, <2>4
    <3>2. ~BinvActive(h)'
      BY <3>1 DEF BinvActive
    <3>. QED
      BY <2>1, <2>2, <2>3, <3>1, <3>2 DEF BankOf, LinesOf
  <2>5. CASE ~last
    <3>1. dir[l].present
      BY <1>1, <1>2 DEF BankOf
    <3>2. \A x \in TbeIdx : tbe'[h][x].state = "INV_PEND" =>
            binv'[h].idx = x /\ binv'[h].line = tbe'[h][x].line /\ dir'[tbe'[h][x].line].present
      BY <1>1, <1>4, <2>5, <3>1
    <3>3. \A k \in Line : dir'[k] = dir[k]
      BY <1>1, <2>5
    <3>4. HaveFreeWay(h)' <=> HaveFreeWay(h)
      <4>1. Resident(h)' = Resident(h)
        BY <3>3 DEF Resident, LinesOf
      <4>. QED
        BY <4>1 DEF HaveFreeWay
    <3>. PICK d : d = stuckReq[h]
      OBVIOUS
    <3>5. d \in Cache /\ req[d][h] # <<>> /\ ~HaveFreeWay(h) /\ ~dir[Head(req[d][h]).line].present
      BY <1>2, <1>4 DEF BankOf
    <3>6. Head(req[d][h]).line \in Line
      BY <3>5, HeadLine
    <3>7. /\ ~HaveFreeWay(h)' /\ stuckReq'[h] \in Cache /\ req'[stuckReq'[h]][h] # <<>>
          /\ ~dir'[Head(req'[stuckReq'[h]][h]).line].present
      BY <1>1, <3>3, <3>4, <3>5, <3>6
    <3>. QED
      BY <2>1, <2>2, <2>3, <3>2, <3>7 DEF BankOf, LinesOf
  <2>. QED
    BY <2>4, <2>5
<1>. QED
  BY <1>3, <1>7, <1>8, <1>9 DEF Banks

---------------------------------------------------------------------------
(* An answer to a recall: what it does *)

\* The bank of l has taken c's answer t to its recall, of which n were owed.
RecallAnswered(c, l, t, a0, v, n, last) ==
    /\ SameAsks(l) /\ SameAt(l) /\ SameCaches(l) /\ latest'[l] = latest[l]
    /\ Recalled(l) /\ RecallCount(l, n) /\ n \in AckRange
    /\ (last <=> n <= 1) /\ (Recalled(l)' <=> ~last)
    /\ \A k : RecallCount(l, k)' => k = n - 1
    /\ last => /\ dir'[l] = NoMeta
               /\ t = "WB_DATA" => mem'[l] = v
               /\ t # "WB_DATA" /\ binv[HomeOf[l]].wb => mem'[l] = binv[HomeOf[l]].data
    /\ ~last => /\ SameBank(l)
                /\ t # "WB_DATA" => /\ binv'[HomeOf[l]].wb <=> binv[HomeOf[l]].wb
                                    /\ binv'[HomeOf[l]].data = binv[HomeOf[l]].data
    /\ Sent(c, HomeOf[l], l, t, a0, v)
    /\ \A s2, d2 \in Node : \A t2, a, x :
         Sent(s2, d2, l, t2, a, x)' <=>
           Sent(s2, d2, l, t2, a, x) /\ ~(s2 = c /\ d2 = HomeOf[l] /\ t2 = t /\ a = a0 /\ x = v)

\* What counting an answer does, by its line, type and data.
LEMMA TakeRecallAnswerTaken ==
  ASSUME IInv, NEW h \in Home, NEW c \in Cache, TakeRecallAnswer(h, c)
  PROVE  \E l \in Line, t \in RspToDir, a0 \in AckField, v \in Version, n \in AckRange, last \in BOOLEAN :
            RecallAnswered(c, l, t, a0, v, n, last) /\ KeepsOthers(l)
<1>0. TypeOK /\ Channels /\ Banks /\ BankOf(h)
  BY DEF IInv, Banks
<1>d. PICK m : m = Head(rsp[c][h])
  OBVIOUS
<1>1. TakesRsp(c, h, m, rsp')
  BY <1>0, <1>d, NodeSets DEF TakesRsp, TakeRecallAnswer, Channels, RspTail
<1>2. /\ m \in RspMsg /\ RspFits(c, h, m)
      /\ Sent(c, h, m.line, m.type, m.ack, m.data)
      /\ \A s2, d2 \in Node : \A t, a, x :
           Sent(s2, d2, m.line, t, a, x)' <=>
             /\ Sent(s2, d2, m.line, t, a, x)
             /\ ~(s2 = c /\ d2 = h /\ t = m.type /\ a = m.ack /\ x = m.data)
      /\ \A k \in Line : k # m.line => SameSent(k)
      /\ RspChannels(rsp)'
  <2>1. TakesRsp(c, h, m, rsp')
    BY <1>1
  <2>2. TookOne(c, h, m)
    BY <2>1, TakeOne
  <2>. QED
    BY <2>2 DEF TookOne
<1>a. PICK l \in Line : l = m.line
  BY <1>2 DEF RspMsg
<1>b. PICK v \in Version : v = m.data
  BY <1>2 DEF RspMsg
<1>c. PICK a0 \in AckField : a0 = m.ack
  BY <1>2 DEF RspMsg
<1>3. HomeOf[l] = h /\ m.type \in RspToDir
  BY <1>2, <1>a DEF RspFits
<1>e. PICK t \in RspToDir : t = m.type
  BY <1>3
<1>4. Recalling(h, l) /\ UNCHANGED <<l1, mshr, copy, l2, req, fwd, stuckReq, latest>>
  BY <1>a, <1>d DEF TakeRecallAnswer, l1Vars
<1>5. PICK i \in TbeIdx : /\ TbesOf(h, l) = {i} /\ tbe[h][i].state = "INV_PEND" /\ tbe[h][i].line = l
                          /\ binv[h].idx = i /\ binv[h].line = l
  <2>1. PICK i \in TbesOf(h, l) : tbe[h][i].state = "INV_PEND"
    BY <1>4 DEF Recalling
  <2>2. l \in LinesOf(h) /\ i \in TbeIdx /\ tbe[h][i].line = l
    BY <1>3 DEF LinesOf, TbesOf
  <2>. QED
    BY <1>0, <2>1, <2>2 DEF BankOf
<1>6. Lowest(TbesOf(h, l)) = i
  <2>1. {i} \in SUBSET Nat /\ {i} # {}
    BY SizeAssumption DEF TbeIdx
  <2>2. Lowest({i}) \in {i}
    BY <2>1, LowestProperties
  <2>. QED
    BY <1>5, <2>2
<1>. PICK n : n = tbe[h][i].ack
  OBVIOUS
<1>. PICK last \in BOOLEAN : last <=> n <= 1
  OBVIOUS
<1>. PICK wb \in BOOLEAN : wb <=> (binv[h].wb \/ t = "WB_DATA")
  OBVIOUS
<1>. PICK u : u = IF t = "WB_DATA" THEN v ELSE binv[h].data
  OBVIOUS
<1>7. /\ mem' = IF last /\ (binv[h].wb \/ t = "WB_DATA") THEN [mem EXCEPT ![l] = u] ELSE mem
      /\ dir' = IF last THEN [dir EXCEPT ![l] = NoMeta] ELSE dir
      /\ tbe' = IF last THEN [tbe EXCEPT ![h][i] = NoTbe]
                ELSE [tbe EXCEPT ![h][i].ack = Signed(AckHalf, @ - 1)]
      /\ binv' = [binv EXCEPT ![h] = IF last THEN NoBinv
                                     ELSE [@ EXCEPT !.wb = (binv[h].wb \/ t = "WB_DATA"), !.data = u]]
  BY <1>5, <1>6, <1>a, <1>b, <1>d, <1>e DEF TakeRecallAnswer
<1>8. n \in AckRange /\ n \in Int /\ RecallCount(l, n) /\ Recalled(l)
  <2>1. tbe[h][i] \in Tbe
    BY <1>0 DEF TypeOK
  <2>2. AckRange \subseteq Int
    BY SizeAssumption DEF AckRange, SignedRange
  <2>. QED
    BY <1>3, <1>4, <1>5, <2>1, <2>2 DEF Tbe, RecallCount, Recalled
<1>9. ~last => Signed(AckHalf, n - 1) = n - 1
  <2>1. AckHalf \in Nat /\ -AckHalf <= n /\ n < AckHalf
    BY <1>8, SizeAssumption DEF AckRange, SignedRange
  <2>. QED
    BY <1>8, <2>1, SignedId
<1>10. /\ last => mem'[l] = IF binv[h].wb \/ t = "WB_DATA" THEN u ELSE mem[l]
       /\ ~last => mem' = mem /\ dir' = dir
       /\ last => dir'[l] = NoMeta
       /\ \A k \in Line : k # l => mem'[k] = mem[k] /\ dir'[k] = dir[k]
  BY <1>0, <1>7 DEF TypeOK
<1>11. /\ \A g \in Home : g # h => tbe'[g] = tbe[g] /\ binv'[g] = binv[g]
       /\ \A x \in TbeIdx : x # i => tbe'[h][x] = tbe[h][x]
       /\ last => tbe'[h][i] = NoTbe
       /\ ~last => tbe'[h][i] = [tbe[h][i] EXCEPT !.ack = n - 1]
       /\ ~last => binv'[h] = [binv[h] EXCEPT !.wb = (binv[h].wb \/ t = "WB_DATA"), !.data = u]
  <2>1. tbe \in [Home -> [TbeIdx -> Tbe]] /\ binv \in [Home -> Binv]
    BY <1>0 DEF TypeOK
  <2>2. CASE last
    BY <1>7, <2>1, <2>2
  <2>3. CASE ~last
    <3>1. tbe' = [tbe EXCEPT ![h][i].ack = n - 1]
      BY <1>7, <1>9, <2>3
    <3>2. binv' = [binv EXCEPT ![h] = [@ EXCEPT !.wb = (binv[h].wb \/ t = "WB_DATA"), !.data = u]]
      BY <1>7, <2>3
    <3>. QED
      BY <2>1, <2>3, <3>1, <3>2
  <2>. QED
    BY <2>2, <2>3
<1>12. AnswerCounted(h, l, i, n, last)
  <2>1. tbe[h][i] \in Tbe /\ binv[h] \in Binv
    BY <1>0 DEF TypeOK
  <2>2. ~last => /\ tbe'[h][i].state = "INV_PEND" /\ tbe'[h][i].line = l /\ tbe'[h][i].ack = n - 1
                 /\ binv'[h].idx = binv[h].idx /\ binv'[h].line = binv[h].line
                 /\ dir'[l] = dir[l]
    BY <1>5, <1>10, <1>11, <2>1 DEF Tbe, Binv
  <2>3. last => tbe'[h][i].state = "INVALID" /\ dir'[l].state = "I"
    BY <1>10, <1>11 DEF NoTbe, NoMeta
  <2>4. l \in LinesOf(h)
    BY <1>3 DEF LinesOf
  <2>. QED
    BY <1>4, <1>5, <1>10, <1>11, <2>2, <2>3, <2>4 DEF AnswerCounted
<1>13. /\ Banks'
       /\ \A k \in Line : k # l => SameRecall(k)
       /\ Recalled(l)' <=> ~last
       /\ \A k : RecallCount(l, k)' => k = n - 1
  BY <1>0, <1>12, AnswerCounting
<1>14. /\ Sent(c, HomeOf[l], l, t, a0, v)
       /\ \A s2, d2 \in Node : \A t2, a, x :
            Sent(s2, d2, l, t2, a, x)' <=>
              Sent(s2, d2, l, t2, a, x) /\ ~(s2 = c /\ d2 = HomeOf[l] /\ t2 = t /\ a = a0 /\ x = v)
       /\ \A k \in Line : k # l => SameSent(k)
       /\ RspChannels(rsp)'
  BY <1>2, <1>3, <1>a, <1>b, <1>c, <1>e
<1>15. \A k \in Line : SameAsks(k) /\ SameAt(k) /\ SameCaches(k) /\ l2'[k] = l2[k] /\ latest'[k] = latest[k]
  BY <1>4 DEF SameAsks, SameAt, SameCaches, Asks, At
<1>16. RecallAnswered(c, l, t, a0, v, n, last)
  <2>1. last => /\ dir'[l] = NoMeta
                /\ t = "WB_DATA" => mem'[l] = v
                /\ t # "WB_DATA" /\ binv[HomeOf[l]].wb => mem'[l] = binv[HomeOf[l]].data
    BY <1>3, <1>10
  <2>2. ~last => /\ SameBank(l)
                 /\ t # "WB_DATA" => /\ binv'[HomeOf[l]].wb <=> binv[HomeOf[l]].wb
                                     /\ binv'[HomeOf[l]].data = binv[HomeOf[l]].data
    <3>1. binv[h] \in Binv
      BY <1>0 DEF TypeOK
    <3>2. ~last /\ t # "WB_DATA" => /\ binv'[h].wb <=> binv[h].wb
                                    /\ binv'[h].data = binv[h].data
      <4>. SUFFICES ASSUME ~last, t # "WB_DATA"
                    PROVE  (binv'[h].wb <=> binv[h].wb) /\ binv'[h].data = binv[h].data
        OBVIOUS
      <4>1. binv[h].wb \in BOOLEAN /\ u = binv[h].data
        BY <3>1 DEF Binv
      <4>2. (binv[h].wb \/ t = "WB_DATA") = binv[h].wb
        BY <4>1
      <4>3. binv'[h] = [binv[h] EXCEPT !.wb = binv[h].wb, !.data = binv[h].data]
        BY <1>11, <4>1, <4>2, Zenon
      <4>. QED
        BY <3>1, <4>3 DEF Binv
    <3>. QED
      BY <1>3, <1>10, <1>15, <3>2 DEF SameBank
  <2>. QED
    BY <1>8, <1>13, <1>14, <1>15, <2>1, <2>2 DEF RecallAnswered
<1>17. Channels'
  BY <1>0, <1>4, <1>14 DEF Channels, ReqChannels, FwdChannels
<1>18. KeepsOthers(l)
  BY <1>10, <1>13, <1>14, <1>15, <1>17 DEF KeepsOthers, SameLine, SameBank
<1>. QED
  BY <1>8, <1>16, <1>18

---------------------------------------------------------------------------
(* An answer to a recall: the line *)

\* What an answer to a recall says of the line, and what follows it.
LEMMA RecallAnsweredFacts ==
  ASSUME IInv, NEW c \in Cache, NEW l \in Line, NEW t \in RspToDir, NEW a0 \in AckField,
         NEW v \in Version, NEW n \in AckRange, NEW last \in BOOLEAN,
         RecallAnswered(c, l, t, a0, v, n, last)
  PROVE  /\ LineInv(l) /\ Recalled(l) /\ n = Cardinality(RecallOwed(l)) /\ n \in Nat
         /\ c \in RecallOwed(l) /\ a0 = 0
         /\ t = "RECALL_ACK" => dir[l].state = "S"
         /\ t = "WB_DATA" => dir[l].state \in {"E", "M"} /\ v = latest[l]
         /\ \A d \in Cache : ~Expects(d, l) /\ ~Own(d, l) /\ ~Waits(d, l) /\ ~HasOwnerFwd(d, l)
         /\ \A d \in Cache : ~At(d, l, "RECALL", HomeOf[l])
         /\ \A d \in Cache : \A r \in Node : \A t2 \in OwnerFwd : ~At(d, l, t2, r)
         /\ ~At(c, l, "RECALL_INV", HomeOf[l])
         /\ \A t2 \in RspToDir, a \in AckField, x \in Version :
              Sent(c, HomeOf[l], l, t2, a, x) => t2 = t /\ a = a0 /\ x = v
         /\ RecallOwed(l)' = RecallOwed(l) \ {c}
         /\ t = "WB_DATA" => RecallOwed(l) = {c}
         /\ \A d \in Cache : d # c => \A s \in Node : \A t2, a, x :
              Sent(d, s, l, t2, a, x)' <=> Sent(d, s, l, t2, a, x)
         /\ \A t2 \in RspToDir, a \in AckField, x \in Version : ~Sent(c, HomeOf[l], l, t2, a, x)'
         /\ \A d \in Cache : \A s \in Node : \A t2, a, x : Sent(s, d, l, t2, a, x)' <=> Sent(s, d, l, t2, a, x)
<1>0. LineInv(l) /\ TypeOK
  BY DEF IInv
<1>1. /\ SameAt(l) /\ Recalled(l) /\ RecallCount(l, n)
      /\ Sent(c, HomeOf[l], l, t, a0, v)
      /\ \A s2, d2 \in Node : \A t2, a, x :
           Sent(s2, d2, l, t2, a, x)' <=>
             Sent(s2, d2, l, t2, a, x) /\ ~(s2 = c /\ d2 = HomeOf[l] /\ t2 = t /\ a = a0 /\ x = v)
  BY DEF RecallAnswered
<1>2. n = Cardinality(RecallOwed(l)) /\ n \in Nat
  <2>1. RecallOwed(l) \in SUBSET Cache
    BY DEF RecallOwed
  <2>. QED
    BY <1>0, <1>1, <2>1, CacheSets DEF LineInv, Recalls
<1>3. dir[l].state \in {"S", "E", "M"}
  BY <1>0, <1>1 DEF LineInv, Recalls
<1>4. /\ t = "RECALL_ACK" => a0 = 0 /\ v = 0 /\ dir[l].state = "S"
      /\ t = "WB_DATA" => a0 = 0 /\ dir[l].state \in {"E", "M"}
  <2>1. t = "RECALL_ACK" => a0 = 0 /\ v = 0 /\ dir[l].state = "S"
    BY <1>0, <1>1 DEF LineInv, Recalls
  <2>2. t = "WB_DATA" => a0 = 0 /\ (dir[l].state = "S_D" \/ Exclusive(l))
    BY <1>0, <1>1 DEF LineInv, WriteBacks
  <2>. QED
    BY <1>3, <2>1, <2>2 DEF Exclusive
<1>5. t \in {"RECALL_ACK", "WB_DATA"} /\ a0 = 0
  BY <1>4 DEF RspToDir
<1>6. t = "WB_DATA" => v = latest[l] /\ WbInFlight(l)
  BY <1>0, <1>1, <1>5 DEF LineInv, Contents, WbInFlight
<1>7. \A d \in Cache : ~Expects(d, l) /\ ~Own(d, l) /\ ~Waits(d, l) /\ ~HasOwnerFwd(d, l)
  <2>1. \A d \in Cache : ~Expects(d, l)
    BY <1>0, <1>4, <1>5, <1>6 DEF LineInv, Owners
  <2>. QED
    BY <1>0, <2>1 DEF LineInv, Owners, Expects
<1>8. \A d \in Cache : \A r \in Node : \A t2 \in OwnerFwd : ~At(d, l, t2, r)
  BY <1>7 DEF HasOwnerFwd
<1>9. \A d \in Cache : ~At(d, l, "RECALL", HomeOf[l])
  BY <1>8, NodeSets DEF OwnerFwd
<1>10. \A d \in Cache : At(d, l, "RECALL_INV", HomeOf[l]) =>
         dir[l].state = "S" /\ ~Sent(d, HomeOf[l], l, "RECALL_ACK", 0, 0)
  BY <1>0 DEF LineInv, Recalls
<1>11. ~At(c, l, "RECALL_INV", HomeOf[l])
  BY <1>1, <1>4, <1>5, <1>10
<1>12. \A d \in Cache : \A a \in AckField, x \in Version :
         /\ Sent(d, HomeOf[l], l, "WB_DATA", a, x) => a = 0 /\ t = "WB_DATA" /\ x = v /\ d = c
         /\ Sent(d, HomeOf[l], l, "RECALL_ACK", a, x) => a = 0 /\ x = 0 /\ dir[l].state = "S"
  <2>1. \A d \in Cache : \A a \in AckField, x \in Version :
         Sent(d, HomeOf[l], l, "RECALL_ACK", a, x) => a = 0 /\ x = 0 /\ dir[l].state = "S"
    BY <1>0 DEF LineInv, Recalls
  <2>2. ASSUME NEW d \in Cache, NEW a \in AckField, NEW x \in Version, Sent(d, HomeOf[l], l, "WB_DATA", a, x)
        PROVE  a = 0 /\ t = "WB_DATA" /\ x = v /\ d = c
    <3>1. a = 0 /\ (dir[l].state = "S_D" \/ Exclusive(l))
      BY <1>0, <2>2 DEF LineInv, WriteBacks
    <3>2. t = "WB_DATA"
      BY <1>3, <1>4, <1>5, <3>1 DEF Exclusive
    <3>. QED
      BY <1>0, <1>1, <2>2, <3>1, <3>2 DEF LineInv, WriteBacks
  <2>. QED
    BY <2>1, <2>2
<1>13. \A t2 \in RspToDir, a \in AckField, x \in Version :
         Sent(c, HomeOf[l], l, t2, a, x) => t2 = t /\ a = a0 /\ x = v
  <2>. SUFFICES ASSUME NEW t2 \in RspToDir, NEW a \in AckField, NEW x \in Version, Sent(c, HomeOf[l], l, t2, a, x)
                PROVE  t2 = t /\ a = a0 /\ x = v
    OBVIOUS
  <2>1. t2 \in {"RECALL_ACK", "WB_DATA"}
    BY DEF RspToDir
  <2>2. CASE t2 = "WB_DATA"
    BY <1>5, <1>12, <2>2
  <2>3. CASE t2 = "RECALL_ACK"
    BY <1>4, <1>5, <1>12, <2>3
  <2>. QED
    BY <2>1, <2>2, <2>3
<1>14. c \in RecallOwed(l)
  BY <1>1, <1>5 DEF RecallOwed
<1>15. /\ \A d \in Cache : d # c => \A s \in Node : \A t2, a, x :
            Sent(d, s, l, t2, a, x)' <=> Sent(d, s, l, t2, a, x)
       /\ \A d \in Cache : \A s \in Node : \A t2, a, x : Sent(s, d, l, t2, a, x)' <=> Sent(s, d, l, t2, a, x)
  BY <1>1, NodeSets
<1>16. \A t2 \in RspToDir, a \in AckField, x \in Version : ~Sent(c, HomeOf[l], l, t2, a, x)'
  BY <1>1, <1>13, NodeSets
<1>17. RecallOwed(l)' = RecallOwed(l) \ {c}
  <2>. DEFINE in(d) == \/ At(d, l, "RECALL", HomeOf[l]) \/ At(d, l, "RECALL_INV", HomeOf[l])
                       \/ \E t2 \in RspToDir, x \in Version : Sent(d, HomeOf[l], l, t2, 0, x)
  <2>1. RecallOwed(l) = {d \in Cache : in(d)} /\ RecallOwed(l)' = {d \in Cache : in(d)'}
    BY DEF RecallOwed
  <2>2. ~in(c)'
    BY <1>1, <1>9, <1>11, <1>16, ZeroTypes DEF SameAt
  <2>3. \A d \in Cache : d # c => (in(d)' <=> in(d))
    BY <1>1, <1>15, NodeSets DEF SameAt
  <2>. HIDE DEF in
  <2>. QED
    BY <2>1, <2>2, <2>3
<1>18. t = "WB_DATA" => RecallOwed(l) = {c}
  <2>. SUFFICES ASSUME t = "WB_DATA" PROVE RecallOwed(l) \subseteq {c}
    BY <1>14
  <2>. SUFFICES ASSUME NEW d \in RecallOwed(l) PROVE d = c
    OBVIOUS
  <2>1. dir[l].state # "S"
    BY <1>4
  <2>2. d \in Cache /\ \E t2 \in RspToDir, x \in Version : Sent(d, HomeOf[l], l, t2, 0, x)
    BY <1>9, <1>10, <2>1 DEF RecallOwed
  <2>. QED
    BY <1>12, <2>1, <2>2, ZeroTypes DEF RspToDir
<1>. QED
  BY <1>0, <1>1, <1>2, <1>4, <1>5, <1>6, <1>7, <1>8, <1>9, <1>11, <1>13, <1>14, <1>15, <1>16, <1>17, <1>18

\* The line after an answer: what does not depend on whether it was the last.
LEMMA RecallAnsweredFrame ==
  ASSUME IInv, NEW c \in Cache, NEW l \in Line, NEW t \in RspToDir, NEW a0 \in AckField,
         NEW v \in Version, NEW n \in AckRange, NEW last \in BOOLEAN,
         RecallAnswered(c, l, t, a0, v, n, last)
  PROVE  /\ \A d \in Cache : l1'[d][l] = l1[d][l] /\ mshr'[d][l] = mshr[d][l] /\ copy'[d][l] = copy[d][l]
         /\ \A d \in Cache : /\ ~Own(d, l)' /\ ~Expects(d, l)' /\ ~HasOwnerFwd(d, l)'
                             /\ Shares(d, l)' <=> Shares(d, l)
                             /\ HasInv(d, l)' <=> HasInv(d, l)
                             /\ HasReq(d, l)' <=> HasReq(d, l)
                             /\ HasData(d, l)' <=> HasData(d, l)
         /\ ~WbInFlight(l)'
         /\ MshrMatches(l)' /\ Questions(l)' /\ PutAcks(l)' /\ DataMsgs(l)'
         /\ NoCycle(l)' /\ Invs(l)' /\ InvAcks(l)' /\ AckCounts(l)' /\ Contents(l)'
<1>. /\ LineInv(l) /\ Recalled(l) /\ n = Cardinality(RecallOwed(l)) /\ n \in Nat
     /\ c \in RecallOwed(l) /\ a0 = 0
     /\ t = "RECALL_ACK" => dir[l].state = "S"
     /\ t = "WB_DATA" => dir[l].state \in {"E", "M"} /\ v = latest[l]
     /\ \A d \in Cache : ~Expects(d, l) /\ ~Own(d, l) /\ ~Waits(d, l) /\ ~HasOwnerFwd(d, l)
     /\ \A d \in Cache : ~At(d, l, "RECALL", HomeOf[l])
     /\ \A d \in Cache : \A r \in Node : \A t2 \in OwnerFwd : ~At(d, l, t2, r)
     /\ ~At(c, l, "RECALL_INV", HomeOf[l])
     /\ \A t2 \in RspToDir, a \in AckField, x \in Version :
          Sent(c, HomeOf[l], l, t2, a, x) => t2 = t /\ a = a0 /\ x = v
     /\ RecallOwed(l)' = RecallOwed(l) \ {c}
     /\ t = "WB_DATA" => RecallOwed(l) = {c}
     /\ \A d \in Cache : d # c => \A s \in Node : \A t2, a, x :
          Sent(d, s, l, t2, a, x)' <=> Sent(d, s, l, t2, a, x)
     /\ \A t2 \in RspToDir, a \in AckField, x \in Version : ~Sent(c, HomeOf[l], l, t2, a, x)'
     /\ \A d \in Cache : \A s \in Node : \A t2, a, x : Sent(s, d, l, t2, a, x)' <=> Sent(s, d, l, t2, a, x)
  BY RecallAnsweredFacts
<1>1. SameAsks(l) /\ SameAt(l) /\ SameCaches(l) /\ latest'[l] = latest[l]
  BY DEF RecallAnswered
<1>2. \A d \in Cache : l1'[d][l] = l1[d][l] /\ mshr'[d][l] = mshr[d][l] /\ copy'[d][l] = copy[d][l]
  BY <1>1 DEF SameCaches
<1>3. \A d \in Cache : /\ HasReq(d, l)' <=> HasReq(d, l)
                       /\ HasOwnerFwd(d, l)' <=> HasOwnerFwd(d, l)
                       /\ HasInv(d, l)' <=> HasInv(d, l)
                       /\ Waits(d, l)' <=> Waits(d, l)
  BY <1>1, AsksFrame, AtFrame
<1>4. \A d \in Cache : /\ HasData(d, l)' <=> HasData(d, l)
                       /\ HasDataE(d, l)' <=> HasDataE(d, l)
  BY DEF HasData, HasDataE
<1>5. \A d \in Cache : /\ Own(d, l)' <=> Own(d, l)
                       /\ Shares(d, l)' <=> Shares(d, l)
  BY <1>2, <1>3, <1>4 DEF Own, Shares
<1>6. \A d \in Cache : ~Own(d, l)' /\ ~Expects(d, l)' /\ ~HasOwnerFwd(d, l)'
  BY <1>3, <1>5 DEF Expects
<1>7. ~WbInFlight(l)' /\ \A d \in Cache, x \in Version : ~Sent(d, HomeOf[l], l, "WB_DATA", 0, x)'
  <2>1. \A d \in Cache, x \in Version : ~Sent(d, HomeOf[l], l, "WB_DATA", 0, x)'
    <3>. SUFFICES ASSUME NEW d \in Cache, NEW x \in Version, Sent(d, HomeOf[l], l, "WB_DATA", 0, x)' PROVE FALSE
      OBVIOUS
    <3>1. d # c
      BY ZeroTypes DEF RspToDir
    <3>2. Sent(d, HomeOf[l], l, "WB_DATA", 0, x)
      BY <3>1, NodeSets
    <3>3. d \in RecallOwed(l)
      BY <3>2 DEF RecallOwed, RspToDir
    <3>4. t # "WB_DATA"
      BY <3>1, <3>3
    <3>5. dir[l].state = "S"
      BY <3>4 DEF RspToDir
    <3>6. dir[l].state = "S_D" \/ Exclusive(l)
      BY <3>2, ZeroTypes DEF LineInv, WriteBacks
    <3>. QED
      BY <3>5, <3>6 DEF Exclusive
  <2>. QED
    BY <2>1 DEF WbInFlight
<1>. USE <1>1, <1>2
<1>8. MshrMatches(l)'
  BY DEF LineInv, MshrMatches
<1>9. Questions(l)'
  BY <1>4 DEF LineInv, Questions, SameAsks, SameAt
<1>10. PutAcks(l)' /\ DataMsgs(l)'
  BY NodeSets DEF LineInv, PutAcks, DataMsgs, SameAt
<1>11. NoCycle(l)'
  BY DEF LineInv, NoCycle, SameAt
<1>12. Invs(l)' /\ InvAcks(l)'
  BY <1>5, NodeSets DEF LineInv, Invs, InvAcks, SameAt
<1>13. AckCounts(l)'
  <2>1. \A r \in Cache : Owed(r, l)' = Owed(r, l)
    BY NodeSets DEF Owed, SameAt
  <2>. QED
    BY <1>4, <2>1, NodeSets DEF LineInv, AckCounts
<1>14. Contents(l)'
  BY <1>5, <1>7, NodeSets DEF LineInv, Contents, Readable, SameAsks
<1>. QED
  BY <1>2, <1>3, <1>4, <1>5, <1>6, <1>7, <1>8, <1>9, <1>10, <1>11, <1>12, <1>13, <1>14

\* Counting an answer keeps what must hold of the line; when it is the last by
\* the count, nobody holds the line and memory has its last value.
LEMMA RecallAnsweredLine ==
  ASSUME IInv, NEW c \in Cache, NEW l \in Line, NEW t \in RspToDir, NEW a0 \in AckField,
         NEW v \in Version, NEW n \in AckRange, NEW last \in BOOLEAN,
         RecallAnswered(c, l, t, a0, v, n, last)
  PROVE  LineInv(l)'
<1>. /\ LineInv(l) /\ Recalled(l) /\ n = Cardinality(RecallOwed(l)) /\ n \in Nat
     /\ c \in RecallOwed(l) /\ a0 = 0
     /\ t = "RECALL_ACK" => dir[l].state = "S"
     /\ t = "WB_DATA" => dir[l].state \in {"E", "M"} /\ v = latest[l]
     /\ \A d \in Cache : ~Expects(d, l) /\ ~Own(d, l) /\ ~Waits(d, l) /\ ~HasOwnerFwd(d, l)
     /\ \A d \in Cache : ~At(d, l, "RECALL", HomeOf[l])
     /\ \A d \in Cache : \A r \in Node : \A t2 \in OwnerFwd : ~At(d, l, t2, r)
     /\ ~At(c, l, "RECALL_INV", HomeOf[l])
     /\ RecallOwed(l)' = RecallOwed(l) \ {c}
     /\ t = "WB_DATA" => RecallOwed(l) = {c}
     /\ \A d \in Cache : d # c => \A s \in Node : \A t2, a, x :
          Sent(d, s, l, t2, a, x)' <=> Sent(d, s, l, t2, a, x)
     /\ \A t2 \in RspToDir, a \in AckField, x \in Version : ~Sent(c, HomeOf[l], l, t2, a, x)'
  BY RecallAnsweredFacts
<1>1. /\ \A d \in Cache : l1'[d][l] = l1[d][l] /\ mshr'[d][l] = mshr[d][l] /\ copy'[d][l] = copy[d][l]
      /\ \A d \in Cache : /\ ~Own(d, l)' /\ ~Expects(d, l)' /\ ~HasOwnerFwd(d, l)'
                          /\ Shares(d, l)' <=> Shares(d, l)
                          /\ HasInv(d, l)' <=> HasInv(d, l)
      /\ ~WbInFlight(l)'
      /\ MshrMatches(l)' /\ Questions(l)' /\ PutAcks(l)' /\ DataMsgs(l)'
      /\ NoCycle(l)' /\ Invs(l)' /\ InvAcks(l)' /\ AckCounts(l)' /\ Contents(l)'
  BY RecallAnsweredFrame
<1>2. /\ SameAt(l) /\ latest'[l] = latest[l]
      /\ (last <=> n <= 1) /\ (Recalled(l)' <=> ~last)
      /\ \A k : RecallCount(l, k)' => k = n - 1
      /\ last => /\ dir'[l] = NoMeta
                 /\ t = "WB_DATA" => mem'[l] = v
                 /\ t # "WB_DATA" /\ binv[HomeOf[l]].wb => mem'[l] = binv[HomeOf[l]].data
      /\ ~last => /\ SameBank(l)
                  /\ t # "WB_DATA" => /\ binv'[HomeOf[l]].wb <=> binv[HomeOf[l]].wb
                                      /\ binv'[HomeOf[l]].data = binv[HomeOf[l]].data
  BY DEF RecallAnswered
<1>3. t \in {"WB_DATA", "RECALL_ACK"}
  BY DEF RspToDir
<1>4. /\ IsFiniteSet(RecallOwed(l)) /\ Cardinality(RecallOwed(l) \ {c}) = n - 1
      /\ n = 1 => RecallOwed(l) = {c}
      /\ RecallOwed(l) = {c} => n = 1
      /\ n >= 1
  <2>1. RecallOwed(l) \in SUBSET Cache
    BY DEF RecallOwed
  <2>2. IsFiniteSet(RecallOwed(l))
    BY <2>1, CacheSets
  <2>3. Cardinality(RecallOwed(l) \ {c}) = n - 1
    BY <2>2, FS_RemoveElement
  <2>4. RecallOwed(l) \ {c} \in SUBSET Cache
    BY <2>1
  <2>5. n - 1 \in Nat /\ (n - 1 = 0 <=> RecallOwed(l) \ {c} = {})
    BY <2>3, <2>4, CacheSets
  <2>. QED
    BY <2>2, <2>3, <2>5
<1>5. ~last => t = "RECALL_ACK" /\ dir[l].state = "S" /\ dir'[l] = dir[l]
  BY <1>2, <1>3, <1>4 DEF SameBank
<1>6. last => /\ dir'[l].state = "I" /\ dir'[l].sharers = {} /\ ~dir'[l].present /\ RecallOwed(l) = {c}
  BY <1>2, <1>4 DEF NoMeta
<1>7. dir'[l].state \in {"I", "S"} /\ ~Exclusive(l)'
  BY <1>5, <1>6 DEF Exclusive
<1>8. last => \A d \in Cache : ~Shares(d, l)
  <2>. SUFFICES ASSUME last, NEW d \in Cache, Shares(d, l) PROVE FALSE
    OBVIOUS
  <2>1. dir[l].state \notin {"E", "M"}
    <3>1. HasInv(d, l) \/ dir[l].state \in {"S", "S_D"}
      BY DEF LineInv, Sharers
    <3>2. ~HasInv(d, l)
      BY DEF LineInv, Invs, HasInv
    <3>. QED
      BY <3>1, <3>2
  <2>2. dir[l].state = "S"
    BY <1>3, <2>1
  <2>3. At(d, l, "RECALL_INV", HomeOf[l])
    BY <2>2 DEF LineInv, Recalls
  <2>4. d \in RecallOwed(l)
    BY <2>3 DEF RecallOwed
  <2>. QED
    BY <1>6, <2>3, <2>4
<1>9. Owners(l)'
  BY <1>1, <1>7 DEF Owners
<1>10. OwnerFwds(l)'
  <2>1. \A d \in Cache : \A r \in Node : \A t2 \in OwnerFwd : ~At(d, l, t2, r)'
    BY <1>2 DEF SameAt
  <2>2. \A d, r \in Cache : ~At(d, l, "FWD_GETM", r)' /\ ~At(d, l, "FWD_GETS", r)'
    BY <2>1, NodeSets DEF OwnerFwd
  <2>. QED
    BY <1>7, <2>1, <2>2 DEF OwnerFwds
<1>11. \A d \in Cache, a \in AckField, x \in Version : Sent(d, HomeOf[l], l, "WB_DATA", a, x)' => FALSE
  <2>. SUFFICES ASSUME NEW d \in Cache, NEW a \in AckField, NEW x \in Version,
                       Sent(d, HomeOf[l], l, "WB_DATA", a, x)' PROVE FALSE
    OBVIOUS
  <2>1. d # c
    BY DEF RspToDir
  <2>2. Sent(d, HomeOf[l], l, "WB_DATA", a, x)
    BY <2>1, NodeSets
  <2>3. a = 0
    BY <2>2 DEF LineInv, WriteBacks
  <2>. QED
    BY <1>1, <2>3 DEF WbInFlight
<1>12. WriteBacks(l)'
  BY <1>11 DEF WriteBacks
<1>13. Sharers(l)'
  <2>1. CASE last
    <3>1. \A d \in Cache : ~Shares(d, l)' /\ d \notin dir'[l].sharers
      BY <1>1, <1>6, <1>8, <2>1
    <3>. QED
      BY <3>1 DEF Sharers
  <2>2. CASE ~last
    <3>1. \A d \in Cache : Shares(d, l) => HasInv(d, l) \/ d \in dir[l].sharers
      BY DEF LineInv, Sharers
    <3>2. \A d \in Cache : Shares(d, l)' =>
            HasInv(d, l)' \/ (d \in dir'[l].sharers /\ dir'[l].state \in {"S", "S_D"} /\ \A p \in Cache : ~Expects(p, l)')
      BY <1>1, <1>5, <2>2, <3>1
    <3>3. Recalled(l)' /\ dir'[l].state = "S"
      BY <1>2, <1>5, <2>2
    <3>. QED
      BY <3>2, <3>3 DEF Sharers
  <2>. QED
    BY <2>1, <2>2
<1>14. Recalls(l)'
  <2>1. \A d \in Cache : ~At(d, l, "RECALL", HomeOf[l])'
    BY <1>2 DEF SameAt
  <2>2. \A x \in AckRange : RecallCount(l, x)' => x = Cardinality(RecallOwed(l)')
    BY <1>2, <1>4
  <2>3. \A d \in Cache : At(d, l, "RECALL_INV", HomeOf[l])' <=> At(d, l, "RECALL_INV", HomeOf[l])
    BY <1>2 DEF SameAt
  <2>4. CASE last
    <3>1. \A d \in Cache : ~At(d, l, "RECALL_INV", HomeOf[l])
      BY <1>6, <2>4 DEF RecallOwed
    <3>2. \A d \in Cache, a \in AckField, x \in Version : ~Sent(d, HomeOf[l], l, "RECALL_ACK", a, x)'
      <4>. SUFFICES ASSUME NEW d \in Cache, NEW a \in AckField, NEW x \in Version,
                           Sent(d, HomeOf[l], l, "RECALL_ACK", a, x)' PROVE FALSE
        OBVIOUS
      <4>1. d # c
        BY DEF RspToDir
      <4>2. Sent(d, HomeOf[l], l, "RECALL_ACK", a, x)
        BY <4>1, NodeSets
      <4>3. a = 0
        BY <4>2 DEF LineInv, Recalls
      <4>4. d \in RecallOwed(l)
        BY <4>2, <4>3 DEF RecallOwed, RspToDir
      <4>. QED
        BY <1>6, <2>4, <4>1, <4>4
    <3>. QED
      BY <1>2, <2>1, <2>2, <2>3, <2>4, <3>1, <3>2 DEF Recalls
  <2>5. CASE ~last
    <3>1. /\ dir'[l].state = "S" /\ dir'[l].sharers = dir[l].sharers /\ Recalled(l)'
      BY <1>2, <1>5, <2>5
    <3>2. \A d \in Cache : At(d, l, "RECALL_INV", HomeOf[l])' =>
            d \in dir'[l].sharers /\ l1'[d][l] \in Invalidatable /\ ~Sent(d, HomeOf[l], l, "RECALL_ACK", 0, 0)'
      <4>1. \A d \in Cache : At(d, l, "RECALL_INV", HomeOf[l]) =>
              d # c /\ d \in dir[l].sharers /\ l1[d][l] \in Invalidatable /\ ~Sent(d, HomeOf[l], l, "RECALL_ACK", 0, 0)
        BY DEF LineInv, Recalls
      <4>. QED
        BY <1>1, <2>3, <3>1, <4>1, NodeSets
    <3>3. \A d \in Cache, a \in AckField, x \in Version : Sent(d, HomeOf[l], l, "RECALL_ACK", a, x)' => a = 0 /\ x = 0
      <4>1. \A d \in Cache, a \in AckField, x \in Version : Sent(d, HomeOf[l], l, "RECALL_ACK", a, x) => a = 0 /\ x = 0
        BY DEF LineInv, Recalls
      <4>. QED
        BY <4>1, NodeSets, SMTT(30) DEF RspToDir
    <3>4. \A d \in Cache : Shares(d, l)' => At(d, l, "RECALL_INV", HomeOf[l])'
      BY <1>1, <1>5, <2>3, <2>5 DEF LineInv, Recalls
    <3>. QED
      BY <2>1, <2>2, <3>1, <3>2, <3>3, <3>4 DEF Recalls, Invalidatable
  <2>. QED
    BY <2>4, <2>5
<1>15. BankCopy(l)'
  <2>1. CASE last
    <3>1. mem'[l] = latest[l]
      <4>1. CASE t = "WB_DATA"
        BY <1>2, <2>1, <4>1
      <4>2. CASE t = "RECALL_ACK"
        <5>1. binv[HomeOf[l]].wb /\ binv[HomeOf[l]].data = latest[l]
          BY <4>2 DEF LineInv, BankCopy
        <5>. QED
          BY <1>2, <2>1, <4>2, <5>1
      <4>. QED
        BY <1>3, <4>1, <4>2
    <3>. QED
      BY <1>1, <1>2, <1>6, <1>7, <2>1, <3>1 DEF BankCopy
  <2>2. CASE ~last
    <3>1. /\ dir'[l] = dir[l] /\ l2'[l] = l2[l] /\ mem'[l] = mem[l] /\ dir[l].state = "S" /\ t = "RECALL_ACK"
      BY <1>2, <1>5, <2>2 DEF SameBank
    <3>2. binv[HomeOf[l]].wb /\ binv[HomeOf[l]].data = latest[l]
      BY <3>1 DEF LineInv, BankCopy
    <3>3. binv'[HomeOf[l]].wb /\ binv'[HomeOf[l]].data = latest'[l]
      BY <1>2, <2>2, <3>1, <3>2
    <3>4. /\ ~dir'[l].present => dir'[l] = NoMeta /\ mem'[l] = latest'[l]
          /\ dir'[l].present /\ dir'[l].state \in {"I", "S"} => dir'[l].data_valid /\ l2'[l] = latest'[l]
      BY <1>2, <3>1 DEF LineInv, BankCopy
    <3>. QED
      BY <1>1, <1>7, <3>3, <3>4 DEF BankCopy
  <2>. QED
    BY <2>1, <2>2
<1>. QED
  BY <1>1, <1>9, <1>10, <1>12, <1>13, <1>14, <1>15 DEF LineInv

\* Taking an answer to a recall keeps what must hold of its line, and touches
\* no other.
LEMMA TakeRecallAnswerLine ==
  ASSUME IInv, NEW h \in Home, NEW c \in Cache, TakeRecallAnswer(h, c)
  PROVE  \E l \in Line : LineInv(l)' /\ KeepsOthers(l)
BY TakeRecallAnswerTaken, RecallAnsweredLine

===============================================================================
