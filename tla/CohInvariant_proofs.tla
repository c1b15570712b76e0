------------------------------ MODULE CohInvariant_proofs ------------------------------
(***************************************************************************)
(* First the type correctness of the protocol, for every number of caches, *)
(* banks, lines and transaction buffers, every counter width and every     *)
(* size of the L2; then the inductive invariant of the protocol, IInv, and *)
(* the lemmas about the operators it is made of.  The safety properties of *)
(* Coherence are about caches and the directory; what makes them hold is   *)
(* what may be in flight.  All but the bookkeeping of the banks is a       *)
(* conjunction over lines, and says of each line who holds it, who is      *)
(* about to, and what every message about it means to its receiver.  The   *)
(* last part shows that every step of a cache keeps it.                    *)
(***************************************************************************)
EXTENDS Coherence, FiniteSetTheorems, SequenceTheorems, WellFoundedInduction, TLAPS

---------------------------------------------------------------------------
(* Operators *)

\* A non-empty set of numbers has a lowest, and Lowest finds it.
LEMMA LowestProperties ==
  ASSUME NEW S \in SUBSET Nat, S # {}
  PROVE  Lowest(S) \in S /\ \A j \in S : Lowest(S) <= j
<1>. DEFINE T == {0 .. i : i \in S}
<1>1. \A i \in S : 0 .. i \in FiniteSubsetsOf(Nat)
  BY FS_Interval DEF FiniteSubsetsOf
<1>2. PICK t \in T : \A u \in T : ~ (<<u, t>> \in StrictSubsetOrdering(Nat))
  <2>1. T \subseteq FiniteSubsetsOf(Nat) /\ T # {}
    BY <1>1
  <2>. HIDE DEF T
  <2>. QED
    BY <2>1, FS_StrictSubsetOrderingWellFounded, WFMin
<1>3. PICK x \in S : t = 0 .. x
  OBVIOUS
<1>4. ASSUME NEW y \in S PROVE x <= y
  <2>1. SUFFICES ASSUME y < x PROVE FALSE
    OBVIOUS
  <2>2. 0 .. y \in T /\ 0 .. y \subseteq t /\ 0 .. y # t /\ t \subseteq Nat
    BY <2>1, <1>3
  <2>. QED
    BY <1>2, <2>2 DEF StrictSubsetOrdering
<1>. QED
  BY <1>4 DEF Lowest

\* What a signed register holds is in its range.
LEMMA SignedType ==
  ASSUME NEW n \in Int
  PROVE  Signed(AckHalf, n) \in AckRange
<1>1. /\ (n + AckHalf) % (2 * AckHalf) \in 0 .. 2 * AckHalf - 1
      /\ AckHalf \in Nat \ {0}
  BY SizeAssumption
<1>. QED
  BY <1>1 DEF Signed, AckRange, SignedRange

\* The head of a channel is a message, and what is left is a channel.
LEMMA HeadTail ==
  ASSUME NEW M, NEW q \in Seq(M), q # <<>>
  PROVE  Head(q) \in M /\ Tail(q) \in Seq(M)
OBVIOUS

\* Writing a value of the right type into a two-level table keeps its type.
LEMMA Update ==
  ASSUME NEW A, NEW B, NEW S, NEW f \in [A -> [B -> S]],
         NEW a \in A, NEW b \in B, NEW v \in S
  PROVE  [f EXCEPT ![a][b] = v] \in [A -> [B -> S]]
OBVIOUS

LEMMA VersionType ==
  /\ 0 \in Version
  /\ \A v \in Version : Next1(v) \in Version
BY SizeAssumption DEF Version, Next1

\* The entry an allocation writes, or the register remembers, is an entry.
LEMMA AllocIdxType ==
  ASSUME NEW h \in Home
  PROVE  AllocIdx(h) \in TbeIdx /\ (FreeTbes(h) # {} => AllocIdx(h) \in FreeTbes(h))
<1>1. FreeTbes(h) \subseteq TbeIdx /\ TbeIdx \subseteq Nat /\ 1 \in TbeIdx
  BY SizeAssumption DEF FreeTbes, TbeIdx
<1>. QED
  BY <1>1, LowestProperties DEF AllocIdx

LEMMA AllocTbeType ==
  ASSUME tbe \in [Home -> [TbeIdx -> Tbe]], NEW h \in Home, NEW t \in Tbe
  PROVE  AllocTbe(h, t) \in [Home -> [TbeIdx -> Tbe]]
BY AllocIdxType DEF AllocTbe

LEMMA SendFwdType ==
  ASSUME fwd \in [Home -> [Cache -> Seq(FwdMsg)]],
         NEW h \in Home, NEW ds, NEW m \in FwdMsg
  PROVE  SendFwd(h, ds, m) \in [Home -> [Cache -> Seq(FwdMsg)]]
BY DEF SendFwd

LEMMA SendRspType ==
  ASSUME NEW q \in [Node -> [Node -> Seq(RspMsg)]],
         NEW s \in Node, NEW d \in Node, NEW m \in RspMsg
  PROVE  SendRsp(q, s, d, m) \in [Node -> [Node -> Seq(RspMsg)]]
BY DEF SendRsp

\* A count of caches is a number.
LEMMA CardinalityNat ==
  ASSUME NEW S \in SUBSET Cache
  PROVE  IsFiniteSet(S) /\ Cardinality(S) \in Nat
BY FS_Subset, FS_CardinalityType, TopologyAssumption

---------------------------------------------------------------------------
(* Type correctness *)

\* An E or M line has an owner: the sharer list of S_D is made of it.
OwnerKnown == \A l \in Line : dir[l].state \in {"E", "M"} => dir[l].owner \in Cache

TypeInv == TypeOK /\ OwnerKnown

LEMMA InitType == Init => TypeInv
<1>. SUFFICES ASSUME Init PROVE TypeInv
  OBVIOUS
<1>1. 0 \in AckRange /\ 1 \in TbeIdx /\ 0 \in Version
  BY SizeAssumption DEF AckRange, SignedRange, TbeIdx, Version
<1>2. NoMshr \in Mshr /\ NoMeta \in Meta /\ NoTbe \in Tbe /\ NoBinv \in Binv
  BY <1>1 DEF NoMshr, Mshr, NoMeta, Meta, NoTbe, Tbe, NoBinv, Binv, MshrOp,
     L1State, StableL1, DirState, TbeState
<1>3. TypeOK
  BY <1>1, <1>2 DEF Init, TypeOK, L1State, StableL1
<1>4. OwnerKnown
  BY DEF Init, OwnerKnown, NoMeta
<1>. QED
  BY <1>3, <1>4 DEF TypeInv

LEMMA RegisterTypes ==
  /\ NoMshr \in Mshr /\ NoMeta \in Meta /\ NoTbe \in Tbe /\ NoBinv \in Binv
  /\ \A op \in MshrOp : [NoMshr EXCEPT !.op = op] \in Mshr
<1>1. 0 \in AckRange /\ 1 \in TbeIdx /\ 0 \in Version
  BY SizeAssumption DEF AckRange, SignedRange, TbeIdx, Version
<1>. QED
  BY <1>1 DEF NoMshr, Mshr, NoMeta, Meta, NoTbe, Tbe, NoBinv, Binv, MshrOp,
     L1State, StableL1, DirState, TbeState

LEMMA CoreStepType ==
  ASSUME TypeOK, NEW c \in Cache, CoreStep(c)
  PROVE  TypeOK'
<1>. USE DEF TypeOK
<1>1. ASSUME NEW l \in Line, NEW op \in {"LD", "ST"}, CoreMiss(c, l, op) PROVE TypeOK'
  <2>1. Request(IF op = "ST" THEN "GETM" ELSE "GETS", l, 0) \in ReqMsg
    BY VersionType DEF Request, ReqMsg, ReqType
  <2>2. HomeOf[l] \in Home /\ op \in MshrOp
    BY TopologyAssumption DEF MshrOp
  <2>3. mshr' \in [Cache -> [Line -> Mshr]]
    BY <1>1, <2>2, RegisterTypes DEF CoreMiss
  <2>4. req' \in [Cache -> [Home -> Seq(ReqMsg)]]
    BY <1>1, <2>1, <2>2 DEF CoreMiss
  <2>5. l1' \in [Cache -> [Line -> L1State]]
    BY <1>1 DEF CoreMiss
  <2>. QED
    BY <1>1, <2>3, <2>4, <2>5 DEF CoreMiss, dirVars
<1>2. ASSUME NEW l \in Line, StoreHit(c, l) PROVE TypeOK'
  BY <1>2, VersionType DEF StoreHit, dirVars
<1>3. ASSUME NEW l \in Line, Evict(c, l) PROVE TypeOK'
  <2>1. Request(PutOf(l1[c][l]), l, copy[c][l]) \in ReqMsg
    BY DEF Request, ReqMsg, ReqType, PutOf
  <2>2. HomeOf[l] \in Home /\ "EV" \in MshrOp
    BY TopologyAssumption DEF MshrOp
  <2>3. mshr' \in [Cache -> [Line -> Mshr]]
    BY <1>3, <2>2, RegisterTypes DEF Evict
  <2>4. req' \in [Cache -> [Home -> Seq(ReqMsg)]]
    BY <1>3, <2>1, <2>2 DEF Evict
  <2>5. l1' \in [Cache -> [Line -> L1State]]
    BY <1>3 DEF Evict
  <2>. QED
    BY <1>3, <2>3, <2>4, <2>5 DEF Evict, dirVars
<1>. QED
  BY <1>1, <1>2, <1>3 DEF CoreStep

LEMMA L1StepType ==
  ASSUME TypeOK, NEW c \in Cache, L1Step(c)
  PROVE  TypeOK'
<1>. USE DEF TypeOK
<1>. c \in Node /\ Home \subseteq Node
  BY DEF Node
<1>1. ASSUME NEW h \in Home, TakeForward(c, h) PROVE TypeOK'
  <2>. DEFINE m == Head(fwd[h][c])
  <2>1. m \in FwdMsg /\ Tail(fwd[h][c]) \in Seq(FwdMsg)
    <3>1. PICK q \in Seq(FwdMsg) : q = fwd[h][c]
      OBVIOUS
    <3>2. q # <<>>
      BY <1>1, <3>1 DEF TakeForward, FwdPresented
    <3>. HIDE DEF TypeOK
    <3>. QED
      BY <3>1, <3>2, HeadTail
  <2>2. m.line \in Line /\ m.requester \in Node /\ HomeOf[m.line] \in Node
    BY <2>1, TopologyAssumption DEF FwdMsg
  <2>3. FwdAnswers(c, m, l1[c][m.line]) \in [Node -> [Node -> Seq(RspMsg)]]
    <3>1. \A t \in RspType, v \in Version : Response(t, m.line, 0, v) \in RspMsg
      BY <2>2, SizeAssumption DEF Response, RspMsg, AckField
    <3>2. {"INV_ACK", "RECALL_ACK", "WB_DATA", "DATA_OWNER"} \subseteq RspType
      BY DEF RspType, RspToL1, RspToDir
    <3>3. copy[c][m.line] \in Version
      BY <2>2
    <3>4. \A q \in [Node -> [Node -> Seq(RspMsg)]], d \in Node, v \in Version,
             t \in {"INV_ACK", "RECALL_ACK", "WB_DATA", "DATA_OWNER"} :
               SendRsp(q, c, d, Response(t, m.line, 0, v)) \in [Node -> [Node -> Seq(RspMsg)]]
      BY <3>1, <3>2, SendRspType
    <3>. HIDE DEF m
    <3>. QED
      BY <2>2, <3>3, <3>4, VersionType DEF FwdAnswers
  <2>4. VcOf[h] \in {0, 1}
    BY TopologyAssumption
  <2>5. mshr' \in [Cache -> [Line -> Mshr]]
    <3>1. mshr[c][m.line] \in Mshr
      BY <2>2
    <3>2. [mshr[c][m.line] EXCEPT !.done = TRUE] \in Mshr
      BY <3>1 DEF Mshr
    <3>. QED
      BY <1>1, <2>2, <3>2 DEF TakeForward
  <2>6. l1' \in [Cache -> [Line -> L1State]] /\ copy' \in [Cache -> [Line -> Version]]
    <3>1. PICK n \in L1State : /\ l1' = [l1 EXCEPT ![c][m.line] = n]
                              /\ copy' = [copy EXCEPT ![c][m.line] = DropIfInvalid(c, m.line, n)]
      BY <1>1 DEF TakeForward
    <3>2. copy[c][m.line] \in Version
      BY <2>2
    <3>3. DropIfInvalid(c, m.line, n) \in Version
      BY <3>2, VersionType DEF DropIfInvalid
    <3>4. m.line \in Line
      BY <2>2
    <3>. HIDE DEF m
    <3>5. [l1 EXCEPT ![c][m.line] = n] \in [Cache -> [Line -> L1State]]
      BY <3>4, Update
    <3>6. [copy EXCEPT ![c][m.line] = DropIfInvalid(c, m.line, n)]
            \in [Cache -> [Line -> Version]]
      BY <3>3, <3>4, Update
    <3>. QED
      BY <3>1, <3>5, <3>6
  <2>7. fwd' \in [Home -> [Cache -> Seq(FwdMsg)]]
    BY <1>1, <2>1 DEF TakeForward
  <2>8. stuckFwd' \in [Cache -> [{0, 1} -> Home \cup {None}]]
    BY <1>1, <2>4 DEF TakeForward
  <2>9. rsp' \in [Node -> [Node -> Seq(RspMsg)]]
    BY <1>1, <2>3 DEF TakeForward
  <2>. QED
    BY <1>1, <2>5, <2>6, <2>7, <2>8, <2>9 DEF TakeForward, dirVars
<1>2. ASSUME NEW h \in Home, StallForward(c, h) PROVE TypeOK'
  BY <1>2, TopologyAssumption DEF StallForward, l1Vars, dirVars
<1>3. ASSUME NEW s \in Node, TakeResponse(c, s) PROVE TypeOK'
  <2>. DEFINE m == Head(rsp[s][c])
              x == mshr[c][m.line]
              e == RspEventOf(m.type, m.ack)
  <2>1. m \in RspMsg /\ Tail(rsp[s][c]) \in Seq(RspMsg)
    <3>1. PICK q \in Seq(RspMsg) : q = rsp[s][c]
      BY <1>3
    <3>2. q # <<>>
      BY <1>3, <3>1 DEF TakeResponse
    <3>. HIDE DEF TypeOK
    <3>. QED
      BY <3>1, <3>2, HeadTail
  <2>2. m.line \in Line /\ m.data \in Version /\ m.ack \in Int /\ x \in Mshr
    BY <2>1, SizeAssumption DEF RspMsg, AckField
  <2>3. AckAfter(x, m, e) \in AckRange
    <3>1. x.ack \in Int
      BY <2>2, SizeAssumption DEF Mshr, AckRange, SignedRange
    <3>. HIDE DEF m, x, e
    <3>. QED
      BY <2>2, <3>1, SignedType DEF AckAfter
  <2>. DEFINE reg(n, all, fin) ==
                [op |-> x.op, ack |-> AckAfter(x, m, e), done |-> fin,
                 fin |-> IF all THEN "M" ELSE IF fin THEN n ELSE x.fin,
                 data |-> IF FillsData(e) THEN m.data ELSE x.data]
  <2>4. ASSUME NEW n \in L1State, NEW all \in BOOLEAN, NEW fin \in BOOLEAN
        PROVE  reg(n, all, fin) \in Mshr
    <3>1. x.op \in MshrOp /\ x.fin \in L1State /\ x.data \in Version /\ "M" \in L1State
      BY <2>2 DEF Mshr, L1State, StableL1
    <3>. HIDE DEF m, x, e
    <3>. QED
      BY <2>2, <2>3, <3>1 DEF Mshr
  <2>5. \E n \in L1State :
           LET all == n \in {"IM_A", "SM_A"} /\ AckAfter(x, m, e) = 0
               fin == Completes(e) \/ all
           IN  /\ mshr' = [mshr EXCEPT ![c][m.line] = reg(n, all, fin)]
               /\ l1' = IF fin THEN l1 ELSE [l1 EXCEPT ![c][m.line] = n]
    BY <1>3 DEF TakeResponse
  <2>6. \A t : Completes(t) \in BOOLEAN
    BY DEF Completes
  <2>7. mshr' \in [Cache -> [Line -> Mshr]] /\ l1' \in [Cache -> [Line -> L1State]]
    <3>1. PICK n \in L1State :
             LET all == n \in {"IM_A", "SM_A"} /\ AckAfter(x, m, e) = 0
                 fin == Completes(e) \/ all
             IN  /\ mshr' = [mshr EXCEPT ![c][m.line] = reg(n, all, fin)]
                 /\ l1' = IF fin THEN l1 ELSE [l1 EXCEPT ![c][m.line] = n]
      BY <2>5
    <3>. DEFINE all == n \in {"IM_A", "SM_A"} /\ AckAfter(x, m, e) = 0
                fin == Completes(e) \/ all
    <3>2. reg(n, all, fin) \in Mshr
      BY <2>4, <2>6
    <3>3. mshr' = [mshr EXCEPT ![c][m.line] = reg(n, all, fin)]
      BY <3>1
    <3>4. l1' = l1 \/ l1' = [l1 EXCEPT ![c][m.line] = n]
      BY <3>1
    <3>5. m.line \in Line
      BY <2>2
    <3>. HIDE DEF m, x, e, reg, all, fin
    <3>6. mshr' \in [Cache -> [Line -> Mshr]]
      BY <3>2, <3>3, <3>5, Update
    <3>7. l1' \in [Cache -> [Line -> L1State]]
      <4>1. [l1 EXCEPT ![c][m.line] = n] \in [Cache -> [Line -> L1State]]
        BY <3>5, Update
      <4>. QED
        BY <3>4, <4>1
    <3>. QED
      BY <3>6, <3>7
  <2>8. rsp' \in [Node -> [Node -> Seq(RspMsg)]]
    BY <1>3, <2>1 DEF TakeResponse
  <2>. QED
    BY <1>3, <2>7, <2>8 DEF TakeResponse, dirVars
<1>4. ASSUME NEW l \in Line, Retire(c, l) PROVE TypeOK'
  <2>1. mshr[c][l].fin \in L1State /\ mshr[c][l].data \in Version
    BY DEF Mshr
  <2>. QED
    BY <1>4, <2>1, VersionType, RegisterTypes DEF Retire, dirVars
<1>. QED
  BY <1>1, <1>2, <1>3, <1>4 DEF L1Step

\* The directory's table yields well-formed metadata, and an owner for E and M.
LEMMA NewMetaType ==
  ASSUME NEW md \in Meta, md.state \in {"E", "M"} => md.owner \in Cache,
         NEW e, NEW c \in Cache, NEW n \in DirState, <<md.state, e, n>> \in DirArcs
  PROVE  /\ NewMeta(md, e, c, n) \in Meta
         /\ NewMeta(md, e, c, n).state \in {"E", "M"} => NewMeta(md, e, c, n).owner \in Cache
<1>1. /\ md.sharers \in SUBSET Cache
      /\ md.owner \in Cache \cup {None}
      /\ md.data_valid \in BOOLEAN
  BY DEF Meta
<1>2. NewSharers(md, e, c) \in SUBSET Cache
  BY <1>1 DEF NewSharers, ForwardsToOwner
<1>3. NewDataValid(md, e, n) \in BOOLEAN
  BY <1>1 DEF NewDataValid
<1>. DEFINE owner == CASE SetsOwner(md.state, e) -> c
                       [] ClearsOwner(md.state, e) -> None
                       [] OTHER -> md.owner
<1>4. owner \in Cache \cup {None}
  BY <1>1
<1>5. n \in {"E", "M"} => owner \in Cache
  <2>1. ASSUME n \in {"E", "M"}, ~SetsOwner(md.state, e)
        PROVE  md.state \in {"E", "M"} /\ ~ClearsOwner(md.state, e)
    BY <2>1, EnableEType DEF SetsOwner, ClearsOwner, SendsDataE, DirArcs, PutEvent
  <2>2. SetsOwner(md.state, e) => ~ClearsOwner(md.state, e)
    BY DEF SetsOwner, ClearsOwner, SendsDataE
  <2>3. CASE SetsOwner(md.state, e)
    BY <2>2, <2>3
  <2>4. CASE ~SetsOwner(md.state, e)
    BY <2>1, <2>4
  <2>. QED
    BY <2>3, <2>4
<1>6. NewMeta(md, e, c, n) = [present |-> TRUE, state |-> n, sharers |-> NewSharers(md, e, c),
                              owner |-> owner, data_valid |-> NewDataValid(md, e, n)]
  BY DEF NewMeta
<1>. HIDE DEF owner
<1>. QED
  BY <1>2, <1>3, <1>4, <1>5, <1>6 DEF Meta

\* Executing a message against the table keeps the types of all it writes.
LEMMA DirExecType ==
  ASSUME TypeInv, NEW h \in Home, NEW c \in Cache, NEW m,
         m.line \in Line, m.data \in Version,
         NEW q \in [Node -> [Node -> Seq(RspMsg)]], DirExec(h, c, m, q)
  PROVE  /\ dir' \in [Line -> Meta] /\ OwnerKnown'
         /\ l2' \in [Line -> Version]
         /\ tbe' \in [Home -> [TbeIdx -> Tbe]]
         /\ rsp' \in [Node -> [Node -> Seq(RspMsg)]]
         /\ fwd' \in [Home -> [Cache -> Seq(FwdMsg)]]
<1>. DEFINE l == m.line
            md == dir[l]
            e == DirEventOf(m.type, md, c)
            inv == InvTargets(md, e, c)
<1>1. /\ dir \in [Line -> Meta] /\ l2 \in [Line -> Version]
      /\ tbe \in [Home -> [TbeIdx -> Tbe]]
      /\ fwd \in [Home -> [Cache -> Seq(FwdMsg)]]
  BY DEF TypeInv, TypeOK
<1>2. /\ md \in Meta /\ l2[l] \in Version
      /\ md.state \in {"E", "M"} => md.owner \in Cache
      /\ h \in Node /\ c \in Node
  BY <1>1 DEF TypeInv, OwnerKnown, Node
<1>3. inv \in SUBSET Cache
  BY <1>2 DEF InvTargets, Meta
<1>4. PICK n \in DirState :
        /\ <<md.state, e, n>> \in DirArcs
        /\ dir' = [dir EXCEPT ![l] = NewMeta(md, e, c, n)]
        /\ l2' = IF CopiesData(md.state, e) THEN [l2 EXCEPT ![l] = m.data] ELSE l2
        /\ tbe' = CASE NeedsTbe(md, n) ->
                         AllocTbe(h, [state |-> "WB_PEND", line |-> l, ack |-> 0])
                    [] md.state = "S_D" /\ e = "DATA" ->
                         [tbe EXCEPT ![h] = [i \in TbeIdx |->
                            IF i \in TbesOf(h, l) THEN NoTbe ELSE @[i]]]
                    [] OTHER -> tbe
        /\ rsp' = CASE SendsDataE(md.state, e) ->
                         SendRsp(q, h, c, Response("DATA_E", l, 0, l2[l]))
                    [] SendsData(md.state, e) ->
                         SendRsp(q, h, c, Response("DATA_DIR", l,
                                   Cardinality(inv) % AckHalf, l2[l]))
                    [] OTHER -> q
        /\ fwd' = CASE SendsPutAck(e) -> SendFwd(h, {c}, Forward("PUT_ACK", l, c))
                    [] ForwardsToOwner(md.state, e) ->
                         SendFwd(h, {md.owner},
                           Forward(IF e = "GETS" THEN "FWD_GETS" ELSE "FWD_GETM", l, c))
                    [] OTHER -> SendFwd(h, inv, Forward("INV", l, c))
  BY DEF DirExec
<1>. HIDE DEF l, md, e, inv
<1>5. dir' \in [Line -> Meta] /\ OwnerKnown'
  <2>1. /\ NewMeta(md, e, c, n) \in Meta
        /\ NewMeta(md, e, c, n).state \in {"E", "M"} => NewMeta(md, e, c, n).owner \in Cache
    BY <1>2, <1>4, NewMetaType
  <2>2. dir' = [dir EXCEPT ![l] = NewMeta(md, e, c, n)] /\ l \in Line
    BY <1>4 DEF l
  <2>. QED
    BY <1>1, <2>1, <2>2 DEF TypeInv, OwnerKnown
<1>6. l2' \in [Line -> Version]
  BY <1>1, <1>4 DEF l
<1>7. tbe' \in [Home -> [TbeIdx -> Tbe]]
  <2>1. [state |-> "WB_PEND", line |-> l, ack |-> 0] \in Tbe
    BY SizeAssumption DEF Tbe, TbeState, AckRange, SignedRange, l
  <2>2. AllocTbe(h, [state |-> "WB_PEND", line |-> l, ack |-> 0])
          \in [Home -> [TbeIdx -> Tbe]]
    BY <1>1, <2>1, AllocTbeType
  <2>3. [tbe EXCEPT ![h] = [i \in TbeIdx |-> IF i \in TbesOf(h, l) THEN NoTbe ELSE @[i]]]
          \in [Home -> [TbeIdx -> Tbe]]
    BY <1>1, RegisterTypes
  <2>. QED
    BY <1>1, <1>4, <2>2, <2>3
<1>8. rsp' \in [Node -> [Node -> Seq(RspMsg)]]
  <2>1. Cardinality(inv) % AckHalf \in AckField /\ 0 \in AckField
    BY <1>3, CardinalityNat, SizeAssumption DEF AckField
  <2>2. /\ Response("DATA_E", l, 0, l2[l]) \in RspMsg
        /\ Response("DATA_DIR", l, Cardinality(inv) % AckHalf, l2[l]) \in RspMsg
    BY <1>2, <2>1 DEF Response, RspMsg, RspType, RspToL1, l
  <2>. QED
    BY <1>2, <1>4, <2>2, SendRspType
<1>9. fwd' \in [Home -> [Cache -> Seq(FwdMsg)]]
  <2>1. \A t \in FwdType : Forward(t, l, c) \in FwdMsg
    BY <1>2 DEF Forward, FwdMsg, l
  <2>2. {"PUT_ACK", "FWD_GETS", "FWD_GETM", "INV"} \subseteq FwdType
    BY DEF FwdType
  <2>3. \A ds, t : t \in FwdType => SendFwd(h, ds, Forward(t, l, c))
                                      \in [Home -> [Cache -> Seq(FwdMsg)]]
    BY <1>1, <2>1, SendFwdType
  <2>. QED
    BY <1>4, <2>2, <2>3
<1>. QED
  BY <1>5, <1>6, <1>7, <1>8, <1>9

\* The number of answers a recall waits for is a number.
LEMMA RecallExpectType ==
  ASSUME NEW md \in Meta
  PROVE  RecallExpect(md) \in Nat
BY CardinalityNat DEF RecallExpect, Meta

\* Replacing a resident line, allowed or not, keeps the types.
LEMMA ReplacementType ==
  ASSUME TypeInv, NEW h \in Home, NEW c \in Cache,
         \E v \in VictimChoice(h) : RecallCopies(h, c, v) \/ FreeUnheld(h, c, v)
  PROVE  TypeInv'
<1>. TypeOK /\ OwnerKnown
  BY DEF TypeInv
<1>. USE DEF TypeOK
<1>. PICK v \in VictimChoice(h) : RecallCopies(h, c, v) \/ FreeUnheld(h, c, v)
  OBVIOUS
<1>. v \in Line
  BY DEF VictimChoice, Victims, Resident, LinesOf
<1>1. dir[v] \in Meta /\ dir[v].data_valid \in BOOLEAN
  BY DEF Meta
<1>2. CASE RecallCopies(h, c, v)
  <2>1. [state |-> "INV_PEND", line |-> v, ack |-> Signed(AckHalf, RecallExpect(dir[v]))] \in Tbe
    BY <1>1, RecallExpectType, SignedType DEF Tbe, TbeState
  <2>2. tbe' \in [Home -> [TbeIdx -> Tbe]]
    BY <1>2, <2>1, AllocTbeType DEF RecallCopies
  <2>3. binv' \in [Home -> Binv]
    BY <1>1, <1>2, AllocIdxType DEF RecallCopies, Binv
  <2>4. Forward("RECALL_INV", v, h) \in FwdMsg /\ Forward("RECALL", v, h) \in FwdMsg
    BY DEF Forward, FwdMsg, FwdType, Node
  <2>5. fwd' \in [Home -> [Cache -> Seq(FwdMsg)]]
    BY <1>2, <2>4, SendFwdType DEF RecallCopies
  <2>. QED
    BY <1>2, <2>2, <2>3, <2>5 DEF RecallCopies, l1Vars, TypeInv, OwnerKnown
<1>3. CASE FreeUnheld(h, c, v)
  <2>1. NoMeta \in Meta /\ NoMeta.state = "I"
    BY RegisterTypes DEF NoMeta
  <2>2. dir' \in [Line -> Meta] /\ OwnerKnown'
    BY <1>3, <2>1 DEF FreeUnheld, OwnerKnown
  <2>3. tbe' \in [Home -> [TbeIdx -> Tbe]]
    BY <1>3, RegisterTypes, AllocIdxType DEF FreeUnheld
  <2>4. mem' \in [Line -> Version]
    BY <1>3 DEF FreeUnheld
  <2>. QED
    BY <1>3, <2>2, <2>3, <2>4 DEF FreeUnheld, l1Vars, TypeInv
<1>. QED
  BY <1>2, <1>3

LEMMA DirStepType ==
  ASSUME TypeInv, NEW h \in Home, DirStep(h)
  PROVE  TypeInv'
<1>. TypeOK /\ OwnerKnown
  BY DEF TypeInv
<1>. USE DEF TypeOK
<1>. SUFFICES ASSUME NEW c \in Cache,
                     \/ TakeRequest(h, c) \/ StallRequest(h, c) \/ TakeOwnerData(h, c)
                     \/ FetchLine(h, c) \/ StartRecall(h, c) \/ ReplaceUnheld(h, c)
                     \/ TakeRecallAnswer(h, c)
              PROVE  TypeInv'
  BY DEF DirStep
<1>. h \in Node /\ c \in Node
  BY DEF Node
<1>1. CASE TakeRequest(h, c)
  <2>. DEFINE m == Head(req[c][h])
  <2>1. m \in ReqMsg /\ Tail(req[c][h]) \in Seq(ReqMsg)
    BY <1>1, HeadTail DEF TakeRequest, ReqPresented
  <2>2. m.line \in Line /\ m.data \in Version /\ DirExec(h, c, m, rsp)
    BY <1>1, <2>1 DEF TakeRequest, ReqMsg
  <2>3. /\ dir' \in [Line -> Meta] /\ OwnerKnown'
        /\ l2' \in [Line -> Version]
        /\ tbe' \in [Home -> [TbeIdx -> Tbe]]
        /\ rsp' \in [Node -> [Node -> Seq(RspMsg)]]
        /\ fwd' \in [Home -> [Cache -> Seq(FwdMsg)]]
    <3>. HIDE DEF m, TypeOK
    <3>. QED
      BY <2>2, DirExecType DEF TypeOK
  <2>4. req' \in [Cache -> [Home -> Seq(ReqMsg)]]
    BY <1>1, <2>1 DEF TakeRequest
  <2>. QED
    BY <1>1, <2>3, <2>4 DEF TakeRequest, l1Vars, TypeInv
<1>2. CASE StallRequest(h, c)
  BY <1>2 DEF StallRequest, l1Vars, dirVars, TypeInv, OwnerKnown
<1>3. CASE TakeOwnerData(h, c)
  <2>. DEFINE m == Head(rsp[c][h])
              q == [rsp EXCEPT ![c][h] = Tail(@)]
  <2>1. m \in RspMsg /\ Tail(rsp[c][h]) \in Seq(RspMsg)
    BY <1>3, HeadTail DEF TakeOwnerData
  <2>2. m.line \in Line /\ m.data \in Version /\ DirExec(h, c, m, q)
    BY <1>3, <2>1 DEF TakeOwnerData, RspMsg
  <2>3. q \in [Node -> [Node -> Seq(RspMsg)]]
    BY <2>1
  <2>4. /\ dir' \in [Line -> Meta] /\ OwnerKnown'
        /\ l2' \in [Line -> Version]
        /\ tbe' \in [Home -> [TbeIdx -> Tbe]]
        /\ rsp' \in [Node -> [Node -> Seq(RspMsg)]]
        /\ fwd' \in [Home -> [Cache -> Seq(FwdMsg)]]
    <3>. HIDE DEF m, q, TypeOK
    <3>. QED
      BY <2>2, <2>3, DirExecType
  <2>. QED
    BY <1>3, <2>4 DEF TakeOwnerData, l1Vars, TypeInv
<1>4. CASE FetchLine(h, c)
  <2>1. Head(req[c][h]) \in ReqMsg
    BY <1>4, HeadTail DEF FetchLine, ReqPresented
  <2>2. Head(req[c][h]).line \in Line
    BY <2>1 DEF ReqMsg
  <2>3. LET md == [NoMeta EXCEPT !.present = TRUE, !.data_valid = TRUE]
        IN  md \in Meta /\ md.state = "I"
    BY DEF NoMeta, Meta, DirState
  <2>4. dir' \in [Line -> Meta] /\ OwnerKnown'
    BY <1>4, <2>2, <2>3 DEF FetchLine, OwnerKnown
  <2>. QED
    BY <1>4, <2>2, <2>4 DEF FetchLine, l1Vars, TypeInv
<1>5. CASE StartRecall(h, c) \/ ReplaceUnheld(h, c)
  BY <1>5, ReplacementType DEF StartRecall, ReplaceUnheld
<1>6. CASE TakeRecallAnswer(h, c)
  <2>. DEFINE m == Head(rsp[c][h])
              i == Lowest(TbesOf(h, m.line))
              wb == binv[h].wb \/ m.type = "WB_DATA"
              v == IF m.type = "WB_DATA" THEN m.data ELSE binv[h].data
  <2>1. m \in RspMsg /\ Tail(rsp[c][h]) \in Seq(RspMsg)
    <3>1. PICK q \in Seq(RspMsg) : q = rsp[c][h]
      BY <1>6
    <3>2. q # <<>>
      BY <1>6, <3>1 DEF TakeRecallAnswer
    <3>. HIDE DEF TypeOK
    <3>. QED
      BY <3>1, <3>2, HeadTail
  <2>2. /\ binv[h] \in Binv
        /\ m.data \in Version
        /\ TbesOf(h, m.line) # {} /\ TbesOf(h, m.line) \subseteq TbeIdx
    BY <1>6, <2>1 DEF RspMsg, TakeRecallAnswer, Recalling, TbesOf
  <2>3. i \in TbeIdx
    <3>. HIDE DEF m
    <3>. DEFINE S == TbesOf(h, m.line)
    <3>1. S \in SUBSET Nat /\ S # {} /\ S \subseteq TbeIdx
      BY <2>2 DEF TbeIdx
    <3>. HIDE DEF S
    <3>2. Lowest(S) \in S
      BY <3>1, LowestProperties
    <3>. QED
      BY <3>1, <3>2 DEF S
  <2>4. wb \in BOOLEAN /\ v \in Version
    BY <2>2 DEF Binv
  <2>. HIDE DEF m, i, wb, v
  <2>5. /\ mem' = mem \/ mem' = [mem EXCEPT ![binv[h].line] = v]
        /\ dir' = dir \/ dir' = [dir EXCEPT ![binv[h].line] = NoMeta]
        /\ \/ tbe' = [tbe EXCEPT ![h][binv[h].idx] = NoTbe]
           \/ tbe' = [tbe EXCEPT ![h][i].ack = Signed(AckHalf, @ - 1)]
        /\ \/ binv' = [binv EXCEPT ![h] = NoBinv]
           \/ binv' = [binv EXCEPT ![h] = [@ EXCEPT !.wb = wb, !.data = v]]
    BY <1>6 DEF TakeRecallAnswer, m, i, wb, v
  <2>6. mem' \in [Line -> Version]
    BY <2>4, <2>5
  <2>7. dir' \in [Line -> Meta] /\ OwnerKnown'
    <3>1. NoMeta \in Meta /\ NoMeta.state = "I"
      BY RegisterTypes DEF NoMeta
    <3>2. CASE dir' = dir
      BY <3>2 DEF OwnerKnown
    <3>3. CASE dir' = [dir EXCEPT ![binv[h].line] = NoMeta]
      <4>. DEFINE z == binv[h].line
      <4>1. dir' = [dir EXCEPT ![z] = NoMeta] /\ dir \in [Line -> Meta] /\ OwnerKnown
        BY <3>3
      <4>. HIDE DEF z, TypeOK
      <4>2. dir' \in [Line -> Meta]
        BY <3>1, <4>1
      <4>3. OwnerKnown'
        BY <3>1, <4>1 DEF OwnerKnown
      <4>. QED
        BY <4>2, <4>3
    <3>. QED
      BY <2>5, <3>2, <3>3
  <2>8. tbe' \in [Home -> [TbeIdx -> Tbe]]
    <3>1. tbe[h][i] \in Tbe /\ tbe[h][i].ack \in Int
      BY <2>3, SizeAssumption DEF Tbe, AckRange, SignedRange
    <3>2. Signed(AckHalf, tbe[h][i].ack - 1) \in AckRange
      <4>1. tbe[h][i].ack - 1 \in Int
        BY <3>1
      <4>. DEFINE k == tbe[h][i].ack - 1
      <4>2. k \in Int
        BY <4>1
      <4>. HIDE DEF k
      <4>3. Signed(AckHalf, k) \in AckRange
        BY <4>2, SignedType
      <4>. QED
        BY <4>3 DEF k
    <3>3. [tbe[h][i] EXCEPT !.ack = Signed(AckHalf, @ - 1)] \in Tbe
      BY <3>1, <3>2 DEF Tbe
    <3>4. CASE tbe' = [tbe EXCEPT ![h][i].ack = Signed(AckHalf, @ - 1)]
      <4>1. tbe' = [tbe EXCEPT ![h][i] = [tbe[h][i] EXCEPT !.ack = Signed(AckHalf, @ - 1)]]
        BY <3>4
      <4>. QED
        BY <2>3, <3>3, <4>1, Update
    <3>5. CASE tbe' = [tbe EXCEPT ![h][binv[h].idx] = NoTbe]
      <4>1. binv[h].idx \in TbeIdx
        BY <2>2 DEF Binv
      <4>. QED
        BY <3>5, <4>1, RegisterTypes, Update
    <3>. QED
      BY <2>5, <3>4, <3>5
  <2>9. binv' \in [Home -> Binv]
    <3>1. [binv[h] EXCEPT !.wb = wb, !.data = v] \in Binv
      BY <2>2, <2>4 DEF Binv
    <3>2. NoBinv \in Binv /\ binv \in [Home -> Binv]
      BY RegisterTypes
    <3>3. PICK e \in Binv : e = [binv[h] EXCEPT !.wb = wb, !.data = v]
      BY <3>1
    <3>4. binv' = [binv EXCEPT ![h] = NoBinv] \/ binv' = [binv EXCEPT ![h] = e]
      <4>1. CASE binv' = [binv EXCEPT ![h] = NoBinv]
        BY <4>1
      <4>2. CASE binv' = [binv EXCEPT ![h] = [@ EXCEPT !.wb = wb, !.data = v]]
        BY <3>3, <4>2
      <4>. QED
        BY <2>5, <4>1, <4>2
    <3>. HIDE DEF TypeOK
    <3>. QED
      BY <3>2, <3>4
  <2>10. rsp' \in [Node -> [Node -> Seq(RspMsg)]]
    BY <1>6, <2>1 DEF TakeRecallAnswer
  <2>. QED
    BY <1>6, <2>6, <2>7, <2>8, <2>9, <2>10 DEF TakeRecallAnswer, l1Vars, TypeInv
<1>. QED
  BY <1>1, <1>2, <1>3, <1>4, <1>5, <1>6

LEMMA TypeInductive == TypeInv /\ [Next]_vars => TypeInv'
<1>. SUFFICES ASSUME TypeInv, [Next]_vars PROVE TypeInv'
  OBVIOUS
<1>1. ASSUME NEW c \in Cache, CoreStep(c) PROVE TypeInv'
  <2>1. UNCHANGED dir
    BY <1>1 DEF CoreStep, CoreMiss, StoreHit, Evict, dirVars
  <2>. QED
    BY <1>1, <2>1, CoreStepType DEF TypeInv, OwnerKnown
<1>2. ASSUME NEW c \in Cache, L1Step(c) PROVE TypeInv'
  <2>1. UNCHANGED dir
    BY <1>2 DEF L1Step, TakeForward, StallForward, TakeResponse, Retire, dirVars
  <2>. QED
    BY <1>2, <2>1, L1StepType DEF TypeInv, OwnerKnown
<1>3. ASSUME NEW h \in Home, DirStep(h) PROVE TypeInv'
  BY <1>3, DirStepType
<1>4. ASSUME NEW h \in Home, NEW c \in Cache, ReplaceAnyway(h, c) PROVE TypeInv'
  BY <1>4, ReplacementType DEF ReplaceAnyway
<1>5. CASE UNCHANGED vars
  BY <1>5 DEF vars, TypeInv, TypeOK, OwnerKnown
<1>. QED
  BY <1>1, <1>2, <1>3, <1>4, <1>5 DEF Next, RoomyNext, SystemStep

\* Every reachable state is well-typed: in particular an acknowledgement count
\* stays in its register and an AckCount in its field, the sharer list holds
\* caches only, and every message names a line and a node.
THEOREM TypeCorrect == Spec => []TypeOK
<1>1. TypeInv => TypeOK
  BY DEF TypeInv
<1>. QED
  BY <1>1, InitType, TypeInductive, PTL DEF Spec

---------------------------------------------------------------------------
(* Replacement *)

\* With more ways than transaction buffers a full set always holds a line that
\* no transaction is in flight for, in every execution, those that overcommit
\* the buffers included: each busy line needs a buffer entry of its own.
THEOREM VictimAlways ==
  ASSUME L2Ways > TbeEntries
  PROVE  Spec => []VictimForRecall
<1>1. VictimForRecall
  <2>. SUFFICES ASSUME NEW h \in Home, NEW c \in Cache, MissesFullSet(h, c), Victims(h) = {}
                PROVE  FALSE
    BY DEF VictimForRecall
  <2>. DEFINE R == Resident(h)
              f == [l \in R |-> CHOOSE i \in TbesOf(h, l) : TRUE]
  <2>1. IsFiniteSet(R) /\ Cardinality(R) \in Nat
    BY FS_Subset, FS_CardinalityType, TopologyAssumption DEF Resident, LinesOf
  <2>2. Cardinality(R) >= L2Ways
    BY <2>1, SizeAssumption DEF MissesFullSet, HaveFreeWay
  <2>3. \A l \in R : TbesOf(h, l) # {}
    BY DEF Victims
  <2>4. \A l \in R : f[l] \in TbeIdx /\ tbe[h][f[l]].line = l
    BY <2>3 DEF TbesOf
  <2>5. f \in Injection(R, TbeIdx)
    BY <2>4 DEF Injection, IsInjective
  <2>6. IsFiniteSet(TbeIdx) /\ Cardinality(TbeIdx) = TbeEntries
    BY FS_Interval, SizeAssumption DEF TbeIdx
  <2>7. Cardinality(R) <= Cardinality(TbeIdx)
    BY <2>5, <2>6, FS_Injection
  <2>. QED
    BY <2>1, <2>2, <2>6, <2>7, SizeAssumption
<1>. QED
  BY <1>1, PTL

---------------------------------------------------------------------------
(* What is in flight *)

Items(q) == {q[i] : i \in 1 .. Len(q)}

\* Request t with data v from cache c about line l.
Asks(c, l, t, v) == Request(t, l, v) \in Items(req[c][HomeOf[l]])

\* Forward t on behalf of r at cache c about line l.
At(c, l, t, r) == Forward(t, l, r) \in Items(fwd[HomeOf[l]][c])

\* Response t with count a and data v about line l from s to d, in the state q
\* of the VN2 channels.
InRsp(q, s, d, l, t, a, v) == Response(t, l, a, v) \in Items(q[s][d])

Sent(s, d, l, t, a, v) == InRsp(rsp, s, d, l, t, a, v)

DataType == {"DATA_DIR", "DATA_E", "DATA_OWNER"}

\* The forwards that take a line away from its owner.
OwnerFwd == {"FWD_GETS", "FWD_GETM", "RECALL"}

HasReq(c, l) == \E t \in ReqType, v \in Version : Asks(c, l, t, v)

HasData(c, l) ==
    \E s \in Node, t \in DataType, a \in AckField, v \in Version : Sent(s, c, l, t, a, v)

HasDataE(c, l) == \E s \in Node, v \in Version : Sent(s, c, l, "DATA_E", 0, v)

HasOwnerFwd(c, l) == \E t \in OwnerFwd, r \in Node : At(c, l, t, r)

HasInv(c, l) == \E r \in Cache : At(c, l, "INV", r)

\* The line's data is on its way back to its bank.
WbInFlight(l) == \E c \in Cache, v \in Version : Sent(c, HomeOf[l], l, "WB_DATA", 0, v)

---------------------------------------------------------------------------
(* Who holds a line *)

\* c holds the only copy that may be written, or its data has been sent to it.
Own(c, l) ==
    \/ l1[c][l] \in {"E", "M"}
    \/ l1[c][l] \in {"EI_A", "MI_A"} /\ (HasReq(c, l) \/ HasOwnerFwd(c, l))
    \/ mshr[c][l].op = "LD" /\ (HasDataE(c, l) \/ (mshr[c][l].done /\ mshr[c][l].fin = "E"))
    \/ /\ mshr[c][l].op = "ST"
       /\ mshr[c][l].done \/ l1[c][l] \in {"IM_A", "SM_A"} \/ HasData(c, l)

\* A forwarded GetM will make c the owner.
Waits(c, l) == \E p \in Cache : At(p, l, "FWD_GETM", c)

Expects(c, l) == Own(c, l) \/ Waits(c, l)

\* c holds a copy that may be read, or its data has been sent to it.
Shares(c, l) ==
    \/ l1[c][l] \in {"S", "SM_AD", "SM_A"}
    \/ mshr[c][l].op = "LD" /\ mshr[c][l].done /\ mshr[c][l].fin = "S"
    \/ mshr[c][l].op = "LD" /\ HasData(c, l) /\ ~HasDataE(c, l)

Exclusive(l) == dir[l].state \in {"E", "M"}

Recalled(l) == Recalling(HomeOf[l], l)

\* States in which an Inv can be answered, at once or after the data comes.
Invalidatable == {"IS_D", "S", "SM_AD", "SI_A"}

---------------------------------------------------------------------------
(* Channels *)

Distinct(q) == \A i, j \in 1 .. Len(q) : q[i] = q[j] => i = j

\* Nothing about a line follows its PutAck.
PutAckLast(q) ==
    \A i, j \in 1 .. Len(q) : i < j /\ q[i].line = q[j].line => q[i].type # "PUT_ACK"

\* Who a forward at cache c from bank h is on behalf of.
OnBehalf(m, h, c) ==
    /\ m.type = "PUT_ACK" => m.requester = c
    /\ m.type \in {"RECALL", "RECALL_INV"} => m.requester = h
    /\ m.type \in {"FWD_GETS", "FWD_GETM", "INV"} => m.requester \in Cache

ReqChannels ==
    \A c \in Cache, h \in Home :
        /\ Distinct(req[c][h])
        /\ \A m \in Items(req[c][h]) : HomeOf[m.line] = h

FwdChannels ==
    \A c \in Cache, h \in Home :
        /\ Distinct(fwd[h][c])
        /\ PutAckLast(fwd[h][c])
        /\ \A m \in Items(fwd[h][c]) : HomeOf[m.line] = h /\ OnBehalf(m, h, c)

\* Who sends what on VN2.
RspFits(s, d, m) ==
    /\ s \in Home => d \in Cache /\ HomeOf[m.line] = s /\ m.type \in {"DATA_E", "DATA_DIR"}
    /\ d \in Home => HomeOf[m.line] = d /\ m.type \in RspToDir
    /\ s \in Cache /\ d \in Cache => m.type \in {"DATA_OWNER", "INV_ACK"}

RspChannels(q) ==
    \A s, d \in Node : Distinct(q[s][d]) /\ \A m \in Items(q[s][d]) : RspFits(s, d, m)

Channels == ReqChannels /\ FwdChannels /\ RspChannels(rsp)

---------------------------------------------------------------------------
(* Banks *)

\* A recall holds a whole bank: its entry is the one the registers describe,
\* no way is free, and the VN0 queue waits behind a miss.
BankOf(h) ==
    /\ \A l \in LinesOf(h) : \A i, j \in TbesOf(h, l) : i = j
    /\ \A i \in TbeIdx : tbe[h][i].state # "INVALID" => tbe[h][i].line \in LinesOf(h)
    /\ \A l \in LinesOf(h) :
         (dir[l].state = "S_D") <=> \E i \in TbesOf(h, l) : tbe[h][i].state = "WB_PEND"
    /\ \A i \in TbeIdx : tbe[h][i].state = "INV_PEND" =>
         binv[h].idx = i /\ binv[h].line = tbe[h][i].line /\ dir[tbe[h][i].line].present
    /\ BinvActive(h) =>
         /\ ~HaveFreeWay(h)
         /\ stuckReq[h] \in Cache
         /\ req[stuckReq[h]][h] # <<>>
         /\ ~dir[Head(req[stuckReq[h]][h]).line].present

Banks == \A h \in Home : BankOf(h)

---------------------------------------------------------------------------
(* One line: the caches *)

\* A transaction and the state it is in.
MshrMatches(l) ==
    \A c \in Cache :
        /\ mshr[c][l].op = "none" => l1[c][l] \in StableL1 /\ ~mshr[c][l].done
        /\ mshr[c][l].op = "LD" =>
             l1[c][l] = "IS_D" /\ (mshr[c][l].done => mshr[c][l].fin \in {"S", "E"})
        /\ mshr[c][l].op = "ST" =>
             /\ l1[c][l] \in {"IM_AD", "IM_A", "SM_AD", "SM_A"}
             /\ mshr[c][l].done => mshr[c][l].fin = "M"
        /\ mshr[c][l].op = "EV" =>
             IF mshr[c][l].done THEN l1[c][l] = "I" ELSE l1[c][l] \in Evicting

\* A cache has one question in flight, or one answer to it.
Questions(l) ==
    \A c \in Cache, t \in ReqType, v \in Version : Asks(c, l, t, v) =>
        /\ \A t2 \in ReqType, v2 \in Version : Asks(c, l, t2, v2) => t2 = t /\ v2 = v
        /\ ~mshr[c][l].done /\ ~HasData(c, l) /\ ~At(c, l, "PUT_ACK", c)
        /\ t = "GETS" => mshr[c][l].op = "LD"
        /\ t = "GETM" => /\ mshr[c][l].op = "ST" /\ mshr[c][l].ack = 0
                         /\ l1[c][l] \in {"IM_AD", "SM_AD"}
        /\ t = "PUTS" => mshr[c][l].op = "EV" /\ l1[c][l] \in {"SI_A", "II_A"}
        /\ t = "PUTE" => mshr[c][l].op = "EV" /\ l1[c][l] \in {"EI_A", "SI_A", "II_A"}
        /\ t = "PUTM" => mshr[c][l].op = "EV" /\ l1[c][l] \in {"MI_A", "SI_A", "II_A"}

PutAcks(l) ==
    \A c \in Cache : At(c, l, "PUT_ACK", c) => mshr[c][l].op = "EV" /\ ~mshr[c][l].done

DataMsgs(l) ==
    \A c \in Cache, s \in Node, t \in DataType, a \in AckField, v \in Version :
        Sent(s, c, l, t, a, v) =>
            /\ \A s2 \in Node, t2 \in DataType, a2 \in AckField, v2 \in Version :
                 Sent(s2, c, l, t2, a2, v2) => s2 = s /\ t2 = t /\ a2 = a /\ v2 = v
            /\ ~mshr[c][l].done /\ mshr[c][l].op \in {"LD", "ST"}
            /\ mshr[c][l].op = "ST" => l1[c][l] \in {"IM_AD", "SM_AD"}
            /\ t = "DATA_E" => mshr[c][l].op = "LD"
            /\ t # "DATA_DIR" \/ mshr[c][l].op = "LD" => a = 0

---------------------------------------------------------------------------
(* One line: the owner *)

\* Whoever owns the line, or will, is the recorded owner or has been asked to
\* pass it on, and only such a cache has been.
Owners(l) ==
    /\ \A c, d \in Cache : Own(c, l) /\ Own(d, l) => c = d
    /\ \A c \in Cache : Expects(c, l) =>
         (Exclusive(l) /\ dir[l].owner = c) \/ HasOwnerFwd(c, l)
    /\ \A c \in Cache : HasOwnerFwd(c, l) => Expects(c, l)
    /\ \A c \in Cache : Exclusive(l) /\ dir[l].owner = c =>
         Expects(c, l) \/ (Recalled(l) /\ WbInFlight(l))
    /\ dir[l].state \in {"I", "S"} => \A c \in Cache : ~Expects(c, l)
    /\ WbInFlight(l) => \A c \in Cache : ~Expects(c, l)

OwnerFwds(l) ==
    /\ \A c \in Cache, t, t2 \in OwnerFwd, r, r2 \in Node :
         At(c, l, t, r) /\ At(c, l, t2, r2) => t = t2 /\ r = r2
    /\ \A c, d, r \in Cache : At(c, l, "FWD_GETM", r) /\ At(d, l, "FWD_GETM", r) => c = d
    /\ \A c, d, r, r2 \in Cache : At(c, l, "FWD_GETS", r) /\ At(d, l, "FWD_GETS", r2) => c = d
    /\ \A c \in Cache, r \in Node : Exclusive(l) /\ dir[l].owner = c =>
         ~At(c, l, "FWD_GETM", r) /\ ~At(c, l, "FWD_GETS", r)
    /\ \A c, r \in Cache : At(c, l, "FWD_GETM", r) =>
         /\ mshr[r][l].op = "ST" /\ ~mshr[r][l].done /\ mshr[r][l].ack = 0
         /\ l1[r][l] \in {"IM_AD", "SM_AD"}
         /\ ~HasReq(r, l) /\ ~HasData(r, l)
    /\ \A c, r \in Cache : At(c, l, "FWD_GETS", r) =>
         /\ dir[l].state = "S_D"
         /\ r \in dir[l].sharers /\ dir[l].sharers \subseteq {c, r}
         /\ c \in dir[l].sharers \/ At(c, l, "PUT_ACK", c)
         /\ mshr[r][l].op = "LD" /\ ~mshr[r][l].done
         /\ ~HasReq(r, l) /\ ~HasData(r, l)
    /\ dir[l].state = "S_D" =>
         WbInFlight(l) \/ \E c, r \in Cache : At(c, l, "FWD_GETS", r)

\* No set of caches wait only for one another.
NoCycle(l) ==
    \A S \in SUBSET Cache :
        S # {} => \E r \in S : \A p \in S : ~At(p, l, "FWD_GETM", r)

\* Data that comes back is what the bank waits for.
WriteBacks(l) ==
    \A c, d \in Cache, v, w \in Version, a, b \in AckField :
        /\ Sent(c, HomeOf[l], l, "WB_DATA", a, v) =>
             a = 0 /\ (dir[l].state = "S_D" \/ (Recalled(l) /\ Exclusive(l)))
        /\ Sent(c, HomeOf[l], l, "WB_DATA", a, v) /\ Sent(d, HomeOf[l], l, "WB_DATA", b, w) =>
             c = d /\ v = w

---------------------------------------------------------------------------
(* One line: the sharers *)

\* A copy that may be read is being invalidated, is the owner's, or is known
\* to the bank and nobody may write.
Sharers(l) ==
    /\ \A c \in Cache : Shares(c, l) =>
         \/ HasInv(c, l)
         \/ Own(c, l)
         \/ /\ c \in dir[l].sharers /\ dir[l].state \in {"S", "S_D"}
            /\ \A p \in Cache : ~Expects(p, l)
    /\ \A c \in Cache : c \in dir[l].sharers => dir[l].state \in {"S", "S_D"}
    /\ \A c \in Cache : c \in dir[l].sharers /\ ~Recalled(l) =>
         /\ ~At(c, l, "PUT_ACK", c)
         /\ HasOwnerFwd(c, l) \/ l1[c][l] \in Invalidatable

\* Who owes r an acknowledgement.
Owed(r, l) == {c \in Cache : At(c, l, "INV", r) \/ Sent(c, r, l, "INV_ACK", 0, 0)}

\* Only the store that will own the line has copies invalidated for it.
Invs(l) ==
    \A c, r \in Cache : At(c, l, "INV", r) =>
        /\ Own(r, l) /\ mshr[r][l].op = "ST" /\ ~mshr[r][l].done
        /\ c # r /\ l1[c][l] \in Invalidatable
        /\ ~Sent(c, r, l, "INV_ACK", 0, 0)

InvAcks(l) ==
    \A c, r \in Cache, a \in AckField, v \in Version : Sent(c, r, l, "INV_ACK", a, v) =>
        a = 0 /\ v = 0 /\ Own(r, l) /\ mshr[r][l].op = "ST" /\ ~mshr[r][l].done

\* The acknowledgements owed to a store are the count it has, or will have
\* when its data arrives.
AckCounts(l) ==
    \A r \in Cache : mshr[r][l].op = "ST" /\ ~mshr[r][l].done =>
        /\ \A s \in Node, t \in DataType, a \in AckField, v \in Version :
             Sent(s, r, l, t, a, v) => Cardinality(Owed(r, l)) = mshr[r][l].ack + a
        /\ ~HasData(r, l) => Cardinality(Owed(r, l)) = mshr[r][l].ack
        /\ l1[r][l] \in {"IM_AD", "SM_AD"} => mshr[r][l].ack <= 0
        /\ l1[r][l] \in {"IM_A", "SM_A"} => mshr[r][l].ack > 0

---------------------------------------------------------------------------
(* One line: back-invalidation *)

\* Who owes the bank an answer to a recall.
RecallOwed(l) ==
    {c \in Cache : \/ At(c, l, "RECALL", HomeOf[l]) \/ At(c, l, "RECALL_INV", HomeOf[l])
                   \/ \E t \in RspToDir, v \in Version : Sent(c, HomeOf[l], l, t, 0, v)}

\* The bank waits for n answers.
RecallCount(l, n) ==
    \E i \in TbesOf(HomeOf[l], l) :
        tbe[HomeOf[l]][i].state = "INV_PEND" /\ tbe[HomeOf[l]][i].ack = n

Recalls(l) ==
    /\ Recalled(l) => dir[l].state \in {"S", "E", "M"}
    /\ \A n \in AckRange : RecallCount(l, n) => n = Cardinality(RecallOwed(l))
    /\ \A c \in Cache : At(c, l, "RECALL", HomeOf[l]) =>
         Recalled(l) /\ Exclusive(l) /\ dir[l].owner = c
    /\ \A c \in Cache : At(c, l, "RECALL_INV", HomeOf[l]) =>
         /\ Recalled(l) /\ dir[l].state = "S" /\ c \in dir[l].sharers
         /\ l1[c][l] \in Invalidatable
         /\ ~Sent(c, HomeOf[l], l, "RECALL_ACK", 0, 0)
    /\ \A c \in Cache, a \in AckField, v \in Version : Sent(c, HomeOf[l], l, "RECALL_ACK", a, v) =>
         a = 0 /\ v = 0 /\ Recalled(l) /\ dir[l].state = "S"
    /\ Recalled(l) /\ dir[l].state = "S" =>
         \A c \in Cache : Shares(c, l) => At(c, l, "RECALL_INV", HomeOf[l])

---------------------------------------------------------------------------
(* One line: its contents *)

\* Every copy that can still be used is the last store's.
Contents(l) ==
    /\ \A c \in Cache : Readable(c, l) => copy[c][l] = latest[l]
    /\ \A c \in Cache : l1[c][l] \in {"EI_A", "MI_A"} /\ Own(c, l) => copy[c][l] = latest[l]
    /\ \A c \in Cache :
         mshr[c][l].op \in {"LD", "ST"} /\ (mshr[c][l].done \/ l1[c][l] \in {"IM_A", "SM_A"}) =>
            mshr[c][l].data = latest[l]
    /\ \A c \in Cache, s \in Node, t \in DataType, a \in AckField, v \in Version :
         Sent(s, c, l, t, a, v) => v = latest[l]
    /\ \A c \in Cache, v \in Version : Sent(c, HomeOf[l], l, "WB_DATA", 0, v) => v = latest[l]
    /\ \A c \in Cache, v \in Version : Asks(c, l, "PUTM", v) /\ Own(c, l) => v = latest[l]

\* The bank's copy, and memory's, when they are what the next reader is given.
BankCopy(l) ==
    /\ ~dir[l].present => dir[l] = NoMeta /\ mem[l] = latest[l]
    /\ dir[l].present /\ dir[l].state \in {"I", "S"} => dir[l].data_valid /\ l2[l] = latest[l]
    /\ \A c \in Cache : Exclusive(l) /\ dir[l].owner = c /\ Own(c, l)
         /\ (l1[c][l] \in {"E", "EI_A"} \/ mshr[c][l].op = "LD") =>
            dir[l].state = "E" /\ l2[l] = latest[l]
    /\ Recalled(l) /\ dir[l].state = "S" =>
         binv[HomeOf[l]].wb /\ binv[HomeOf[l]].data = latest[l]

---------------------------------------------------------------------------

\* The width coh_pkg gives the counts of acknowledgements holds all caches but
\* one.
CachesFit == Cardinality(Cache) <= AckHalf

\* No line is recalled from more caches than the signed count of a recall holds:
\* from all of them, when their number is just AckHalf.
RecallsFit ==
    \A h \in Home, c \in Cache : MissesFullSet(h, c) =>
        \A l \in Victims(h) : RecallExpect(dir[l]) < AckHalf

LineInv(l) ==
    /\ MshrMatches(l) /\ Questions(l) /\ PutAcks(l) /\ DataMsgs(l)
    /\ Owners(l) /\ OwnerFwds(l) /\ NoCycle(l) /\ WriteBacks(l)
    /\ Sharers(l) /\ Invs(l) /\ InvAcks(l) /\ AckCounts(l) /\ Recalls(l)
    /\ Contents(l) /\ BankCopy(l)

IInv == TypeOK /\ Channels /\ Banks /\ \A l \in Line : LineInv(l)

---------------------------------------------------------------------------
(* Channels *)

\* A message put on a channel is one more message in flight.
LEMMA ItemsAppend ==
  ASSUME NEW M, NEW q \in Seq(M), NEW m \in M
  PROVE  Items(Append(q, m)) = Items(q) \cup {m}
<1>1. ASSUME NEW x \in Items(Append(q, m)) PROVE x \in Items(q) \cup {m}
  BY <1>1 DEF Items
<1>2. ASSUME NEW x \in Items(q) PROVE x \in Items(Append(q, m))
  <2>1. PICK i \in 1 .. Len(q) : x = q[i]
    BY <1>2 DEF Items
  <2>2. i \in 1 .. Len(Append(q, m)) /\ Append(q, m)[i] = x
    BY <2>1
  <2>. QED
    BY <2>2 DEF Items
<1>3. m \in Items(Append(q, m))
  <2>1. Len(q) + 1 \in 1 .. Len(Append(q, m)) /\ Append(q, m)[Len(q) + 1] = m
    OBVIOUS
  <2>. QED
    BY <2>1 DEF Items
<1>. QED
  BY <1>1, <1>2, <1>3

\* Taking the head of a channel without duplicates takes just that message.
LEMMA ItemsTail ==
  ASSUME NEW M, NEW q \in Seq(M), q # <<>>, Distinct(q)
  PROVE  /\ Items(Tail(q)) = Items(q) \ {Head(q)}
         /\ Head(q) \in Items(q)
         /\ Distinct(Tail(q))
<1>1. /\ Tail(q) \in Seq(M) /\ Len(Tail(q)) = Len(q) - 1 /\ Len(q) \in Nat \ {0}
      /\ \A i \in 1 .. Len(Tail(q)) : i + 1 \in 1 .. Len(q) /\ Tail(q)[i] = q[i + 1]
      /\ 1 \in 1 .. Len(q) /\ Head(q) = q[1]
  OBVIOUS
<1>2. \A i \in 1 .. Len(q) : i # 1 => i - 1 \in 1 .. Len(Tail(q)) /\ Tail(q)[i - 1] = q[i]
  BY <1>1
<1>3. ASSUME NEW x \in Items(Tail(q)) PROVE x \in Items(q) \ {Head(q)}
  <2>1. PICK i \in 1 .. Len(Tail(q)) : x = Tail(q)[i]
    BY <1>3 DEF Items
  <2>2. i + 1 \in 1 .. Len(q) /\ x = q[i + 1] /\ i + 1 # 1
    BY <1>1, <2>1
  <2>. QED
    BY <1>1, <2>2 DEF Items, Distinct
<1>4. ASSUME NEW x \in Items(q), x # Head(q) PROVE x \in Items(Tail(q))
  <2>1. PICK i \in 1 .. Len(q) : x = q[i]
    BY <1>4 DEF Items
  <2>2. i # 1
    BY <2>1, <1>1, <1>4
  <2>. QED
    BY <1>2, <2>1, <2>2 DEF Items
<1>5. Head(q) \in Items(q)
  BY <1>1 DEF Items
<1>6. Distinct(Tail(q))
  <2>. SUFFICES ASSUME NEW i \in 1 .. Len(Tail(q)), NEW j \in 1 .. Len(Tail(q)),
                       Tail(q)[i] = Tail(q)[j]
                PROVE  i = j
    BY DEF Distinct
  <2>1. i + 1 = j + 1
    BY <1>1 DEF Distinct
  <2>. QED
    BY <2>1
<1>. QED
  BY <1>3, <1>4, <1>5, <1>6

\* A channel gains no duplicate by a message it does not hold.
LEMMA DistinctAppend ==
  ASSUME NEW M, NEW q \in Seq(M), Distinct(q), NEW m \in M, m \notin Items(q)
  PROVE  Distinct(Append(q, m))
<1>. SUFFICES ASSUME NEW i \in 1 .. Len(q) + 1, NEW j \in 1 .. Len(q) + 1,
                     Append(q, m)[i] = Append(q, m)[j]
              PROVE  i = j
  BY DEF Distinct
<1>1. \A k \in 1 .. Len(q) + 1 :
         \/ k \in 1 .. Len(q) /\ Append(q, m)[k] = q[k] /\ q[k] \in Items(q)
         \/ k = Len(q) + 1 /\ Append(q, m)[k] = m
  BY DEF Items
<1>. QED
  BY <1>1 DEF Distinct

\* A forward is its type, its line and its requester.
LEMMA ForwardEq ==
  ASSUME NEW t, NEW l, NEW r, NEW t2, NEW k, NEW r2
  PROVE  /\ Forward(t, l, r) = Forward(t2, k, r2) <=> t = t2 /\ l = k /\ r = r2
         /\ Forward(t, l, r).type = t
         /\ Forward(t, l, r).line = l
         /\ Forward(t, l, r).requester = r
BY DEF Forward

\* A response is its type, its line, its count and its data.
LEMMA ResponseEq ==
  ASSUME NEW t, NEW l, NEW a, NEW v, NEW t2, NEW k, NEW a2, NEW v2
  PROVE  /\ Response(t, l, a, v) = Response(t2, k, a2, v2)
              <=> t = t2 /\ l = k /\ a = a2 /\ v = v2
         /\ Response(t, l, a, v).type = t
         /\ Response(t, l, a, v).line = l
         /\ Response(t, l, a, v).ack = a
         /\ Response(t, l, a, v).data = v
BY DEF Response

\* A request is its type, its line and its data.
LEMMA RequestEq ==
  ASSUME NEW t, NEW l, NEW v, NEW t2, NEW k, NEW v2
  PROVE  /\ Request(t, l, v) = Request(t2, k, v2) <=> t = t2 /\ l = k /\ v = v2
         /\ Request(t, l, v).type = t
         /\ Request(t, l, v).line = l
         /\ Request(t, l, v).data = v
BY DEF Request

\* A channel loses its head, or gains a message.
FwdTaken(h, c, m) ==
    /\ TypeOK /\ FwdChannels /\ c \in Cache /\ h \in Home
    /\ fwd[h][c] # <<>> /\ m = Head(fwd[h][c]) /\ fwd' = [fwd EXCEPT ![h][c] = Tail(@)]
ReqTaken(c, h, m) ==
    /\ TypeOK /\ ReqChannels /\ c \in Cache /\ h \in Home
    /\ req[c][h] # <<>> /\ m = Head(req[c][h]) /\ req' = [req EXCEPT ![c][h] = Tail(@)]
ReqSent(c, l, t, v) == req' = [req EXCEPT ![c][HomeOf[l]] = Append(@, Request(t, l, v))]
RspTail(s, d) == [rsp EXCEPT ![s][d] = Tail(@)]

\* A bank queues one forward for each of a set of caches: those forwards are
\* in flight besides what was, and the VN1 channels are as they must be.
LEMMA SendFwdEffect ==
  ASSUME TypeOK, FwdChannels, NEW l \in Line, NEW ds, NEW t0 \in FwdType, NEW r0 \in Node,
         \A c \in Cache : c \in ds => /\ ~At(c, l, t0, r0)
                                      /\ ~At(c, l, "PUT_ACK", c)
                                      /\ OnBehalf(Forward(t0, l, r0), HomeOf[l], c),
         fwd' = SendFwd(HomeOf[l], ds, Forward(t0, l, r0))
  PROVE  /\ \A c \in Cache, k \in Line : \A t, r :
              At(c, k, t, r)' <=> At(c, k, t, r) \/ (k = l /\ c \in ds /\ t = t0 /\ r = r0)
         /\ FwdChannels'
<1>. DEFINE h == HomeOf[l]
            m == Forward(t0, l, r0)
<1>1. h \in Home /\ m \in FwdMsg /\ \A k \in Line : HomeOf[k] \in Home
  BY TopologyAssumption DEF FwdMsg, Forward
<1>2. fwd \in [Home -> [Cache -> Seq(FwdMsg)]]
  BY DEF TypeOK
<1>3. \A g \in Home, c \in Cache :
         fwd'[g][c] = IF g = h /\ c \in ds THEN Append(fwd[g][c], m) ELSE fwd[g][c]
  BY <1>1, <1>2 DEF SendFwd
<1>4. \A g \in Home, c \in Cache :
         Items(fwd'[g][c]) = IF g = h /\ c \in ds THEN Items(fwd[g][c]) \cup {m} ELSE Items(fwd[g][c])
  <2>. SUFFICES ASSUME NEW g \in Home, NEW c \in Cache
                PROVE  Items(fwd'[g][c]) = IF g = h /\ c \in ds
                                           THEN Items(fwd[g][c]) \cup {m} ELSE Items(fwd[g][c])
    OBVIOUS
  <2>1. Items(Append(fwd[g][c], m)) = Items(fwd[g][c]) \cup {m}
    BY <1>1, <1>2, ItemsAppend
  <2>2. CASE g = h /\ c \in ds
    <3>1. fwd'[g][c] = Append(fwd[g][c], m)
      BY <1>3, <2>2
    <3>. QED
      BY <2>1, <2>2, <3>1
  <2>3. CASE ~(g = h /\ c \in ds)
    BY <1>3, <2>3
  <2>. QED
    BY <2>2, <2>3
<1>5. ASSUME NEW c \in Cache, NEW k \in Line, NEW t, NEW r
      PROVE  At(c, k, t, r)' <=> At(c, k, t, r) \/ (k = l /\ c \in ds /\ t = t0 /\ r = r0)
  <2>1. At(c, k, t, r)' <=> Forward(t, k, r) \in Items(fwd'[HomeOf[k]][c])
    BY DEF At
  <2>2. At(c, k, t, r) <=> Forward(t, k, r) \in Items(fwd[HomeOf[k]][c])
    BY DEF At
  <2>3. Forward(t, k, r) = m <=> t = t0 /\ k = l /\ r = r0
    BY ForwardEq
  <2>. QED
    BY <1>1, <1>4, <2>1, <2>2, <2>3
<1>6. ASSUME NEW c \in Cache, NEW g \in Home
      PROVE  /\ Distinct(fwd'[g][c]) /\ PutAckLast(fwd'[g][c])
             /\ \A x \in Items(fwd'[g][c]) : HomeOf[x.line] = g /\ OnBehalf(x, g, c)
  <2>1. /\ Distinct(fwd[g][c]) /\ PutAckLast(fwd[g][c])
        /\ \A x \in Items(fwd[g][c]) : HomeOf[x.line] = g /\ OnBehalf(x, g, c)
    BY DEF FwdChannels
  <2>2. CASE g = h /\ c \in ds
    <3>. DEFINE q == fwd[g][c]
    <3>1. q \in Seq(FwdMsg) /\ fwd'[g][c] = Append(q, m) /\ m \notin Items(q)
      BY <1>1, <1>2, <1>3, <2>2 DEF At
    <3>2. Distinct(Append(q, m))
      BY <1>1, <2>1, <3>1, DistinctAppend
    <3>3. \A x \in Items(q) \cup {m} : HomeOf[x.line] = g /\ OnBehalf(x, g, c)
      BY <2>1, <2>2, ForwardEq
    <3>4. \A x \in Items(q) : x.line = l => x.type # "PUT_ACK"
      <4>. SUFFICES ASSUME NEW x \in Items(q), x.line = l, x.type = "PUT_ACK" PROVE FALSE
        OBVIOUS
      <4>1. x \in FwdMsg /\ x.requester = c
        BY <2>1, <3>1 DEF Items, OnBehalf
      <4>2. x = Forward("PUT_ACK", l, c)
        BY <4>1 DEF FwdMsg, Forward
      <4>. QED
        BY <2>2, <4>2 DEF At
    <3>5. PutAckLast(Append(q, m))
      <4>. SUFFICES ASSUME NEW i \in 1 .. Len(q) + 1, NEW j \in 1 .. Len(q) + 1, i < j,
                           Append(q, m)[i].line = Append(q, m)[j].line,
                           Append(q, m)[i].type = "PUT_ACK"
                    PROVE  FALSE
        BY <3>1 DEF PutAckLast
      <4>1. i \in 1 .. Len(q) /\ Append(q, m)[i] = q[i] /\ q[i] \in Items(q)
        BY <3>1 DEF Items
      <4>2. CASE j = Len(q) + 1
        BY <3>1, <3>4, <4>1, <4>2, ForwardEq
      <4>3. CASE j \in 1 .. Len(q)
        BY <2>1, <3>1, <4>1, <4>3 DEF PutAckLast
      <4>. QED
        BY <3>1, <4>2, <4>3
    <3>. QED
      BY <1>4, <2>2, <3>1, <3>2, <3>3, <3>5
  <2>3. CASE ~(g = h /\ c \in ds)
    BY <1>3, <2>1, <2>3
  <2>. QED
    BY <2>2, <2>3
<1>. QED
  BY <1>5, <1>6 DEF FwdChannels

\* A cache takes the head of a VN1 channel: just that forward is gone, and when
\* it was a PutAck nothing else about its line is in flight to that cache.
LEMMA TakeFwdEffect ==
  ASSUME NEW c, NEW h, NEW m, FwdTaken(h, c, m)
  PROVE  /\ m \in FwdMsg /\ HomeOf[m.line] = h /\ OnBehalf(m, h, c)
         /\ At(c, m.line, m.type, m.requester)
         /\ \A d \in Cache, k \in Line : \A t, r :
              At(d, k, t, r)' <=> At(d, k, t, r)
                                    /\ ~(d = c /\ k = m.line /\ t = m.type /\ r = m.requester)
         /\ m.type = "PUT_ACK" => \A t, r : At(c, m.line, t, r) => t = "PUT_ACK" /\ r = c
         /\ FwdChannels'
<1>. DEFINE q == fwd[h][c]
<1>. /\ TypeOK /\ FwdChannels /\ c \in Cache /\ h \in Home
     /\ fwd[h][c] # <<>> /\ m = Head(fwd[h][c])
  BY DEF FwdTaken
<1>1. fwd \in [Home -> [Cache -> Seq(FwdMsg)]] /\ q \in Seq(FwdMsg) /\ q # <<>>
  BY DEF TypeOK, FwdTaken
<1>2. /\ Distinct(q) /\ PutAckLast(q)
      /\ \A x \in Items(q) : HomeOf[x.line] = h /\ OnBehalf(x, h, c)
  BY DEF FwdChannels
<1>3. /\ Items(Tail(q)) = Items(q) \ {m} /\ m \in Items(q) /\ Distinct(Tail(q))
  BY <1>1, <1>2, ItemsTail
<1>4. m \in FwdMsg /\ m = q[1]
  BY <1>1
<1>5. m = Forward(m.type, m.line, m.requester)
  BY <1>4 DEF FwdMsg, Forward
<1>6. \A g \in Home, d \in Cache :
         fwd'[g][d] = IF g = h /\ d = c THEN Tail(q) ELSE fwd[g][d]
  BY <1>1 DEF FwdTaken
<1>7. m.line \in Line /\ HomeOf[m.line] = h /\ OnBehalf(m, h, c)
  BY <1>2, <1>3, <1>4 DEF FwdMsg
<1>8. At(c, m.line, m.type, m.requester)
  BY <1>3, <1>5, <1>7 DEF At
<1>9. ASSUME NEW d \in Cache, NEW k \in Line, NEW t, NEW r
      PROVE  At(d, k, t, r)' <=> At(d, k, t, r)
                                   /\ ~(d = c /\ k = m.line /\ t = m.type /\ r = m.requester)
  <2>1. At(d, k, t, r)' <=> Forward(t, k, r) \in Items(fwd'[HomeOf[k]][d])
    BY DEF At
  <2>2. At(d, k, t, r) <=> Forward(t, k, r) \in Items(fwd[HomeOf[k]][d])
    BY DEF At
  <2>3. Forward(t, k, r) = m <=> t = m.type /\ k = m.line /\ r = m.requester
    BY <1>5, ForwardEq
  <2>4. HomeOf[k] \in Home
    BY TopologyAssumption
  <2>. HIDE DEF q
  <2>. QED
    BY <1>3, <1>6, <1>7, <2>1, <2>2, <2>3, <2>4 DEF q
<1>10. ASSUME m.type = "PUT_ACK", NEW t, NEW r, At(c, m.line, t, r)
       PROVE  t = "PUT_ACK" /\ r = c
  <2>1. PICK j \in 1 .. Len(q) : q[j] = Forward(t, m.line, r)
    BY <1>7, <1>10 DEF At, Items
  <2>2. 1 \in 1 .. Len(q)
    BY <1>1
  <2>3. q[j].line = m.line
    BY <2>1, ForwardEq
  <2>4. ~(1 < j)
    BY <1>2, <1>4, <1>10, <2>2, <2>3 DEF PutAckLast
  <2>5. q[j] = m
    BY <1>1, <1>4, <2>1, <2>4
  <2>6. t = m.type /\ r = m.requester
    BY <1>5, <2>1, <2>5, ForwardEq
  <2>. QED
    BY <1>7, <1>10, <2>6 DEF OnBehalf
<1>11. PutAckLast(Tail(q))
  <2>. SUFFICES ASSUME NEW i \in 1 .. Len(Tail(q)), NEW j \in 1 .. Len(Tail(q)), i < j,
                       Tail(q)[i].line = Tail(q)[j].line
                PROVE  Tail(q)[i].type # "PUT_ACK"
    BY DEF PutAckLast
  <2>1. /\ i + 1 \in 1 .. Len(q) /\ j + 1 \in 1 .. Len(q) /\ i + 1 < j + 1
        /\ Tail(q)[i] = q[i + 1] /\ Tail(q)[j] = q[j + 1]
    BY <1>1
  <2>. QED
    BY <1>2, <2>1 DEF PutAckLast
<1>12. FwdChannels'
  <2>. SUFFICES ASSUME NEW d \in Cache, NEW g \in Home
                PROVE  /\ Distinct(fwd'[g][d]) /\ PutAckLast(fwd'[g][d])
                       /\ \A x \in Items(fwd'[g][d]) : HomeOf[x.line] = g /\ OnBehalf(x, g, d)
    BY DEF FwdChannels
  <2>. HIDE DEF q
  <2>1. CASE g = h /\ d = c
    BY <1>2, <1>3, <1>6, <1>11, <2>1
  <2>2. CASE ~(g = h /\ d = c)
    BY <1>6, <2>2 DEF FwdChannels
  <2>. QED
    BY <2>1, <2>2
<1>. QED
  BY <1>4, <1>7, <1>8, <1>9, <1>10, <1>12

\* Response t with count a and data v about line l may be queued from s to d.
CanSend(q, s, d, l, t, a, v) ==
    /\ q \in [Node -> [Node -> Seq(RspMsg)]] /\ RspChannels(q)
    /\ s \in Node /\ d \in Node /\ l \in Line /\ t \in RspType /\ a \in AckField /\ v \in Version
    /\ ~InRsp(q, s, d, l, t, a, v) /\ RspFits(s, d, Response(t, l, a, v))

\* q2 is q with that response queued.
Queued(q, q2, s, d, l, t, a, v) ==
    /\ \A s2, d2 \in Node, k \in Line : \A t2, a2, v2 :
         InRsp(q2, s2, d2, k, t2, a2, v2) <=>
           \/ InRsp(q, s2, d2, k, t2, a2, v2)
           \/ s2 = s /\ d2 = d /\ k = l /\ t2 = t /\ a2 = a /\ v2 = v
    /\ RspChannels(q2)
    /\ q2 \in [Node -> [Node -> Seq(RspMsg)]]

\* A response queued on VN2 is in flight besides what was.
LEMMA SendRspEffect ==
  ASSUME NEW q, NEW s, NEW d, NEW l, NEW t0, NEW a0, NEW v0, CanSend(q, s, d, l, t0, a0, v0)
  PROVE  Queued(q, SendRsp(q, s, d, Response(t0, l, a0, v0)), s, d, l, t0, a0, v0)
<1>. SUFFICES ASSUME NEW q2, q2 = SendRsp(q, s, d, Response(t0, l, a0, v0))
              PROVE  Queued(q, q2, s, d, l, t0, a0, v0)
  OBVIOUS
<1>. /\ q \in [Node -> [Node -> Seq(RspMsg)]] /\ RspChannels(q)
     /\ s \in Node /\ d \in Node /\ l \in Line /\ t0 \in RspType /\ a0 \in AckField /\ v0 \in Version
     /\ ~InRsp(q, s, d, l, t0, a0, v0) /\ RspFits(s, d, Response(t0, l, a0, v0))
  BY DEF CanSend
<1>. DEFINE m == Response(t0, l, a0, v0)
<1>1. m \in RspMsg
  BY DEF RspMsg, Response
<1>2. q2 \in [Node -> [Node -> Seq(RspMsg)]]
  BY <1>1, SendRspType
<1>3. \A s2, d2 \in Node :
         q2[s2][d2] = IF s2 = s /\ d2 = d THEN Append(q[s][d], m) ELSE q[s2][d2]
  BY DEF SendRsp
<1>4. /\ Items(Append(q[s][d], m)) = Items(q[s][d]) \cup {m}
      /\ Distinct(Append(q[s][d], m))
  <2>1. m \notin Items(q[s][d]) /\ Distinct(q[s][d])
    BY DEF InRsp, RspChannels
  <2>. QED
    BY <1>1, <2>1, ItemsAppend, DistinctAppend
<1>5. ASSUME NEW s2 \in Node, NEW d2 \in Node
      PROVE  /\ \A k \in Line : \A t, a, v : InRsp(q2, s2, d2, k, t, a, v) <=>
                  \/ InRsp(q, s2, d2, k, t, a, v)
                  \/ s2 = s /\ d2 = d /\ k = l /\ t = t0 /\ a = a0 /\ v = v0
             /\ Distinct(q2[s2][d2])
             /\ \A x \in Items(q2[s2][d2]) : RspFits(s2, d2, x)
  <2>1. CASE s2 = s /\ d2 = d
    <3>1. q2[s2][d2] = Append(q[s][d], m)
      BY <1>3, <2>1
    <3>2. \A k \in Line : \A t, a, v : Response(t, k, a, v) = m <=> k = l /\ t = t0 /\ a = a0 /\ v = v0
      BY ResponseEq, SMTT(30)
    <3>. HIDE DEF m
    <3>3. Items(q2[s2][d2]) = Items(q[s2][d2]) \cup {m}
      BY <1>4, <2>1, <3>1
    <3>4. \A k \in Line : \A t, a, v : InRsp(q2, s2, d2, k, t, a, v) <=>
                  \/ InRsp(q, s2, d2, k, t, a, v)
                  \/ k = l /\ t = t0 /\ a = a0 /\ v = v0
      BY <3>2, <3>3 DEF InRsp
    <3>5. RspFits(s2, d2, m)
      BY <2>1 DEF m
    <3>6. \A x \in Items(q[s2][d2]) : RspFits(s2, d2, x)
      BY DEF RspChannels
    <3>. QED
      BY <1>4, <2>1, <3>1, <3>3, <3>4, <3>5, <3>6
  <2>2. CASE ~(s2 = s /\ d2 = d)
    <3>1. q2[s2][d2] = q[s2][d2]
      BY <1>3, <2>2
    <3>. QED
      BY <2>2, <3>1 DEF InRsp, RspChannels
  <2>. QED
    BY <2>1, <2>2
<1>. QED
  BY <1>2, <1>5 DEF RspChannels, Queued

\* m is taken from s at d, which leaves q2.
TakesRsp(s, d, m, q2) ==
    /\ TypeOK /\ RspChannels(rsp) /\ s \in Node /\ d \in Node
    /\ rsp[s][d] # <<>> /\ m = Head(rsp[s][d]) /\ q2 = RspTail(s, d)

\* The head of a VN2 channel is taken: just that response is gone.
LEMMA TakeRspEffect ==
  ASSUME NEW s, NEW d, NEW m, NEW q2, TakesRsp(s, d, m, q2)
  PROVE  /\ m \in RspMsg /\ RspFits(s, d, m)
         /\ InRsp(rsp, s, d, m.line, m.type, m.ack, m.data)
         /\ \A s2, d2 \in Node, k \in Line : \A t, a, v :
              InRsp(q2, s2, d2, k, t, a, v) <=>
                /\ InRsp(rsp, s2, d2, k, t, a, v)
                /\ ~(s2 = s /\ d2 = d /\ k = m.line /\ t = m.type /\ a = m.ack /\ v = m.data)
         /\ RspChannels(q2)
         /\ q2 \in [Node -> [Node -> Seq(RspMsg)]]
<1>. /\ TypeOK /\ RspChannels(rsp) /\ s \in Node /\ d \in Node
     /\ rsp[s][d] # <<>> /\ m = Head(rsp[s][d]) /\ q2 = RspTail(s, d)
  BY DEF TakesRsp
<1>1. /\ rsp \in [Node -> [Node -> Seq(RspMsg)]] /\ rsp[s][d] \in Seq(RspMsg)
  BY DEF TypeOK
<1>2. Distinct(rsp[s][d]) /\ \A x \in Items(rsp[s][d]) : RspFits(s, d, x)
  BY DEF RspChannels
<1>3. /\ Items(Tail(rsp[s][d])) = Items(rsp[s][d]) \ {m} /\ m \in Items(rsp[s][d])
      /\ Distinct(Tail(rsp[s][d]))
  BY <1>1, <1>2, ItemsTail
<1>4. m \in RspMsg /\ Tail(rsp[s][d]) \in Seq(RspMsg)
  BY <1>1
<1>5. m = Response(m.type, m.line, m.ack, m.data)
  BY <1>4 DEF RspMsg, Response
<1>6. \A s2, d2 \in Node :
         q2[s2][d2] = IF s2 = s /\ d2 = d THEN Tail(rsp[s][d]) ELSE rsp[s2][d2]
  BY <1>1 DEF RspTail
<1>7. q2 \in [Node -> [Node -> Seq(RspMsg)]]
  BY <1>1, <1>4 DEF RspTail
<1>8. ASSUME NEW s2 \in Node, NEW d2 \in Node
      PROVE  /\ \A k \in Line : \A t, a, v : InRsp(q2, s2, d2, k, t, a, v) <=>
                  /\ InRsp(rsp, s2, d2, k, t, a, v)
                  /\ ~(s2 = s /\ d2 = d /\ k = m.line /\ t = m.type /\ a = m.ack /\ v = m.data)
             /\ Distinct(q2[s2][d2])
             /\ \A x \in Items(q2[s2][d2]) : RspFits(s2, d2, x)
  <2>1. CASE s2 = s /\ d2 = d
    <3>1. q2[s2][d2] = Tail(rsp[s2][d2])
      BY <1>6, <2>1
    <3>2. \A k \in Line : \A t, a, v : Response(t, k, a, v) = m
             <=> k = m.line /\ t = m.type /\ a = m.ack /\ v = m.data
      BY <1>5, ResponseEq
    <3>3. Items(q2[s2][d2]) = Items(rsp[s2][d2]) \ {m}
      BY <1>3, <2>1, <3>1
    <3>4. \A k \in Line : \A t, a, v : InRsp(q2, s2, d2, k, t, a, v) <=>
                  /\ InRsp(rsp, s2, d2, k, t, a, v)
                  /\ ~(k = m.line /\ t = m.type /\ a = m.ack /\ v = m.data)
      BY <3>2, <3>3 DEF InRsp
    <3>. QED
      BY <1>2, <1>3, <2>1, <3>1, <3>3, <3>4
  <2>2. CASE ~(s2 = s /\ d2 = d)
    <3>1. q2[s2][d2] = rsp[s2][d2]
      BY <1>6, <2>2
    <3>. QED
      BY <2>2, <3>1 DEF InRsp, RspChannels
  <2>. QED
    BY <2>1, <2>2
<1>9. InRsp(rsp, s, d, m.line, m.type, m.ack, m.data)
  BY <1>3, <1>5 DEF InRsp
<1>. QED
  BY <1>2, <1>3, <1>4, <1>7, <1>8, <1>9 DEF RspChannels

\* A request queued on VN0 is in flight besides what was.
LEMMA SendReqEffect ==
  ASSUME TypeOK, ReqChannels, NEW c \in Cache, NEW l \in Line, NEW t0 \in ReqType,
         NEW v0 \in Version, ~Asks(c, l, t0, v0),
         ReqSent(c, l, t0, v0)
  PROVE  /\ \A d \in Cache, k \in Line : \A t, v :
              Asks(d, k, t, v)' <=> Asks(d, k, t, v) \/ (d = c /\ k = l /\ t = t0 /\ v = v0)
         /\ ReqChannels'
<1>. DEFINE h == HomeOf[l]
            m == Request(t0, l, v0)
<1>1. h \in Home /\ m \in ReqMsg /\ \A k \in Line : HomeOf[k] \in Home
  BY TopologyAssumption DEF ReqMsg, Request
<1>2. req \in [Cache -> [Home -> Seq(ReqMsg)]] /\ req[c][h] \in Seq(ReqMsg)
  BY <1>1 DEF TypeOK
<1>3. \A d \in Cache, g \in Home :
         req'[d][g] = IF d = c /\ g = h THEN Append(req[c][h], m) ELSE req[d][g]
  BY <1>1, <1>2 DEF ReqSent
<1>4. /\ Items(Append(req[c][h], m)) = Items(req[c][h]) \cup {m}
      /\ Distinct(Append(req[c][h], m))
  <2>1. m \notin Items(req[c][h]) /\ Distinct(req[c][h])
    BY <1>1 DEF Asks, ReqChannels
  <2>. QED
    BY <1>1, <1>2, <2>1, ItemsAppend, DistinctAppend
<1>5. \A k \in Line : \A t, v : Request(t, k, v) = m <=> k = l /\ t = t0 /\ v = v0
  BY RequestEq
<1>6. m.line = l
  BY RequestEq
<1>. HIDE DEF h, m
<1>7. ASSUME NEW d \in Cache, NEW g \in Home
      PROVE  /\ \A x : x \in Items(req'[d][g]) <=>
                   x \in Items(req[d][g]) \/ (d = c /\ g = h /\ x = m)
             /\ Distinct(req'[d][g])
  <2>1. CASE d = c /\ g = h
    BY <1>3, <1>4, <2>1
  <2>2. CASE ~(d = c /\ g = h)
    BY <1>3, <2>2 DEF ReqChannels
  <2>. QED
    BY <2>1, <2>2
<1>8. ASSUME NEW d \in Cache, NEW k \in Line, NEW t, NEW v
      PROVE  Asks(d, k, t, v)' <=> Asks(d, k, t, v) \/ (d = c /\ k = l /\ t = t0 /\ v = v0)
  <2>1. Asks(d, k, t, v)' <=> Request(t, k, v) \in Items(req'[d][HomeOf[k]])
    BY DEF Asks
  <2>2. Asks(d, k, t, v) <=> Request(t, k, v) \in Items(req[d][HomeOf[k]])
    BY DEF Asks
  <2>3. HomeOf[k] \in Home
    BY TopologyAssumption
  <2>4. Asks(d, k, t, v)' <=> Asks(d, k, t, v) \/ (d = c /\ HomeOf[k] = h /\ Request(t, k, v) = m)
    BY <1>7, <2>1, <2>2, <2>3
  <2>5. k = l => HomeOf[k] = h
    BY DEF h
  <2>. QED
    BY <1>5, <2>4, <2>5
<1>9. ReqChannels'
  BY <1>6, <1>7 DEF ReqChannels, h
<1>. QED
  BY <1>8, <1>9

\* The head of a VN0 channel is taken: just that request is gone.
LEMMA TakeReqEffect ==
  ASSUME NEW c, NEW h, NEW m, ReqTaken(c, h, m)
  PROVE  /\ m \in ReqMsg /\ HomeOf[m.line] = h
         /\ Asks(c, m.line, m.type, m.data)
         /\ \A d \in Cache, k \in Line : \A t, v :
              Asks(d, k, t, v)' <=> Asks(d, k, t, v)
                                      /\ ~(d = c /\ k = m.line /\ t = m.type /\ v = m.data)
         /\ ReqChannels'
<1>. /\ TypeOK /\ ReqChannels /\ c \in Cache /\ h \in Home
     /\ req[c][h] # <<>> /\ m = Head(req[c][h])
  BY DEF ReqTaken
<1>1. req \in [Cache -> [Home -> Seq(ReqMsg)]] /\ req[c][h] \in Seq(ReqMsg) /\ req[c][h] # <<>>
  BY DEF TypeOK, ReqTaken
<1>2. Distinct(req[c][h]) /\ \A x \in Items(req[c][h]) : HomeOf[x.line] = h
  BY DEF ReqChannels
<1>3. /\ Items(Tail(req[c][h])) = Items(req[c][h]) \ {m} /\ m \in Items(req[c][h])
      /\ Distinct(Tail(req[c][h]))
  BY <1>1, <1>2, ItemsTail
<1>4. m \in ReqMsg
  BY <1>1
<1>5. m = Request(m.type, m.line, m.data)
  BY <1>4 DEF ReqMsg, Request
<1>6. \A d \in Cache, g \in Home :
         req'[d][g] = IF d = c /\ g = h THEN Tail(req[c][h]) ELSE req[d][g]
  BY <1>1 DEF ReqTaken
<1>7. m.line \in Line /\ HomeOf[m.line] = h
  BY <1>2, <1>3, <1>4 DEF ReqMsg
<1>8. ASSUME NEW d \in Cache, NEW g \in Home
      PROVE  /\ \A x : x \in Items(req'[d][g]) <=>
                   x \in Items(req[d][g]) /\ ~(d = c /\ g = h /\ x = m)
             /\ Distinct(req'[d][g])
  <2>1. CASE d = c /\ g = h
    BY <1>3, <1>6, <2>1
  <2>2. CASE ~(d = c /\ g = h)
    BY <1>6, <2>2 DEF ReqChannels
  <2>. QED
    BY <2>1, <2>2
<1>9. ASSUME NEW d \in Cache, NEW k \in Line, NEW t, NEW v
      PROVE  Asks(d, k, t, v)' <=> Asks(d, k, t, v)
                                     /\ ~(d = c /\ k = m.line /\ t = m.type /\ v = m.data)
  <2>1. Asks(d, k, t, v)' <=> Request(t, k, v) \in Items(req'[d][HomeOf[k]])
    BY DEF Asks
  <2>2. Asks(d, k, t, v) <=> Request(t, k, v) \in Items(req[d][HomeOf[k]])
    BY DEF Asks
  <2>3. Request(t, k, v) = m <=> t = m.type /\ k = m.line /\ v = m.data
    BY <1>5, RequestEq
  <2>4. HomeOf[k] \in Home
    BY TopologyAssumption
  <2>. QED
    BY <1>7, <1>8, <2>1, <2>2, <2>3, <2>4
<1>10. ReqChannels'
  BY <1>8 DEF ReqChannels
<1>11. Asks(c, m.line, m.type, m.data)
  BY <1>3, <1>5, <1>7 DEF Asks
<1>. QED
  BY <1>4, <1>7, <1>9, <1>10, <1>11

---------------------------------------------------------------------------
(* What a step leaves alone *)

SameAsks(l) == \A c \in Cache : \A t, v : Asks(c, l, t, v)' <=> Asks(c, l, t, v)
SameAt(l) == \A c \in Cache : \A t, r : At(c, l, t, r)' <=> At(c, l, t, r)
SameSent(l) == \A s, d \in Node : \A t, a, v : Sent(s, d, l, t, a, v)' <=> Sent(s, d, l, t, a, v)
SameCaches(l) ==
    \A c \in Cache : l1'[c][l] = l1[c][l] /\ mshr'[c][l] = mshr[c][l] /\ copy'[c][l] = copy[c][l]
SameBank(l) ==
    /\ dir'[l] = dir[l] /\ l2'[l] = l2[l] /\ mem'[l] = mem[l]
SameRecall(l) ==
    /\ Recalled(l)' <=> Recalled(l)
    /\ \A n : RecallCount(l, n)' <=> RecallCount(l, n)
    /\ Recalled(l) => binv'[HomeOf[l]] = binv[HomeOf[l]]

SameLine(l) ==
    /\ SameAsks(l) /\ SameAt(l) /\ SameSent(l) /\ SameCaches(l) /\ SameBank(l) /\ SameRecall(l)
    /\ latest'[l] = latest[l]

\* A cache whose requests stay has as many of them.
LEMMA AsksFrame ==
  ASSUME NEW l \in Line, SameAsks(l)
  PROVE  \A c \in Cache : HasReq(c, l)' <=> HasReq(c, l)
BY DEF SameAsks, HasReq

\* What is said of the forwards of a line stays when they do.
LEMMA AtFrame ==
  ASSUME NEW l \in Line, SameAt(l)
  PROVE  \A c \in Cache : /\ HasOwnerFwd(c, l)' <=> HasOwnerFwd(c, l)
                          /\ HasInv(c, l)' <=> HasInv(c, l)
                          /\ Waits(c, l)' <=> Waits(c, l)
BY DEF SameAt, HasOwnerFwd, HasInv, Waits

\* Caches and banks are nodes, and no bank is a cache.
LEMMA NodeSets ==
  /\ Cache \subseteq Node /\ Home \subseteq Node
  /\ \A l \in Line : HomeOf[l] \in Node /\ HomeOf[l] \in Home /\ HomeOf[l] \notin Cache
BY TopologyAssumption DEF Node

\* The count and the version a message without them carries.
LEMMA ZeroTypes == 0 \in AckField /\ 0 \in Version
BY VersionType, SizeAssumption DEF AckField

\* What is said of the responses about a line stays when they do.
LEMMA SentFrame ==
  ASSUME NEW l \in Line, SameSent(l)
  PROVE  /\ \A c \in Cache : /\ HasData(c, l)' <=> HasData(c, l)
                             /\ HasDataE(c, l)' <=> HasDataE(c, l)
         /\ WbInFlight(l)' <=> WbInFlight(l)
BY NodeSets DEF SameSent, HasData, HasDataE, WbInFlight

\* Who holds a line, or will, stays when the cache and its messages do.
LEMMA HoldersFrame ==
  ASSUME NEW l \in Line, SameAsks(l), SameAt(l), SameSent(l), NEW c \in Cache,
         l1'[c][l] = l1[c][l], mshr'[c][l] = mshr[c][l]
  PROVE  /\ Own(c, l)' <=> Own(c, l)
         /\ Expects(c, l)' <=> Expects(c, l)
         /\ Shares(c, l)' <=> Shares(c, l)
<1>1. Own(c, l)' <=> Own(c, l)
  BY AsksFrame, AtFrame, SentFrame DEF Own
<1>2. Shares(c, l)' <=> Shares(c, l)
  BY SentFrame DEF Shares
<1>. QED
  BY <1>1, <1>2, AtFrame DEF Expects

\* What must hold of a line holds when nothing about it has changed.
LEMMA LineFrame ==
  ASSUME NEW l \in Line, LineInv(l), SameLine(l)
  PROVE  LineInv(l)'
<1>1. /\ SameAsks(l) /\ SameAt(l) /\ SameSent(l)
      /\ \A c \in Cache : l1'[c][l] = l1[c][l] /\ mshr'[c][l] = mshr[c][l] /\ copy'[c][l] = copy[c][l]
      /\ dir'[l] = dir[l] /\ l2'[l] = l2[l] /\ mem'[l] = mem[l] /\ latest'[l] = latest[l]
      /\ SameRecall(l)
  BY DEF SameLine, SameCaches, SameBank
<1>2. \A c \in Cache : /\ Own(c, l)' <=> Own(c, l)
                       /\ Expects(c, l)' <=> Expects(c, l)
                       /\ Shares(c, l)' <=> Shares(c, l)
  BY <1>1, HoldersFrame
<1>3. \A c \in Cache : /\ HasReq(c, l)' <=> HasReq(c, l)
                       /\ HasOwnerFwd(c, l)' <=> HasOwnerFwd(c, l)
                       /\ HasInv(c, l)' <=> HasInv(c, l)
                       /\ HasData(c, l)' <=> HasData(c, l)
  BY <1>1, AsksFrame, AtFrame, SentFrame
<1>4. /\ WbInFlight(l)' <=> WbInFlight(l)
      /\ Exclusive(l)' <=> Exclusive(l)
      /\ Recalled(l)' <=> Recalled(l)
  BY <1>1, SentFrame DEF Exclusive, SameRecall
<1>. USE <1>1
<1>5. MshrMatches(l)'
  BY DEF LineInv, MshrMatches
<1>6. Questions(l)'
  BY <1>3 DEF LineInv, Questions, SameAsks, SameAt
<1>7. PutAcks(l)'
  BY DEF LineInv, PutAcks, SameAt
<1>8. DataMsgs(l)'
  BY NodeSets DEF LineInv, DataMsgs, SameSent
<1>9. Owners(l)'
  BY <1>2, <1>3, <1>4 DEF LineInv, Owners
<1>10. OwnerFwds(l)'
  BY <1>3, <1>4 DEF LineInv, OwnerFwds, SameAt
<1>11. NoCycle(l)'
  BY DEF LineInv, NoCycle, SameAt
<1>12. WriteBacks(l)'
  BY <1>4, NodeSets DEF LineInv, WriteBacks, SameSent
<1>13. Sharers(l)'
  BY <1>2, <1>3, <1>4 DEF LineInv, Sharers, SameAt
<1>14. Invs(l)' /\ InvAcks(l)'
  BY <1>2, NodeSets DEF LineInv, Invs, InvAcks, SameAt, SameSent
<1>18. AckCounts(l)'
  <2>1. \A r \in Cache : Owed(r, l)' = Owed(r, l)
    BY NodeSets DEF Owed, SameAt, SameSent
  <2>. QED
    BY <1>3, <2>1, NodeSets DEF LineInv, AckCounts, SameSent
<1>15. Recalls(l)'
  <2>1. RecallOwed(l)' = RecallOwed(l)
    BY NodeSets DEF RecallOwed, SameAt, SameSent
  <2>. QED
    BY <1>2, <1>4, <2>1, NodeSets DEF LineInv, Recalls, SameAt, SameSent, SameRecall
<1>16. Contents(l)'
  BY <1>2, NodeSets DEF LineInv, Contents, Readable, SameAsks, SameSent
<1>17. BankCopy(l)'
  BY <1>2, <1>4 DEF LineInv, BankCopy, SameRecall
<1>. QED
  BY <1>5, <1>6, <1>7, <1>8, <1>9, <1>10, <1>11, <1>12, <1>13, <1>14, <1>15, <1>16, <1>17, <1>18 DEF LineInv

---------------------------------------------------------------------------
(* From a line to the invariant *)

\* What a step about line l leaves as it must be.
KeepsOthers(l) == Channels' /\ Banks' /\ \A k \in Line : k # l => SameLine(k)

\* A step about line l keeps the invariant if line l is as it must be and the
\* others are as they were.
LEMMA KeepsInvariant ==
  ASSUME IInv, NEW l \in Line, KeepsOthers(l), LineInv(l)', TypeOK'
  PROVE  IInv'
<1>1. \A k \in Line : k # l => LineInv(k)'
  BY LineFrame DEF IInv, KeepsOthers
<1>. QED
  BY <1>1 DEF IInv, KeepsOthers

\* A step that changes nothing about any line keeps the invariant.
LEMMA KeepsEverything ==
  ASSUME IInv, Channels', Banks', \A k \in Line : SameLine(k), TypeOK'
  PROVE  IInv'
<1>1. \A k \in Line : LineInv(k)'
  BY LineFrame DEF IInv
<1>. QED
  BY <1>1 DEF IInv

HeadsKept ==
    \A c \in Cache, h \in Home :
        req[c][h] # <<>> => req'[c][h] # <<>> /\ Head(req'[c][h]) = Head(req[c][h])

\* The banks are as they must be when their registers and the requests they
\* wait on stay.
LEMMA BanksFrame ==
  ASSUME Banks, HeadsKept, UNCHANGED <<dir, tbe, binv, stuckReq>>
  PROVE  Banks'
<1>. SUFFICES ASSUME NEW h \in Home PROVE BankOf(h)'
  BY DEF Banks
<1>1. BankOf(h)
  BY DEF Banks
<1>2. /\ \A l : TbesOf(h, l)' = TbesOf(h, l)
      /\ BinvActive(h)' <=> BinvActive(h)
      /\ HaveFreeWay(h)' <=> HaveFreeWay(h)
  BY DEF TbesOf, BinvActive, HaveFreeWay, Resident, LinesOf
<1>. QED
  BY <1>1, <1>2 DEF BankOf, HeadsKept, LinesOf

\* A request queued behind others changes no channel's head.
LEMMA SentHeadsKept ==
  ASSUME TypeOK, NEW c \in Cache, NEW l \in Line, NEW t \in ReqType, NEW v \in Version, ReqSent(c, l, t, v)
  PROVE  HeadsKept
<1>. SUFFICES ASSUME NEW d \in Cache, NEW h \in Home, req[d][h] # <<>>
              PROVE  req'[d][h] # <<>> /\ Head(req'[d][h]) = Head(req[d][h])
  BY DEF HeadsKept
<1>1. req[d][h] \in Seq(ReqMsg) /\ Request(t, l, v) \in ReqMsg /\ req \in [Cache -> [Home -> Seq(ReqMsg)]]
  BY SMTT(20), ZenonT(30) DEF TypeOK, Request, ReqMsg
<1>2. req'[d][h] = IF d = c /\ h = HomeOf[l] THEN Append(req[d][h], Request(t, l, v)) ELSE req[d][h]
  BY <1>1, NodeSets DEF ReqSent
<1>3. /\ Append(req[d][h], Request(t, l, v)) # <<>>
      /\ Head(Append(req[d][h], Request(t, l, v))) = Head(req[d][h])
  BY <1>1
<1>. QED
  BY <1>2, <1>3

\* The values the registers of a cache range over.
LEMMA StateValues ==
  ASSUME TypeOK, NEW c \in Cache, NEW l \in Line
  PROVE  /\ mshr[c][l].op \in {"none", "LD", "ST", "EV"} /\ mshr[c][l].done \in BOOLEAN
         /\ mshr[c][l].ack \in Int /\ mshr[c][l].ack \in AckRange /\ mshr[c][l].data \in Version
         /\ copy[c][l] \in Version
         /\ l1[c][l] \in L1State
<1>1. mshr[c][l] \in Mshr /\ copy[c][l] \in Version /\ l1[c][l] \in L1State
  BY DEF TypeOK
<1>2. AckRange \subseteq Int
  BY SizeAssumption DEF AckRange, SignedRange
<1>. QED
  BY <1>1, <1>2 DEF Mshr, MshrOp

\* The only copy that may be written is the only copy.
LEMMA OwnerAlone ==
  ASSUME NEW l \in Line, LineInv(l), NEW c \in Cache, Own(c, l),
         mshr[c][l].op = "ST" => mshr[c][l].done
  PROVE  /\ \A d \in Cache : d # c =>
              /\ ~Own(d, l) /\ ~Shares(d, l) /\ ~Readable(d, l)
              /\ ~HasData(d, l)
              /\ mshr[d][l].op \in {"LD", "ST"} => ~mshr[d][l].done /\ l1[d][l] \notin {"IM_A", "SM_A"}
         /\ ~WbInFlight(l) /\ dir[l].present
         /\ dir[l].state \notin {"I", "S"}
<1>1. Expects(c, l)
  BY DEF Expects
<1>2. ASSUME NEW d \in Cache, d # c
      PROVE  /\ ~Own(d, l) /\ ~Shares(d, l)
  <2>1. ~Own(d, l)
    BY <1>2 DEF LineInv, Owners
  <2>2. ~HasInv(d, l)
    BY DEF LineInv, Invs, Owners, HasInv
  <2>. QED
    BY <1>1, <2>1, <2>2 DEF LineInv, Sharers
<1>3. ASSUME NEW d \in Cache, d # c
      PROVE  /\ ~Readable(d, l) /\ ~HasData(d, l)
             /\ mshr[d][l].op \in {"LD", "ST"} => ~mshr[d][l].done /\ l1[d][l] \notin {"IM_A", "SM_A"}
  <2>1. ~Readable(d, l)
    BY <1>2, <1>3 DEF Readable, Own, Shares
  <2>2. HasData(d, l) => mshr[d][l].op \in {"LD", "ST"}
    BY DEF LineInv, DataMsgs, HasData
  <2>3. ~HasData(d, l)
    BY <1>2, <1>3, <2>2 DEF Own, Shares
  <2>4. mshr[d][l].op \in {"LD", "ST"} => ~mshr[d][l].done /\ l1[d][l] \notin {"IM_A", "SM_A"}
    BY <1>2, <1>3 DEF Own, Shares, LineInv, MshrMatches
  <2>. QED
    BY <2>1, <2>3, <2>4
<1>4. ~WbInFlight(l) /\ dir[l].state \notin {"I", "S"} /\ dir[l].present
  BY <1>1 DEF LineInv, Owners, BankCopy, NoMeta
<1>. QED
  BY <1>2, <1>3, <1>4

\* The end of the line of forwarded GetMs.
LEMMA LastOwner ==
  ASSUME NEW l \in Line, LineInv(l), NEW p \in Cache, Own(p, l),
         \A r \in Cache : ~At(p, l, "FWD_GETM", r)
  PROVE  \A d \in Cache : d # p => ~Expects(d, l)
<1>. DEFINE W == {r \in Cache : Waits(r, l)}
<1>1. W = {}
  <2>. SUFFICES ASSUME W # {} PROVE FALSE
    OBVIOUS
  <2>1. PICK r \in W : \A q \in W : ~At(q, l, "FWD_GETM", r)
    BY DEF LineInv, NoCycle
  <2>2. PICK q \in Cache : At(q, l, "FWD_GETM", r)
    BY DEF Waits
  <2>3. q \notin W /\ r \in Node
    BY <2>1, <2>2, NodeSets
  <2>4. Expects(q, l)
    BY <2>2, <2>3 DEF LineInv, Owners, HasOwnerFwd, OwnerFwd
  <2>5. q = p
    BY <2>3, <2>4 DEF Expects, LineInv, Owners
  <2>. QED
    BY <2>2, <2>5
<1>. QED
  BY <1>1 DEF Expects, LineInv, Owners

---------------------------------------------------------------------------
(* The L1 table and its answers *)

\* The table event each forward is to a cache (l1_cache's decode of VN1).
LEMMA FwdEvents ==
  /\ FwdEventOf("FWD_GETS") = "FWD_GETS"
  /\ FwdEventOf("FWD_GETM") = "FWD_GETM"
  /\ FwdEventOf("RECALL") = "FWD_GETM"
  /\ FwdEventOf("INV") = "INV"
  /\ FwdEventOf("RECALL_INV") = "INV"
  /\ FwdEventOf("PUT_ACK") = "PUT_ACK"
<1>1. FwdEventOf("FWD_GETS") = "FWD_GETS"
  BY Zenon DEF FwdEventOf
<1>2. FwdEventOf("FWD_GETM") = "FWD_GETM"
  BY Zenon DEF FwdEventOf
<1>3. FwdEventOf("RECALL") = "FWD_GETM"
  BY Zenon DEF FwdEventOf
<1>4. FwdEventOf("INV") = "INV"
  BY Zenon DEF FwdEventOf
<1>5. FwdEventOf("RECALL_INV") = "INV"
  BY Zenon DEF FwdEventOf
<1>6. FwdEventOf("PUT_ACK") = "PUT_ACK"
  BY Zenon DEF FwdEventOf
<1>. QED
  BY <1>1, <1>2, <1>3, <1>4, <1>5, <1>6

\* An invalidated sharer answers the store it is invalidated for.
LEMMA InvAnswer ==
  ASSUME NEW c, NEW l, NEW r, NEW s \in {"S", "SM_AD", "SI_A"}
  PROVE  FwdAnswers(c, Forward("INV", l, r), s) =
           SendRsp(rsp, c, r, Response("INV_ACK", l, 0, 0))
<1>. DEFINE m == Forward("INV", l, r)
            e == FwdEventOf(m.type)
<1>1. m.type = "INV" /\ m.line = l /\ m.requester = r
  BY ForwardEq
<1>2. e = "INV"
  BY <1>1, FwdEvents
<1>. HIDE DEF m, e
<1>3. SendsInvAck(s, e) /\ ~SendsDataReq(s, e)
  BY <1>2 DEF SendsInvAck, SendsDataReq, SendsDataDir
<1>4. FwdAnswers(c, m, s) = SendRsp(rsp, c, r, Response("INV_ACK", l, 0, 0))
  BY <1>1, <1>3, Zenon DEF FwdAnswers, e
<1>. QED
  BY <1>4 DEF m

\* A sharer recalled answers its bank.
LEMMA RecallInvAnswer ==
  ASSUME NEW c, NEW l, NEW r, NEW s \in {"S", "SM_AD", "SI_A"}
  PROVE  FwdAnswers(c, Forward("RECALL_INV", l, r), s) =
           SendRsp(rsp, c, HomeOf[l], Response("RECALL_ACK", l, 0, 0))
<1>. DEFINE m == Forward("RECALL_INV", l, r)
            e == FwdEventOf(m.type)
<1>1. m.type = "RECALL_INV" /\ m.line = l /\ m.requester = r
  BY ForwardEq
<1>2. e = "INV"
  BY <1>1, FwdEvents
<1>. HIDE DEF m, e
<1>3. SendsInvAck(s, e) /\ ~SendsDataReq(s, e)
  BY <1>2 DEF SendsInvAck, SendsDataReq, SendsDataDir
<1>4. FwdAnswers(c, m, s) = SendRsp(rsp, c, HomeOf[l], Response("RECALL_ACK", l, 0, 0))
  BY <1>1, <1>3, Zenon DEF FwdAnswers, e
<1>. QED
  BY <1>4 DEF m

\* An owner recalled sends its data to its bank.
LEMMA RecallAnswer ==
  ASSUME NEW c, NEW l, NEW r, NEW s \in {"E", "M", "EI_A", "MI_A"}
  PROVE  FwdAnswers(c, Forward("RECALL", l, r), s) =
           SendRsp(rsp, c, HomeOf[l], Response("WB_DATA", l, 0, copy[c][l]))
<1>. DEFINE m == Forward("RECALL", l, r)
            e == FwdEventOf(m.type)
<1>1. m.type = "RECALL" /\ m.line = l /\ m.requester = r
  BY ForwardEq
<1>2. e = "FWD_GETM"
  BY <1>1, FwdEvents
<1>. HIDE DEF m, e
<1>3. ~SendsInvAck(s, e) /\ SendsDataReq(s, e) /\ ~SendsDataDir(s, e)
  BY <1>2 DEF SendsInvAck, SendsDataReq, SendsDataDir
<1>4. FwdAnswers(c, m, s) = SendRsp(rsp, c, HomeOf[l], Response("WB_DATA", l, 0, copy[c][l]))
  BY <1>1, <1>3, Zenon DEF FwdAnswers, e
<1>. QED
  BY <1>4 DEF m

\* An owner sends its data to the store that takes the line.
LEMMA GetMAnswer ==
  ASSUME NEW c, NEW l, NEW r, NEW s \in {"E", "M", "EI_A", "MI_A"}
  PROVE  FwdAnswers(c, Forward("FWD_GETM", l, r), s) =
           SendRsp(rsp, c, r, Response("DATA_OWNER", l, 0, copy[c][l]))
<1>. DEFINE m == Forward("FWD_GETM", l, r)
            e == FwdEventOf(m.type)
<1>1. m.type = "FWD_GETM" /\ m.line = l /\ m.requester = r
  BY ForwardEq
<1>2. e = "FWD_GETM"
  BY <1>1, FwdEvents
<1>. HIDE DEF m, e
<1>3. ~SendsInvAck(s, e) /\ SendsDataReq(s, e) /\ ~SendsDataDir(s, e)
  BY <1>2 DEF SendsInvAck, SendsDataReq, SendsDataDir
<1>4. FwdAnswers(c, m, s) = SendRsp(rsp, c, r, Response("DATA_OWNER", l, 0, copy[c][l]))
  BY <1>1, <1>3, Zenon DEF FwdAnswers, e
<1>. QED
  BY <1>4 DEF m

\* An owner sends its data to the load and to the bank.
LEMMA GetSAnswer ==
  ASSUME NEW c, NEW l, NEW r, NEW s \in {"E", "M", "EI_A", "MI_A"}
  PROVE  FwdAnswers(c, Forward("FWD_GETS", l, r), s) =
           SendRsp(SendRsp(rsp, c, r, Response("DATA_OWNER", l, 0, copy[c][l])),
                   c, HomeOf[l], Response("WB_DATA", l, 0, copy[c][l]))
<1>. DEFINE m == Forward("FWD_GETS", l, r)
            e == FwdEventOf(m.type)
<1>1. m.type = "FWD_GETS" /\ m.line = l /\ m.requester = r
  BY ForwardEq
<1>2. e = "FWD_GETS"
  BY <1>1, FwdEvents
<1>. HIDE DEF m, e
<1>3. ~SendsInvAck(s, e) /\ SendsDataReq(s, e) /\ SendsDataDir(s, e)
  BY <1>2 DEF SendsInvAck, SendsDataReq, SendsDataDir
<1>4. FwdAnswers(c, m, s) = SendRsp(SendRsp(rsp, c, r, Response("DATA_OWNER", l, 0, copy[c][l])),
                   c, HomeOf[l], Response("WB_DATA", l, 0, copy[c][l]))
  BY <1>1, <1>3, Zenon DEF FwdAnswers, e
<1>. QED
  BY <1>4 DEF m

\* Nothing answers a PutAck.
LEMMA PutAckAnswer ==
  ASSUME NEW c, NEW l, NEW r, NEW s
  PROVE  FwdAnswers(c, Forward("PUT_ACK", l, r), s) =
           rsp
<1>. DEFINE m == Forward("PUT_ACK", l, r)
            e == FwdEventOf(m.type)
<1>1. m.type = "PUT_ACK" /\ m.line = l /\ m.requester = r
  BY ForwardEq
<1>2. e = "PUT_ACK"
  BY <1>1, FwdEvents
<1>. HIDE DEF m, e
<1>3. ~SendsInvAck(s, e) /\ ~SendsDataReq(s, e)
  BY <1>2 DEF SendsInvAck, SendsDataReq, SendsDataDir
<1>4. FwdAnswers(c, m, s) = rsp
  BY <1>1, <1>3, Zenon DEF FwdAnswers, e
<1>. QED
  BY <1>4 DEF m

\* One response is queued in a step.
Sends(s, d, l, t, a, v) ==
    CanSend(rsp, s, d, l, t, a, v) /\ rsp' = SendRsp(rsp, s, d, Response(t, l, a, v))

\* A response is sent in a step.
LEMMA SendOne ==
  ASSUME NEW s, NEW d, NEW l, NEW t0, NEW a0, NEW v0, Sends(s, d, l, t0, a0, v0)
  PROVE  /\ \A s2, d2 \in Node : \A t, a, v :
              Sent(s2, d2, l, t, a, v)' <=>
                \/ Sent(s2, d2, l, t, a, v)
                \/ s2 = s /\ d2 = d /\ t = t0 /\ a = a0 /\ v = v0
         /\ \A k \in Line : k # l => SameSent(k)
         /\ RspChannels(rsp)'
<1>0. l \in Line
  BY DEF Sends, CanSend
<1>2. Queued(rsp, rsp', s, d, l, t0, a0, v0)
  BY SendRspEffect DEF Sends
<1>3. RspChannels(rsp)'
  BY <1>2 DEF RspChannels, Queued
<1>4. \A s2, d2 \in Node, k \in Line : \A t, a, v :
           Sent(s2, d2, k, t, a, v)' <=>
             \/ Sent(s2, d2, k, t, a, v)
             \/ s2 = s /\ d2 = d /\ k = l /\ t = t0 /\ a = a0 /\ v = v0
  BY <1>2 DEF Sent, InRsp, Queued
<1>. QED
  BY <1>0, <1>3, <1>4 DEF SameSent

\* The same response is queued to two nodes in a step.
SendsTwo(s, d, t, e, u, l, a, v) ==
    /\ CanSend(rsp, s, d, l, t, a, v) /\ CanSend(rsp, s, e, l, u, a, v) /\ d # e
    /\ rsp' = SendRsp(SendRsp(rsp, s, d, Response(t, l, a, v)), s, e, Response(u, l, a, v))

\* Two responses about a line are sent in a step.
LEMMA SendTwo ==
  ASSUME NEW s, NEW d, NEW t0, NEW e, NEW u0, NEW l, NEW a0, NEW v0,
         SendsTwo(s, d, t0, e, u0, l, a0, v0)
  PROVE  /\ \A s2, d2 \in Node : \A t, a, v :
              Sent(s2, d2, l, t, a, v)' <=>
                \/ Sent(s2, d2, l, t, a, v)
                \/ s2 = s /\ d2 = d /\ t = t0 /\ a = a0 /\ v = v0
                \/ s2 = s /\ d2 = e /\ t = u0 /\ a = a0 /\ v = v0
         /\ \A k \in Line : k # l => SameSent(k)
         /\ RspChannels(rsp)'
<1>. DEFINE q == SendRsp(rsp, s, d, Response(t0, l, a0, v0))
<1>0. /\ CanSend(rsp, s, d, l, t0, a0, v0) /\ CanSend(rsp, s, e, l, u0, a0, v0) /\ d # e
      /\ l \in Line
  BY DEF SendsTwo, CanSend
<1>1. Queued(rsp, q, s, d, l, t0, a0, v0) /\ rsp' = SendRsp(q, s, e, Response(u0, l, a0, v0))
  BY <1>0, SendRspEffect DEF SendsTwo
<1>. HIDE DEF q
<1>2. CanSend(q, s, e, l, u0, a0, v0)
  BY <1>0, <1>1 DEF CanSend, Queued
<1>3. Queued(q, rsp', s, e, l, u0, a0, v0)
  BY <1>1, <1>2, SendRspEffect
<1>4. RspChannels(rsp)'
  BY <1>3 DEF RspChannels, Queued
<1>5. \A s2, d2 \in Node, k \in Line : \A t, a, v :
           InRsp(rsp', s2, d2, k, t, a, v) <=>
             \/ InRsp(rsp, s2, d2, k, t, a, v)
             \/ s2 = s /\ d2 = d /\ k = l /\ t = t0 /\ a = a0 /\ v = v0
             \/ s2 = s /\ d2 = e /\ k = l /\ t = u0 /\ a = a0 /\ v = v0
  BY <1>1, <1>3 DEF Queued
<1>6. \A s2, d2 \in Node, k \in Line : \A t, a, v :
           Sent(s2, d2, k, t, a, v)' <=>
             \/ Sent(s2, d2, k, t, a, v)
             \/ s2 = s /\ d2 = d /\ k = l /\ t = t0 /\ a = a0 /\ v = v0
             \/ s2 = s /\ d2 = e /\ k = l /\ t = u0 /\ a = a0 /\ v = v0
  BY <1>5 DEF Sent, InRsp
<1>. QED
  BY <1>0, <1>4, <1>6 DEF SameSent

\* The step takes response m, and nothing else leaves VN2.
TookOne(s, d, m) ==
    /\ m \in RspMsg /\ RspFits(s, d, m)
    /\ Sent(s, d, m.line, m.type, m.ack, m.data)
    /\ \A s2, d2 \in Node : \A t, a, v :
         Sent(s2, d2, m.line, t, a, v)' <=>
           /\ Sent(s2, d2, m.line, t, a, v)
           /\ ~(s2 = s /\ d2 = d /\ t = m.type /\ a = m.ack /\ v = m.data)
    /\ \A k \in Line : k # m.line => SameSent(k)
    /\ RspChannels(rsp)'

\* A response is taken in a step.
LEMMA TakeOne ==
  ASSUME NEW s, NEW d, NEW m, TakesRsp(s, d, m, rsp')
  PROVE  TookOne(s, d, m)
<1>1. /\ m \in RspMsg /\ RspFits(s, d, m)
      /\ InRsp(rsp, s, d, m.line, m.type, m.ack, m.data)
      /\ \A s2, d2 \in Node, k \in Line : \A t, a, v :
           InRsp(rsp', s2, d2, k, t, a, v) <=>
             /\ InRsp(rsp, s2, d2, k, t, a, v)
             /\ ~(s2 = s /\ d2 = d /\ k = m.line /\ t = m.type /\ a = m.ack /\ v = m.data)
      /\ RspChannels(rsp')
  BY TakeRspEffect
<1>2. RspChannels(rsp)'
  BY <1>1 DEF RspChannels
<1>3. \A s2, d2 \in Node, k \in Line : \A t, a, v :
           Sent(s2, d2, k, t, a, v)' <=>
             /\ Sent(s2, d2, k, t, a, v)
             /\ ~(s2 = s /\ d2 = d /\ k = m.line /\ t = m.type /\ a = m.ack /\ v = m.data)
  BY <1>1 DEF Sent, InRsp
<1>4. Sent(s, d, m.line, m.type, m.ack, m.data) /\ m.line \in Line
  BY <1>1 DEF Sent, RspMsg
<1>. QED
  BY <1>1, <1>2, <1>3, <1>4 DEF SameSent, TookOne

---------------------------------------------------------------------------
(* Counts *)

\* A number the signed field holds is read back as it is.
LEMMA SignedId ==
  ASSUME NEW n \in Int, -AckHalf <= n, n < AckHalf
  PROVE  Signed(AckHalf, n) = n
<1>1. AckHalf \in Nat \ {0}
  BY SizeAssumption
<1>2. \A m \in Int, k \in Nat \ {0} : 0 <= m /\ m < k => m % k = m
  OBVIOUS
<1>3. (n + AckHalf) % (2 * AckHalf) = n + AckHalf
  BY <1>1, <1>2
<1>. QED
  BY <1>1, <1>3 DEF Signed

\* The table event each response is to a cache (l1_cache's decode of VN2).
LEMMA RspEvents ==
  /\ \A a : RspEventOf("DATA_E", a) = "DATA_E_DIR"
  /\ RspEventOf("DATA_DIR", 0) = "DATA_DIR_A0"
  /\ \A a : a # 0 => RspEventOf("DATA_DIR", a) = "DATA_DIR_AGT0"
  /\ \A a : RspEventOf("DATA_OWNER", a) = "DATA_OWNER"
  /\ \A a : RspEventOf("INV_ACK", a) = "INV_ACK"
<1>1. \A a : RspEventOf("DATA_E", a) = "DATA_E_DIR"
  BY Zenon DEF RspEventOf
<1>2. \A a : RspEventOf("DATA_DIR", a) = DataDirEvent(a)
  BY Zenon DEF RspEventOf
<1>3. DataDirEvent(0) = "DATA_DIR_A0" /\ \A a : a # 0 => DataDirEvent(a) = "DATA_DIR_AGT0"
  BY Zenon DEF DataDirEvent
<1>4. \A a : RspEventOf("DATA_OWNER", a) = "DATA_OWNER"
  BY Zenon DEF RspEventOf
<1>5. \A a : RspEventOf("INV_ACK", a) = "INV_ACK"
  BY Zenon DEF RspEventOf
<1>. QED
  BY <1>1, <1>2, <1>3, <1>4, <1>5

\* A set of caches can be counted.
LEMMA CacheSets ==
  ASSUME NEW S \in SUBSET Cache
  PROVE  /\ IsFiniteSet(S) /\ Cardinality(S) \in Nat
         /\ Cardinality(S) = 0 <=> S = {}
         /\ AckHalf \in Nat \ {0}
<1>1. IsFiniteSet(S) /\ Cardinality(S) \in Nat
  BY FS_Subset, FS_CardinalityType, TopologyAssumption
<1>2. Cardinality(S) = 0 <=> S = {}
  BY <1>1, FS_EmptySet
<1>. QED
  BY <1>1, <1>2, SizeAssumption

\* The count of fewer than AckHalf caches is what the field of a message and
\* the signed registers of an MSHR and of a recall read back.
LEMMA CacheCount ==
  ASSUME NEW S \in SUBSET Cache, Cardinality(S) < AckHalf
  PROVE  /\ Cardinality(S) % AckHalf = Cardinality(S)
         /\ Signed(AckHalf, Cardinality(S)) = Cardinality(S)
         /\ Cardinality(S) \in AckField /\ Cardinality(S) \in AckRange
<1>1. Cardinality(S) \in Nat /\ AckHalf \in Nat \ {0}
  BY CacheSets
<1>2. \A m \in Int, k \in Nat \ {0} : 0 <= m /\ m < k => m % k = m
  OBVIOUS
<1>3. Cardinality(S) % AckHalf = Cardinality(S)
  BY <1>1, <1>2
<1>4. Signed(AckHalf, Cardinality(S)) = Cardinality(S)
  BY <1>1, SignedId
<1>. QED
  BY <1>1, <1>3, <1>4 DEF AckField, AckRange, SignedRange

\* All caches but one are that few.
LEMMA AllButOne ==
  ASSUME CachesFit, NEW S \in SUBSET Cache, NEW c \in Cache, c \notin S
  PROVE  Cardinality(S) < AckHalf
<1>1. IsFiniteSet(Cache \ {c}) /\ Cardinality(Cache \ {c}) = Cardinality(Cache) - 1
  BY FS_RemoveElement, TopologyAssumption
<1>2. Cardinality(S) <= Cardinality(Cache \ {c})
  BY <1>1, FS_Subset
<1>3. Cardinality(S) \in Nat /\ Cardinality(Cache) \in Nat /\ AckHalf \in Nat
  BY CacheSets
<1>. QED
  BY <1>1, <1>2, <1>3 DEF CachesFit

---------------------------------------------------------------------------
(* A core's operation: a miss *)

\* A load or store that misses keeps what must hold of its line.
LEMMA CoreMissLine ==
  ASSUME IInv, NEW c \in Cache, NEW l \in Line, NEW op \in {"LD", "ST"}, CoreMiss(c, l, op)
  PROVE  LineInv(l)' /\ KeepsOthers(l)
<1>. DEFINE t0 == IF op = "ST" THEN "GETM" ELSE "GETS"
<1>0. LineInv(l) /\ TypeOK /\ Channels
  BY DEF IInv
<1>1. PICK n \in L1State : <<l1[c][l], OpEvent(op), n>> \in CoreArcs /\ l1' = [l1 EXCEPT ![c][l] = n]
  BY DEF CoreMiss
<1>2. /\ mshr[c][l].op = "none"
      /\ op = "LD" => l1[c][l] = "I" /\ n = "IS_D"
      /\ op = "ST" => (l1[c][l] = "I" /\ n = "IM_AD") \/ (l1[c][l] = "S" /\ n = "SM_AD")
  BY <1>1 DEF CoreMiss, CoreArcs, OpEvent
<1>3. /\ \A d \in Cache : d # c => l1'[d][l] = l1[d][l] /\ mshr'[d][l] = mshr[d][l]
      /\ l1'[c][l] = n
  BY <1>0, <1>1 DEF CoreMiss, TypeOK
<1>4. /\ mshr'[c][l].op = op /\ mshr'[c][l].ack = 0 /\ ~mshr'[c][l].done
  <2>1. mshr'[c][l] = [NoMshr EXCEPT !.op = op]
    BY <1>0 DEF CoreMiss, TypeOK
  <2>. QED
    BY <2>1 DEF NoMshr
<1>5. /\ \A t \in ReqType, v \in Version : ~Asks(c, l, t, v)
      /\ ~HasReq(c, l)
      /\ ~At(c, l, "PUT_ACK", c)
      /\ ~HasData(c, l) /\ ~HasDataE(c, l)
      /\ \A s \in Node, t \in DataType, a \in AckField, v \in Version : ~Sent(s, c, l, t, a, v)
  <2>1. \A t \in ReqType, v \in Version : ~Asks(c, l, t, v)
    BY <1>0, <1>2 DEF LineInv, Questions, ReqType
  <2>2. \A s \in Node, t \in DataType, a \in AckField, v \in Version : ~Sent(s, c, l, t, a, v)
    BY <1>0, <1>2 DEF LineInv, DataMsgs
  <2>. QED
    BY <1>0, <1>2, <2>1, <2>2, ZeroTypes DEF LineInv, PutAcks, HasReq, HasData, HasDataE, DataType
<1>6. /\ \A d \in Cache : \A t, v : Asks(d, l, t, v)' <=> Asks(d, l, t, v) \/ (d = c /\ t = t0 /\ v = 0)
      /\ t0 \in ReqType /\ 0 \in Version /\ ReqSent(c, l, t0, 0)
      /\ ReqChannels'
      /\ \A k \in Line : k # l => SameAsks(k)
  <2>1. t0 \in ReqType /\ 0 \in Version
    BY VersionType DEF ReqType
  <2>2. ~Asks(c, l, t0, 0)
    BY <1>5, <2>1
  <2>3. ReqSent(c, l, t0, 0)
    BY DEF CoreMiss, ReqSent
  <2>. HIDE DEF t0
  <2>. QED
    BY <1>0, <2>1, <2>2, <2>3, SendReqEffect DEF Channels, SameAsks
<1>7. /\ SameAt(l) /\ SameSent(l) /\ SameBank(l) /\ SameRecall(l)
      /\ UNCHANGED <<dir, l2, mem, copy, latest, binv>>
  BY DEF CoreMiss, SameAt, SameSent, SameBank, SameRecall, At, Sent, dirVars, Recalled, Recalling,
     TbesOf, RecallCount
<1>8. /\ \A d \in Cache : d # c => (HasReq(d, l)' <=> HasReq(d, l))
      /\ HasReq(c, l)'
  BY <1>6 DEF HasReq
<1>9. /\ \A d \in Cache : /\ HasOwnerFwd(d, l)' <=> HasOwnerFwd(d, l)
                          /\ HasInv(d, l)' <=> HasInv(d, l)
                          /\ Waits(d, l)' <=> Waits(d, l)
                          /\ HasData(d, l)' <=> HasData(d, l)
                          /\ HasDataE(d, l)' <=> HasDataE(d, l)
      /\ WbInFlight(l)' <=> WbInFlight(l)
      /\ Exclusive(l)' <=> Exclusive(l)
      /\ Recalled(l)' <=> Recalled(l)
  BY <1>7, AtFrame, SentFrame DEF SameRecall, Exclusive
<1>10. ~Own(c, l) /\ \A d \in Cache : Own(d, l)' <=> Own(d, l)
  <2>1. ~Own(c, l)
    BY <1>2, <1>5 DEF Own
  <2>2. ~Own(c, l)'
    BY <1>2, <1>3, <1>4, <1>5, <1>9 DEF Own
  <2>. QED
    BY <1>3, <1>8, <1>9, <2>1, <2>2 DEF Own
<1>11. \A d \in Cache : Expects(d, l)' <=> Expects(d, l)
  BY <1>9, <1>10 DEF Expects
<1>12. \A d \in Cache : Shares(d, l)' <=> Shares(d, l)
  <2>1. Shares(c, l)' <=> Shares(c, l)
    BY <1>2, <1>3, <1>4, <1>5, <1>9 DEF Shares
  <2>. QED
    BY <1>3, <1>9, <2>1 DEF Shares
<1>21. MshrMatches(l)'
  BY <1>0, <1>2, <1>3, <1>4 DEF LineInv, MshrMatches, StableL1
<1>22. Questions(l)'
  BY <1>0, <1>2, <1>3, <1>4, <1>5, <1>6, <1>7, <1>9 DEF LineInv, Questions, SameAt
<1>23. PutAcks(l)'
  BY <1>0, <1>3, <1>5, <1>7 DEF LineInv, PutAcks, SameAt
<1>24. DataMsgs(l)'
  BY <1>0, <1>3, <1>5, <1>7, NodeSets DEF LineInv, DataMsgs, SameSent
<1>25. Owners(l)'
  BY <1>0, <1>7, <1>9, <1>10, <1>11 DEF LineInv, Owners
<1>26. OwnerFwds(l)'
  <2>1. ~Waits(c, l) /\ \A p \in Cache : ~At(p, l, "FWD_GETS", c)
    BY <1>0, <1>2 DEF LineInv, OwnerFwds, Waits
  <2>. QED
    BY <1>0, <1>3, <1>7, <1>8, <1>9, <2>1 DEF LineInv, OwnerFwds, SameAt, Waits
<1>27. NoCycle(l)'
  BY <1>0, <1>7 DEF LineInv, NoCycle, SameAt
<1>28. WriteBacks(l)'
  BY <1>0, <1>7, <1>9, NodeSets DEF LineInv, WriteBacks, SameSent
<1>29. Sharers(l)'
  BY <1>0, <1>2, <1>3, <1>7, <1>9, <1>10, <1>11, <1>12 DEF LineInv, Sharers, SameAt, Invalidatable
<1>30. AckCounts(l)'
  <2>1. \A r \in Cache : Owed(r, l)' = Owed(r, l)
    BY <1>7, NodeSets DEF Owed, SameAt, SameSent
  <2>2. Owed(c, l) = {}
    BY <1>0, <1>2, ZeroTypes DEF LineInv, Invs, InvAcks, Owed
  <2>3. Cardinality(Owed(c, l)') = 0
    BY <2>1, <2>2, FS_EmptySet
  <2>. QED
    BY <1>0, <1>2, <1>3, <1>4, <1>5, <1>7, <1>9, <2>1, <2>3, NodeSets DEF LineInv, AckCounts, SameSent
<1>34. Invs(l)' /\ InvAcks(l)'
  BY <1>0, <1>2, <1>3, <1>4, <1>7, <1>10, NodeSets DEF LineInv, Invs, InvAcks, SameAt, SameSent, Invalidatable
<1>31. Recalls(l)'
  <2>1. RecallOwed(l)' = RecallOwed(l)
    BY <1>7, NodeSets DEF RecallOwed, SameAt, SameSent
  <2>. QED
    BY <1>0, <1>2, <1>3, <1>7, <1>9, <1>12, <2>1, NodeSets DEF LineInv, Recalls, SameAt, SameSent,
       SameRecall, Invalidatable
<1>32. Contents(l)'
  BY <1>0, <1>2, <1>3, <1>4, <1>6, <1>7, <1>10, NodeSets DEF LineInv, Contents, Readable, SameSent
<1>33. BankCopy(l)'
  BY <1>0, <1>2, <1>3, <1>4, <1>7, <1>9, <1>10 DEF LineInv, BankCopy, SameRecall
<1>35. ASSUME NEW k \in Line, k # l PROVE SameLine(k)
  <2>1. SameCaches(k) /\ SameBank(k) /\ latest'[k] = latest[k]
    BY <1>0, <1>1, <1>7, <1>35 DEF CoreMiss, SameCaches, SameBank, TypeOK
  <2>2. SameAt(k) /\ SameSent(k) /\ SameRecall(k)
    BY DEF CoreMiss, SameAt, SameSent, SameRecall, At, Sent, dirVars, Recalled, Recalling, TbesOf, RecallCount
  <2>. QED
    BY <1>6, <1>35, <2>1, <2>2 DEF SameLine
<1>36. KeepsOthers(l)
  <2>1. Banks'
    BY <1>0, <1>6, SentHeadsKept, BanksFrame DEF CoreMiss, dirVars, IInv
  <2>2. Channels'
    BY <1>0, <1>6 DEF CoreMiss, Channels, FwdChannels, RspChannels
  <2>. QED
    BY <1>35, <2>1, <2>2 DEF KeepsOthers
<1>. QED
  BY <1>36, <1>21, <1>22, <1>23, <1>24, <1>25, <1>26, <1>27, <1>28, <1>29, <1>30, <1>31, <1>32,
     <1>33, <1>34 DEF LineInv

---------------------------------------------------------------------------
(* A store that hits *)

\* A store that hits keeps what must hold of its line.
LEMMA StoreHitLine ==
  ASSUME IInv, NEW c \in Cache, NEW l \in Line, StoreHit(c, l)
  PROVE  LineInv(l)' /\ KeepsOthers(l)
<1>0. LineInv(l) /\ TypeOK /\ Channels /\ Banks
  BY DEF IInv
<1>1. /\ l1[c][l] \in {"E", "M"} /\ l1' = [l1 EXCEPT ![c][l] = "M"]
  BY DEF StoreHit, CoreArcs
<1>2. /\ copy' = [copy EXCEPT ![c][l] = Next1(@)]
      /\ latest' = [latest EXCEPT ![l] = Next1(@)]
      /\ UNCHANGED <<mshr, dir, l2, mem, tbe, binv, req, fwd, rsp, stuckReq, stuckFwd>>
  BY DEF StoreHit, dirVars
<1>3. /\ \A d \in Cache, k \in Line : d # c \/ k # l => l1'[d][k] = l1[d][k] /\ copy'[d][k] = copy[d][k]
      /\ \A k \in Line : k # l => latest'[k] = latest[k]
      /\ l1'[c][l] = "M" /\ copy'[c][l] = Next1(copy[c][l]) /\ latest'[l] = Next1(latest[l])
  BY <1>0, <1>1, <1>2 DEF TypeOK
<1>4. \A k \in Line : SameAsks(k) /\ SameAt(k) /\ SameSent(k) /\ SameBank(k) /\ SameRecall(k)
  BY <1>2 DEF SameAsks, SameAt, SameSent, SameBank, SameRecall, Asks, At, Sent, Recalled,
     Recalling, TbesOf, RecallCount
<1>5. mshr[c][l].op = "none" /\ Own(c, l) /\ ~Shares(c, l) /\ ~HasData(c, l) /\ ~HasReq(c, l)
  <2>1. mshr[c][l].op = "none"
    <3>1. mshr[c][l] \in Mshr
      BY <1>0 DEF TypeOK
    <3>2. mshr[c][l].op \in {"none", "LD", "ST", "EV"}
      BY <3>1 DEF Mshr, MshrOp
    <3>. QED
      BY <1>0, <1>1, <3>2 DEF LineInv, MshrMatches, Evicting
  <2>2. ~HasData(c, l)
    BY <1>0, <2>1 DEF LineInv, DataMsgs, HasData
  <2>3. ~HasReq(c, l)
    BY <1>0, <2>1 DEF LineInv, Questions, HasReq, ReqType
  <2>. QED
    BY <1>1, <2>1, <2>2, <2>3 DEF Own, Shares
<1>6. /\ \A d \in Cache : d # c =>
           /\ ~Own(d, l) /\ ~Shares(d, l) /\ ~Readable(d, l) /\ ~HasData(d, l)
           /\ mshr[d][l].op \in {"LD", "ST"} => ~mshr[d][l].done /\ l1[d][l] \notin {"IM_A", "SM_A"}
      /\ ~WbInFlight(l) /\ dir[l].present /\ dir[l].state \notin {"I", "S"}
  BY <1>0, <1>5, OwnerAlone
<1>7. /\ \A d \in Cache : /\ HasOwnerFwd(d, l)' <=> HasOwnerFwd(d, l)
                          /\ HasInv(d, l)' <=> HasInv(d, l)
                          /\ Waits(d, l)' <=> Waits(d, l)
                          /\ HasData(d, l)' <=> HasData(d, l)
                          /\ HasDataE(d, l)' <=> HasDataE(d, l)
                          /\ HasReq(d, l)' <=> HasReq(d, l)
      /\ WbInFlight(l)' <=> WbInFlight(l)
      /\ Exclusive(l)' <=> Exclusive(l)
      /\ Recalled(l)' <=> Recalled(l)
  BY <1>2, <1>4, AsksFrame, AtFrame, SentFrame DEF SameRecall, Exclusive
<1>8. \A d \in Cache : /\ Own(d, l)' <=> Own(d, l)
                       /\ Shares(d, l)' <=> Shares(d, l)
                       /\ Expects(d, l)' <=> Expects(d, l)
  <2>1. \A d \in Cache : Own(d, l)' <=> Own(d, l)
    BY <1>1, <1>2, <1>3, <1>7 DEF Own
  <2>2. \A d \in Cache : Shares(d, l)' <=> Shares(d, l)
    BY <1>1, <1>2, <1>3, <1>7 DEF Shares
  <2>. QED
    BY <1>7, <2>1, <2>2 DEF Expects
<1>9. \A d \in Cache : d # c => ~Readable(d, l)'
  BY <1>3, <1>6 DEF Readable
<1>. USE <1>0, <1>2, <1>7
<1>21. MshrMatches(l)'
  BY <1>3, <1>5 DEF LineInv, MshrMatches, StableL1
<1>22. Questions(l)'
  BY <1>3, <1>4, <1>5 DEF LineInv, Questions, SameAt, SameAsks, HasReq
<1>23. PutAcks(l)' /\ DataMsgs(l)'
  BY <1>3, <1>4, <1>5, NodeSets DEF LineInv, PutAcks, DataMsgs, SameSent, SameAt
<1>24. Owners(l)'
  BY <1>8 DEF LineInv, Owners
<1>25. OwnerFwds(l)'
  BY <1>1, <1>3, <1>4 DEF LineInv, OwnerFwds, SameAt
<1>26. NoCycle(l)' /\ WriteBacks(l)'
  BY <1>4, NodeSets DEF LineInv, NoCycle, WriteBacks, SameAt, SameSent
<1>27. Sharers(l)'
  BY <1>1, <1>3, <1>4, <1>8 DEF LineInv, Sharers, SameAt, Invalidatable
<1>28. Invs(l)' /\ InvAcks(l)'
  BY <1>1, <1>3, <1>4, <1>8, NodeSets DEF LineInv, Invs, InvAcks, SameAt, SameSent, Invalidatable
<1>29. AckCounts(l)'
  <2>1. \A r \in Cache : Owed(r, l)' = Owed(r, l)
    BY <1>4, NodeSets DEF Owed, SameAt, SameSent
  <2>. QED
    BY <1>3, <1>4, <1>5, <2>1, NodeSets DEF LineInv, AckCounts, SameSent
<1>30. Recalls(l)'
  <2>1. RecallOwed(l)' = RecallOwed(l)
    BY <1>4, NodeSets DEF RecallOwed, SameAt, SameSent
  <2>. QED
    BY <1>1, <1>3, <1>4, <1>8, <2>1, NodeSets DEF LineInv, Recalls, SameAt, SameSent, SameRecall, Invalidatable
<1>31. Contents(l)'
  <2>1. copy[c][l] = latest[l] /\ copy'[c][l] = latest'[l]
    BY <1>1, <1>3 DEF LineInv, Contents, Readable
  <2>2. \A d \in Cache, s \in Node, t \in DataType, a \in AckField, v \in Version : ~Sent(s, d, l, t, a, v)'
    BY <1>5, <1>6 DEF HasData
  <2>3. \A d \in Cache, v \in Version : ~Sent(d, HomeOf[l], l, "WB_DATA", 0, v)'
    BY <1>6 DEF WbInFlight
  <2>4. \A v \in Version : ~Asks(c, l, "PUTM", v)'
    BY <1>5 DEF HasReq, ReqType
  <2>. QED
    BY <1>3, <1>5, <1>6, <1>8, <1>9, <2>1, <2>2, <2>3, <2>4 DEF Contents
<1>32. BankCopy(l)'
  BY <1>3, <1>5, <1>6, <1>8 DEF LineInv, BankCopy
<1>33. ASSUME NEW k \in Line, k # l PROVE SameLine(k)
  <2>1. SameCaches(k) /\ latest'[k] = latest[k]
    BY <1>3, <1>33 DEF SameCaches
  <2>. QED
    BY <1>4, <2>1 DEF SameLine
<1>34. KeepsOthers(l)
  <2>1. Banks'
    BY BanksFrame DEF HeadsKept
  <2>2. Channels'
    BY DEF Channels, ReqChannels, FwdChannels, RspChannels
  <2>. QED
    BY <1>33, <2>1, <2>2 DEF KeepsOthers
<1>. QED
  BY <1>21, <1>22, <1>23, <1>24, <1>25, <1>26, <1>27, <1>28, <1>29, <1>30, <1>31, <1>32, <1>34 DEF LineInv

---------------------------------------------------------------------------
(* An eviction *)

\* An eviction keeps what must hold of the line given up.
LEMMA EvictLine ==
  ASSUME IInv, NEW c \in Cache, NEW l \in Line, Evict(c, l)
  PROVE  LineInv(l)' /\ KeepsOthers(l)
<1>. DEFINE t0 == PutOf(l1[c][l])
            v0 == copy[c][l]
<1>0. LineInv(l) /\ TypeOK /\ Channels /\ Banks
  BY DEF IInv
<1>1. PICK n \in L1State : <<l1[c][l], "EVICT", n>> \in CoreArcs /\ l1' = [l1 EXCEPT ![c][l] = n]
  BY DEF Evict
<1>2. /\ mshr[c][l].op = "none" /\ ~mshr[c][l].done
      /\ \/ l1[c][l] = "S" /\ n = "SI_A" /\ t0 = "PUTS"
         \/ l1[c][l] = "E" /\ n = "EI_A" /\ t0 = "PUTE"
         \/ l1[c][l] = "M" /\ n = "MI_A" /\ t0 = "PUTM"
  BY <1>0, <1>1 DEF Evict, CoreArcs, PutOf, LineInv, MshrMatches
<1>3. /\ \A d \in Cache : d # c => l1'[d][l] = l1[d][l] /\ mshr'[d][l] = mshr[d][l]
      /\ l1'[c][l] = n
      /\ UNCHANGED <<copy, dir, l2, mem, tbe, binv, fwd, rsp, stuckReq, stuckFwd, latest>>
  BY <1>0, <1>1 DEF Evict, TypeOK, dirVars
<1>4. /\ mshr'[c][l].op = "EV" /\ mshr'[c][l].ack = 0 /\ ~mshr'[c][l].done
  <2>1. mshr'[c][l] = [NoMshr EXCEPT !.op = "EV"]
    BY <1>0 DEF Evict, TypeOK
  <2>. QED
    BY <2>1 DEF NoMshr
<1>5. /\ \A t \in ReqType, v \in Version : ~Asks(c, l, t, v)
      /\ ~HasReq(c, l)
      /\ ~At(c, l, "PUT_ACK", c)
      /\ ~HasData(c, l) /\ ~HasDataE(c, l)
      /\ \A s \in Node, t \in DataType, a \in AckField, v \in Version : ~Sent(s, c, l, t, a, v)
  <2>1. \A t \in ReqType, v \in Version : ~Asks(c, l, t, v)
    BY <1>0, <1>2 DEF LineInv, Questions, ReqType
  <2>2. \A s \in Node, t \in DataType, a \in AckField, v \in Version : ~Sent(s, c, l, t, a, v)
    BY <1>0, <1>2 DEF LineInv, DataMsgs
  <2>. QED
    BY <1>0, <1>2, <2>1, <2>2, ZeroTypes DEF LineInv, PutAcks, HasReq, HasData, HasDataE, DataType
<1>6. /\ \A d \in Cache : \A t, v : Asks(d, l, t, v)' <=> Asks(d, l, t, v) \/ (d = c /\ t = t0 /\ v = v0)
      /\ t0 \in ReqType /\ v0 \in Version /\ ReqSent(c, l, t0, v0)
      /\ ReqChannels'
      /\ \A k \in Line : k # l => SameAsks(k)
  <2>1. t0 \in ReqType /\ v0 \in Version
    BY <1>0, StateValues DEF ReqType, PutOf
  <2>2. ~Asks(c, l, t0, v0)
    BY <1>5, <2>1
  <2>3. ReqSent(c, l, t0, v0)
    BY DEF Evict, ReqSent
  <2>. HIDE DEF t0, v0
  <2>. QED
    BY <1>0, <2>1, <2>2, <2>3, SendReqEffect DEF Channels, SameAsks
<1>. HIDE DEF t0
<1>7. \A k \in Line : SameAt(k) /\ SameSent(k) /\ SameBank(k) /\ SameRecall(k)
  BY <1>3 DEF SameAt, SameSent, SameBank, SameRecall, At, Sent, Recalled, Recalling, TbesOf, RecallCount
<1>8. /\ \A d \in Cache : d # c => (HasReq(d, l)' <=> HasReq(d, l))
      /\ HasReq(c, l)'
  BY <1>6 DEF HasReq
<1>9. /\ \A d \in Cache : /\ HasOwnerFwd(d, l)' <=> HasOwnerFwd(d, l)
                          /\ HasInv(d, l)' <=> HasInv(d, l)
                          /\ Waits(d, l)' <=> Waits(d, l)
                          /\ HasData(d, l)' <=> HasData(d, l)
                          /\ HasDataE(d, l)' <=> HasDataE(d, l)
      /\ WbInFlight(l)' <=> WbInFlight(l)
      /\ Exclusive(l)' <=> Exclusive(l)
      /\ Recalled(l)' <=> Recalled(l)
  BY <1>3, <1>7, AtFrame, SentFrame DEF SameRecall, Exclusive
<1>10. \A d \in Cache : Own(d, l)' <=> Own(d, l)
  <2>1. Own(c, l)' <=> Own(c, l)
    BY <1>2, <1>3, <1>4, <1>5, <1>8, <1>9 DEF Own
  <2>. QED
    BY <1>3, <1>8, <1>9, <2>1 DEF Own
<1>11. \A d \in Cache : Expects(d, l)' <=> Expects(d, l)
  BY <1>9, <1>10 DEF Expects
<1>12. \A d \in Cache : Shares(d, l)' => Shares(d, l)
  <2>1. ~Shares(c, l)'
    BY <1>2, <1>3, <1>4 DEF Shares
  <2>. QED
    BY <1>3, <1>9, <2>1 DEF Shares
<1>. USE <1>0, <1>3, <1>4, <1>7
<1>21. MshrMatches(l)'
  BY <1>2 DEF LineInv, MshrMatches, Evicting
<1>22. Questions(l)'
  BY <1>2, <1>5, <1>6, <1>9 DEF LineInv, Questions, SameAt
<1>23. PutAcks(l)' /\ DataMsgs(l)'
  BY <1>5, NodeSets DEF LineInv, PutAcks, DataMsgs, SameSent, SameAt
<1>24. Owners(l)'
  BY <1>9, <1>10, <1>11 DEF LineInv, Owners
<1>25. OwnerFwds(l)'
  <2>1. ~Waits(c, l) /\ \A p \in Cache : ~At(p, l, "FWD_GETS", c)
    BY <1>2 DEF LineInv, OwnerFwds, Waits
  <2>. QED
    BY <1>8, <1>9, <2>1 DEF LineInv, OwnerFwds, SameAt, Waits
<1>26. NoCycle(l)' /\ WriteBacks(l)'
  BY <1>9, NodeSets DEF LineInv, NoCycle, WriteBacks, SameAt, SameSent
<1>27. Sharers(l)'
  BY <1>2, <1>9, <1>10, <1>11, <1>12 DEF LineInv, Sharers, SameAt, Invalidatable
<1>28. Invs(l)' /\ InvAcks(l)'
  BY <1>2, <1>10, NodeSets DEF LineInv, Invs, InvAcks, SameAt, SameSent, Invalidatable
<1>29. AckCounts(l)'
  <2>1. \A r \in Cache : Owed(r, l)' = Owed(r, l)
    BY NodeSets DEF Owed, SameAt, SameSent
  <2>. QED
    BY <1>9, <2>1, NodeSets DEF LineInv, AckCounts, SameSent
<1>30. Recalls(l)'
  <2>1. RecallOwed(l)' = RecallOwed(l)
    BY NodeSets DEF RecallOwed, SameAt, SameSent
  <2>. QED
    BY <1>2, <1>9, <1>12, <2>1, NodeSets DEF LineInv, Recalls, SameAt, SameSent, SameRecall, Invalidatable
<1>31. Contents(l)'
  <2>1. copy[c][l] = latest[l]
    BY <1>2 DEF LineInv, Contents, Readable
  <2>. QED
    BY <1>2, <1>5, <1>6, <1>10, <2>1, NodeSets DEF LineInv, Contents, Readable, SameSent
<1>32. BankCopy(l)'
  BY <1>2, <1>9, <1>10 DEF LineInv, BankCopy
<1>33. ASSUME NEW k \in Line, k # l PROVE SameLine(k)
  <2>1. SameCaches(k)
    BY <1>1, <1>33 DEF Evict, SameCaches, TypeOK
  <2>. QED
    BY <1>6, <1>33, <2>1 DEF SameLine
<1>34. KeepsOthers(l)
  <2>1. Banks'
    BY <1>6, SentHeadsKept, BanksFrame
  <2>2. Channels'
    BY <1>6 DEF Channels, FwdChannels, RspChannels
  <2>. QED
    BY <1>33, <2>1, <2>2 DEF KeepsOthers
<1>. QED
  BY <1>21, <1>22, <1>23, <1>24, <1>25, <1>26, <1>27, <1>28, <1>29, <1>30, <1>31, <1>32, <1>34 DEF LineInv

---------------------------------------------------------------------------
(* A forward: invalidations *)

\* Everything about line k stays, but for VN2.
SameButSent(k) ==
    /\ SameAsks(k) /\ SameAt(k) /\ SameCaches(k) /\ SameBank(k) /\ SameRecall(k)
    /\ latest'[k] = latest[k]

\* Cache c has taken forward t on behalf of r about line l and moves to state n.
Took(c, l, t, r, n) ==
    /\ At(c, l, t, r) /\ OnBehalf(Forward(t, l, r), HomeOf[l], c)
    /\ <<l1[c][l], FwdEventOf(t), n>> \in FwdArcs
    /\ l1'[c][l] = n /\ copy'[c][l] = DropIfInvalid(c, l, n)
    /\ \A d \in Cache : d # c => l1'[d][l] = l1[d][l] /\ copy'[d][l] = copy[d][l] /\ mshr'[d][l] = mshr[d][l]
    /\ t # "PUT_ACK" => mshr'[c][l] = mshr[c][l]
    /\ t = "PUT_ACK" => /\ \A t2, r2 : At(c, l, t2, r2) => t2 = "PUT_ACK" /\ r2 = c
                        /\ mshr'[c][l].op = mshr[c][l].op /\ mshr'[c][l].ack = mshr[c][l].ack
                        /\ mshr'[c][l].done
                        /\ mshr'[c][l].fin = mshr[c][l].fin /\ mshr'[c][l].data = mshr[c][l].data
    /\ \A d \in Cache : \A t2, r2 : At(d, l, t2, r2)' <=> At(d, l, t2, r2) /\ ~(d = c /\ t2 = t /\ r2 = r)
    /\ SameAsks(l) /\ SameBank(l) /\ SameRecall(l) /\ latest'[l] = latest[l]

\* What taking a forward does, by its line, type and requester: its answers
\* are all that it sends.
LEMMA TakeForwardTook ==
  ASSUME IInv, NEW c \in Cache, NEW h \in Home, TakeForward(c, h)
  PROVE  \E l \in Line, t \in FwdType, r \in Node, n \in L1State :
           /\ Took(c, l, t, r, n)
           /\ rsp' = FwdAnswers(c, Forward(t, l, r), l1[c][l])
           /\ \A k \in Line : k # l => SameButSent(k)
           /\ ReqChannels' /\ FwdChannels' /\ Banks'
<1>. PICK m : m = Head(fwd[h][c])
  OBVIOUS
<1>. DEFINE l == m.line
<1>0. TypeOK /\ Channels /\ Banks
  BY DEF IInv
<1>1. FwdTaken(h, c, m) /\ UNCHANGED <<dir, l2, mem, tbe, binv, req, stuckReq, latest>>
  BY <1>0 DEF TakeForward, FwdPresented, FwdTaken, dirVars, Channels
<1>2. /\ m \in FwdMsg /\ HomeOf[m.line] = h /\ OnBehalf(m, h, c)
      /\ At(c, m.line, m.type, m.requester)
      /\ \A d \in Cache, k \in Line : \A t, r :
           At(d, k, t, r)' <=> At(d, k, t, r)
                                 /\ ~(d = c /\ k = m.line /\ t = m.type /\ r = m.requester)
      /\ m.type = "PUT_ACK" => \A t, r : At(c, m.line, t, r) => t = "PUT_ACK" /\ r = c
      /\ FwdChannels'
  BY <1>1, TakeFwdEffect
<1>3. m.line \in Line /\ m.type \in FwdType /\ m.requester \in Node
      /\ m = Forward(m.type, m.line, m.requester)
  BY <1>2 DEF FwdMsg, Forward
<1>4. PICK n \in L1State :
         /\ <<l1[c][l], FwdEventOf(m.type), n>> \in FwdArcs
         /\ l1' = [l1 EXCEPT ![c][l] = n]
         /\ copy' = [copy EXCEPT ![c][l] = DropIfInvalid(c, l, n)]
  BY DEF TakeForward
<1>5. /\ mshr' = IF m.type = "PUT_ACK" THEN [mshr EXCEPT ![c][l].done = TRUE] ELSE mshr
      /\ rsp' = FwdAnswers(c, m, l1[c][l])
  BY DEF TakeForward
<1>6. /\ \A d \in Cache, k \in Line : d # c \/ k # l =>
           l1'[d][k] = l1[d][k] /\ copy'[d][k] = copy[d][k] /\ mshr'[d][k] = mshr[d][k]
      /\ l1'[c][l] = n /\ copy'[c][l] = DropIfInvalid(c, l, n)
      /\ m.type # "PUT_ACK" => mshr'[c][l] = mshr[c][l]
  BY <1>0, <1>3, <1>4, <1>5 DEF TypeOK
<1>7. m.type = "PUT_ACK" =>
         /\ mshr'[c][l].op = mshr[c][l].op /\ mshr'[c][l].ack = mshr[c][l].ack
         /\ mshr'[c][l].done
         /\ mshr'[c][l].fin = mshr[c][l].fin /\ mshr'[c][l].data = mshr[c][l].data
  <2>1. mshr[c][l] \in Mshr /\ mshr \in [Cache -> [Line -> Mshr]]
    BY <1>0, <1>3 DEF TypeOK
  <2>2. m.type = "PUT_ACK" => mshr'[c][l] = [mshr[c][l] EXCEPT !.done = TRUE]
    BY <1>3, <1>5, <2>1
  <2>. QED
    BY <2>1, <2>2 DEF Mshr
<1>8. \A k \in Line : /\ SameAsks(k) /\ SameBank(k) /\ SameRecall(k) /\ latest'[k] = latest[k]
                      /\ k # l => SameAt(k) /\ SameCaches(k)
  BY <1>1, <1>2, <1>6, SMTT(60), ZenonT(20) DEF SameAsks, SameBank, SameRecall, SameAt, SameCaches, Asks, Recalled,
     Recalling, TbesOf, RecallCount
<1>9. ReqChannels' /\ Banks'
  BY <1>0, <1>1, BanksFrame DEF HeadsKept, Channels, ReqChannels
<1>10. Took(c, l, m.type, m.requester, n)
  <2>1. OnBehalf(Forward(m.type, l, m.requester), HomeOf[l], c) /\ At(c, l, m.type, m.requester)
    BY <1>2, <1>3
  <2>2. <<l1[c][l], FwdEventOf(m.type), n>> \in FwdArcs
    BY <1>4
  <2>3. \A d \in Cache : \A t2, r2 : At(d, l, t2, r2)' <=> At(d, l, t2, r2) /\ ~(d = c /\ t2 = m.type /\ r2 = m.requester)
    BY <1>2, <1>3
  <2>4. m.type = "PUT_ACK" => \A t2, r2 : At(c, l, t2, r2) => t2 = "PUT_ACK" /\ r2 = c
    BY <1>2
  <2>. HIDE DEF l
  <2>5. l \in Line
    BY <1>3 DEF l
  <2>. QED
    BY <1>6, <1>7, <1>8, <2>1, <2>2, <2>3, <2>4, <2>5, SMTT(25), ZenonT(25) DEF Took
<1>. HIDE DEF l
<1>11. rsp' = FwdAnswers(c, Forward(m.type, l, m.requester), l1[c][l])
  BY <1>3, <1>5 DEF l
<1>12. l \in Line /\ \A k \in Line : k # l => SameButSent(k)
  BY <1>3, <1>8 DEF SameButSent, l
<1>. QED
  BY <1>2, <1>3, <1>9, <1>10, <1>11, <1>12

\* An invalidation keeps what must hold of its line: the copy is gone, and its
\* acknowledgement is owed to the same store.
LEMMA TookInv ==
  ASSUME IInv, NEW c \in Cache, NEW l \in Line, NEW r \in Node, NEW n \in L1State,
         Took(c, l, "INV", r, n), rsp' = FwdAnswers(c, Forward("INV", l, r), l1[c][l])
  PROVE  LineInv(l)' /\ RspChannels(rsp)' /\ \A k \in Line : k # l => SameSent(k)
<1>0. LineInv(l) /\ TypeOK /\ Channels
  BY DEF IInv
<1>1. /\ At(c, l, "INV", r) /\ r \in Cache
      /\ l1'[c][l] = n
      /\ copy'[c][l] = DropIfInvalid(c, l, n)
      /\ \A d \in Cache : mshr'[d][l] = mshr[d][l]
      /\ \A d \in Cache : d # c => l1'[d][l] = l1[d][l] /\ copy'[d][l] = copy[d][l]
      /\ \A d \in Cache : \A t2, r2 : At(d, l, t2, r2)' <=> At(d, l, t2, r2) /\ ~(d = c /\ t2 = "INV" /\ r2 = r)
      /\ SameAsks(l) /\ SameBank(l) /\ SameRecall(l) /\ latest'[l] = latest[l]
  BY ForwardEq DEF Took, OnBehalf
<1>2. \/ l1[c][l] = "S" /\ n = "I"
      \/ l1[c][l] = "SM_AD" /\ n = "IM_AD"
      \/ l1[c][l] = "SI_A" /\ n = "II_A"
  BY FwdEvents DEF Took, FwdArcs, InvArcs
<1>3. /\ Own(r, l) /\ mshr[r][l].op = "ST" /\ ~mshr[r][l].done
      /\ c # r /\ ~Sent(c, r, l, "INV_ACK", 0, 0)
      /\ \A r2 \in Cache : At(c, l, "INV", r2) => r2 = r
  BY <1>0, <1>1 DEF LineInv, Invs, Owners
<1>4. rsp' = SendRsp(rsp, c, r, Response("INV_ACK", l, 0, 0))
  <2>1. l1[c][l] \in {"S", "SM_AD", "SI_A"}
    BY <1>2
  <2>. QED
    BY <2>1, InvAnswer
<1>5. /\ \A s2, d2 \in Node : \A t, a, v :
           Sent(s2, d2, l, t, a, v)' <=>
             \/ Sent(s2, d2, l, t, a, v)
             \/ s2 = c /\ d2 = r /\ t = "INV_ACK" /\ a = 0 /\ v = 0
      /\ \A k \in Line : k # l => SameSent(k)
      /\ RspChannels(rsp)'
  <2>1. RspFits(c, r, Response("INV_ACK", l, 0, 0))
    BY <1>1, NodeSets, ResponseEq, TopologyAssumption DEF RspFits
  <2>2. "INV_ACK" \in RspType /\ rsp \in [Node -> [Node -> Seq(RspMsg)]]
    BY <1>0 DEF RspType, RspToL1, TypeOK
  <2>3. Sends(c, r, l, "INV_ACK", 0, 0)
    BY <1>0, <1>1, <1>3, <1>4, <2>1, <2>2, ZeroTypes, NodeSets DEF Channels, Sent, Sends, CanSend
  <2>. QED
    BY <2>3, SendOne
<1>7. /\ \A d \in Cache : /\ HasReq(d, l)' <=> HasReq(d, l)
                          /\ HasData(d, l)' <=> HasData(d, l)
                          /\ HasDataE(d, l)' <=> HasDataE(d, l)
                          /\ HasOwnerFwd(d, l)' <=> HasOwnerFwd(d, l)
                          /\ Waits(d, l)' <=> Waits(d, l)
                          /\ d # c => (HasInv(d, l)' <=> HasInv(d, l))
      /\ WbInFlight(l)' <=> WbInFlight(l)
      /\ Exclusive(l)' <=> Exclusive(l)
      /\ Recalled(l)' <=> Recalled(l)
  <2>1. \A d \in Cache : HasReq(d, l)' <=> HasReq(d, l)
    BY <1>1, AsksFrame
  <2>2. \A d \in Cache : /\ HasData(d, l)' <=> HasData(d, l)
                         /\ HasDataE(d, l)' <=> HasDataE(d, l)
    BY <1>5, NodeSets DEF HasData, HasDataE, DataType
  <2>3. \A d \in Cache : /\ HasOwnerFwd(d, l)' <=> HasOwnerFwd(d, l)
                         /\ Waits(d, l)' <=> Waits(d, l)
                         /\ d # c => (HasInv(d, l)' <=> HasInv(d, l))
    BY <1>1 DEF HasOwnerFwd, OwnerFwd, Waits, HasInv
  <2>4. WbInFlight(l)' <=> WbInFlight(l)
    BY <1>5, NodeSets DEF WbInFlight
  <2>. QED
    BY <1>1, <2>1, <2>2, <2>3, <2>4 DEF Exclusive, SameBank, SameRecall
<1>8. \A d \in Cache : /\ Own(d, l)' <=> Own(d, l)
                       /\ Expects(d, l)' <=> Expects(d, l)
                       /\ Shares(d, l)' <=> Shares(d, l) /\ d # c
  <2>1. \A d \in Cache : Own(d, l)' <=> Own(d, l)
    <3>1. Own(c, l)' <=> Own(c, l)
      BY <1>1, <1>2, <1>7 DEF Own
    <3>. QED
      BY <1>1, <1>7, <3>1 DEF Own
  <2>2. ~Shares(c, l)'
    BY <1>0, <1>1, <1>2 DEF Shares, LineInv, MshrMatches
  <2>3. \A d \in Cache : d # c => (Shares(d, l)' <=> Shares(d, l))
    BY <1>1, <1>7 DEF Shares
  <2>. QED
    BY <1>7, <2>1, <2>2, <2>3 DEF Expects
<1>9. c \notin dir[l].sharers \/ HasOwnerFwd(c, l)
  <2>. SUFFICES ASSUME c \in dir[l].sharers, ~HasOwnerFwd(c, l) PROVE FALSE
    OBVIOUS
  <2>1. Expects(r, l) /\ ~WbInFlight(l) /\ dir[l].state = "S_D"
    <3>1. Expects(r, l)
      BY <1>3 DEF Expects
    <3>. QED
      BY <1>0, <1>1, <3>1 DEF LineInv, Owners, Sharers
  <2>2. PICK p, q \in Cache : At(p, l, "FWD_GETS", q)
    BY <1>0, <2>1 DEF LineInv, OwnerFwds
  <2>3. c \in {p, q} /\ mshr[q][l].op = "LD"
    BY <1>0, <2>2 DEF LineInv, OwnerFwds
  <2>4. c # p
    BY <2>2, NodeSets DEF HasOwnerFwd, OwnerFwd
  <2>. QED
    BY <1>0, <1>2, <2>3, <2>4 DEF LineInv, MshrMatches
<1>. USE <1>0, <1>1, <1>7
<1>21. MshrMatches(l)'
  BY <1>2 DEF LineInv, MshrMatches, StableL1, Evicting
<1>22. Questions(l)'
  BY <1>2 DEF LineInv, Questions, SameAsks
<1>23. PutAcks(l)'
  BY DEF LineInv, PutAcks
<1>33. DataMsgs(l)'
  BY <1>2, <1>5, NodeSets DEF LineInv, DataMsgs, DataType
<1>24. Owners(l)'
  BY <1>8 DEF LineInv, Owners, SameBank
<1>25. OwnerFwds(l)'
  BY <1>2 DEF LineInv, OwnerFwds, OwnerFwd, SameBank
<1>26. NoCycle(l)' /\ WriteBacks(l)'
  BY <1>5, NodeSets DEF LineInv, NoCycle, WriteBacks, SameBank
<1>27. Sharers(l)'
  BY <1>8, <1>9 DEF LineInv, Sharers, SameBank
<1>28. Invs(l)' /\ InvAcks(l)'
  BY <1>3, <1>5, <1>8, NodeSets DEF LineInv, Invs, InvAcks
<1>29. AckCounts(l)'
  <2>1. \A q \in Cache : Owed(q, l)' = Owed(q, l)
    BY <1>5, NodeSets DEF Owed
  <2>. QED
    BY <1>2, <1>5, <2>1, NodeSets DEF LineInv, AckCounts, DataType
<1>30. Recalls(l)'
  <2>1. RecallOwed(l)' = RecallOwed(l)
    BY <1>5, NodeSets DEF RecallOwed, RspToDir
  <2>2. ~At(c, l, "RECALL_INV", HomeOf[l])
    BY <1>3, NodeSets DEF LineInv, Recalls, Owners, Expects
  <2>. QED
    BY <1>5, <1>8, <2>1, <2>2, NodeSets DEF LineInv, Recalls, SameBank, SameRecall
<1>31. Contents(l)'
  BY <1>2, <1>5, <1>8, NodeSets DEF LineInv, Contents, Readable, SameAsks, DataType
<1>32. BankCopy(l)'
  BY <1>2, <1>8 DEF LineInv, BankCopy, SameBank, SameRecall
<1>. QED
  BY <1>5, <1>33, <1>21, <1>22, <1>23, <1>24, <1>25, <1>26, <1>27, <1>28, <1>29, <1>30, <1>31, <1>32 DEF LineInv

---------------------------------------------------------------------------
(* A forward: a sharer recalled *)

\* Recalling a sharer keeps what must hold of its line.
LEMMA TookRecallInv ==
  ASSUME IInv, NEW c \in Cache, NEW l \in Line, NEW r \in Node, NEW n \in L1State,
         Took(c, l, "RECALL_INV", r, n), rsp' = FwdAnswers(c, Forward("RECALL_INV", l, r), l1[c][l])
  PROVE  LineInv(l)' /\ RspChannels(rsp)' /\ \A k \in Line : k # l => SameSent(k)
<1>0. LineInv(l) /\ TypeOK /\ Channels
  BY DEF IInv
<1>1. /\ At(c, l, "RECALL_INV", r) /\ r = HomeOf[l]
      /\ l1'[c][l] = n
      /\ copy'[c][l] = DropIfInvalid(c, l, n)
      /\ \A d \in Cache : mshr'[d][l] = mshr[d][l]
      /\ \A d \in Cache : d # c => l1'[d][l] = l1[d][l] /\ copy'[d][l] = copy[d][l]
      /\ \A d \in Cache : \A t2, r2 : At(d, l, t2, r2)' <=> At(d, l, t2, r2) /\ ~(d = c /\ t2 = "RECALL_INV" /\ r2 = r)
      /\ SameAsks(l) /\ SameBank(l) /\ SameRecall(l) /\ latest'[l] = latest[l]
  BY ForwardEq DEF Took, OnBehalf
<1>2. \/ l1[c][l] = "S" /\ n = "I"
      \/ l1[c][l] = "SM_AD" /\ n = "IM_AD"
      \/ l1[c][l] = "SI_A" /\ n = "II_A"
  BY FwdEvents DEF Took, FwdArcs, InvArcs
<1>3. /\ Recalled(l) /\ dir[l].state = "S" /\ c \in dir[l].sharers
      /\ ~Sent(c, HomeOf[l], l, "RECALL_ACK", 0, 0)
      /\ \A d \in Cache : ~Expects(d, l)
      /\ \A d \in Cache : ~At(c, l, "INV", d)
  <2>1. /\ Recalled(l) /\ dir[l].state = "S" /\ c \in dir[l].sharers
        /\ ~Sent(c, HomeOf[l], l, "RECALL_ACK", 0, 0)
    BY <1>0, <1>1 DEF LineInv, Recalls
  <2>2. \A d \in Cache : ~Expects(d, l)
    BY <1>0, <2>1 DEF LineInv, Owners
  <2>. QED
    BY <1>0, <2>1, <2>2 DEF LineInv, Invs, Expects
<1>4. rsp' = SendRsp(rsp, c, HomeOf[l], Response("RECALL_ACK", l, 0, 0))
  <2>1. l1[c][l] \in {"S", "SM_AD", "SI_A"}
    BY <1>2
  <2>. QED
    BY <2>1, RecallInvAnswer
<1>5. /\ \A s2, d2 \in Node : \A t, a, v :
           Sent(s2, d2, l, t, a, v)' <=>
             \/ Sent(s2, d2, l, t, a, v)
             \/ s2 = c /\ d2 = HomeOf[l] /\ t = "RECALL_ACK" /\ a = 0 /\ v = 0
      /\ \A k \in Line : k # l => SameSent(k)
      /\ RspChannels(rsp)'
  <2>1. RspFits(c, HomeOf[l], Response("RECALL_ACK", l, 0, 0))
    BY NodeSets, ResponseEq, TopologyAssumption DEF RspFits, RspToDir
  <2>2. "RECALL_ACK" \in RspType /\ rsp \in [Node -> [Node -> Seq(RspMsg)]]
    BY <1>0 DEF RspType, RspToDir, TypeOK
  <2>3. Sends(c, HomeOf[l], l, "RECALL_ACK", 0, 0)
    BY <1>0, <1>1, <1>3, <1>4, <2>1, <2>2, ZeroTypes, NodeSets DEF Channels, Sent, Sends, CanSend
  <2>. QED
    BY <2>3, SendOne
<1>7. /\ \A d \in Cache : /\ HasReq(d, l)' <=> HasReq(d, l)
                          /\ HasData(d, l)' <=> HasData(d, l)
                          /\ HasDataE(d, l)' <=> HasDataE(d, l)
                          /\ HasOwnerFwd(d, l)' <=> HasOwnerFwd(d, l)
                          /\ Waits(d, l)' <=> Waits(d, l)
                          /\ HasInv(d, l)' <=> HasInv(d, l)
      /\ WbInFlight(l)' <=> WbInFlight(l)
      /\ Exclusive(l)' <=> Exclusive(l)
      /\ Recalled(l)' <=> Recalled(l)
  <2>1. \A d \in Cache : HasReq(d, l)' <=> HasReq(d, l)
    BY <1>1, AsksFrame
  <2>2. \A d \in Cache : /\ HasData(d, l)' <=> HasData(d, l)
                         /\ HasDataE(d, l)' <=> HasDataE(d, l)
    BY <1>5, NodeSets DEF HasData, HasDataE, DataType
  <2>3. \A d \in Cache : /\ HasOwnerFwd(d, l)' <=> HasOwnerFwd(d, l)
                         /\ Waits(d, l)' <=> Waits(d, l)
                         /\ HasInv(d, l)' <=> HasInv(d, l)
    BY <1>1 DEF HasOwnerFwd, OwnerFwd, Waits, HasInv
  <2>4. WbInFlight(l)' <=> WbInFlight(l)
    BY <1>5, NodeSets DEF WbInFlight
  <2>. QED
    BY <1>1, <2>1, <2>2, <2>3, <2>4 DEF Exclusive, SameBank, SameRecall
<1>8. \A d \in Cache : /\ Own(d, l)' <=> Own(d, l)
                       /\ Expects(d, l)' <=> Expects(d, l)
                       /\ Shares(d, l)' <=> Shares(d, l) /\ d # c
  <2>1. \A d \in Cache : Own(d, l)' <=> Own(d, l)
    <3>1. Own(c, l)' <=> Own(c, l)
      BY <1>1, <1>2, <1>7 DEF Own
    <3>. QED
      BY <1>1, <1>7, <3>1 DEF Own
  <2>2. ~Shares(c, l)'
    BY <1>0, <1>1, <1>2 DEF Shares, LineInv, MshrMatches
  <2>3. \A d \in Cache : d # c => (Shares(d, l)' <=> Shares(d, l))
    BY <1>1, <1>7 DEF Shares
  <2>. QED
    BY <1>7, <2>1, <2>2, <2>3 DEF Expects
<1>. USE <1>0, <1>1, <1>7
<1>21. MshrMatches(l)'
  BY <1>2 DEF LineInv, MshrMatches, StableL1, Evicting
<1>22. Questions(l)'
  BY <1>2 DEF LineInv, Questions, SameAsks
<1>23. PutAcks(l)'
  BY DEF LineInv, PutAcks
<1>33. DataMsgs(l)'
  BY <1>2, <1>5, NodeSets DEF LineInv, DataMsgs, DataType
<1>24. Owners(l)'
  BY <1>8 DEF LineInv, Owners, SameBank
<1>25. OwnerFwds(l)'
  BY <1>2 DEF LineInv, OwnerFwds, OwnerFwd, SameBank
<1>26. NoCycle(l)' /\ WriteBacks(l)'
  BY <1>5, NodeSets DEF LineInv, NoCycle, WriteBacks, SameBank
<1>27. Sharers(l)'
  BY <1>3, <1>8 DEF LineInv, Sharers, SameBank
<1>28. Invs(l)' /\ InvAcks(l)'
  BY <1>3, <1>5, <1>8, NodeSets DEF LineInv, Invs, InvAcks
<1>29. AckCounts(l)'
  <2>1. \A q \in Cache : Owed(q, l)' = Owed(q, l)
    BY <1>5, NodeSets DEF Owed
  <2>. QED
    BY <1>2, <1>5, <2>1, NodeSets DEF LineInv, AckCounts, DataType
<1>30. Recalls(l)'
  <2>1. \A d \in Cache : d \in RecallOwed(l)' <=> d \in RecallOwed(l)
    BY <1>5, NodeSets, ZeroTypes DEF RecallOwed, RspToDir
  <2>2. RecallOwed(l)' = RecallOwed(l)
    BY <2>1 DEF RecallOwed
  <2>. QED
    BY <1>3, <1>5, <1>8, <2>2, NodeSets DEF LineInv, Recalls, SameBank, SameRecall
<1>31. Contents(l)'
  BY <1>2, <1>5, <1>8, NodeSets DEF LineInv, Contents, Readable, SameAsks, DataType
<1>32. BankCopy(l)'
  BY <1>2, <1>8 DEF LineInv, BankCopy, SameBank, SameRecall
<1>. QED
  BY <1>5, <1>33, <1>21, <1>22, <1>23, <1>24, <1>25, <1>26, <1>27, <1>28, <1>29, <1>30, <1>31, <1>32 DEF LineInv

---------------------------------------------------------------------------
(* A forward: an owner recalled *)

\* Recalling an owner keeps what must hold of its line: its data is the line's
\* last value, on its way to the bank.
LEMMA TookRecall ==
  ASSUME IInv, NEW c \in Cache, NEW l \in Line, NEW r \in Node, NEW n \in L1State,
         Took(c, l, "RECALL", r, n), rsp' = FwdAnswers(c, Forward("RECALL", l, r), l1[c][l])
  PROVE  LineInv(l)' /\ RspChannels(rsp)' /\ \A k \in Line : k # l => SameSent(k)
<1>. DEFINE v0 == copy[c][l]
<1>0. LineInv(l) /\ TypeOK /\ Channels
  BY DEF IInv
<1>1. /\ At(c, l, "RECALL", r) /\ r = HomeOf[l]
      /\ l1'[c][l] = n
      /\ copy'[c][l] = DropIfInvalid(c, l, n)
      /\ \A d \in Cache : mshr'[d][l] = mshr[d][l]
      /\ \A d \in Cache : d # c => l1'[d][l] = l1[d][l] /\ copy'[d][l] = copy[d][l]
      /\ \A d \in Cache : \A t2, r2 : At(d, l, t2, r2)' <=> At(d, l, t2, r2) /\ ~(d = c /\ t2 = "RECALL" /\ r2 = r)
      /\ SameAsks(l) /\ SameBank(l) /\ SameRecall(l) /\ latest'[l] = latest[l]
  BY ForwardEq DEF Took, OnBehalf
<1>2. \/ l1[c][l] \in {"E", "M"} /\ n = "I"
      \/ l1[c][l] \in {"EI_A", "MI_A"} /\ n = "II_A"
  BY FwdEvents DEF Took, FwdArcs, InvArcs, Evicting
<1>3. /\ Recalled(l) /\ Exclusive(l) /\ dir[l].owner = c
      /\ Own(c, l) /\ Expects(c, l) /\ mshr[c][l].op \in {"none", "EV"}
  <2>1. HasOwnerFwd(c, l)
    BY <1>1 DEF HasOwnerFwd, OwnerFwd
  <2>2. Own(c, l)
    BY <1>2, <2>1 DEF Own
  <2>3. mshr[c][l].op \in {"none", "EV"}
    BY <1>0, <1>2, StateValues DEF LineInv, MshrMatches
  <2>. QED
    BY <1>0, <1>1, <2>2, <2>3 DEF LineInv, Recalls, Expects
<1>4. /\ \A d \in Cache : d # c => ~Expects(d, l)
      /\ ~Waits(c, l)
      /\ \A t \in OwnerFwd, q \in Node : At(c, l, t, q) => t = "RECALL" /\ q = r
  <2>1. \A t \in OwnerFwd, q \in Node : At(c, l, t, q) => t = "RECALL" /\ q = r
    BY <1>0, <1>1 DEF LineInv, OwnerFwds, OwnerFwd
  <2>2. \A q \in Cache : ~At(c, l, "FWD_GETM", q)
    BY <2>1, NodeSets DEF OwnerFwd
  <2>3. \A d \in Cache : d # c => ~Expects(d, l)
    BY <1>0, <1>3, <2>2, LastOwner
  <2>4. ~Waits(c, l)
    BY <1>0, <1>3 DEF LineInv, OwnerFwds, Waits
  <2>. QED
    BY <2>1, <2>3, <2>4
<1>5. /\ ~WbInFlight(l)
      /\ \A d \in Cache, v \in Version, a \in AckField : ~Sent(d, HomeOf[l], l, "WB_DATA", a, v)
  <2>1. ~WbInFlight(l)
    BY <1>0, <1>3 DEF LineInv, Owners
  <2>. QED
    BY <1>0, <2>1 DEF LineInv, WriteBacks, WbInFlight
<1>6. v0 \in Version /\ v0 = latest[l]
  <2>1. v0 \in Version
    BY <1>0, StateValues
  <2>. QED
    BY <1>0, <1>2, <1>3, <2>1 DEF LineInv, Contents, Readable
<1>. HIDE DEF v0
<1>7. rsp' = SendRsp(rsp, c, HomeOf[l], Response("WB_DATA", l, 0, v0))
  <2>1. l1[c][l] \in {"E", "M", "EI_A", "MI_A"}
    BY <1>2
  <2>. QED
    BY <2>1, RecallAnswer DEF v0
<1>8. /\ \A s2, d2 \in Node : \A t, a, v :
           Sent(s2, d2, l, t, a, v)' <=>
             \/ Sent(s2, d2, l, t, a, v)
             \/ s2 = c /\ d2 = HomeOf[l] /\ t = "WB_DATA" /\ a = 0 /\ v = v0
      /\ \A k \in Line : k # l => SameSent(k)
      /\ RspChannels(rsp)'
  <2>1. RspFits(c, HomeOf[l], Response("WB_DATA", l, 0, v0))
    BY NodeSets, ResponseEq, TopologyAssumption DEF RspFits, RspToDir
  <2>2. "WB_DATA" \in RspType /\ rsp \in [Node -> [Node -> Seq(RspMsg)]]
    BY <1>0 DEF RspType, RspToDir, TypeOK
  <2>3. Sends(c, HomeOf[l], l, "WB_DATA", 0, v0)
    BY <1>0, <1>5, <1>6, <1>7, <2>1, <2>2, ZeroTypes, NodeSets DEF Channels, Sent, Sends, CanSend
  <2>. QED
    BY <2>3, SendOne
<1>9. /\ \A d \in Cache : /\ HasReq(d, l)' <=> HasReq(d, l)
                          /\ HasData(d, l)' <=> HasData(d, l)
                          /\ HasDataE(d, l)' <=> HasDataE(d, l)
                          /\ ~HasOwnerFwd(d, l)'
                          /\ d # c => ~HasOwnerFwd(d, l)
                          /\ ~Waits(d, l)'
                          /\ HasInv(d, l)' <=> HasInv(d, l)
      /\ WbInFlight(l)'
      /\ Exclusive(l)' /\ Recalled(l)'
  <2>1. \A d \in Cache : HasReq(d, l)' <=> HasReq(d, l)
    BY <1>1, AsksFrame
  <2>2. \A d \in Cache : /\ HasData(d, l)' <=> HasData(d, l)
                         /\ HasDataE(d, l)' <=> HasDataE(d, l)
    BY <1>8, NodeSets DEF HasData, HasDataE, DataType
  <2>3. \A d \in Cache : d # c => ~HasOwnerFwd(d, l)
    BY <1>0, <1>4 DEF LineInv, Owners
  <2>4. \A d \in Cache : ~HasOwnerFwd(d, l)'
    BY <1>1, <1>4, <2>3 DEF HasOwnerFwd
  <2>5. \A d \in Cache : ~Waits(d, l)' /\ (HasInv(d, l)' <=> HasInv(d, l))
    BY <1>1, <1>4 DEF Waits, HasInv, Expects
  <2>6. WbInFlight(l)'
    BY <1>6, <1>8, NodeSets DEF WbInFlight
  <2>. QED
    BY <1>1, <1>3, <2>1, <2>2, <2>3, <2>4, <2>5, <2>6 DEF Exclusive, SameBank, SameRecall
<1>10. \A d \in Cache : /\ ~Own(d, l)' /\ ~Expects(d, l)'
                        /\ Shares(d, l)' <=> Shares(d, l)
                        /\ ~(d = c /\ Shares(d, l))
  <2>1. ~Own(c, l)'
    BY <1>1, <1>2, <1>3 DEF Own
  <2>2. \A d \in Cache : d # c => ~Own(d, l)'
    BY <1>1, <1>4, <1>9 DEF Own, Expects
  <2>3. ~Shares(c, l)' /\ ~Shares(c, l)
    BY <1>1, <1>2, <1>3 DEF Shares
  <2>4. \A d \in Cache : d # c => (Shares(d, l)' <=> Shares(d, l))
    BY <1>1, <1>9 DEF Shares
  <2>. QED
    BY <1>9, <2>1, <2>2, <2>3, <2>4 DEF Expects
<1>11. \A d, q \in Cache : ~At(d, l, "INV", q) /\ \A a \in AckField, v \in Version : ~Sent(d, q, l, "INV_ACK", a, v)
  BY <1>0, <1>3 DEF LineInv, Invs, InvAcks, Owners
<1>. USE <1>0, <1>1, <1>9
<1>21. MshrMatches(l)'
  BY <1>2 DEF LineInv, MshrMatches, StableL1, Evicting
<1>22. Questions(l)'
  BY <1>2 DEF LineInv, Questions, SameAsks
<1>23. PutAcks(l)'
  BY DEF LineInv, PutAcks
<1>33. DataMsgs(l)'
  BY <1>2, <1>8, NodeSets DEF LineInv, DataMsgs, DataType
<1>24. Owners(l)'
  BY <1>3, <1>10 DEF LineInv, Owners, SameBank, Exclusive
<1>25. OwnerFwds(l)'
  <2>1. \A d \in Cache, t \in OwnerFwd, q \in Node : ~At(d, l, t, q)'
    BY DEF HasOwnerFwd
  <2>2. \A d \in Cache, q \in Node : ~At(d, l, "FWD_GETM", q)' /\ ~At(d, l, "FWD_GETS", q)'
    BY <2>1 DEF OwnerFwd
  <2>3. dir[l].state # "S_D"
    BY <1>3 DEF Exclusive
  <2>. QED
    BY <2>1, <2>2, <2>3, NodeSets DEF OwnerFwds, SameBank
<1>26. NoCycle(l)' /\ WriteBacks(l)'
  BY <1>5, <1>8, NodeSets DEF LineInv, NoCycle, WriteBacks, SameBank
<1>27. Sharers(l)'
  BY <1>3, <1>4, <1>10 DEF LineInv, Sharers, SameBank, Exclusive, Expects
<1>28. Invs(l)' /\ InvAcks(l)'
  BY <1>8, <1>11, NodeSets DEF Invs, InvAcks
<1>29. AckCounts(l)'
  <2>1. \A q \in Cache : Owed(q, l)' = Owed(q, l)
    BY <1>8, NodeSets DEF Owed
  <2>. QED
    BY <1>2, <1>8, <2>1, NodeSets DEF LineInv, AckCounts, DataType
<1>30. Recalls(l)'
  <2>1. \A d \in Cache : d \in RecallOwed(l)' <=> d \in RecallOwed(l)
    BY <1>6, <1>8, NodeSets, ZeroTypes DEF RecallOwed, RspToDir
  <2>2. RecallOwed(l)' = RecallOwed(l)
    BY <2>1 DEF RecallOwed
  <2>. QED
    BY <1>3, <1>8, <1>10, <2>2, NodeSets DEF LineInv, Recalls, SameBank, SameRecall, Exclusive
<1>31. Contents(l)'
  BY <1>2, <1>6, <1>8, <1>10, NodeSets DEF LineInv, Contents, Readable, SameAsks, DataType
<1>32. BankCopy(l)'
  BY <1>3, <1>10 DEF LineInv, BankCopy, SameBank, SameRecall, Exclusive
<1>. QED
  BY <1>8, <1>21, <1>22, <1>23, <1>24, <1>25, <1>26, <1>27, <1>28, <1>29, <1>30, <1>31, <1>32, <1>33 DEF LineInv

---------------------------------------------------------------------------
(* A forward: GetM *)

\* Passing a line to a store keeps what must hold of it: one owner before, one
\* after, with the last value.
LEMMA TookGetM ==
  ASSUME IInv, NEW c \in Cache, NEW l \in Line, NEW r \in Node, NEW n \in L1State,
         Took(c, l, "FWD_GETM", r, n), rsp' = FwdAnswers(c, Forward("FWD_GETM", l, r), l1[c][l])
  PROVE  LineInv(l)' /\ RspChannels(rsp)' /\ \A k \in Line : k # l => SameSent(k)
<1>. DEFINE v0 == copy[c][l]
<1>0. LineInv(l) /\ TypeOK /\ Channels
  BY DEF IInv
<1>1. /\ At(c, l, "FWD_GETM", r) /\ r \in Cache
      /\ l1'[c][l] = n
      /\ copy'[c][l] = DropIfInvalid(c, l, n)
      /\ \A d \in Cache : mshr'[d][l] = mshr[d][l]
      /\ \A d \in Cache : d # c => l1'[d][l] = l1[d][l] /\ copy'[d][l] = copy[d][l]
      /\ \A d \in Cache : \A t2, r2 : At(d, l, t2, r2)' <=> At(d, l, t2, r2) /\ ~(d = c /\ t2 = "FWD_GETM" /\ r2 = r)
      /\ SameAsks(l) /\ SameBank(l) /\ SameRecall(l) /\ latest'[l] = latest[l]
  BY ForwardEq DEF Took, OnBehalf
<1>2. \/ l1[c][l] \in {"E", "M"} /\ n = "I"
      \/ l1[c][l] \in {"EI_A", "MI_A"} /\ n = "II_A"
  BY FwdEvents DEF Took, FwdArcs, InvArcs, Evicting
<1>3. /\ Own(c, l) /\ Expects(c, l) /\ mshr[c][l].op \in {"none", "EV"}
      /\ mshr[r][l].op = "ST" /\ ~mshr[r][l].done /\ mshr[r][l].ack = 0
      /\ l1[r][l] \in {"IM_AD", "SM_AD"} /\ ~HasReq(r, l) /\ ~HasData(r, l) /\ c # r
  <2>1. HasOwnerFwd(c, l)
    BY <1>1 DEF HasOwnerFwd, OwnerFwd
  <2>2. Own(c, l)
    BY <1>2, <2>1 DEF Own
  <2>3. mshr[c][l].op \in {"none", "EV"}
    BY <1>0, <1>2, StateValues DEF LineInv, MshrMatches
  <2>. QED
    BY <1>0, <1>1, <2>2, <2>3 DEF LineInv, OwnerFwds, Expects
<1>4. /\ \A d \in Cache : d # c => ~Own(d, l) /\ ~Shares(d, l)
      /\ ~Shares(c, l)
      /\ ~Waits(c, l) /\ ~WbInFlight(l) /\ dir[l].state \notin {"I", "S"}
      /\ \A t \in OwnerFwd, q \in Node : At(c, l, t, q) => t = "FWD_GETM" /\ q = r
      /\ \A d \in Cache : At(d, l, "FWD_GETM", r) => d = c
      /\ ~(Exclusive(l) /\ dir[l].owner = c)
  <2>1. \A t \in OwnerFwd, q \in Node : At(c, l, t, q) => t = "FWD_GETM" /\ q = r
    BY <1>0, <1>1 DEF LineInv, OwnerFwds, OwnerFwd
  <2>2. \A d \in Cache : At(d, l, "FWD_GETM", r) => d = c
    BY <1>0, <1>1 DEF LineInv, OwnerFwds
  <2>3. ~Waits(c, l) /\ ~(Exclusive(l) /\ dir[l].owner = c)
    BY <1>0, <1>1, <1>3 DEF LineInv, OwnerFwds, Waits
  <2>4. ~Shares(c, l)
    BY <1>2, <1>3 DEF Shares
  <2>5. mshr[c][l].op # "ST"
    BY <1>3
  <2>. QED
    BY <1>0, <1>3, <2>1, <2>2, <2>3, <2>4, <2>5, OwnerAlone
<1>5. c \notin dir[l].sharers
  <2>. SUFFICES ASSUME c \in dir[l].sharers PROVE FALSE
    OBVIOUS
  <2>1. dir[l].state = "S_D"
    BY <1>0, <1>4 DEF LineInv, Sharers
  <2>2. PICK p, q \in Cache : At(p, l, "FWD_GETS", q)
    BY <1>0, <1>4, <2>1 DEF LineInv, OwnerFwds
  <2>3. c \in {p, q} /\ mshr[q][l].op = "LD"
    BY <1>0, <2>2 DEF LineInv, OwnerFwds
  <2>. QED
    BY <1>3, <1>4, <2>2, <2>3, NodeSets DEF OwnerFwd
<1>6. v0 \in Version /\ v0 = latest[l]
  <2>1. v0 \in Version
    BY <1>0, StateValues
  <2>. QED
    BY <1>0, <1>2, <1>3, <2>1 DEF LineInv, Contents, Readable
<1>. HIDE DEF v0
<1>7. rsp' = SendRsp(rsp, c, r, Response("DATA_OWNER", l, 0, v0))
  <2>1. l1[c][l] \in {"E", "M", "EI_A", "MI_A"}
    BY <1>2
  <2>. QED
    BY <2>1, GetMAnswer DEF v0
<1>8. /\ \A s2, d2 \in Node : \A t, a, v :
           Sent(s2, d2, l, t, a, v)' <=>
             \/ Sent(s2, d2, l, t, a, v)
             \/ s2 = c /\ d2 = r /\ t = "DATA_OWNER" /\ a = 0 /\ v = v0
      /\ \A k \in Line : k # l => SameSent(k)
      /\ RspChannels(rsp)'
  <2>1. RspFits(c, r, Response("DATA_OWNER", l, 0, v0))
    BY <1>1, NodeSets, ResponseEq, TopologyAssumption DEF RspFits
  <2>2. "DATA_OWNER" \in RspType /\ rsp \in [Node -> [Node -> Seq(RspMsg)]]
    BY <1>0 DEF RspType, RspToL1, TypeOK
  <2>3. Sends(c, r, l, "DATA_OWNER", 0, v0)
    <3>1. ~Sent(c, r, l, "DATA_OWNER", 0, v0)
      BY <1>1, <1>3, <1>6, NodeSets, ZeroTypes DEF HasData, DataType
    <3>. QED
      BY <1>0, <1>1, <1>6, <1>7, <2>1, <2>2, <3>1, ZeroTypes, NodeSets DEF Channels, Sent, Sends, CanSend
  <2>. QED
    BY <2>3, SendOne
<1>9. /\ \A d \in Cache : /\ HasReq(d, l)' <=> HasReq(d, l)
                          /\ d # r => (HasData(d, l)' <=> HasData(d, l))
                          /\ HasDataE(d, l)' <=> HasDataE(d, l)
                          /\ HasOwnerFwd(d, l)' <=> HasOwnerFwd(d, l) /\ d # c
                          /\ Waits(d, l)' <=> Waits(d, l) /\ d # r
                          /\ HasInv(d, l)' <=> HasInv(d, l)
      /\ HasData(r, l)'
      /\ WbInFlight(l)' <=> WbInFlight(l)
      /\ Exclusive(l)' <=> Exclusive(l)
      /\ Recalled(l)' <=> Recalled(l)
  <2>1. \A d \in Cache : HasReq(d, l)' <=> HasReq(d, l)
    BY <1>1, AsksFrame
  <2>2. /\ \A d \in Cache : /\ d # r => (HasData(d, l)' <=> HasData(d, l))
                            /\ HasDataE(d, l)' <=> HasDataE(d, l)
        /\ HasData(r, l)'
    BY <1>1, <1>6, <1>8, NodeSets, ZeroTypes DEF HasData, HasDataE, DataType
  <2>3. \A d \in Cache : HasOwnerFwd(d, l)' <=> HasOwnerFwd(d, l) /\ d # c
    BY <1>1, <1>4 DEF HasOwnerFwd
  <2>4. \A d \in Cache : /\ Waits(d, l)' <=> Waits(d, l) /\ d # r
                         /\ HasInv(d, l)' <=> HasInv(d, l)
    BY <1>1, <1>4 DEF Waits, HasInv
  <2>5. WbInFlight(l)' <=> WbInFlight(l)
    BY <1>8, NodeSets DEF WbInFlight
  <2>. QED
    BY <1>1, <2>1, <2>2, <2>3, <2>4, <2>5 DEF Exclusive, SameBank, SameRecall
<1>10. \A d \in Cache : /\ Own(d, l)' <=> d = r
                        /\ Expects(d, l)' <=> Expects(d, l) /\ d # c
                        /\ ~Shares(d, l)'
  <2>1. ~Own(c, l)'
    BY <1>1, <1>2, <1>3 DEF Own
  <2>2. Own(r, l)' /\ Waits(r, l)
    BY <1>1, <1>3, <1>9 DEF Own, Waits
  <2>3. \A d \in Cache : d # c /\ d # r => ~Own(d, l)'
    BY <1>1, <1>4, <1>9 DEF Own
  <2>4. ~Shares(c, l)'
    BY <1>1, <1>2, <1>3 DEF Shares
  <2>5. \A d \in Cache : d # c /\ d # r => ~Shares(d, l)'
    BY <1>1, <1>4, <1>9 DEF Shares
  <2>6. ~Shares(r, l)'
    BY <1>1, <1>3, <1>4, <1>9 DEF Shares
  <2>7. \A d \in Cache : Own(d, l)' <=> d = r
    BY <2>1, <2>2, <2>3
  <2>8. \A d \in Cache : Expects(d, l)' <=> Expects(d, l) /\ d # c
    BY <1>1, <1>3, <1>4, <1>9, <2>2, <2>7 DEF Expects
  <2>. QED
    BY <2>4, <2>5, <2>6, <2>7, <2>8
<1>11. \A d, q \in Cache : ~At(d, l, "INV", q) /\ \A a \in AckField, v \in Version : ~Sent(d, q, l, "INV_ACK", a, v)
  BY <1>0, <1>3 DEF LineInv, Invs, InvAcks, Owners
<1>12. \A s \in Node, t \in DataType, a \in AckField, v \in Version : ~Sent(s, r, l, t, a, v)
  BY <1>3 DEF HasData
<1>. USE <1>0, <1>1, <1>9
<1>21. MshrMatches(l)'
  BY <1>2 DEF LineInv, MshrMatches, StableL1, Evicting
<1>22. Questions(l)'
  BY <1>2, <1>3 DEF LineInv, Questions, SameAsks, HasReq
<1>23. PutAcks(l)'
  BY DEF LineInv, PutAcks
<1>33. DataMsgs(l)'
  BY <1>2, <1>3, <1>8, <1>12, NodeSets DEF LineInv, DataMsgs, DataType
<1>24. Owners(l)'
  BY <1>4, <1>10 DEF LineInv, Owners, SameBank
<1>25. OwnerFwds(l)'
  <2>1. \A d \in Cache, t \in OwnerFwd, q \in Node : At(d, l, t, q)' => At(d, l, t, q) /\ d # c
    BY <1>4
  <2>2. \A d \in Cache, q \in Node : At(d, l, "FWD_GETS", q)' <=> At(d, l, "FWD_GETS", q)
    BY <1>1
  <2>3. \A d, q \in Cache : At(d, l, "FWD_GETM", q)' => At(d, l, "FWD_GETM", q) /\ q # r
    BY <1>4
  <2>. QED
    BY <1>2, <1>3, <2>1, <2>2, <2>3, NodeSets DEF LineInv, OwnerFwds, SameBank
<1>26. NoCycle(l)' /\ WriteBacks(l)'
  BY <1>8, NodeSets DEF LineInv, NoCycle, WriteBacks, SameBank
<1>27. Sharers(l)'
  BY <1>5, <1>10 DEF LineInv, Sharers, SameBank
<1>28. Invs(l)' /\ InvAcks(l)'
  BY <1>8, <1>11, NodeSets DEF Invs, InvAcks
<1>29. AckCounts(l)'
  <2>1. \A q \in Cache : Owed(q, l)' = Owed(q, l)
    BY <1>8, NodeSets DEF Owed
  <2>2. Owed(r, l) = {}
    BY <1>1, <1>11, ZeroTypes DEF Owed
  <2>3. Cardinality(Owed(r, l)') = 0
    BY <2>1, <2>2, FS_EmptySet
  <2>4. \A s \in Node, t \in DataType, a \in AckField, v \in Version : Sent(s, r, l, t, a, v)' => a = 0
    BY <1>8, <1>12, NodeSets
  <2>. QED
    BY <1>2, <1>3, <1>8, <2>1, <2>3, <2>4, NodeSets DEF LineInv, AckCounts, DataType
<1>30. Recalls(l)'
  <2>1. RecallOwed(l)' = RecallOwed(l)
    BY <1>8, NodeSets DEF RecallOwed, RspToDir
  <2>. QED
    BY <1>2, <1>8, <1>10, <2>1, NodeSets DEF LineInv, Recalls, SameBank, SameRecall, Invalidatable
<1>31. Contents(l)'
  BY <1>2, <1>3, <1>6, <1>8, <1>10, NodeSets DEF LineInv, Contents, Readable, SameAsks, DataType,
     HasReq, ReqType
<1>32. BankCopy(l)'
  BY <1>3, <1>4, <1>10 DEF LineInv, BankCopy, SameBank, SameRecall
<1>. QED
  BY <1>8, <1>21, <1>22, <1>23, <1>24, <1>25, <1>26, <1>27, <1>28, <1>29, <1>30, <1>31, <1>32, <1>33 DEF LineInv

---------------------------------------------------------------------------
(* A forward: GetS *)

\* Passing a line to a load keeps what must hold of it: the bank waits for the
\* data that goes back, and nobody may write.
LEMMA TookGetS ==
  ASSUME IInv, NEW c \in Cache, NEW l \in Line, NEW r \in Node, NEW n \in L1State,
         Took(c, l, "FWD_GETS", r, n), rsp' = FwdAnswers(c, Forward("FWD_GETS", l, r), l1[c][l])
  PROVE  LineInv(l)' /\ RspChannels(rsp)' /\ \A k \in Line : k # l => SameSent(k)
<1>. DEFINE v0 == copy[c][l]
<1>0. LineInv(l) /\ TypeOK /\ Channels
  BY DEF IInv
<1>1. /\ At(c, l, "FWD_GETS", r) /\ r \in Cache
      /\ l1'[c][l] = n
      /\ copy'[c][l] = DropIfInvalid(c, l, n)
      /\ \A d \in Cache : mshr'[d][l] = mshr[d][l]
      /\ \A d \in Cache : d # c => l1'[d][l] = l1[d][l] /\ copy'[d][l] = copy[d][l]
      /\ \A d \in Cache : \A t2, r2 : At(d, l, t2, r2)' <=> At(d, l, t2, r2) /\ ~(d = c /\ t2 = "FWD_GETS" /\ r2 = r)
      /\ SameAsks(l) /\ SameBank(l) /\ SameRecall(l) /\ latest'[l] = latest[l]
  BY ForwardEq DEF Took, OnBehalf
<1>2. \/ l1[c][l] \in {"E", "M"} /\ n = "S"
      \/ l1[c][l] \in {"EI_A", "MI_A"} /\ n = "SI_A"
  BY FwdEvents DEF Took, FwdArcs, InvArcs, Evicting
<1>3. /\ Own(c, l) /\ Expects(c, l) /\ mshr[c][l].op \in {"none", "EV"}
      /\ dir[l].state = "S_D" /\ r \in dir[l].sharers /\ dir[l].sharers \subseteq {c, r}
      /\ c \in dir[l].sharers \/ At(c, l, "PUT_ACK", c)
      /\ mshr[r][l].op = "LD" /\ ~mshr[r][l].done /\ l1[r][l] = "IS_D"
      /\ ~HasReq(r, l) /\ ~HasData(r, l) /\ c # r
  <2>1. HasOwnerFwd(c, l)
    BY <1>1 DEF HasOwnerFwd, OwnerFwd
  <2>2. Own(c, l)
    BY <1>2, <2>1 DEF Own
  <2>3. mshr[c][l].op \in {"none", "EV"}
    BY <1>0, <1>2, StateValues DEF LineInv, MshrMatches
  <2>4. /\ dir[l].state = "S_D" /\ r \in dir[l].sharers /\ dir[l].sharers \subseteq {c, r}
        /\ c \in dir[l].sharers \/ At(c, l, "PUT_ACK", c)
        /\ mshr[r][l].op = "LD" /\ ~mshr[r][l].done
        /\ ~HasReq(r, l) /\ ~HasData(r, l)
    BY <1>0, <1>1 DEF LineInv, OwnerFwds
  <2>. QED
    BY <1>0, <1>1, <2>2, <2>3, <2>4 DEF LineInv, MshrMatches, Expects
<1>4. /\ \A d \in Cache : d # c => ~Own(d, l) /\ ~Shares(d, l) /\ ~Expects(d, l)
      /\ ~Shares(c, l)
      /\ ~Waits(c, l) /\ ~WbInFlight(l)
      /\ \A t \in OwnerFwd, q \in Node : At(c, l, t, q) => t = "FWD_GETS" /\ q = r
  <2>1. \A t \in OwnerFwd, q \in Node : At(c, l, t, q) => t = "FWD_GETS" /\ q = r
    BY <1>0, <1>1 DEF LineInv, OwnerFwds, OwnerFwd
  <2>2. ~Waits(c, l)
    BY <1>0, <1>3 DEF LineInv, OwnerFwds, Waits
  <2>3. \A q \in Cache : ~At(c, l, "FWD_GETM", q)
    BY <2>1, NodeSets DEF OwnerFwd
  <2>4. ~Shares(c, l)
    BY <1>2, <1>3 DEF Shares
  <2>5. mshr[c][l].op # "ST"
    BY <1>3
  <2>6. \A d \in Cache : d # c => ~Expects(d, l)
    BY <1>0, <1>3, <2>3, LastOwner
  <2>. QED
    BY <1>0, <1>3, <2>1, <2>2, <2>4, <2>5, <2>6, OwnerAlone
<1>5. \A d \in Cache, v \in Version, a \in AckField : ~Sent(d, HomeOf[l], l, "WB_DATA", a, v)
  BY <1>0, <1>4 DEF LineInv, WriteBacks, WbInFlight
<1>6. v0 \in Version /\ v0 = latest[l]
  <2>1. v0 \in Version
    BY <1>0, StateValues
  <2>. QED
    BY <1>0, <1>2, <1>3, <2>1 DEF LineInv, Contents, Readable
<1>. HIDE DEF v0
<1>7. rsp' = SendRsp(SendRsp(rsp, c, r, Response("DATA_OWNER", l, 0, v0)),
                     c, HomeOf[l], Response("WB_DATA", l, 0, v0))
  <2>1. l1[c][l] \in {"E", "M", "EI_A", "MI_A"}
    BY <1>2
  <2>. QED
    BY <2>1, GetSAnswer DEF v0
<1>8. /\ \A s2, d2 \in Node : \A t, a, v :
           Sent(s2, d2, l, t, a, v)' <=>
             \/ Sent(s2, d2, l, t, a, v)
             \/ s2 = c /\ d2 = r /\ t = "DATA_OWNER" /\ a = 0 /\ v = v0
             \/ s2 = c /\ d2 = HomeOf[l] /\ t = "WB_DATA" /\ a = 0 /\ v = v0
      /\ \A k \in Line : k # l => SameSent(k)
      /\ RspChannels(rsp)'
  <2>1. /\ RspFits(c, r, Response("DATA_OWNER", l, 0, v0))
        /\ RspFits(c, HomeOf[l], Response("WB_DATA", l, 0, v0))
    BY <1>1, NodeSets, ResponseEq, TopologyAssumption DEF RspFits, RspToDir
  <2>2. {"DATA_OWNER", "WB_DATA"} \subseteq RspType /\ rsp \in [Node -> [Node -> Seq(RspMsg)]]
    BY <1>0 DEF RspType, RspToL1, RspToDir, TypeOK
  <2>3. ~Sent(c, r, l, "DATA_OWNER", 0, v0)
    BY <1>1, <1>3, <1>6, NodeSets, ZeroTypes DEF HasData, DataType
  <2>4. ~Sent(c, HomeOf[l], l, "WB_DATA", 0, v0)
    BY <1>5, <1>6, ZeroTypes
  <2>5. CanSend(rsp, c, r, l, "DATA_OWNER", 0, v0) /\ CanSend(rsp, c, HomeOf[l], l, "WB_DATA", 0, v0)
    BY <1>0, <1>1, <1>6, <2>1, <2>2, <2>3, <2>4, ZeroTypes, NodeSets DEF Channels, Sent, CanSend
  <2>6. SendsTwo(c, r, "DATA_OWNER", HomeOf[l], "WB_DATA", l, 0, v0)
    BY <1>1, <1>7, <2>5, NodeSets DEF SendsTwo
  <2>. QED
    BY <2>6, SendTwo
<1>9. /\ \A d \in Cache : /\ HasReq(d, l)' <=> HasReq(d, l)
                          /\ d # r => (HasData(d, l)' <=> HasData(d, l))
                          /\ HasDataE(d, l)' <=> HasDataE(d, l)
                          /\ ~HasOwnerFwd(d, l)' /\ ~Waits(d, l)'
                          /\ HasInv(d, l)' <=> HasInv(d, l)
      /\ HasData(r, l)' /\ ~HasDataE(r, l)
      /\ WbInFlight(l)'
      /\ ~Exclusive(l)' /\ ~Recalled(l)' /\ ~Recalled(l)
  <2>1. \A d \in Cache : HasReq(d, l)' <=> HasReq(d, l)
    BY <1>1, AsksFrame
  <2>2. /\ \A d \in Cache : /\ d # r => (HasData(d, l)' <=> HasData(d, l))
                            /\ HasDataE(d, l)' <=> HasDataE(d, l)
        /\ HasData(r, l)' /\ ~HasDataE(r, l)
    BY <1>1, <1>3, <1>6, <1>8, NodeSets, ZeroTypes DEF HasData, HasDataE, DataType
  <2>3. \A d \in Cache : d # c => ~HasOwnerFwd(d, l)
    BY <1>0, <1>4 DEF LineInv, Owners
  <2>4. \A d \in Cache : ~HasOwnerFwd(d, l)'
    BY <1>1, <1>4, <2>3 DEF HasOwnerFwd
  <2>5. \A d \in Cache : ~Waits(d, l)' /\ (HasInv(d, l)' <=> HasInv(d, l))
    BY <1>1, <1>4 DEF Waits, HasInv, Expects
  <2>6. WbInFlight(l)'
    BY <1>6, <1>8, NodeSets DEF WbInFlight
  <2>7. ~Recalled(l)
    BY <1>0, <1>3 DEF LineInv, Recalls
  <2>. QED
    BY <1>1, <1>3, <2>1, <2>2, <2>4, <2>5, <2>6, <2>7 DEF Exclusive, SameBank, SameRecall
<1>10. \A d \in Cache : /\ ~Own(d, l)' /\ ~Expects(d, l)'
                        /\ Shares(d, l)' => d = r \/ (d = c /\ n = "S")
  <2>1. ~Own(c, l)'
    BY <1>1, <1>2, <1>3 DEF Own
  <2>2. ~Own(r, l)'
    BY <1>1, <1>3, <1>9 DEF Own
  <2>3. \A d \in Cache : d # c /\ d # r => ~Own(d, l)'
    BY <1>1, <1>4, <1>9 DEF Own
  <2>4. Shares(c, l)' => n = "S"
    BY <1>1, <1>2, <1>3 DEF Shares
  <2>5. \A d \in Cache : d # c /\ d # r => ~Shares(d, l)'
    BY <1>1, <1>4, <1>9 DEF Shares
  <2>. QED
    BY <1>9, <2>1, <2>2, <2>3, <2>4, <2>5 DEF Expects
<1>11. \A d, q \in Cache : ~At(d, l, "INV", q) /\ \A a \in AckField, v \in Version : ~Sent(d, q, l, "INV_ACK", a, v)
  BY <1>0, <1>3 DEF LineInv, Invs, InvAcks, Owners
<1>12. \A s \in Node, t \in DataType, a \in AckField, v \in Version : ~Sent(s, r, l, t, a, v)
  BY <1>3 DEF HasData
<1>13. n = "S" => c \in dir[l].sharers
  BY <1>0, <1>2, <1>3 DEF LineInv, PutAcks, MshrMatches, Evicting
<1>. USE <1>0, <1>1, <1>9
<1>21. MshrMatches(l)'
  BY <1>2 DEF LineInv, MshrMatches, StableL1, Evicting
<1>22. Questions(l)'
  BY <1>2, <1>3 DEF LineInv, Questions, SameAsks, HasReq
<1>23. PutAcks(l)'
  BY DEF LineInv, PutAcks
<1>33. DataMsgs(l)'
  BY <1>2, <1>3, <1>8, <1>12, NodeSets DEF LineInv, DataMsgs, DataType
<1>24. Owners(l)'
  BY <1>3, <1>10 DEF Owners, SameBank
<1>25. OwnerFwds(l)'
  <2>1. \A d \in Cache, t \in OwnerFwd, q \in Node : ~At(d, l, t, q)'
    BY DEF HasOwnerFwd
  <2>2. \A d \in Cache, q \in Node : ~At(d, l, "FWD_GETM", q)' /\ ~At(d, l, "FWD_GETS", q)'
    BY <2>1 DEF OwnerFwd
  <2>. QED
    BY <2>1, <2>2, NodeSets DEF OwnerFwds, SameBank
<1>26. NoCycle(l)' /\ WriteBacks(l)'
  BY <1>3, <1>5, <1>8, NodeSets DEF LineInv, NoCycle, WriteBacks, SameBank
<1>27. Sharers(l)'
  BY <1>2, <1>3, <1>10, <1>13 DEF LineInv, Sharers, SameBank, Invalidatable
<1>28. Invs(l)' /\ InvAcks(l)'
  BY <1>8, <1>11, NodeSets DEF Invs, InvAcks
<1>29. AckCounts(l)'
  <2>1. \A q \in Cache : Owed(q, l)' = Owed(q, l)
    BY <1>8, NodeSets DEF Owed
  <2>. QED
    BY <1>2, <1>3, <1>8, <2>1, NodeSets DEF LineInv, AckCounts, DataType
<1>30. Recalls(l)'
  <2>1. \A k : ~RecallCount(l, k)'
    BY <1>1 DEF RecallCount, Recalled, Recalling, SameRecall
  <2>. QED
    BY <1>3, <1>8, <2>1, NodeSets DEF LineInv, Recalls, SameBank, SameRecall
<1>31. Contents(l)'
  BY <1>2, <1>3, <1>6, <1>8, <1>10, NodeSets DEF LineInv, Contents, Readable, SameAsks, DataType, DropIfInvalid
<1>32. BankCopy(l)'
  BY <1>3, <1>4, <1>10 DEF LineInv, BankCopy, SameBank, SameRecall, NoMeta
<1>. QED
  BY <1>8, <1>21, <1>22, <1>23, <1>24, <1>25, <1>26, <1>27, <1>28, <1>29, <1>30, <1>31, <1>32, <1>33 DEF LineInv

---------------------------------------------------------------------------
(* A forward: PutAck *)

\* A PutAck ends an eviction that nothing else is in flight for.
LEMMA TookPutAck ==
  ASSUME IInv, NEW c \in Cache, NEW l \in Line, NEW r \in Node, NEW n \in L1State,
         Took(c, l, "PUT_ACK", r, n), rsp' = FwdAnswers(c, Forward("PUT_ACK", l, r), l1[c][l])
  PROVE  LineInv(l)' /\ RspChannels(rsp)' /\ \A k \in Line : k # l => SameSent(k)
<1>0. LineInv(l) /\ TypeOK /\ Channels
  BY DEF IInv
<1>1. /\ At(c, l, "PUT_ACK", r) /\ r = c
      /\ l1'[c][l] = n
      /\ copy'[c][l] = DropIfInvalid(c, l, n)
      /\ \A d \in Cache : d # c => l1'[d][l] = l1[d][l] /\ copy'[d][l] = copy[d][l] /\ mshr'[d][l] = mshr[d][l]
      /\ \A t, q : At(c, l, t, q) => t = "PUT_ACK" /\ q = c
      /\ mshr'[c][l].op = mshr[c][l].op /\ mshr'[c][l].done
      /\ \A d \in Cache : \A t2, r2 : At(d, l, t2, r2)' <=> At(d, l, t2, r2) /\ ~(d = c /\ t2 = "PUT_ACK" /\ r2 = r)
      /\ SameAsks(l) /\ SameBank(l) /\ SameRecall(l) /\ latest'[l] = latest[l]
  BY ForwardEq DEF Took, OnBehalf
<1>2. l1[c][l] \in Evicting /\ n = "I"
  BY FwdEvents DEF Took, FwdArcs, InvArcs
<1>3. /\ mshr[c][l].op = "EV" /\ ~mshr[c][l].done
      /\ \A t \in ReqType, v \in Version : ~Asks(c, l, t, v)
      /\ ~HasReq(c, l) /\ ~HasData(c, l) /\ ~HasDataE(c, l)
      /\ \A s \in Node, t \in DataType, a \in AckField, v \in Version : ~Sent(s, c, l, t, a, v)
  <2>1. mshr[c][l].op = "EV" /\ ~mshr[c][l].done
    BY <1>0, <1>1 DEF LineInv, PutAcks
  <2>2. \A t \in ReqType, v \in Version : ~Asks(c, l, t, v)
    BY <1>0, <1>1 DEF LineInv, Questions
  <2>3. \A s \in Node, t \in DataType, a \in AckField, v \in Version : ~Sent(s, c, l, t, a, v)
    BY <1>0, <2>1 DEF LineInv, DataMsgs
  <2>. QED
    BY <2>1, <2>2, <2>3, ZeroTypes DEF HasReq, HasData, HasDataE, DataType
<1>4. SameSent(l) /\ rsp' = rsp /\ \A k \in Line : SameSent(k)
  BY PutAckAnswer DEF SameSent, Sent
<1>5. RspChannels(rsp)'
  BY <1>0, <1>4 DEF Channels, RspChannels
<1>6. /\ \A d \in Cache : /\ HasReq(d, l)' <=> HasReq(d, l)
                          /\ HasData(d, l)' <=> HasData(d, l)
                          /\ HasDataE(d, l)' <=> HasDataE(d, l)
                          /\ HasOwnerFwd(d, l)' <=> HasOwnerFwd(d, l)
                          /\ Waits(d, l)' <=> Waits(d, l)
                          /\ HasInv(d, l)' <=> HasInv(d, l)
      /\ ~HasOwnerFwd(c, l)
      /\ WbInFlight(l)' <=> WbInFlight(l)
      /\ Exclusive(l)' <=> Exclusive(l)
      /\ Recalled(l)' <=> Recalled(l)
  <2>1. /\ \A d \in Cache : /\ HasOwnerFwd(d, l)' <=> HasOwnerFwd(d, l)
                            /\ Waits(d, l)' <=> Waits(d, l)
                            /\ HasInv(d, l)' <=> HasInv(d, l)
        /\ ~HasOwnerFwd(c, l)
    BY <1>1 DEF HasOwnerFwd, OwnerFwd, Waits, HasInv
  <2>. QED
    BY <1>1, <1>4, <2>1, AsksFrame, SentFrame DEF Exclusive, SameBank, SameRecall
<1>7. /\ ~Own(c, l) /\ ~Shares(c, l)
      /\ \A d \in Cache : /\ Own(d, l)' <=> Own(d, l)
                          /\ Expects(d, l)' <=> Expects(d, l)
                          /\ Shares(d, l)' <=> Shares(d, l)
  <2>1. ~Own(c, l) /\ ~Own(c, l)' /\ ~Shares(c, l) /\ ~Shares(c, l)'
    BY <1>1, <1>2, <1>3, <1>6 DEF Own, Shares, Evicting
  <2>2. \A d \in Cache : /\ Own(d, l)' <=> Own(d, l)
                         /\ Shares(d, l)' <=> Shares(d, l)
    BY <1>1, <1>6, <2>1 DEF Own, Shares
  <2>. QED
    BY <1>6, <2>1, <2>2 DEF Expects
<1>. USE <1>0, <1>1, <1>6
<1>21. MshrMatches(l)'
  BY <1>2, <1>3 DEF LineInv, MshrMatches
<1>22. Questions(l)'
  BY <1>3 DEF LineInv, Questions, SameAsks
<1>23. PutAcks(l)' /\ DataMsgs(l)'
  BY <1>3, <1>4, NodeSets DEF LineInv, PutAcks, DataMsgs, SameSent
<1>24. Owners(l)'
  BY <1>7 DEF LineInv, Owners, SameBank
<1>25. OwnerFwds(l)'
  <2>1. ~Waits(c, l) /\ \A p \in Cache : ~At(p, l, "FWD_GETS", c)
    BY <1>3 DEF LineInv, OwnerFwds, Waits
  <2>2. \A p \in Cache, t \in OwnerFwd, q \in Node : At(p, l, t, q)' <=> At(p, l, t, q)
    BY DEF OwnerFwd
  <2>3. \A p \in Cache : \A q : (At(p, l, "FWD_GETM", q)' <=> At(p, l, "FWD_GETM", q))
                             /\ (At(p, l, "FWD_GETS", q)' <=> At(p, l, "FWD_GETS", q))
    OBVIOUS
  <2>4. \A p \in Cache : At(p, l, "PUT_ACK", p) /\ p # c => At(p, l, "PUT_ACK", p)'
    OBVIOUS
  <2>. QED
    BY <2>1, <2>2, <2>3, <2>4 DEF LineInv, OwnerFwds, SameBank, Waits
<1>26. NoCycle(l)' /\ WriteBacks(l)'
  BY <1>4, NodeSets DEF LineInv, NoCycle, WriteBacks, SameBank, SameSent
<1>27. Sharers(l)'
  BY <1>7 DEF LineInv, Sharers, SameBank
<1>28. Invs(l)' /\ InvAcks(l)'
  BY <1>3, <1>4, <1>7, NodeSets DEF LineInv, Invs, InvAcks, SameSent
<1>29. AckCounts(l)'
  <2>1. \A q \in Cache : Owed(q, l)' = Owed(q, l)
    BY <1>4, NodeSets DEF Owed, SameSent
  <2>. QED
    BY <1>3, <1>4, <2>1, NodeSets DEF LineInv, AckCounts, SameSent
<1>30. Recalls(l)'
  <2>1. RecallOwed(l)' = RecallOwed(l)
    BY <1>4, NodeSets DEF RecallOwed, SameSent
  <2>. QED
    BY <1>4, <1>7, <2>1, NodeSets DEF LineInv, Recalls, SameBank, SameRecall, SameSent
<1>31. Contents(l)'
  BY <1>2, <1>3, <1>4, <1>7, NodeSets DEF LineInv, Contents, Readable, SameAsks, SameSent
<1>32. BankCopy(l)'
  BY <1>7 DEF LineInv, BankCopy, SameBank, SameRecall
<1>. QED
  BY <1>4, <1>5, <1>21, <1>22, <1>23, <1>24, <1>25, <1>26, <1>27, <1>28, <1>29, <1>30, <1>31, <1>32 DEF LineInv

\* Taking any forward keeps what must hold of its line, and touches no other.
LEMMA TakeForwardLine ==
  ASSUME IInv, NEW c \in Cache, NEW h \in Home, TakeForward(c, h)
  PROVE  \E l \in Line : LineInv(l)' /\ KeepsOthers(l)
<1>1. PICK l \in Line, t \in FwdType, r \in Node, n \in L1State :
           /\ Took(c, l, t, r, n)
           /\ rsp' = FwdAnswers(c, Forward(t, l, r), l1[c][l])
           /\ \A k \in Line : k # l => SameButSent(k)
           /\ ReqChannels' /\ FwdChannels' /\ Banks'
  BY TakeForwardTook
<1>2. LineInv(l)' /\ RspChannels(rsp)' /\ \A k \in Line : k # l => SameSent(k)
  <2>1. t \in {"FWD_GETS", "FWD_GETM", "INV", "PUT_ACK", "RECALL", "RECALL_INV"}
    BY DEF FwdType
  <2>. QED
    BY <1>1, <2>1, TookInv, TookRecallInv, TookRecall, TookGetM, TookGetS, TookPutAck
<1>3. KeepsOthers(l)
  BY <1>1, <1>2 DEF KeepsOthers, SameButSent, SameLine, Channels
<1>. QED
  BY <1>2, <1>3

---------------------------------------------------------------------------
(* A response: what it does *)

\* Everything about line k stays, but for VN2.
SameButRsp(k) ==
    /\ SameAsks(k) /\ SameAt(k) /\ SameCaches(k) /\ SameBank(k) /\ SameRecall(k)
    /\ latest'[k] = latest[k]

\* Cache c has taken response t with count a and data v about line l from s, by the arc to n.
Landed(c, l, s, t, a, v, n) ==
    /\ Sent(s, c, l, t, a, v) /\ RspFits(s, c, Response(t, l, a, v))
    /\ \A s2, d2 \in Node : \A t2, a2, v2 :
         Sent(s2, d2, l, t2, a2, v2)' <=>
           Sent(s2, d2, l, t2, a2, v2) /\ ~(s2 = s /\ d2 = c /\ t2 = t /\ a2 = a /\ v2 = v)
    /\ mshr[c][l].op # "none" /\ <<l1[c][l], RspEventOf(t, a), n>> \in RspArcs
    /\ \A d \in Cache : d # c => l1'[d][l] = l1[d][l] /\ mshr'[d][l] = mshr[d][l]
    /\ \A d \in Cache : copy'[d][l] = copy[d][l]
    /\ SameAsks(l) /\ SameAt(l) /\ SameBank(l) /\ SameRecall(l) /\ latest'[l] = latest[l]

\* ... and what becomes of its transaction.
Answered(c, l, t, a, v, n) ==
    LET e == RspEventOf(t, a)
        k == AckAfter(mshr[c][l], Response(t, l, a, v), e)
        all == n \in {"IM_A", "SM_A"} /\ k = 0
        fin == Completes(e) \/ all
    IN  /\ mshr'[c][l].op = mshr[c][l].op
        /\ mshr'[c][l].ack = k
        /\ mshr'[c][l].done = fin
        /\ mshr'[c][l].fin = (IF all THEN "M" ELSE IF fin THEN n ELSE mshr[c][l].fin)
        /\ mshr'[c][l].data = (IF FillsData(e) THEN v ELSE mshr[c][l].data)
        /\ l1'[c][l] = (IF fin THEN l1[c][l] ELSE n)

\* What taking a response does, by its line, type, count and data.
LEMMA TakeResponseLanded ==
  ASSUME IInv, NEW c \in Cache, NEW s \in Node, TakeResponse(c, s)
  PROVE  \E l \in Line, t \in RspType, a \in AckField, v \in Version, n \in L1State :
           /\ Landed(c, l, s, t, a, v, n) /\ Answered(c, l, t, a, v, n)
           /\ \A k \in Line : k # l => SameLine(k)
           /\ Channels' /\ Banks'
<1>. PICK m : m = Head(rsp[s][c])
  OBVIOUS
<1>0. TypeOK /\ Channels /\ Banks
  BY DEF IInv
<1>1. TakesRsp(s, c, m, rsp') /\ UNCHANGED <<copy, dir, l2, mem, tbe, binv, req, fwd, stuckReq, stuckFwd, latest>>
  BY <1>0, NodeSets DEF TakeResponse, dirVars, TakesRsp, RspTail, Channels
<1>2. /\ m \in RspMsg /\ RspFits(s, c, m)
      /\ Sent(s, c, m.line, m.type, m.ack, m.data)
      /\ \A s2, d2 \in Node : \A t, a, v :
           Sent(s2, d2, m.line, t, a, v)' <=>
             /\ Sent(s2, d2, m.line, t, a, v)
             /\ ~(s2 = s /\ d2 = c /\ t = m.type /\ a = m.ack /\ v = m.data)
      /\ \A k \in Line : k # m.line => SameSent(k)
      /\ RspChannels(rsp)'
  <2>1. TakesRsp(s, c, m, rsp')
    BY <1>1
  <2>2. TookOne(s, c, m)
    BY <2>1, TakeOne
  <2>. QED
    BY <2>2 DEF TookOne
<1>3. m.line \in Line /\ m.type \in RspType /\ m.ack \in AckField /\ m.data \in Version
      /\ m = Response(m.type, m.line, m.ack, m.data)
  BY <1>2 DEF RspMsg, Response
<1>. DEFINE l == m.line
            e == RspEventOf(m.type, m.ack)
            k0 == AckAfter(mshr[c][m.line], m, e)
<1>4. PICK n \in L1State :
        LET all == n \in {"IM_A", "SM_A"} /\ k0 = 0
            fin == Completes(e) \/ all
        IN  /\ mshr[c][l].op # "none"
            /\ <<l1[c][l], e, n>> \in RspArcs
            /\ mshr' = [mshr EXCEPT ![c][l] =
                       [op |-> mshr[c][l].op, ack |-> k0, done |-> fin,
                        fin |-> IF all THEN "M" ELSE IF fin THEN n ELSE mshr[c][l].fin,
                        data |-> IF FillsData(e) THEN m.data ELSE mshr[c][l].data]]
            /\ l1' = IF fin THEN l1 ELSE [l1 EXCEPT ![c][l] = n]
  BY DEF TakeResponse
<1>. DEFINE all0 == n \in {"IM_A", "SM_A"} /\ k0 = 0
            fin0 == Completes(e) \/ all0
            x0 == [op |-> mshr[c][l].op, ack |-> k0, done |-> fin0,
                        fin |-> IF all0 THEN "M" ELSE IF fin0 THEN n ELSE mshr[c][l].fin,
                        data |-> IF FillsData(e) THEN m.data ELSE mshr[c][l].data]
<1>5. /\ mshr[c][l].op # "none" /\ <<l1[c][l], e, n>> \in RspArcs
      /\ mshr' = [mshr EXCEPT ![c][l] = x0]
      /\ l1' = IF fin0 THEN l1 ELSE [l1 EXCEPT ![c][l] = n]
  BY <1>4
<1>6. /\ x0.op = mshr[c][l].op /\ x0.ack = k0 /\ x0.done = fin0
      /\ x0.fin = (IF all0 THEN "M" ELSE IF fin0 THEN n ELSE mshr[c][l].fin)
      /\ x0.data = (IF FillsData(e) THEN m.data ELSE mshr[c][l].data)
  OBVIOUS
<1>. HIDE DEF x0, fin0, all0, k0, e
<1>7. /\ \A d \in Cache, k \in Line : d # c \/ k # l =>
           l1'[d][k] = l1[d][k] /\ mshr'[d][k] = mshr[d][k]
      /\ \A d \in Cache, k \in Line : copy'[d][k] = copy[d][k]
      /\ mshr'[c][l] = x0 /\ l1'[c][l] = IF fin0 THEN l1[c][l] ELSE n
  BY <1>0, <1>1, <1>3, <1>5 DEF TypeOK
<1>8. \A k \in Line : /\ SameAsks(k) /\ SameBank(k) /\ SameRecall(k) /\ SameAt(k) /\ latest'[k] = latest[k]
                      /\ k # l => SameCaches(k)
  BY <1>1, <1>7 DEF SameAsks, SameBank, SameRecall, SameAt, SameCaches, Asks, At, Recalled,
     Recalling, TbesOf, RecallCount
<1>9. Channels' /\ Banks'
  BY <1>0, <1>1, <1>2, BanksFrame DEF HeadsKept, Channels, ReqChannels, FwdChannels
<1>. HIDE DEF l
<1>10. l = m.line
  BY DEF l
<1>11. Landed(c, l, s, m.type, m.ack, m.data, n)
  <2>1. Sent(s, c, l, m.type, m.ack, m.data) /\ RspFits(s, c, Response(m.type, l, m.ack, m.data))
    BY <1>2, <1>3, <1>10
  <2>2. \A s2, d2 \in Node : \A t2, a2, v2 :
         Sent(s2, d2, l, t2, a2, v2)' <=>
           Sent(s2, d2, l, t2, a2, v2) /\ ~(s2 = s /\ d2 = c /\ t2 = m.type /\ a2 = m.ack /\ v2 = m.data)
    BY <1>2, <1>10
  <2>3. mshr[c][l].op # "none" /\ <<l1[c][l], RspEventOf(m.type, m.ack), n>> \in RspArcs
    BY <1>5 DEF e
  <2>4. l \in Line
    BY <1>3, <1>10
  <2>. QED
    BY <1>7, <1>8, <2>1, <2>2, <2>3, <2>4 DEF Landed
<1>12. Answered(c, l, m.type, m.ack, m.data, n)
  <2>1. e = RspEventOf(m.type, m.ack) /\ k0 = AckAfter(mshr[c][l], Response(m.type, l, m.ack, m.data), e)
    BY <1>3, <1>10 DEF e, k0
  <2>. QED
    BY <1>6, <1>7, <2>1 DEF Answered, fin0, all0
<1>13. \A k \in Line : k # l => SameLine(k)
  BY <1>2, <1>8, <1>10 DEF SameLine
<1>. QED
  BY <1>3, <1>9, <1>10, <1>11, <1>12, <1>13

---------------------------------------------------------------------------
(* A response: what it leaves alone *)

\* What a response to c leaves alone.
LandedRest(c, l) ==
    /\ \A d \in Cache : /\ HasReq(d, l)' <=> HasReq(d, l)
                        /\ HasOwnerFwd(d, l)' <=> HasOwnerFwd(d, l)
                        /\ Waits(d, l)' <=> Waits(d, l)
                        /\ HasInv(d, l)' <=> HasInv(d, l)
    /\ \A d \in Cache : d # c => /\ HasData(d, l)' <=> HasData(d, l)
                                 /\ HasDataE(d, l)' <=> HasDataE(d, l)
                                 /\ Own(d, l)' <=> Own(d, l)
                                 /\ Expects(d, l)' <=> Expects(d, l)
                                 /\ Shares(d, l)' <=> Shares(d, l)
    /\ WbInFlight(l)' <=> WbInFlight(l)
    /\ Exclusive(l)' <=> Exclusive(l)
    /\ Recalled(l)' <=> Recalled(l)
    /\ RecallOwed(l)' = RecallOwed(l)

\* What taking a response leaves alone.
LEMMA LandedFrame ==
  ASSUME NEW c \in Cache, NEW l \in Line, NEW s, NEW t, NEW a, NEW v, NEW n,
         Landed(c, l, s, t, a, v, n)
  PROVE  LandedRest(c, l)
<1>1. /\ SameAsks(l) /\ SameAt(l) /\ SameBank(l) /\ SameRecall(l)
      /\ \A s2, d2 \in Node : d2 # c => \A t2, a2, v2 : Sent(s2, d2, l, t2, a2, v2)' <=> Sent(s2, d2, l, t2, a2, v2)
      /\ \A d \in Cache : d # c => l1'[d][l] = l1[d][l] /\ mshr'[d][l] = mshr[d][l]
  BY DEF Landed
<1>2. \A d \in Cache : /\ HasReq(d, l)' <=> HasReq(d, l)
                       /\ HasOwnerFwd(d, l)' <=> HasOwnerFwd(d, l)
                       /\ Waits(d, l)' <=> Waits(d, l)
                       /\ HasInv(d, l)' <=> HasInv(d, l)
  BY <1>1, AsksFrame, AtFrame
<1>3. \A d \in Cache : d # c => /\ HasData(d, l)' <=> HasData(d, l)
                                /\ HasDataE(d, l)' <=> HasDataE(d, l)
  BY <1>1, NodeSets DEF HasData, HasDataE
<1>4. \A d \in Cache : d # c => /\ Own(d, l)' <=> Own(d, l)
                                /\ Shares(d, l)' <=> Shares(d, l)
  BY <1>1, <1>2, <1>3 DEF Own, Shares
<1>5. WbInFlight(l)' <=> WbInFlight(l)
  BY <1>1, NodeSets DEF WbInFlight
<1>6. (Exclusive(l)' <=> Exclusive(l)) /\ (Recalled(l)' <=> Recalled(l))
  BY <1>1 DEF Exclusive, SameBank, SameRecall
<1>7. RecallOwed(l)' = RecallOwed(l)
  BY <1>1, NodeSets DEF RecallOwed, SameAt
<1>. QED
  BY <1>2, <1>3, <1>4, <1>5, <1>6, <1>7 DEF LandedRest, Expects

\* Data for a load.
LEMMA LandedLoad ==
  ASSUME IInv, NEW c \in Cache, NEW l \in Line, NEW s \in Node, NEW t \in DataType,
         NEW a \in AckField, NEW v \in Version, NEW n \in L1State,
         Landed(c, l, s, t, a, v, n), Answered(c, l, t, a, v, n), mshr[c][l].op = "LD"
  PROVE  LineInv(l)'
<1>0. LineInv(l) /\ TypeOK /\ Channels /\ LandedRest(c, l)
  BY LandedFrame DEF IInv
<1>1. /\ Sent(s, c, l, t, a, v)
      /\ \A s2, d2 \in Node : \A t2, a2, v2 :
           Sent(s2, d2, l, t2, a2, v2)' <=>
             Sent(s2, d2, l, t2, a2, v2) /\ ~(s2 = s /\ d2 = c /\ t2 = t /\ a2 = a /\ v2 = v)
      /\ \A d \in Cache : d # c => l1'[d][l] = l1[d][l] /\ mshr'[d][l] = mshr[d][l]
      /\ \A d \in Cache : copy'[d][l] = copy[d][l]
      /\ SameAsks(l) /\ SameAt(l) /\ SameBank(l) /\ SameRecall(l) /\ latest'[l] = latest[l]
  BY DEF Landed
<1>2. /\ ~mshr[c][l].done /\ a = 0 /\ v = latest[l] /\ l1[c][l] = "IS_D"
      /\ \A s2 \in Node, t2 \in DataType, a2 \in AckField, v2 \in Version :
           Sent(s2, c, l, t2, a2, v2) => s2 = s /\ t2 = t /\ a2 = a /\ v2 = v
  <2>1. ~mshr[c][l].done /\ a = 0 /\ l1[c][l] = "IS_D"
    BY <1>0, <1>1 DEF LineInv, DataMsgs, MshrMatches
  <2>2. v = latest[l]
    BY <1>0, <1>1 DEF LineInv, Contents
  <2>. QED
    BY <1>0, <1>1, <2>1, <2>2 DEF LineInv, DataMsgs
<1>3. LET e == RspEventOf(t, a)
      IN  /\ <<l1[c][l], e, n>> \in RspArcs
          /\ e = IF t = "DATA_E" THEN "DATA_E_DIR" ELSE IF t = "DATA_DIR" THEN "DATA_DIR_A0" ELSE "DATA_OWNER"
  BY <1>2, RspEvents DEF Landed, DataType
<1>4. n = IF t = "DATA_E" THEN "E" ELSE "S"
  BY <1>2, <1>3 DEF RspArcs, DataType
<1>5. Completes(RspEventOf(t, a)) /\ FillsData(RspEventOf(t, a))
  BY <1>3 DEF Completes, FillsData
<1>6. /\ mshr'[c][l].op = "LD" /\ mshr'[c][l].done /\ mshr'[c][l].fin = n
      /\ mshr'[c][l].data = v /\ l1'[c][l] = "IS_D"
  BY <1>2, <1>4, <1>5 DEF Answered
<1>7. /\ HasData(c, l) /\ ~HasData(c, l)' /\ ~HasDataE(c, l)'
      /\ HasDataE(c, l) <=> t = "DATA_E"
      /\ \A s2 \in Node, t2 \in DataType, a2 \in AckField, v2 \in Version : ~Sent(s2, c, l, t2, a2, v2)'
  <2>1. \A s2 \in Node, t2 \in DataType, a2 \in AckField, v2 \in Version : ~Sent(s2, c, l, t2, a2, v2)'
    BY <1>1, <1>2, NodeSets
  <2>. QED
    BY <1>1, <1>2, <2>1, ZeroTypes DEF HasData, HasDataE, DataType
<1>8. /\ Own(c, l)' <=> Own(c, l)
      /\ Shares(c, l)' <=> Shares(c, l)
      /\ Own(c, l) <=> t = "DATA_E"
  BY <1>2, <1>4, <1>6, <1>7 DEF Own, Shares
<1>9. \A d \in Cache : /\ Own(d, l)' <=> Own(d, l)
                       /\ Shares(d, l)' <=> Shares(d, l)
                       /\ Expects(d, l)' <=> Expects(d, l)
                       /\ HasReq(d, l)' <=> HasReq(d, l)
                       /\ HasOwnerFwd(d, l)' <=> HasOwnerFwd(d, l)
                       /\ Waits(d, l)' <=> Waits(d, l)
                       /\ HasInv(d, l)' <=> HasInv(d, l)
                       /\ HasData(d, l)' => HasData(d, l)
                       /\ l1'[d][l] = l1[d][l]
                       /\ mshr'[d][l].op = mshr[d][l].op
                       /\ mshr'[d][l] = mshr[d][l] \/ d = c
  BY <1>0, <1>1, <1>2, <1>6, <1>7, <1>8 DEF LandedRest, Expects
<1>10. /\ WbInFlight(l)' <=> WbInFlight(l)
       /\ Exclusive(l)' <=> Exclusive(l)
       /\ Recalled(l)' <=> Recalled(l)
       /\ RecallOwed(l)' = RecallOwed(l)
  BY <1>0 DEF LandedRest
<1>. USE <1>0, <1>1, <1>9, <1>10
<1>21. MshrMatches(l)'
  BY <1>2, <1>4, <1>6 DEF LineInv, MshrMatches
<1>22. Questions(l)'
  BY <1>7 DEF LineInv, Questions, SameAsks, SameAt
<1>23. PutAcks(l)'
  BY <1>2 DEF LineInv, PutAcks, SameAt
<1>24. DataMsgs(l)'
  BY <1>7, NodeSets DEF LineInv, DataMsgs
<1>25. Owners(l)'
  BY DEF LineInv, Owners, SameBank
<1>26. OwnerFwds(l)'
  <2>1. ~Waits(c, l) /\ \A p \in Cache : ~At(p, l, "FWD_GETS", c)
    BY <1>7 DEF LineInv, OwnerFwds, Waits
  <2>. QED
    BY <2>1 DEF LineInv, OwnerFwds, SameAt, SameBank, Waits
<1>27. NoCycle(l)' /\ WriteBacks(l)'
  BY NodeSets DEF LineInv, NoCycle, WriteBacks, SameAt, SameBank
<1>28. Sharers(l)'
  BY DEF LineInv, Sharers, SameAt, SameBank
<1>29. Invs(l)' /\ InvAcks(l)'
  BY <1>2, NodeSets DEF LineInv, Invs, InvAcks, SameAt, DataType
<1>30. AckCounts(l)'
  <2>1. \A q \in Cache : Owed(q, l)' = Owed(q, l)
    BY NodeSets DEF Owed, SameAt, DataType
  <2>. QED
    BY <1>2, <2>1, NodeSets DEF LandedRest, LineInv, AckCounts
<1>31. Recalls(l)'
  BY NodeSets DEF LineInv, Recalls, SameAt, SameBank, SameRecall
<1>32. Contents(l)'
  BY <1>2, <1>6, NodeSets DEF LineInv, Contents, Readable, SameAsks
<1>33. BankCopy(l)'
  BY DEF LineInv, BankCopy, SameBank, SameRecall
<1>. QED
  BY <1>21, <1>22, <1>23, <1>24, <1>25, <1>26, <1>27, <1>28, <1>29, <1>30, <1>31, <1>32, <1>33 DEF LineInv

---------------------------------------------------------------------------
(* A response to a load *)

\* Data for a store.
LEMMA LandedStore ==
  ASSUME IInv, NEW c \in Cache, NEW l \in Line, NEW s \in Node, NEW t \in DataType,
         NEW a \in AckField, NEW v \in Version, NEW n \in L1State,
         Landed(c, l, s, t, a, v, n), Answered(c, l, t, a, v, n), mshr[c][l].op = "ST"
  PROVE  LineInv(l)'
<1>0. LineInv(l) /\ TypeOK /\ Channels /\ LandedRest(c, l)
  BY LandedFrame DEF IInv
<1>1. /\ Sent(s, c, l, t, a, v)
      /\ \A s2, d2 \in Node : \A t2, a2, v2 :
           Sent(s2, d2, l, t2, a2, v2)' <=>
             Sent(s2, d2, l, t2, a2, v2) /\ ~(s2 = s /\ d2 = c /\ t2 = t /\ a2 = a /\ v2 = v)
      /\ \A d \in Cache : d # c => l1'[d][l] = l1[d][l] /\ mshr'[d][l] = mshr[d][l]
      /\ \A d \in Cache : copy'[d][l] = copy[d][l]
      /\ SameAsks(l) /\ SameAt(l) /\ SameBank(l) /\ SameRecall(l) /\ latest'[l] = latest[l]
  BY DEF Landed
<1>2. /\ ~mshr[c][l].done /\ v = latest[l] /\ l1[c][l] \in {"IM_AD", "SM_AD"}
      /\ t # "DATA_E" /\ (t = "DATA_OWNER" => a = 0)
      /\ Cardinality(Owed(c, l)) = mshr[c][l].ack + a
      /\ \A s2 \in Node, t2 \in DataType, a2 \in AckField, v2 \in Version :
           Sent(s2, c, l, t2, a2, v2) => s2 = s /\ t2 = t /\ a2 = a /\ v2 = v
  <2>1. ~mshr[c][l].done /\ l1[c][l] \in {"IM_AD", "SM_AD"} /\ t # "DATA_E" /\ (t = "DATA_OWNER" => a = 0)
    BY <1>0, <1>1 DEF LineInv, DataMsgs
  <2>2. v = latest[l]
    BY <1>0, <1>1 DEF LineInv, Contents
  <2>3. Cardinality(Owed(c, l)) = mshr[c][l].ack + a
    BY <1>0, <1>1, <2>1 DEF LineInv, AckCounts
  <2>. QED
    BY <1>0, <1>1, <2>1, <2>2, <2>3 DEF LineInv, DataMsgs
<1>3. RspEventOf(t, a) = IF t = "DATA_OWNER" THEN "DATA_OWNER" ELSE IF a = 0 THEN "DATA_DIR_A0" ELSE "DATA_DIR_AGT0"
  BY <1>2, RspEvents DEF DataType
<1>4. /\ a = 0 => n = "M"
      /\ a # 0 => n = IF l1[c][l] = "IM_AD" THEN "IM_A" ELSE "SM_A"
  <2>1. <<l1[c][l], RspEventOf(t, a), n>> \in RspArcs
    BY DEF Landed
  <2>. QED
    BY <1>2, <1>3, <2>1 DEF RspArcs
<1>5. /\ a = 0 => Completes(RspEventOf(t, a))
      /\ a # 0 => ~Completes(RspEventOf(t, a)) /\ AddsAcks(RspEventOf(t, a)) /\ ~TakesAck(RspEventOf(t, a))
      /\ FillsData(RspEventOf(t, a))
  BY <1>2, <1>3 DEF Completes, FillsData, AddsAcks, TakesAck
<1>6. a # 0 => AckAfter(mshr[c][l], Response(t, l, a, v), RspEventOf(t, a)) = Cardinality(Owed(c, l))
  <2>1. Response(t, l, a, v).ack = a
    BY ResponseEq
  <2>2. Owed(c, l) \in SUBSET Cache
    BY DEF Owed
  <2>3. mshr[c][l].ack \in Int /\ a \in Int /\ a < AckHalf /\ AckHalf \in Nat
    BY <1>0, StateValues, SizeAssumption DEF AckField
  <2>4. mshr[c][l].ack <= 0
    BY <1>0, <1>2 DEF LineInv, AckCounts
  <2>5. Cardinality(Owed(c, l)) < AckHalf
    BY <1>2, <2>3, <2>4
  <2>. QED
    BY <1>2, <1>5, <2>1, <2>2, <2>3, <2>5, CacheCount DEF AckAfter
<1>7. Owed(c, l) \in SUBSET Cache /\ Cardinality(Owed(c, l)) \in Nat /\ (Cardinality(Owed(c, l)) = 0 <=> Owed(c, l) = {})
  <2>1. Owed(c, l) \in SUBSET Cache
    BY DEF Owed
  <2>. QED
    BY <2>1, CacheSets
<1>8. /\ mshr'[c][l].op = "ST" /\ mshr'[c][l].data = v
      /\ \/ mshr'[c][l].done /\ mshr'[c][l].fin = "M" /\ l1'[c][l] = l1[c][l] /\ Owed(c, l) = {}
         \/ /\ ~mshr'[c][l].done /\ mshr'[c][l].ack = Cardinality(Owed(c, l)) /\ mshr'[c][l].ack > 0
            /\ l1'[c][l] = IF l1[c][l] = "IM_AD" THEN "IM_A" ELSE "SM_A"
  <2>1. CASE a = 0
    <3>1. Cardinality(Owed(c, l)) = 0
      BY <1>0, <1>2, <1>7, <2>1, StateValues DEF LineInv, AckCounts
    <3>. QED
      BY <1>4, <1>5, <1>7, <2>1, <3>1 DEF Answered
  <2>2. CASE a # 0
    <3>. DEFINE k == Cardinality(Owed(c, l))
    <3>1. /\ mshr'[c][l].op = mshr[c][l].op /\ mshr'[c][l].ack = k
          /\ mshr'[c][l].done <=> (n \in {"IM_A", "SM_A"} /\ k = 0)
          /\ mshr'[c][l].fin = IF n \in {"IM_A", "SM_A"} /\ k = 0 THEN "M" ELSE mshr[c][l].fin
          /\ mshr'[c][l].data = v
          /\ l1'[c][l] = IF n \in {"IM_A", "SM_A"} /\ k = 0 THEN l1[c][l] ELSE n
      <4>. HIDE DEF k
      <4>1. AckAfter(mshr[c][l], Response(t, l, a, v), RspEventOf(t, a)) = k
        BY <1>6, <2>2 DEF k
      <4>. QED
        BY <1>5, <2>2, <4>1 DEF Answered
    <3>2. n \in {"IM_A", "SM_A"}
      BY <1>4, <2>2
    <3>. QED
      BY <1>2, <1>4, <1>7, <2>2, <3>1, <3>2
  <2>. QED
    BY <2>1, <2>2
<1>9. /\ HasData(c, l) /\ ~HasData(c, l)' /\ ~HasDataE(c, l)'
      /\ \A s2 \in Node, t2 \in DataType, a2 \in AckField, v2 \in Version : ~Sent(s2, c, l, t2, a2, v2)'
  <2>1. \A s2 \in Node, t2 \in DataType, a2 \in AckField, v2 \in Version : ~Sent(s2, c, l, t2, a2, v2)'
    BY <1>1, <1>2, NodeSets
  <2>. QED
    BY <1>1, <1>2, <2>1, ZeroTypes DEF HasData, HasDataE, DataType
<1>10. /\ Own(c, l) /\ Own(c, l)'
       /\ Shares(c, l)' <=> Shares(c, l)
       /\ ~HasReq(c, l)
  <2>1. Own(c, l) /\ Own(c, l)'
    BY <1>8, <1>9 DEF Own
  <2>2. Shares(c, l)' <=> Shares(c, l)
    BY <1>2, <1>8, <1>9 DEF Shares
  <2>3. ~HasReq(c, l)
    BY <1>0, <1>9 DEF LineInv, Questions, HasReq
  <2>. QED
    BY <2>1, <2>2, <2>3
<1>11. \A d \in Cache : /\ Own(d, l)' <=> Own(d, l)
                        /\ Shares(d, l)' <=> Shares(d, l)
                        /\ Expects(d, l)' <=> Expects(d, l)
                        /\ HasReq(d, l)' <=> HasReq(d, l)
                        /\ HasOwnerFwd(d, l)' <=> HasOwnerFwd(d, l)
                        /\ Waits(d, l)' <=> Waits(d, l)
                        /\ HasInv(d, l)' <=> HasInv(d, l)
                        /\ HasData(d, l)' => HasData(d, l)
                        /\ mshr'[d][l].op = mshr[d][l].op
                        /\ d # c => l1'[d][l] = l1[d][l] /\ mshr'[d][l] = mshr[d][l]
  BY <1>0, <1>1, <1>8, <1>9, <1>10 DEF LandedRest, Expects
<1>12. /\ WbInFlight(l)' <=> WbInFlight(l)
       /\ Exclusive(l)' <=> Exclusive(l)
       /\ Recalled(l)' <=> Recalled(l)
       /\ RecallOwed(l)' = RecallOwed(l)
  BY <1>0 DEF LandedRest
<1>13. /\ \A r \in Node : ~At(c, l, "INV", r)
       /\ ~At(c, l, "RECALL_INV", HomeOf[l])
       /\ c \in dir[l].sharers => HasOwnerFwd(c, l)
  <2>1. dir[l].state # "S" /\ ~At(c, l, "PUT_ACK", c) /\ Expects(c, l)
    BY <1>0, <1>10, <1>2 DEF LineInv, Owners, PutAcks, Expects
  <2>2. c \in dir[l].sharers => dir[l].state = "S_D"
    BY <1>0, <2>1 DEF LineInv, Sharers
  <2>3. \A r \in Cache : ~At(c, l, "INV", r)
    BY <1>0, <1>10 DEF LineInv, Invs, Owners
  <2>4. ~At(c, l, "RECALL_INV", HomeOf[l])
    BY <1>0, <2>1 DEF LineInv, Recalls
  <2>5. \A r \in Node : ~At(c, l, "INV", r)
    <3>. SUFFICES ASSUME NEW r \in Node, At(c, l, "INV", r) PROVE FALSE
      OBVIOUS
    <3>1. r \in Cache
      <4>1. Forward("INV", l, r) \in Items(fwd[HomeOf[l]][c])
        BY DEF At
      <4>2. OnBehalf(Forward("INV", l, r), HomeOf[l], c)
        BY <1>0, <4>1, NodeSets DEF Channels, FwdChannels
      <4>. QED
        BY <4>2, ForwardEq DEF OnBehalf
    <3>. QED
      BY <2>3, <3>1
  <2>. QED
    BY <1>0, <2>1, <2>2, <2>4, <2>5 DEF LineInv, Owners, Exclusive
<1>. USE <1>0, <1>1, <1>11, <1>12
<1>21. MshrMatches(l)'
  BY <1>2, <1>8 DEF LineInv, MshrMatches
<1>22. Questions(l)'
  BY <1>10 DEF LineInv, Questions, SameAsks, SameAt, HasReq
<1>23. PutAcks(l)'
  BY <1>2 DEF LineInv, PutAcks, SameAt
<1>24. DataMsgs(l)'
  BY <1>9, NodeSets DEF LineInv, DataMsgs
<1>25. Owners(l)'
  BY DEF LineInv, Owners, SameBank
<1>26. OwnerFwds(l)'
  <2>1. ~Waits(c, l) /\ \A p \in Cache : ~At(p, l, "FWD_GETS", c)
    BY <1>9 DEF LineInv, OwnerFwds, Waits
  <2>. QED
    BY <2>1 DEF LineInv, OwnerFwds, SameAt, SameBank, Waits
<1>27. NoCycle(l)' /\ WriteBacks(l)'
  BY NodeSets DEF LineInv, NoCycle, WriteBacks, SameAt, SameBank
<1>28. Sharers(l)'
  BY <1>13 DEF LineInv, Sharers, SameAt, SameBank
<1>29. Invs(l)' /\ InvAcks(l)'
  BY <1>2, <1>7, <1>8, <1>13, NodeSets, ZeroTypes DEF LineInv, Invs, InvAcks, SameAt, DataType, Owed
<1>30. AckCounts(l)'
  <2>1. \A q \in Cache : Owed(q, l)' = Owed(q, l)
    BY NodeSets DEF Owed, SameAt, DataType
  <2>. QED
    BY <1>2, <1>8, <1>9, <2>1, NodeSets DEF LandedRest, LineInv, AckCounts
<1>31. Recalls(l)'
  BY <1>13, NodeSets DEF LineInv, Recalls, SameAt, SameBank, SameRecall
<1>32. Contents(l)'
  BY <1>2, <1>8, NodeSets DEF LineInv, Contents, Readable, SameAsks
<1>33. BankCopy(l)'
  BY <1>2, <1>8 DEF LineInv, BankCopy, SameBank, SameRecall
<1>. QED
  BY <1>21, <1>22, <1>23, <1>24, <1>25, <1>26, <1>27, <1>28, <1>29, <1>30, <1>31, <1>32, <1>33 DEF LineInv

---------------------------------------------------------------------------
(* A response to a store *)

\* An acknowledgement.
LEMMA LandedAck ==
  ASSUME IInv, NEW c \in Cache, NEW l \in Line, NEW s \in Node,
         NEW a \in AckField, NEW v \in Version, NEW n \in L1State,
         Landed(c, l, s, "INV_ACK", a, v, n), Answered(c, l, "INV_ACK", a, v, n)
  PROVE  LineInv(l)'
<1>0. LineInv(l) /\ TypeOK /\ Channels /\ LandedRest(c, l)
  BY LandedFrame DEF IInv
<1>1. /\ Sent(s, c, l, "INV_ACK", a, v) /\ s \in Cache
      /\ \A s2, d2 \in Node : \A t2, a2, v2 :
           Sent(s2, d2, l, t2, a2, v2)' <=>
             Sent(s2, d2, l, t2, a2, v2) /\ ~(s2 = s /\ d2 = c /\ t2 = "INV_ACK" /\ a2 = a /\ v2 = v)
      /\ \A d \in Cache : d # c => l1'[d][l] = l1[d][l] /\ mshr'[d][l] = mshr[d][l]
      /\ \A d \in Cache : copy'[d][l] = copy[d][l]
      /\ SameAsks(l) /\ SameAt(l) /\ SameBank(l) /\ SameRecall(l) /\ latest'[l] = latest[l]
  BY NodeSets, ResponseEq DEF Landed, RspFits, Node
<1>2. /\ a = 0 /\ v = 0 /\ Own(c, l) /\ mshr[c][l].op = "ST" /\ ~mshr[c][l].done
  BY <1>0, <1>1 DEF LineInv, InvAcks
<1>3. ~At(s, l, "INV", c)
  BY <1>0, <1>1, <1>2 DEF LineInv, Invs
<1>4. /\ n = l1[c][l] /\ l1[c][l] \in {"IM_AD", "IM_A", "SM_AD", "SM_A"}
      /\ l1[c][l] \in {"IM_AD", "SM_AD"} => HasData(c, l)
      /\ ~Completes(RspEventOf("INV_ACK", a)) /\ ~FillsData(RspEventOf("INV_ACK", a))
      /\ ~AddsAcks(RspEventOf("INV_ACK", a)) /\ TakesAck(RspEventOf("INV_ACK", a))
  <2>1. RspEventOf("INV_ACK", a) = "INV_ACK"
    BY RspEvents
  <2>2. <<l1[c][l], RspEventOf("INV_ACK", a), n>> \in RspArcs
    BY DEF Landed
  <2>3. n = l1[c][l] /\ l1[c][l] \in {"IM_AD", "IM_A", "SM_AD", "SM_A"}
    BY <2>1, <2>2 DEF RspArcs
  <2>4. l1[c][l] \in {"IM_AD", "SM_AD"} => HasData(c, l)
    BY <1>2 DEF Own
  <2>. QED
    BY <2>1, <2>3, <2>4 DEF Completes, FillsData, AddsAcks, TakesAck
<1>5. /\ Owed(c, l)' = Owed(c, l) \ {s} /\ s \in Owed(c, l)
      /\ \A r \in Cache : r # c => Owed(r, l)' = Owed(r, l)
  BY <1>1, <1>2, <1>3, NodeSets DEF Owed, SameAt
<1>6. /\ Cardinality(Owed(c, l)) \in Nat \ {0} /\ Cardinality(Owed(c, l)) < AckHalf
      /\ Cardinality(Owed(c, l)') = Cardinality(Owed(c, l)) - 1
      /\ Cardinality(Owed(c, l)') = 0 <=> Owed(c, l)' = {}
  <2>1. Owed(c, l) \in SUBSET Cache /\ Owed(c, l)' \in SUBSET Cache
    BY <1>5 DEF Owed
  <2>2. /\ IsFiniteSet(Owed(c, l)) /\ Cardinality(Owed(c, l)) \in Nat /\ Cardinality(Owed(c, l)) < AckHalf
        /\ Cardinality(Owed(c, l)) = 0 <=> Owed(c, l) = {}
    <3>1. mshr[c][l].ack \in AckRange /\ AckHalf \in Nat \ {0}
      BY <1>0, StateValues, SizeAssumption
    <3>2. ASSUME l1[c][l] \in {"IM_AD", "SM_AD"} PROVE Cardinality(Owed(c, l)) < AckHalf
      <4>1. PICK s2 \in Node, t2 \in DataType, a2 \in AckField, v2 \in Version : Sent(s2, c, l, t2, a2, v2)
        BY <1>4, <3>2 DEF HasData
      <4>2. Cardinality(Owed(c, l)) = mshr[c][l].ack + a2 /\ mshr[c][l].ack <= 0
        BY <1>0, <1>2, <3>2, <4>1 DEF LineInv, AckCounts
      <4>. QED
        BY <3>1, <4>2 DEF AckField, AckRange, SignedRange
    <3>3. ASSUME l1[c][l] \in {"IM_A", "SM_A"} PROVE Cardinality(Owed(c, l)) < AckHalf
      <4>1. ~HasData(c, l)
        BY <1>0, <1>2, <3>3 DEF LineInv, DataMsgs, HasData
      <4>2. Cardinality(Owed(c, l)) = mshr[c][l].ack
        BY <1>0, <1>2, <4>1 DEF LineInv, AckCounts
      <4>. QED
        BY <3>1, <4>2 DEF AckRange, SignedRange
    <3>. QED
      BY <1>4, <2>1, <3>2, <3>3, CacheSets
  <2>3. Cardinality(Owed(c, l)') = 0 <=> Owed(c, l)' = {}
    BY <2>1, CacheSets
  <2>. QED
    BY <1>5, <2>2, <2>3, FS_RemoveElement, SMTT(25), ZenonT(25)
<1>7. AckAfter(mshr[c][l], Response("INV_ACK", l, a, v), RspEventOf("INV_ACK", a)) = mshr[c][l].ack - 1
  <2>1. mshr[c][l].ack \in Int /\ mshr[c][l].ack \in AckRange /\ AckHalf \in Nat \ {0}
    BY <1>0, StateValues, SizeAssumption
  <2>2. -AckHalf <= mshr[c][l].ack - 1 /\ mshr[c][l].ack - 1 < AckHalf
    <3>1. CASE l1[c][l] \in {"IM_AD", "SM_AD"}
      <4>1. PICK s2 \in Node, t2 \in DataType, a2 \in AckField, v2 \in Version : Sent(s2, c, l, t2, a2, v2)
        BY <1>4, <3>1 DEF HasData
      <4>2. Cardinality(Owed(c, l)) = mshr[c][l].ack + a2
        BY <1>0, <1>2, <4>1 DEF LineInv, AckCounts
      <4>3. a2 \in Int /\ a2 < AckHalf
        BY SizeAssumption DEF AckField
      <4>4. mshr[c][l].ack < AckHalf
        BY <2>1 DEF AckRange, SignedRange
      <4>. QED
        BY <1>6, <2>1, <4>2, <4>3, <4>4
    <3>2. CASE l1[c][l] \in {"IM_A", "SM_A"}
      <4>1. mshr[c][l].ack > 0
        BY <1>0, <1>2, <3>2 DEF LineInv, AckCounts
      <4>. QED
        BY <2>1, <4>1 DEF AckRange, SignedRange
    <3>. QED
      BY <1>4, <3>1, <3>2
  <2>. QED
    BY <1>4, <2>1, <2>2, SignedId, ResponseEq DEF AckAfter
<1>8. /\ mshr'[c][l].op = "ST" /\ mshr'[c][l].data = mshr[c][l].data
      /\ l1'[c][l] = l1[c][l]
      /\ \/ /\ mshr'[c][l].done /\ mshr'[c][l].fin = "M" /\ Owed(c, l)' = {}
            /\ l1[c][l] \in {"IM_A", "SM_A"}
         \/ /\ ~mshr'[c][l].done /\ mshr'[c][l].ack = mshr[c][l].ack - 1
            /\ l1[c][l] \in {"IM_A", "SM_A"} => mshr'[c][l].ack > 0
  <2>. DEFINE k == mshr[c][l].ack - 1
              all == n \in {"IM_A", "SM_A"} /\ k = 0
  <2>1. /\ mshr'[c][l].op = mshr[c][l].op /\ mshr'[c][l].ack = k
        /\ mshr'[c][l].done <=> all
        /\ mshr'[c][l].fin = IF all THEN "M" ELSE mshr[c][l].fin
        /\ mshr'[c][l].data = mshr[c][l].data
        /\ l1'[c][l] = IF all THEN l1[c][l] ELSE n
    <3>. HIDE DEF k
    <3>1. AckAfter(mshr[c][l], Response("INV_ACK", l, a, v), RspEventOf("INV_ACK", a)) = k
      BY <1>7 DEF k
    <3>. QED
      BY <1>4, <3>1 DEF Answered
  <2>2. l1[c][l] \in {"IM_A", "SM_A"} => mshr[c][l].ack > 0 /\ mshr[c][l].ack = Cardinality(Owed(c, l))
    <3>1. l1[c][l] \in {"IM_A", "SM_A"} => ~HasData(c, l)
      BY <1>0, <1>2 DEF LineInv, DataMsgs, HasData
    <3>. QED
      BY <1>0, <1>2, <3>1 DEF LineInv, AckCounts
  <2>3. mshr[c][l].ack \in Int
    BY <1>0, StateValues
  <2>. QED
    BY <1>2, <1>4, <1>6, <2>1, <2>2, <2>3
<1>9. \A d \in Cache : /\ HasData(d, l)' <=> HasData(d, l)
                       /\ HasDataE(d, l)' <=> HasDataE(d, l)
  BY <1>1, NodeSets DEF HasData, HasDataE, DataType
<1>10. /\ Own(c, l)'
       /\ Shares(c, l)' <=> Shares(c, l)
       /\ ~HasReq(c, l)
  <2>1. Own(c, l)'
    BY <1>4, <1>8, <1>9 DEF Own
  <2>2. Shares(c, l)' <=> Shares(c, l)
    BY <1>2, <1>8, <1>9 DEF Shares
  <2>3. ~HasReq(c, l)
    <3>1. l1[c][l] \in {"IM_AD", "SM_AD"} => ~HasReq(c, l)
      BY <1>0, <1>4 DEF LineInv, Questions, HasReq
    <3>2. l1[c][l] \in {"IM_A", "SM_A"} => ~HasReq(c, l)
      BY <1>0, <1>2 DEF LineInv, Questions, HasReq, ReqType
    <3>. QED
      BY <1>4, <3>1, <3>2
  <2>. QED
    BY <2>1, <2>2, <2>3
<1>11. \A d \in Cache : /\ Own(d, l)' <=> Own(d, l)
                        /\ Shares(d, l)' <=> Shares(d, l)
                        /\ Expects(d, l)' <=> Expects(d, l)
                        /\ HasReq(d, l)' <=> HasReq(d, l)
                        /\ HasOwnerFwd(d, l)' <=> HasOwnerFwd(d, l)
                        /\ Waits(d, l)' <=> Waits(d, l)
                        /\ HasInv(d, l)' <=> HasInv(d, l)
                        /\ mshr'[d][l].op = mshr[d][l].op
                        /\ l1'[d][l] = l1[d][l]
                        /\ mshr'[d][l].data = mshr[d][l].data
                        /\ d # c => mshr'[d][l] = mshr[d][l]
  BY <1>0, <1>1, <1>2, <1>8, <1>10 DEF LandedRest, Expects
<1>12. /\ WbInFlight(l)' <=> WbInFlight(l)
       /\ Exclusive(l)' <=> Exclusive(l)
       /\ Recalled(l)' <=> Recalled(l)
       /\ RecallOwed(l)' = RecallOwed(l)
  BY <1>0 DEF LandedRest
<1>13. /\ \A s2 \in Node, t2 \in DataType, a2 \in AckField, v2 \in Version : \A d \in Cache :
            Sent(s2, d, l, t2, a2, v2)' <=> Sent(s2, d, l, t2, a2, v2)
       /\ \A d \in Cache : \A t2 \in RspToDir : \A a2, v2 :
            Sent(d, HomeOf[l], l, t2, a2, v2)' <=> Sent(d, HomeOf[l], l, t2, a2, v2)
  BY <1>1, NodeSets DEF DataType, RspToDir
<1>. USE <1>0, <1>1, <1>9, <1>11, <1>12
<1>21. MshrMatches(l)'
  BY <1>2, <1>8 DEF LineInv, MshrMatches
<1>22. Questions(l)'
  BY <1>10 DEF LineInv, Questions, SameAsks, SameAt, HasReq
<1>23. PutAcks(l)'
  BY <1>2 DEF LineInv, PutAcks, SameAt
<1>24. DataMsgs(l)'
  BY <1>8, <1>13, <1>4 DEF LineInv, DataMsgs
<1>25. Owners(l)'
  BY DEF LineInv, Owners, SameBank
<1>26. OwnerFwds(l)'
  <2>1. ~Waits(c, l) /\ \A p \in Cache : ~At(p, l, "FWD_GETS", c)
    BY <1>2, <1>4 DEF LineInv, OwnerFwds, Waits
  <2>. QED
    BY <2>1 DEF LineInv, OwnerFwds, SameAt, SameBank, Waits
<1>27. NoCycle(l)' /\ WriteBacks(l)'
  BY <1>13, NodeSets DEF LineInv, NoCycle, WriteBacks, SameAt, SameBank, RspToDir
<1>28. Sharers(l)'
  BY DEF LineInv, Sharers, SameAt, SameBank
<1>29. Invs(l)' /\ InvAcks(l)'
  <2>1. mshr'[c][l].done => \A d \in Cache : ~At(d, l, "INV", c) /\ ~Sent(d, c, l, "INV_ACK", 0, 0)'
    <3>1. mshr'[c][l].done => Owed(c, l)' = {}
      BY <1>8
    <3>2. \A d \in Cache : At(d, l, "INV", c) => d \in Owed(c, l)'
      BY <1>3, <1>5 DEF Owed
    <3>3. \A d \in Cache : Sent(d, c, l, "INV_ACK", 0, 0)' => d \in Owed(c, l)'
      BY <1>2, <1>5, NodeSets DEF Owed
    <3>. QED
      BY <3>1, <3>2, <3>3
  <2>2. Invs(l)'
    BY <2>1, <1>2, NodeSets DEF LineInv, Invs, SameAt
  <2>3. InvAcks(l)'
    BY <2>1, <1>2, NodeSets DEF LineInv, InvAcks
  <2>. QED
    BY <2>2, <2>3
<1>30. AckCounts(l)'
  <2>1. \A r \in Cache : r # c => Cardinality(Owed(r, l)') = Cardinality(Owed(r, l))
    BY <1>5
  <2>2. mshr[c][l].ack \in Int /\ \A x \in AckField : x \in Int
    BY StateValues DEF AckField
  <2>3. \A r \in Cache : r # c /\ mshr'[r][l].op = "ST" /\ ~mshr'[r][l].done =>
        /\ \A s2 \in Node, t2 \in DataType, a2 \in AckField, v2 \in Version :
             Sent(s2, r, l, t2, a2, v2)' => Cardinality(Owed(r, l)') = mshr'[r][l].ack + a2
        /\ ~HasData(r, l)' => Cardinality(Owed(r, l)') = mshr'[r][l].ack
        /\ l1'[r][l] \in {"IM_AD", "SM_AD"} => mshr'[r][l].ack <= 0
        /\ l1'[r][l] \in {"IM_A", "SM_A"} => mshr'[r][l].ack > 0
    BY <1>13, <2>1 DEF LineInv, AckCounts
  <2>4. mshr'[c][l].op = "ST" /\ ~mshr'[c][l].done =>
        /\ \A s2 \in Node, t2 \in DataType, a2 \in AckField, v2 \in Version :
             Sent(s2, c, l, t2, a2, v2)' => Cardinality(Owed(c, l)') = mshr'[c][l].ack + a2
        /\ ~HasData(c, l)' => Cardinality(Owed(c, l)') = mshr'[c][l].ack
        /\ l1'[c][l] \in {"IM_AD", "SM_AD"} => mshr'[c][l].ack <= 0
        /\ l1'[c][l] \in {"IM_A", "SM_A"} => mshr'[c][l].ack > 0
    <3>1. /\ \A s2 \in Node, t2 \in DataType, a2 \in AckField, v2 \in Version :
               Sent(s2, c, l, t2, a2, v2) => Cardinality(Owed(c, l)) = mshr[c][l].ack + a2
          /\ ~HasData(c, l) => Cardinality(Owed(c, l)) = mshr[c][l].ack
          /\ l1[c][l] \in {"IM_AD", "SM_AD"} => mshr[c][l].ack <= 0
      BY <1>2 DEF LineInv, AckCounts
    <3>. QED
      BY <1>6, <1>8, <1>13, <2>2, <3>1
  <2>. QED
    BY <2>3, <2>4 DEF AckCounts
<1>31. Recalls(l)'
  BY <1>13, NodeSets DEF LineInv, Recalls, SameAt, SameBank, SameRecall, RspToDir
<1>32. Contents(l)'
  BY <1>2, <1>8, <1>13, NodeSets DEF LineInv, Contents, Readable, SameAsks, RspToDir
<1>33. BankCopy(l)'
  BY <1>2, <1>8 DEF LineInv, BankCopy, SameBank, SameRecall
<1>. QED
  BY <1>21, <1>22, <1>23, <1>24, <1>25, <1>26, <1>27, <1>28, <1>29, <1>30, <1>31, <1>32, <1>33 DEF LineInv

---------------------------------------------------------------------------
(* Responses together, and retirement *)

\* Taking any response keeps what must hold of its line, and touches no other.
LEMMA TakeResponseLine ==
  ASSUME IInv, NEW c \in Cache, NEW s \in Node, TakeResponse(c, s)
  PROVE  \E l \in Line : LineInv(l)' /\ KeepsOthers(l)
<1>1. PICK l \in Line, t \in RspType, a \in AckField, v \in Version, n \in L1State :
           /\ Landed(c, l, s, t, a, v, n) /\ Answered(c, l, t, a, v, n)
           /\ \A k \in Line : k # l => SameLine(k)
           /\ Channels' /\ Banks'
  BY TakeResponseLanded
<1>2. t \in DataType \cup {"INV_ACK"} /\ Sent(s, c, l, t, a, v)
  <2>1. RspFits(s, c, Response(t, l, a, v)) /\ Sent(s, c, l, t, a, v)
    BY <1>1 DEF Landed
  <2>. QED
    BY <2>1, ResponseEq DEF RspFits, DataType, Node
<1>3. t \in DataType => mshr[c][l].op \in {"LD", "ST"}
  BY <1>2 DEF IInv, LineInv, DataMsgs
<1>4. LineInv(l)'
  <2>1. CASE t = "INV_ACK"
    BY <1>1, <2>1, LandedAck
  <2>2. CASE t \in DataType /\ mshr[c][l].op = "LD"
    BY <1>1, <2>2, LandedLoad
  <2>3. CASE t \in DataType /\ mshr[c][l].op = "ST"
    BY <1>1, <2>3, LandedStore
  <2>. QED
    BY <1>2, <1>3, <2>1, <2>2, <2>3
<1>. QED
  BY <1>1, <1>4 DEF KeepsOthers

\* A step that moves nothing and queues nothing changes no line.
LEMMA QuietKeeps ==
  ASSUME IInv,
         UNCHANGED <<l1, mshr, copy, dir, l2, mem, tbe, binv, req, fwd, rsp, stuckReq, latest>>
  PROVE  Channels' /\ Banks' /\ \A k \in Line : SameLine(k)
<1>2. Banks'
  BY BanksFrame DEF HeadsKept, IInv
<1>3. Channels'
  BY DEF IInv, Channels, ReqChannels, FwdChannels, RspChannels
<1>4. \A k \in Line : SameLine(k)
  BY DEF SameLine, SameAsks, SameAt, SameSent, SameCaches, SameBank, SameRecall, Asks, At, Sent,
     InRsp, Recalled, Recalling, TbesOf, RecallCount
<1>. QED
  BY <1>2, <1>3, <1>4

\* A forward that waits changes nothing about any line.
LEMMA StallForwardKeeps ==
  ASSUME IInv, NEW c \in Cache, NEW h \in Home, StallForward(c, h)
  PROVE  Channels' /\ Banks' /\ \A k \in Line : SameLine(k)
BY QuietKeeps DEF StallForward, l1Vars, dirVars

\* Cache c has finished its transaction on line l.
Retired(c, l) ==
    /\ mshr[c][l].done /\ mshr[c][l].op \in {"LD", "ST", "EV"}
    /\ mshr'[c][l].op = "none" /\ ~mshr'[c][l].done
    /\ mshr[c][l].op = "LD" => /\ l1'[c][l] = mshr[c][l].fin /\ copy'[c][l] = mshr[c][l].data
                               /\ latest'[l] = latest[l]
    /\ mshr[c][l].op = "ST" => /\ l1'[c][l] = mshr[c][l].fin /\ copy'[c][l] = Next1(mshr[c][l].data)
                               /\ latest'[l] = Next1(latest[l])
    /\ mshr[c][l].op = "EV" => /\ l1'[c][l] = l1[c][l] /\ copy'[c][l] = copy[c][l]
                               /\ latest'[l] = latest[l]
    /\ \A d \in Cache : d # c => l1'[d][l] = l1[d][l] /\ mshr'[d][l] = mshr[d][l] /\ copy'[d][l] = copy[d][l]
    /\ SameAsks(l) /\ SameAt(l) /\ SameSent(l) /\ SameBank(l) /\ SameRecall(l)

\* What retiring a finished transaction does.
LEMMA RetireRetired ==
  ASSUME IInv, NEW c \in Cache, NEW l \in Line, Retire(c, l)
  PROVE  Retired(c, l) /\ KeepsOthers(l)
<1>0. TypeOK /\ Channels /\ Banks /\ LineInv(l)
  BY DEF IInv
<1>1. UNCHANGED <<dir, l2, mem, tbe, binv, req, fwd, rsp, stuckReq, stuckFwd>>
  BY DEF Retire, dirVars
<1>. DEFINE x == mshr[c][l]
            v0 == CASE x.op = "LD" -> x.data [] x.op = "ST" -> Next1(x.data) [] OTHER -> copy[c][l]
            s0 == IF x.op = "EV" THEN l1[c][l] ELSE x.fin
            w0 == IF x.op = "ST" THEN Next1(latest[l]) ELSE latest[l]
<1>2. /\ x.done
      /\ mshr' = [mshr EXCEPT ![c][l] = NoMshr]
      /\ l1' = [l1 EXCEPT ![c][l] = s0]
      /\ latest' = [latest EXCEPT ![l] = w0]
  BY <1>0 DEF Retire, TypeOK
<1>3. copy' = [copy EXCEPT ![c][l] = v0]
  BY <1>0, Zenon DEF Retire, TypeOK
<1>4. /\ x.op = "LD" => v0 = x.data
      /\ x.op = "ST" => v0 = Next1(x.data)
      /\ x.op = "EV" => v0 = copy[c][l]
  <2>1. x.op = "LD" => v0 = x.data
    BY Zenon
  <2>2. ASSUME x.op = "ST" PROVE v0 = Next1(x.data)
    <3>1. x.op # "LD"
      BY <2>2
    <3>. QED
      BY <2>2, <3>1, Zenon
  <2>3. ASSUME x.op = "EV" PROVE v0 = copy[c][l]
    <3>1. x.op # "LD" /\ x.op # "ST"
      BY <2>3
    <3>. QED
      BY <2>3, <3>1, Zenon
  <2>. QED
    BY <2>1, <2>2, <2>3
<1>. HIDE DEF v0
<1>5. x.op \in {"LD", "ST", "EV"}
  BY <1>0, <1>2, StateValues DEF LineInv, MshrMatches
<1>6. /\ \A d \in Cache, k \in Line : d # c \/ k # l =>
           l1'[d][k] = l1[d][k] /\ mshr'[d][k] = mshr[d][k] /\ copy'[d][k] = copy[d][k]
      /\ \A k \in Line : k # l => latest'[k] = latest[k]
      /\ mshr'[c][l] = NoMshr /\ l1'[c][l] = s0 /\ copy'[c][l] = v0 /\ latest'[l] = w0
  BY <1>0, <1>2, <1>3 DEF TypeOK
<1>7. NoMshr.op = "none" /\ ~NoMshr.done
  BY DEF NoMshr
<1>8. \A k \in Line : /\ SameAsks(k) /\ SameBank(k) /\ SameRecall(k) /\ SameAt(k) /\ SameSent(k)
                      /\ k # l => SameCaches(k) /\ latest'[k] = latest[k]
  BY <1>1, <1>6 DEF SameAsks, SameBank, SameRecall, SameAt, SameSent, SameCaches, Asks, At, Sent,
     InRsp, Recalled, Recalling, TbesOf, RecallCount
<1>9. Channels' /\ Banks'
  BY <1>0, <1>1, BanksFrame DEF HeadsKept, Channels, ReqChannels, FwdChannels, RspChannels
<1>10. Retired(c, l)
  BY <1>2, <1>4, <1>5, <1>6, <1>7, <1>8 DEF Retired
<1>. QED
  BY <1>8, <1>9, <1>10 DEF KeepsOthers, SameLine

\* Retiring a transaction keeps what must hold of its line.
LEMMA RetireLine ==
  ASSUME IInv, NEW c \in Cache, NEW l \in Line, Retire(c, l)
  PROVE  LineInv(l)' /\ KeepsOthers(l)
<1>0. LineInv(l) /\ TypeOK /\ Channels /\ Retired(c, l) /\ KeepsOthers(l)
  BY RetireRetired DEF IInv
<1>1. /\ mshr[c][l].done /\ mshr[c][l].op \in {"LD", "ST", "EV"}
      /\ mshr'[c][l].op = "none" /\ ~mshr'[c][l].done
      /\ \A d \in Cache : d # c => l1'[d][l] = l1[d][l] /\ mshr'[d][l] = mshr[d][l] /\ copy'[d][l] = copy[d][l]
      /\ SameAsks(l) /\ SameAt(l) /\ SameSent(l) /\ SameBank(l) /\ SameRecall(l)
  BY <1>0 DEF Retired
<1>2. /\ mshr[c][l].op = "LD" => l1[c][l] = "IS_D" /\ l1'[c][l] \in {"S", "E"} /\ l1'[c][l] = mshr[c][l].fin
      /\ mshr[c][l].op = "ST" => l1[c][l] \in {"IM_AD", "IM_A", "SM_AD", "SM_A"} /\ l1'[c][l] = "M"
      /\ mshr[c][l].op = "EV" => l1[c][l] = "I" /\ l1'[c][l] = "I"
  BY <1>0 DEF Retired, LineInv, MshrMatches
<1>3. /\ mshr[c][l].op # "EV" => copy'[c][l] = latest'[l] /\ mshr[c][l].data = latest[l]
      /\ mshr[c][l].op # "ST" => latest'[l] = latest[l]
  <2>1. mshr[c][l].op # "EV" => mshr[c][l].data = latest[l]
    BY <1>0, <1>1 DEF LineInv, Contents
  <2>. QED
    BY <1>0, <1>1, <2>1 DEF Retired
<1>4. \A d \in Cache : /\ HasReq(d, l)' <=> HasReq(d, l)
                       /\ HasOwnerFwd(d, l)' <=> HasOwnerFwd(d, l)
                       /\ Waits(d, l)' <=> Waits(d, l)
                       /\ HasInv(d, l)' <=> HasInv(d, l)
                       /\ HasData(d, l)' <=> HasData(d, l)
                       /\ HasDataE(d, l)' <=> HasDataE(d, l)
  BY <1>1, AsksFrame, AtFrame, SentFrame
<1>5. /\ WbInFlight(l)' <=> WbInFlight(l)
      /\ Exclusive(l)' <=> Exclusive(l)
      /\ Recalled(l)' <=> Recalled(l)
      /\ RecallOwed(l)' = RecallOwed(l)
      /\ \A q \in Cache : Owed(q, l)' = Owed(q, l)
  BY <1>1, SentFrame, NodeSets DEF Exclusive, SameBank, SameRecall, RecallOwed, Owed, SameAt, SameSent
<1>6. /\ ~HasReq(c, l) /\ ~HasData(c, l) /\ ~HasDataE(c, l) /\ ~At(c, l, "PUT_ACK", c)
      /\ ~Waits(c, l) /\ \A p \in Cache : ~At(p, l, "FWD_GETS", c)
      /\ \A s \in Node, t \in DataType, a \in AckField, v \in Version : ~Sent(s, c, l, t, a, v)
  <2>1. ~HasReq(c, l)
    BY <1>0, <1>1 DEF LineInv, Questions, HasReq
  <2>2. \A s \in Node, t \in DataType, a \in AckField, v \in Version : ~Sent(s, c, l, t, a, v)
    BY <1>0, <1>1 DEF LineInv, DataMsgs
  <2>3. ~Waits(c, l) /\ \A p \in Cache : ~At(p, l, "FWD_GETS", c)
    BY <1>0, <1>1 DEF LineInv, OwnerFwds, Waits
  <2>. QED
    BY <1>0, <1>1, <2>1, <2>2, <2>3, ZeroTypes DEF LineInv, PutAcks, HasData, HasDataE, DataType
<1>7. /\ \A d \in Cache : Own(d, l)' <=> Own(d, l)
      /\ Own(c, l) <=> l1'[c][l] \in {"E", "M"}
  <2>1. (Own(c, l)' <=> Own(c, l)) /\ (Own(c, l) <=> l1'[c][l] \in {"E", "M"})
    BY <1>1, <1>2, <1>6 DEF Own
  <2>. QED
    BY <1>1, <1>4, <2>1 DEF Own
<1>8. \A d \in Cache : /\ Expects(d, l)' <=> Expects(d, l)
                       /\ Shares(d, l)' => Shares(d, l)
  <2>1. Shares(c, l)' => Shares(c, l)
    BY <1>1, <1>2 DEF Shares
  <2>. QED
    BY <1>1, <1>4, <1>7, <2>1 DEF Expects, Shares
<1>9. Own(c, l) => /\ \A r \in Node : ~At(c, l, "INV", r)
                   /\ ~At(c, l, "RECALL_INV", HomeOf[l])
                   /\ c \in dir[l].sharers => HasOwnerFwd(c, l)
  <2>. SUFFICES ASSUME Own(c, l)
                PROVE  /\ \A r \in Node : ~At(c, l, "INV", r)
                       /\ ~At(c, l, "RECALL_INV", HomeOf[l])
                       /\ c \in dir[l].sharers => HasOwnerFwd(c, l)
    OBVIOUS
  <2>1. dir[l].state # "S" /\ Expects(c, l)
    BY <1>0 DEF LineInv, Owners, Expects
  <2>2. c \in dir[l].sharers => dir[l].state = "S_D"
    BY <1>0, <2>1 DEF LineInv, Sharers
  <2>3. \A r \in Cache : ~At(c, l, "INV", r)
    BY <1>0 DEF LineInv, Invs, Owners
  <2>4. ~At(c, l, "RECALL_INV", HomeOf[l])
    BY <1>0, <2>1 DEF LineInv, Recalls
  <2>5. \A r \in Node : ~At(c, l, "INV", r)
    <3>. SUFFICES ASSUME NEW r \in Node, At(c, l, "INV", r) PROVE FALSE
      OBVIOUS
    <3>1. r \in Cache
      <4>1. Forward("INV", l, r) \in Items(fwd[HomeOf[l]][c])
        BY DEF At
      <4>2. OnBehalf(Forward("INV", l, r), HomeOf[l], c)
        BY <1>0, <4>1, NodeSets DEF Channels, FwdChannels
      <4>. QED
        BY <4>2, ForwardEq DEF OnBehalf
    <3>. QED
      BY <2>3, <3>1
  <2>. QED
    BY <1>0, <2>1, <2>2, <2>4, <2>5 DEF LineInv, Owners, Exclusive
<1>10. ~Own(c, l) /\ mshr[c][l].op # "EV" => l1'[c][l] = "S" /\ mshr[c][l].op = "LD"
  BY <1>1, <1>2, <1>7
<1>11. mshr[c][l].op = "EV" => l1[c][l] \notin Invalidatable
  BY <1>2 DEF Invalidatable
<1>12. mshr[c][l].op = "ST" =>
         /\ Own(c, l)
         /\ \A d \in Cache : d # c =>
              /\ ~Own(d, l) /\ ~Shares(d, l) /\ ~Readable(d, l) /\ ~HasData(d, l)
              /\ mshr[d][l].op \in {"LD", "ST"} => ~mshr[d][l].done /\ l1[d][l] \notin {"IM_A", "SM_A"}
         /\ ~WbInFlight(l) /\ dir[l].present /\ dir[l].state \notin {"I", "S"}
  <2>1. mshr[c][l].op = "ST" => Own(c, l)
    BY <1>1 DEF Own
  <2>. QED
    BY <1>0, <1>1, <2>1, OwnerAlone
<1>. USE <1>0, <1>1, <1>4, <1>5, <1>8
<1>21. MshrMatches(l)'
  BY <1>2 DEF LineInv, MshrMatches, StableL1
<1>22. Questions(l)'
  BY <1>6 DEF LineInv, Questions, SameAsks, SameAt, HasReq
<1>23. PutAcks(l)'
  BY DEF LineInv, PutAcks, SameAt
<1>24. DataMsgs(l)'
  BY <1>6, NodeSets DEF LineInv, DataMsgs, SameSent
<1>25. Owners(l)'
  BY <1>7 DEF LineInv, Owners, SameBank
<1>26. OwnerFwds(l)'
  BY <1>6 DEF LineInv, OwnerFwds, SameAt, SameBank, Waits
<1>27. NoCycle(l)' /\ WriteBacks(l)'
  BY NodeSets DEF LineInv, NoCycle, WriteBacks, SameAt, SameBank, SameSent
<1>28. Sharers(l)'
  BY <1>7, <1>9, <1>10, <1>11 DEF LineInv, Sharers, SameAt, SameBank, Invalidatable
<1>29. Invs(l)' /\ InvAcks(l)'
  BY <1>2, <1>7, <1>9, <1>10, <1>11, NodeSets DEF LineInv, Invs, InvAcks, SameAt, SameSent, Invalidatable
<1>30. AckCounts(l)'
  BY NodeSets DEF LineInv, AckCounts, SameSent
<1>31. Recalls(l)'
  BY <1>9, <1>10, <1>11, NodeSets DEF LineInv, Recalls, SameAt, SameSent, SameBank, SameRecall, Invalidatable
<1>32. Contents(l)'
  <2>1. CASE mshr[c][l].op # "ST"
    BY <1>2, <1>3, <1>6, <1>7, <2>1, NodeSets DEF LineInv, Contents, Readable, SameAsks, SameSent
  <2>2. CASE mshr[c][l].op = "ST"
    <3>1. \A d \in Cache : d # c => ~Readable(d, l)'
      BY <1>12, <2>2 DEF Readable
    <3>2. \A s \in Node, t \in DataType, a \in AckField, v \in Version, d \in Cache : ~Sent(s, d, l, t, a, v)'
      BY <1>6, <1>12, <2>2, NodeSets DEF SameSent, HasData
    <3>3. \A d \in Cache, v \in Version : ~Sent(d, HomeOf[l], l, "WB_DATA", 0, v)'
      BY <1>12, <2>2, NodeSets DEF SameSent, WbInFlight
    <3>4. \A t \in ReqType, v \in Version : ~Asks(c, l, t, v)'
      BY <1>6 DEF SameAsks, HasReq
    <3>5. \A v \in Version : ~Asks(c, l, "PUTM", v)'
      BY <3>4 DEF ReqType
    <3>. QED
      BY <1>2, <1>3, <1>7, <1>12, <2>2, <3>1, <3>2, <3>3, <3>5 DEF Contents
  <2>. QED
    BY <2>1, <2>2
<1>33. BankCopy(l)'
  BY <1>2, <1>3, <1>7, <1>12 DEF LineInv, BankCopy, SameBank, SameRecall
<1>. QED
  BY <1>21, <1>22, <1>23, <1>24, <1>25, <1>26, <1>27, <1>28, <1>29, <1>30, <1>31, <1>32, <1>33 DEF LineInv


===============================================================================
