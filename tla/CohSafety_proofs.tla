------------------------------ MODULE CohSafety_proofs ------------------------------
(***************************************************************************)
(* The protocol is safe: IInv holds throughout, the safety properties of   *)
(* Coherence and of CoverageClaims follow, and the caches and banks        *)
(* implement SharedMemory, which has one writer or current readers.        *)
(***************************************************************************)
EXTENDS CohBanks_proofs, CoverageClaims

---------------------------------------------------------------------------
(* The invariant is inductive *)

\* Nothing is in flight, and nobody holds anything.
LEMMA InitInv ==
  ASSUME Init
  PROVE  IInv
<1>1. /\ \A c \in Cache, l \in Line : l1[c][l] = "I" /\ mshr[c][l].op = "none" /\ mshr[c][l].done = FALSE
      /\ \A l \in Line : dir[l] = NoMeta /\ l2[l] = 0 /\ mem[l] = 0 /\ latest[l] = 0
      /\ \A h \in Home : \A i \in TbeIdx : tbe[h][i].state = "INVALID"
      /\ \A c \in Cache, h \in Home : req[c][h] = <<>> /\ fwd[h][c] = <<>>
      /\ \A s, d \in Node : rsp[s][d] = <<>>
  BY DEF Init, NoMshr, NoTbe
<1>2. Items(<<>>) = {} /\ Distinct(<<>>) /\ PutAckLast(<<>>)
  BY DEF Items, Distinct, PutAckLast
<1>3. /\ \A c \in Cache, l \in Line : \A t, v : ~Asks(c, l, t, v)
      /\ \A c \in Cache, l \in Line : \A t, r : ~At(c, l, t, r)
      /\ \A s, d \in Node, l \in Line : \A t, a, v : ~Sent(s, d, l, t, a, v)
  BY <1>1, <1>2, NodeSets DEF Asks, At, Sent, InRsp
<1>4. /\ \A h \in Home : \A l : TbesOf(h, l) = {}
      /\ \A h \in Home : ~BinvActive(h)
  BY <1>1 DEF TbesOf, BinvActive
<1>5. Channels
  BY <1>1, <1>2 DEF Channels, ReqChannels, FwdChannels, RspChannels
<1>6. Banks
  <2>. SUFFICES ASSUME NEW h \in Home PROVE BankOf(h)
    BY DEF Banks
  <2>1. \A l \in LinesOf(h) : l \in Line /\ dir[l].state = "I"
    BY <1>1 DEF LinesOf, NoMeta
  <2>. QED
    BY <1>1, <1>4, <2>1 DEF BankOf
<1>7. ASSUME NEW l \in Line PROVE LineInv(l)
  <2>1. /\ dir[l].present = FALSE /\ dir[l].state = "I" /\ dir[l].sharers = {}
    BY <1>1 DEF NoMeta
  <2>2. \A c \in Cache : /\ ~HasReq(c, l) /\ ~HasOwnerFwd(c, l) /\ ~HasInv(c, l) /\ ~HasData(c, l)
                         /\ ~Waits(c, l)
    BY <1>3, NodeSets DEF HasReq, HasOwnerFwd, HasInv, HasData, Waits
  <2>3. ~WbInFlight(l) /\ ~Recalled(l) /\ ~Exclusive(l)
    BY <1>3, <1>4, <2>1, NodeSets DEF WbInFlight, Recalled, Recalling, Exclusive
  <2>4. \A c \in Cache : ~Own(c, l) /\ ~Expects(c, l) /\ ~Shares(c, l) /\ ~Readable(c, l)
    BY <1>1, <2>2 DEF Own, Expects, Shares, Readable
  <2>5. MshrMatches(l) /\ Questions(l) /\ PutAcks(l) /\ DataMsgs(l)
    BY <1>1, <1>3, NodeSets DEF MshrMatches, Questions, PutAcks, DataMsgs, StableL1
  <2>6. Owners(l) /\ OwnerFwds(l) /\ NoCycle(l) /\ WriteBacks(l)
    BY <1>3, <2>1, <2>2, <2>3, <2>4, NodeSets DEF Owners, OwnerFwds, NoCycle, WriteBacks
  <2>7. Sharers(l) /\ Invs(l) /\ InvAcks(l) /\ AckCounts(l)
    BY <1>1, <1>3, <2>1, <2>4, NodeSets DEF Sharers, Invs, InvAcks, AckCounts
  <2>8. Recalls(l)
    <3>1. \A n \in AckRange : ~RecallCount(l, n)
      BY <1>4, NodeSets DEF RecallCount
    <3>. QED
      BY <1>3, <2>3, <3>1, NodeSets DEF Recalls
  <2>9. Contents(l) /\ BankCopy(l)
    BY <1>1, <1>3, <2>1, <2>3, <2>4, NodeSets DEF Contents, BankCopy
  <2>. QED
    BY <2>5, <2>6, <2>7, <2>8, <2>9 DEF LineInv
<1>8. TypeOK
  BY InitType DEF TypeInv
<1>. QED
  BY <1>5, <1>6, <1>7, <1>8 DEF IInv

\* Every step of the protocol keeps the invariant.
LEMMA NextInv ==
  ASSUME IInv, TypeInv, CachesFit, RecallsFit, [RoomyNext]_vars
  PROVE  IInv'
<1>1. TypeInv' /\ TypeOK'
  <2>1. TypeInv'
    BY TypeInductive DEF Next
  <2>. QED
    BY <2>1 DEF TypeInv
<1>2. OwnerKnown
  BY DEF TypeInv
<1>3. ASSUME NEW l \in Line, LineInv(l)', KeepsOthers(l) PROVE IInv'
  BY <1>1, <1>3, KeepsInvariant
<1>4. (Channels' /\ Banks' /\ \A k \in Line : SameLine(k)) => IInv'
  BY <1>1, KeepsEverything
<1>5. ASSUME NEW c \in Cache, CoreStep(c) PROVE IInv'
  <2>. PICK l \in Line : \/ \E op \in {"LD", "ST"} : CoreMiss(c, l, op)
                         \/ StoreHit(c, l) \/ Evict(c, l)
    BY <1>5 DEF CoreStep
  <2>1. LineInv(l)' /\ KeepsOthers(l)
    BY CoreMissLine, StoreHitLine, EvictLine
  <2>. QED
    BY <1>3, <2>1
<1>6. ASSUME NEW c \in Cache, L1Step(c) PROVE IInv'
  <2>1. CASE \E h \in Home : TakeForward(c, h)
    BY <1>3, <2>1, TakeForwardLine
  <2>2. CASE \E h \in Home : StallForward(c, h)
    BY <1>4, <2>2, StallForwardKeeps
  <2>3. CASE \E s \in Node : TakeResponse(c, s)
    BY <1>3, <2>3, TakeResponseLine
  <2>4. CASE \E l \in Line : Retire(c, l)
    BY <1>3, <2>4, RetireLine
  <2>. QED
    BY <1>6, <2>1, <2>2, <2>3, <2>4 DEF L1Step
<1>7. ASSUME NEW h \in Home, DirStep(h) PROVE IInv'
  <2>. SUFFICES ASSUME NEW c \in Cache,
                       \/ TakeRequest(h, c) \/ StallRequest(h, c) \/ TakeOwnerData(h, c)
                       \/ FetchLine(h, c) \/ StartRecall(h, c) \/ ReplaceUnheld(h, c)
                       \/ TakeRecallAnswer(h, c)
                PROVE  IInv'
    BY <1>7 DEF DirStep
  <2>1. CASE TakeRequest(h, c)
    BY <1>1, <1>2, <1>3, <2>1, TakeRequestLine
  <2>2. CASE StallRequest(h, c)
    BY <1>4, <2>2, StallRequestKeeps
  <2>3. CASE TakeOwnerData(h, c)
    BY <1>1, <1>3, <2>3, TakeOwnerDataLine
  <2>4. CASE FetchLine(h, c)
    BY <1>3, <2>4, FetchLineLine
  <2>5. CASE StartRecall(h, c)
    BY <1>2, <1>3, <2>5, StartRecallLine
  <2>6. CASE ReplaceUnheld(h, c)
    BY <1>3, <2>6, ReplaceUnheldLine
  <2>7. CASE TakeRecallAnswer(h, c)
    BY <1>3, <2>7, TakeRecallAnswerLine
  <2>. QED
    BY <2>1, <2>2, <2>3, <2>4, <2>5, <2>6, <2>7
<1>8. CASE UNCHANGED vars
  BY <1>4, <1>8, QuietKeeps DEF vars
<1>. QED
  BY <1>5, <1>6, <1>7, <1>8 DEF RoomyNext, SystemStep

---------------------------------------------------------------------------
(* Who holds a line *)

\* The invariant holds in every execution in which a bank replaces a line only
\* when it can and recalls no line from more caches than it can count: for any
\* banks, lines, ways, MSHRs and buffer entries, and as many caches as coh_pkg
\* sizes its counts for.
THEOREM ProtocolInvariant ==
  ASSUME CachesFit
  PROVE  RoomySpec /\ []RecallsFit => [](IInv /\ TypeInv)
<1>1. Init => IInv /\ TypeInv
  BY InitInv, InitType
<1>2. IInv /\ TypeInv /\ RecallsFit /\ [RoomyNext]_vars => (IInv /\ TypeInv)'
  BY NextInv, TypeInductive DEF Next
<1>. QED
  BY <1>1, <1>2, PTL DEF RoomySpec

\* Two caches that may use a line are never one that may write it and another:
\* both would own it, or the sharer would be known and the owner unexpected.
LEMMA OneWriter ==
  ASSUME IInv
  PROVE  SingleWriter
<1>. SUFFICES ASSUME NEW c \in Cache, NEW d \in Cache, NEW l \in Line, c # d, Writable(c, l)
              PROVE  ~Readable(d, l)
  BY DEF SingleWriter
<1>1. LineInv(l) /\ l1[c][l] \in {"E", "M"} /\ Own(c, l)
  BY DEF IInv, Writable, Own
<1>2. mshr[c][l].op # "ST"
  BY <1>1 DEF LineInv, MshrMatches
<1>. QED
  BY <1>1, <1>2, OwnerAlone

\* SingleWriter, the single-writer-multiple-reader invariant of the protocol
\* (l1_cache and dir_ctrl together), whatever the order of the messages.
THEOREM OneWriterAlways ==
  ASSUME CachesFit
  PROVE  RoomySpec /\ []RecallsFit => []SingleWriter
BY ProtocolInvariant, OneWriter, PTL

\* What a core may read is the value of the last store.
LEMMA LatestRead ==
  ASSUME IInv
  PROVE  LatestDataRead
<1>. SUFFICES ASSUME NEW c \in Cache, NEW l \in Line
              PROVE  /\ Readable(c, l) => copy[c][l] = latest[l]
                     /\ mshr[c][l].done /\ mshr[c][l].op # "EV" => mshr[c][l].data = latest[l]
  BY DEF LatestDataRead
<1>1. LineInv(l) /\ TypeOK
  BY DEF IInv
<1>2. mshr[c][l].done => mshr[c][l].op \in {"LD", "ST", "EV"}
  BY <1>1, StateValues DEF LineInv, MshrMatches
<1>. QED
  BY <1>1, <1>2 DEF LineInv, Contents

\* The L2's copy is current when its metadata says that it is what is served.
LEMMA CopyCurrent ==
  ASSUME IInv
  PROVE  L2CopyCurrent
BY DEF IInv, LineInv, BankCopy, L2CopyCurrent

\* A line has at most one buffer entry, and it has one just while in S_D or
\* recalled.
LEMMA TbesMatch ==
  ASSUME IInv
  PROVE  TbesMatchDirectory
<1>. SUFFICES ASSUME NEW h \in Home, NEW l \in LinesOf(h)
              PROVE  /\ \A i, j \in TbesOf(h, l) : i = j
                     /\ (dir[l].present /\ dir[l].state = "S_D") <=>
                          \E i \in TbesOf(h, l) : tbe[h][i].state = "WB_PEND"
                     /\ Recalling(h, l) => dir[l].present /\ binv[h].line = l
  BY DEF TbesMatchDirectory
<1>1. BankOf(h) /\ l \in Line /\ LineInv(l)
  BY DEF IInv, Banks, LinesOf
<1>2. dir[l].state = "S_D" => dir[l].present
  BY <1>1 DEF LineInv, BankCopy, NoMeta
<1>3. Recalling(h, l) => dir[l].present /\ binv[h].line = l
  BY <1>1 DEF BankOf, Recalling, TbesOf
<1>. QED
  BY <1>1, <1>2, <1>3 DEF BankOf

\* What a channel to a cache holds is a message of a line of its bank.
LEMMA SummonedBy ==
  ASSUME NEW c \in Cache, NEW l \in Line, HasOwnerFwd(c, l) \/ HasInv(c, l)
  PROVE  Summoned(c, l)
<1>. PICK t, r : t # "PUT_ACK" /\ At(c, l, t, r)
  BY DEF HasOwnerFwd, HasInv, OwnerFwd
<1>. PICK i \in 1 .. Len(fwd[HomeOf[l]][c]) : fwd[HomeOf[l]][c][i] = Forward(t, l, r)
  BY DEF At, Items
<1>. QED
  BY ForwardEq DEF Summoned

\* The bank knows of every copy that is not being taken away.
LEMMA Included ==
  ASSUME IInv
  PROVE  Inclusion
<1>. SUFFICES ASSUME NEW c \in Cache, NEW l \in Line
              PROVE  /\ Readable(c, l) => dir[l].present
                     /\ Writable(c, l) => dir[l].owner = c \/ Summoned(c, l)
                     /\ Readable(c, l) => c \in dir[l].sharers \cup {dir[l].owner} \/ Summoned(c, l)
  BY DEF Inclusion
<1>1. LineInv(l)
  BY DEF IInv
<1>2. Own(c, l) => (Exclusive(l) /\ dir[l].owner = c) \/ HasOwnerFwd(c, l)
  BY <1>1 DEF LineInv, Owners, Expects
<1>3. Readable(c, l) => Own(c, l) \/ Shares(c, l)
  BY DEF Readable, Own, Shares
<1>4. Writable(c, l) => Own(c, l)
  BY DEF Writable, Own
<1>5. Shares(c, l) => HasInv(c, l) \/ Own(c, l) \/ (c \in dir[l].sharers /\ dir[l].state \in {"S", "S_D"})
  BY <1>1 DEF LineInv, Sharers
<1>6. Readable(c, l) => dir[l].present
  <2>. SUFFICES ASSUME Readable(c, l), ~dir[l].present PROVE FALSE
    OBVIOUS
  <2>1. dir[l].state = "I" /\ dir[l].sharers = {}
    BY <1>1 DEF LineInv, BankCopy, NoMeta
  <2>2. \A r \in Cache : ~Own(r, l)
    BY <1>1, <2>1 DEF LineInv, Owners, Expects
  <2>. QED
    BY <1>1, <1>3, <1>5, <2>1, <2>2 DEF LineInv, Invs, HasInv
<1>. QED
  BY <1>2, <1>3, <1>4, <1>5, <1>6, SummonedBy

---------------------------------------------------------------------------
(* What is received is expected *)

\* What the head of a channel is.
LEMMA FwdHead ==
  ASSUME TypeOK, Channels, NEW h \in Home, NEW c \in Cache, NEW i \in 1 .. Len(fwd[h][c])
  PROVE  \E l \in Line, t \in FwdType, r \in Node :
           /\ fwd[h][c][i] = Forward(t, l, r) /\ HomeOf[l] = h
           /\ At(c, l, t, r) /\ OnBehalf(Forward(t, l, r), h, c)
<1>1. PICK m : m = fwd[h][c][i]
  OBVIOUS
<1>2. fwd[h][c] \in Seq(FwdMsg)
  BY DEF TypeOK
<1>3. m \in FwdMsg /\ m \in Items(fwd[h][c])
  BY <1>1, <1>2 DEF Items
<1>4. HomeOf[m.line] = h /\ OnBehalf(m, h, c)
  BY <1>3 DEF Channels, FwdChannels
<1>5. m = Forward(m.type, m.line, m.requester) /\ m.line \in Line /\ m.type \in FwdType /\ m.requester \in Node
  BY <1>3 DEF FwdMsg, Forward
<1>. QED
  BY <1>1, <1>3, <1>4, <1>5 DEF At

\* A response on VN2 is one of those in flight, from whom it may come.
LEMMA RspHead ==
  ASSUME TypeOK, Channels, NEW s \in Node, NEW d \in Node, NEW i \in 1 .. Len(rsp[s][d])
  PROVE  \E l \in Line, t \in RspType, a \in AckField, v \in Version :
           /\ rsp[s][d][i] = Response(t, l, a, v)
           /\ Sent(s, d, l, t, a, v) /\ RspFits(s, d, Response(t, l, a, v))
<1>1. PICK m : m = rsp[s][d][i]
  OBVIOUS
<1>2. rsp[s][d] \in Seq(RspMsg)
  BY DEF TypeOK
<1>3. m \in RspMsg /\ m \in Items(rsp[s][d])
  BY <1>1, <1>2 DEF Items
<1>4. RspFits(s, d, m)
  BY <1>3 DEF Channels, RspChannels
<1>5. m = Response(m.type, m.line, m.ack, m.data)
      /\ m.line \in Line /\ m.type \in RspType /\ m.ack \in AckField /\ m.data \in Version
  BY <1>3 DEF RspMsg, Response
<1>. QED
  BY <1>1, <1>3, <1>4, <1>5 DEF Sent, InRsp

\* The head of a channel is its first message.
LEMMA HeadIndex ==
  ASSUME NEW M, NEW q \in Seq(M), q # <<>>
  PROVE  1 \in 1 .. Len(q) /\ Head(q) = q[1]
OBVIOUS

\* The count of a recall is the number of answers outstanding.
LEMMA CountExact ==
  ASSUME IInv
  PROVE  RecallCountExact
<1>0. TypeOK /\ Channels
  BY DEF IInv
<1>. SUFFICES ASSUME NEW h \in Home, NEW l \in Line
              PROVE  /\ RecallsOf(h, l) # {} => Recalling(h, l)
                     /\ \A i \in TbesOf(h, l) : tbe[h][i].state = "INV_PEND" =>
                          tbe[h][i].ack = Cardinality(RecallsOf(h, l) \cup AnswersOf(h, l))
  BY DEF RecallCountExact
<1>1. LineInv(l) /\ BankOf(h) /\ h \in Node
  BY NodeSets DEF IInv, Banks
<1>2. ASSUME NEW c \in Cache
      PROVE  c \in RecallsOf(h, l) <=>
               h = HomeOf[l] /\ (At(c, l, "RECALL", h) \/ At(c, l, "RECALL_INV", h))
  <2>1. ASSUME c \in RecallsOf(h, l)
        PROVE  h = HomeOf[l] /\ (At(c, l, "RECALL", h) \/ At(c, l, "RECALL_INV", h))
    <3>1. PICK i \in 1 .. Len(fwd[h][c]) : fwd[h][c][i].line = l /\ fwd[h][c][i].type \in {"RECALL", "RECALL_INV"}
      BY <2>1 DEF RecallsOf
    <3>. QED
      BY <1>0, <3>1, FwdHead, ForwardEq DEF OnBehalf
  <2>2. ASSUME h = HomeOf[l], NEW t \in {"RECALL", "RECALL_INV"}, At(c, l, t, h)
        PROVE  c \in RecallsOf(h, l)
    BY <2>2, ForwardEq DEF At, Items, RecallsOf
  <2>. QED
    BY <2>1, <2>2
<1>3. RecallsOf(h, l) # {} => Recalling(h, l)
  BY <1>1, <1>2 DEF RecallsOf, LineInv, Recalls, Recalled
<1>4. ASSUME NEW c \in Cache, h = HomeOf[l]
      PROVE  c \in AnswersOf(h, l) <=> \E t \in RspToDir, v \in Version : Sent(c, h, l, t, 0, v)
  <2>0. c \in Node
    BY NodeSets
  <2>1. ASSUME c \in AnswersOf(h, l)
        PROVE  \E t \in RspToDir, v \in Version : Sent(c, h, l, t, 0, v)
    <3>1. PICK i \in 1 .. Len(rsp[c][h]) : rsp[c][h][i].line = l
      BY <2>1 DEF AnswersOf
    <3>2. PICK t \in RspType, a \in AckField, v \in Version :
             Sent(c, h, l, t, a, v) /\ RspFits(c, h, Response(t, l, a, v))
      BY <1>0, <1>1, <2>0, <3>1, RspHead, ResponseEq
    <3>3. t \in RspToDir
      BY <3>2, ResponseEq DEF RspFits
    <3>4. a = 0
      BY <1>1, <1>4, <3>2, <3>3 DEF LineInv, WriteBacks, Recalls, RspToDir
    <3>. QED
      BY <3>2, <3>3, <3>4
  <2>2. ASSUME NEW t \in RspToDir, NEW v \in Version, Sent(c, h, l, t, 0, v)
        PROVE  c \in AnswersOf(h, l)
    BY <2>2, ResponseEq DEF Sent, InRsp, Items, AnswersOf
  <2>. QED
    BY <2>1, <2>2
<1>5. ASSUME NEW i \in TbesOf(h, l), tbe[h][i].state = "INV_PEND"
      PROVE  tbe[h][i].ack = Cardinality(RecallsOf(h, l) \cup AnswersOf(h, l))
  <2>1. h = HomeOf[l]
    BY <1>1, <1>5 DEF BankOf, TbesOf, LinesOf
  <2>2. RecallsOf(h, l) \cup AnswersOf(h, l) = RecallOwed(l)
    <3>1. RecallsOf(h, l) \subseteq Cache /\ AnswersOf(h, l) \subseteq Cache /\ RecallOwed(l) \subseteq Cache
      BY DEF RecallsOf, AnswersOf, RecallOwed
    <3>2. \A c \in Cache : c \in RecallsOf(h, l) \cup AnswersOf(h, l) <=> c \in RecallOwed(l)
      BY <1>2, <1>4, <2>1 DEF RecallOwed
    <3>. QED
      BY <3>1, <3>2
  <2>3. tbe[h][i].ack \in AckRange /\ RecallCount(l, tbe[h][i].ack)
    <3>1. tbe[h][i] \in Tbe
      BY <1>0 DEF TypeOK, TbesOf
    <3>. QED
      BY <1>5, <2>1, <3>1 DEF Tbe, RecallCount
  <2>. QED
    BY <1>1, <2>2, <2>3 DEF LineInv, Recalls
<1>. QED
  BY <1>3, <1>5

\* The directory table has an arc, or a stall, for every request in every
\* state.
LEMMA RequestLegal ==
  ASSUME NEW md \in Meta, NEW c, NEW t \in ReqType
  PROVE  DirLegal(md.state, DirEventOf(t, md, c))
<1>1. md.state \in {"I", "S", "E", "M", "S_D"}
  BY DEF Meta, DirState
<1>. DEFINE e == DirEventOf(t, md, c)
<1>2. /\ e \in {"GETS", "GETM"} \cup PutEvent
      /\ e \in {"PUTM_OWNER", "PUTE_OWNER"} => md.state \in {"E", "M"}
  BY DirEvents DEF ReqType, PutEvent, IsOwner
<1>. HIDE DEF e
<1>3. ASSUME md.state = "S_D" PROVE DirLegal(md.state, e)
  BY <1>2, <1>3 DEF DirLegal, DirStalls, DirArcs, DirState
<1>4. ASSUME md.state # "S_D", e \in {"GETS", "GETM"} PROVE DirLegal(md.state, e)
  BY <1>1, <1>4 DEF DirLegal, DirArcs, DirState
<1>5. ASSUME md.state # "S_D", e \in PutEvent PROVE DirLegal(md.state, e)
  BY <1>1, <1>2, <1>5 DEF DirLegal, DirArcs, DirState, PutEvent
<1>. QED
  BY <1>2, <1>3, <1>4, <1>5 DEF e

\* What a bank is about to take, it has an arc for.
LEMMA BankEvents ==
  ASSUME IInv
  PROVE  BankEventsLegal
<1>0. TypeOK /\ Channels
  BY DEF IInv
<1>. SUFFICES ASSUME NEW h \in Home, NEW c \in Cache
     PROVE  /\ req[c][h] # <<>> =>
                 LET m == Head(req[c][h])
                     md == dir[m.line]
                 IN  md.present => DirLegal(md.state, DirEventOf(m.type, md, c))
            /\ rsp[c][h] # <<>> =>
                 LET m == Head(rsp[c][h])
                 IN  /\ dir[m.line].present
                     /\ \/ Recalling(h, m.line)
                        \/ m.type = "WB_DATA" /\ dir[m.line].state = "S_D"
  BY DEF BankEventsLegal
<1>1. ASSUME req[c][h] # <<>>
      PROVE  LET m == Head(req[c][h])
                 md == dir[m.line]
             IN  DirLegal(md.state, DirEventOf(m.type, md, c))
  <2>1. Head(req[c][h]) \in ReqMsg
    BY <1>0, <1>1, HeadTail DEF TypeOK
  <2>2. Head(req[c][h]).type \in ReqType /\ dir[Head(req[c][h]).line] \in Meta
    BY <1>0, <2>1 DEF ReqMsg, TypeOK
  <2>. QED
    BY <2>2, RequestLegal
<1>2. ASSUME rsp[c][h] # <<>>
      PROVE  LET m == Head(rsp[c][h])
             IN  /\ dir[m.line].present
                 /\ \/ Recalling(h, m.line)
                    \/ m.type = "WB_DATA" /\ dir[m.line].state = "S_D"
  <2>0. c \in Node /\ h \in Node
    BY NodeSets
  <2>1. 1 \in 1 .. Len(rsp[c][h]) /\ Head(rsp[c][h]) = rsp[c][h][1]
    BY <1>0, <1>2, <2>0, HeadIndex DEF TypeOK
  <2>2. PICK l \in Line, t \in RspType, a \in AckField, v \in Version :
          /\ rsp[c][h][1] = Response(t, l, a, v)
          /\ Sent(c, h, l, t, a, v) /\ RspFits(c, h, Response(t, l, a, v))
    BY <1>0, <2>0, <2>1, RspHead
  <2>3. t \in RspToDir /\ HomeOf[l] = h
    BY <2>2, ResponseEq DEF RspFits
  <2>4. LineInv(l) /\ BankOf(h)
    BY DEF IInv, Banks
  <2>5. \/ Recalled(l)
        \/ t = "WB_DATA" /\ dir[l].state = "S_D"
    BY <2>2, <2>3, <2>4 DEF LineInv, WriteBacks, Recalls, RspToDir
  <2>6. dir[l].present
    BY <2>3, <2>4, <2>5 DEF LineInv, BankCopy, NoMeta, BankOf, Recalled, Recalling, TbesOf
  <2>7. Head(rsp[c][h]).line = l /\ Head(rsp[c][h]).type = t
    BY <2>1, <2>2, ResponseEq
  <2>. QED
    BY <2>3, <2>5, <2>6, <2>7 DEF Recalled
<1>. QED
  BY <1>1, <1>2

\* What a cache is about to take from VN1, it has an arc for.
LEMMA ForwardsOk ==
  ASSUME IInv
  PROVE  ForwardsLegal
<1>0. TypeOK /\ Channels
  BY DEF IInv
<1>. SUFFICES ASSUME NEW h \in Home, NEW c \in Cache, fwd[h][c] # <<>>
              PROVE  LET m == Head(fwd[h][c]) IN L1Legal(l1[c][m.line], FwdEventOf(m.type))
  BY DEF ForwardsLegal
<1>1. 1 \in 1 .. Len(fwd[h][c]) /\ Head(fwd[h][c]) = fwd[h][c][1]
  BY <1>0, HeadIndex DEF TypeOK
<1>2. PICK l \in Line, t \in FwdType, r \in Node :
        /\ fwd[h][c][1] = Forward(t, l, r) /\ HomeOf[l] = h
        /\ At(c, l, t, r) /\ OnBehalf(Forward(t, l, r), h, c)
  BY <1>0, <1>1, FwdHead
<1>3. LineInv(l)
  BY DEF IInv
<1>4. ASSUME t = "PUT_ACK" PROVE L1Legal(l1[c][l], FwdEventOf(t))
  <2>1. l1[c][l] \in Evicting
    BY <1>2, <1>3, <1>4, ForwardEq DEF OnBehalf, LineInv, PutAcks, MshrMatches
  <2>. QED
    BY <1>4, <2>1, FwdEvents DEF L1Legal, L1Arcs, FwdArcs, L1State, StableL1
<1>5. ASSUME t \in {"INV", "RECALL_INV"} PROVE L1Legal(l1[c][l], FwdEventOf(t))
  <2>1. l1[c][l] \in Invalidatable
    BY <1>2, <1>3, <1>5, ForwardEq DEF OnBehalf, LineInv, Invs, Recalls
  <2>. QED
    BY <1>5, <2>1, FwdEvents DEF L1Legal, L1Stalls, L1Arcs, FwdArcs, InvArcs, L1State, StableL1,
       Fetching, Evicting, Invalidatable
<1>6. ASSUME t \in {"FWD_GETS", "FWD_GETM", "RECALL"} PROVE L1Legal(l1[c][l], FwdEventOf(t))
  <2>1. Own(c, l) \/ Waits(c, l)
    BY <1>2, <1>3, <1>6 DEF LineInv, Owners, Expects, HasOwnerFwd, OwnerFwd
  <2>2. l1[c][l] \in {"E", "M", "EI_A", "MI_A", "IS_D", "IM_AD", "IM_A", "SM_AD", "SM_A"}
    BY <1>3, <2>1 DEF Own, Waits, LineInv, MshrMatches, OwnerFwds
  <2>3. FwdEventOf(t) \in {"FWD_GETS", "FWD_GETM"}
    BY <1>6, FwdEvents
  <2>. QED
    BY <2>2, <2>3 DEF L1Legal, L1Stalls, L1Arcs, FwdArcs, L1State, StableL1, Evicting
<1>7. L1Legal(l1[c][l], FwdEventOf(t))
  BY <1>4, <1>5, <1>6 DEF FwdType
<1>. QED
  BY <1>1, <1>2, <1>7, ForwardEq

\* What a cache is about to take from VN2 belongs to a transaction of its own
\* that has an arc for it.
LEMMA ResponsesOk ==
  ASSUME IInv
  PROVE  ResponsesLand
<1>0. TypeOK /\ Channels
  BY DEF IInv
<1>. SUFFICES ASSUME NEW s \in Node, NEW c \in Cache, rsp[s][c] # <<>>
     PROVE  LET m == Head(rsp[s][c])
                e == RspEventOf(m.type, m.ack)
            IN  /\ mshr[c][m.line].op \in {"LD", "ST"}
                /\ ~mshr[c][m.line].done
                /\ \E n \in L1State : <<l1[c][m.line], e, n>> \in RspArcs
                /\ AddsAcks(e) => mshr[c][m.line].ack <= 0
  BY DEF ResponsesLand
<1>. c \in Node
  BY NodeSets
<1>1. 1 \in 1 .. Len(rsp[s][c]) /\ Head(rsp[s][c]) = rsp[s][c][1]
  BY <1>0, HeadIndex DEF TypeOK
<1>2. PICK l \in Line, t \in RspType, a \in AckField, v \in Version :
        /\ rsp[s][c][1] = Response(t, l, a, v)
        /\ Sent(s, c, l, t, a, v) /\ RspFits(s, c, Response(t, l, a, v))
  BY <1>0, <1>1, RspHead
<1>3. LineInv(l)
  BY DEF IInv
<1>4. t \in DataType \/ t = "INV_ACK"
  BY <1>2, ResponseEq DEF RspFits, DataType, Node
<1>5. /\ mshr[c][l].op \in {"LD", "ST"} /\ ~mshr[c][l].done
      /\ mshr[c][l].op = "LD" => t # "INV_ACK" /\ a = 0 /\ l1[c][l] = "IS_D"
      /\ mshr[c][l].op = "ST" => /\ t # "DATA_E"
                                 /\ l1[c][l] \in {"IM_AD", "IM_A", "SM_AD", "SM_A"}
                                 /\ t # "INV_ACK" => l1[c][l] \in {"IM_AD", "SM_AD"} /\ mshr[c][l].ack <= 0
  <2>1. CASE t = "INV_ACK"
    <3>1. /\ mshr[c][l].op = "ST" /\ ~mshr[c][l].done
      <4>1. s \in Cache
        BY <1>2, <2>1, ResponseEq DEF RspFits, Node
      <4>. QED
        BY <1>2, <1>3, <2>1, <4>1 DEF LineInv, InvAcks
    <3>2. l1[c][l] \in {"IM_AD", "IM_A", "SM_AD", "SM_A"}
      BY <1>3, <3>1 DEF LineInv, MshrMatches
    <3>. QED
      BY <2>1, <3>1, <3>2
  <2>2. CASE t \in DataType
    <3>1. /\ ~mshr[c][l].done /\ mshr[c][l].op \in {"LD", "ST"}
          /\ mshr[c][l].op = "ST" => l1[c][l] \in {"IM_AD", "SM_AD"}
          /\ t = "DATA_E" => mshr[c][l].op = "LD"
          /\ mshr[c][l].op = "LD" => a = 0
      BY <1>2, <1>3, <2>2 DEF LineInv, DataMsgs
    <3>2. mshr[c][l].op = "LD" => l1[c][l] = "IS_D"
      BY <1>3 DEF LineInv, MshrMatches
    <3>3. mshr[c][l].op = "ST" => mshr[c][l].ack <= 0
      BY <1>3, <3>1 DEF LineInv, AckCounts
    <3>. QED
      BY <2>2, <3>1, <3>2, <3>3 DEF DataType
  <2>. QED
    BY <1>4, <2>1, <2>2
<1>. DEFINE e == RspEventOf(t, a)
<1>6. /\ t = "DATA_E" => e = "DATA_E_DIR"
      /\ t = "DATA_OWNER" => e = "DATA_OWNER"
      /\ t = "INV_ACK" => e = "INV_ACK"
      /\ t = "DATA_DIR" /\ a = 0 => e = "DATA_DIR_A0"
      /\ t = "DATA_DIR" /\ a # 0 => e = "DATA_DIR_AGT0"
  BY RspEvents
<1>. HIDE DEF e
<1>7. AddsAcks(e) => mshr[c][l].ack <= 0
  BY <1>4, <1>5, <1>6 DEF AddsAcks, DataType
<1>8. \E n \in L1State : <<l1[c][l], e, n>> \in RspArcs
  BY <1>4, <1>5, <1>6 DEF DataType, RspArcs, L1State, StableL1, Fetching
<1>9. Head(rsp[s][c]).line = l /\ RspEventOf(Head(rsp[s][c]).type, Head(rsp[s][c]).ack) = e
  BY <1>1, <1>2, ResponseEq DEF e
<1>. QED
  BY <1>5, <1>7, <1>8, <1>9

---------------------------------------------------------------------------
(* What the cores see *)

\* What a load hit of c returns.
ViewOf(c, l) == IF Readable(c, l) THEN copy[c][l] ELSE 0

\* The cores see nothing but what happens to c and l.
OnlySeen(c, l) ==
    \A d \in Cache, k \in Line : d # c \/ k # l =>
        PermOf(d, k)' = PermOf(d, k) /\ ViewOf(d, k)' = ViewOf(d, k)

\* What a cache may do with a line, and what it sees of it.
LEMMA Permissions ==
  ASSUME NEW c, NEW l
  PROVE  /\ PermOf(c, l) = "write" <=> l1[c][l] \in {"E", "M"}
         /\ PermOf(c, l) = "read" <=> l1[c][l] \in {"S", "SM_AD", "SM_A"}
         /\ PermOf(c, l) = "none" <=> l1[c][l] \notin {"S", "E", "M", "SM_AD", "SM_A"}
         /\ PermOf(c, l) \in {"none", "read", "write"}
         /\ PermOf(c, l) = "none" => ViewOf(c, l) = 0
         /\ PermOf(c, l) # "none" => ViewOf(c, l) = copy[c][l]
BY DEF PermOf, Readable, Writable, ViewOf

\* A step the cores do not see.
LEMMA Unseen ==
  ASSUME \A c \in Cache, l \in Line : PermOf(c, l)' = PermOf(c, l) /\ ViewOf(c, l)' = ViewOf(c, l),
         latest' = latest
  PROVE  UNCHANGED Memory!smVars
BY DEF Memory!smVars, ViewOf

\* A copy that may be read appears: the cores see AcquireRead.
LEMMA SeenAcquireRead ==
  ASSUME NEW c \in Cache, NEW l \in Line, OnlySeen(c, l), latest' = latest,
         PermOf(c, l) = "none", PermOf(c, l)' = "read", ViewOf(c, l)' = latest[l],
         \A d \in Cache : d # c => PermOf(d, l) # "write"
  PROVE  Memory!AcquireRead(c, l)
BY DEF Memory!AcquireRead, Memory!Others, OnlySeen, ViewOf

\* A copy that may be written appears: the cores see AcquireWrite.
LEMMA SeenAcquireWrite ==
  ASSUME NEW c \in Cache, NEW l \in Line, OnlySeen(c, l), latest' = latest,
         PermOf(c, l)' = "write", ViewOf(c, l)' = latest[l],
         \A d \in Cache : d # c => PermOf(d, l) = "none"
  PROVE  Memory!AcquireWrite(c, l)
BY SMTT(20), ZenonT(30) DEF Memory!AcquireWrite, Memory!Others, OnlySeen, ViewOf

\* A store is performed: the cores see Store.
LEMMA SeenStore ==
  ASSUME NEW c \in Cache, NEW l \in Line, OnlySeen(c, l),
         latest' = [latest EXCEPT ![l] = Next1(@)],
         PermOf(c, l)' = "write", ViewOf(c, l)' = Next1(latest[l]),
         \A d \in Cache : d # c => PermOf(d, l) = "none"
  PROVE  Memory!Store(c, l)
BY SMTT(20), ZenonT(30) DEF Memory!Store, Memory!Others, OnlySeen, ViewOf, Next1

\* A writable copy stays readable: the cores see Downgrade.
LEMMA SeenDowngrade ==
  ASSUME NEW c \in Cache, NEW l \in Line, OnlySeen(c, l), latest' = latest,
         PermOf(c, l) = "write", PermOf(c, l)' = "read", ViewOf(c, l)' = ViewOf(c, l)
  PROVE  Memory!Downgrade(c, l)
BY DEF Memory!Downgrade, OnlySeen, ViewOf

\* A copy is gone: the cores see Release.
LEMMA SeenRelease ==
  ASSUME NEW c \in Cache, NEW l \in Line, OnlySeen(c, l), latest' = latest,
         PermOf(c, l) # "none", PermOf(c, l)' = "none", ViewOf(c, l)' = 0
  PROVE  Memory!Release(c, l)
BY DEF Memory!Release, OnlySeen, ViewOf

\* Initially no core may do anything.
LEMMA InitSeen ==
  ASSUME Init
  PROVE  Memory!SMInit
<1>1. \A c \in Cache, l \in Line : l1[c][l] = "I" /\ latest[l] = 0
  BY DEF Init
<1>2. \A c \in Cache, l \in Line : PermOf(c, l) = "none" /\ ~Readable(c, l)
  BY <1>1, Permissions DEF Readable
<1>3. latest = [l \in Line |-> 0]
  BY DEF Init
<1>. QED
  BY <1>2, <1>3 DEF Memory!SMInit

---------------------------------------------------------------------------
(* The protocol implements the shared memory *)

\* The core of every step: what is seen of a line whose cache changes.
LEMMA SeenOne ==
  ASSUME NEW c \in Cache, NEW l \in Line,
         \A d \in Cache, k \in Line : d # c \/ k # l => l1'[d][k] = l1[d][k] /\ copy'[d][k] = copy[d][k]
  PROVE  OnlySeen(c, l)
BY DEF OnlySeen, PermOf, ViewOf, Readable, Writable

\* The same after a step.
LEMMA NextPermissions ==
  ASSUME NEW c, NEW l
  PROVE  /\ PermOf(c, l)' = "write" <=> l1'[c][l] \in {"E", "M"}
         /\ PermOf(c, l)' = "read" <=> l1'[c][l] \in {"S", "SM_AD", "SM_A"}
         /\ PermOf(c, l)' = "none" <=> l1'[c][l] \notin {"S", "E", "M", "SM_AD", "SM_A"}
         /\ PermOf(c, l)' \in {"none", "read", "write"}
         /\ PermOf(c, l)' = "none" => ViewOf(c, l)' = 0
         /\ PermOf(c, l)' # "none" => ViewOf(c, l)' = copy'[c][l]
BY DEF PermOf, Readable, Writable, ViewOf

\* A cache that changes state without changing what its core may do.
LEMMA UnseenOne ==
  ASSUME NEW c \in Cache, NEW l \in Line, OnlySeen(c, l), latest' = latest,
         PermOf(c, l)' = PermOf(c, l), copy'[c][l] = copy[c][l] \/ PermOf(c, l) = "none"
  PROVE  UNCHANGED Memory!smVars
<1>1. ViewOf(c, l)' = ViewOf(c, l)
  BY Permissions, NextPermissions
<1>. QED
  BY <1>1, Unseen DEF OnlySeen

SeenStep == [Memory!SMNext]_(Memory!smVars)

\* A step that one cache and line show is one of the shared memory's.
LEMMA SeenSteps ==
  ASSUME NEW c \in Cache, NEW l \in Line,
         \/ UNCHANGED Memory!smVars
         \/ Memory!AcquireRead(c, l) \/ Memory!AcquireWrite(c, l) \/ Memory!Store(c, l)
         \/ Memory!Downgrade(c, l) \/ Memory!Release(c, l)
  PROVE  SeenStep
BY DEF SeenStep, Memory!SMNext

\* Whoever may write is alone.
LEMMA WriterAlone ==
  ASSUME IInv, NEW c \in Cache, NEW l \in Line, Own(c, l), mshr[c][l].op = "ST" => mshr[c][l].done
  PROVE  \A d \in Cache : d # c => PermOf(d, l) = "none"
<1>1. LineInv(l)
  BY DEF IInv
<1>2. \A d \in Cache : d # c => ~Readable(d, l)
  BY <1>1, OwnerAlone
<1>. QED
  BY <1>2, Permissions DEF Readable

\* What the cores see of a core's operation.
LEMMA CoreStepSeen ==
  ASSUME IInv, NEW c \in Cache, CoreStep(c)
  PROVE  SeenStep
<1>0. TypeOK /\ LatestDataRead /\ \A l \in Line : LineInv(l)
  BY LatestRead DEF IInv
<1>1. ASSUME NEW l \in Line, NEW op \in {"LD", "ST"}, CoreMiss(c, l, op)
      PROVE  SeenStep
  <2>1. PICK n \in L1State : /\ <<l1[c][l], OpEvent(op), n>> \in CoreArcs
                             /\ l1' = [l1 EXCEPT ![c][l] = n]
    BY <1>1 DEF CoreMiss
  <2>2. latest' = latest /\ copy' = copy /\ (l1[c][l] = "I" \/ (l1[c][l] = "S" /\ op = "ST"))
    BY <1>1 DEF CoreMiss
  <2>3. l1[c][l] = "I" => n \in {"IS_D", "IM_AD"}
    BY <2>1 DEF CoreArcs, OpEvent
  <2>4. l1[c][l] = "S" => n = "SM_AD"
    BY <2>1, <2>2 DEF CoreArcs, OpEvent
  <2>5. l1'[c][l] = n /\ OnlySeen(c, l)
    BY <1>0, <2>1, <2>2, SeenOne DEF TypeOK
  <2>6. PermOf(c, l)' = PermOf(c, l)
    BY <2>2, <2>3, <2>4, <2>5, Permissions, NextPermissions
  <2>. QED
    BY <2>2, <2>5, <2>6, UnseenOne, SeenSteps
<1>2. ASSUME NEW l \in Line, StoreHit(c, l)
      PROVE  SeenStep
  <2>1. PICK n \in L1State : /\ <<l1[c][l], "STORE", n>> \in CoreArcs
                             /\ l1' = [l1 EXCEPT ![c][l] = n]
    BY <1>2 DEF StoreHit
  <2>2. /\ l1[c][l] \in {"E", "M"}
        /\ latest' = [latest EXCEPT ![l] = Next1(@)]
        /\ copy' = [copy EXCEPT ![c][l] = Next1(@)]
    BY <1>2 DEF StoreHit
  <2>3. n = "M"
    BY <2>1, <2>2 DEF CoreArcs
  <2>4. l1'[c][l] = n /\ OnlySeen(c, l) /\ copy'[c][l] = Next1(copy[c][l])
    BY <1>0, <2>1, <2>2, SeenOne DEF TypeOK
  <2>5. copy[c][l] = latest[l]
    BY <1>0, <2>2 DEF LatestDataRead, Readable
  <2>6. Own(c, l) /\ mshr[c][l].op # "ST"
    BY <1>0, <2>2 DEF Own, LineInv, MshrMatches
  <2>7. PermOf(c, l)' = "write" /\ ViewOf(c, l)' = Next1(latest[l])
    BY <2>3, <2>4, <2>5, NextPermissions
  <2>. QED
    BY <2>2, <2>4, <2>6, <2>7, WriterAlone, SeenStore, SeenSteps
<1>3. ASSUME NEW l \in Line, Evict(c, l)
      PROVE  SeenStep
  <2>1. PICK n \in L1State : /\ <<l1[c][l], "EVICT", n>> \in CoreArcs
                             /\ l1' = [l1 EXCEPT ![c][l] = n]
    BY <1>3 DEF Evict
  <2>2. latest' = latest /\ copy' = copy
    BY <1>3 DEF Evict
  <2>3. l1[c][l] \in {"S", "E", "M"} /\ n \in {"SI_A", "EI_A", "MI_A"}
    BY <2>1 DEF CoreArcs
  <2>4. l1'[c][l] = n /\ OnlySeen(c, l)
    BY <1>0, <2>1, <2>2, SeenOne DEF TypeOK
  <2>5. PermOf(c, l) # "none" /\ PermOf(c, l)' = "none" /\ ViewOf(c, l)' = 0
    BY <2>3, <2>4, Permissions, NextPermissions
  <2>. QED
    BY <2>2, <2>4, <2>5, SeenRelease, SeenSteps
<1>. QED
  BY <1>1, <1>2, <1>3 DEF CoreStep

\* What the cores see of a forward taken: nothing, a release or a downgrade.
LEMMA TakeForwardSeen ==
  ASSUME IInv, NEW c \in Cache, NEW h \in Home, TakeForward(c, h)
  PROVE  SeenStep
<1>0. TypeOK /\ latest' = latest
  BY DEF IInv, TakeForward
<1>. PICK m : m = Head(fwd[h][c])
  OBVIOUS
<1>1. m \in FwdMsg
  BY <1>0, HeadTail, SMTT(25), ZenonT(25) DEF TypeOK, TakeForward, FwdPresented
<1>. PICK l \in Line : l = m.line
  BY <1>1 DEF FwdMsg
<1>2. PICK n \in L1State :
        /\ <<l1[c][l], FwdEventOf(m.type), n>> \in FwdArcs
        /\ l1' = [l1 EXCEPT ![c][l] = n]
        /\ copy' = [copy EXCEPT ![c][l] = DropIfInvalid(c, l, n)]
  BY DEF TakeForward
<1>3. /\ OnlySeen(c, l) /\ l1'[c][l] = n
      /\ copy'[c][l] = DropIfInvalid(c, l, n)
  BY <1>0, <1>2, SeenOne DEF TypeOK
<1>. PICK s : s = l1[c][l]
  OBVIOUS
<1>4. \/ s \in {"E", "M"} /\ n = "S"
      \/ s \in {"S", "SM_AD", "E", "M"} /\ n \in {"I", "IM_AD"}
      \/ s \in Evicting /\ n \in {"I", "SI_A", "II_A"}
  BY <1>2 DEF FwdArcs, InvArcs, Evicting
<1>5. CASE s \in {"E", "M"} /\ n = "S"
  <2>1. PermOf(c, l) = "write" /\ PermOf(c, l)' = "read"
    BY <1>3, <1>5, Permissions, NextPermissions
  <2>2. ViewOf(c, l)' = ViewOf(c, l)
    BY <1>3, <1>5, <2>1, Permissions, NextPermissions, SMTT(25), ZenonT(25) DEF DropIfInvalid
  <2>. QED
    BY <1>0, <1>3, <2>1, <2>2, SeenDowngrade, SeenSteps
<1>6. CASE s \in {"S", "SM_AD", "E", "M"} /\ n \in {"I", "IM_AD"}
  <2>1. PermOf(c, l) # "none" /\ PermOf(c, l)' = "none" /\ ViewOf(c, l)' = 0
    BY <1>3, <1>6, Permissions, NextPermissions
  <2>. QED
    BY <1>0, <1>3, <2>1, SeenRelease, SeenSteps
<1>7. CASE s \in Evicting /\ n \in {"I", "SI_A", "II_A"}
  <2>1. PermOf(c, l) = "none" /\ PermOf(c, l)' = "none"
    BY <1>3, <1>7, Permissions, NextPermissions DEF Evicting
  <2>. QED
    BY <1>0, <1>3, <2>1, UnseenOne, SeenSteps
<1>. QED
  BY <1>4, <1>5, <1>6, <1>7

\* What the cores see of a response taken: nothing, until it is retired.
LEMMA TakeResponseSeen ==
  ASSUME IInv, NEW c \in Cache, NEW s \in Node, TakeResponse(c, s)
  PROVE  SeenStep
<1>0. TypeOK /\ latest' = latest /\ copy' = copy
  BY DEF IInv, TakeResponse
<1>. PICK m : m = Head(rsp[s][c])
  OBVIOUS
<1>1. m \in RspMsg
  <2>1. rsp[s][c] \in Seq(RspMsg)
    BY <1>0, NodeSets, SMTT(30) DEF TypeOK
  <2>2. PICK q \in Seq(RspMsg) : q = rsp[s][c]
    BY <2>1
  <2>3. q # <<>>
    BY <2>2 DEF TakeResponse
  <2>. QED
    BY <2>2, <2>3, HeadTail
<1>. PICK l \in Line : l = m.line
  BY <1>1 DEF RspMsg
<1>. PICK e : e = RspEventOf(m.type, m.ack)
  OBVIOUS
<1>2. PICK n \in L1State :
        /\ <<l1[c][l], e, n>> \in RspArcs
        /\ l1' = l1 \/ (l1' = [l1 EXCEPT ![c][l] = n] /\ ~Completes(e))
  BY DEF TakeResponse
<1>3. OnlySeen(c, l) /\ (l1'[c][l] = l1[c][l] \/ (l1'[c][l] = n /\ ~Completes(e)))
  <2>1. /\ l1'[c][l] = l1[c][l] \/ (l1'[c][l] = n /\ ~Completes(e))
        /\ \A d \in Cache, k \in Line : d # c \/ k # l => l1'[d][k] = l1[d][k]
    BY <1>0, <1>2, SMTT(25), ZenonT(25) DEF TypeOK
  <2>2. OnlySeen(c, l)
    BY <1>0, <2>1, SeenOne
  <2>. QED
    BY <2>1, <2>2
<1>4. ~Completes(e) => \/ l1[c][l] = "SM_AD" /\ n \in {"SM_AD", "SM_A"}
                       \/ l1[c][l] = "SM_A" /\ n = "SM_A"
                       \/ l1[c][l] \in {"IM_AD", "IM_A"} /\ n \in {"IM_AD", "IM_A"}
  BY <1>2 DEF RspArcs, Completes
<1>5. PermOf(c, l)' = PermOf(c, l)
  BY <1>3, <1>4, Permissions, NextPermissions, SMTT(25), ZenonT(25)
<1>. QED
  BY <1>0, <1>3, <1>5, UnseenOne, SeenSteps

\* What the cores see of a transaction retired: a copy acquired, or a store.
LEMMA RetireSeen ==
  ASSUME IInv, NEW c \in Cache, NEW l \in Line, Retire(c, l)
  PROVE  SeenStep
<1>0. TypeOK /\ LineInv(l)
  BY DEF IInv
<1>1. /\ mshr[c][l].done /\ mshr[c][l].op \in {"LD", "ST", "EV"}
      /\ mshr[c][l].op = "LD" => mshr[c][l].fin \in {"S", "E"} /\ l1[c][l] = "IS_D"
      /\ mshr[c][l].op = "ST" => mshr[c][l].fin = "M"
      /\ mshr[c][l].op = "EV" => l1[c][l] = "I"
  BY <1>0, StateValues DEF Retire, LineInv, MshrMatches
<1>2. OnlySeen(c, l)
  BY <1>0, SeenOne DEF TypeOK, Retire
<1>3. mshr[c][l].op # "EV" => mshr[c][l].data = latest[l]
  BY <1>0, <1>1 DEF LineInv, Contents
<1>4. CASE mshr[c][l].op = "EV"
  <2>1. l1'[c][l] = "I" /\ latest' = latest
    BY <1>0, <1>1, <1>4 DEF TypeOK, Retire
  <2>2. PermOf(c, l) = "none" /\ PermOf(c, l)' = "none"
    BY <1>1, <1>4, <2>1, Permissions, NextPermissions
  <2>. QED
    BY <1>2, <2>1, <2>2, UnseenOne, SeenSteps
<1>5. CASE mshr[c][l].op = "LD"
  <2>1. l1'[c][l] = mshr[c][l].fin /\ latest' = latest /\ copy'[c][l] = latest[l]
    BY <1>0, <1>3, <1>5 DEF TypeOK, Retire
  <2>2. /\ PermOf(c, l) = "none" /\ ViewOf(c, l)' = latest[l]
        /\ mshr[c][l].fin = "S" => PermOf(c, l)' = "read"
        /\ mshr[c][l].fin = "E" => PermOf(c, l)' = "write"
    BY <1>1, <1>5, <2>1, Permissions, NextPermissions
  <2>3. CASE mshr[c][l].fin = "S"
    <3>1. Shares(c, l)
      BY <1>1, <1>5, <2>3 DEF Shares
    <3>2. ASSUME NEW d \in Cache, d # c, PermOf(d, l) = "write" PROVE FALSE
      <4>1. l1[d][l] \in {"E", "M"}
        BY <3>2, Permissions
      <4>2. Own(d, l) /\ mshr[d][l].op # "ST"
        BY <1>0, <4>1 DEF Own, LineInv, MshrMatches
      <4>. QED
        BY <1>0, <3>1, <3>2, <4>2, OwnerAlone
    <3>. QED
      BY <1>2, <2>1, <2>2, <2>3, <3>2, SeenAcquireRead, SeenSteps
  <2>4. CASE mshr[c][l].fin = "E"
    <3>1. Own(c, l)
      BY <1>1, <1>5, <2>4 DEF Own
    <3>. QED
      BY <1>2, <1>5, <2>1, <2>2, <2>4, <3>1, WriterAlone, SeenAcquireWrite, SeenSteps
  <2>. QED
    BY <1>1, <1>5, <2>3, <2>4
<1>6. CASE mshr[c][l].op = "ST"
  <2>1. /\ l1'[c][l] = "M" /\ latest' = [latest EXCEPT ![l] = Next1(@)]
        /\ copy'[c][l] = Next1(latest[l])
    BY <1>0, <1>1, <1>3, <1>6 DEF TypeOK, Retire
  <2>2. PermOf(c, l)' = "write" /\ ViewOf(c, l)' = Next1(latest[l])
    BY <2>1, NextPermissions
  <2>3. Own(c, l)
    BY <1>1, <1>6 DEF Own
  <2>. QED
    BY <1>1, <1>2, <2>1, <2>2, <2>3, WriterAlone, SeenStore, SeenSteps
<1>. QED
  BY <1>1, <1>4, <1>5, <1>6

\* The cores see nothing of the rest.
LEMMA QuietSeen ==
  ASSUME UNCHANGED <<l1, copy, latest>>
  PROVE  SeenStep
<1>1. \A c \in Cache, l \in Line : PermOf(c, l)' = PermOf(c, l) /\ ViewOf(c, l)' = ViewOf(c, l)
  BY DEF PermOf, ViewOf, Readable, Writable
<1>. QED
  BY <1>1, Unseen DEF SeenStep

\* Every step of the protocol is a step of the shared memory, or none.
LEMMA EveryStepSeen ==
  ASSUME IInv, [RoomyNext]_vars
  PROVE  SeenStep
<1>1. ASSUME NEW c \in Cache, L1Step(c) PROVE SeenStep
  BY <1>1, TakeForwardSeen, TakeResponseSeen, RetireSeen, QuietSeen DEF L1Step, StallForward, l1Vars
<1>2. ASSUME NEW h \in Home, DirStep(h) PROVE SeenStep
  BY <1>2, QuietSeen DEF DirStep, TakeRequest, StallRequest, TakeOwnerData, FetchLine, StartRecall,
     ReplaceUnheld, RecallCopies, FreeUnheld, TakeRecallAnswer, l1Vars
<1>3. CASE UNCHANGED vars
  BY <1>3, QuietSeen DEF vars
<1>. QED
  BY <1>1, <1>2, <1>3, CoreStepSeen DEF RoomyNext, SystemStep

\* The caches and banks implement the shared memory of SharedMemory: a core
\* reads what was written last, and writes only when nobody else reads.
THEOREM RefinesSharedMemory ==
  ASSUME CachesFit
  PROVE  RoomySpec /\ []RecallsFit => ImplementsSharedMemory
<1>1. IInv /\ [RoomyNext]_vars => [Memory!SMNext]_(Memory!smVars)
  BY EveryStepSeen DEF SeenStep
<1>2. RoomySpec /\ []RecallsFit => []IInv
  <2>1. IInv /\ TypeInv => IInv
    OBVIOUS
  <2>. QED
    BY <2>1, ProtocolInvariant, PTL
<1>. QED
  BY <1>1, <1>2, InitSeen, PTL DEF RoomySpec, ImplementsSharedMemory, Memory!SMSpec

---------------------------------------------------------------------------
(* Data from an owner *)

\* Data from an owner finds no upgrade: whoever asked as a sharer has been invalidated.
OwnerData ==
    \A s, c \in Cache, l \in Line, a \in AckField, v \in Version :
        Sent(s, c, l, "DATA_OWNER", a, v) /\ mshr[c][l].op = "ST" => l1[c][l] = "IM_AD"

\* OwnerData stays when the caches and what is in flight to them do.
LEMMA OwnerDataQuiet ==
  ASSUME OwnerData, UNCHANGED <<l1, mshr>>,
         \A s, d \in Cache : rsp'[s][d] = rsp[s][d]
  PROVE  OwnerData'
BY DEF OwnerData, Sent, InRsp

\* A core's operation keeps OwnerData.
LEMMA OwnerDataCore ==
  ASSUME IInv, OwnerData, NEW c \in Cache, CoreStep(c)
  PROVE  OwnerData'
<1>0. TypeOK /\ \A l \in Line : LineInv(l)
  BY DEF IInv
<1>1. PICK l \in Line : \/ \E op \in {"LD", "ST"} : CoreMiss(c, l, op)
                        \/ StoreHit(c, l) \/ Evict(c, l)
  BY DEF CoreStep
<1>2. /\ mshr[c][l].op = "none" \/ l1[c][l] \in {"E", "M"}
      /\ \A d \in Cache, k \in Line : d # c \/ k # l =>
           l1'[d][k] = l1[d][k] /\ mshr'[d][k] = mshr[d][k]
      /\ mshr' = mshr \/ mshr[c][l].op = "none"
  <2>1. /\ \E n : l1' = [l1 EXCEPT ![c][l] = n]
        /\ mshr' = mshr \/ \E x : mshr' = [mshr EXCEPT ![c][l] = x]
    BY <1>1 DEF CoreMiss, StoreHit, Evict
  <2>2. /\ mshr[c][l].op = "none" \/ l1[c][l] \in {"E", "M"}
        /\ mshr' = mshr \/ mshr[c][l].op = "none"
    BY <1>1 DEF CoreMiss, StoreHit, Evict
  <2>. QED
    BY <1>0, <2>1, <2>2 DEF TypeOK
<1>3. rsp' = rsp
  BY <1>1 DEF CoreMiss, StoreHit, Evict
<1>4. mshr[c][l].op # "ST" /\ (mshr'[c][l].op = "ST" => mshr[c][l].op = "none")
  BY <1>0, <1>2 DEF LineInv, MshrMatches
<1>5. \A s \in Cache, a \in AckField, v \in Version :
        Sent(s, c, l, "DATA_OWNER", a, v) => mshr'[c][l].op # "ST"
  BY <1>0, <1>4, NodeSets DEF LineInv, DataMsgs, DataType
<1>. QED
  BY <1>2, <1>3, <1>5 DEF OwnerData, Sent, InRsp

\* Nothing but a message of type t0 about line l from s to d is added to q.
Adds(q, q2, s, d, l, t0) ==
    \A s2, d2 \in Node : \A k, t, a, v :
        InRsp(q2, s2, d2, k, t, a, v) =>
            InRsp(q, s2, d2, k, t, a, v) \/ (s2 = s /\ d2 = d /\ k = l /\ t = t0)

\* Sending a response without a count adds it to what is in flight.
LEMMA SendAdds ==
  ASSUME NEW q \in [Node -> [Node -> Seq(RspMsg)]], NEW s \in Node, NEW d \in Node,
         NEW l \in Line, NEW t0 \in RspType, NEW v0 \in Version
  PROVE  Adds(q, SendRsp(q, s, d, Response(t0, l, 0, v0)), s, d, l, t0)
<1>0. Response(t0, l, 0, v0) \in RspMsg
  BY ZeroTypes DEF Response, RspMsg
<1>1. Items(Append(q[s][d], Response(t0, l, 0, v0))) = Items(q[s][d]) \cup {Response(t0, l, 0, v0)}
  BY <1>0, ItemsAppend
<1>2. \A s2, d2 \in Node : SendRsp(q, s, d, Response(t0, l, 0, v0))[s2][d2] =
        IF s2 = s /\ d2 = d THEN Append(q[s][d], Response(t0, l, 0, v0)) ELSE q[s2][d2]
  BY DEF SendRsp
<1>. QED
  BY <1>1, <1>2, ResponseEq, SMTT(30) DEF InRsp, Adds

\* Only a forward to an owner is answered with an owner's data, and to whoever asked.
LEMMA OwnerDataAnswer ==
  ASSUME IInv, NEW c \in Cache, NEW l \in Line, NEW t \in FwdType, NEW r \in Node, NEW n \in L1State,
         Took(c, l, t, r, n), rsp' = FwdAnswers(c, Forward(t, l, r), l1[c][l])
  PROVE  \A s, d \in Cache, k \in Line, a \in AckField, v \in Version :
           Sent(s, d, k, "DATA_OWNER", a, v)' =>
             \/ Sent(s, d, k, "DATA_OWNER", a, v)
             \/ k = l /\ d = r /\ t \in {"FWD_GETS", "FWD_GETM"} /\ l1[c][l] \in {"E", "M", "EI_A", "MI_A"}
<1>0. /\ TypeOK /\ LineInv(l) /\ rsp \in [Node -> [Node -> Seq(RspMsg)]] /\ copy[c][l] \in Version
      /\ c \in Node /\ HomeOf[l] \in Node /\ HomeOf[l] \notin Cache
  BY NodeSets, StateValues DEF IInv, TypeOK
<1>1. \A u \in RspType, w \in Version : Response(u, l, 0, w) \in RspMsg
  BY ZeroTypes DEF Response, RspMsg
<1>2. {"INV_ACK", "RECALL_ACK", "WB_DATA", "DATA_OWNER"} \subseteq RspType
  BY DEF RspType, RspToL1, RspToDir
<1>. SUFFICES ASSUME NEW s \in Cache, NEW d \in Cache, NEW k \in Line, NEW a \in AckField, NEW v \in Version,
                     Sent(s, d, k, "DATA_OWNER", a, v)', ~Sent(s, d, k, "DATA_OWNER", a, v)
              PROVE  k = l /\ d = r /\ t \in {"FWD_GETS", "FWD_GETM"} /\ l1[c][l] \in {"E", "M", "EI_A", "MI_A"}
  OBVIOUS
<1>3. /\ InRsp(rsp', s, d, k, "DATA_OWNER", a, v) /\ ~InRsp(rsp, s, d, k, "DATA_OWNER", a, v)
      /\ s \in Node /\ d \in Node
  BY NodeSets DEF Sent, InRsp
<1>4. t # "INV"
  <2>. SUFFICES ASSUME t = "INV" PROVE FALSE
    OBVIOUS
  <2>1. l1[c][l] \in {"S", "SM_AD", "SI_A"}
    BY FwdEvents DEF Took, FwdArcs, InvArcs
  <2>2. rsp' = SendRsp(rsp, c, r, Response("INV_ACK", l, 0, 0))
    BY <2>1, InvAnswer
  <2>3. Adds(rsp, SendRsp(rsp, c, r, Response("INV_ACK", l, 0, 0)), c, r, l, "INV_ACK")
    BY <1>0, <1>2, SendAdds, ZeroTypes
  <2>. QED
    BY <1>3, <2>2, <2>3 DEF Adds
<1>5. t # "RECALL_INV"
  <2>. SUFFICES ASSUME t = "RECALL_INV" PROVE FALSE
    OBVIOUS
  <2>1. l1[c][l] \in {"S", "SM_AD", "SI_A"}
    BY FwdEvents DEF Took, FwdArcs, InvArcs
  <2>2. rsp' = SendRsp(rsp, c, HomeOf[l], Response("RECALL_ACK", l, 0, 0))
    BY <2>1, RecallInvAnswer
  <2>3. Adds(rsp, SendRsp(rsp, c, HomeOf[l], Response("RECALL_ACK", l, 0, 0)), c, HomeOf[l], l, "RECALL_ACK")
    BY <1>0, <1>2, SendAdds, ZeroTypes
  <2>. QED
    BY <1>3, <2>2, <2>3 DEF Adds
<1>6. t # "PUT_ACK"
  BY <1>3, PutAckAnswer
<1>7. l1[c][l] \in {"E", "M", "EI_A", "MI_A"}
  BY <1>4, <1>5, <1>6, FwdEvents DEF FwdType, Took, FwdArcs, InvArcs, Evicting
<1>8. t # "RECALL"
  <2>. SUFFICES ASSUME t = "RECALL" PROVE FALSE
    OBVIOUS
  <2>2. rsp' = SendRsp(rsp, c, HomeOf[l], Response("WB_DATA", l, 0, copy[c][l]))
    BY <1>7, RecallAnswer
  <2>3. Adds(rsp, SendRsp(rsp, c, HomeOf[l], Response("WB_DATA", l, 0, copy[c][l])), c, HomeOf[l], l, "WB_DATA")
    BY <1>0, <1>2, SendAdds
  <2>. QED
    BY <1>3, <2>2, <2>3 DEF Adds
<1>9. CASE t = "FWD_GETM"
  <2>2. rsp' = SendRsp(rsp, c, r, Response("DATA_OWNER", l, 0, copy[c][l]))
    BY <1>7, <1>9, GetMAnswer
  <2>1. Adds(rsp, SendRsp(rsp, c, r, Response("DATA_OWNER", l, 0, copy[c][l])), c, r, l, "DATA_OWNER")
    BY <1>0, <1>2, SendAdds
  <2>3. k = l /\ d = r
    BY <1>3, <2>1, <2>2 DEF Adds
  <2>. QED
    BY <1>7, <1>9, <2>3
<1>10. CASE t = "FWD_GETS"
  <2>. PICK q : q = SendRsp(rsp, c, r, Response("DATA_OWNER", l, 0, copy[c][l]))
    OBVIOUS
  <2>1. q \in [Node -> [Node -> Seq(RspMsg)]]
    BY <1>0, <1>1, <1>2, SendRspType
  <2>2. rsp' = SendRsp(q, c, HomeOf[l], Response("WB_DATA", l, 0, copy[c][l]))
    BY <1>7, <1>10, GetSAnswer
  <2>3. InRsp(q, s, d, k, "DATA_OWNER", a, v)
    <3>1. Adds(q, SendRsp(q, c, HomeOf[l], Response("WB_DATA", l, 0, copy[c][l])), c, HomeOf[l], l, "WB_DATA")
      BY <1>0, <1>2, <2>1, SendAdds
    <3>. QED
      BY <1>3, <2>2, <3>1 DEF Adds
  <2>4. k = l /\ d = r
    <3>1. Adds(rsp, q, c, r, l, "DATA_OWNER")
      BY <1>0, <1>2, SendAdds
    <3>. QED
      BY <1>3, <2>3, <3>1 DEF Adds
  <2>. QED
    BY <1>7, <1>10, <2>4
<1>. QED
  BY <1>4, <1>5, <1>6, <1>7, <1>8, <1>9, <1>10 DEF FwdType

\* A forward taken keeps OwnerData: the store that is sent data is in IM_AD, a
\* store in SM_AD being known to its bank as a sharer.
LEMMA OwnerDataForward ==
  ASSUME IInv, OwnerData, NEW c \in Cache, NEW h \in Home, TakeForward(c, h)
  PROVE  OwnerData'
<1>0. TypeOK /\ Channels /\ \A l \in Line : LineInv(l)
  BY DEF IInv
<1>1. PICK l \in Line, t \in FwdType, r \in Node, n \in L1State :
           /\ Took(c, l, t, r, n)
           /\ rsp' = FwdAnswers(c, Forward(t, l, r), l1[c][l])
           /\ \A k \in Line : k # l => SameButSent(k)
  BY TakeForwardTook
<1>. SUFFICES ASSUME NEW s \in Cache, NEW d \in Cache, NEW k \in Line, NEW a \in AckField, NEW v \in Version,
                     Sent(s, d, k, "DATA_OWNER", a, v)', mshr'[d][k].op = "ST"
              PROVE  l1'[d][k] = "IM_AD"
  BY DEF OwnerData
<1>2. /\ d # c \/ k # l => l1'[d][k] = l1[d][k] /\ mshr'[d][k] = mshr[d][k]
      /\ mshr'[d][k].op = mshr[d][k].op
      /\ l1[c][l] # "IM_AD"
  BY <1>1 DEF Took, SameButSent, SameCaches, FwdArcs, InvArcs, Evicting
<1>3. CASE Sent(s, d, k, "DATA_OWNER", a, v)
  BY <1>2, <1>3 DEF OwnerData
<1>4. CASE ~Sent(s, d, k, "DATA_OWNER", a, v)
  <2>1. k = l /\ d = r /\ t \in {"FWD_GETS", "FWD_GETM"} /\ l1[c][l] \in {"E", "M", "EI_A", "MI_A"}
    BY <1>1, <1>4, OwnerDataAnswer
  <2>2. At(c, l, t, d)
    BY <1>1, <2>1 DEF Took
  <2>3. t = "FWD_GETM" /\ l1[d][l] \in {"IM_AD", "SM_AD"} /\ mshr[d][l].op = "ST"
    BY <1>0, <1>2, <2>1, <2>2 DEF LineInv, OwnerFwds
  <2>4. mshr[c][l].op # "ST"
    BY <1>0, <2>1 DEF LineInv, MshrMatches
  <2>5. Own(c, l) /\ c # d
    BY <2>1, <2>2, <2>3, <2>4 DEF Own, HasOwnerFwd, OwnerFwd
  <2>6. ~Shares(d, l)
    BY <1>0, <2>4, <2>5, OwnerAlone
  <2>. QED
    BY <1>2, <2>1, <2>3, <2>5, <2>6 DEF Shares
<1>. QED
  BY <1>3, <1>4

\* A response taken keeps OwnerData.
LEMMA OwnerDataResponse ==
  ASSUME IInv, OwnerData, NEW c \in Cache, NEW s0 \in Node, TakeResponse(c, s0)
  PROVE  OwnerData'
<1>0. TypeOK /\ \A l \in Line : LineInv(l)
  BY DEF IInv
<1>1. PICK l \in Line, t \in RspType, a0 \in AckField, v0 \in Version, n \in L1State :
           /\ Landed(c, l, s0, t, a0, v0, n) /\ Answered(c, l, t, a0, v0, n)
           /\ \A k \in Line : k # l => SameLine(k)
  BY TakeResponseLanded
<1>. SUFFICES ASSUME NEW s \in Cache, NEW d \in Cache, NEW k \in Line, NEW a \in AckField, NEW v \in Version,
                     Sent(s, d, k, "DATA_OWNER", a, v)', mshr'[d][k].op = "ST"
              PROVE  l1'[d][k] = "IM_AD"
  BY DEF OwnerData
<1>. s \in Node /\ d \in Node /\ c \in Node
  BY NodeSets
<1>2. CASE k # l
  BY <1>1, <1>2 DEF SameLine, SameSent, SameCaches, OwnerData
<1>3. CASE k = l
  <2>1. /\ Sent(s, d, l, "DATA_OWNER", a, v)
        /\ ~(s = s0 /\ d = c /\ t = "DATA_OWNER" /\ a = a0 /\ v = v0)
    BY <1>1, <1>3 DEF Landed
  <2>2. CASE d # c
    BY <1>1, <1>3, <2>1, <2>2 DEF Landed, OwnerData
  <2>3. CASE d = c
    <3>1. mshr[c][l].op = "ST" /\ l1[c][l] = "IM_AD"
      BY <1>1, <1>3, <2>1, <2>3 DEF Answered, OwnerData
    <3>2. t \notin DataType
      BY <1>0, <1>1, <2>1, <2>3 DEF Landed, LineInv, DataMsgs, DataType
    <3>3. t = "INV_ACK"
      BY <1>1, <3>2, ResponseEq DEF Landed, RspFits, DataType, Node
    <3>4. n = "IM_AD"
      BY <1>1, <3>1, <3>3, RspEvents DEF Landed, RspArcs
    <3>5. l1'[c][l] = l1[c][l] \/ l1'[c][l] = n
      BY <1>1 DEF Answered
    <3>. QED
      BY <1>3, <2>3, <3>1, <3>4, <3>5
  <2>. QED
    BY <2>2, <2>3
<1>. QED
  BY <1>2, <1>3

\* A transaction retired keeps OwnerData.
LEMMA OwnerDataRetire ==
  ASSUME IInv, OwnerData, NEW c \in Cache, NEW l \in Line, Retire(c, l)
  PROVE  OwnerData'
<1>0. TypeOK
  BY DEF IInv
<1>1. /\ rsp' = rsp
      /\ \A d \in Cache, k \in Line : d # c \/ k # l => l1'[d][k] = l1[d][k] /\ mshr'[d][k] = mshr[d][k]
      /\ mshr'[c][l] = NoMshr
  BY <1>0 DEF Retire, TypeOK
<1>. QED
  BY <1>1 DEF OwnerData, Sent, InRsp, NoMshr

\* A bank's step keeps OwnerData.
LEMMA OwnerDataDir ==
  ASSUME IInv, OwnerData, NEW h \in Home, DirStep(h)
  PROVE  OwnerData'
<1>0. rsp \in [Node -> [Node -> Seq(RspMsg)]]
  BY DEF IInv, TypeOK
<1>1. PICK c \in Cache :
        \/ TakeRequest(h, c) \/ StallRequest(h, c) \/ TakeOwnerData(h, c)
        \/ FetchLine(h, c) \/ StartRecall(h, c) \/ ReplaceUnheld(h, c)
        \/ TakeRecallAnswer(h, c)
  BY DEF DirStep
<1>. h \in Node /\ c \in Node /\ h \notin Cache /\ Cache \subseteq Node
  BY NodeSets, TopologyAssumption
<1>3. \A s, d \in Cache : rsp'[s][d] = rsp[s][d]
  <2>1. CASE TakeRequest(h, c)
    <3>1. rsp' = rsp \/ \E x : rsp' = SendRsp(rsp, h, c, x)
      BY <2>1 DEF TakeRequest, DirExec
    <3>. QED
      BY <1>0, <3>1 DEF SendRsp
  <2>2. CASE TakeOwnerData(h, c)
    <3>. PICK q : q = [rsp EXCEPT ![c][h] = Tail(@)]
      OBVIOUS
    <3>1. /\ \A s, d \in Cache : q[s][d] = rsp[s][d]
          /\ DOMAIN q = Node /\ \A s, d \in Cache : s \in DOMAIN q
      BY <1>0
    <3>2. rsp' = q \/ \E x : rsp' = SendRsp(q, h, c, x)
      BY <2>2 DEF TakeOwnerData, DirExec
    <3>. QED
      BY <1>0, <3>1, <3>2, SMTT(25), ZenonT(25) DEF SendRsp
  <2>3. CASE TakeRecallAnswer(h, c)
    BY <1>0, <2>3 DEF TakeRecallAnswer
  <2>. QED
    BY <1>1, <2>1, <2>2, <2>3 DEF StallRequest, FetchLine, StartRecall, ReplaceUnheld, RecallCopies, FreeUnheld
<1>4. UNCHANGED <<l1, mshr>>
  BY <1>1 DEF TakeRequest, StallRequest, TakeOwnerData, FetchLine, StartRecall, ReplaceUnheld,
     RecallCopies, FreeUnheld, TakeRecallAnswer, l1Vars
<1>. QED
  BY <1>3, <1>4, OwnerDataQuiet

\* Every step keeps OwnerData.
LEMMA OwnerDataNext ==
  ASSUME IInv, OwnerData, [RoomyNext]_vars
  PROVE  OwnerData'
<1>1. ASSUME NEW c \in Cache, L1Step(c) PROVE OwnerData'
  BY <1>1, OwnerDataForward, OwnerDataResponse, OwnerDataRetire, OwnerDataQuiet DEF L1Step, StallForward, l1Vars
<1>2. CASE UNCHANGED vars
  BY <1>2, OwnerDataQuiet DEF vars
<1>. QED
  BY <1>1, <1>2, OwnerDataCore, OwnerDataDir DEF RoomyNext, SystemStep

\* Initially nothing is in flight.
LEMMA OwnerDataInit ==
  ASSUME Init
  PROVE  OwnerData
BY DEF Init, NoMshr, OwnerData

---------------------------------------------------------------------------
(* The cells excused from the coverage closure *)

\* Every excused cell is a cell of its table.
LEMMA ExcusedBins == ExcusedAreBins
<1>1. ASSUME NEW cell \in L1Defensive
      PROVE  cell \in LegalL1
  <2>1. PICK s, e : /\ cell = <<s, e>>
                    /\ \/ s \in {"IM_AD", "IM_A"} /\ e = "INV"
                       \/ s \in {"IS_D", "IM_AD", "IM_A", "SM_AD", "SM_A"} /\ e = "EVICT"
                       \/ s \in {"MI_A", "EI_A", "SI_A", "II_A"} /\ e \in CoreEvent
                       \/ s = "SM_AD" /\ e = "DATA_OWNER"
    BY DEF L1Defensive, InvNotASharer, NeverAVictim, EvictStateHidden, NoForwardToAnUpgrader
  <2>2. s \in L1State /\ e \in L1Event
    BY <2>1 DEF L1State, Fetching, Evicting, L1Event, CoreEvent, FwdEvent, RspEvent
  <2>3. L1Legal(s, e)
    <3>1. CASE s = "SM_AD" /\ e = "DATA_OWNER"
      BY <3>1 DEF L1Legal, L1Arcs, RspArcs, L1State, StableL1
    <3>2. CASE ~(s = "SM_AD" /\ e = "DATA_OWNER")
      BY <2>1, <3>2 DEF L1Legal, L1Stalls, CoreEvent, Evicting
    <3>. QED
      BY <3>1, <3>2
  <2>. QED
    BY <2>1, <2>2, <2>3 DEF LegalL1
<1>2. ASSUME NEW cell \in DirDefensive
      PROVE  cell \in LegalDir
  <2>1. PICK s, e : /\ cell = <<s, e>>
                    /\ \/ s \in {"I", "E", "M"} /\ e = "PUTS_NOT_LAST"
                       \/ s = "M" /\ e = "PUTE_OWNER"
                       \/ s = "S_D" /\ e \in {"PUTM_OWNER", "PUTE_OWNER"}
    BY DEF DirDefensive, EmptyVectorIsAlwaysLast, AnOwnerInMSendsPutM, OwnerOnlyInEOrM
  <2>2. s \in DirState /\ e \in DirEventSet
    BY <2>1 DEF DirState, DirEventSet, PutEvent
  <2>3. <<s, e, s>> \in DirArcs
    BY <2>1 DEF DirArcs, PutEvent
  <2>. QED
    BY <2>1, <2>2, <2>3 DEF LegalDir, DirLegal
<1>. QED
  BY <1>1, <1>2 DEF ExcusedAreBins

\* A cell is expected when it is legal and none of the excuses is about it.
LEMMA ExpectedCell ==
  ASSUME NEW s \in L1State, NEW e \in L1Event, L1Legal(s, e),
         ~(s \in {"IM_AD", "IM_A"} /\ e = "INV"),
         ~(s \in {"IS_D", "IM_AD", "IM_A", "SM_AD", "SM_A"} /\ e = "EVICT"),
         ~(s \in Evicting /\ e \in CoreEvent),
         ~(s = "SM_AD" /\ e = "DATA_OWNER"),
         s = "II_A" => e = "PUT_ACK"
  PROVE  <<s, e>> \in Expected
<1>1. <<s, e>> \in LegalL1
  BY DEF LegalL1
<1>2. <<s, e>> \notin L1Defensive
  BY DEF L1Defensive, InvNotASharer, NeverAVictim, EvictStateHidden, NoForwardToAnUpgrader, Evicting
<1>. QED
  BY <1>1, <1>2 DEF Expected

\* What a cache is forwarded.
LEMMA ShownForwards ==
  ASSUME IInv, NEW c \in Cache
  PROVE  ShownForward(c) \subseteq Expected
<1>0. TypeOK /\ Channels /\ ForwardsLegal
  BY ForwardsOk DEF IInv
<1>. SUFFICES ASSUME NEW h \in Home, fwd[h][c] # <<>>
              PROVE  <<l1[c][Head(fwd[h][c]).line], FwdEventOf(Head(fwd[h][c]).type)>> \in Expected
  BY DEF ShownForward, FwdPresented
<1>1. 1 \in 1 .. Len(fwd[h][c]) /\ Head(fwd[h][c]) = fwd[h][c][1]
  BY <1>0, HeadIndex DEF TypeOK
<1>2. PICK l \in Line, t \in FwdType, r \in Node :
        /\ fwd[h][c][1] = Forward(t, l, r) /\ HomeOf[l] = h
        /\ At(c, l, t, r) /\ OnBehalf(Forward(t, l, r), h, c)
  BY <1>0, <1>1, FwdHead
<1>3. LineInv(l) /\ l1[c][l] \in L1State
  BY <1>0, StateValues DEF IInv
<1>. DEFINE e == FwdEventOf(t)
<1>4. Head(fwd[h][c]).line = l /\ Head(fwd[h][c]).type = t
  BY <1>1, <1>2, ForwardEq
<1>5. L1Legal(l1[c][l], e)
  BY <1>0, <1>4 DEF ForwardsLegal
<1>6. e \in FwdEvent
  BY FwdEvents DEF FwdType, FwdEvent
<1>7. e = "INV" => l1[c][l] \in Invalidatable
  <2>1. e = "INV" => t \in {"INV", "RECALL_INV"}
    BY FwdEvents DEF FwdType
  <2>. QED
    BY <1>2, <1>3, <2>1, ForwardEq DEF OnBehalf, LineInv, Invs, Recalls
<1>8. e \in {"FWD_GETS", "FWD_GETM"} => l1[c][l] # "II_A"
  <2>1. e \in {"FWD_GETS", "FWD_GETM"} => t \in OwnerFwd
    BY FwdEvents DEF FwdType, OwnerFwd
  <2>2. t \in OwnerFwd => Own(c, l) \/ Waits(c, l)
    BY <1>2, <1>3 DEF LineInv, Owners, Expects, HasOwnerFwd
  <2>3. Own(c, l) \/ Waits(c, l) => l1[c][l] # "II_A"
    BY <1>3 DEF Own, Waits, LineInv, MshrMatches, OwnerFwds
  <2>. QED
    BY <2>1, <2>2, <2>3
<1>. HIDE DEF e
<1>9. <<l1[c][l], e>> \in Expected
  BY <1>3, <1>5, <1>6, <1>7, <1>8, ExpectedCell DEF FwdEvent, CoreEvent, L1Event, Invalidatable
<1>. QED
  BY <1>4, <1>9 DEF e

\* What answers it.
LEMMA ShownResponses ==
  ASSUME IInv, OwnerData, NEW c \in Cache
  PROVE  ShownResponse(c) \subseteq Expected
<1>0. TypeOK /\ Channels /\ ResponsesLand /\ c \in Node
  BY ResponsesOk, NodeSets DEF IInv
<1>. SUFFICES ASSUME NEW s \in Node, rsp[s][c] # <<>>
              PROVE  <<l1[c][Head(rsp[s][c]).line], RspEventOf(Head(rsp[s][c]).type, Head(rsp[s][c]).ack)>>
                        \in Expected
  BY DEF ShownResponse
<1>1. 1 \in 1 .. Len(rsp[s][c]) /\ Head(rsp[s][c]) = rsp[s][c][1]
  BY <1>0, HeadIndex DEF TypeOK
<1>2. PICK l \in Line, t \in RspType, a \in AckField, v \in Version :
        /\ rsp[s][c][1] = Response(t, l, a, v)
        /\ Sent(s, c, l, t, a, v) /\ RspFits(s, c, Response(t, l, a, v))
  BY <1>0, <1>1, RspHead
<1>. DEFINE e == RspEventOf(t, a)
<1>3. /\ l1[c][l] \in L1State /\ mshr[c][l].op \in {"LD", "ST"}
      /\ \E n \in L1State : <<l1[c][l], e, n>> \in RspArcs
  <2>1. Head(rsp[s][c]).line = l /\ Head(rsp[s][c]).type = t /\ Head(rsp[s][c]).ack = a
    BY <1>1, <1>2, ResponseEq
  <2>. QED
    BY <1>0, <2>1, StateValues DEF ResponsesLand
<1>4. e = "DATA_OWNER" => t = "DATA_OWNER" /\ s \in Cache
  <2>1. t \in DataType \/ t = "INV_ACK"
    BY <1>2, ResponseEq DEF RspFits, DataType, Node
  <2>2. e = "DATA_OWNER" => t = "DATA_OWNER"
    BY <2>1, RspEvents DEF DataType
  <2>. QED
    BY <1>2, <2>2, ResponseEq DEF RspFits, Node
<1>5. ~(l1[c][l] = "SM_AD" /\ e = "DATA_OWNER")
  <2>. SUFFICES ASSUME l1[c][l] = "SM_AD", e = "DATA_OWNER" PROVE FALSE
    OBVIOUS
  <2>1. mshr[c][l].op = "ST"
    BY <1>3 DEF IInv, LineInv, MshrMatches
  <2>. QED
    BY <1>2, <1>4, <2>1 DEF OwnerData
<1>6. Head(rsp[s][c]).line = l /\ RspEventOf(Head(rsp[s][c]).type, Head(rsp[s][c]).ack) = e
  BY <1>1, <1>2, ResponseEq
<1>. HIDE DEF e
<1>7. e \in RspEvent /\ l1[c][l] \notin Evicting
  BY <1>3 DEF RspArcs, RspEvent, Evicting
<1>8. L1Legal(l1[c][l], e)
  BY <1>3 DEF L1Legal, L1Arcs
<1>9. <<l1[c][l], e>> \in Expected
  BY <1>3, <1>5, <1>7, <1>8, ExpectedCell DEF RspEvent, L1Event, CoreEvent, Evicting
<1>. QED
  BY <1>6, <1>9

\* What its core asks for, and which line gives way.
LEMMA ShownCores ==
  ASSUME IInv, NEW c \in Cache
  PROVE  ShownCore(c) \cup ShownVictim(c) \subseteq Expected
<1>1. ASSUME NEW l \in Line
      PROVE  /\ mshr[c][l].op = "none" => l1[c][l] \in StableL1
             /\ mshr[c][l].op = "LD" => l1[c][l] = "IS_D"
             /\ mshr[c][l].op = "ST" => l1[c][l] \in {"IM_AD", "IM_A", "SM_AD", "SM_A"}
             /\ mshr[c][l].op \in {"none", "LD", "ST", "EV"}
  BY StateValues DEF IInv, LineInv, MshrMatches
<1>2. ASSUME NEW l \in Line, NEW e \in {"LOAD", "STORE"}
      PROVE  <<ArrayState(c, l), e>> \in Expected
  <2>. DEFINE s == ArrayState(c, l)
  <2>1. s \in {"I", "S", "E", "M", "IS_D", "IM_AD", "IM_A", "SM_AD", "SM_A"}
    BY <1>1 DEF ArrayState, StableL1
  <2>. HIDE DEF s
  <2>2. L1Legal(s, e)
    BY <2>1 DEF L1Legal, L1Stalls, L1Arcs, CoreArcs, CoreEvent, L1State, StableL1, Fetching
  <2>3. s \in L1State /\ e \in L1Event /\ s \notin Evicting
    BY <2>1 DEF L1State, StableL1, Fetching, Evicting, L1Event, CoreEvent
  <2>4. <<s, e>> \in Expected
    BY <2>1, <2>2, <2>3, ExpectedCell
  <2>. QED
    BY <2>4 DEF s
<1>3. ASSUME NEW l \in Replaceable(c)
      PROVE  <<l1[c][l], "EVICT">> \in Expected
  <2>1. l \in Line /\ l1[c][l] \in {"S", "E", "M"}
    BY <1>1 DEF Replaceable, ArrayState, StableL1
  <2>2. L1Legal(l1[c][l], "EVICT")
    BY <2>1 DEF L1Legal, L1Arcs, CoreArcs, L1State, Evicting
  <2>3. l1[c][l] \in L1State /\ "EVICT" \in L1Event /\ l1[c][l] \notin Evicting
    BY <2>1 DEF L1State, StableL1, Evicting, L1Event, CoreEvent
  <2>. QED
    BY <2>1, <2>2, <2>3, ExpectedCell
<1>4. ShownCore(c) \subseteq Expected
  <2>1. \A op \in {"LD", "ST"} : OpEvent(op) \in {"LOAD", "STORE"}
    BY DEF OpEvent
  <2>2. \A l \in Line, op \in {"LD", "ST"} : <<ArrayState(c, l), OpEvent(op)>> \in Expected
    BY <1>2, <2>1
  <2>3. \A x \in ShownCore(c) : \E l \in Line, op \in {"LD", "ST"} : x = <<ArrayState(c, l), OpEvent(op)>>
    BY DEF ShownCore
  <2>. SUFFICES ASSUME NEW x \in ShownCore(c)
                PROVE  x \in Expected
    OBVIOUS
  <2>4. PICK l \in Line, op \in {"LD", "ST"} : x = <<ArrayState(c, l), OpEvent(op)>>
    BY <2>3
  <2>. QED
    BY <2>2, <2>4
<1>5. ShownVictim(c) \subseteq Expected
  BY <1>3 DEF ShownVictim
<1>. QED
  BY <1>4, <1>5

\* A bank in M does not meet its owner's PutE: the owner had the line in E, so the
\* bank has it in E, unless the line is being recalled, and then its request waits.
LEMMA NoPutEInM ==
  ASSUME IInv, NEW h \in Home, NEW c \in Cache, NEW l \in Line, NEW v \in Version,
         ReqPresented(h, c), Head(req[c][h]) = Request("PUTE", l, v), HomeOf[l] = h,
         Asks(c, l, "PUTE", v), dir[l].present, IsOwner(dir[l], c)
  PROVE  dir[l].state = "E"
<1>1. LineInv(l) /\ BankOf(h) /\ TypeOK
  BY DEF IInv, Banks
<1>2. ~Recalled(l)
  <2>. SUFFICES ASSUME Recalled(l) PROVE FALSE
    OBVIOUS
  <2>1. BinvActive(h)
    BY DEF Recalled, Recalling, TbesOf, BinvActive
  <2>2. stuckReq[h] \in Cache /\ ~dir[Head(req[stuckReq[h]][h]).line].present
    BY <1>1, <2>1 DEF BankOf
  <2>3. stuckReq[h] = c
    BY <2>2, TopologyAssumption DEF ReqPresented
  <2>. QED
    BY <2>2, <2>3, RequestEq
<1>3. Exclusive(l) /\ dir[l].owner = c /\ "PUTE" \in ReqType
  BY DEF IsOwner, Exclusive, ReqType
<1>4. mshr[c][l].op = "EV" /\ l1[c][l] \in {"EI_A", "SI_A", "II_A"} /\ HasReq(c, l)
  BY <1>1, <1>3 DEF LineInv, Questions, HasReq
<1>5. Own(c, l)
  <2>1. Expects(c, l)
    BY <1>1, <1>2, <1>3 DEF LineInv, Owners
  <2>2. ~Waits(c, l)
    BY <1>1, <1>4 DEF LineInv, OwnerFwds, Waits
  <2>. QED
    BY <2>1, <2>2 DEF Expects
<1>6. l1[c][l] = "EI_A"
  BY <1>4, <1>5 DEF Own
<1>. QED
  BY <1>1, <1>3, <1>5, <1>6 DEF LineInv, BankCopy

\* What a bank decides.
LEMMA ShownBanks ==
  ASSUME IInv, NEW h \in Home
  PROVE  ShownDir(h) \cap DirDefensive = {}
<1>0. TypeOK /\ Channels
  BY DEF IInv
<1>. SUFFICES ASSUME NEW c \in Cache, NEW m \in Recorded(h, c),
                     <<dir[m.line].state, DirEventOf(m.type, dir[m.line], c)>> \in DirDefensive
              PROVE  FALSE
  BY DEF ShownDir
<1>. DEFINE md == dir[m.line]
            e == DirEventOf(m.type, md, c)
<1>. PICK l : l = m.line
  OBVIOUS
<1>1. \/ md.state \in {"I", "E", "M"} /\ e = "PUTS_NOT_LAST"
      \/ md.state = "M" /\ e = "PUTE_OWNER"
      \/ md.state = "S_D" /\ e \in {"PUTM_OWNER", "PUTE_OWNER"}
  BY DEF DirDefensive, EmptyVectorIsAlwaysLast, AnOwnerInMSendsPutM, OwnerOnlyInEOrM
<1>2. md.present /\ (m.type \in ReqType => ReqPresented(h, c))
      /\ \/ req[c][h] # <<>> /\ m = Head(req[c][h])
         \/ rsp[c][h] # <<>> /\ m = Head(rsp[c][h])
  BY DEF Recorded, AtExec
<1>3. CASE rsp[c][h] # <<>> /\ m = Head(rsp[c][h])
  <2>0. c \in Node /\ h \in Node
    BY NodeSets
  <2>1. 1 \in 1 .. Len(rsp[c][h]) /\ Head(rsp[c][h]) = rsp[c][h][1]
    BY <1>0, <1>3, <2>0, HeadIndex DEF TypeOK
  <2>2. PICK k \in Line, t \in RspType, a \in AckField, v \in Version :
          /\ rsp[c][h][1] = Response(t, k, a, v)
          /\ RspFits(c, h, Response(t, k, a, v))
    BY <1>0, <2>0, <2>1, RspHead
  <2>3. m.type \in RspToDir
    BY <1>3, <2>1, <2>2 DEF RspFits
  <2>4. m.type = "WB_DATA"
    BY <2>3 DEF Recorded, RspToDir
  <2>. QED
    BY <1>1, <2>4, DirEvents
<1>4. CASE req[c][h] # <<>> /\ m = Head(req[c][h])
  <2>1. m \in ReqMsg /\ m \in Items(req[c][h])
    <3>1. req[c][h] \in Seq(ReqMsg)
      BY <1>0 DEF TypeOK
    <3>. QED
      BY <1>4, <3>1, HeadTail, HeadIndex DEF Items
  <2>2. /\ l \in Line /\ HomeOf[l] = h /\ m.type \in ReqType /\ m.data \in Version
        /\ m = Request(m.type, l, m.data)
    BY <1>0, <2>1 DEF ReqMsg, Request, Channels, ReqChannels
  <2>3. Asks(c, l, m.type, m.data)
    BY <2>1, <2>2 DEF Asks
  <2>4. LineInv(l) /\ md \in Meta /\ md = dir[l]
    BY <1>0, <2>2 DEF IInv, TypeOK
  <2>. HIDE DEF md
  <2>5. CASE m.type \in {"GETS", "GETM"}
    BY <1>1, <2>5, DirEvents DEF md
  <2>6. CASE m.type = "PUTS"
    <3>1. md.sharers \ {c} # {} /\ md.state \in {"I", "E", "M"}
      BY <1>1, <2>6, DirEvents DEF md
    <3>2. PICK d \in Cache : d \in md.sharers
      BY <2>4, <3>1 DEF Meta
    <3>. QED
      BY <2>4, <3>1, <3>2 DEF LineInv, Sharers
  <2>7. CASE m.type = "PUTM"
    BY <1>1, <2>7, DirEvents DEF md, IsOwner
  <2>8. CASE m.type = "PUTE"
    <3>1. IsOwner(md, c) /\ md.state # "E"
      BY <1>1, <2>8, DirEvents DEF md, IsOwner
    <3>2. ReqPresented(h, c) /\ dir[l].present
      BY <1>2, <2>2, <2>4
    <3>3. Head(req[c][h]) = Request("PUTE", l, m.data) /\ Asks(c, l, "PUTE", m.data)
      BY <1>4, <2>2, <2>3, <2>8
    <3>. QED
      BY <2>2, <2>4, <3>1, <3>2, <3>3, NoPutEInM
  <2>. QED
    BY <2>2, <2>5, <2>6, <2>7, <2>8 DEF ReqType
<1>. QED
  BY <1>2, <1>3, <1>4

\* No cell the coverage closure excuses is one that a message, an operation or
\* a victim shows to its table.
LEMMA Excuses ==
  ASSUME IInv, OwnerData
  PROVE  ExcusesHold
BY ExcusedBins, ShownForwards, ShownResponses, ShownCores, ShownBanks DEF ExcusesHold, ShownL1

\* The cells of both tables that coverage.py leaves out of the closure as
\* unreachable are: no execution meets one.
THEOREM ExcusesHoldAlways ==
  ASSUME CachesFit
  PROVE  RoomySpec /\ []RecallsFit => []ExcusesHold
<1>1. Init => OwnerData
  BY OwnerDataInit
<1>2. IInv /\ OwnerData /\ [RoomyNext]_vars => OwnerData'
  BY OwnerDataNext
<1>3. IInv /\ OwnerData => ExcusesHold
  BY Excuses
<1>4. IInv /\ TypeInv => IInv
  OBVIOUS
<1>. QED
  BY <1>1, <1>2, <1>3, <1>4, ProtocolInvariant, PTL DEF RoomySpec

---------------------------------------------------------------------------
(* The other safety properties, and what RoomySpec asks for *)

\* LatestDataRead: every line a core may read, and every load it is about to
\* be given, holds the value of the last store.
THEOREM LatestReadAlways ==
  ASSUME CachesFit
  PROVE  RoomySpec /\ []RecallsFit => []LatestDataRead
BY ProtocolInvariant, LatestRead, PTL

\* CacheEventsLegal: no cache meets a forward or a response its table has no
\* arc for (l1_cache's a_vn1_event_legal, a_vn2_event_legal and
\* a_vn2_always_lands).
THEOREM CacheEventsAlways ==
  ASSUME CachesFit
  PROVE  RoomySpec /\ []RecallsFit => []CacheEventsLegal
<1>1. IInv => CacheEventsLegal
  BY ForwardsOk, ResponsesOk DEF CacheEventsLegal
<1>. QED
  BY <1>1, ProtocolInvariant, PTL

\* BankEventsLegal: no bank meets a request or a response its table has no arc
\* for (dir_ctrl's a_no_illegal_event).
THEOREM BankEventsAlways ==
  ASSUME CachesFit
  PROVE  RoomySpec /\ []RecallsFit => []BankEventsLegal
BY ProtocolInvariant, BankEvents, PTL

\* L2CopyCurrent: the bank answers from its own copy only when that is the
\* line's last value (dir_ctrl's a_l2_copy_current).
THEOREM CopyCurrentAlways ==
  ASSUME CachesFit
  PROVE  RoomySpec /\ []RecallsFit => []L2CopyCurrent
BY ProtocolInvariant, CopyCurrent, PTL

\* Inclusion: a line a cache may read is resident in its bank, which knows of
\* the copy or has sent for it.
THEOREM InclusionAlways ==
  ASSUME CachesFit
  PROVE  RoomySpec /\ []RecallsFit => []Inclusion
BY ProtocolInvariant, Included, PTL

\* TbesMatchDirectory: one buffer entry to a line at most, held exactly while
\* the line waits for its owner's data or is being recalled.
THEOREM TbesMatchAlways ==
  ASSUME CachesFit
  PROVE  RoomySpec /\ []RecallsFit => []TbesMatchDirectory
BY ProtocolInvariant, TbesMatch, PTL

\* RecallCountExact: a back-invalidation ends with its last answer, neither
\* before nor after it.
THEOREM CountExactAlways ==
  ASSUME CachesFit
  PROVE  RoomySpec /\ []RecallsFit => []RecallCountExact
BY ProtocolInvariant, CountExact, PTL

\* What RoomySpec takes for granted is what dir_ctrl asserts: a free buffer
\* entry and a line that may be replaced, whenever one has to be.  Where the
\* assertions hold, so does every theorem about RoomySpec.
THEOREM AssertionsMakeRoom ==
  Spec /\ []EntryForRecall /\ []VictimForRecall => RoomySpec
<1>1. EntryForRecall /\ VictimForRecall /\ [Next]_vars => [RoomyNext]_vars
  <2>. SUFFICES ASSUME EntryForRecall, VictimForRecall, NEW h \in Home, NEW c \in Cache, ReplaceAnyway(h, c)
                PROVE  FALSE
    BY DEF Next
  <2>. QED
    BY DEF ReplaceAnyway, RecallPossible, EntryForRecall, VictimForRecall
<1>. QED
  BY <1>1, PTL DEF Spec, RoomySpec

\* With more ways than buffer entries the first of the two assertions is
\* enough.
THEOREM EntriesMakeRoom ==
  ASSUME L2Ways > TbeEntries
  PROVE  Spec /\ []EntryForRecall => RoomySpec
BY AssertionsMakeRoom, VictimAlways, PTL

\* With fewer caches than AckHalf, three in a four-tile system, every recall can
\* be counted (with AckHalf of them one cannot: binv_expect in dir_ctrl).
THEOREM FewCachesFit ==
  ASSUME Cardinality(Cache) < AckHalf, Cache # {}
  PROVE  RoomySpec => []RecallsFit
<1>1. TypeInv => RecallsFit
  <2>. SUFFICES ASSUME TypeInv, NEW h \in Home, NEW l \in Victims(h)
                PROVE  RecallExpect(dir[l]) < AckHalf
    BY DEF RecallsFit
  <2>1. l \in Line /\ TypeOK
    BY DEF TypeInv, Victims, Resident, LinesOf
  <2>2. dir[l].sharers \in SUBSET Cache
    BY <2>1, MetaValues
  <2>3. /\ Cardinality(Cache) \in Nat \ {0} /\ Cardinality(dir[l].sharers) <= Cardinality(Cache)
        /\ Cardinality(dir[l].sharers) \in Nat /\ AckHalf \in Nat
    BY <2>2, CacheSets, FS_Subset, TopologyAssumption
  <2>4. RecallExpect(dir[l]) \in {0, 1, Cardinality(dir[l].sharers)}
    BY DEF RecallExpect
  <2>. QED
    BY <2>3, <2>4
<1>2. Init => TypeInv
  BY InitType
<1>3. TypeInv /\ [RoomyNext]_vars => TypeInv'
  BY TypeInductive DEF Next
<1>. QED
  BY <1>1, <1>2, <1>3, PTL DEF RoomySpec

\* A bank whose set has a way for each of its lines replaces nothing: there
\* the theorems hold of every execution.
THEOREM SpareWaysMakeRoom ==
  ASSUME CachesFit, \A h \in Home : Cardinality(LinesOf(h)) <= L2Ways
  PROVE  Spec => RoomySpec /\ []RecallsFit
<1>1. ASSUME IInv, NEW h \in Home, NEW c \in Cache PROVE ~MissesFullSet(h, c)
  <2>. SUFFICES ASSUME MissesFullSet(h, c) PROVE FALSE
    OBVIOUS
  <2>1. req[c][h] # <<>>
    BY DEF MissesFullSet, ReqPresented
  <2>2. PICK l \in LinesOf(h) : l = Head(req[c][h]).line
    <3>1. TypeOK /\ ReqChannels
      BY <1>1 DEF IInv, Channels
    <3>2. req[c][h] \in Seq(ReqMsg)
      BY <3>1 DEF TypeOK
    <3>3. Head(req[c][h]) \in Items(req[c][h]) /\ Head(req[c][h]) \in ReqMsg
      BY <2>1, <3>2 DEF Items
    <3>. QED
      BY <3>1, <3>3 DEF ReqChannels, LinesOf, ReqMsg
  <2>3. Resident(h) \subseteq LinesOf(h) \ {l}
    BY <2>2 DEF MissesFullSet, Resident
  <2>4. IsFiniteSet(LinesOf(h))
    BY FS_Subset, TopologyAssumption DEF LinesOf
  <2>5. IsFiniteSet(LinesOf(h) \ {l}) /\ Cardinality(LinesOf(h) \ {l}) = Cardinality(LinesOf(h)) - 1
    BY <2>2, <2>4, FS_RemoveElement
  <2>6. Cardinality(Resident(h)) <= Cardinality(LinesOf(h)) - 1 /\ Cardinality(Resident(h)) \in Nat
    BY <2>3, <2>5, FS_Subset, FS_CardinalityType
  <2>7. Cardinality(LinesOf(h)) \in Nat /\ Cardinality(LinesOf(h)) <= L2Ways
    BY <2>4, FS_CardinalityType
  <2>. QED
    BY <2>6, <2>7, SizeAssumption DEF MissesFullSet, HaveFreeWay
<1>2. Init => IInv /\ TypeInv
  BY InitInv, InitType
<1>3. IInv /\ TypeInv /\ [Next]_vars => (IInv /\ TypeInv)' /\ [RoomyNext]_vars
  <2>1. IInv => RecallsFit
    BY <1>1 DEF RecallsFit
  <2>2. IInv /\ [Next]_vars => [RoomyNext]_vars
    BY <1>1 DEF Next, ReplaceAnyway
  <2>. QED
    BY <2>1, <2>2, NextInv, TypeInductive
<1>4. IInv => RecallsFit
  BY <1>1 DEF RecallsFit
<1>. QED
  BY <1>2, <1>3, <1>4, PTL DEF Spec, RoomySpec

---------------------------------------------------------------------------
(* The abstract memory *)

\* The state of the shared memory, whatever implements it.
VARIABLES perm, view, value

Abstract == INSTANCE SharedMemory

\* Every step keeps permissions, views and values in their types.
LEMMA SMTypeInductive ==
  ASSUME Versions \in Nat \ {0}, Abstract!SMTypeOK, [Abstract!SMNext]_(Abstract!smVars)
  PROVE  Abstract!SMTypeOK'
<1>. USE DEF Abstract!SMTypeOK, Abstract!Permission
<1>1. CASE UNCHANGED Abstract!smVars
  BY <1>1 DEF Abstract!smVars
<1>2. ASSUME NEW c \in Cache, NEW l \in Line, Abstract!AcquireRead(c, l) PROVE Abstract!SMTypeOK'
  BY <1>2 DEF Abstract!AcquireRead
<1>3. ASSUME NEW c \in Cache, NEW l \in Line, Abstract!AcquireWrite(c, l) PROVE Abstract!SMTypeOK'
  BY <1>3 DEF Abstract!AcquireWrite
<1>4. ASSUME NEW c \in Cache, NEW l \in Line, Abstract!Store(c, l) PROVE Abstract!SMTypeOK'
  <2>1. (value[l] + 1) % Versions \in 0 .. Versions - 1
    OBVIOUS
  <2>. QED
    BY <1>4, <2>1 DEF Abstract!Store
<1>5. ASSUME NEW c \in Cache, NEW l \in Line, Abstract!Downgrade(c, l) PROVE Abstract!SMTypeOK'
  BY <1>5 DEF Abstract!Downgrade
<1>6. ASSUME NEW c \in Cache, NEW l \in Line, Abstract!Release(c, l) PROVE Abstract!SMTypeOK'
  BY <1>6 DEF Abstract!Release
<1>. QED
  BY <1>1, <1>2, <1>3, <1>4, <1>5, <1>6 DEF Abstract!SMNext

\* Exclusion and currency are inductive together with the types: a store is
\* seen by its writer, and there is no other reader to be left behind.
SMInv == Abstract!SMTypeOK /\ Abstract!Exclusive /\ Abstract!ReadersCurrent

\* Every step keeps them.
LEMMA SMInvInductive ==
  ASSUME Versions \in Nat \ {0}, SMInv, [Abstract!SMNext]_(Abstract!smVars)
  PROVE  SMInv'
<1>. SUFFICES (Abstract!Exclusive /\ Abstract!ReadersCurrent)'
  BY SMTypeInductive DEF SMInv
<1>. USE DEF SMInv, Abstract!SMTypeOK, Abstract!Permission, Abstract!Exclusive, Abstract!ReadersCurrent
<1>1. CASE UNCHANGED Abstract!smVars
  BY <1>1 DEF Abstract!smVars
<1>2. ASSUME NEW c \in Cache, NEW l \in Line, Abstract!AcquireRead(c, l)
      PROVE (Abstract!Exclusive /\ Abstract!ReadersCurrent)'
  BY <1>2 DEF Abstract!AcquireRead, Abstract!Others
<1>3. ASSUME NEW c \in Cache, NEW l \in Line, Abstract!AcquireWrite(c, l)
      PROVE (Abstract!Exclusive /\ Abstract!ReadersCurrent)'
  BY <1>3 DEF Abstract!AcquireWrite, Abstract!Others
<1>4. ASSUME NEW c \in Cache, NEW l \in Line, Abstract!Store(c, l)
      PROVE (Abstract!Exclusive /\ Abstract!ReadersCurrent)'
  BY <1>4 DEF Abstract!Store, Abstract!Others
<1>5. ASSUME NEW c \in Cache, NEW l \in Line, Abstract!Downgrade(c, l)
      PROVE (Abstract!Exclusive /\ Abstract!ReadersCurrent)'
  BY <1>5 DEF Abstract!Downgrade
<1>6. ASSUME NEW c \in Cache, NEW l \in Line, Abstract!Release(c, l)
      PROVE (Abstract!Exclusive /\ Abstract!ReadersCurrent)'
  BY <1>6 DEF Abstract!Release
<1>. QED
  BY <1>1, <1>2, <1>3, <1>4, <1>5, <1>6 DEF Abstract!SMNext

\* In every execution of the abstract memory, a core that may store excludes
\* all others, and a core that may load sees the last store.
THEOREM SMCorrect ==
  ASSUME Versions \in Nat \ {0}
  PROVE  Abstract!SMSpec => [](Abstract!Exclusive /\ Abstract!ReadersCurrent)
<1>1. Abstract!SMInit => SMInv
  BY DEF Abstract!SMInit, SMInv, Abstract!SMTypeOK, Abstract!Permission, Abstract!Exclusive, Abstract!ReadersCurrent
<1>2. SMInv /\ [Abstract!SMNext]_(Abstract!smVars) => SMInv'
  BY SMInvInductive
<1>3. SMInv => Abstract!Exclusive /\ Abstract!ReadersCurrent
  BY DEF SMInv
<1>. QED
  BY <1>1, <1>2, <1>3, PTL DEF Abstract!SMSpec

===============================================================================
