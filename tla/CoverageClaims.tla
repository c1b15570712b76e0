----------------------------- MODULE CoverageClaims -----------------------------
(***************************************************************************)
(* What the arc probe of tb/models/probe.py sees of the protocol, and the  *)
(* claims tb/models/coverage.py makes about it: the legal table cells it   *)
(* excuses from coverage because no sequence of messages presents them.    *)
(* A cell is a tuple of a state and an event; the probe records a cell     *)
(* while it is presented, whether or not the event is then accepted.       *)
(***************************************************************************)
EXTENDS Coherence

\* The L1s' decision points: a forward presented on VN1, a response on VN2,
\* a request of the core in S1, and the victim S1 chooses.
ShownForward(c) ==
    {<<l1[c][Head(fwd[h][c]).line], FwdEventOf(Head(fwd[h][c]).type)>> :
        h \in {b \in Home : FwdPresented(c, b)}}

ShownResponse(c) ==
    {<<l1[c][Head(rsp[s][c]).line], RspEventOf(Head(rsp[s][c]).type, Head(rsp[s][c]).ack)>> :
        s \in {n \in Node : rsp[n][c] # <<>>}}

\* What the tag array holds: the state of an evicting line is in its MSHR only.
ArrayState(c, l) == IF mshr[c][l].op = "EV" THEN "I" ELSE l1[c][l]

ShownCore(c) ==
    {<<ArrayState(c, l), OpEvent(op)>> : l \in Line, op \in {"LD", "ST"}}

\* Faulty: a way whose fetch is outstanding may be chosen.
VictimOfSet(c) == {l \in Line : ArrayState(c, l) # "I"}

\* The lines victim selection may offer: resident, and not reserved by an MSHR.
Replaceable(c) == {l \in Line : ArrayState(c, l) # "I" /\ mshr[c][l].op = "none"}

ShownVictim(c) == {<<l1[c][l], "EVICT">> : l \in Replaceable(c)}

ShownL1(c) == ShownForward(c) \cup ShownResponse(c) \cup ShownCore(c) \cup ShownVictim(c)

\* The directories' decision point, D_EXEC: a message for a resident line.
\* Answers to a recall reach it as well, and the probe skips RECALL_ACK only.
AtExec(h, c) ==
    {m \in {Head(q) : q \in {x \in {req[c][h], rsp[c][h]} : x # <<>>}} :
        /\ dir[m.line].present
        /\ m.type \in ReqType => ReqPresented(h, c)}

Recorded(h, c) == {m \in AtExec(h, c) : m.type # "RECALL_ACK"}

ShownDir(h) ==
    UNION {{<<dir[m.line].state, DirEventOf(m.type, dir[m.line], c)>> : m \in Recorded(h, c)} :
           c \in Cache}

---------------------------------------------------------------------------
(* The cells coverage.py lists in DEFENSIVE *)

InvNotASharer == {"IM_AD", "IM_A"} \X {"INV"}
NeverAVictim == {"IS_D", "IM_AD", "IM_A", "SM_AD", "SM_A"} \X {"EVICT"}
EvictStateHidden == {"MI_A", "EI_A", "SI_A", "II_A"} \X CoreEvent
NoForwardToAnUpgrader == {<<"SM_AD", "DATA_OWNER">>}
EmptyVectorIsAlwaysLast == {"I", "E", "M"} \X {"PUTS_NOT_LAST"}
AnOwnerInMSendsPutM == {<<"M", "PUTE_OWNER">>}
OwnerOnlyInEOrM == {"S_D"} \X {"PUTM_OWNER", "PUTE_OWNER"}

L1Defensive == InvNotASharer \cup NeverAVictim \cup EvictStateHidden \cup NoForwardToAnUpgrader

DirDefensive == EmptyVectorIsAlwaysLast \cup AnOwnerInMSendsPutM \cup OwnerOnlyInEOrM

\* The bins: the cells the transcribed tables define.
LegalL1 == {cell \in L1State \X L1Event : L1Legal(cell[1], cell[2])}

LegalDir == {cell \in DirState \X DirEventSet : DirLegal(cell[1], cell[2])}

---------------------------------------------------------------------------
(* Properties *)

\* The cells a cache may present: bins of the report that are not excused, and
\* nothing but the Put-Ack to a cache that gave its line up while it evicts it
\* ("Only a Put-Ack is reachable there. A forward here means the directory
\* generated one for a cache it had already acknowledged": test_races.py, R8).
Expected == {cell \in LegalL1 \ L1Defensive : cell[1] = "II_A" => cell[2] = "PUT_ACK"}

\* No cell is excused that is not a bin: the fraction the report prints is one.
ExcusedAreBins == L1Defensive \subseteq LegalL1 /\ DirDefensive \subseteq LegalDir

\* The excuses hold: no cell of either table that coverage.py calls uncovered
\* by construction is ever presented, whatever races there are; a directory in
\* I, E or M meets no sharer's Put that is not the last, and one in M no PutE of
\* its owner.
ExcusesHold ==
    /\ ExcusedAreBins
    /\ \A c \in Cache : ShownL1(c) \subseteq Expected
    /\ \A h \in Home : ShownDir(h) \cap DirDefensive = {}

===============================================================================
