-------------------------------- MODULE L1Table --------------------------------
(***************************************************************************)
(* The thirteen-state L1 table of rtl/l1/l1_coh_fsm.sv as a relation.  A   *)
(* cell that stalls is in L1Stalls, a cell with an arc is in L1Arcs, and   *)
(* a blank cell, which the code marks illegal, is in neither.              *)
(***************************************************************************)
EXTENDS CohPkg

\* Cells that leave the message or the request where it is.
L1Stalls(s, e) ==
    \/ s \in {"IS_D", "IM_AD", "IM_A"} /\ e \in CoreEvent \cup {"FWD_GETS", "FWD_GETM", "INV"}
    \/ s \in {"SM_AD", "SM_A"} /\ e \in {"STORE", "EVICT", "FWD_GETS", "FWD_GETM"}
    \/ s \in Evicting /\ e \in CoreEvent

\* Arcs the core starts: misses, upgrades, hits, evictions.
CoreArcs ==
    { <<"I", "LOAD", "IS_D">>, <<"I", "STORE", "IM_AD">>, <<"S", "STORE", "SM_AD">>,
      <<"S", "LOAD", "S">>, <<"SM_AD", "LOAD", "SM_AD">>, <<"SM_A", "LOAD", "SM_A">>,
      <<"E", "LOAD", "E">>, <<"M", "LOAD", "M">>,
      <<"E", "STORE", "M">>, <<"M", "STORE", "M">>,
      <<"S", "EVICT", "SI_A">>, <<"E", "EVICT", "EI_A">>, <<"M", "EVICT", "MI_A">> }

\* Faulty: an upgrade that waits for data keeps an Inv waiting too.
InvArcsUpgradeWaits == {<<"S", "INV", "I">>, <<"SI_A", "INV", "II_A">>}

InvArcs == {<<"S", "INV", "I">>, <<"SM_AD", "INV", "IM_AD">>, <<"SI_A", "INV", "II_A">>}

\* Arcs a message on VN1 starts.
FwdArcs ==
    InvArcs \cup
    { <<"E", "FWD_GETS", "S">>, <<"E", "FWD_GETM", "I">>,
      <<"M", "FWD_GETS", "S">>, <<"M", "FWD_GETM", "I">>,
      <<"MI_A", "FWD_GETS", "SI_A">>, <<"MI_A", "FWD_GETM", "II_A">>,
      <<"EI_A", "FWD_GETS", "SI_A">>, <<"EI_A", "FWD_GETM", "II_A">> }
    \cup (Evicting \X {"PUT_ACK"} \X {"I"})

\* Arcs a message on VN2 starts.  The controller, not the table, turns IM_A
\* and SM_A into M when the count reaches zero.
RspArcs ==
    { <<"IS_D", "DATA_E_DIR", "E">>, <<"IS_D", "DATA_DIR_A0", "S">>,
      <<"IS_D", "DATA_OWNER", "S">>,
      <<"IM_AD", "DATA_DIR_A0", "M">>, <<"IM_AD", "DATA_DIR_AGT0", "IM_A">>,
      <<"IM_AD", "DATA_OWNER", "M">>, <<"IM_AD", "INV_ACK", "IM_AD">>,
      <<"IM_A", "INV_ACK", "IM_A">>,
      <<"SM_AD", "DATA_DIR_A0", "M">>, <<"SM_AD", "DATA_DIR_AGT0", "SM_A">>,
      <<"SM_AD", "DATA_OWNER", "M">>, <<"SM_AD", "INV_ACK", "SM_AD">>,
      <<"SM_A", "INV_ACK", "SM_A">> }

L1Arcs == CoreArcs \cup FwdArcs \cup RspArcs

L1Legal(s, e) == L1Stalls(s, e) \/ \E n \in L1State : <<s, e, n>> \in L1Arcs

---------------------------------------------------------------------------
(* What an arc does besides changing the state *)

\* Faulty: a sharer that is being evicted no longer answers.
SendsInvAckResident(s, e) == e = "INV" /\ s \in {"S", "SM_AD"}

SendsInvAck(s, e) == e = "INV" /\ s \in {"S", "SM_AD", "SI_A"}

SendsDataReq(s, e) == e \in {"FWD_GETS", "FWD_GETM"} /\ s \in {"E", "M", "MI_A", "EI_A"}

\* The directory's refreshed copy, because E may silently have become M.
SendsDataDir(s, e) == e = "FWD_GETS" /\ s \in {"E", "M", "MI_A", "EI_A"}

FillsData(e) == e \in {"DATA_E_DIR", "DATA_DIR_A0", "DATA_DIR_AGT0", "DATA_OWNER"}

AddsAcks(e) == e = "DATA_DIR_AGT0"

TakesAck(e) == e = "INV_ACK"

\* Faulty: the data completes a store, whatever acknowledgements are owed.
CompletesOnData(e) == FillsData(e) \/ e = "PUT_ACK"

Completes(e) == e \in {"DATA_E_DIR", "DATA_DIR_A0", "DATA_OWNER", "PUT_ACK"}

\* The Put an evicted line sends, by the state it was evicted from.
PutOf(s) == CASE s = "M" -> "PUTM" [] s = "E" -> "PUTE" [] OTHER -> "PUTS"

---------------------------------------------------------------------------
(* The events the controller derives from the messages *)

FwdEventOf(t) ==
    CASE t = "FWD_GETS" -> "FWD_GETS"
      [] t \in {"FWD_GETM", "RECALL"} -> "FWD_GETM"
      [] t \in {"INV", "RECALL_INV"} -> "INV"
      [] OTHER -> "PUT_ACK"

\* Faulty: the AckCount of the data is not looked at.
DataDirEventNoCount(ack) == "DATA_DIR_A0"

DataDirEvent(ack) == IF ack = 0 THEN "DATA_DIR_A0" ELSE "DATA_DIR_AGT0"

RspEventOf(t, ack) ==
    CASE t = "DATA_E" -> "DATA_E_DIR"
      [] t = "DATA_DIR" -> DataDirEvent(ack)
      [] t = "DATA_OWNER" -> "DATA_OWNER"
      [] OTHER -> "INV_ACK"

===============================================================================
