------------------------------- MODULE TableTests -------------------------------
(***************************************************************************)
(* The table tests: every state and every event is presented to both       *)
(* protocol tables, and what the RTL's combinational machine answers is    *)
(* compared with the transcription of tb/models/tables.py.  The RTL's side *)
(* is the model of the two machines in L1Table and DirTable, which were    *)
(* read from the SystemVerilog.                                            *)
(***************************************************************************)
EXTENDS VerifTables

L1 == INSTANCE L1Table
Msi == INSTANCE DirTable WITH EnableE <- FALSE
Mesi == INSTANCE DirTable WITH EnableE <- TRUE

\* What is on the inputs of the machines, and which of them is looked at.
VARIABLES machine, state, event

vars == <<machine, state, event>>

Init ==
    /\ machine = "l1"
    /\ state = "I"
    /\ event = "LOAD"

PresentL1 ==
    /\ machine' = "l1"
    /\ state' \in L1State
    /\ event' \in L1Event

PresentDir ==
    /\ machine' \in {"msi", "mesi"}
    /\ state' \in DirState
    /\ event' \in DirEventSet

Next == PresentL1 \/ PresentDir

Spec == Init /\ [][Next]_vars

---------------------------------------------------------------------------
(* The machines' answers, in the transcription's terms *)

Bits(answers) == {a \in DOMAIN answers : answers[a]}

\* What a core event of the L1 does when it does not stall.
CoreBits(s, e, n) ==
    [ hit |-> n \notin Evicting /\ (n = s \/ n = "M"),
      send_gets |-> s = "I" /\ e = "LOAD",
      send_getm |-> n \in Fetching \ {s} /\ e = "STORE",
      send_puts |-> e = "EVICT" /\ L1!PutOf(s) = "PUTS",
      send_putm |-> e = "EVICT" /\ L1!PutOf(s) = "PUTM",
      send_pute |-> e = "EVICT" /\ L1!PutOf(s) = "PUTE" ]

MessageBits(s, e) ==
    [ send_inv_ack |-> L1!SendsInvAck(s, e), send_data_req |-> L1!SendsDataReq(s, e),
      send_data_dir |-> L1!SendsDataDir(s, e), ack_dec |-> L1!TakesAck(e),
      ack_add |-> L1!AddsAcks(e), fill_data |-> L1!FillsData(e), complete |-> L1!Completes(e) ]

L1Answer(s, e) ==
    (IF L1!L1Stalls(s, e) THEN {<<s, e, s, STALL>>} ELSE {}) \cup
    {<<s, e, a[3], IF e \in CoreEvent THEN Bits(CoreBits(s, e, a[3])) ELSE Bits(MessageBits(s, e))>> :
        a \in {b \in L1!L1Arcs : b[1] = s /\ b[2] = e}}

DirBits(s, e) ==
    LET mesi == machine = "mesi"
        both(a, b) == IF mesi THEN a ELSE b
    IN
    [ send_data |-> both(Mesi!SendsData(s, e), Msi!SendsData(s, e)),
      send_data_e |-> both(Mesi!SendsDataE(s, e), Msi!SendsDataE(s, e)),
      send_inv_others |-> Mesi!InvalidatesOthers(s, e),
      clear_sharers |-> Mesi!InvalidatesOthers(s, e),
      send_fwd_gets |-> Mesi!ForwardsToOwner(s, e) /\ e = "GETS",
      sharers_owner_req |-> Mesi!ForwardsToOwner(s, e) /\ e = "GETS",
      send_fwd_getm |-> Mesi!ForwardsToOwner(s, e) /\ e = "GETM",
      send_put_ack |-> Mesi!SendsPutAck(e),
      add_sharer |-> both(Mesi!AddsSharer(s, e), Msi!AddsSharer(s, e)),
      remove_sharer |-> Mesi!RemovesSharer(s, e),
      set_owner_req |-> both(Mesi!SetsOwner(s, e), Msi!SetsOwner(s, e)),
      clear_owner |-> Mesi!ClearsOwner(s, e),
      copy_data_l2 |-> Mesi!CopiesData(s, e) ]

DirAnswer(s, e) ==
    LET arcs == IF machine = "mesi" THEN Mesi!DirArcs ELSE Msi!DirArcs IN
    (IF Mesi!DirStalls(s, e) THEN {<<s, e, s, STALL>>} ELSE {}) \cup
    {<<s, e, a[3], Bits(DirBits(s, e))>> : a \in {b \in arcs : b[1] = s /\ b[2] = e}}

---------------------------------------------------------------------------
(* Properties *)

\* The two renderings of the L1 table agree in every cell, blank cells
\* included: next state, stall, and every action bit (l1_coh_fsm.sv against
\* tables.py).
L1TablesAgree ==
    machine = "l1" => L1Answer(state, event) = CellOf(L1_TABLE, state, event)

\* The two renderings of the directory table agree in every cell, for MSI
\* and for MESI (dir_coh_fsm.sv against tables.py).
DirTablesAgree ==
    machine \in {"msi", "mesi"} =>
        DirAnswer(state, event) = CellOf(dir_table(machine = "mesi"), state, event)

===============================================================================
