------------------------------ MODULE VerifTables ------------------------------
(***************************************************************************)
(* tb/models/tables.py: the verification side's own transcription of the   *)
(* two protocol tables, with which the table tests compare the RTL and     *)
(* from which the coverage model takes its legal bins.  A cell is a        *)
(* quadruple of state, event, next state and action bits; a pair with no   *)
(* cell is blank.  Rows with the same right-hand side are written once.    *)
(***************************************************************************)
EXTENDS CohPkg

STALL == {"stall"}

\* A cell of every state in ss under every event in es that stays put.
Stay(ss, es, acts) == {<<s, e, s, acts>> : s \in ss, e \in es}

Cells(ss, es, n, acts) == {<<s, e, n, acts>> : s \in ss, e \in es}

Done == {"fill_data", "complete"}

L1_TABLE ==
    UNION {
      Cells({"I"}, {"LOAD"}, "IS_D", {"send_gets"}),
      Cells({"I"}, {"STORE"}, "IM_AD", {"send_getm"}),
      Stay({"IS_D", "IM_AD", "IM_A"}, CoreEvent \cup {"FWD_GETS", "FWD_GETM", "INV"}, STALL),
      Stay({"SM_AD", "SM_A"}, {"STORE", "EVICT", "FWD_GETS", "FWD_GETM"}, STALL),
      Stay(Evicting, CoreEvent, STALL),
      Cells({"IS_D"}, {"DATA_E_DIR"}, "E", Done),
      Cells({"IS_D"}, {"DATA_DIR_A0", "DATA_OWNER"}, "S", Done),
      Cells({"IM_AD", "SM_AD"}, {"DATA_DIR_A0", "DATA_OWNER"}, "M", Done),
      Cells({"IM_AD"}, {"DATA_DIR_AGT0"}, "IM_A", {"fill_data", "ack_add"}),
      Cells({"SM_AD"}, {"DATA_DIR_AGT0"}, "SM_A", {"fill_data", "ack_add"}),
      Stay({"IM_AD", "IM_A", "SM_AD", "SM_A"}, {"INV_ACK"}, {"ack_dec"}),
      Stay({"S", "SM_AD", "SM_A", "E", "M"}, {"LOAD"}, {"hit"}),
      Cells({"E", "M"}, {"STORE"}, "M", {"hit"}),
      Cells({"S"}, {"STORE"}, "SM_AD", {"send_getm"}),
      Cells({"S"}, {"EVICT"}, "SI_A", {"send_puts"}),
      Cells({"E"}, {"EVICT"}, "EI_A", {"send_pute"}),
      Cells({"M"}, {"EVICT"}, "MI_A", {"send_putm"}),
      Cells({"S"}, {"INV"}, "I", {"send_inv_ack"}),
      Cells({"SM_AD"}, {"INV"}, "IM_AD", {"send_inv_ack"}),
      Cells({"SI_A"}, {"INV"}, "II_A", {"send_inv_ack"}),
      Cells({"E", "M"}, {"FWD_GETS"}, "S", {"send_data_req", "send_data_dir"}),
      Cells({"E", "M"}, {"FWD_GETM"}, "I", {"send_data_req"}),
      Cells({"MI_A", "EI_A"}, {"FWD_GETS"}, "SI_A", {"send_data_req", "send_data_dir"}),
      Cells({"MI_A", "EI_A"}, {"FWD_GETM"}, "II_A", {"send_data_req"}),
      Cells(Evicting, {"PUT_ACK"}, "I", {"complete"}) }

ACK == {"send_put_ack"}

REMOVE_ACK == {"remove_sharer", "send_put_ack"}

dir_table(enable_e) ==
    LET strayPuts == {"PUTM_NON_OWNER", "PUTE_NON_OWNER", "PUTS_NOT_LAST"} IN
    UNION {
      Cells({"I"}, {"GETM"}, "M", {"send_data", "set_owner_req"}),
      Stay({"I", "E", "M"}, strayPuts \cup {"PUTS_LAST"}, ACK),
      Stay({"S"}, {"GETS"}, {"send_data", "add_sharer"}),
      Cells({"S"}, {"GETM"}, "M",
            {"send_data", "send_inv_others", "clear_sharers", "set_owner_req"}),
      Stay({"S"}, strayPuts, REMOVE_ACK),
      Cells({"S"}, {"PUTS_LAST"}, "I", REMOVE_ACK),
      Cells({"E", "M"}, {"GETS"}, "S_D",
            {"send_fwd_gets", "sharers_owner_req", "clear_owner"}),
      Cells({"E", "M"}, {"GETM"}, "M", {"send_fwd_getm", "set_owner_req"}),
      Cells({"E", "M"}, {"PUTM_OWNER"}, "I", {"copy_data_l2", "send_put_ack", "clear_owner"}),
      Cells({"E"}, {"PUTE_OWNER"}, "I", {"send_put_ack", "clear_owner"}),
      Stay({"M"}, {"PUTE_OWNER"}, ACK),
      Stay({"S_D"}, {"GETS", "GETM"}, STALL),
      Stay({"S_D"}, PutEvent, REMOVE_ACK),
      Cells({"S_D"}, {"DATA"}, "S", {"copy_data_l2"}),
      IF enable_e THEN Cells({"I"}, {"GETS"}, "E", {"send_data_e", "set_owner_req"})
                  ELSE Cells({"I"}, {"GETS"}, "S", {"send_data", "add_sharer"}) }

\* The cell of a state and an event: none when the pair is blank.
CellOf(table, s, e) == {c \in table : c[1] = s /\ c[2] = e}

===============================================================================
