-------------------------------- MODULE DirTable --------------------------------
(***************************************************************************)
(* The five-state directory table of rtl/l2/dir_coh_fsm.sv as a relation.  *)
(* EnableE chooses between MSI and MESI and changes one arc, I + GetS.     *)
(***************************************************************************)
EXTENDS CohPkg

CONSTANT EnableE

ASSUME EnableEType == EnableE \in BOOLEAN

\* S_D stalls the requests and accepts every Put.
DirStalls(s, e) == s = "S_D" /\ e \in {"GETS", "GETM"}

DirArcs ==
    { <<"I", "GETS", IF EnableE THEN "E" ELSE "S">>, <<"I", "GETM", "M">>,
      <<"S", "GETS", "S">>, <<"S", "GETM", "M">>, <<"S", "PUTS_LAST", "I">>,
      <<"E", "GETS", "S_D">>, <<"E", "GETM", "M">>,
      <<"E", "PUTM_OWNER", "I">>, <<"E", "PUTE_OWNER", "I">>,
      <<"M", "GETS", "S_D">>, <<"M", "GETM", "M">>,
      <<"M", "PUTM_OWNER", "I">>, <<"M", "PUTE_OWNER", "M">>,
      <<"S_D", "DATA", "S">> }
    \cup ({"I"} \X {"PUTS_NOT_LAST", "PUTS_LAST", "PUTM_NON_OWNER", "PUTE_NON_OWNER"} \X {"I"})
    \cup ({"S"} \X {"PUTS_NOT_LAST", "PUTM_NON_OWNER", "PUTE_NON_OWNER"} \X {"S"})
    \cup ({"E"} \X {"PUTS_NOT_LAST", "PUTS_LAST", "PUTM_NON_OWNER", "PUTE_NON_OWNER"} \X {"E"})
    \cup ({"M"} \X {"PUTS_NOT_LAST", "PUTS_LAST", "PUTM_NON_OWNER", "PUTE_NON_OWNER"} \X {"M"})
    \cup ({"S_D"} \X PutEvent \X {"S_D"})

DirLegal(s, e) == DirStalls(s, e) \/ \E n \in DirState : <<s, e, n>> \in DirArcs

---------------------------------------------------------------------------
(* What an arc does besides changing the state *)

SendsDataE(s, e) == EnableE /\ s = "I" /\ e = "GETS"

SendsData(s, e) ==
    \/ s = "I" /\ (e = "GETM" \/ (e = "GETS" /\ ~EnableE))
    \/ s = "S" /\ e \in {"GETS", "GETM"}

InvalidatesOthers(s, e) == s = "S" /\ e = "GETM"

\* Fwd-GetS or Fwd-GetM to the recorded owner.
ForwardsToOwner(s, e) == s \in {"E", "M"} /\ e \in {"GETS", "GETM"}

\* Faulty: a Put from a cache that is no longer the owner is dropped.
SendsPutAckOwner(e) == e \in PutEvent \ {"PUTM_NON_OWNER", "PUTE_NON_OWNER"}

SendsPutAck(e) == e \in PutEvent

AddsSharer(s, e) == e = "GETS" /\ (s = "S" \/ (s = "I" /\ ~EnableE))

\* Faulty: a Put accepted in S_D leaves its sender on the sharer list.
RemovesSharerStable(s, e) == s = "S" /\ e \in PutEvent

RemovesSharer(s, e) ==
    \/ s = "S" /\ e \in PutEvent
    \/ s = "S_D" /\ e \in PutEvent

\* Faulty: the owner of a line that has one stays its owner.
SetsOwnerFirst(s, e) == (e = "GETM" /\ s \notin {"E", "M"}) \/ SendsDataE(s, e)

SetsOwner(s, e) == e = "GETM" \/ SendsDataE(s, e)

ClearsOwner(s, e) ==
    \/ s \in {"E", "M"} /\ e \in {"GETS", "PUTM_OWNER"}
    \/ s = "E" /\ e = "PUTE_OWNER"

\* Faulty: the data that ends S_D is not written into the L2.
CopiesDataPutOnly(s, e) == s \in {"E", "M"} /\ e = "PUTM_OWNER"

\* Faulty: the data of a PutM is taken only where it is expected, in M.
CopiesDataExpected(s, e) ==
    \/ s = "M" /\ e = "PUTM_OWNER"
    \/ s = "S_D" /\ e = "DATA"

CopiesData(s, e) ==
    \/ s \in {"E", "M"} /\ e = "PUTM_OWNER"
    \/ s = "S_D" /\ e = "DATA"

===============================================================================
