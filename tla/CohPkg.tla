-------------------------------- MODULE CohPkg --------------------------------
(***************************************************************************)
(* The vocabulary of the design, after rtl/pkg/coh_pkg.sv: L1 and          *)
(* directory states, message types by virtual network, the events that     *)
(* index the two protocol tables, and the signed acknowledgement counter.  *)
(* Addresses, words and byte enables are abstracted: a cache line is a     *)
(* member of a set, its contents a version number.                         *)
(***************************************************************************)
EXTENDS Integers

---------------------------------------------------------------------------
(* States *)

StableL1 == {"I", "S", "E", "M"}

\* Transient states of a line being fetched or upgraded; kept in the tag array.
Fetching == {"IS_D", "IM_AD", "IM_A", "SM_AD", "SM_A"}

\* Transient states of a line being evicted; kept in the eviction's MSHR.
Evicting == {"MI_A", "EI_A", "SI_A", "II_A"}

L1State == StableL1 \cup Fetching \cup Evicting

DirState == {"I", "S", "E", "M", "S_D"}

TbeState == {"INVALID", "INV_PEND", "WB_PEND"}

---------------------------------------------------------------------------
(* Messages, one set per virtual network *)

ReqType == {"GETS", "GETM", "PUTS", "PUTM", "PUTE"}

FwdType == {"FWD_GETS", "FWD_GETM", "INV", "PUT_ACK", "RECALL", "RECALL_INV"}

\* What an L1 consumes on VN2, and what a directory bank consumes on VN2.
RspToL1 == {"DATA_DIR", "DATA_E", "DATA_OWNER", "INV_ACK"}
RspToDir == {"WB_DATA", "RECALL_ACK"}

RspType == RspToL1 \cup RspToDir

---------------------------------------------------------------------------
(* Events: the columns of the two protocol tables *)

CoreEvent == {"LOAD", "STORE", "EVICT"}

FwdEvent == {"FWD_GETS", "FWD_GETM", "INV", "PUT_ACK"}

RspEvent == {"DATA_E_DIR", "DATA_DIR_A0", "DATA_DIR_AGT0", "DATA_OWNER", "INV_ACK"}

L1Event == CoreEvent \cup FwdEvent \cup RspEvent

PutEvent == {"PUTS_NOT_LAST", "PUTS_LAST", "PUTM_OWNER", "PUTM_NON_OWNER",
             "PUTE_OWNER", "PUTE_NON_OWNER"}

DirEventSet == {"GETS", "GETM", "DATA"} \cup PutEvent

---------------------------------------------------------------------------
(* Arithmetic on a signed register of 2 * half values: a width of w bits   *)
(* has half = 2^(w - 1)                                                    *)

SignedRange(half) == -half .. half - 1

\* The value the register holds after n is stored in it.
Signed(half, n) == ((n + half) % (2 * half)) - half

===============================================================================
