------------------------------- MODULE MCCohLive -------------------------------
(***************************************************************************)
(* Lines that take turns in one way of the L2, twice in one run, a         *)
(* behaviour being of one part: as the restricted specification has it,    *)
(* with fairness and stores to one line; and as it comes, with lines       *)
(* replaced that should not be (ReplaceAnyway), with loads only.           *)
(***************************************************************************)
EXTENDS MCCoherence

VARIABLE part

Roomy == INSTANCE Coherence WITH CoreOps <- AllOpsOnX

Steps ==
    \/ part = "roomy" /\ Roomy!RoomyNext
    \/ part = "overcommitted" /\ Next

LiveSpec ==
    /\ Init /\ part \in {"roomy", "overcommitted"}
    /\ [][Steps /\ UNCHANGED part]_<<vars, part>>
    /\ Roomy!Fairness

\* Every miss, upgrade and eviction completes, whatever the other cache does
\* and although another line needs the way.
TransactionsComplete ==
    \A c \in Cache, l \in Line :
        (part = "roomy" /\ mshr[c][l].op # "none") ~> mshr[c][l].op = "none"

===============================================================================
