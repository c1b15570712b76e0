-------------------------------- MODULE RrFair --------------------------------
(***************************************************************************)
(* The arbiter of rtl/lib/rr_arbiter.sv over time: in each cycle any set   *)
(* of requests, taken or not.  How often others have been taken while an   *)
(* index has kept asking is counted.                                       *)
(***************************************************************************)
EXTENDS RrArbiter

CONSTANT N

ASSUME NAssumption == N \in Nat \ {0}

Index == 0 .. N - 1

VARIABLES ptr, req, passed

vars == <<ptr, req, passed>>

Init ==
    /\ ptr = 0
    /\ req = {}
    /\ passed = [i \in Index |-> 0]

\* The winner w is taken: everybody else who asks has been passed over.
Taken(w) ==
    /\ w \in Gnt(req, ptr)
    /\ ptr' = PtrPast(N, w)
    /\ passed' = [i \in Index |-> IF i \in req \ {w} THEN passed[i] + 1 ELSE 0]
    /\ req' \in SUBSET Index

\* No request, or no take: only what stops asking starts afresh.
NotTaken ==
    /\ ptr' = ptr
    /\ passed' = [i \in Index |-> IF i \in req THEN passed[i] ELSE 0]
    /\ req' \in SUBSET Index

Next == NotTaken \/ \E w \in Index : Taken(w)

Spec == Init /\ [][Next]_vars

---------------------------------------------------------------------------
(* Properties *)

\* Registers and counters keep their types.
TypeOK ==
    /\ ptr \in Index
    /\ req \in SUBSET Index
    /\ passed \in [Index -> Nat]

\* An index that keeps asking is passed over at most N - 1 times, whether
\* grants are taken in every cycle or only now and then (rr_arbiter.sv: the
\* pointer advances only on take_i).
NotStarved == \A i \in Index : passed[i] < N

---------------------------------------------------------------------------
(* The invariant behind NotStarved: the indices between the pointer and i  *)
(* and the times i has been passed over are fewer than N together.         *)

Distance(i) == IF i >= ptr THEN i - ptr ELSE i - ptr + N

Close == \A i \in Index : passed[i] + Distance(i) < N

IInv == TypeOK /\ Close

===============================================================================
