------------------------------- MODULE RrArbiter -------------------------------
(***************************************************************************)
(* rtl/lib/rr_arbiter.sv: the round-robin arbiter.  The request and grant  *)
(* vectors are sets of indices below n.  A grant goes to the lowest        *)
(* requester at or above the pointer, or else to the lowest of all; the    *)
(* pointer moves past the winner, and only when the grant is taken.        *)
(***************************************************************************)
EXTENDS Integers

\* x & (-x): the lowest set bit, as a set of at most one index.
LowestBit(req) == {i \in req : \A j \in req : i <= j}

Gnt(req, ptr) ==
    LET masked == {i \in req : i >= ptr}
    IN  IF masked # {} THEN LowestBit(masked) ELSE LowestBit(req)

\* Faulty: the pointer stops at the winner, which then wins again.
PtrPastStays(n, w) == w

\* Faulty: the pointer runs past the last requester.
PtrPastNoWrap(n, w) == w + 1

PtrPast(n, w) == IF w = n - 1 THEN 0 ELSE w + 1

NextPtr(n, req, ptr, take) ==
    IF req # {} /\ take THEN PtrPast(n, CHOOSE w \in Gnt(req, ptr) : TRUE) ELSE ptr

===============================================================================
