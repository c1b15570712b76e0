---------------------------------- MODULE MCL1 ----------------------------------
(***************************************************************************)
(* Requests for the L1 controller.                                         *)
(***************************************************************************)
EXTENDS L1Harness

CONSTANTS la, lb, lc

Rq(id, line, op) == [id |-> id, line |-> line, op |-> op]

\* A load and a store of one line that other caches ask for at any time.
Racing ==
    [ requests |-> {Rq(1, la, "LD"), Rq(2, la, "ST")},
      contended |-> {<<la, "GETS">>, <<la, "GETM">>}, fair |-> TRUE ]

\* Three lines for two ways, one of them written by other caches.
Replacing ==
    [ requests |-> {Rq(1, la, "ST"), Rq(1, lb, "LD"), Rq(1, lc, "LD")},
      contended |-> {<<la, "GETM">>}, fair |-> FALSE ]

\* ... or with two requests outstanding.
Crowding ==
    [ requests |-> {Rq(1, la, "ST"), Rq(2, lb, "LD"), Rq(2, lc, "LD")}, contended |-> {},
      fair |-> FALSE ]

AllWorkloads == {Racing, Replacing, Crowding}
===============================================================================
