--------------------------------- MODULE MCTile ---------------------------------
(***************************************************************************)
(* Messages for the network interface: requests, a forward and responses   *)
(* of a tile to itself, and packets of another tile that meet them in the  *)
(* router and at the way out.                                              *)
(***************************************************************************)
EXTENDS TileHarness

Msg(id, from, vnet, to, len) == [id |-> id, from |-> from, vnet |-> vnet, to |-> to, dst |-> Me, len |-> len]

\* Two responses of one network, the long one first, a request its sink may
\* keep, and another tile's data.
Crowd ==
    [ packets |-> {Msg(1, DIR, 2, L1, 3), Msg(2, L1, 2, DIR, 1), Msg(3, L1, 0, DIR, 1), Msg(4, EAST, 2, L1, 3)},
      refuse |-> {<<0, DIR>>}, again |-> FALSE, fair |-> FALSE ]

\* A forward its sink may keep, for ever perhaps, and responses.
Stuck ==
    [ packets |-> {Msg(5, DIR, 1, L1, 1), Msg(6, L1, 2, DIR, 2)},
      refuse |-> {<<1, L1>>}, again |-> TRUE, fair |-> TRUE ]

\* The L1 has two responses to send, one for another tile, for each of the
\* bank's.
BothFeeders ==
    [ packets |-> {Msg(7, L1, 2, DIR, 1), [Msg(8, L1, 2, DIR, 2) EXCEPT !.dst = 1], Msg(9, DIR, 2, L1, 1)},
      refuse |-> {}, again |-> TRUE, fair |-> TRUE ]

AllWorkloads == {Crowd, Stuck, BothFeeders}

AllPackets == UNION {w.packets : w \in AllWorkloads}
===============================================================================
