-------------------------------- MODULE FifoNet --------------------------------
(***************************************************************************)
(* What the network promises the protocol: between a source and a          *)
(* destination, the flits of one virtual channel arrive in the order they  *)
(* were sent, each once.                                                   *)
(***************************************************************************)
EXTENDS Naturals, Sequences

CONSTANT Channel

VARIABLES transit, delivered

vars == <<transit, delivered>>

Init ==
    /\ transit = [c \in Channel |-> <<>>]
    /\ delivered = [c \in Channel |-> <<>>]

\* In one step a channel may deliver its oldest flit and take up a new one.
Moves(c) ==
    LET gives == delivered'[c] # delivered[c]
        rest == IF gives THEN SubSeq(transit[c], 2, Len(transit[c])) ELSE transit[c]
    IN  /\ gives => transit[c] # <<>> /\ delivered'[c] = Append(delivered[c], transit[c][1])
        /\ \/ transit'[c] = rest
           \/ Len(transit'[c]) = Len(rest) + 1 /\ SubSeq(transit'[c], 1, Len(rest)) = rest

Next == \A c \in Channel : Moves(c)

Spec == Init /\ [][Next]_vars

===============================================================================
