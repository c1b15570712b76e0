------------------------------ MODULE MCCoherence ------------------------------
(***************************************************************************)
(* Instances of Coherence for TLC: one bank, or two banks whose packets    *)
(* share a virtual channel, with two to four caches and one to four lines. *)
(***************************************************************************)
EXTENDS CoverageClaims, TLC

CONSTANTS h1, h2, lx, ly

\* Every line in bank h1.
OneHome == [l \in Line |-> h1]

\* Line lx in bank h1, line ly in bank h2.
TwoHomes == [l \in Line |-> IF l = lx THEN h1 ELSE h2]

\* Banks on tiles 0 and 2: all their packets travel in VC 0.
SameVc == [h \in Home |-> 0]

\* What the cores issue.
AllOps == [l \in Line |-> {"LD", "ST", "EV"}]
AllOpsOnX == [l \in Line |-> IF l = lx THEN {"LD", "ST", "EV"} ELSE {"LD"}]
LoadsOnly == [l \in Line |-> {"LD"}]
StoresOnly == [l \in Line |-> {"ST"}]

\* Caches are interchangeable: nothing in the model orders them.
CacheSymmetry == Permutations(Cache)

\* Lines of one bank are interchangeable too.
FullSymmetry == Permutations(Cache) \cup Permutations(Line)

\* ... and those the cores only load, when lx is also stored to and evicted.
LoadedAlike == Permutations(Cache) \cup Permutations(Line \ {lx})

===============================================================================
