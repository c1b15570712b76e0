----------------------------- MODULE LivenessGauge ------------------------------
(***************************************************************************)
(* How long transactions take, as the testbench measures it: the ages that *)
(* mshr_file.sv and tbe_file.sv keep for their entries, the gauge of       *)
(* probe.py that samples them and reports the worst, and the list of stuck *)
(* entries of hangdump.py.  test_stress.py measures in its main loop and   *)
(* not in the drain after it; the race tests measure to the end.           *)
(***************************************************************************)
EXTENDS Integers, FiniteSetsExt

CONSTANTS TxnFile,      \* the files: of the L1s, of the directory banks
          TxnEntry,     \* the entries of a file
          Every,        \* cycles between samples
          Threshold,    \* cycles after which an entry counts as stuck
          DrainSampled, \* the gauge is sampled in the drain as well
          Horizon       \* bound: cycles that are followed

GaugeTypes ==
    /\ TxnFile # {} /\ TxnEntry # {}
    /\ {Every, Threshold, Horizon} \subseteq Nat \ {0}
    /\ DrainSampled \in BOOLEAN

VARIABLES valid, age_q,    \* for each file and entry
          worst,           \* for each file, the worst age sampled
          n,               \* calls of sample
          phase,           \* "main", "drain" or "done"
          cycles,
          lived,           \* for each file and entry, the cycles of its last use
          peak             \* for each file, the greatest age of an entry in use

vars == <<valid, age_q, worst, n, phase, cycles, lived, peak>>

All(v) == [f \in TxnFile |-> [e \in TxnEntry |-> v]]

Init ==
    /\ valid = All(FALSE) /\ age_q = All(0)
    /\ worst = [f \in TxnFile |-> 0] /\ n = 0
    /\ phase = "main" /\ cycles = 0
    /\ lived = All(0) /\ peak = [f \in TxnFile |-> 0]

---------------------------------------------------------------------------
(* The files at a clock edge: each allocates and frees at most one entry *)

\* Faulty: the age goes on after the entry is freed.
AgeKept(f, e, used) == IF valid[f][e] \/ age_q[f][e] > 0 THEN age_q[f][e] + 1 ELSE 0

\* The age that goes with the next cycle.  used: the entry that is allocated.
Age(f, e, used) ==
    IF e \in used THEN 0 ELSE IF valid[f][e] THEN age_q[f][e] + 1 ELSE 0

\* Either choice is of no entry or of one: the free entry that is allocated,
\* the valid one that is freed.
OneOrNone(f, inUse) == {{}} \cup {{e} : e \in {x \in TxnEntry : valid[f][x] = inUse}}

Edge(used, freed) ==
    /\ valid' = [f \in TxnFile |-> [e \in TxnEntry |->
           (valid[f][e] /\ e \notin freed[f]) \/ e \in used[f]]]
    /\ age_q' = [f \in TxnFile |-> [e \in TxnEntry |-> Age(f, e, used[f])]]
    /\ lived' = [f \in TxnFile |-> [e \in TxnEntry |->
           IF e \in used[f] THEN 1
           ELSE IF valid'[f][e] THEN lived[f][e] + 1 ELSE lived[f][e]]]
    /\ peak' = [f \in TxnFile |-> Max({peak[f]} \cup {age_q'[f][e] : e \in {x \in TxnEntry : valid'[f][x]}})]

---------------------------------------------------------------------------
(* The gauge *)

\* Faulty: every sample replaces the last.
SampleLast ==
    /\ n' = n + 1
    /\ worst' = IF n' % Every # 0 THEN worst ELSE [f \in TxnFile |-> Max({age_q'[f][e] : e \in TxnEntry})]

sample ==
    /\ n' = n + 1
    /\ worst' = IF n' % Every # 0
                  THEN worst
                  ELSE [f \in TxnFile |-> Max({worst[f]} \cup {age_q'[f][e] : e \in TxnEntry})]

\* Faulty: compares the age with the threshold as if it began at one.
stuckLate == {fe \in TxnFile \X TxnEntry : age_q[fe[1]][fe[2]] > Threshold}

\* hangdump's list; it reads the ages alone.
stuck == {fe \in TxnFile \X TxnEntry : age_q[fe[1]][fe[2]] >= Threshold}

---------------------------------------------------------------------------
(* The loops around them *)

Outstanding == \E f \in TxnFile, e \in TxnEntry : valid[f][e]

Cycle(used, freed) ==
    /\ cycles < Horizon /\ cycles' = cycles + 1
    /\ \A f \in TxnFile : used[f] \in OneOrNone(f, FALSE) /\ freed[f] \in OneOrNone(f, TRUE)
    /\ Edge(used, freed)

MainLoop(used, freed) ==
    /\ phase = "main" /\ phase' = "main"
    /\ Cycle(used, freed)
    /\ sample

\* What is already in the machine may still evict, fetch and recall.
DrainLoop(used, freed) ==
    /\ phase = "drain" /\ phase' = "drain"
    /\ Cycle(used, freed)
    /\ IF DrainSampled THEN sample ELSE UNCHANGED <<n, worst>>

StopPlanning ==
    /\ phase = "main" /\ phase' = "drain"
    /\ UNCHANGED <<valid, age_q, worst, n, cycles, lived, peak>>

\* The drain ends when every request has been answered: followed to where no
\* entry is left in use either.
Report ==
    /\ phase = "drain" /\ ~Outstanding /\ phase' = "done"
    /\ UNCHANGED <<valid, age_q, worst, n, cycles, lived, peak>>

Next ==
    \/ \E used, freed \in [TxnFile -> SUBSET TxnEntry] : MainLoop(used, freed) \/ DrainLoop(used, freed)
    \/ StopPlanning
    \/ Report

Spec == Init /\ [][Next]_vars

---------------------------------------------------------------------------
(* Properties *)

\* "Sampling can miss the peak by at most `every` cycles": the worst age is
\* not further than that below the greatest age of an entry in use.
MissesAtMostEvery == \A f \in TxnFile : worst[f] >= peak[f] - Every

\* ... and is never above it by more than the cycle after the entry is freed.
AboveByOne == \A f \in TxnFile : worst[f] <= peak[f] + 1

\* "Names of every entry that has been live longer than threshold": none that
\* has is left out, and one that is named was live for that long.
StuckWereLive ==
    \A f \in TxnFile, e \in TxnEntry :
        /\ valid[f][e] /\ lived[f][e] > Threshold => <<f, e>> \in stuck
        /\ <<f, e>> \in stuck => lived[f][e] >= Threshold
\* What a test reports is what the files were: the gauge and the list of stuck
\* entries.
GaugeHonest == MissesAtMostEvery /\ AboveByOne /\ StuckWereLive

=============================================================================
