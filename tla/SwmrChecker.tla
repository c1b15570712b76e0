------------------------------ MODULE SwmrChecker ------------------------------
(***************************************************************************)
(* The single-writer checker of tb/models/coherence_checker.py: it samples *)
(* one L1 set per clock cycle through the debug bus, which shows the set   *)
(* selected in the cycle before, and sweeps the sets in turn.  The caches  *)
(* may do anything: that nothing bad escapes a sweep, and that nothing     *)
(* else is reported, must hold for every content of the arrays.            *)
(***************************************************************************)
EXTENDS Naturals, Sequences, FiniteSets

CONSTANTS Tile, CacheWay, TagVal,
          L1States,   \* the states the arrays go through, "I" among them
          Sets        \* the sets to sweep, in order

SetIdx == {Sets[i] : i \in 1 .. Len(Sets)}

SweepAssumption ==
    /\ Sets \in Seq(SetIdx) /\ Len(Sets) > 0
    /\ \A i, j \in 1 .. Len(Sets) : Sets[i] = Sets[j] => i = j
    /\ "I" \in L1States

VARIABLES array,      \* array[s][t][w]: state and tag of a way of set s in tile t
          dbg_set,    \* the set the debug bus shows
          idx,        \* the checker's place in the sweep
          violations, \* the sets and tags reported so far
          reported,   \* those of this cycle
          age         \* age[s]: how many cycles set s has been left unchanged

vars == <<array, dbg_set, idx, violations, reported, age>>

Entry == [state : L1States, tag : TagVal]

WRITERS == {"M", "E"}
READERS == {"S"}

current_set(i) == Sets[i + 1]

\* The holders of a tag in a set: the ways that are not invalid.
Holders(a, s, tg) ==
    {tw \in Tile \X CacheWay : a[s][tw[1]][tw[2]].tag = tg /\ a[s][tw[1]][tw[2]].state # "I"}

In(a, s, tg, states) == {tw \in Holders(a, s, tg) : a[s][tw[1]][tw[2]].state \in states}

\* Two writers, or a writer and a reader, of one line.
Conflict(a, s, tg) ==
    \/ Cardinality(In(a, s, tg, WRITERS)) > 1
    \/ In(a, s, tg, WRITERS) # {} /\ In(a, s, tg, READERS) # {}

Init ==
    /\ \E g \in TagVal : array = [s \in SetIdx |-> [t \in Tile |-> [w \in CacheWay |->
                                    [state |-> "I", tag |-> g]]]]
    /\ idx = 0 /\ dbg_set = current_set(0)
    /\ violations = {} /\ reported = {}
    /\ age = [s \in SetIdx |-> 0]

\* Faulty: the bus is told the set just sampled, and shows the wrong one.
ShownLate(i) == current_set(i)

\* The set driven on the bus when the sample of place i is done.
Shown(i) == current_set((i + 1) % Len(Sets))

\* Faulty: the last set of the sweep is skipped.
AdvanceShort(i) == (i + 1) % (IF Len(Sets) > 1 THEN Len(Sets) - 1 ELSE 1)

Advance(i) == (i + 1) % Len(Sets)

\* One call: what the bus shows is judged, and reported under the checker's
\* own idea of the set.
check ==
    /\ reported' = {<<current_set(idx), tg>> : tg \in {g \in TagVal : Conflict(array, dbg_set, g)}}
    /\ violations' = violations \cup reported'
    /\ idx' = Advance(idx)
    /\ dbg_set' = Shown(idx)
    /\ age' = [s \in SetIdx |-> IF age[s] < Len(Sets) THEN age[s] + 1 ELSE age[s]]
    /\ UNCHANGED array

\* Between two samples a way of some cache changes as it likes.
Change(s, t, w, e) ==
    /\ array[s][t][w] # e
    /\ array' = [array EXCEPT ![s][t][w] = e]
    /\ age' = [age EXCEPT ![s] = 0]
    /\ reported' = {}
    /\ UNCHANGED <<dbg_set, idx, violations>>

Next == check \/ \E s \in SetIdx, t \in Tile, w \in CacheWay, e \in Entry : Change(s, t, w, e)

Spec == Init /\ [][Next]_vars

---------------------------------------------------------------------------
(* Properties *)

\* No false alarm, and no wrong address: whatever is reported in a cycle is
\* a line with two owners, in the very set the report names.
ReportedTrue == \A r \in reported : Conflict(array, r[1], r[2])

\* Nothing that lasts a whole sweep escapes: a set left alone for as many
\* cycles as the sweep has sets has every conflict in it reported.
SweepFinds ==
    \A s \in SetIdx, tg \in TagVal :
        age[s] = Len(Sets) /\ Conflict(array, s, tg) => <<s, tg>> \in violations

===============================================================================
