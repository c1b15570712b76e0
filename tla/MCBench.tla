-------------------------------- MODULE MCBench --------------------------------
(***************************************************************************)
(* The small machines around the design, checked in one run: the arbiter   *)
(* every component uses, what the testbench rests on (its tables, codecs,  *)
(* address arithmetic, gauge, checker and scoreboard), and the scripts of  *)
(* the flow.  They share nothing: a behaviour is one of one of them, and   *)
(* `part` says of which.  The variables of the others are off.             *)
(***************************************************************************)
EXTENDS RrFair, TLC

CONSTANTS \* FlitCodec
          NumPorts, PayloadWidth,
          \* AddressDecode
          Set, AddrTag, AddrWord, MaxHeld,
          \* LivenessGauge
          TxnFile, TxnEntry, Every, Threshold, DrainSampled, Horizon,
          \* SwmrChecker
          Tile, CacheWay, TagVal, L1States, Sets, s1, s2,
          \* Scoreboard
          Line, Byte, Val, Zero, Settings, l1, l2,
          \* SynthFlow
          Version, HasArrays, StaInstalled, Period, SweepLo, SweepHi, SweepSteps,
          SweepResolution, Shortest, Modes, Srams, Invocations, Edits, Interrupts,
          \* MergeLib
          CRITICAL, Value, Kind, Name, NumFiles, MaxGroups,
          \* MutationRun
          Source, Mutation, Sites(_, _), Signals, f1, f2, w2

VARIABLES part,
          machine, state, event,
          flits, word,
          tag_q, holds, put, asked,
          valid, age_q, worst, n, phase, cycles, lived, peak,
          array, dbg_set, idx, violations, reported, age,
          setting, gold, free_tags, book, busy_lines, pending, offer, mismatches,
          plausible, mem, accepted, answer, wrong,
          rtl, shortest, cache, outdir, args, key, design, res, lo, hi, steps, best, runs,
          outcome, invocations,
          inputs, file, group, seen, support, cells,
          head, tree, todo, original, backup, verdict, results, foreign, signal,
          pc      \* of whichever script runs

Tables == INSTANCE TableTests
Flits == INSTANCE FlitCodec
Address == INSTANCE AddressDecode
Gauge == INSTANCE LivenessGauge
Swmr == INSTANCE SwmrChecker
Score == INSTANCE Scoreboard
Synth == INSTANCE SynthFlow
Merge == INSTANCE MergeLib
Mutate == INSTANCE MutationRun WITH passed <- verdict

ASSUME BenchTypes ==
    /\ Flits!FlitCodecTypes /\ Address!AddressDecodeTypes /\ Gauge!GaugeTypes
    /\ Swmr!SweepAssumption /\ Score!ScoreboardTypes /\ Synth!SynthFlowTypes
    /\ Merge!MergeLibTypes /\ Mutate!MutationRunTypes

ASSUME BenchPowers == Synth!PowersOfTwo

---------------------------------------------------------------------------
(* Values of the constants *)

TwoSets == <<s1, s2>>

\* Two lines and two tags with no race on a line, one line with races, and the
\* directed tests' one line with two operations of a tile.
ThreeUses ==
    {[mode |-> "checked", tags |-> 2, lines |-> {l1, l2}, words |-> [Byte -> Val], faults |-> TRUE]}
    \cup
    UNION {{[mode |-> "racing", tags |-> 1, lines |-> {l}, words |-> [Byte -> Val], faults |-> TRUE],
            [mode |-> "directed", tags |-> 2, lines |-> {l}, faults |-> FALSE,
             words |-> {[b \in Byte |-> v] : v \in Val}]} : l \in Line}

\* Inside the bracket and at its end.
Thresholds == {9, 17}

TableKinds == {"lu_table_template", "power_lut_template"}

\* Two mutations of one file, one of another; a version without the second's site.
Three == <<[name |-> "m1", file |-> f1], [name |-> "m2", file |-> f1], [name |-> "m3", file |-> f2]>>

Counts(name, version) == IF name = "m2" /\ version = w2 THEN 0 ELSE 1

\* A user who interrupts, and one whose machine may end the script anywhere.
MildOrHarsh == {{"interrupt"}, {"interrupt", "late", "terminate"}}

Alike == Permutations(Tile) \cup Permutations(TagVal) \cup Permutations(Line) \cup
         Permutations(Value)

---------------------------------------------------------------------------
Scripts == {"synth", "merge", "mutate"}

Parts == {"arbiter", "tables", "flits", "address", "gauge", "swmr", "scoreboard"} \cup Scripts

Off == "off"

BenchInit ==
    /\ part \in Parts
    /\ Init
    /\ IF part = "tables" THEN Tables!Init
         ELSE machine = Off /\ state = Off /\ event = Off
    /\ IF part = "flits" THEN Flits!Init ELSE flits = Off /\ word = Off
    /\ IF part = "address" THEN Address!Init
         ELSE tag_q = Off /\ holds = Off /\ put = Off /\ asked = Off
    /\ IF part = "gauge" THEN Gauge!Init
         ELSE /\ valid = Off /\ age_q = Off /\ worst = Off /\ n = Off
              /\ phase = Off /\ cycles = Off /\ lived = Off /\ peak = Off
    /\ IF part = "swmr" THEN Swmr!Init
         ELSE /\ array = Off /\ dbg_set = Off /\ idx = Off
              /\ violations = Off /\ reported = Off /\ age = Off
    /\ IF part = "scoreboard" THEN Score!Init
         ELSE /\ setting = Off /\ gold = Off /\ free_tags = Off /\ book = Off
              /\ busy_lines = Off /\ pending = Off /\ offer = Off /\ mismatches = Off
              /\ plausible = Off /\ mem = Off /\ accepted = Off /\ answer = Off /\ wrong = Off
    /\ IF part = "synth" THEN Synth!Init
         ELSE /\ rtl = Off /\ shortest = Off /\ cache = Off /\ outdir = Off /\ args = Off
              /\ key = Off /\ design = Off /\ res = Off /\ lo = Off /\ hi = Off /\ steps = Off
              /\ best = Off /\ runs = Off /\ outcome = Off /\ invocations = Off
    /\ IF part = "merge" THEN Merge!Init
         ELSE /\ inputs = Off /\ file = Off /\ group = Off /\ seen = Off
              /\ support = Off /\ cells = Off
    /\ IF part = "mutate" THEN Mutate!Init
         ELSE /\ head = Off /\ tree = Off /\ todo = Off /\ original = Off /\ backup = Off
              /\ verdict = Off /\ results = Off /\ foreign = Off /\ signal = Off
    /\ IF part \in Scripts THEN TRUE ELSE pc = Off

Only(p, v) == IF part = p THEN TRUE ELSE UNCHANGED v

\* The other parts stay as they are.
OthersOff ==
    /\ UNCHANGED part
    /\ Only("arbiter", <<ptr, req, passed>>)
    /\ Only("tables", <<machine, state, event>>)
    /\ Only("flits", <<flits, word>>)
    /\ Only("address", <<tag_q, holds, put, asked>>)
    /\ Only("gauge", <<valid, age_q, worst, n, phase, cycles, lived, peak>>)
    /\ Only("swmr", <<array, dbg_set, idx, violations, reported, age>>)
    /\ Only("scoreboard", <<setting, gold, free_tags, book, busy_lines, pending, offer,
                            mismatches, plausible, mem, accepted, answer, wrong>>)
    /\ Only("synth", <<rtl, shortest, cache, outdir, args, key, design, res, lo, hi, steps,
                       best, runs, outcome, invocations>>)
    /\ Only("merge", <<inputs, file, group, seen, support, cells>>)
    /\ Only("mutate", <<head, tree, todo, original, backup, verdict, results, foreign, signal>>)
    /\ IF part \in Scripts THEN TRUE ELSE UNCHANGED pc

BenchNext ==
    \/ part = "arbiter" /\ Next /\ OthersOff
    \/ part = "tables" /\ Tables!Next /\ OthersOff
    \/ part = "flits" /\ Flits!Next /\ OthersOff
    \/ part = "address" /\ Address!Next /\ OthersOff
    \/ part = "gauge" /\ Gauge!Next /\ OthersOff
    \/ part = "swmr" /\ Swmr!Next /\ OthersOff
    \/ part = "scoreboard" /\ Score!Next /\ OthersOff
    \/ part = "synth" /\ Synth!Next /\ OthersOff
    \/ part = "merge" /\ Merge!Next /\ OthersOff
    \/ part = "mutate" /\ Mutate!Next /\ OthersOff

allVars == <<part, ptr, req, passed, machine, state, event, flits, word, tag_q, holds, put, asked,
             valid, age_q, worst, n, phase, cycles, lived, peak,
             array, dbg_set, idx, violations, reported, age,
             setting, gold, free_tags, book, busy_lines, pending, offer, mismatches,
             plausible, mem, accepted, answer, wrong,
             rtl, shortest, cache, outdir, args, key, design, res, lo, hi, steps, best, runs,
             outcome, invocations, inputs, file, group, seen, support, cells,
             head, tree, todo, original, backup, verdict, results, foreign, signal, pc>>

BenchSpec == BenchInit /\ [][BenchNext]_allVars

---------------------------------------------------------------------------
(* Properties *)

\* What the testbench writes down a second time says what the design says: the
\* protocol tables cell by cell, the flit's fields and the ports' order on a
\* vector, and where in the L1s the line of an address is.
TranscriptionsAgree ==
    /\ part = "tables" => Tables!L1TablesAgree /\ Tables!DirTablesAgree
    /\ part = "flits" => Flits!SameWires /\ Flits!SameFlits
    /\ part = "address" => Address!ShownIffHeld /\ Address!PutNamesHeld /\ Address!PlacedAsChosen

\* "Sampling can miss the peak by at most `every` cycles", and hangdump names
\* every entry that is stuck and none that is not.
GaugeHonest == part = "gauge" => Gauge!GaugeHonest

\* The single-writer checker reports only true conflicts, and each that lasts a
\* whole sweep of the sets.
SweepSound == part = "swmr" => Swmr!SweepFinds /\ Swmr!ReportedTrue

\* The scoreboard complains of wrong responses only, and of every one when one
\* operation at a time is on a line; tags, busy lines and predictions are why.
AlarmsSound == part = "scoreboard" => Score!AlarmsSound /\ Score!BookKept

\* A summary reports one run with its own labels, and a sweep's answer is close
\* to the shortest period that closes, whatever was killed, failed or edited.
FlowSound ==
    part = "synth" => /\ Synth!TypeOK /\ Synth!SummaryOfOneRun
                      /\ Synth!BracketKept /\ Synth!AnswerShortestOneEffort

\* A merged library has all cells, each declaration once, and every table used.
MergeSound == part = "merge" => Merge!MergedWhole /\ Merge!OwnTables

\* However a run of the mutations is interrupted, the tree is left clean, and
\* no test ran with two mutations at once.
TreeKept == part = "mutate" => Mutate!TreeKept

\* ... and killed wherever it may be, what is lost git has.
RestorableFromGit == [][part = "mutate" => Mutate!MutatesCommitted]_allVars
===============================================================================
