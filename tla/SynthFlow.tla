------------------------------- MODULE SynthFlow --------------------------------
(***************************************************************************)
(* The open synthesis flow, syn/yosys/oss_synth.py: a cached conversion of *)
(* the sources, then one yosys run and one timing analysis for each target *)
(* period, and a search for the shortest period that closes.  One block    *)
(* with one library and corner, invoked any number of times, so that every *)
(* run writes the same output directory.  yosys, sv2v and OpenSTA are      *)
(* external: they may fail, and be killed at any of their steps.           *)
(***************************************************************************)
EXTENDS Integers

CONSTANTS Version,          \* contents of the RTL sources
          HasArrays,        \* the block instantiates an array
          StaInstalled,     \* OpenSTA is on the path
          Period,           \* --period
          SweepLo, SweepHi, SweepSteps, SweepResolution,
          Shortest,         \* possible shortest periods at which the block closes
          Modes,            \* invocations with --sweep, without
          Srams,            \* the values of --sram in use
          Invocations,      \* bound: how often the flow is invoked
          Edits,            \* the sources may change during an invocation
          Interrupts        \* an invocation may be interrupted

SynthFlowTypes ==
    /\ SweepLo \in Nat /\ SweepHi \in Nat /\ SweepLo < SweepHi
    /\ SweepSteps \in Nat \ {0} /\ SweepResolution \in Nat \ {0} /\ Period \in Nat
    /\ Shortest \subseteq Nat
    /\ Modes \subseteq BOOLEAN /\ Srams \subseteq {"blackbox", "flops"}
    /\ Invocations \in Nat
    /\ {HasArrays, StaInstalled, Edits, Interrupts} \subseteq BOOLEAN

\* Arithmetic the provers lack: the scale is halved down to one.
PowersOfTwo ==
    /\ 2 ^ 0 = 1
    /\ \A k \in 0 .. SweepSteps : 2 ^ k \in Nat \ {0}
    /\ \A k \in 0 .. SweepSteps - 1 : 2 ^ (k + 1) = 2 * (2 ^ k)

Sram == {"blackbox", "flops"}
Effort == {"high", "low"}

VARIABLES rtl,        \* the sources on disk
          shortest,   \* for each effort, the shortest period that closes
          cache,      \* .work: from the hash of the sources to the Verilog
          outdir,     \* the block's files: premap, netlist, boxes, summary
          pc, args, key, design, res,
          lo, hi, steps, best,
          runs,       \* what this invocation has measured so far
          outcome,    \* how the last invocation ended
          invocations

files == <<rtl, shortest, cache, outdir, invocations>>
search == <<lo, hi, steps, best, runs>>
vars == <<rtl, shortest, cache, outdir, pc, args, key, design, res,
          lo, hi, steps, best, runs, outcome, invocations>>

None == [of |-> "none"]

\* Sources by the way arrays are treated; the hash tells them apart.
Key == [sram : Sram, version : Version]

Verilog == [of : {"verilog"}, sram : Sram, version : Version, whole : BOOLEAN]

\* A run is known by what it was given.
Run == [of : {"run"}, design : Verilog, period : Nat, effort : Effort]

\* The period at which a run is to close, kept as a multiple of 1/Scale.
Scale == 2 ^ SweepSteps

\* Python's round: to the nearest, a half to the even one.
Round(x) ==
    LET whole == x \div Scale
        rest  == 2 * (x % Scale)
    IN  IF rest > Scale \/ (rest = Scale /\ whole % 2 = 1) THEN whole + 1 ELSE whole

NoArgs == [sram |-> "blackbox", sweep |-> FALSE, effort |-> "high"]

Init ==
    /\ rtl \in Version
    /\ shortest \in [Effort -> Shortest]
    /\ shortest["high"] <= shortest["low"]
    /\ cache = [k \in Key |-> None]
    /\ outdir = [premap |-> None, netlist |-> None, boxes |-> None, summary |-> None]
    /\ pc = "idle" /\ args = NoArgs /\ outcome = "none"
    /\ key = [sram |-> "blackbox", version |-> rtl]
    /\ design = None /\ res = None
    /\ lo = SweepLo * Scale /\ hi = SweepHi * Scale /\ steps = 0 /\ best = None
    /\ runs = {} /\ invocations = 0

\* The end of an invocation: nothing of the process is left, the files are.
Ends(how) ==
    /\ pc' = "idle" /\ outcome' = how
    /\ args' = NoArgs /\ design' = None /\ res' = None
    /\ key' = [sram |-> "blackbox", version |-> CHOOSE v \in Version : TRUE]
    /\ lo' = SweepLo * Scale /\ hi' = SweepHi * Scale /\ steps' = 0 /\ best' = None
    /\ runs' = {}

---------------------------------------------------------------------------
(* The conversion *)

\* main, rtl_sources and the hashing in sv2v_convert.
Start(sram, sweep, effort) ==
    /\ pc = "idle" /\ invocations < Invocations
    /\ invocations' = invocations + 1
    /\ args' = [sram |-> sram, sweep |-> sweep, effort |-> effort]
    /\ key' = [sram |-> sram, version |-> rtl]
    /\ outcome' = "running"
    /\ pc' = "convert"
    /\ UNCHANGED <<rtl, shortest, cache, outdir, design, res, search>>

Cached ==
    /\ pc = "convert" /\ cache[key] # None
    /\ design' = cache[key]
    /\ pc' = "synth"
    /\ UNCHANGED <<files, args, key, res, search, outcome>>

\* sv2v reads the sources and opens its output.
Sv2vOpens ==
    /\ pc = "convert" /\ cache[key] = None
    /\ cache' = [cache EXCEPT ![key] =
           [of |-> "verilog", sram |-> args.sram, version |-> rtl, whole |-> FALSE]]
    /\ pc' = "converting"
    /\ UNCHANGED <<rtl, shortest, outdir, invocations, args, key, design, res, search, outcome>>

Sv2vFails ==
    /\ pc = "convert" /\ cache[key] = None
    /\ Ends("failed")
    /\ UNCHANGED files

Sv2vCloses ==
    /\ pc = "converting"
    /\ cache' = [cache EXCEPT ![key].whole = TRUE]
    /\ design' = cache'[key]
    /\ pc' = "synth"
    /\ UNCHANGED <<rtl, shortest, outdir, invocations, args, key, res, search, outcome>>

---------------------------------------------------------------------------
(* One run *)

\* Faulty: the sum is not halved.
midSum == lo + hi

mid == (lo + hi) \div 2

Target == IF args.sweep THEN Round(mid) ELSE Period

\* Faulty: the script on disk is the one of the attempt before.
ScriptKept == [of |-> "run", design |-> design, period |-> Target, effort |-> "high"]

\* yosys_script: what the run is told to do.
Script == [of |-> "run", design |-> design, period |-> Target, effort |-> args.effort]

\* The netlist has black boxes, to be named and given a Liberty: the script
\* marks the arrays, stubs or not.
Boxed == HasArrays

\* What yosys leaves in the output directory if it gets as far as stage: the
\* flop count first, the netlist near the end.
AfterStage(stage) ==
    [outdir EXCEPT !.premap = IF stage >= 1 THEN Script ELSE @,
                   !.netlist = IF stage >= 2 THEN Script ELSE @]

Synthesised ==
    /\ pc = "synth"
    /\ outdir' = AfterStage(2)
    /\ pc' = "boxes"
    /\ UNCHANGED <<rtl, shortest, cache, invocations, args, key, design, res, search, outcome>>

\* yosys reports an error, of which the flow makes its own.
YosysFails(stage) ==
    /\ pc = "synth"
    /\ outdir' = AfterStage(stage)
    /\ Ends("failed")
    /\ UNCHANGED <<rtl, shortest, cache, invocations>>

\* yosys is killed: once, and for the rest of the invocation, with less effort.
YosysKilled(stage) ==
    /\ pc = "synth"
    /\ outdir' = AfterStage(stage)
    /\ IF args.effort = "high"
         THEN /\ args' = [args EXCEPT !.effort = "low"]
              /\ UNCHANGED <<pc, key, design, res, search, outcome>>
         ELSE Ends("failed")
    /\ UNCHANGED <<rtl, shortest, cache, invocations>>

\* blackbox_lib.py: every parameterised instance left in the netlist is renamed
\* after its parameters and given a cell of that name, with the pins and widths
\* the parameters imply; a netlist without one leaves a Liberty of before alone.
BoxesAfter == IF Boxed THEN outdir.netlist ELSE outdir.boxes

blackbox_liberty ==
    /\ pc = "boxes"
    /\ outdir' = [outdir EXCEPT !.boxes = BoxesAfter]
    /\ pc' = "sta"
    /\ UNCHANGED <<rtl, shortest, cache, invocations, args, key, design, res, search, outcome>>

\* The run's summary; without a timing analysis, or when its report has no
\* slack, slack is "none".
Summary(slack) ==
    [of |-> "summary", target |-> Target, sram |-> args.sram, effort |-> args.effort,
     flops |-> outdir.premap, cells |-> outdir.netlist, timed |-> outdir.netlist,
     boxes |-> outdir.boxes, slack |-> slack]

Slack == IF outdir.netlist.period >= shortest[outdir.netlist.effort] THEN "met" ELSE "violated"

opensta ==
    /\ pc = "sta"
    /\ \E slack \in IF StaInstalled THEN {Slack, "none"} ELSE {"none"} :
           res' = Summary(slack)
    /\ pc' = IF args.sweep THEN "judge" ELSE "save"
    /\ UNCHANGED <<files, args, key, design, search, outcome>>

\* The report says that the library has no timing for its cells.
LibraryBlind ==
    /\ pc = "sta" /\ StaInstalled
    /\ Ends("failed")
    /\ UNCHANGED files

---------------------------------------------------------------------------
(* The search *)

Closes == res.slack = "met"

\* Faulty: the bracket keeps its upper end.
NewHiKept == hi

NewHi == IF Closes THEN mid ELSE hi

NewLo == IF Closes THEN lo ELSE mid

\* Faulty: the last run is the answer.
NewBestLast == res

NewBest == IF Closes THEN res ELSE best

SweepOver == steps' = SweepSteps \/ hi' - lo' < SweepResolution * Scale

\* The line that reports a step cannot format a slack that is not there.
SlackMissing ==
    /\ pc = "judge" /\ res.slack = "none"
    /\ Ends("exception")
    /\ UNCHANGED files

sweep_step ==
    /\ pc = "judge" /\ res.slack # "none"
    /\ steps' = steps + 1
    /\ hi' = NewHi /\ lo' = NewLo /\ best' = NewBest
    /\ runs' = runs \cup {[period |-> res.target, effort |-> res.effort, ok |-> Closes]}
    /\ pc' = IF SweepOver THEN "answer" ELSE "synth"
    /\ UNCHANGED <<files, args, key, design, res, outcome>>

Refuse ==
    /\ pc = "answer" /\ best = None
    /\ Ends("refused")
    /\ UNCHANGED files

Answer ==
    /\ pc = "answer" /\ best # None
    /\ res' = best
    /\ pc' = "save"
    /\ UNCHANGED <<files, args, key, design, search, outcome>>

Save ==
    /\ pc = "save"
    /\ outdir' = [outdir EXCEPT !.summary = res]
    /\ Ends("reported")
    /\ UNCHANGED <<rtl, shortest, cache, invocations>>

---------------------------------------------------------------------------
(* The people around it *)

Edit ==
    /\ Edits
    /\ rtl' \in Version \ {rtl}
    /\ UNCHANGED <<shortest, cache, outdir, invocations, pc, args, key, design, res, search, outcome>>

Interrupt ==
    /\ Interrupts /\ pc # "idle"
    /\ Ends("interrupted")
    /\ UNCHANGED files

Next ==
    \/ \E sram \in Srams, sweep \in Modes, effort \in Effort : Start(sram, sweep, effort)
    \/ Cached \/ Sv2vOpens \/ Sv2vFails \/ Sv2vCloses
    \/ Synthesised
    \/ \E stage \in 0 .. 2 : YosysFails(stage) \/ YosysKilled(stage)
    \/ blackbox_liberty \/ opensta \/ LibraryBlind
    \/ SlackMissing \/ sweep_step \/ Refuse \/ Answer \/ Save
    \/ Edit \/ Interrupt

Spec == Init /\ [][Next]_vars

---------------------------------------------------------------------------
(* Properties *)

\* The files, the search and the process keep their types.
TypeOK ==
    /\ rtl \in Version
    /\ \A k \in Key : cache[k] = None \/ cache[k] \in Verilog
    /\ outdir.premap = None \/ outdir.premap \in Run
    /\ outdir.netlist = None \/ outdir.netlist \in Run
    /\ outdir.boxes = None \/ outdir.boxes \in Run
    /\ args \in [sram : Sram, sweep : BOOLEAN, effort : Effort]
    /\ SweepLo * Scale <= lo /\ lo < hi /\ hi <= SweepHi * Scale
    /\ steps \in 0 .. SweepSteps

\* The numbers of a summary come from one run, the one its labels describe,
\* whatever runs failed, were killed or were repeated in the same directory.
SummaryOfOneRun ==
    outdir.summary # None =>
        LET s == outdir.summary IN
        /\ s.flops = s.cells /\ s.timed = s.cells
        /\ s.boxes = IF Boxed THEN s.cells ELSE None
        /\ s.cells.period = s.target /\ s.cells.effort = s.effort
        /\ s.cells.design.sram = s.sram

\* The upper end of the bracket is a period that closed, and the best result
\* is that run's; the lower end is one that did not.
BracketKept ==
    pc \in {"synth", "boxes", "sta", "judge", "answer"} /\ args.sweep =>
        /\ hi = SweepHi * Scale <=> best = None
        /\ best # None => /\ best.target = Round(hi)
                          /\ best.slack = "met"
        /\ lo # SweepLo * Scale => \E r \in runs : r.period = Round(lo) /\ ~r.ok

\* How far above the shortest period that closes the answer may be.
Tolerance ==
    LET width == ((SweepHi - SweepLo) * Scale) \div 2 ^ SweepSteps
    IN  IF width < SweepResolution * Scale THEN SweepResolution + 1 ELSE (width \div Scale) + 2

NearShortest(s) ==
    LET p == shortest[s.effort] IN
    p > SweepLo => s.target >= p /\ s.target - p < Tolerance

\* "Find the shortest period that still closes": an answer closes and is not
\* far above the shortest period that does, if every run of the sweep had the
\* effort it is labelled with.
AnswerShortestOneEffort ==
    pc = "save" /\ args.sweep /\ (\A r \in runs : r.effort = res.effort) => NearShortest(res)


===============================================================================
