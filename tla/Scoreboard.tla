------------------------------- MODULE Scoreboard -------------------------------
(***************************************************************************)
(* The request driver and scoreboard of tb/models/multicore.py with the    *)
(* golden memory of golden.py and the issuing helpers of raceutil.py, on   *)
(* top of a coherent machine that accepts operations, performs each at one *)
(* moment between its acceptance and its response, and responds in any     *)
(* order.  A word is a function from its bytes to values; a line has one.  *)
(* The machine may answer wrongly in a setting with faults, which is what  *)
(* the scoreboard is there to see.                                         *)
(***************************************************************************)
EXTENDS Naturals, FiniteSets

CONSTANTS Tile, Line, Byte, Val, Zero,
          Settings    \* how the driver may be used, [mode, tags, lines, words, faults]

Word == [Byte -> Val]

ZeroWord == [b \in Byte |-> Zero]

ScoreboardTypes ==
    /\ Zero \in Val /\ Byte # {}
    /\ \A s \in Settings :
        /\ s.mode \in {"checked", "racing", "directed"} /\ s.faults \in BOOLEAN
        /\ s.tags \in Nat \ {0} /\ s.lines \subseteq Line /\ s.words \subseteq Word

\* mode is "checked", "racing" (several operations on one line) or "directed"
\* (the operations of a race test); tags the tags of a tile; lines the lines in
\* use; words the stored values; and with faults the machine may return a word
\* nobody asked for.
VARIABLE setting

Mode == setting.mode

Racing == Mode = "racing"

Tag == 0 .. setting.tags - 1

\* The enables of a store: some of the bytes, or all of them.
Enables == (SUBSET Byte) \ {{}}

VARIABLES gold, free_tags, book, busy_lines, pending, offer, mismatches, plausible,
          mem, accepted, answer, wrong

driverVars == <<gold, free_tags, book, busy_lines, pending, offer, mismatches, plausible>>
machineVars == <<mem, accepted, answer, wrong>>
vars == <<setting, gold, free_tags, book, busy_lines, pending, offer, mismatches, plausible,
          mem, accepted, answer, wrong>>

\* None: no offer, no bookkeeping, no prediction, no answer yet.
None == [op |-> "none"]

Op == [op : {"LD", "ST"}, tag : Tag, line : Line, wdata : Word, be : Enables]

\* What the driver remembers of a tag in use: expected, inflight_line, load_meta.
\* Without a prediction want says nothing; plausible asks for a stored value.
Entry == [op : {"LD", "ST"}, predicted : BOOLEAN, want : Word, line : Line, plausible : BOOLEAN]


Init ==
    /\ setting \in Settings
    /\ gold = [l \in Line |-> ZeroWord]
    /\ free_tags = [t \in Tile |-> Tag]
    /\ book = [t \in Tile |-> [k \in Tag |-> None]]
    /\ busy_lines = {}
    /\ pending = [t \in Tile |-> {}]
    /\ offer = [t \in Tile |-> None]
    /\ mismatches = FALSE
    /\ plausible = [l \in Line |-> {ZeroWord}]
    /\ mem = [l \in Line |-> ZeroWord]
    /\ accepted = [t \in Tile |-> [k \in Tag |-> None]]
    /\ answer = [t \in Tile |-> [k \in Tag |-> None]]
    /\ wrong = FALSE

---------------------------------------------------------------------------
(* The golden memory *)

\* Faulty: the bytes that are not enabled are cleared.
MergedClearing(word, wdata, be) == [b \in Byte |-> IF b \in be THEN wdata[b] ELSE Zero]

Merged(word, wdata, be) == [b \in Byte |-> IF b \in be THEN wdata[b] ELSE word[b]]

load(memory, l) == memory[l]

store(memory, l, wdata, be) == [memory EXCEPT ![l] = Merged(@, wdata, be)]

---------------------------------------------------------------------------
(* The driver *)

\* Faulty: tags are numbered by how many operations are pending.
LowestFreeCounted(t) == Cardinality(pending[t]) % setting.tags

LowestFree(t) == CHOOSE k \in free_tags[t] : \A j \in free_tags[t] : k <= j

\* Faulty: the lines in flight are not looked at.
CandidatesAll == Line

Candidates == IF Racing THEN Line ELSE Line \ busy_lines

\* Faulty: byte-enabled stores in racing mode too.
StoreEnablesAny == Enables

\* Faulty: a store of no byte at all.
StoreEnablesMaybeNone == SUBSET Byte

StoreEnables == IF Racing THEN {Byte} ELSE Enables

\* The bookkeeping common to plan and issue, for the operation o of tile t.
Offer(t, o, entry) ==
    /\ free_tags' = [free_tags EXCEPT ![t] = @ \ {o.tag}]
    /\ book' = [book EXCEPT ![t][o.tag] = entry]
    /\ offer' = [offer EXCEPT ![t] = o]
    /\ UNCHANGED <<pending, mismatches, machineVars>>

plan_store(t, l, wdata, be) ==
    /\ Mode # "directed" /\ offer[t] = None /\ free_tags[t] # {}
    /\ l \in Candidates
    /\ be \in StoreEnables
    /\ busy_lines' = busy_lines \cup {l}
    /\ IF Racing
         THEN /\ plausible' = [plausible EXCEPT ![l] = @ \cup {wdata}]
              /\ UNCHANGED gold
         ELSE /\ gold' = store(gold, l, wdata, be)
              /\ UNCHANGED plausible
    /\ Offer(t, [op |-> "ST", tag |-> LowestFree(t), line |-> l, wdata |-> wdata, be |-> be],
                [op |-> "ST", predicted |-> ~Racing, want |-> load(gold', l), line |-> l,
                 plausible |-> FALSE])

plan_load(t, l) ==
    /\ Mode # "directed" /\ offer[t] = None /\ free_tags[t] # {}
    /\ l \in Candidates
    /\ busy_lines' = busy_lines \cup {l}
    /\ Offer(t, [op |-> "LD", tag |-> LowestFree(t), line |-> l, wdata |-> ZeroWord, be |-> Byte],
                [op |-> "LD", predicted |-> ~Racing, want |-> load(gold, l), line |-> l,
                 plausible |-> Racing])
    /\ UNCHANGED <<gold, plausible>>

\* raceutil.issue: an operation of a directed race, with no prediction and
\* no claim on its line; its value is one the test chose.
issue(t, op, l, wdata) ==
    /\ Mode = "directed"
    /\ offer[t] = None /\ free_tags[t] # {}
    /\ Offer(t, [op |-> op, tag |-> LowestFree(t), line |-> l, wdata |-> wdata, be |-> Byte],
                [op |-> op, predicted |-> FALSE, want |-> ZeroWord, line |-> l,
                 plausible |-> FALSE])
    /\ UNCHANGED <<gold, plausible, busy_lines>>

\* The machine was ready: the offer is taken at the next edge.
drive(t) ==
    /\ offer[t] # None
    /\ pending' = [pending EXCEPT ![t] = @ \cup {offer[t].tag}]
    /\ accepted' = [accepted EXCEPT ![t][offer[t].tag] = offer[t]]
    /\ offer' = [offer EXCEPT ![t] = None]
    /\ UNCHANGED <<gold, free_tags, book, busy_lines, mismatches, plausible, mem, answer, wrong>>

\* Faulty: the line is released when any operation on the tile is done.
StillBusyNone(e) == {}

StillBusy(e) == busy_lines \ {e.line}

_collect(t, k) ==
    LET e == book[t][k]
        got == answer[t][k].word
    IN  /\ answer[t][k] # None
        /\ pending' = [pending EXCEPT ![t] = @ \ {k}]
        /\ book' = [book EXCEPT ![t][k] = None]
        /\ busy_lines' = StillBusy(e)
        /\ free_tags' = [free_tags EXCEPT ![t] = @ \cup {k}]
        /\ mismatches' = \/ mismatches
                         \/ e.plausible /\ got \notin plausible[e.line]
                         \/ e.predicted /\ got # e.want
        /\ answer' = [answer EXCEPT ![t][k] = None]
        /\ wrong' = (wrong \/ answer[t][k].bad)
        /\ UNCHANGED <<gold, offer, plausible, mem, accepted>>

outstanding == Cardinality({t \in Tile : offer[t] # None}) +
               Cardinality({p \in Tile \X Tag : p[2] \in pending[p[1]]})

\* raceutil.wait_done: what it takes for the end of an operation.
Done(t, k) == k \notin pending[t] /\ offer[t] = None

---------------------------------------------------------------------------
(* The machine *)

\* l1_cache's s1_merged: the enabled bytes of the store, the others as they were.
Written(o) == [b \in Byte |-> IF o.op = "ST" /\ b \in o.be THEN o.wdata[b] ELSE mem[o.line][b]]

perform(t, k) ==
    LET o == accepted[t][k] IN
    /\ o # None
    /\ mem' = [mem EXCEPT ![o.line] = Written(o)]
    /\ accepted' = [accepted EXCEPT ![t][k] = None]
    /\ \/ answer' = [answer EXCEPT ![t][k] = [op |-> "done", word |-> Written(o), bad |-> FALSE]]
       \/ /\ setting.faults
          /\ \E w \in Word \ {Written(o)} :
               answer' = [answer EXCEPT ![t][k] = [op |-> "done", word |-> w, bad |-> TRUE]]
    /\ UNCHANGED <<driverVars, wrong>>

---------------------------------------------------------------------------
Next ==
    /\ UNCHANGED setting
    /\ \E t \in Tile :
        \/ \E l \in setting.lines, w \in setting.words, be \in SUBSET Byte : plan_store(t, l, w, be)
        \/ \E l \in setting.lines : plan_load(t, l)
        \/ \E l \in setting.lines, op \in {"LD", "ST"}, w \in setting.words : issue(t, op, l, w)
        \/ drive(t)
        \/ \E k \in Tag : perform(t, k) \/ _collect(t, k)

Spec == Init /\ [][Next]_vars

---------------------------------------------------------------------------
(* Properties *)

\* Every variable of the driver keeps its type.
TypeOK ==
    /\ gold \in [Line -> Word]
    /\ mem \in [Line -> Word]
    /\ busy_lines \subseteq Line
    /\ mismatches \in BOOLEAN
    /\ \A t \in Tile :
        /\ free_tags[t] \subseteq Tag /\ pending[t] \subseteq Tag
        /\ offer[t] = None \/ offer[t] \in Op
        /\ \A k \in Tag : book[t][k] = None \/ book[t][k] \in Entry

\* A tag is free, offered or pending, exactly one of them, and the driver has
\* its bookkeeping exactly while it is not free: no response meets a tag that
\* was never issued, and wait_done never returns before the response.
TagsInOnePlace ==
    \A t \in Tile, k \in Tag :
        /\ k \in free_tags[t] <=> book[t][k] = None
        /\ k \in free_tags[t] => k \notin pending[t] /\ (offer[t] # None => offer[t].tag # k)
        /\ k \notin free_tags[t] => ((k \in pending[t]) # (offer[t] # None /\ offer[t].tag = k))
        /\ accepted[t][k] # None \/ answer[t][k] # None => k \in pending[t]
        /\ book[t][k] # None => ~Done(t, k)

\* In the checked mode a line is busy exactly when one operation, and one
\* only, is in flight on it (multicore.py: per-line exclusivity).
OneOperationPerLine ==
    Mode = "checked" => \A l \in Line :
        Cardinality({p \in Tile \X Tag : book[p[1]][p[2]] # None /\ book[p[1]][p[2]].line = l})
            = (IF l \in busy_lines THEN 1 ELSE 0)

\* ... so that the golden memory is the machine's memory on every line that
\* is not busy, without knowing the order the machine chose.
GoldenIsMachine == Mode = "checked" => \A l \in Line \ busy_lines : gold[l] = mem[l]

\* In the checked mode the scoreboard complains if and only if a response was
\* wrong; with racing operations it still never complains of a right one.
AlarmsSound ==
    /\ mismatches => wrong
    /\ Mode = "checked" /\ wrong => mismatches

\* What the checks of the tests rest on: tags, busy lines and the prediction.
BookKept == TypeOK /\ TagsInOnePlace /\ OneOperationPerLine /\ GoldenIsMachine

===============================================================================
