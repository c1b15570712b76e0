------------------------------- MODULE Scenarios -------------------------------
(***************************************************************************)
(* The directed scenarios of tb/models/scenarios.py, run on Coherence with *)
(* every timing the network can produce.  A script is the sequence of what *)
(* a scenario does: an operation waited for (do_op), one only offered      *)
(* (raceutil.issue), a wait for it or for a state, a look at the states    *)
(* the caches show (state_of), a hold on a tile's requests, and a store    *)
(* into the golden memory alone.                                           *)
(* All lines of a script fall into one L1 set of L1Ways ways.              *)
(***************************************************************************)
EXTENDS Coherence

CONSTANTS L1Ways,
          Scripts      \* the scenarios: sequences of instructions

VARIABLES script, pc,
          offer,       \* offer[c]: the operation core c is asked for
          gold,        \* the golden memory
          mru,         \* mru[c]: the line core c used last
          held,        \* tiles whose VN0 messages the delay hook holds
          way,         \* way[l]: the L2 way of a resident line, 0 if none
          failed       \* an assertion of the scenario or of do_op fired

driver == <<script, pc, offer, gold, mru, held, way, failed>>
all == <<vars, driver>>

NoOffer == [op |-> "none"]

cur == script[pc]

Running(what) == pc <= Len(script) /\ cur.do \in what

\* The states the debug bus shows: an evicting line's is not in the array.
state_of(c, l) == IF mshr[c][l].op = "EV" THEN "I" ELSE l1[c][l]

ScriptInit ==
    /\ Init
    /\ script \in Scripts /\ pc = 1
    /\ offer = [c \in Cache |-> NoOffer]
    /\ gold = [l \in Line |-> 0]
    /\ mru = [c \in Cache |-> None]
    /\ held = {}
    /\ way = [l \in Line |-> 0]
    /\ failed = FALSE

---------------------------------------------------------------------------
(* The script *)

\* do_op and issue: do_op predicts the result from the golden memory, and so
\* does a scenario that counts the VN0 messages of the operation itself.
Ask ==
    /\ Running({"op", "silent", "issue"})
    /\ offer[cur.tile] = NoOffer
    /\ LET predicted == cur.do # "issue"
           stores == predicted /\ cur.op = "ST"
       IN  /\ gold' = IF stores THEN [gold EXCEPT ![cur.line] = Next1(@)] ELSE gold
           /\ offer' = [offer EXCEPT ![cur.tile] =
                          [op |-> cur.op, line |-> cur.line, started |-> FALSE,
                           predicted |-> predicted, silent |-> cur.do = "silent",
                           want |-> gold'[cur.line]]]
    /\ pc' = pc + 1
    /\ UNCHANGED <<vars, script, mru, held, way, failed>>

\* do_op, wait_done and wait_quiet return when nothing is asked of the cores
\* they wait for; the script asks for nothing else meanwhile.
Wait ==
    /\ Running({"done"})
    /\ \A c \in cur.tiles : offer[c] = NoOffer
    /\ pc' = pc + 1
    /\ UNCHANGED <<vars, script, offer, gold, mru, held, way, failed>>

\* Faulty: the state is read where the debug bus reads it, in the tag array.
WaitStateShown ==
    /\ Running({"see"})
    /\ state_of(cur.tile, cur.line) = cur.state
    /\ pc' = pc + 1
    /\ UNCHANGED <<vars, script, offer, gold, mru, held, way, failed>>

\* wait_for(l1_state_in_mshr = state).
WaitState ==
    /\ Running({"see"})
    /\ mshr[cur.tile][cur.line].op = "EV" /\ l1[cur.tile][cur.line] = cur.state
    /\ pc' = pc + 1
    /\ UNCHANGED <<vars, script, offer, gold, mru, held, way, failed>>

\* Assertions on the states of the caches, at any moment after what precedes:
\* the clock cycles a scenario lets pass before it looks are one possibility.
Look ==
    /\ Running({"look"})
    /\ failed' = (failed \/ \E c \in DOMAIN cur.states : state_of(c, cur.line) # cur.states[c])
    /\ pc' = pc + 1
    /\ UNCHANGED <<vars, script, offer, gold, mru, held, way>>

\* drv.gold.store after a race: the value of the one store that was issued.
Settle ==
    /\ Running({"gold"})
    /\ gold' = [gold EXCEPT ![cur.line] = Next1(@)]
    /\ pc' = pc + 1
    /\ UNCHANGED <<vars, script, offer, mru, held, way, failed>>

\* delay.set_vn0 and delay.clear.
Hold ==
    /\ Running({"hold", "clear"})
    /\ held' = IF cur.do = "hold" THEN held \cup {cur.tile} ELSE {}
    /\ pc' = pc + 1
    /\ UNCHANGED <<vars, script, offer, gold, mru, way, failed>>

\* A hold is a number of clock cycles.  It is chosen to last until the state
\* the script waits for is seen, and may run out at any time after.
Expire ==
    /\ held # {} /\ \A i \in pc .. Len(script) : script[i].do # "see"
    /\ held' = {}
    /\ UNCHANGED <<vars, script, pc, offer, gold, mru, way, failed>>

---------------------------------------------------------------------------
(* The cores, with the replacement of the L1 set *)

Held(c) == {l \in Line : state_of(c, l) # "I"}

Misses(c) == state_of(c, offer[c].line) = "I"

Asked(c) == offer[c] # NoOffer /\ ~offer[c].started

Answer(c, v) ==
    /\ offer' = [offer EXCEPT ![c] = NoOffer]
    /\ failed' = (failed \/ (offer[c].predicted /\ v # offer[c].want))
    /\ mru' = [mru EXCEPT ![c] = offer[c].line]

LoadHit(c) ==
    /\ Asked(c) /\ offer[c].op = "LD" /\ Readable(c, offer[c].line)
    /\ Answer(c, copy[c][offer[c].line])
    /\ UNCHANGED <<vars, script, pc, gold, held, way>>

StoreHits(c) ==
    /\ Asked(c) /\ offer[c].op = "ST"
    /\ StoreHit(c, offer[c].line)
    /\ Answer(c, copy'[c][offer[c].line])
    /\ UNCHANGED <<script, pc, gold, held, way>>

\* Nothing may be sent on VN0 for an operation that is to be silent.
SendsVn0(c) == failed' = (failed \/ offer[c].silent)

\* A miss in a full set gives up the way that was not used last, and only then
\* claims it.
GiveUpWay(c) ==
    /\ Asked(c) /\ Misses(c) /\ mshr[c][offer[c].line].op = "none"
    /\ Cardinality(Held(c)) = L1Ways
    /\ \E l \in Held(c) \ {mru[c]} : Evict(c, l)
    /\ SendsVn0(c)
    /\ UNCHANGED <<script, pc, offer, gold, mru, held, way>>

Send(c) ==
    /\ Asked(c)
    /\ Misses(c) => Cardinality(Held(c)) < L1Ways
    /\ CoreMiss(c, offer[c].line, offer[c].op)
    /\ offer' = [offer EXCEPT ![c].started = TRUE]
    /\ SendsVn0(c)
    /\ UNCHANGED <<script, pc, gold, mru, held, way>>

---------------------------------------------------------------------------
(* The hardware *)

\* Faulty: ways are numbered from 0, which means no way.
FreeWaysFromZero == (0 .. L2Ways - 1) \ {way[l] : l \in {k \in Line : dir[k].present}}

FreeWays == (1 .. L2Ways) \ {way[l] : l \in Line}

\* A line is installed in the lowest free way, and replaced from the lowest
\* way that is not busy.
WaysKept ==
    /\ way' = [l \in Line |-> CASE ~dir'[l].present -> 0
                                [] dir[l].present -> way[l]
                                [] OTHER -> Lowest(FreeWays)]
    /\ \A h \in Home, v \in Line :
         \/ binv'[h].line = v /\ binv[h].line # v
         \/ dir[v].present /\ ~dir'[v].present /\ binv[h].line # v
         => \A l \in Victims(h) : way[v] <= way[l]

\* No bank sees a message that is held.
HoldsKept ==
    \A c \in held, h \in Home :
        req'[c][h] = req[c][h] /\ (stuckReq'[h] = c => stuckReq[h] = c)

Finishes(c) ==
    /\ offer[c] # NoOffer /\ offer[c].started
    /\ mshr[c][offer[c].line].done /\ mshr'[c][offer[c].line].op = "none"

Hardware ==
    /\ SystemStep
    /\ HoldsKept
    /\ WaysKept
    /\ IF \E c \in Cache : Finishes(c)
         THEN \E c \in Cache : /\ Finishes(c)
                               /\ Answer(c, copy'[c][offer[c].line])
         ELSE UNCHANGED <<offer, mru, failed>>
    /\ UNCHANGED <<script, pc, gold, held>>

\* A clock cycle in which nothing happens: the waits poll once in each.
Poll == UNCHANGED all

ScriptNext ==
    \/ Ask \/ Wait \/ WaitState \/ Look \/ Settle \/ Hold \/ Expire
    \/ \E c \in Cache : LoadHit(c) \/ StoreHits(c) \/ GiveUpWay(c) \/ Send(c)
    \/ Hardware
    \/ Poll

ScriptSpec == ScriptInit /\ [][ScriptNext]_all

\* The test bench goes on, the cores take what they are asked, and the
\* hardware never stops while it can move.
ScriptFairness ==
    /\ WF_all(Ask \/ Wait \/ WaitState \/ Look \/ Settle \/ Hold)
    /\ \A c \in Cache : WF_all(LoadHit(c) \/ StoreHits(c) \/ GiveUpWay(c) \/ Send(c))
    /\ WF_all(Hardware)

ScriptLive == ScriptSpec /\ ScriptFairness

---------------------------------------------------------------------------
(* Properties *)

\* The variables of the test bench keep their types.
DriverTypeOK ==
    /\ pc \in 1 .. Len(script) + 1
    /\ gold \in [Line -> Version]
    /\ way \in [Line -> 0 .. L2Ways]
    /\ \A c \in Cache : Cardinality(Held(c)) <= L1Ways
    /\ \A l \in Line : (way[l] # 0) <=> dir[l].present

\* Whatever the network's timing, no assertion of a scenario fires: the states
\* it expects and every value it reads back follow from the order of its
\* operations alone, not from the clock cycles it lets pass; and what the test
\* bench keeps is of its type.
AssertionsHold == ~failed /\ DriverTypeOK

\* Every scenario comes to its end: no operation it waits for, and no state,
\* fails to come.
ScenariosEnd == <>(pc > Len(script))

===============================================================================
