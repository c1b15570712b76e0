----------------------------- MODULE AddressDecode ------------------------------
(***************************************************************************)
(* The one address layout, written down three times: coh_pkg's helpers,    *)
(* by which an L1 places, finds and evicts a line; raceutil.addr_of, by    *)
(* which a test chooses an address; and the shifts of scenarios.py and     *)
(* golden.py, by which a test looks for the line in the debug outputs and  *)
(* finds it in the reference memory.  One L1 and the tests that look at it.*)
(***************************************************************************)
EXTENDS Integers, FiniteSets

CONSTANTS Set,        \* sets, tags and words a test chooses
          AddrTag,
          AddrWord,
          MaxHeld     \* bound: how many lines the L1 holds at once

AddressDecodeTypes ==
    /\ Set \subseteq 0 .. 63 /\ AddrTag \subseteq Nat /\ AddrWord \subseteq 0 .. 7
    /\ MaxHeld \in Nat

Bank == 0 .. 3

Way == 0 .. 1

VARIABLES tag_q,    \* the valid ways: set, way and tag
          holds,    \* what is in them: set, way and the line that was asked for
          put,      \* an eviction on its way: the line it names, the line held
          asked     \* what a test chose for the address it uses

vars == <<tag_q, holds, put, asked>>

Bits(a, lsb, width) == (a \div 2 ^ lsb) % 2 ^ width

---------------------------------------------------------------------------
(* The design: 32 bits of offset 5, bank 2, index 6, upper tag 19 *)

addr_home_bank(a) == Bits(a, 5, 2)

addr_l1_index(a) == Bits(a, 7, 6)

addr_l1_tag(a) == Bits(a, 13, 19) * 4 + Bits(a, 5, 2)

addr_line(a) == Bits(a, 5, 27)

addr_word_sel(a) == Bits(a, 2, 3)

line_l1_index(l) == Bits(l, 2, 6)

line_l1_tag(l) == Bits(l, 8, 19) * 4 + Bits(l, 0, 2)

\* Faulty: the tag above the index, the bank bits with it.
l1_line_addr_straight(tg, idx) == tg * 2 ^ 6 + idx

l1_line_addr(tg, idx) == Bits(tg, 2, 19) * 2 ^ 8 + idx * 4 + Bits(tg, 0, 2)

---------------------------------------------------------------------------
(* The tests *)

\* Faulty: the tag one bit lower.
addr_of_near(c) == c.tag * 2 ^ 12 + c.set * 2 ^ 7 + c.bank * 2 ^ 5 + c.word * 4

addr_of(c) == c.tag * 2 ^ 13 + c.set * 2 ^ 7 + c.bank * 2 ^ 5 + c.word * 4

home_of(a) == (a \div 2 ^ 5) % 4

set_of(a) == (a \div 2 ^ 7) % 64

\* Faulty: the address above the index only.
tag_of_upper(a) == a \div 2 ^ 13

tag_of(a) == (a \div 2 ^ 13) * 4 + ((a \div 2 ^ 5) % 4)

line_addr(a) == a \div 2 ^ 5

word_sel(a) == (a \div 2 ^ 2) % 8

Choice == [bank : Bank, set : Set, tag : AddrTag, word : AddrWord]

\* state_of, after the test has driven dbg_set_i with set_of: some valid way of
\* that set has the tag.
Shown(a) == \E way \in Way : [set |-> set_of(a), way |-> way, tag |-> tag_of(a)] \in tag_q

---------------------------------------------------------------------------
(* The L1 *)

NoPut == [sent |-> 0, held |-> 0]

Init ==
    /\ tag_q = {} /\ holds = {}
    /\ put = NoPut
    /\ asked \in Choice

\* A core's request finds the line in no way: the MSHR carries the line's
\* address, from which the fill places it in a free way.
Fill(way) ==
    LET a == addr_of(asked)
        l == addr_line(a)
    IN  /\ \A w \in Way : [set |-> addr_l1_index(a), way |-> w, tag |-> addr_l1_tag(a)] \notin tag_q
        /\ \A t \in tag_q : ~(t.set = line_l1_index(l) /\ t.way = way)
        /\ tag_q' = tag_q \cup {[set |-> line_l1_index(l), way |-> way, tag |-> line_l1_tag(l)]}
        /\ holds' = holds \cup {[set |-> line_l1_index(l), way |-> way, line |-> line_addr(a)]}
        /\ put' = NoPut /\ UNCHANGED asked

\* The victim's line address is put together from its tag and its set.
Evict(entry, h) ==
    /\ h.set = entry.set /\ h.way = entry.way
    /\ put' = [sent |-> l1_line_addr(entry.tag, entry.set), held |-> h.line]
    /\ tag_q' = tag_q \ {entry} /\ holds' = holds \ {h}
    /\ UNCHANGED asked

\* The test goes on with another address.
Choose(c) == asked' = c /\ put' = NoPut /\ UNCHANGED <<tag_q, holds>>

Next ==
    \/ \E way \in Way : Cardinality(holds) < MaxHeld /\ Fill(way)
    \/ \E entry \in tag_q, h \in holds : Evict(entry, h)
    \/ \E c \in Choice : Choose(c)

Spec == Init /\ [][Next]_vars

---------------------------------------------------------------------------
(* Properties *)

\* A test that looks for an address it chose is shown a line if and only if
\* the L1 holds the line of that address, whatever other lines it holds: in
\* the same set, with the same upper tag, or at the same place of another bank.
ShownIffHeld == Shown(addr_of(asked)) <=> \E h \in holds : h.line = line_addr(addr_of(asked))

\* An eviction names the line that was held, to the bank it came from.
PutNamesHeld == put.sent = put.held /\ put.sent % 4 = home_of(put.held * 2 ^ 5)

\* "Homed at tile 3, in the same set as the others": the design gives a chosen
\* address the home, the set and the word the test meant, and no other address
\* its line.
PlacedAsChosen ==
    LET a == addr_of(asked) IN
    /\ addr_home_bank(a) = asked.bank /\ home_of(a) = asked.bank
    /\ addr_l1_index(a) = asked.set
    /\ addr_word_sel(a) = asked.word /\ word_sel(a) = asked.word
    /\ addr_line(a) = line_addr(a)
    /\ \A c \in Choice : addr_line(addr_of(c)) = addr_line(a) =>
           c.bank = asked.bank /\ c.set = asked.set /\ c.tag = asked.tag
=============================================================================
