------------------------------ MODULE MCScenarios ------------------------------
(* The scripts of tb/models/scenarios.py, line by line. *)
EXTENDS Scenarios, TLC

CONSTANTS c0, c1, c2, a0, a1, a2, a3, h0

OneHome == [l \in Line |-> h0]
SameVc == [h \in Home |-> 0]
LoadsStores == [l \in Line |-> {"LD", "ST", "EV"}]

Op(c, op, l) == <<[do |-> "op", tile |-> c, op |-> op, line |-> l], [do |-> "done", tiles |-> {c}]>>
Issue(c, op, l) == <<[do |-> "issue", tile |-> c, op |-> op, line |-> l]>>
Silent(c, op, l) == <<[do |-> "silent", tile |-> c, op |-> op, line |-> l], [do |-> "done", tiles |-> {c}]>>
Done(cs) == <<[do |-> "done", tiles |-> cs]>>
See(c, l, s) == <<[do |-> "see", tile |-> c, line |-> l, state |-> s]>>
Shows(l, states) == <<[do |-> "look", line |-> l, states |-> states]>>
HoldVn0(c) == <<[do |-> "hold", tile |-> c]>>
Clear == <<[do |-> "clear"]>>
Gold(l) == <<[do |-> "gold", line |-> l]>>

scenario_lone_reader_gets_e == Op(c0, "LD", a0) \o Shows(a0, c0 :> "E")

scenario_silent_upgrade ==
    Op(c1, "LD", a0) \o Shows(a0, c1 :> "E") \o Silent(c1, "ST", a0) \o Shows(a0, c1 :> "M")

scenario_two_cores_share ==
    Op(c0, "LD", a0) \o Op(c1, "LD", a0) \o Shows(a0, c0 :> "S" @@ c1 :> "S")

scenario_store_invalidates ==
    Op(c0, "LD", a0) \o Op(c1, "LD", a0) \o Op(c2, "ST", a0)
        \o Shows(a0, c0 :> "I" @@ c1 :> "I" @@ c2 :> "M") \o Op(c2, "LD", a0)

scenario_dirty_read_downgrades ==
    Op(c0, "ST", a0) \o Op(c2, "LD", a0) \o Shows(a0, c0 :> "S" @@ c2 :> "S")

scenario_r11 ==
    Op(c0, "LD", a0) \o Shows(a0, c0 :> "E") \o Op(c0, "ST", a0) \o Shows(a0, c0 :> "M")
        \o Op(c0, "LD", a1) \o Op(c0, "LD", a2) \o Op(c1, "LD", a0)

scenario_r5 ==
    Op(c0, "LD", a0) \o Shows(a0, c0 :> "E") \o Op(c0, "LD", a1)
        \o HoldVn0(c0) \o Issue(c0, "LD", a2) \o See(c0, a0, "EI_A")
        \o Issue(c1, "ST", a0) \o Done({c1}) \o Shows(a0, c1 :> "M")
        \o Clear \o Done({c0}) \o Done({c0, c1, c2}) \o Gold(a0)
        \o Op(c1, "LD", a0) \o Op(c2, "LD", a0)

\* With three L2 ways: two fillers, and the trigger.
scenario_r9 ==
    Op(c0, "ST", a0) \o Shows(a0, c0 :> "M") \o Op(c1, "LD", a1) \o Op(c2, "LD", a2)
        \o Shows(a0, c0 :> "M") \o Op(c1, "LD", a3) \o Shows(a0, c0 :> "I") \o Op(c2, "LD", a0)

AllScripts ==
    {scenario_lone_reader_gets_e, scenario_silent_upgrade, scenario_two_cores_share,
     scenario_store_invalidates, scenario_dirty_read_downgrades, scenario_r11, scenario_r5,
     scenario_r9}
===============================================================================
