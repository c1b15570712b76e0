------------------------------- MODULE L1Pipeline -------------------------------
(***************************************************************************)
(* rtl/l1/l1_cache.sv with rtl/l1/mshr_file.sv, cycle by cycle: one set of *)
(* a cache, its core pipeline with replay, the VN1 machine, the VN2 sink,  *)
(* retirement and the MSHRs.  A way's data is the line it is the       *)
(* latest of, or NoLine; elsewhere it is only whether it is the latest.    *)
(* The SRAM gives in a cycle what it held in the last: it has one port, so *)
(* what is read is not written in the same cycle.                          *)
(***************************************************************************)
EXTENDS L1Table, FiniteSets

CONSTANTS Line,         \* lines of the one set
          NoLine,
          MshrEntries

ASSUME PipelineShape ==
    /\ NoLine \notin Line
    /\ MshrEntries \in Nat \ {0}

VARIABLES
    state_q, tag_q, data, plru_q,    \* the set's two ways and its replacement bit
    mshr, retire_ptr,                \* the file, and the pointer of its arbiter
    s1, rpl, s2, v1,                 \* core pipeline, replay, store write, VN1 machine
    core_i, vn1_i, vn2_i,            \* what is offered to the cache in this cycle
    core_resp, vn2_o                 \* what it answered in the last

cacheVars == <<state_q, tag_q, data, plru_q, mshr, retire_ptr, s1, rpl, s2, v1, core_resp, vn2_o>>

inputVars == <<core_i, vn1_i, vn2_i>>

Way == 0 .. 1

Entry == 1 .. MshrEntries

NoReq == [line |-> NoLine]

NoMsg == [line |-> NoLine]

FreeEntry == [valid |-> FALSE, line |-> NoLine, state |-> "I", req |-> NoReq, way |-> 0,
              is_evict |-> FALSE, fresh |-> FALSE, data_valid |-> FALSE, ack_cnt |-> 0, done |-> FALSE]

IdleV1 == [fsm |-> "IDLE", msg |-> NoMsg, way |-> 0, fresh |-> FALSE, sends |-> {}]

NoWrite == [wr |-> FALSE, way |-> 0, data |-> NoLine]

CacheInit ==
    /\ state_q = [w \in Way |-> "I"]
    /\ tag_q = [w \in Way |-> NoLine]
    /\ data = [w \in Way |-> NoLine]
    /\ plru_q = 0
    /\ mshr = [i \in Entry |-> FreeEntry]
    /\ retire_ptr = 1
    /\ s1 = NoReq /\ rpl = NoReq /\ s2 = NoWrite /\ v1 = IdleV1
    /\ core_resp = NoReq /\ vn2_o = NoMsg

Greatest(S) == CHOOSE x \in S : \A y \in S : y <= x

Least(S) == CHOOSE x \in S : \A y \in S : x <= y

---------------------------------------------------------------------------
(* Lookups.  A way found is the last that matches, and way 0 if none does. *)

HitWays(l) == {w \in Way : state_q[w] # "I" /\ tag_q[w] = l}

WayOf(l) == Greatest(HitWays(l) \cup {0})

EntriesOf(l) == {i \in Entry : mshr[i].valid /\ mshr[i].line = l}

---------------------------------------------------------------------------
(* VN2 in: always taken *)

vn2_take == vn2_i # NoMsg

vn2_hit == EntriesOf(vn2_i.line) # {}

vn2_idx == Least(EntriesOf(vn2_i.line))

vn2_way == WayOf(vn2_i.line)

vn2_event == RspEventOf(vn2_i.t, vn2_i.ack)

\* A blank cell leaves the state as it is.
TableNext(s, e) ==
    IF \E n \in L1State : <<s, e, n>> \in L1Arcs
    THEN CHOOSE n \in L1State : <<s, e, n>> \in L1Arcs ELSE s

vn2_ack_next ==
    mshr[vn2_idx].ack_cnt + (IF AddsAcks(vn2_event) THEN vn2_i.ack ELSE 0)
        - (IF TakesAck(vn2_event) THEN 1 ELSE 0)

vn2_next == TableNext(state_q[vn2_way], vn2_event)

vn2_counted == vn2_next \in {"IM_A", "SM_A"} /\ vn2_ack_next = 0

vn2_complete == vn2_counted \/ Completes(vn2_event)

\* Faulty: the state the last acknowledgement leads to is not written.
vn2_state_eff_table == vn2_next

vn2_state_eff == IF vn2_counted THEN "M" ELSE vn2_next

vn2_lands == vn2_take /\ vn2_hit

---------------------------------------------------------------------------
(* VN1 in: what is offered, against the state it will be checked with *)

vn1_valid == vn1_i # NoMsg

\* Faulty: any entry of the line, a fetch's too, is taken for its state (bug B16).
EvictionsAnyEntry(l) == EntriesOf(l)

EvictionsOf(l) == {i \in EntriesOf(l) : mshr[i].is_evict}

vn1_in_mshr == EvictionsOf(vn1_i.line) # {}

vn1_idx == Least(EvictionsOf(vn1_i.line))

vn1_way == WayOf(vn1_i.line)

vn1_state ==
    IF vn1_in_mshr THEN mshr[vn1_idx].state
    ELSE IF HitWays(vn1_i.line) # {} THEN state_q[vn1_way] ELSE "I"

vn1_event == FwdEventOf(vn1_i.t)

vn1_sends ==
    (IF SendsInvAck(vn1_state, vn1_event) THEN {"INV_ACK"} ELSE {})
    \cup (IF SendsDataReq(vn1_state, vn1_event) THEN {"DATA_OWNER"} ELSE {})
    \cup (IF SendsDataDir(vn1_state, vn1_event) THEN {"WB_DATA"} ELSE {})

vn1_needs_line == vn1_sends \cap {"DATA_OWNER", "WB_DATA"} # {}

\* Faulty: the line is read from the array though an eviction's MSHR has it.
vn1_needs_array_always == vn1_needs_line

vn1_needs_array == vn1_needs_line /\ ~vn1_in_mshr

---------------------------------------------------------------------------
(* S1: the request looked up in this cycle, and its victim *)

s1_valid == s1 # NoReq

s1_event == IF s1.op = "ST" THEN "STORE" ELSE "LOAD"

s1_hit == HitWays(s1.line) # {}

s1_state == IF s1_hit THEN state_q[WayOf(s1.line)] ELSE "I"

s1_needs_txn ==
    \/ s1_state = "I"
    \/ s1_state = "S" /\ s1_event = "STORE"

s1_served == ~s1_needs_txn /\ ~L1Stalls(s1_state, s1_event)

set_reserved == {mshr[i].way : i \in {j \in Entry : mshr[j].valid /\ ~mshr[j].is_evict}}

s1_victim_ok == Way \ set_reserved # {}

s1_victim ==
    IF plru_q \notin set_reserved \/ ~s1_victim_ok THEN plru_q ELSE Least(Way \ set_reserved)

needs_evict == ~s1_hit /\ s1_victim_ok /\ state_q[s1_victim] # "I"

\* The way S1 would write.
s1_way == IF s1_hit THEN WayOf(s1.line) ELSE s1_victim

\* Faulty: S1 does not look at the forward that is offered (bug B20).
s1_vn1_conflict_none == FALSE

s1_vn1_conflict == vn1_valid /\ HitWays(vn1_i.line) # {} /\ vn1_way = s1_way

\* Faulty: a response that writes the line's state in this cycle is not seen.
s1_vn2_conflict_none == FALSE

s1_vn2_conflict == vn2_lands /\ vn2_way = s1_way

s1_coh_conflict == s1_vn1_conflict \/ s1_vn2_conflict

victim_is_vn1_line == v1.fsm # "IDLE" /\ v1.way = s1_victim

victim_busy == EntriesOf(tag_q[s1_victim]) # {}

mshr_alloc_ready == \E i \in Entry : ~mshr[i].valid

s1_resp == s1_valid /\ s1_served /\ ~s1_coh_conflict

s1_evict ==
    /\ s1_valid /\ s1_needs_txn /\ ~s1_hit
    /\ s1_victim_ok /\ needs_evict /\ ~victim_is_vn1_line
    /\ ~s1_coh_conflict /\ ~victim_busy /\ mshr_alloc_ready

\* Faulty: a request is given an MSHR of its own beside the line's live one.
s1_alloc_twice ==
    /\ s1_valid /\ s1_needs_txn /\ ~s1_evict
    /\ s1_hit \/ (s1_victim_ok /\ ~needs_evict)
    /\ ~s1_coh_conflict /\ mshr_alloc_ready

s1_alloc ==
    /\ s1_valid /\ s1_needs_txn /\ ~s1_evict
    /\ s1_hit \/ (s1_victim_ok /\ ~needs_evict)
    /\ ~s1_coh_conflict /\ EntriesOf(s1.line) = {} /\ mshr_alloc_ready

\* Faulty: a request that evicted is done with (bug B9).
s1_replay_not_evict == s1_valid /\ ~s1_resp /\ ~s1_alloc /\ ~s1_evict

s1_replay == s1_valid /\ ~s1_resp /\ ~s1_alloc

---------------------------------------------------------------------------
(* Retirement, the VN1 machine and the core, by priority *)

retire_req == {i \in Entry : mshr[i].valid /\ mshr[i].done}

retire_idx == Least(IF \E i \in retire_req : i >= retire_ptr
                    THEN {i \in retire_req : i >= retire_ptr} ELSE retire_req)

retire_now == retire_req # {} /\ ~s2.wr /\ ~s1_resp

fill_writes_array == retire_now /\ ~mshr[retire_idx].is_evict /\ mshr[retire_idx].data_valid

vn1_take ==
    /\ vn1_valid /\ v1.fsm = "IDLE"
    /\ L1Legal(vn1_state, vn1_event) /\ ~L1Stalls(vn1_state, vn1_event)
    /\ ~vn2_lands /\ ~retire_now
    /\ vn1_needs_array => ~s2.wr /\ ~fill_writes_array

array_free == ~s2.wr /\ ~retire_now /\ ~(vn1_take /\ vn1_needs_array)

core_req_ready == array_free /\ rpl = NoReq /\ ~s1_replay

s0_issue == array_free /\ (rpl # NoReq \/ (core_i # NoReq /\ core_req_ready))

---------------------------------------------------------------------------
(* The latest data: who writes it in this cycle *)

\* The data S1 finds in a way, the store written in this cycle included.
\* Faulty: the store on its way to the array is not looked at.
LookedUpInArray(w) == data[w]

LookedUp(w) == IF s2.wr /\ s2.way = w THEN s2.data ELSE data[w]

StoreAtRetire == retire_now /\ ~mshr[retire_idx].is_evict /\ mshr[retire_idx].req.op = "ST"

StoreAtS1 == s1_resp /\ s1.op = "ST"

\* The line a store makes new: every other copy of it is then out of date.
StoredLine == IF StoreAtS1 THEN s1.line ELSE IF StoreAtRetire THEN mshr[retire_idx].line ELSE NoLine

---------------------------------------------------------------------------
(* The registers after the edge, in the order of the assignments *)

Held(l, fresh) == fresh /\ l # StoredLine

Kept(l) == IF l = StoredLine THEN NoLine ELSE l

NextState ==
    LET a == IF vn1_take /\ ~vn1_in_mshr /\ HitWays(vn1_i.line) # {}
             THEN [state_q EXCEPT ![vn1_way] = TableNext(vn1_state, vn1_event)] ELSE state_q
        b == IF vn2_lands /\ ~vn2_complete THEN [a EXCEPT ![vn2_way] = vn2_state_eff] ELSE a
        c == IF retire_now /\ ~mshr[retire_idx].is_evict
             THEN [b EXCEPT ![mshr[retire_idx].way] = mshr[retire_idx].state] ELSE b
    IN  IF s1_resp THEN [c EXCEPT ![WayOf(s1.line)] = TableNext(s1_state, s1_event)]
        ELSE IF s1_evict THEN [c EXCEPT ![s1_victim] = "I"]
        ELSE IF s1_alloc THEN [c EXCEPT ![s1_way] = TableNext(s1_state, s1_event)] ELSE c

NextTag ==
    LET a == IF retire_now /\ ~mshr[retire_idx].is_evict
             THEN [tag_q EXCEPT ![mshr[retire_idx].way] = mshr[retire_idx].line] ELSE tag_q
    IN  IF s1_alloc /\ ~s1_hit THEN [a EXCEPT ![s1_victim] = s1.line] ELSE a

\* One write of the array: the store of S2, or a fill.
NextData ==
    [w \in Way |->
        IF s2.wr /\ s2.way = w THEN Kept(s2.data)
        ELSE IF fill_writes_array /\ mshr[retire_idx].way = w 
             THEN IF mshr[retire_idx].fresh THEN mshr[retire_idx].line ELSE NoLine
        ELSE Kept(data[w])]

NextPlru ==
    IF s1_resp \/ s1_evict \/ s1_alloc THEN 1 - s1_way
    ELSE IF retire_now /\ ~mshr[retire_idx].is_evict THEN 1 - mshr[retire_idx].way
    ELSE plru_q

Freed(m) == IF retire_now THEN [m EXCEPT ![retire_idx] = FreeEntry] ELSE m

Allocated(m) ==
    IF ~(s1_evict \/ s1_alloc) THEN m
    ELSE [m EXCEPT ![Least({i \in Entry : ~mshr[i].valid})] =
            IF s1_evict
            THEN [FreeEntry EXCEPT !.valid = TRUE, !.line = tag_q[s1_victim], !.is_evict = TRUE,
                    !.state = TableNext(state_q[s1_victim], "EVICT"), !.fresh = LookedUp(s1_victim) = tag_q[s1_victim],
                    !.way = s1_victim]
            ELSE [FreeEntry EXCEPT !.valid = TRUE, !.line = s1.line, !.req = s1, !.way = s1_way]]

\* What a response writes to its entry, and what a forward writes to an eviction's.
Landed(e) ==
    [e EXCEPT !.state = IF vn2_complete THEN vn2_state_eff ELSE @,
              !.done = @ \/ vn2_complete,
              !.fresh = IF FillsData(vn2_event) THEN vn2_i.fresh ELSE @,
              !.data_valid = @ \/ FillsData(vn2_event),
              !.ack_cnt = vn2_ack_next]

Turned(e) == [e EXCEPT !.state = TableNext(vn1_state, vn1_event), !.done = @ \/ vn1_event = "PUT_ACK"]

\* VN2 has the update port, and VN1 when VN2 has no use for it.
Updated(m) ==
    IF vn2_lands THEN [m EXCEPT ![vn2_idx] = Landed(m[vn2_idx])]
    ELSE IF vn1_take /\ vn1_in_mshr THEN [m EXCEPT ![vn1_idx] = Turned(m[vn1_idx])]
    ELSE m

Aged(m) == [i \in Entry |-> [m[i] EXCEPT !.fresh = Held(m[i].line, @)]]

V1Taken ==
    IF ~vn1_take \/ vn1_sends = {} THEN v1
    ELSE [ fsm |-> IF vn1_needs_array THEN "READ" ELSE "SEND",
           msg |-> vn1_i, way |-> vn1_way, sends |-> vn1_sends,
           fresh |-> vn1_needs_line /\ vn1_in_mshr /\ Held(vn1_i.line, mshr[vn1_idx].fresh) ]

\* The message the machine sends in this cycle.
V1Send ==
    IF "INV_ACK" \in v1.sends THEN "INV_ACK"
    ELSE IF "DATA_OWNER" \in v1.sends THEN "DATA_OWNER" ELSE "WB_DATA"

NextV1 ==
    CASE v1.fsm = "IDLE" -> V1Taken
      [] v1.fsm = "READ" -> [v1 EXCEPT !.fsm = "SEND", !.fresh = Held(v1.msg.line, data[v1.way] = v1.msg.line)]
      [] OTHER -> IF v1.sends = {} THEN IdleV1
                  ELSE [v1 EXCEPT !.sends = @ \ {V1Send}, !.fresh = Held(v1.msg.line, @)]

NextVn2Out ==
    IF v1.fsm = "SEND" /\ v1.sends # {}
    THEN [line |-> v1.msg.line, t |-> V1Send, fresh |-> Held(v1.msg.line, v1.fresh)] ELSE NoMsg

\* A load's answer is fresh when the data it was served from is; a store's,
\* when the rest of the line it wrote is.
NextResp ==
    IF s1_resp THEN [line |-> s1.line, id |-> s1.id, fresh |-> LookedUp(WayOf(s1.line)) = s1.line]
    ELSE IF retire_now /\ ~mshr[retire_idx].is_evict
         THEN [line |-> mshr[retire_idx].line, id |-> mshr[retire_idx].req.id, fresh |-> mshr[retire_idx].fresh]
    ELSE NoReq

Clock ==
    /\ state_q' = NextState
    /\ tag_q' = NextTag
    /\ data' = NextData
    /\ plru_q' = NextPlru
    /\ mshr' = Aged(Updated(Allocated(Freed(mshr))))
    /\ retire_ptr' = IF ~retire_now THEN retire_ptr
                     ELSE IF retire_idx = MshrEntries THEN 1 ELSE retire_idx + 1
    /\ s1' = IF ~s0_issue THEN NoReq ELSE IF rpl # NoReq THEN rpl ELSE core_i
    /\ rpl' = IF s1_replay THEN s1 ELSE IF s0_issue THEN NoReq ELSE rpl
    /\ s2' = IF StoreAtS1 THEN [wr |-> TRUE, way |-> WayOf(s1.line), data |-> LookedUp(WayOf(s1.line))]
             ELSE NoWrite
    /\ v1' = NextV1
    /\ core_resp' = NextResp
    /\ vn2_o' = NextVn2Out

\* The request sent to the home bank in this cycle.
Vn0Type == IF s1_evict THEN PutOf(state_q[s1_victim])
           ELSE IF s1_event = "STORE" THEN "GETM" ELSE "GETS"

===============================================================================
