------------------------------- MODULE L1Harness -------------------------------
(***************************************************************************)
(* The L1 controller with what is around it: a core that offers requests   *)
(* of its own, the home bank of each line and the other caches, as much of *)
(* them as one cache sees.  A home answers requests in the order they      *)
(* come, and sends what it has for this cache in order; responses come in  *)
(* any order.  A recall is to this cache a forward or an invalidation.     *)
(***************************************************************************)
EXTENDS L1Pipeline, Sequences

CONSTANT Workloads    \* records [requests, contended, fair]

ASSUME WorkloadShape ==
    \A w \in Workloads :
        /\ \A r \in w.requests : r.line \in Line /\ r.op \in {"LD", "ST"}
        /\ w.contended \subseteq Line \X {"GETS", "GETM"}

\* load is the workload; its requests are records [id, line, op], one of each id
\* outstanding, and what the other caches ask for pairs of a line and a request.
VARIABLES load, waiting, req, fwd, rsp, home

CoreRequests == load.requests

Contended == load.contended

envVars == <<load, waiting, req, fwd, rsp, home>>

vars == <<cacheVars, inputVars, envVars>>

\* us and them: what the home has on record for this cache and for the others;
\* pend: the answers of this cache another waits for; acks: invalidations of
\* others not yet acknowledged; fresh: whether the home or the others have
\* the latest data.
NewHome == [us |-> "I", them |-> "I", pend |-> {}, acks |-> 0, fresh |-> TRUE]

NoPut == [t |-> "NONE", fresh |-> FALSE]

Init ==
    /\ CacheInit
    /\ core_i = NoReq /\ vn1_i = NoMsg /\ vn2_i = NoMsg
    /\ load \in Workloads
    /\ waiting = {}
    /\ req = [l \in Line |-> NoPut]
    /\ fwd = [l \in Line |-> <<>>]
    /\ rsp = [l \in Line |-> {}]
    /\ home = [l \in Line |-> NewHome]

---------------------------------------------------------------------------
(* The home and the other caches *)

Data(t, l, ack) == [line |-> l, t |-> t, ack |-> ack, fresh |-> home[l].fresh]

InvAck(l) == [line |-> l, t |-> "INV_ACK", ack |-> 0, fresh |-> FALSE]

HomeOnly(l) ==
    /\ req' = [req EXCEPT ![l] = NoPut]
    /\ UNCHANGED <<cacheVars, inputVars, load, waiting>>

\* A line nobody has is granted exclusive; one that others share is shared;
\* one that another owns comes from its owner.
serve_gets(l) ==
    /\ req[l].t = "GETS" /\ home[l].pend = {}
    /\ LET h == home[l] IN
        /\ home' = [home EXCEPT ![l] = [h EXCEPT !.us = IF h.them = "I" THEN "X" ELSE "S",
                                                  !.them = IF h.them = "I" THEN "I" ELSE "S"]]
        /\ rsp' = [rsp EXCEPT ![l] = @ \cup
                    {Data(CASE h.them = "I" -> "DATA_E" [] h.them = "S" -> "DATA_DIR" [] OTHER -> "DATA_OWNER", l, 0)}]
    /\ UNCHANGED fwd
    /\ HomeOnly(l)

serve_getm(l) ==
    /\ req[l].t = "GETM" /\ home[l].pend = {}
    /\ LET h == home[l]
           n == IF h.them = "S" THEN 1 ELSE 0
       IN
        /\ home' = [home EXCEPT ![l] = [h EXCEPT !.us = "X", !.them = "I", !.acks = n]]
        /\ rsp' = [rsp EXCEPT ![l] = @ \cup {Data(IF h.them = "X" THEN "DATA_OWNER" ELSE "DATA_DIR", l, n)}]
    /\ UNCHANGED fwd
    /\ HomeOnly(l)

\* A Put is answered whatever else the line waits for; only an owner's data
\* is taken.
serve_put(l) ==
    /\ req[l].t \in {"PUTS", "PUTE", "PUTM"}
    /\ home' = [home EXCEPT ![l].us = IF @ = "X" /\ req[l].t = "PUTS" THEN @ ELSE "I",
                            ![l].fresh = IF home[l].us = "X" /\ req[l].t = "PUTM" THEN req[l].fresh ELSE @]
    /\ fwd' = [fwd EXCEPT ![l] = Append(@, [line |-> l, t |-> "PUT_ACK"])]
    /\ UNCHANGED rsp
    /\ HomeOnly(l)

\* The other sharer acknowledges this cache's GetM.
sharer_acks(l) ==
    /\ home[l].acks # 0
    /\ home' = [home EXCEPT ![l].acks = @ - 1]
    /\ rsp' = [rsp EXCEPT ![l] = @ \cup {InvAck(l)}]
    /\ UNCHANGED <<cacheVars, inputVars, load, waiting, req, fwd>>

\* Another cache asks for the line, to read it or to write it.
other_asks(l, t) ==
    /\ <<l, t>> \in Contended /\ home[l].pend = {}
    /\ LET h == home[l] IN
        /\ IF t = "GETS" THEN h.them = "I" ELSE h.them # "X"
        /\ home' = [home EXCEPT ![l] =
                [h EXCEPT !.us = IF t = "GETM" \/ h.us = "I" THEN "I" ELSE "S",
                          !.them = IF t = "GETM" \/ h.us = "I" THEN "X" ELSE "S",
                          !.pend = CASE h.us = "X" /\ t = "GETS" -> {"DATA_OWNER", "WB_DATA"}
                                     [] h.us = "X" /\ t = "GETM" -> {"DATA_OWNER"}
                                     [] h.us = "S" /\ t = "GETM" -> {"INV_ACK"}
                                     [] OTHER -> {}]]
        /\ fwd' = [fwd EXCEPT ![l] =
                CASE h.us = "X" -> Append(@, [line |-> l, t |-> IF t = "GETS" THEN "FWD_GETS" ELSE "FWD_GETM"])
                  [] h.us = "S" /\ t = "GETM" -> Append(@, [line |-> l, t |-> "INV"])
                  [] OTHER -> @]
    /\ UNCHANGED <<cacheVars, inputVars, load, waiting, req, rsp>>

\* The other owner writes: what this cache still holds is out of date.
other_writes(l) ==
    /\ home[l].them = "X" /\ home[l].pend = {}
    /\ home' = [home EXCEPT ![l].fresh = TRUE]
    /\ data' = [w \in Way |-> IF data[w] = l THEN NoLine ELSE data[w]]
    /\ mshr' = [i \in Entry |-> [mshr[i] EXCEPT !.fresh = @ /\ mshr[i].line # l]]
    /\ s2' = [s2 EXCEPT !.data = IF @ = l THEN NoLine ELSE @]
    /\ v1' = [v1 EXCEPT !.fresh = @ /\ v1.msg.line # l]
    /\ req' = [req EXCEPT ![l].fresh = FALSE]
    /\ rsp' = [rsp EXCEPT ![l] = {[m EXCEPT !.fresh = FALSE] : m \in @}]
    /\ UNCHANGED <<state_q, tag_q, plru_q, retire_ptr, s1, rpl, core_resp, vn2_o,
                   inputVars, load, waiting, fwd>>

\* The others give the line back.
other_drops(l) ==
    /\ home[l].them # "I" /\ home[l].pend = {}
    /\ home' = [home EXCEPT ![l].them = "I"]
    /\ UNCHANGED <<cacheVars, inputVars, load, waiting, req, fwd, rsp>>

---------------------------------------------------------------------------
(* One cycle of the cache, and what is offered to it in the next *)

StillWaiting == waiting \ {r.id : r \in {core_resp} \ {NoReq}}

\* What is offered stays offered until it is taken; an answer frees its tag.
NextCore(r) ==
    IF core_i # NoReq /\ ~core_req_ready THEN r = core_i
    ELSE r \in {q \in CoreRequests : q.id \notin StillWaiting \cup {t.id : t \in {core_i} \ {NoReq}}} \cup {NoReq}

NextVn1(m) ==
    IF vn1_valid /\ ~vn1_take THEN m = vn1_i
    ELSE IF \A l \in Line : fwd[l] = <<>> THEN m = NoMsg
    ELSE m \in {fwd[l][1] : l \in {k \in Line : fwd[k] # <<>>}}

NextVn2(m) ==
    IF \A l \in Line : rsp[l] = {} THEN m = NoMsg ELSE m \in UNION {rsp[l] : l \in Line}

\* The answer in vn2_o has reached the one that waits for it.
Answered(h, l) ==
    IF NextVn2Out.line # l THEN h
    ELSE [h EXCEPT !.pend = @ \ {NextVn2Out.t},
                   !.fresh = IF NextVn2Out.t = "INV_ACK" THEN @ ELSE NextVn2Out.fresh]

Forgotten(h, l) == IF StoredLine = l THEN [h EXCEPT !.fresh = FALSE] ELSE h

Vn0Line == IF s1_evict THEN tag_q[s1_victim] ELSE s1.line

tick ==
    /\ Clock
    /\ \E r \in CoreRequests \cup {NoReq} : NextCore(r) /\ core_i' = r
    /\ \E m \in UNION {{fwd[l][k] : k \in DOMAIN fwd[l]} : l \in Line} \cup {vn1_i, NoMsg} :
        /\ NextVn1(m)
        /\ vn1_i' = m
        /\ fwd' = [l \in Line |-> IF m.line = l /\ ~(vn1_valid /\ ~vn1_take) THEN Tail(fwd[l]) ELSE fwd[l]]
    /\ \E m \in (UNION {rsp[l] : l \in Line}) \cup {NoMsg} :
        /\ NextVn2(m)
        /\ vn2_i' = m
        /\ rsp' = [l \in Line |-> rsp[l] \ {m}]
    /\ req' = [l \in Line |-> IF (s1_evict \/ s1_alloc) /\ Vn0Line = l
                              THEN [t |-> Vn0Type, fresh |-> s1_evict /\ LookedUp(s1_victim) = tag_q[s1_victim]] ELSE [req[l] EXCEPT !.fresh = Held(l, @)]]
    /\ home' = [l \in Line |-> Answered(Forgotten(home[l], l), l)]
    /\ waiting' = StillWaiting \cup (IF core_i # NoReq /\ core_req_ready THEN {core_i.id} ELSE {})
    /\ UNCHANGED load

Next ==
    \/ tick
    \/ \E l \in Line :
        \/ serve_gets(l) \/ serve_getm(l) \/ serve_put(l) \/ sharer_acks(l)
        \/ other_asks(l, "GETS") \/ other_asks(l, "GETM") \/ other_writes(l) \/ other_drops(l)

Spec == Init /\ [][Next]_vars

\* The clock runs, the homes and the other sharers answer, and the network
\* brings what it has for this cache.  Only the fair workloads are held to
\* this, for the lines they ask for: the others are there for safety.
Fair(A) == load.fair /\ A

FairRequests == UNION {w.requests : w \in {v \in Workloads : v.fair}}

LiveSpec ==
    /\ Spec /\ WF_vars(Fair(tick))
    /\ \A l \in {r.line : r \in FairRequests} :
        /\ WF_vars(Fair(serve_gets(l))) /\ WF_vars(Fair(serve_getm(l))) /\ WF_vars(Fair(serve_put(l)))
        /\ WF_vars(Fair(sharer_acks(l)))
        /\ SF_vars(Fair(tick /\ vn2_i'.line = l)) /\ SF_vars(Fair(tick /\ vn1_i'.line = l))

---------------------------------------------------------------------------
(* Properties *)

\* The type of the cache's registers.
TypeOK ==
    /\ state_q \in [Way -> StableL1 \cup Fetching]
    /\ tag_q \in [Way -> Line \cup {NoLine}]
    /\ data \in [Way -> Line \cup {NoLine}] /\ plru_q \in Way /\ retire_ptr \in Entry
    /\ \A i \in Entry : /\ mshr[i].state \in StableL1 \cup Evicting
                        /\ mshr[i].ack_cnt \in -1 .. 1
    /\ v1.fsm \in {"IDLE", "READ", "SEND"}

\* Whatever is offered finds an arc of the table or a stall, and a response an
\* MSHR, although S1 and the two handlers write one state in one cycle
\* (l1_cache.sv: a_vn1_event_legal, a_vn2_event_legal, a_vn2_always_lands;
\* bugs B16 and B20).
EventsLegal ==
    /\ vn1_valid => L1Legal(vn1_state, vn1_event)
    /\ vn2_take => vn2_hit /\ L1Legal(state_q[vn2_way], vn2_event)

\* A line is in one place: one way, one MSHR, and never both in the array and
\* in an eviction's MSHR (l1_cache.sv: a_one_hit_way; mshr_file.sv:
\* a_no_duplicate_address).
OnePlace ==
    \A l \in Line :
        /\ Cardinality(HitWays(l)) <= 1
        /\ Cardinality(EntriesOf(l)) <= 1
        /\ EvictionsOf(l) # {} => HitWays(l) = {}

OnItsWay(l, types) ==
    \/ vn1_i # NoMsg /\ vn1_i.line = l /\ vn1_i.t \in types
    \/ \E k \in DOMAIN fwd[l] : fwd[l][k].t \in types

\* The cache keeps no permission its home thinks it has given up: an owner
\* the home no longer records has a forward coming, a sharer an invalidation.
HomeAgrees ==
    \A w \in Way :
        LET l == tag_q[w] IN
        /\ state_q[w] \in {"E", "M"} /\ home[l].us # "X" => OnItsWay(l, {"FWD_GETS", "FWD_GETM"})
        /\ state_q[w] = "S" /\ home[l].us # "S" => OnItsWay(l, {"INV"})

\* What the core is answered from, what is given to another cache and what an
\* owner writes back is the latest data of the line, a store that is still on
\* its way to the array included.
DataFresh ==
    /\ core_resp # NoReq => core_resp.fresh
    /\ vn2_o # NoMsg /\ vn2_o.t # "INV_ACK" => vn2_o.fresh
    /\ \A l \in Line : req[l].t = "PUTM" /\ home[l].us = "X" => req[l].fresh

\* The places that hold a request the core waits for.
Holders(id) ==
    (IF s1 # NoReq /\ s1.id = id THEN {"S1"} ELSE {})
    \cup (IF rpl # NoReq /\ rpl.id = id THEN {"REPLAY"} ELSE {})
    \cup (IF core_resp # NoReq /\ core_resp.id = id THEN {"ANSWER"} ELSE {})
    \cup {<<"MSHR", i>> : i \in {j \in Entry : mshr[j].req # NoReq /\ mshr[j].req.id = id}}

\* A request taken from the core is in exactly one place until it is answered:
\* replaying neither loses nor doubles it (bug B9).
RequestHeldOnce ==
    \A r \in CoreRequests : Cardinality(Holders(r.id)) = (IF r.id \in waiting THEN 1 ELSE 0)

\* Nothing is lost or doubled, neither a line nor a request, and the registers
\* keep their types.
NothingTwice == TypeOK /\ OnePlace /\ RequestHeldOnce

\* Everyone who reads the line reads the latest data, because the cache and
\* the home agree on who may.
ReadsAreCurrent == HomeAgrees /\ DataFresh

\* A request taken is answered, though it replays, its way is busy, its victim
\* is asked for and its response may race an invalidation.
EachAnswered ==
    \A id \in {r.id : r \in FairRequests} :
        (load.fair /\ id \in waiting) ~> (id \notin waiting)

===============================================================================
