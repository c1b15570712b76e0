# Coherent NoC: specification and proofs

A TLA+ development of the repository: four tiles, each with a core, a private
L1 and one bank of a shared inclusive L2 with its directory, joined by a mesh
network with three virtual networks; the test bench around that design; and the
scripts that synthesise it and mutate it. The protocol is MESI, directory
based, home banks chosen by address.

## 1. Inventory

The design:

| component | source | state | operations |
|---|---|---|---|
| protocol package | `rtl/pkg/coh_pkg.sv` | none | states, messages, events, widths, address layout |
| L1 table | `rtl/l1/l1_coh_fsm.sv` | none (combinational) | 13 states x 12 events |
| L1 controller | `rtl/l1/l1_cache.sv`, `mshr_file.sv` | tag array with state, data array, MSHRs, S1/replay registers, VN1 state machine | core request, replay, miss, upgrade, hit, eviction, forward, response, retirement |
| directory table | `rtl/l2/dir_coh_fsm.sv` | none (combinational) | 5 states x 9 events |
| directory bank | `rtl/l2/dir_ctrl.sv`, `tbe_file.sv`, `l2_bank.sv` | L2 ways with metadata, transaction buffers (TBEs), back-invalidation registers, input queues, cycle state machine | lookup, execute, fetch, back-invalidate, send |
| tile network interface | `rtl/tile/tile_nic.sv` | VC holds, credits, injection and ejection packets | arbitration of VN2, injection, ejection, credit return |
| router, mesh | `rtl/noc/*.sv` | VC buffers and states, output credits, arbiter pointers | route, allocate VC, allocate switch, traverse, return credit |
| library | `rtl/lib/*.sv` | queue pointers, counters, arbiter pointers | push, pop, grant, credit |
| memory | `rtl/mem/mem_model.sv` | memory array, one outstanding request | read, write after a latency |
| wiring | `rtl/tile/tile_top.sv`, `rtl/top/*.sv` | none | connections, the delay hook |

The test bench (`tb`):

| component | source | state | operations |
|---|---|---|---|
| network test bench | `models/noc_tb.py` | queues, credits and busy VCs per port, delayed credits, reassembly | generate, tick (sample, drive), backlog, drain |
| driver and golden memory | `models/multicore.py`, `golden.py`, `raceutil.py` | free tags, busy lines, offers, pending predictions, bytes | plan, drive, collect, issue, wait |
| SWMR checker | `models/coherence_checker.py` | set on show, sweep index, violations | check once a cycle |
| probe and coverage | `models/probe.py`, `coverage.py` | witnessed cells, excused cells | record, require, close |
| scenarios | `models/scenarios.py` | holds, assertions | eight directed scripts |
| transcribed tables | `models/tables.py` | none | both tables again, compared cell by cell |
| flit codec, address helpers | `models/flit.py`, `raceutil.py` | none | pack, unpack, choose and look up addresses |
| gauge, hang dump | `models/probe.py`, `hangdump.py` | worst ages, sample counter | sample, name stuck entries |

The scripts:

| component | source | state | operations |
|---|---|---|---|
| synthesis flow | `syn/yosys/oss_synth.py` | converted sources, output directory, bracket of the period search | convert, synthesise, time, sweep, report |
| Liberty merge | `syn/yosys/merge_lib.py` | groups seen, groups written | compare headers, merge, check templates |
| mutation runner | `scripts/mutate.py`, `mutations.py` | the working tree, backups | edit, test, restore |
| diagrams, reports, commercial flow | `scripts/diagrams`, `syn` | none | drawing and formatting |

How they interact. A core's miss leaves its L1 on VN0 (GetS, GetM, Put) for the
home bank; the bank answers on VN2 (data) and VN1 (forwards, invalidations,
Put-Acks, recalls); an L1 answers a forward on VN2, to another L1 or to the
bank. VN2 is a sink: an L1 and a bank always accept it. VN1 may be stalled by
an L1 in a transient state, VN0 by a bank. The network interface splits the
messages by virtual network, and keeps one order per source, destination and
virtual network by choosing the VC from the low bit of the source's tile id.
The test bench drives the cores' ports and reads debug ports of the tag arrays,
one set per cycle and a cycle late. The scripts share only files: the mutation
runner edits the sources the simulator builds, a sweep overwrites one output
directory with each of its runs.

What makes each part correct, and where it is hard:

* L1 and directory together: one writer or many readers, no lost store, no
  message in a state that has no arc for it; the races are Puts crossing
  forwards, Invs crossing upgrades, acks overtaking data, Put-Acks overtaking
  forwards.
* directory bank: the L2 is inclusive, so a full set recalls a line from every
  L1; the count of answers, the TBE that carries it, the metadata and the L2's
  own copy must agree through every race, and TBEs and ways run out.
* L1 pipeline: S1, the VN1 handler, the VN2 handler and retirement may write one
  line's state in one clock edge and share one data port; a replayed request
  must be neither lost nor doubled.
* liveness: S_D waits for data, L1s wait for Put-Acks, requests wait behind
  both, stalled forwards wait in shared channels.
* network interface and routers: credits are neither lost nor made, two
  packets never share a VC, a stalled network holds up no other, arbitration
  starves nobody.
* test bench: what it believes about a racing machine must be true, or it
  reports errors that are none and misses ones that are: which operations may
  overlap, what a sampled set was a cycle ago, which assertions depend on how
  many cycles pass, which cells no sequence of messages presents.
* scripts: a run that fails, is interrupted or killed half-way must leave
  neither a mixed report nor a mutated source tree.

The full list, line by line, is under `hazards` in `PROJECT.json`, each with the
properties that watch over it or the reason none does.

## 2. Modules

| module | models |
|---|---|
| `CohPkg` | states, message types, events, the signed counter register |
| `L1Table`, `DirTable` | the two protocol tables as relations: stalls, arcs, blank cells, and what an arc does |
| `Coherence` | L1 controllers and banks over FIFO channels: the protocol, back-invalidation, resources |
| `SharedMemory` | the abstract specification of the protocol: permissions and one value per line |
| `CoverageClaims` | what the arc probe sees of `Coherence`, and the cells the coverage report excuses |
| `Scenarios` | the directed scenarios as scripts over `Coherence`, with L1 ways, holds and a golden memory |
| `L1Pipeline`, `L1Harness` | one set of an L1, clock edge by clock edge; the core, homes and other caches around it |
| `RrArbiter`, `RrFair` | the round-robin arbiter; the arbiter over time |
| `NocRouter` | a router's registers and its next clock edge |
| `PortHost` | the test bench's neighbour of a router port |
| `RouterHarness`, `MeshHarness` | one router, and a mesh of routers, under the network test bench |
| `FifoNet` | the abstract specification of the network: a FIFO per source, VC and destination |
| `TileNic`, `TileHarness` | the network interface; joined to its router, both controllers and a neighbour |
| `VerifTables`, `TableTests` | the test bench's transcription of the tables; its comparison with the tables |
| `Scoreboard`, `SwmrChecker` | driver with golden memory; the sweep for two owners |
| `FlitCodec`, `AddressDecode`, `LivenessGauge` | packing; the address layout written three times; ages of transactions |
| `SynthFlow`, `MergeLib`, `MutationRun` | the three scripts |
| `MCCoherence`, `MCCohLive`, `MCL1`, `MCNoc`, `MCTile`, `MCScenarios`, `MCBench` | instances for TLC |
| `CohInvariant_proofs` | types and the choice of a victim, the inductive invariant of the protocol, lemmas about channels, lines and counts; the steps of a cache keep it |
| `CohBanks_proofs` | the steps of a bank keep it |
| `CohSafety_proofs` | what follows from it: the safety properties, the refinement, the excuses; theorems about the abstract memory |
| `L1_proofs` | the cycle-level cache: its inductive invariant, one clock edge of it, and the safety properties |
| `Router_proofs`, `Noc_proofs` | a clock edge of a router, and of the test bench at a port; the safety of a mesh and of a single router |
| `Tile_proofs` | the safety of a tile's interface and its router, and the order of its own messages |
| `Bench_proofs` | theorems about the small machines of `MCBench` |

Each definition is mapped to its lines under `map` in `PROJECT.json`. A
definition commented `Faulty` is not part of the specification: it is a
plausible error in the code, put in place of the definition after it to show
that a property notices. Some run's property catches every one of them;
`PROJECT.json` lists one per run and property.

### State and actions of `Coherence`

`l1[c][l]` is the state of line `l` in cache `c`: the tag array's for a line
that is resident or being fetched, the eviction MSHR's for one being evicted
(`vn1_state` in `l1_cache.sv` reads them in the same way). `mshr`, `copy`, `dir`, `l2`, `mem` and `tbe` are
the registers of the same names; `binv` collects the `binv_*_q` registers.
`req`, `fwd` and `rsp` are the three virtual networks. `stuckReq[h]` records
whose request stands at the head of a bank's VN0 queue without being executed;
`stuckFwd[c][v]` which bank's forward a cache has left in ejection VC `v`.
`latest[l]` is a ghost, the version of the last store.

| action | code |
|---|---|
| `CoreMiss` | S1 allocates an MSHR and sends GetS or GetM (miss and upgrade) |
| `StoreHit` | a store to a line in E or M; load hits change nothing |
| `Evict` | S1 gives up a victim way and sends its Put |
| `TakeForward`, `StallForward` | the VN1 handler, or the table's stall |
| `TakeResponse` | the VN2 handler and the MSHR update |
| `Retire` | a finished MSHR installs state and data, or ends an eviction |
| `TakeRequest`, `StallRequest`, `TakeOwnerData` | D_EXEC and D_SEND, or the request left at the queue head |
| `FetchLine` | D_MEM_REQ and D_MEM_WAIT |
| `StartRecall`, `ReplaceUnheld`, `ReplaceAnyway` | D_BINV and D_BSEND, with D_BWB and D_BFREE when nobody holds the victim; the last when it should not |
| `TakeRecallAnswer` | a recall answer in D_EXEC, and D_BWB, D_BFREE after the last |

What is abstracted:

* A handler is one step. The VN1 machine of an L1 and the D_SEND machine of a
  bank take nothing else until their messages are queued, so what another
  component sees in between is only an earlier subset of the same messages.
  What this hides on the L1's side (S1, VN1, VN2 and retirement on one line in
  one cycle) is `L1Pipeline`'s subject; on the bank's side it hides that the
  bank accepts messages into its queues meanwhile.
* A line's contents are a version modulo `Versions`; a store makes the next
  one. Byte enables and words are not told apart. A cache that holds nothing
  has `copy` 0, so that equal situations are equal states.
* All modelled lines of one bank are in one L2 set. The bank's replacement
  takes the lowest allowed way; the model takes any allowed one, and any
  resident line where the code falls back to way 0.
* A line may be evicted from an L1 whenever it is stable: the request that
  needs its way is for a line outside the model.
* `owner` is `None` where the code writes 0; the table never reads it there.
* A channel holds any number of messages; a cache has at most `MshrEntries`
  requests out. One channel per source, destination and virtual network is
  FIFO, which is what the runs `Noc` and `Tile` show of the network.
* Ejection: a cache is presented the lowest full VC of VN1, so a stalled
  forward blocks its own VC, and VC 0 blocks VC 1.
* What the code reports as an error and does not handle (a message the table
  or the classifier has no case for) has no action; `CacheEventsLegal` and
  `BankEventsLegal` show it never happens.
* Caches and banks are separate names, although a tile holds one of each: all
  their messages pass through the tile's interface.

### The restricted specification

A bank replaces a line when a miss finds its set full, whether or not a TBE is
free (finding 3 below) and, when every way is in transition, whether or not the
line may be replaced. `Next` has those steps as `ReplaceAnyway`; what follows
one is not meant to be relied on (data nobody can classify, requests that wait
for ever). The properties of back-invalidation are therefore stated for
`RoomySpec`, in which a request that needs a way waits until a TBE is free and
some line may be replaced. These are executions of `Spec`: the bank looked at
the request late. That a line may always be replaced when there are more ways
than TBEs, as by default, is `VictimForRecall`, a theorem of `Spec`.

### Modules over `Coherence`

`CoverageClaims` extends it with the probe's view: the cells `ShownL1` and
`ShownDir` are what the debug signals present in a state, accepted or not, and
the excused cells are `coverage.py`'s DEFENSIVE lists. It adds no variable.

`Scenarios` adds what a scenario keeps: `script` and `pc`, the offers a driver
has made (`offer`), the golden memory (`gold`), requests held by the delay hook
(`held`), the line each L1 used last (`mru`) and the L2 ways (`way`). A scenario's
assertion is a step that sets `failed` when it does not hold. An operation may
be `silent`: a VN0 message sent for it sets `failed`, which is `sent == 0` of
the silent upgrade. A wait for some clock cycles is any number of steps of the
hardware, so an assertion that needs the cycles to be enough would fail. Lines
of a script fall into one L1 set of two ways and one L2 set of three.

### `L1Pipeline`

The registers are those of `l1_cache.sv` for one set with two ways and its
MSHRs: `state_q`, `tag_q`, `data`, `plru_q`, `mshr`, the S1 request `s1`, the
replay register `rpl`, `retire_ptr`, the VN1 machine `v1`, and what stands at
the ports (`vn1_i`, `vn2_i`, `vn2_o`, `core_resp`). Every combinational signal
that decides something is an operator of the same name (`vn1_take`,
`vn2_lands`, `retire_now`, ...), and one operator gives the next value of each
register; `tick` of `L1Harness` is the clock edge, with whatever stands at the
ports. The SRAM reads what was there a cycle ago, so an S1 request or a VN1
message reads and writes in different cycles.

`L1Harness` is the environment as one cache sees it: `home[l].us` is what the
home believes of this cache, requests reach a home in order, forwards come back
in order, responses in any order. Other caches ask, write and drop the line at
any time. Left out: recalls (a recall is an invalidation or a forward here;
`Coherence` has them apart), other sets, full output queues, byte enables. A
way's data is "the line it holds the latest of", or nothing.

### The network

A router is a record of its registers, and `Clock(r, ...)` the record after a
clock edge, given what the neighbours drive; so a mesh is a function from tiles
to records and all routers move in one step, and a tile's interface and its
router move together in `TileHarness`. A flit is its packet, its place and its
VC; payloads are left out. `RrArbiter` is used by both allocators.

`noc_tb.py` is `PortHost`: a source sends a flit when it holds a credit and
gives a VC to a packet only when the tail credit of the last is back; a sink
returns a credit `CreditDelay` cycles after a flit. A new packet gets the
lowest free VC of its network, as `_free_vc` has it; the moment at which a packet
is generated is any.

`FifoNet` is what the harnesses implement: with the flits sent and not yet
delivered as `transit`, every step is a send, a delivery, or nothing.

In `TileHarness` messages queue on the ports of the L1 and the bank at any
time. A sink that `MayRefuse` may be ready or not at any time, and nothing
promises that it ever is.

### Small machines in one run

The test bench's helpers and the scripts share no state with anything else.
`MCBench` puts them side by side: a behaviour is one of one machine, named by
`part`, and the variables of the others are off. `MCNoc` does the same with a
mesh and a single router, and `L1Harness`, `TileHarness` and `Scoreboard` with
several workloads (`load`, `setting`). Each property says which part it is of.
Fairness is required only of workloads marked `fair`.

* `RrFair`: any requests in each cycle, taken or not; `passed[i]` counts how
  often others were taken while `i` kept asking.
* `TableTests`: every cell of both tables is presented to `L1Table` and
  `DirTable`, read from the SystemVerilog, and to `VerifTables`, read from
  Python.
* `FlitCodec`: a vector is a number; the design's packed struct gives each
  field an offset, the Python code shifts and masks. The payload is four bits
  and there are two ports, because TLC's integers have 32 bits.
* `AddressDecode`: fills and evictions of one L1, whose debug bus, tag
  comparison and eviction address must all say the line a test chose.
* `LivenessGauge`: `age_q` as the files count it beside `lived`, the true age;
  the gauge samples every third cycle.
* `SwmrChecker`: caches that may hold anything; `dbg_set` is shown one cycle
  late. `age[s]` counts cycles since set `s` last changed.
* `Scoreboard`: the driver over any machine that performs an accepted operation
  at one moment and answers in any order, and in a setting with faults answers
  wrongly (`wrong`). `checked` allows one operation per line and predicts each
  value, `racing` allows any and asks only that a load returns some value stored
  there, `directed` is `raceutil`'s `issue` and `wait_done`. The loop
  of `scenario_random` is this module's `Next` with `SwmrChecker` in each cycle.
* `SynthFlow`: `rtl` is the sources, `cache` the sv2v output per key, `outdir`
  the files a run leaves, `lo`, `hi`, `steps`, `best` the sweep. External tools
  fail or are killed between the files they write; a user edits the sources and
  interrupts. A design closes at every period from a threshold per effort on.
* `MergeLib`: a file is its header's critical attributes and its groups in
  order; the text scanner is abstracted to that.
* `MutationRun`: `head` and `tree` are the committed and the working sources, an
  edit adds a mutation's name to a source's `muts`. `signal` is what a user may
  send: an interrupt, an interrupt after the `finally` has begun (`late`), or a
  termination. A write is not torn.

A random choice in Python is any choice in the model throughout.

## 3. Runs

TLC, from this directory: `tlc -config CohRaces.cfg MCCoherence.tla`, and the
module named in the table for the others.

| run (module) | instance | shows |
|---|---|---|
| `CohRaces` (`MCCoherence`) | 3 caches, 1 line, all operations, 3 versions | `SingleWriter`, `LatestDataRead`, `CacheEventsLegal`, the coverage excuses (`ExcusesHold`), refinement of `SharedMemory` |
| `CohRecall` (`MCCoherence`) | 2 caches, 4 lines, 3 ways, 2 TBEs | `BankEventsLegal`, `TbesMatchDirectory`, `RecallCountExact`, `Inclusion`, `VictimForRecall`, `ExcusesHold` |
| `CohDeadlockFree` (`MCCoherence`) | 2 caches, 3 lines, 2 ways, 2 TBEs, 2 MSHRs | `NoDeadlock` with back-invalidation |
| `CohLive` (`MCCohLive`) | 2 caches, 2 lines, 1 way, 2 versions | `TransactionsComplete`, under fairness, and `L2CopyCurrent`, while the lines replace each other; `TypeOK`, even after `ReplaceAnyway` |
| `CohTwoHomes` (`MCCoherence`) | 3 caches, 2 banks in one VC, stores | finding 1 |
| `CohFourSharers` (`MCCoherence`) | 4 caches, 3 lines, loads | finding 2 |
| `CohTbeFull` (`MCCoherence`) | 2 caches, 4 lines, 3 ways, 2 TBEs | finding 3 |
| `L1` (`MCL1`) | 2 ways, 2 MSHRs, up to 3 lines and requests; 3 workloads | `EventsLegal`, `NothingTwice`, `ReadsAreCurrent`, `EachAnswered` |
| `Noc` (`MCNoc`) | 2x2 mesh or one router, 2 networks of 2 VCs, buffers of 3 | `RouterSafe`, `PacketsWhole`, `MeshSafe`, `ImplementsFifo`, `OthersDrain`, `AlwaysDrains` |
| `Tile` (`MCTile`) | one tile, 3 networks of 2 VCs, buffers of 2; 3 workloads | `TileSafe`, `ShownInOrder`, `EachSideInTurn`, `OwnIsDelivered` |
| `Scen` (`MCScenarios`) | 3 caches, 4 lines, 8 scripts | `AssertionsHold`, `ScenariosEnd` |
| `Bench` (`MCBench`) | the small machines | `NotStarved`, `TranscriptionsAgree`, `GaugeHonest`, `SweepSound`, `AlarmsSound`, `FlowSound`, `MergeSound`, `TreeKept`, `RestorableFromGit` |

`CohRaces` (one line, so nothing is ever replaced and the two are the same),
`CohRecall`, `CohDeadlockFree` and `CohFourSharers` are of the restricted
specification, `CohTwoHomes` and `CohTbeFull` of `Spec`. A behaviour of `CohLive` is of one of the two: of the restricted one with fairness and all
operations on one line, or of `Spec` with loads only, where the way is replaced
under a line in transition. Deadlock is checked in every run but two: in
`CohLive` the second part does stop (requests wait for a line that is gone), and
the machines of `Bench` end (a merge is written, a script is done).

### Bounds

* `Coherence`. Three caches are the least that give a race its requester, its
  owner and a bystander (a third sharer to invalidate, or a second requester
  queued behind the first). Four lines on three ways with two TBEs give a
  victim, lines in transition, a requester of a fourth, and TBEs that run out.
  One line shows every race of one line: lines interact only through L2 ways,
  TBEs, MSHRs and channels, which the runs with more lines have. Three versions
  tell the current store from the last and from the one before; one version is
  enough where data plays no part. `AckHalf` is 4, the width of a four-tile
  system. One way in `CohLive` is the smallest set in which lines replace each
  other. Symmetry is over caches, and over lines where all lines are treated
  alike; no run of a liveness property uses it.
* `L1`. Each workload fills one resource of the two-way set: one line contended
  by everybody, three lines for two ways, more misses than MSHRs. Requests are
  finite and numbered.
* `Noc`. Packets longer than a buffer, packets that queue on one VC from two
  ports, a network stalled for ever beside a live one; in the mesh, packets
  that meet on the way to one tile and packets that follow each other. In the
  mesh buffers are one flit longer than a packet, the design's proportion.
* `Tile`. Buffers shorter than the longest packet, so that credits run out in
  the middle of one. The workloads: responses of both sides with another tile's
  data; a forward that is refused; a side with twice the responses of the other.
* `Bench`. Four requesters at the arbiter; two addresses' sets at both ends of
  the range; one file of two entries, eleven cycles, a sample every third and a
  threshold of three; two sets, tiles and tags for the checker; two lines and
  tags, or one contended line, with words of two bytes; a sweep of 2 to 17 ns in
  three steps with the threshold inside the bracket or at its end, two
  invocations and two versions of the sources; three Liberty files with at most
  one group each; three mutations in two files, one of which no longer has its
  site after an edit. Tiles, tags, lines and attribute values are symmetric; the
  only temporal property, `RestorableFromGit`, is of single steps.

### Fairness

* `Coherence` (`Fairness`). The hardware is clocked, so a handler that can run
  does: weak fairness for forwards, responses, retirement and recall answers. A
  bank's requests get strong fairness: a tile's requests and those of others
  enter the bank's FIFO in turn, through round-robin arbiters, so a request is
  not passed over for ever, although a competing request may stand at the head
  again and again. Core operations get no fairness. Fairness of `Retire` is an
  assumption: `retire_now` yields to every hit in S1, and a core that hits in
  every cycle is outside the model.
* `L1`. Weak fairness of the clock, of the homes' answers and of the sharers'
  acknowledgements; strong fairness of the arrival of a response and of a
  forward for each line, as the network may bring something else first. Other
  caches need not ask. Requests are finite, so retirement cannot be starved.
* `Noc`, `Tile`. Weak fairness of the clock alone: the arbiters and credits must
  do the rest. Sinks that may refuse get none.
* `Scen` (`ScriptFairness`). The script goes on, cores and hardware move while
  they can; nothing says how many steps a wait gives them.

### Findings

1. `CohTwoHomes` (`tile_nic.sv:274`). `docs/races.md:290` argues that a stall
   on VN1 is bounded because the data it waits for is already on its way, and
   `docs/deadlock.md:104` that three virtual networks are sufficient. Take
   line x in bank 0 and line y in bank 2, whose packets use the same VC, and
   two caches storing to both. Each bank grants its line to a different cache
   and forwards the other's request to it; each cache stalls that forward in
   IM_AD, waiting for data. The forwards that would produce that data stand
   behind the stalled ones in the same ejection VC. Nothing can move. With one
   bank `CohDeadlockFree` finds no such state.
2. `CohFourSharers` (`dir_ctrl.sv:315`). Four sharers in a four-tile system
   are the value -4 in the signed comparison, so the first recall answer is
   taken for the last; the line leaves the L2 while others still hold it.
   `coh_pkg.sv:89` says the width covers this case.
3. `CohTbeFull` (`dir_ctrl.sv:582`). The path from D_LOOK to D_BINV does not
   test `tbe_alloc_ready`. Four lines of one bank in S_D and a miss in a full
   set violate `a_tbe_alloc_into_free` (`dir_ctrl.sv:857`).

### Seen while modelling

Places where the code does not do what a comment says, or leaves a gap, for
which there is no run of their own. The models do what the code does; where a
property would fail on one of them it is stated so that the case is visible in
its hypothesis.

* `l1_cache.sv:852`: retirement yields to every hit in S1, so a core that hits
  in each cycle keeps a finished miss waiting, against the priorities of the
  file's header (13-22).
* `l1_cache.sv:1045`: a request that replays before its victim's Put-Ack frees
  an MSHR may evict the other way as well; lines 33-35 speak of one victim.
* `probe.py:169`: an owner's answer to a recall is recorded as Data at M,
  although the comment at 167 says answers to recalls are skipped.
* `probe.py:272`, `test_stress.py:185`: an entry that is freed is sampled with
  its last age one cycle later; and the stress tests do not sample in the drain,
  so "at most `every` cycles" (`probe.py:250`) holds up to the drain only.
* `oss_synth.py`: a sweep that is killed leaves files labelled with the upper
  end of its bracket (333, 376); the lower end is accepted without being shown
  to fail (403, 67); a conversion killed half-way stays in the cache (122, 109);
  without OpenSTA the run ends in an exception where the Makefile promises a
  report (394, `Makefile:44`); `--sram flops` still reports black boxes (154,
  `syn/README.md:116`).
* `merge_lib.py`: two headers that contradict each other are merged when the
  first file says nothing (130, 34); a table reference is satisfied by a
  declaration of another kind with the same name (110, 25).
* `mutate.py:80`: an interrupt that arrives while the file is being restored
  leaves the mutation in the tree, against 15-16.

## 4. Proofs

TLAPS, from this directory: `tlapm CohSafety_proofs.tla`, and in the same way
the other modules named `_proofs`. The three `Coh..._proofs` take from two to ten
minutes each, `L1_proofs` about nine, `Bench_proofs` from five to ten, `Tile_proofs`
five, `Router_proofs` and `Noc_proofs` one to three.

### The protocol

For any finite set of caches and any banks, lines, ways, MSHRs, transaction
buffers and versions, every safety property of `Coherence` that a run checks is
a theorem:

| theorem | property |
|---|---|
| `OneWriterAlways` | `SingleWriter` |
| `LatestReadAlways` | `LatestDataRead` |
| `CacheEventsAlways`, `BankEventsAlways` | `CacheEventsLegal`, `BankEventsLegal` |
| `CopyCurrentAlways` | `L2CopyCurrent` |
| `InclusionAlways` | `Inclusion` |
| `TbesMatchAlways` | `TbesMatchDirectory` |
| `CountExactAlways` | `RecallCountExact` |
| `RefinesSharedMemory` | `ImplementsSharedMemory` |
| `ExcusesHoldAlways` | `ExcusesHold` (of `CoverageClaims`) |
| `VictimAlways`, `TypeCorrect` | `VictimForRecall`, `TypeOK` |

**Assumptions.** Besides the `ASSUME`s of the modules there are three, none of
which every execution of the code satisfies by itself; two of them are what
findings 2 and 3 are about.

* `CachesFit`: there are at most `AckHalf` caches. `coh_pkg.sv:86-100` derives
  the width of the counts from the number of tiles, so it holds of every
  configuration whose number of tiles is a power of two, the four-tile one
  included, with equality.
* `RoomySpec` instead of `Spec` (section 2): a line is replaced only with a
  free buffer entry and a line that may go. These are two of `dir_ctrl`'s
  assertions: `AssertionsMakeRoom` shows that an execution of `Spec` in which
  they hold is one of `RoomySpec`, and `EntriesMakeRoom` that the one about the
  entry is enough when there are more ways than entries, as by default. Finding
  3 is an execution in which it does not hold.
* `[]RecallsFit`: no line is recalled from `AckHalf` caches at once, which
  the signed comparison of `binv_expect` takes for a negative number. Finding 2
  is an execution in which it does not hold, in four tiles. `FewCachesFit`: with
  fewer caches it always holds.

`SpareWaysMakeRoom` shows that the last two hold of every execution of `Spec`
where each bank has a way for each of its lines, so the hypotheses restrict
nothing but back-invalidation. `TypeCorrect` and `VictimAlways` need neither:
they are about `Spec`, the last with more ways than entries.

**The invariant.** None of these properties is inductive. `SingleWriter` speaks
of caches, but whether a cache may take the data it waits for depends on who
else is still to be told, which only the messages in flight say. `IInv`
(`CohInvariant_proofs`) says it line by line:

* `Channels`, `Banks`: no message is in a channel twice, nothing about a line
  follows its Put-Ack, each kind of message is only sent where it belongs; a
  buffer entry belongs to one line, and a recall in progress holds its bank: the
  way is not free yet and the miss that began it still heads its queue.
* `MshrMatches`, `Questions`, `PutAcks`, `DataMsgs`: an MSHR has one request in
  flight, or one answer, or has passed both; which, its state tells.
* `Owners`, `OwnerFwds`: a cache owns a line (`Own`) when it is in E or M, or
  its data has been sent, or it is evicting it and nobody has asked. There is at
  most one, and a cache is the recorded owner of a line exactly when it owns it,
  or will when its turn comes (`Waits`), and has not been asked for it.
* `NoCycle`: the caches that wait for one another's forwarded data are a chain
  that ends at the owner. In a cycle of GetM forwards everyone would be
  recorded, or about to be, and nobody would have the data. It is stated over
  sets of caches, so that no path has to be named.
* `Sharers`, `Invs`, `InvAcks`, `AckCounts`: a copy is known to the bank, or an
  Inv is on its way to it for the one store that owns the line; the count of that
  store is the number of Invs and acknowledgements that are out, before and
  after its data arrives.
* `WriteBacks`, `Recalls`: data comes back only to a bank that waits for it; the
  count in the buffer is the number of recalls and answers that are out.
* `Contents`, `BankCopy`: every copy that may still be used is the last store's,
  in a cache, in a message, in the bank or in memory.

TLC found `IInv` to hold in every reachable state of the instances of `CohRaces`
and `CohRecall` before it was proved. Several of its parts exist because a
proof attempt failed without them: that nothing follows a Put-Ack (a forward to
a line that is gone), `NoCycle`, the miss that heads the queue for the duration
of a recall (its line could be fetched meanwhile into the way the recall frees).

**The argument.** A step takes a message from one channel, changes one line of
one cache or one bank, and puts messages on channels. The lemmas of
`CohInvariant_proofs` say what each of these does to what is in flight
(`ItemsTail`, `SendFwdEffect`, ...), and that everything about the other lines
stays (`LineKept`, the `Same...` definitions). It and `CohBanks_proofs` then have one lemma per action, divided into the cases of the
tables (a forward that passes ownership on, an Inv, a request of a line nobody
has, a late Put, a recall's answer that is or is not the last) and
under each case one step per conjunct of `LineInv`. `NextInv` gathers them,
`ProtocolInvariant` is `RoomySpec => []IInv`, and the safety properties are
consequences of `IInv` state by state.

**The refinement.** `RefinesSharedMemory` is by steps: a lemma per action of the
abstract memory says which change of permissions is one (`AcquireRead`,
`AcquireWrite`, `Store`, ...), and each action of `Coherence` is one of them or
leaves what cores can see as it was. `IInv` supplies that others have
lost their permission when a writer gets its own, and that what a reader gets is
the last store. With `SMCorrect` this is what the protocol promises its cores.

**The excuses.** `ExcusesHold` needs one fact that `IInv` does not have, where
an owner's data can come from (`OwnerData`), which is inductive beside it.

### The cache, cycle by cycle

For any set of lines, any number of MSHRs and any workloads, the three safety
properties of `L1` hold of every execution of the `Spec` of `L1Harness`:

| theorem | property |
|---|---|
| `EventsAlwaysLegal` | `EventsLegal` |
| `NeverTwice` | `NothingTwice` |
| `ReadsStayCurrent` | `ReadsAreCurrent` |

**Assumptions.** `PipelineShape`: there is an MSHR, and `NoLine` is no line.
`WorkloadShape`: requests are loads and stores of lines, and the other caches ask
for lines with a GetS or GetM. There is no further hypothesis, but the theorems
are about the cache among the homes and the neighbour of `L1Harness`, where the
other caches have one record and send one acknowledgement. That the protocol is
right with any number of them is what the theorems about `Coherence` say.

**The invariant.** Whether a message meets a blank cell when it is offered depends
on what has happened to its line since it was sent, so none of this is inductive
without the messages in flight. `IInv` says

* where things are. `Places`: a line is in one way or one entry at most, and a
  fetch has a way of its own in a transient state. `Requested`: S1 and the
  replay slot are never both full, and a request waits in one place, exactly as
  long as the core waits for it;
* what a line, its home and the messages between them have in common. For each
  line, `LinesOk` says which demand `d` is on its way on VN1, whether a Put-Ack
  `p` is behind it, which data `x` is on its way on VN2, and the number `a` of
  acknowledgements beside it. `LineOk` ties them to the phase the line is in:
  `AtRest`, a fetch that is `Unserved`, `Served` or `Finished`, or `Evicted`.
  `Agree` is its core: the state of the line and the record of the home differ
  just by the demand on its way. `Calm`: a home that waits for answers to one
  demand grants nothing new. `OthersOk`: an owner shares with nobody;
* where the latest data is. `FreshLine`: in the array or the store buffer in
  front of it, in an MSHR, in a message, in the V1 machine (in a way that is
  still to be read, or latched), in a PutM, or else at home. `AnsweredFresh`: what has just
  been given out was the latest.

TLC found it to hold in the instance of `L1`. Two small parts serve the
retirement: an entry's final state is a stable one (`EntriesSound`), and a store
waits for a line it may write (`StoresWait`), so what it writes is the latest.

**The argument.** `tick` writes every register at once. `A clock edge, one
register at a time` says for each register what may be written to it in a
cycle, and `OneEvent` that the conflicts the code checks leave at most one of a
hit, an allocation, a victim's departure, a forward, a response and a retirement
to a line (`PhaseTick` adds that a response and a retirement exclude each other). `LineTick` then has a case for each of them and one for none
(`LineSame`), and lemmas of their own say where the data goes. A step of the
homes or of the neighbour moves one line (`ElseOutside`), and has a lemma each.
`EventsLegal` follows from `LineOk`: in each phase, the demand and the data in
flight have a cell in the table that is not blank.

### The network

`MeshSafeAlways`: on a mesh of any size, with any virtual networks, VCs, buffer
depth, credit delay and packets, `MeshSafe` holds of every execution of the
`Spec` of `MeshHarness`, provided packets are shorter than a buffer
(`ShortPackets`). That is the design's proportion (`coh_pkg.sv`: a line is a head
and two flits, a buffer has four slots) and only `NeverFull` needs it:
`MeshKeepsItsLinks` is the rest, for packets of any length. The `ASSUME`
`MeshAssumption` and `RouterShape` say what `generate` is called with: tiles,
networks, and at least one flit.

`RouterAlwaysSafe` and `PacketsStayWhole`: of the single router under its harness,
with any packets on any ports, longer than a buffer or not, and any set of virtual
networks stalled, `RouterSafe` and `PacketsWhole` hold of every execution of
`NocSpec`. `RouterAssumption` says what `queue_packet` is called with: a port.

**The invariant.** That a link conserves credits is inductive with little help.
That a head finds its VC idle is not: the sender frees a channel when the credit
of a tail comes back, so the far end must have let go of just that packet, and
its registers do not say which packet it has. After the last buffered flit of an
unfinished packet has left, nothing in the router does. `MeshInv(K, N)` therefore
takes two functions that are not in the code: for each input VC, the packet it is
open for and how many of its flits have come in. `IInv` says that such functions
exist, so no history variable is added to the model. Its parts:

* `VcOpen`: a VC is idle exactly when nothing has come, its buffer holds the last
  of the flits that have (`Holds`), and its state tells whether the head is among
  them;
* `OutChannel`, `Line`: a channel of a link is held by one input VC of the sender
  at most; what that VC has sent and what has come at the far end, with the flit
  on the wire, are the same flits of the same packet; a channel nobody holds is
  still busy until the far end's tail has left and its credit is back;
* `Joined`, `EdgeOf`, `LocalOk`: the credits of each link; a port at the edge,
  where nothing ever comes; the two sides of a local port, whose far end is the
  test bench.

TLC found `MeshInv` to hold in the instances of `Noc`, with the two functions
kept beside the state, before it was proved.

**The argument.** All routers are clocked at once, so the proof is by links: one
lemma says what an edge does to an input VC (`SteppedVc`), one what it does to
what a sender knows of a channel, one what it does at the far end, and
`LinkStep` joins them for any two neighbours. `LocalStep` is the same with the
test bench for one of them. The routing is needed at the edges: `RouteStays`
shows that a route never leads out of the mesh, and leads to the local port only
at the destination.

**The single router.** The same lemmas, all in `Router_proofs`, serve `Noc_proofs`
a second time, with the test bench at the far end of all five ports. `RouterInv`
takes two more functions, for each channel of an output the packet the harness is
taking and how many of its flits have come, and adds

* `QueueOk`: the credit of a tail waits in the queue of the harness only when its
  packet has come whole, and one for a channel at most; without it the channel
  could be freed for the next packet in the middle of this one;
* `Shut`, for a stalled network instead of `Drained`: the credits spent on it
  never come back, so that the router has at most `VcDepth` of them and never
  sends a flit without;
* `LastCame`, `Whole`: what has come out of a port so far is in order on each
  channel, and ends there with the flit that the two functions tell of. This ties
  the history `received` to the registers: the next flit of the channel `Follows`
  it, which `OutChannel` already says of the router.

**The tile.** `TileAlwaysSafe`: of a tile's interface at its router, for any
workloads and any tile, `TileSafe` holds of every execution of the `Spec` of
`TileHarness`. `TileAssumption` says that a tile's number is natural (`TILE_ID` is
an `unsigned`; the channel of its messages is computed from it), that a message's
destination is one too, and that messages are what the router is built for. The lemmas of `Router_proofs` serve a third
time: the router cannot tell the interface from another sender and receiver, so
only the interface's own edge is new. `TileInv` has

* `Injected`: the interface as the sender of a channel. Of a network it uses one
  channel only, `Lane(n)`, and what it has sent of the message it is at, and what
  has come in the router, are the same flits (`Line`);
* `SlotOk`: the interface as the receiver, with the packet and the flits that have
  come of it (`KS`, `NS`) as for an input VC. They are still those of the old packet
  while the slot is full, and after it until the tail's credit has gone: a slot
  that is empty is not yet free;
* `Ejected`: the credits of a channel are at the router, on the wires, owed for
  body flits, or owed for the one tail that is waiting to be taken or has been.
  The interface returns one a cycle and may owe several, so what is owed is
  part of the sum.

`OwnStaysInOrder`: in the same generality, `ShownInOrder`. `order[n]` holds the
tile's messages to itself on network `n` that have been started and not been
handed over, and may have any length as far as its type goes. Because a message's
channel is fixed by its tile and its network, the router has room for two:
`Ordered` says that `order[n]` is the chain (`Chain`) of at most one message
*below*, which is leaving the local output or is in the slot, and one *above* it,
whose head waits in the local input VC. The rest of
`Ordered` is what makes a step of the interface a step of the chain (`Hops`):

* `Origins`: a packet in a local input VC is of this tile, on its network's own
  channel, and one in another input VC is the neighbour's (`HomeRoute`: a packet turns to
  the local port just when it is for this tile, by the division of tile numbers
  into rows and columns);
* the one above goes down only when nothing is below: its channel is taken until
  the tail's credit is back, which `TileInv` ties to the slot being empty
  (`BelowStep`, `AboveStep`). It is what fails when the interface takes any free channel;
* `Unique` and `OrderOk`: a message is in one place of one queue, still to be
  sent, or in the order, and never two of these, so that a hand-over takes the
  one that was shown out of the order, and no other.

### The rest

* `TypeCorrect`: `Spec => []TypeOK`. `TypeOK` is not inductive: a forward is
  sent to `dir[l].owner`, which the type allows to be `None`. The invariant
  `TypeInv` adds `OwnerKnown`, a line in E or M has an owner, which the
  directory table keeps. It needs no restriction and no bound on the caches.
* `VictimAlways`: a counting argument; were every resident line busy, a choice
  of one entry per line would inject the full set into the TBEs.
* `SMCorrect`: in the abstract memory, writers exclude all others and readers
  see the last store, for all sets of caches and lines.

### The test bench and the scripts

`Bench_proofs` is about `BenchSpec` of `MCBench`, for every value of its
constants. The machines share no state, so each theorem rests on an inductive
invariant of one machine, which holds in the bench while `part` names it. The
`ASSUME`s are that the constants have the types their modules give (`BenchTypes`)
and an arithmetic fact about powers of two that the provers do not know
(`BenchPowers`); TLC evaluates both.

| theorem | property | invariant |
|---|---|---|
| `ArbiterFair` | `NotStarved` | `IInv`: the times an index has been passed over and its distance from the pointer are fewer than `N` together; a grant to another moves the pointer past it, nearer by at least one. The count alone is not inductive |
| `CheckerSound` | `SweepSound` | `SweepInv`: the set on show is the one at the index, and a set that has been left alone for more cycles than have passed since it was sampled has all its conflicts reported |
| `ScoreboardSound` | `AlarmsSound` | `ScoreInv`: a tag is free, offered, accepted or answered, and never two of these; where operations are checked a busy line has exactly one of them, whose prediction is what memory holds or will; what a racing load may find is among the values stored |
| `GaugeSound` | `GaugeHonest` | `GaugeInv`: an entry's age is at most the worst sampled and the cycles since the last sample; it is one less than the entry has lived, or equal in the cycle after it is freed |
| `FlowIsSound` | `FlowSound` | `FlowInv`: `Bracket`, what was tried at either end of the bracket, and its width after so many steps; `Stage`, which files are this run's at each stage |
| `MergeKeepsAll` | `MergeSound` | `MergeInv`: the cells and declarations so far are those of the places already passed, in their order |
| `MutationsTakenBack`, `MutatedFilesCommitted` | `TreeKept`, `RestorableFromGit` | `RunInv`: the files of the mutations that are left are as committed, and so is the backup; unless something worse than an interrupt may come, the file under test is the only one with a mutation |

`GaugeSound` says more than the run: where the drain is not sampled, as in the
stress tests, the bound on the missed peak holds up to the drain, and the other
two parts always. `RestorableFromGit` is a property of steps.

### Only model-checked

* Liveness under fairness (`TransactionsComplete`, `EachAnswered`, `OthersDrain`,
  `AlwaysDrains`, `EachSideInTurn`, `OwnIsDelivered`, `ScenariosEnd`) and
  `NoDeadlock`, which is stated with ENABLED, are out of the prover's reach.
* Of the network, that it is a FIFO (`ImplementsFifo`, an induction over
  sequences filtered by channel); and the scenarios (`Scen`), whose assertions
  are about given scripts.
* `TranscriptionsAgree` compares finite tables cell by cell, and packed vectors
  field by field with folds: TLC evaluates every case, and there is nothing to
  generalise but the fold, which is induction over data.

## 5. Not modelled, and the plan

Not modelled:

* the bank's cycle machine, its input queues and the TBE file as a file
  (`dir_ctrl.sv` D_LOOK to D_SEND): one step per message in `Coherence`. The
  bound on the VN2 queue (`dir_ctrl.sv:79`) therefore has no property;
* the memory model's port, latency and single outstanding request: a value per
  line, read and written in one step;
* the skid buffer, and the delay hook's holds of VN1 and VN2: used by no
  modelled path;
* SRAM macros, the reset synchroniser, the wiring of tiles and of the system:
  storage without control, and connections;
* the probe's witnesses (saw, require, count) and the coverage report's layout,
  the hang dump's text and tracer, the simulator's build, the commercial flow,
  the collection of results and the diagrams: output without control.

Next:

1. `DirCtrl`: the bank's cycle machine, shown to implement the steps of
   `Coherence`, with the bound on its queues; `MemModel` with it.
