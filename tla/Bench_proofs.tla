------------------------------ MODULE Bench_proofs ------------------------------
(***************************************************************************)
(* What the arbiter, the checkers of the testbench and the scripts around  *)
(* them promise, for any number of requesters, tiles, sets, tags, lines,   *)
(* mutations and files.  Each part of the bench has an inductive invariant *)
(* of its own; in the bench it holds while `part` names that part.         *)
(***************************************************************************)
EXTENDS MCBench, FiniteSetTheorems, SequenceTheorems, WellFoundedInduction, TLAPS

---------------------------------------------------------------------------
(* The arbiter.  That a grant exists whenever somebody asks is not part of *)
(* it: it is a matter of the least element of a finite set.                *)

\* The winner asks, and no other index that asks is nearer to the pointer.
LEMMA WinnerIsNearest ==
    ASSUME TypeOK, NEW w \in Gnt(req, ptr), NEW i \in req, i # w
    PROVE  /\ w \in req
           /\ Distance(w) < Distance(i)
<1>1. CASE {j \in req : j >= ptr} # {}
  BY <1>1, NAssumption DEF Gnt, LowestBit, TypeOK, Index, Distance
<1>2. CASE {j \in req : j >= ptr} = {}
  BY <1>2, NAssumption DEF Gnt, LowestBit, TypeOK, Index, Distance
<1>3. QED
  BY <1>1, <1>2

\* The winner is a requester.
LEMMA WinnerAsks ==
    ASSUME TypeOK, NEW w \in Gnt(req, ptr)
    PROVE  w \in req
BY DEF Gnt, LowestBit

\* Nobody is passed over before the first cycle.
LEMMA InitIInv == Init => IInv
BY NAssumption DEF Init, IInv, TypeOK, Close, Index, Distance

\* A cycle moves the pointer nearer to all it passes over, by more than one.
LEMMA NextIInv == IInv /\ [Next]_vars => IInv'
<1> SUFFICES ASSUME IInv, [Next]_vars PROVE IInv'
  OBVIOUS
<1> USE NAssumption
<1>1. ASSUME NEW w \in Index, Taken(w) PROVE IInv'
  <2>1. w \in req /\ w \in Gnt(req, ptr)
    BY <1>1, WinnerAsks DEF Taken, IInv
  <2>2. TypeOK'
    BY <1>1 DEF Taken, IInv, TypeOK, PtrPast, Index
  <2>3. Close'
    <3> SUFFICES ASSUME NEW i \in Index PROVE passed'[i] + Distance(i)' < N
      BY DEF Close
    <3>1. passed[i] + Distance(i) < N /\ passed[i] \in Nat
      BY DEF IInv, Close, TypeOK
    <3>2. CASE i \in req \ {w}
      <4>1. Distance(w) < Distance(i)
        BY <3>2, <2>1, WinnerIsNearest DEF IInv
      <4>2. Distance(i)' < Distance(i)
        BY <4>1, <1>1 DEF Taken, PtrPast, Distance, IInv, TypeOK, Index
      <4>3. passed'[i] = passed[i] + 1
        BY <3>2, <1>1 DEF Taken
      <4>4. Distance(i)' \in Int /\ Distance(i) \in Int
        BY <2>2 DEF Distance, IInv, TypeOK, Index
      <4>5. QED
        BY <3>1, <4>2, <4>3, <4>4
    <3>3. CASE i \notin req \ {w}
      <4>1. passed'[i] = 0
        BY <3>3, <1>1 DEF Taken
      <4>2. PICK q \in 0 .. N - 1 : q = ptr'
        BY <2>2 DEF TypeOK, Index
      <4>3. i \in 0 .. N - 1
        BY DEF Index
      <4>4. Distance(i)' = IF i >= q THEN i - q ELSE i - q + N
        BY <4>2 DEF Distance
      <4>5. Distance(i)' \in Int /\ Distance(i)' < N
        BY <4>3, <4>4
      <4>6. QED
        BY <4>1, <4>5
    <3>4. QED
      BY <3>2, <3>3
  <2>4. QED
    BY <2>2, <2>3 DEF IInv
<1>2. CASE NotTaken
  BY <1>2 DEF NotTaken, IInv, TypeOK, Close, Index, Distance
<1>3. CASE UNCHANGED vars
  BY <1>3 DEF vars, IInv, TypeOK, Close, Index, Distance
<1>4. QED
  BY <1>1, <1>2, <1>3 DEF Next

\* NotStarved follows, because no distance is negative.
LEMMA IInvNotStarved == IInv => NotStarved
<1> SUFFICES ASSUME IInv, NEW i \in Index PROVE passed[i] < N
  BY DEF NotStarved
<1>1. passed[i] \in Nat /\ Distance(i) \in Nat /\ passed[i] + Distance(i) < N
  BY NAssumption DEF IInv, TypeOK, Close, Index, Distance
<1>2. QED
  BY <1>1, NAssumption

\* In every run of the arbiter an index that keeps asking is passed over at
\* most N - 1 times: the pointer moves past a winner only when it is taken
\* (rr_arbiter.sv).
THEOREM ArbiterFair == Spec => []NotStarved
<1>1. Spec => []IInv
  BY InitIInv, NextIInv, PTL DEF Spec
<1>2. QED
  BY <1>1, IInvNotStarved, PTL

---------------------------------------------------------------------------
\* A set of naturals that is not empty has a least element.
LEMMA LeastExists ==
    ASSUME NEW T \in SUBSET Nat, T # {}
    PROVE  \E x \in T : \A y \in T : x <= y
<1>1. PICK x \in T : \A y \in T : ~(<<y, x>> \in OpToRel(<, Nat))
  BY NatLessThanWellFounded, WFMin
<1>2. \A y \in T : ~(y < x)
  BY <1>1 DEF OpToRel
<1>3. QED
  BY <1>2

\* The modules of the scripts and of the scoreboard count as this one does.
LEMMA SameCardinality ==
    \A S : Mutate!Cardinality(S) = Cardinality(S) /\ Score!Cardinality(S) = Cardinality(S)
BY DEF Mutate!Cardinality, Score!Cardinality, Cardinality

---------------------------------------------------------------------------
(* The single-writer checker.  The sets are at places 0 .. Len(Sets) - 1   *)
(* of the sweep; a set that has not changed since it was last sampled has  *)
(* all its conflicts reported, and it was last sampled Since(i) calls ago. *)

Place == 0 .. Len(Sets) - 1

Since(i) == IF i < idx THEN idx - 1 - i ELSE idx - 1 - i + Len(Sets)

\* What the checker holds about the arrays and its own place in the sweep.
SweepType ==
    /\ array \in [Swmr!SetIdx -> [Tile -> [CacheWay -> Swmr!Entry]]]
    /\ age \in [Swmr!SetIdx -> 0 .. Len(Sets)]
    /\ idx \in Place

SweepInv ==
    /\ SweepType
    /\ dbg_set = Sets[idx + 1]
    /\ Swmr!ReportedTrue
    /\ \A i \in Place, tg \in TagVal :
          age[Sets[i + 1]] > Since(i) /\ Swmr!Conflict(array, Sets[i + 1], tg)
              => <<Sets[i + 1], tg>> \in violations

\* The sets of the sweep, by their places.
LEMMA SweepPlaces ==
    ASSUME Swmr!SweepAssumption
    PROVE  /\ Len(Sets) \in Nat \ {0}
           /\ \A i \in Place : Sets[i + 1] \in Swmr!SetIdx
           /\ \A i, j \in Place : Sets[i + 1] = Sets[j + 1] => i = j
           /\ \A s \in Swmr!SetIdx : \E i \in Place : s = Sets[i + 1]
<1>1. Len(Sets) \in Nat \ {0}
  BY LenProperties DEF Swmr!SweepAssumption
<1>2. \A i \in Place : i + 1 \in 1 .. Len(Sets) /\ Sets[i + 1] \in Swmr!SetIdx
  BY <1>1 DEF Place, Swmr!SetIdx
<1>3. \A i, j \in Place : Sets[i + 1] = Sets[j + 1] => i = j
  <2> SUFFICES ASSUME NEW i \in Place, NEW j \in Place, Sets[i + 1] = Sets[j + 1] PROVE i = j
    OBVIOUS
  <2>1. i + 1 = j + 1
    BY <1>2 DEF Swmr!SweepAssumption
  <2>2. QED
    BY <2>1, <1>1 DEF Place
<1>4. \A s \in Swmr!SetIdx : \E i \in Place : s = Sets[i + 1]
  <2> SUFFICES ASSUME NEW k \in 1 .. Len(Sets) PROVE \E i \in Place : Sets[k] = Sets[i + 1]
    BY DEF Swmr!SetIdx
  <2>1. k - 1 \in Place /\ (k - 1) + 1 = k
    BY <1>1 DEF Place
  <2>2. QED
    BY <2>1
<1>5. QED
  BY <1>1, <1>2, <1>3, <1>4

\* At reset every way is invalid and no set has been left alone.
LEMMA SweepInit == ASSUME Swmr!SweepAssumption, Swmr!Init PROVE SweepInv
<1>1. array \in [Swmr!SetIdx -> [Tile -> [CacheWay -> Swmr!Entry]]]
  BY DEF Swmr!Init, Swmr!Entry, Swmr!SweepAssumption
<1>2. age \in [Swmr!SetIdx -> 0 .. Len(Sets)] /\ idx \in Place
  BY SweepPlaces DEF Swmr!Init, Place
<1>3. dbg_set = Sets[idx + 1] /\ Swmr!ReportedTrue
  BY DEF Swmr!Init, Swmr!current_set, Swmr!ReportedTrue
<1>4. ASSUME NEW i \in Place PROVE age[Sets[i + 1]] = 0 /\ Since(i) \in Nat
  BY <1>2, SweepPlaces DEF Swmr!Init, Place, Since
<1>5. QED
  BY <1>1, <1>2, <1>3, <1>4 DEF SweepInv, SweepType

\* A conflict in a set depends on that set only.
LEMMA ConflictOfSet ==
    ASSUME NEW s, NEW tg, NEW a, NEW b, a[s] = b[s]
    PROVE  Swmr!Conflict(a, s, tg) <=> Swmr!Conflict(b, s, tg)
<1>1. Swmr!Holders(a, s, tg) = Swmr!Holders(b, s, tg)
  BY DEF Swmr!Holders
<1>2. \A states : Swmr!In(a, s, tg, states) = Swmr!In(b, s, tg, states)
  BY <1>1 DEF Swmr!In
<1>3. QED
  BY <1>2 DEF Swmr!Conflict

\* Every place but the one that is sampled was sampled one call longer ago.
LEMMA SampledCall ==
    ASSUME Swmr!SweepAssumption, SweepType, idx' = Swmr!Advance(idx)
    PROVE  /\ idx' \in Place /\ dbg_set' = Swmr!Shown(idx) => dbg_set' = Sets[idx' + 1]
           /\ idx' \in Place
           /\ \A i \in Place \ {idx} : Since(i)' = Since(i) + 1
           /\ \A i \in Place : Since(i) \in 0 .. Len(Sets) - 1
           /\ \A i \in Place : Since(i)' \in 0 .. Len(Sets) - 1
<1>1. PICK L \in Nat \ {0} : L = Len(Sets)
  BY SweepPlaces
<1>2. PICK k \in 0 .. L - 1 : k = idx
  BY <1>1 DEF SweepType, Place
<1>3. idx' = IF k + 1 = L THEN 0 ELSE k + 1
  BY <1>1, <1>2 DEF Swmr!Advance
<1>4. idx' \in Place
  BY <1>1, <1>2, <1>3 DEF Place
<1>5. dbg_set' = Swmr!Shown(idx) => dbg_set' = Sets[idx' + 1]
  BY DEF Swmr!Shown, Swmr!current_set, Swmr!Advance
<1>6. \A i \in Place : Since(i) \in 0 .. L - 1
  BY <1>1, <1>2 DEF Place, Since
<1>7. \A i \in Place \ {idx} : Since(i)' = Since(i) + 1
  BY <1>1, <1>2, <1>3 DEF Place, Since
<1>8. \A i \in Place : Since(i)' \in 0 .. L - 1
  BY <1>1, <1>4 DEF Place, Since
<1>9. QED
  BY <1>1, <1>4, <1>5, <1>6, <1>7, <1>8

\* A call of check reports what the bus shows, under the right name.
LEMMA SweepCheck == ASSUME Swmr!SweepAssumption, SweepInv, Swmr!check PROVE SweepInv'
<1> USE DEF Swmr!check
<1>1. idx' \in Place /\ dbg_set' = Sets[idx' + 1]
  BY SampledCall DEF SweepInv, Swmr!check
<1>2. SweepType'
  <2>1. age' \in [Swmr!SetIdx -> 0 .. Len(Sets)]
    BY SweepPlaces DEF SweepInv, SweepType
  <2>2. QED
    BY <2>1, <1>1 DEF SweepInv, SweepType
<1>3. Swmr!ReportedTrue'
  BY DEF Swmr!ReportedTrue, SweepInv, Swmr!current_set
<1>4. ASSUME NEW i \in Place, NEW tg \in TagVal,
             age'[Sets[i + 1]] > Since(i)', Swmr!Conflict(array, Sets[i + 1], tg)
      PROVE  <<Sets[i + 1], tg>> \in violations'
  <2>1. CASE i = idx
    BY <2>1, <1>4 DEF SweepInv, Swmr!current_set
  <2>2. CASE i # idx
    <3>1. PICK L \in Nat \ {0} : L = Len(Sets)
      BY SweepPlaces
    <3>2. Since(i)' = Since(i) + 1 /\ Since(i) \in 0 .. L - 1 /\ Since(i)' \in 0 .. L - 1
      BY <2>2, <3>1, SampledCall DEF SweepInv
    <3>3. Sets[i + 1] \in Swmr!SetIdx
      BY SweepPlaces
    <3>4. /\ age[Sets[i + 1]] \in 0 .. L
          /\ age'[Sets[i + 1]] = IF age[Sets[i + 1]] < L THEN age[Sets[i + 1]] + 1 ELSE age[Sets[i + 1]]
      BY <3>1, <3>3 DEF SweepInv, SweepType
    <3>5. age[Sets[i + 1]] > Since(i)
      BY <3>2, <3>4, <1>4
    <3>6. QED
      BY <3>5, <1>4 DEF SweepInv
  <2>3. QED
    BY <2>1, <2>2
<1>5. QED
  BY <1>1, <1>2, <1>3, <1>4 DEF SweepInv

\* A way that changes makes its set a fresh one, and no other.
LEMMA SweepChange ==
    ASSUME Swmr!SweepAssumption, SweepInv,
           NEW s \in Swmr!SetIdx, NEW t \in Tile, NEW w \in CacheWay, NEW e \in Swmr!Entry,
           Swmr!Change(s, t, w, e)
    PROVE  SweepInv'
<1> USE DEF Swmr!Change
<1>1. array' \in [Swmr!SetIdx -> [Tile -> [CacheWay -> Swmr!Entry]]]
  <2>1. array \in [Swmr!SetIdx -> [Tile -> [CacheWay -> Swmr!Entry]]]
    BY DEF SweepInv, SweepType
  <2>2. QED
    BY <2>1
<1>2. age' \in [Swmr!SetIdx -> 0 .. Len(Sets)]
  BY SweepPlaces DEF SweepInv, SweepType
<1>3. ASSUME NEW i \in Place, NEW tg \in TagVal,
             age'[Sets[i + 1]] > Since(i)', Swmr!Conflict(array', Sets[i + 1], tg)
      PROVE  <<Sets[i + 1], tg>> \in violations'
  <2>1. Since(i)' = Since(i) /\ Since(i) \in Nat
    BY SweepPlaces DEF Since, SweepInv, SweepType, Place
  <2>2. Sets[i + 1] # s
    BY <2>1, <1>3, SweepPlaces DEF SweepInv, SweepType
  <2>3. age'[Sets[i + 1]] = age[Sets[i + 1]] /\ array'[Sets[i + 1]] = array[Sets[i + 1]]
    BY <2>2, SweepPlaces DEF SweepInv, SweepType
  <2>4. Swmr!Conflict(array, Sets[i + 1], tg)
    BY <2>3, <1>3, ConflictOfSet
  <2>5. QED
    BY <2>1, <2>3, <2>4, <1>3 DEF SweepInv
<1>4. QED
  BY <1>1, <1>2, <1>3 DEF SweepInv, SweepType, Swmr!ReportedTrue

\* Neither a call of the checker nor a cache disturbs it.
LEMMA SweepNext ==
    ASSUME Swmr!SweepAssumption, SweepInv, [Swmr!Next]_(Swmr!vars)
    PROVE  SweepInv'
<1>1. CASE Swmr!check
  BY <1>1, SweepCheck
<1>2. ASSUME NEW s \in Swmr!SetIdx, NEW t \in Tile, NEW w \in CacheWay, NEW e \in Swmr!Entry,
             Swmr!Change(s, t, w, e)
      PROVE  SweepInv'
  BY <1>2, SweepChange
<1>3. CASE UNCHANGED Swmr!vars
  BY <1>3 DEF Swmr!vars, SweepInv, SweepType, Since, Swmr!ReportedTrue
<1>4. QED
  BY <1>1, <1>2, <1>3 DEF Swmr!Next

\* After a sweep without a change a set was sampled less than a sweep ago.
LEMMA SweepInvSound ==
    ASSUME Swmr!SweepAssumption, SweepInv
    PROVE  Swmr!SweepFinds /\ Swmr!ReportedTrue
<1> SUFFICES ASSUME NEW s \in Swmr!SetIdx, NEW tg \in TagVal,
                    age[s] = Len(Sets), Swmr!Conflict(array, s, tg)
             PROVE  <<s, tg>> \in violations
  BY DEF Swmr!SweepFinds, SweepInv
<1>1. PICK i \in Place : s = Sets[i + 1]
  BY SweepPlaces
<1>2. Since(i) < Len(Sets)
  BY SweepPlaces DEF Since, SweepInv, SweepType, Place
<1>3. QED
  BY <1>1, <1>2 DEF SweepInv

\* In the bench.  For any caches, sets and tags: whatever lasts a whole sweep
\* is reported, and whatever is reported is true (coherence_checker.py).
THEOREM CheckerSound == BenchSpec => []SweepSound
<1> DEFINE Inv == part = "swmr" => SweepInv
<1>0. Swmr!SweepAssumption
  BY BenchTypes
<1>1. BenchInit => Inv
  BY <1>0, SweepInit DEF BenchInit
<1>2. Inv /\ [BenchNext]_allVars => Inv'
  <2> SUFFICES ASSUME Inv, [BenchNext]_allVars, part' = "swmr" PROVE SweepInv'
    OBVIOUS
  <2>1. part = "swmr" /\ [Swmr!Next]_(Swmr!vars)
    BY DEF BenchNext, OthersOff, allVars, Swmr!vars
  <2>2. QED
    BY <2>1, <1>0, SweepNext
<1>3. Inv => SweepSound
  BY <1>0, SweepInvSound DEF SweepSound
<1> HIDE DEF Inv
<1>4. QED
  BY <1>1, <1>2, <1>3, PTL DEF BenchSpec

---------------------------------------------------------------------------
(* The mutation runner.  No commit has a mutation in it; a file that is    *)
(* about to be mutated is as it was committed, and so is its backup; while *)
(* nothing worse than an interrupt arrives the file under test is the only *)
(* one with a mutation, and it has that one.                               *)

Mutating == pc \in {"test", "restore"}

\* What the script holds, by the places it can be at.
RunType ==
    /\ head \in [Source -> Mutate!Content] /\ tree \in [Source -> Mutate!Content]
    /\ original \in Mutate!Content \cup {Mutate!None}
    /\ backup \in Mutate!Content \cup {Mutate!None}
    /\ pc \in {"idle", "read", "backup", "write", "test", "restore"}
    /\ todo \subseteq 1 .. Len(Mutation)
    /\ pc # "idle" => todo # {}
    /\ results \in Seq([name : Mutate!Names, verdict : Mutate!Verdict])
    /\ Len(results) + Cardinality(todo) <= Len(Mutation)

\* The files of the mutations left, against the commit.
RunCommitted ==
    /\ \A f \in Source : head[f].muts = {}
    /\ pc # "idle" => \A i \in todo :
          LET f == Mutation[i].file IN (Mutating /\ f = Mutate!mut.file) \/ tree[f] = head[f]
    /\ pc \in {"backup", "write", "test", "restore"} => original = head[Mutate!mut.file]
    /\ pc \in {"write", "test", "restore"} => backup = head[Mutate!mut.file]
    /\ Mutating => tree[Mutate!mut.file] = [head[Mutate!mut.file] EXCEPT !.muts = {Mutate!mut.name}]

RunAlone ==
    signal \subseteq {"interrupt"} =>
        /\ ~foreign
        /\ \A f \in Source : tree[f].muts # {} => Mutating /\ f = Mutate!mut.file

RunInv == RunType /\ RunCommitted /\ RunAlone

\* Every mutation names a file of the RTL.
LEMMA MutationTyped ==
    ASSUME Mutate!MutationRunTypes
    PROVE  \A i \in 1 .. Len(Mutation) : Mutation[i].file \in Source
<1> SUFFICES ASSUME NEW i \in 1 .. Len(Mutation) PROVE Mutation[i].file \in Source
  OBVIOUS
<1>1. Mutation[i] \in [name : Mutate!Names, file : Source]
  BY ElementOfSeq DEF Mutate!MutationRunTypes
<1>2. QED
  BY <1>1

\* The script is at the first of the mutations that are left.
LEMMA AtPlace ==
    ASSUME Mutate!MutationRunTypes, RunType, todo # {}
    PROVE  /\ Mutate!place \in todo /\ Mutate!place \in 1 .. Len(Mutation)
           /\ Mutate!mut = Mutation[Mutate!place]
           /\ Mutate!mut.file \in Source /\ Mutate!mut.name \in Mutate!Names
<1>1. todo \in SUBSET Nat
  BY LenProperties DEF RunType, Mutate!MutationRunTypes
<1>2. Mutate!place \in todo
  BY <1>1, LeastExists DEF Mutate!place
<1>3. Mutate!place \in 1 .. Len(Mutation)
  BY <1>2 DEF RunType
<1>4. Mutation[Mutate!place] \in [name : Mutate!Names, file : Source]
  BY <1>3, ElementOfSeq DEF Mutate!MutationRunTypes
<1>5. QED
  BY <1>2, <1>3, <1>4 DEF Mutate!mut

\* A set of places has no more of them than there are mutations.
LEMMA PlacesCounted ==
    ASSUME Mutate!MutationRunTypes, NEW P \in SUBSET (1 .. Len(Mutation))
    PROVE  /\ IsFiniteSet(P) /\ Cardinality(P) \in Nat /\ Cardinality(P) <= Len(Mutation)
           /\ \A i \in P : Cardinality(P \ {i}) = Cardinality(P) - 1
<1>1. Len(Mutation) \in Nat
  BY LenProperties DEF Mutate!MutationRunTypes
<1>2. IsFiniteSet(1 .. Len(Mutation)) /\ Cardinality(1 .. Len(Mutation)) = Len(Mutation)
  BY <1>1, FS_Interval
<1>3. IsFiniteSet(P) /\ Cardinality(P) <= Len(Mutation)
  BY <1>2, FS_Subset
<1>4. Cardinality(P) \in Nat
  BY <1>3, FS_CardinalityType
<1>5. \A i \in P : Cardinality(P \ {i}) = Cardinality(P) - 1
  BY <1>3, FS_RemoveElement
<1>6. QED
  BY <1>3, <1>4, <1>5

\* Clean files, no script at work: the state the bench starts in.
LEMMA RunInit == ASSUME Mutate!MutationRunTypes, Mutate!Init PROVE RunInv
<1>1. head \in [Source -> Mutate!Content] /\ \A f \in Source : head[f].muts = {}
  BY DEF Mutate!Init, Mutate!Written, Mutate!Content
<1>2. Len(results) + Cardinality(todo) <= Len(Mutation)
  BY PlacesCounted, FS_EmptySet, LenProperties DEF Mutate!Init, Mutate!MutationRunTypes
<1>3. RunType
  BY <1>1, <1>2 DEF Mutate!Init, RunType
<1>4. RunCommitted /\ RunAlone
  BY <1>1 DEF Mutate!Init, RunCommitted, RunAlone, Mutating
<1>5. QED
  BY <1>3, <1>4 DEF RunInv

\* Without a script there is nothing left to do, and the results stay in bounds.
LEMMA GoneType ==
    ASSUME Mutate!MutationRunTypes, RunType, Mutate!Gone, head' = head,
           results' = results \/ (todo # {} /\ \E r \in [name : Mutate!Names, verdict : Mutate!Verdict] :
                                               results' = Append(results, r)),
           tree' \in [Source -> Mutate!Content]
    PROVE  RunType'
<1>1. todo' = {} /\ Cardinality(todo') = 0 /\ pc' = "idle"
  BY FS_EmptySet DEF Mutate!Gone
<1>2. /\ Len(results) \in Nat /\ Len(Mutation) \in Nat /\ Cardinality(todo) \in Nat
      /\ todo # {} => Cardinality(todo) >= 1
  <2>1. /\ Len(results) \in Nat /\ Len(Mutation) \in Nat /\ Cardinality(todo) \in Nat
        /\ IsFiniteSet(todo)
    BY PlacesCounted, LenProperties DEF RunType, Mutate!MutationRunTypes
  <2>2. todo # {} => Cardinality(todo) # 0
    BY <2>1, FS_EmptySet
  <2>3. QED
    BY <2>1, <2>2
<1>3. /\ results' \in Seq([name : Mutate!Names, verdict : Mutate!Verdict])
      /\ Len(results') + 0 <= Len(Mutation)
  <2>1. CASE results' = results
    BY <2>1, <1>2 DEF RunType
  <2>2. ASSUME todo # {}, NEW r \in [name : Mutate!Names, verdict : Mutate!Verdict],
               results' = Append(results, r)
        PROVE  <1>3!1 /\ <1>3!2
    <3>1. /\ results' \in Seq([name : Mutate!Names, verdict : Mutate!Verdict])
          /\ Len(results') = Len(results) + 1
      BY <2>2, AppendProperties DEF RunType
    <3>2. QED
      BY <3>1, <2>2, <1>2 DEF RunType
  <2>3. QED
    BY <2>1, <2>2
<1>4. QED
  BY <1>1, <1>3 DEF Mutate!Gone, RunType

\* A verdict is written down and the script moves on, to the end or to read.
LEMMA NextOneType ==
    ASSUME Mutate!MutationRunTypes, RunType, pc # "idle", head' = head,
           NEW v \in Mutate!Verdict, Mutate!NextOne(v),
           tree' \in [Source -> Mutate!Content]
    PROVE  /\ RunType'
           /\ pc' \in {"idle", "read"} /\ todo' \subseteq todo
<1>1. todo # {}
  BY DEF RunType
<1>2. [name |-> Mutate!mut.name, verdict |-> v] \in [name : Mutate!Names, verdict : Mutate!Verdict]
  BY <1>1, AtPlace
<1>3. results' = Append(results, [name |-> Mutate!mut.name, verdict |-> v])
  BY DEF Mutate!NextOne
<1>4. CASE Mutate!Gone
  BY <1>1, <1>2, <1>3, <1>4, GoneType DEF Mutate!Gone
<1>5. CASE /\ todo # {Mutate!place} /\ todo' = todo \ {Mutate!place} /\ pc' = "read"
           /\ original' = Mutate!None /\ backup' = Mutate!None
  <2>1. /\ results' \in Seq([name : Mutate!Names, verdict : Mutate!Verdict])
        /\ Len(results') = Len(results) + 1 /\ Len(results) \in Nat
    BY <1>2, <1>3, AppendProperties, LenProperties DEF RunType
  <2>2. /\ Cardinality(todo') = Cardinality(todo) - 1 /\ Cardinality(todo) \in Nat
        /\ todo' # {} /\ todo' \subseteq 1 .. Len(Mutation)
    BY <1>1, <1>5, AtPlace, PlacesCounted DEF RunType
  <2>3. Len(results') + Cardinality(todo') <= Len(Mutation)
    BY <2>1, <2>2, LenProperties DEF RunType, Mutate!MutationRunTypes
  <2>4. QED
    BY <1>5, <2>1, <2>2, <2>3 DEF RunType
<1>6. QED
  BY <1>4, <1>5 DEF Mutate!NextOne

\* The script starts on files that are as they were committed.
LEMMA StartKeeps ==
    ASSUME Mutate!MutationRunTypes, RunInv, signal' = signal,
           NEW chosen \in SUBSET Mutate!Names, Mutate!Start(chosen)
    PROVE  RunInv'
<1> USE DEF Mutate!Start
<1>1. /\ todo' \subseteq 1 .. Len(Mutation) /\ todo' # {} /\ pc' = "read" /\ results' = <<>>
      /\ ~foreign' /\ pc = "idle"
  OBVIOUS
<1>2. \A i \in todo' : Mutation[i].file \in Source /\ tree[Mutation[i].file] = head[Mutation[i].file]
  <2>1. \A i \in 1 .. Len(Mutation) : Mutation[i].file \in Source
    BY MutationTyped
  <2>2. QED
    BY <2>1, <1>1 DEF Mutate!clash, Mutate!touched, Mutate!dirty_files
<1>3. Len(results') + Cardinality(todo') <= Len(Mutation)
  BY <1>1, PlacesCounted
<1>4. RunType'
  BY <1>1, <1>3 DEF RunInv, RunType
<1>5. RunCommitted'
  BY <1>1, <1>2 DEF RunInv, RunCommitted, Mutating
<1>6. RunAlone'
  BY <1>1 DEF RunInv, RunAlone, Mutating
<1>7. QED
  BY <1>4, <1>5, <1>6 DEF RunInv

\* read_text: the file is as it was committed, whatever the verdict.
LEMMA ReadKeeps ==
    ASSUME Mutate!MutationRunTypes, RunInv, signal' = signal, Mutate!Read
    PROVE  RunInv'
<1> USE DEF RunInv, Mutate!Read
<1>1. todo # {} /\ pc = "read" /\ ~Mutating
  BY DEF RunType, Mutating
<1>2. Mutate!mut.file \in Source /\ tree[Mutate!mut.file] = head[Mutate!mut.file]
  BY <1>1, AtPlace DEF RunCommitted
<1>3. CASE Mutate!NextOne("BROKEN")
  <2>1. RunType' /\ pc' \in {"idle", "read"} /\ todo' \subseteq todo
    BY <1>3, <1>1, NextOneType DEF Mutate!Verdict, RunType
  <2>2. QED
    BY <2>1, <1>1 DEF RunCommitted, RunAlone, Mutating
<1>4. CASE /\ original' = tree[Mutate!mut.file] /\ pc' = "backup"
           /\ UNCHANGED <<todo, backup, verdict, results>>
  <2>1. Mutate!mut' = Mutate!mut
    BY <1>4 DEF Mutate!mut, Mutate!place
  <2>2. RunType'
    BY <1>1, <1>2, <1>4 DEF RunType
  <2>3. QED
    BY <1>1, <1>2, <1>4, <2>1, <2>2 DEF RunCommitted, RunAlone, Mutating
<1>5. QED
  BY <1>3, <1>4

\* copy2: the backup is what was committed.
LEMMA BackupKeeps ==
    ASSUME Mutate!MutationRunTypes, RunInv, signal' = signal, Mutate!Backup
    PROVE  RunInv'
<1> USE DEF RunInv, Mutate!Backup
<1>1. todo # {} /\ Mutate!mut' = Mutate!mut
  BY DEF RunType, Mutate!mut, Mutate!place
<1>2. Mutate!mut.file \in Source /\ tree[Mutate!mut.file] = head[Mutate!mut.file]
  BY <1>1, AtPlace DEF RunCommitted, Mutating
<1>3. RunType'
  BY <1>1, <1>2 DEF RunType
<1>4. QED
  BY <1>1, <1>2, <1>3 DEF RunCommitted, RunAlone, Mutating

\* write_text: the one file that is broken is the one of the mutation.
LEMMA WriteKeeps ==
    ASSUME Mutate!MutationRunTypes, RunInv, signal' = signal, Mutate!Write
    PROVE  RunInv'
<1> USE DEF RunInv, Mutate!Write
<1>1. todo # {} /\ Mutate!mut' = Mutate!mut /\ pc = "write" /\ pc' = "test"
  BY DEF RunType, Mutate!mut, Mutate!place
<1>2. Mutate!mut.file \in Source /\ Mutate!mut.name \in Mutate!Names
  BY <1>1, AtPlace
<1>3. /\ original = head[Mutate!mut.file] /\ original.muts = {}
      /\ original \in Mutate!Content
  BY <1>1, <1>2 DEF RunCommitted, RunType
<1>4. /\ [original EXCEPT !.muts = @ \cup {Mutate!mut.name}] \in Mutate!Content
      /\ [original EXCEPT !.muts = @ \cup {Mutate!mut.name}] =
            [original EXCEPT !.muts = {Mutate!mut.name}]
  BY <1>2, <1>3 DEF Mutate!Content
<1>5. tree' = [tree EXCEPT ![Mutate!mut.file] = [original EXCEPT !.muts = {Mutate!mut.name}]]
  BY <1>4
<1>6. RunType'
  BY <1>1, <1>4 DEF RunType
<1>7. /\ tree'[Mutate!mut.file] = [head[Mutate!mut.file] EXCEPT !.muts = {Mutate!mut.name}]
      /\ \A f \in Source \ {Mutate!mut.file} : tree'[f] = tree[f]
  BY <1>2, <1>3, <1>5 DEF RunType
<1>8. RunCommitted'
  <2>1. ASSUME NEW i \in todo, Mutation[i].file # Mutate!mut.file
        PROVE  tree'[Mutation[i].file] = head[Mutation[i].file]
    <3>1. Mutation[i].file \in Source
      BY MutationTyped DEF RunType
    <3>2. QED
      BY <3>1, <2>1, <1>1, <1>7 DEF RunCommitted, Mutating
  <2>2. QED
    BY <2>1, <1>1, <1>3, <1>7 DEF RunCommitted, Mutating
<1>9. RunAlone'
  BY <1>1, <1>7 DEF RunAlone, Mutating
<1>10. QED
  BY <1>6, <1>8, <1>9

\* The test runs with this mutation and no other, unless a signal left one.
LEMMA TestKeeps ==
    ASSUME Mutate!MutationRunTypes, RunInv, signal' = signal, Mutate!Test
    PROVE  RunInv'
<1> USE DEF RunInv, Mutate!Test
<1>1. Mutate!mut' = Mutate!mut /\ pc = "test" /\ pc' = "restore"
  BY DEF Mutate!mut, Mutate!place
<1>2. RunType'
  BY <1>1 DEF RunType
<1>3. RunCommitted'
  BY <1>1 DEF RunCommitted, Mutating
<1>4. signal \subseteq {"interrupt"} => ~Mutate!OtherArcs
  BY <1>1 DEF RunAlone, RunCommitted, Mutating, Mutate!OtherArcs
<1>5. RunAlone'
  BY <1>1, <1>4 DEF RunAlone, Mutating
<1>6. QED
  BY <1>2, <1>3, <1>5

\* Taken back, the file is as it was committed, and so are all that are left.
LEMMA RestoredClean ==
    ASSUME Mutate!MutationRunTypes, RunInv, pc \in {"write", "test", "restore"}
    PROVE  /\ Mutate!Restored \in [Source -> Mutate!Content]
           /\ \A i \in todo : Mutate!Restored[Mutation[i].file] = head[Mutation[i].file]
           /\ signal \subseteq {"interrupt"} => \A f \in Source : Mutate!Restored[f].muts = {}
<1> USE DEF RunInv, Mutate!Restored
<1>1. todo # {}
  BY DEF RunType
<1>2. Mutate!mut.file \in Source /\ backup = head[Mutate!mut.file] /\ backup \in Mutate!Content
  BY <1>1, AtPlace DEF RunCommitted, RunType
<1>3. /\ Mutate!Restored[Mutate!mut.file] = head[Mutate!mut.file]
      /\ \A f \in Source \ {Mutate!mut.file} : Mutate!Restored[f] = tree[f]
  BY <1>2 DEF RunType
<1>4. \A i \in todo : Mutation[i].file \in Source
  BY MutationTyped DEF RunType
<1>5. \A i \in todo : Mutate!Restored[Mutation[i].file] = head[Mutation[i].file]
  BY <1>3, <1>4 DEF RunCommitted
<1>6. signal \subseteq {"interrupt"} => \A f \in Source : Mutate!Restored[f].muts = {}
  BY <1>3 DEF RunAlone, RunCommitted
<1>7. Mutate!Restored \in [Source -> Mutate!Content]
  BY <1>2 DEF RunType
<1>8. QED
  BY <1>5, <1>6, <1>7

\* The finally and the verdict.
LEMMA RestoreKeeps ==
    ASSUME Mutate!MutationRunTypes, RunInv, signal' = signal, Mutate!Restore
    PROVE  RunInv'
<1>1. /\ Mutate!Restored \in [Source -> Mutate!Content]
      /\ \A i \in todo : Mutate!Restored[Mutation[i].file] = head[Mutation[i].file]
      /\ signal \subseteq {"interrupt"} => \A f \in Source : Mutate!Restored[f].muts = {}
  BY RestoredClean DEF Mutate!Restore
<1>2. tree' = Mutate!Restored /\ head' = head /\ foreign' = foreign /\ pc = "restore"
  BY DEF Mutate!Restore
<1>3. PICK v \in Mutate!Verdict : Mutate!NextOne(v)
  BY DEF Mutate!Restore, Mutate!Verdict
<1>4. RunType' /\ pc' \in {"idle", "read"} /\ todo' \subseteq todo
  BY <1>1, <1>2, <1>3, NextOneType DEF RunInv
<1>5. QED
  BY <1>1, <1>2, <1>4 DEF RunInv, RunCommitted, RunAlone, Mutating

\* An interrupt runs the finally wherever there is something to take back.
LEMMA RaiseKeeps ==
    ASSUME Mutate!MutationRunTypes, RunInv, signal' = signal, Mutate!Raise
    PROVE  RunInv'
<1> USE DEF Mutate!Raise
<1>1. /\ tree' \in [Source -> Mutate!Content]
      /\ signal \subseteq {"interrupt"} => \A f \in Source : tree'[f].muts = {}
  <2>1. CASE pc \in Mutate!InTry
    BY <2>1, RestoredClean DEF Mutate!InTry
  <2>2. CASE pc \notin Mutate!InTry
    BY <2>2 DEF RunInv, RunType, RunAlone, Mutating, Mutate!InTry
  <2>3. QED
    BY <2>1, <2>2
<1>2. RunType'
  BY <1>1, GoneType DEF RunInv
<1>3. QED
  BY <1>1, <1>2 DEF RunInv, RunCommitted, RunAlone, Mutating, Mutate!Gone

\* A termination leaves the mutation in its file, which the signal allows for.
LEMMA TerminateKeeps ==
    ASSUME Mutate!MutationRunTypes, RunInv, signal' = signal, Mutate!Terminate
    PROVE  RunInv'
<1> USE DEF Mutate!Terminate
<1>1. RunType'
  BY GoneType DEF RunInv, RunType
<1>2. QED
  BY <1>1 DEF RunInv, RunCommitted, RunAlone, Mutating, Mutate!Gone

\* Between two runs the user edits, commits what has no mutation, and restores.
LEMMA UserKeeps ==
    ASSUME Mutate!MutationRunTypes, RunInv, signal' = signal, NEW f \in Source,
           \/ Mutate!Commit(f) \/ Mutate!Checkout(f)
           \/ \E v \in Version : Mutate!Edit(f, v)
    PROVE  RunInv'
<1> USE DEF RunInv, Mutate!script
<1>1. CASE Mutate!Commit(f)
  BY <1>1 DEF Mutate!Commit, RunType, RunCommitted, RunAlone, Mutating
<1>2. CASE Mutate!Checkout(f)
  BY <1>2 DEF Mutate!Checkout, RunType, RunCommitted, RunAlone, Mutating
<1>3. ASSUME NEW v \in Version, Mutate!Edit(f, v) PROVE RunInv'
  <2>1. tree' = [tree EXCEPT ![f] = [tree[f] EXCEPT !.version = v]] /\ pc = "idle"
    BY <1>3 DEF Mutate!Edit
  <2>2. [tree[f] EXCEPT !.version = v] \in Mutate!Content
        /\ [tree[f] EXCEPT !.version = v].muts = tree[f].muts
    BY DEF RunType, Mutate!Content
  <2>3. tree' \in [Source -> Mutate!Content] /\ \A g \in Source : tree'[g].muts = tree[g].muts
    BY <2>1, <2>2 DEF RunType
  <2>4. QED
    BY <1>3, <2>1, <2>3, SMTT(20), ZenonT(30)
       DEF Mutate!Edit, RunType, RunCommitted, RunAlone, Mutating
<1>4. QED
  BY <1>1, <1>2, <1>3

\* The invariant in every step of the script and the user.
LEMMA RunNext ==
    ASSUME Mutate!MutationRunTypes, RunInv, [Mutate!Next]_(Mutate!vars)
    PROVE  RunInv'
<1>1. CASE Mutate!Next
  BY <1>1, StartKeeps, ReadKeeps, BackupKeeps, WriteKeeps, TestKeeps, RestoreKeeps, RaiseKeeps,
     TerminateKeeps, UserKeeps DEF Mutate!Next
<1>2. CASE UNCHANGED Mutate!vars
  BY <1>2 DEF Mutate!vars, RunInv, RunType, RunCommitted, RunAlone, Mutating, Mutate!mut, Mutate!place
<1>3. QED
  BY <1>1, <1>2

\* Only write_text adds a mutation, to a file that is as it was committed.
LEMMA OnlyCommittedMutated ==
    ASSUME Mutate!MutationRunTypes, RunInv, [Mutate!Next]_(Mutate!vars)
    PROVE  Mutate!MutatesCommitted
<1> SUFFICES ASSUME NEW f \in Source, tree'[f].muts \ tree[f].muts # {}
             PROVE  tree'[f] = [head[f] EXCEPT !.muts = tree'[f].muts \ tree[f].muts]
  BY DEF Mutate!MutatesCommitted
<1>1. CASE Mutate!Write
  <2>1. todo # {} /\ pc = "write"
    BY <1>1 DEF Mutate!Write, RunInv, RunType
  <2>2. Mutate!mut.file \in Source /\ Mutate!mut.name \in Mutate!Names
    BY <2>1, AtPlace DEF RunInv
  <2>3. /\ original = head[Mutate!mut.file] /\ head[Mutate!mut.file] \in Mutate!Content
        /\ head[Mutate!mut.file].muts = {} /\ tree[Mutate!mut.file] = head[Mutate!mut.file]
    BY <2>1, <2>2, AtPlace DEF RunInv, RunCommitted, RunType, Mutating
  <2>4. tree' = [tree EXCEPT ![Mutate!mut.file] = [original EXCEPT !.muts = @ \cup {Mutate!mut.name}]]
    BY <1>1 DEF Mutate!Write
  <2>5. f = Mutate!mut.file
    BY <2>4, <2>2 DEF RunInv, RunType
  <2>6. tree'[f] = [head[f] EXCEPT !.muts = @ \cup {Mutate!mut.name}]
    BY <2>3, <2>4, <2>5 DEF RunInv, RunType
  <2>7. tree'[f].muts = {Mutate!mut.name} /\ tree[f].muts = {}
    BY <2>3, <2>5, <2>6 DEF Mutate!Content
  <2>8. [head[f] EXCEPT !.muts = @ \cup {Mutate!mut.name}] = [head[f] EXCEPT !.muts = {Mutate!mut.name}]
    BY <2>3, <2>5
  <2>9. QED
    BY <2>6, <2>7, <2>8
<1>2. CASE /\ ~Mutate!Write
           /\ \/ tree' = tree
              \/ pc \in {"write", "test", "restore"} /\ tree' = Mutate!Restored
              \/ \E g \in Source : tree' = [tree EXCEPT ![g] = head[g]]
              \/ \E g \in Source, v \in Version : tree' = [tree EXCEPT ![g].version = v]
  <2>1. CASE tree' = tree
    BY <2>1
  <2>2. CASE pc \in {"write", "test", "restore"} /\ tree' = Mutate!Restored
    <3>1. todo # {} /\ Mutate!mut.file \in Source
      BY <2>2, AtPlace DEF RunInv, RunType
    <3>2. backup = head[Mutate!mut.file] /\ backup.muts = {}
      BY <2>2, <3>1 DEF RunInv, RunCommitted
    <3>3. QED
      BY <2>2, <3>1, <3>2 DEF Mutate!Restored, RunInv, RunType
  <2>3. CASE \E g \in Source : tree' = [tree EXCEPT ![g] = head[g]]
    BY <2>3 DEF RunInv, RunCommitted, RunType
  <2>4. ASSUME NEW g \in Source, NEW v \in Version, tree' = [tree EXCEPT ![g].version = v]
        PROVE  FALSE
    <3>1. tree' = [tree EXCEPT ![g] = [tree[g] EXCEPT !.version = v]]
      BY <2>4
    <3>2. [tree[g] EXCEPT !.version = v].muts = tree[g].muts
      BY DEF RunInv, RunType, Mutate!Content
    <3>3. tree'[f].muts = tree[f].muts
      BY <3>1, <3>2 DEF RunInv, RunType
    <3>4. QED
      BY <3>3
  <2>5. QED
    BY <1>2, <2>1, <2>2, <2>3, <2>4
<1>3. CASE ~Mutate!Write
  <2>1. CASE Mutate!Restore \/ Mutate!Raise
    BY <2>1, <1>2, <1>3 DEF Mutate!Restore, Mutate!Raise, Mutate!InTry
  <2>2. CASE \E g \in Source : Mutate!Checkout(g)
    BY <2>2, <1>2, <1>3 DEF Mutate!Checkout
  <2>3. CASE \E g \in Source, v \in Version : Mutate!Edit(g, v)
    BY <2>3, <1>2, <1>3 DEF Mutate!Edit
  <2>4. CASE \/ \E chosen \in SUBSET Mutate!Names : Mutate!Start(chosen)
             \/ Mutate!Read \/ Mutate!Backup \/ Mutate!Test \/ Mutate!Terminate
             \/ \E g \in Source : Mutate!Commit(g)
             \/ UNCHANGED Mutate!vars
    BY <2>4, <1>2, <1>3 DEF Mutate!Start, Mutate!Read, Mutate!Backup, Mutate!Test, Mutate!Terminate,
       Mutate!Commit, Mutate!vars
  <2>5. QED
    BY <1>3, <2>1, <2>2, <2>3, <2>4 DEF Mutate!Next
<1>4. QED
  BY <1>1, <1>3

\* What the runner promises, from what it holds.
LEMMA RunInvKept ==
    ASSUME Mutate!MutationRunTypes, RunInv PROVE Mutate!TreeKept
<1>1. Mutate!TypeOK
  <2>1. ASSUME NEW i \in 1 .. Len(results) PROVE results[i].verdict \in Mutate!Verdict
    <3>1. results[i] \in [name : Mutate!Names, verdict : Mutate!Verdict]
      BY ElementOfSeq DEF RunInv, RunType
    <3>2. QED
      BY <3>1
  <2>2. /\ head \in [Source -> Mutate!Content] /\ tree \in [Source -> Mutate!Content]
        /\ original \in Mutate!Content \cup {Mutate!None}
        /\ backup \in Mutate!Content \cup {Mutate!None}
        /\ Len(results) + Cardinality(todo) <= Len(Mutation)
    BY DEF RunInv, RunType
  <2>3. \A i \in 1 .. Len(results) : results[i].verdict \in Mutate!Verdict
    BY <2>1
  <2>4. QED
    BY <2>2, <2>3, SameCardinality DEF Mutate!TypeOK
<1>2. QED
  BY <1>1 DEF RunInv, RunAlone, Mutating, Mutate!TreeKept, Mutate!CleanAfterRun, Mutate!OneArcBroken

\* A step of the bench while the runner is its part.
LEMMA RunStep ==
    ASSUME part' = "mutate", [BenchNext]_allVars
    PROVE  part = "mutate" /\ [Mutate!Next]_(Mutate!vars)
BY DEF BenchNext, OthersOff, allVars, Mutate!vars

\* In the bench: what mutate.py holds while it runs.
LEMMA RunHolds == BenchSpec => [](part = "mutate" => RunInv)
<1> DEFINE Inv == part = "mutate" => RunInv
<1>0. Mutate!MutationRunTypes
  BY BenchTypes
<1>1. BenchInit => Inv
  BY <1>0, RunInit DEF BenchInit
<1>2. Inv /\ [BenchNext]_allVars => Inv'
  BY <1>0, RunStep, RunNext
<1> HIDE DEF Inv
<1>3. BenchSpec => []Inv
  BY <1>1, <1>2, PTL DEF BenchSpec
<1>4. QED
  BY <1>3 DEF Inv

\* For any files and mutations: an interrupted run leaves the tree clean and no
\* test has run with two mutations at once (mutate.py).
THEOREM MutationsTakenBack == BenchSpec => []TreeKept
<1>0. Mutate!MutationRunTypes
  BY BenchTypes
<1>1. (part = "mutate" => RunInv) => TreeKept
  BY <1>0, RunInvKept DEF TreeKept
<1>2. QED
  BY <1>1, RunHolds, PTL

\* ... and in no step is a file mutated that git could not restore, wherever the
\* script is ended (mutate.py: dirty_files).
THEOREM MutatedFilesCommitted == BenchSpec => RestorableFromGit
<1> DEFINE Inv == part = "mutate" => RunInv
<1>0. Mutate!MutationRunTypes
  BY BenchTypes
<1>1. Inv /\ [BenchNext]_allVars => [part = "mutate" => Mutate!MutatesCommitted]_allVars
  BY <1>0, OnlyCommittedMutated DEF BenchNext, OthersOff, allVars, Mutate!vars
<1>2. BenchSpec => []Inv
  BY RunHolds
<1> HIDE DEF Inv
<1>3. QED
  BY <1>1, <1>2, PTL DEF BenchSpec, RestorableFromGit

---------------------------------------------------------------------------
(* The scoreboard.  A slot is a tag of a tile: it is free, offered, with   *)
(* the machine, or answered, and its bookkeeping and the operation in it   *)
(* agree.  In the checked mode the prediction of an operation is what the  *)
(* machine will make of it; in the racing mode what a line may read as is  *)
(* among its plausible words.                                              *)

Tags == Score!Tag

BookAt(t, k) == book[t][k]
AcceptedAt(t, k) == accepted[t][k]
AnswerAt(t, k) == answer[t][k]
FreeAt(t, k) == k \in free_tags[t]
PendingAt(t, k) == k \in pending[t]
OfferedAt(t, k) == offer[t] # Score!None /\ offer[t].tag = k

Checked == setting.mode = "checked"

Answers == [op : {"done"}, word : Score!Word, bad : BOOLEAN]

ScoreType ==
    /\ setting \in Settings
    /\ gold \in [Line -> Score!Word] /\ mem \in [Line -> Score!Word]
    /\ plausible \in [Line -> SUBSET Score!Word]
    /\ busy_lines \subseteq Line
    /\ mismatches \in BOOLEAN /\ wrong \in BOOLEAN
    /\ free_tags \in [Tile -> SUBSET Tags] /\ pending \in [Tile -> SUBSET Tags]
    /\ offer \in [Tile -> Score!Op \cup {Score!None}]
    /\ book \in [Tile -> [Tags -> Score!Entry \cup {Score!None}]]
    /\ accepted \in [Tile -> [Tags -> Score!Op \cup {Score!None}]]
    /\ answer \in [Tile -> [Tags -> Answers \cup {Score!None}]]

\* Where a tag is.
FreeSlot(t, k) ==
    /\ FreeAt(t, k) /\ BookAt(t, k) = Score!None /\ ~PendingAt(t, k) /\ ~OfferedAt(t, k)
    /\ AcceptedAt(t, k) = Score!None /\ AnswerAt(t, k) = Score!None

OfferedSlot(t, k) ==
    /\ ~FreeAt(t, k) /\ BookAt(t, k) # Score!None /\ ~PendingAt(t, k) /\ OfferedAt(t, k)
    /\ AcceptedAt(t, k) = Score!None /\ AnswerAt(t, k) = Score!None

AcceptedSlot(t, k) ==
    /\ ~FreeAt(t, k) /\ BookAt(t, k) # Score!None /\ PendingAt(t, k) /\ ~OfferedAt(t, k)
    /\ AcceptedAt(t, k) # Score!None /\ AnswerAt(t, k) = Score!None

AnsweredSlot(t, k) ==
    /\ ~FreeAt(t, k) /\ BookAt(t, k) # Score!None /\ PendingAt(t, k) /\ ~OfferedAt(t, k)
    /\ AcceptedAt(t, k) = Score!None /\ AnswerAt(t, k) # Score!None

Slot(t, k) == FreeSlot(t, k) \/ OfferedSlot(t, k) \/ AcceptedSlot(t, k) \/ AnsweredSlot(t, k)

\* What the driver wrote down about an operation.
EntryRight(e) ==
    /\ e.predicted <=> Checked
    /\ e.plausible => Score!Racing

OperationRight(o, e) ==
    /\ o.line = e.line
    /\ Checked => e.want = Score!Written(o) /\ gold[e.line] = e.want
    /\ Score!Racing => Score!Written(o) \in plausible[e.line]
    /\ Score!Racing /\ o.op = "ST" => o.be = Byte /\ o.wdata \in plausible[e.line]

AnswerRight(a, e) ==
    /\ Checked => /\ gold[e.line] = e.want /\ mem[e.line] = e.want
                  /\ a.bad <=> a.word # e.want
    /\ Score!Racing /\ ~a.bad => a.word \in plausible[e.line]

SlotRight(t, k) ==
    /\ BookAt(t, k) # Score!None => EntryRight(BookAt(t, k))
    /\ OfferedAt(t, k) => OperationRight(offer[t], BookAt(t, k))
    /\ AcceptedAt(t, k) # Score!None => OperationRight(AcceptedAt(t, k), BookAt(t, k))
    /\ AnswerAt(t, k) # Score!None => AnswerRight(AnswerAt(t, k), BookAt(t, k))

On(t, k, l) == BookAt(t, k) # Score!None /\ BookAt(t, k).line = l

\* In the checked mode a line is busy if and only if one slot is on it.
LinesClaimed ==
    Checked => /\ \A t \in Tile, k \in Tags, l \in Line : On(t, k, l) => l \in busy_lines
               /\ \A l \in busy_lines : \E t \in Tile, k \in Tags : On(t, k, l)
               /\ \A t, u \in Tile, k, j \in Tags, l \in Line :
                     On(t, k, l) /\ On(u, j, l) => t = u /\ k = j

MemoryFollowed ==
    /\ Checked => \A l \in Line \ busy_lines : gold[l] = mem[l]
    /\ Score!Racing => \A l \in Line : mem[l] \in plausible[l]

ScoreInv ==
    /\ ScoreType
    /\ \A t \in Tile, k \in Tags : Slot(t, k) /\ SlotRight(t, k)
    /\ LinesClaimed /\ MemoryFollowed /\ Score!AlarmsSound

\* One slot of a table of slots is set.
LEMMA SlotSet ==
    ASSUME NEW K, NEW V, NEW f \in [Tile -> [K -> V]], NEW t \in Tile, NEW k \in K, NEW v \in V,
           NEW g, g = [f EXCEPT ![t][k] = v]
    PROVE  /\ g \in [Tile -> [K -> V]]
           /\ \A u \in Tile, j \in K : g[u][j] = IF u = t /\ j = k THEN v ELSE f[u][j]
OBVIOUS

\* What depends on the setting only does not change.
LEMMA SettingFixed ==
    ASSUME setting' = setting
    PROVE  /\ Tags' = Tags /\ Score!Op' = Score!Op /\ (Checked' <=> Checked)
           /\ Score!Racing' <=> Score!Racing
BY DEF Tags, Score!Tag, Score!Op, Checked, Score!Racing, Score!Mode

\* What a setting says is used is of the right kind.
LEMMA SettingTyped ==
    ASSUME Score!ScoreboardTypes, ScoreType
    PROVE  /\ setting.lines \subseteq Line /\ setting.words \subseteq Score!Word
           /\ setting.mode \in {"checked", "racing", "directed"}
           /\ Score!ZeroWord \in Score!Word /\ Byte \in Score!Enables
<1>1. setting \in Settings
  BY DEF ScoreType
<1>2. /\ setting.lines \subseteq Line /\ setting.words \subseteq Score!Word
      /\ setting.mode \in {"checked", "racing", "directed"}
  BY <1>1 DEF Score!ScoreboardTypes
<1>3. Score!ZeroWord \in Score!Word
  BY DEF Score!ScoreboardTypes, Score!ZeroWord, Score!Word
<1>4. Byte \in Score!Enables
  BY DEF Score!ScoreboardTypes, Score!Enables
<1>5. QED
  BY <1>2, <1>3, <1>4

\* An operation makes a word of the line it is on.
LEMMA WrittenWord ==
    ASSUME ScoreType, NEW o \in Score!Op
    PROVE  /\ Score!Written(o) \in Score!Word
           /\ o.op = "LD" => Score!Written(o) = mem[o.line]
           /\ o.op = "ST" /\ o.be = Byte => Score!Written(o) = o.wdata
<1>1. mem[o.line] \in [Byte -> Val] /\ o.wdata \in [Byte -> Val]
  BY DEF ScoreType, Score!Op, Score!Word
<1>2. QED
  BY <1>1 DEF Score!Written, Score!Word

\* ... and so does it in the next state.
LEMMA WrittenWordNext ==
    ASSUME ScoreType', NEW o \in Score!Op'
    PROVE  /\ o.op = "LD" => Score!Written(o)' = mem'[o.line]
           /\ o.op = "ST" /\ o.be = Byte => Score!Written(o)' = o.wdata
<1>1. mem'[o.line] \in [Byte -> Val] /\ o.wdata \in [Byte -> Val]
  BY DEF ScoreType, Score!Op, Score!Word
<1>2. QED
  BY <1>1 DEF Score!Written, Score!Word

\* At the start every tag is free and every word zero.
LEMMA ScoreInit == ASSUME Score!ScoreboardTypes, Score!Init PROVE ScoreInv
<1> USE DEF Score!Init
<1>1. Score!ZeroWord \in Score!Word
  BY DEF Score!ZeroWord, Score!Word, Score!ScoreboardTypes
<1>2. ScoreType
  BY <1>1 DEF ScoreType, Tags
<1>3. ASSUME NEW t \in Tile, NEW k \in Tags PROVE FreeSlot(t, k)
  BY <1>3 DEF FreeSlot, FreeAt, BookAt, PendingAt, OfferedAt, AcceptedAt, AnswerAt, Tags
<1>4. ASSUME NEW t \in Tile, NEW k \in Tags PROVE SlotRight(t, k)
  BY <1>3, <1>4 DEF SlotRight, FreeSlot
<1>5. LinesClaimed
  BY <1>3 DEF LinesClaimed, FreeSlot, On
<1>6. MemoryFollowed /\ Score!AlarmsSound
  BY <1>1 DEF MemoryFollowed, Score!AlarmsSound
<1>7. QED
  BY <1>2, <1>3, <1>4, <1>5, <1>6 DEF ScoreInv, Slot

\* The least free tag is free.
LEMMA LowestIsFree ==
    ASSUME Score!ScoreboardTypes, ScoreType, NEW t \in Tile, free_tags[t] # {}
    PROVE  Score!LowestFree(t) \in Tags /\ FreeAt(t, Score!LowestFree(t))
<1>1. free_tags[t] \subseteq Tags /\ Tags \subseteq Nat
  BY DEF ScoreType, Tags, Score!Tag, Score!ScoreboardTypes
<1>2. Score!LowestFree(t) \in free_tags[t]
  BY <1>1, LeastExists DEF Score!LowestFree
<1>3. QED
  BY <1>1, <1>2 DEF FreeAt

\* An operation is offered: which slot changes, and how.
LEMMA OfferSlots ==
    ASSUME ScoreType, setting' = setting, NEW t \in Tile, NEW o \in Score!Op, NEW e \in Score!Entry,
           offer[t] = Score!None, Score!Offer(t, o, e)
    PROVE  /\ free_tags' \in [Tile -> SUBSET Tags] /\ book' \in [Tile -> [Tags -> Score!Entry \cup {Score!None}]]
           /\ offer' \in [Tile -> Score!Op \cup {Score!None}]
           /\ \A u \in Tile : offer'[u] = IF u = t THEN o ELSE offer[u]
           /\ \A u \in Tile, k \in Tags :
                /\ FreeAt(u, k)' <=> FreeAt(u, k) /\ ~(u = t /\ k = o.tag)
                /\ BookAt(u, k)' = IF u = t /\ k = o.tag THEN e ELSE BookAt(u, k)
                /\ OfferedAt(u, k)' <=> OfferedAt(u, k) \/ (u = t /\ k = o.tag)
                /\ PendingAt(u, k)' <=> PendingAt(u, k)
                /\ AcceptedAt(u, k)' = AcceptedAt(u, k) /\ AnswerAt(u, k)' = AnswerAt(u, k)
<1> USE DEF Score!Offer, ScoreType
<1>1. o.tag \in Tags /\ o # Score!None
  BY DEF Score!Op, Tags, Score!None
<1>2. /\ book' \in [Tile -> [Tags -> Score!Entry \cup {Score!None}]]
      /\ \A u \in Tile, k \in Tags : book'[u][k] = IF u = t /\ k = o.tag THEN e ELSE book[u][k]
  <2>1. book \in [Tile -> [Tags -> Score!Entry \cup {Score!None}]]
    OBVIOUS
  <2>2. book' = [book EXCEPT ![t][o.tag] = e]
    OBVIOUS
  <2>3. e \in Score!Entry \cup {Score!None}
    OBVIOUS
  <2>4. QED
    BY <2>1, <2>2, <2>3, <1>1, SlotSet
<1>3. /\ offer' \in [Tile -> Score!Op \cup {Score!None}]
      /\ \A u \in Tile : offer'[u] = IF u = t THEN o ELSE offer[u]
  OBVIOUS
<1>4. /\ free_tags' \in [Tile -> SUBSET Tags]
      /\ \A u \in Tile : free_tags'[u] = IF u = t THEN free_tags[u] \ {o.tag} ELSE free_tags[u]
  OBVIOUS
<1>5. UNCHANGED <<pending, accepted, answer>>
  BY DEF Score!machineVars
<1>6. ASSUME NEW u \in Tile, NEW k \in Tags
      PROVE  /\ FreeAt(u, k)' <=> FreeAt(u, k) /\ ~(u = t /\ k = o.tag)
             /\ OfferedAt(u, k)' <=> OfferedAt(u, k) \/ (u = t /\ k = o.tag)
  BY <1>1, <1>3, <1>4 DEF FreeAt, OfferedAt
<1>7. ASSUME NEW u \in Tile, NEW k \in Tags
      PROVE  /\ BookAt(u, k)' = IF u = t /\ k = o.tag THEN e ELSE BookAt(u, k)
             /\ PendingAt(u, k)' <=> PendingAt(u, k)
             /\ AcceptedAt(u, k)' = AcceptedAt(u, k) /\ AnswerAt(u, k)' = AnswerAt(u, k)
  BY <1>2, <1>5 DEF BookAt, PendingAt, AcceptedAt, AnswerAt
<1>8. QED
  BY <1>2, <1>3, <1>4, <1>6, <1>7

\* An offer of a free tag with a right entry keeps the invariant, when its line
\* is claimed in the checked mode.
LEMMA OfferKeeps ==
    ASSUME ScoreInv, setting' = setting, NEW t \in Tile, NEW o \in Score!Op, NEW e \in Score!Entry,
           offer[t] = Score!None, FreeAt(t, o.tag), Score!Offer(t, o, e),
           EntryRight(e), OperationRight(o, e)',
           gold' \in [Line -> Score!Word], plausible' \in [Line -> SUBSET Score!Word],
           busy_lines' \subseteq Line,
           \A l \in Line : plausible[l] \subseteq plausible'[l],
           Checked => /\ e.line \notin busy_lines /\ busy_lines' = busy_lines \cup {e.line}
                      /\ \A l \in Line \ {e.line} : gold'[l] = gold[l]
    PROVE  ScoreInv'
<1>1. /\ free_tags' \in [Tile -> SUBSET Tags] /\ book' \in [Tile -> [Tags -> Score!Entry \cup {Score!None}]]
      /\ offer' \in [Tile -> Score!Op \cup {Score!None}]
      /\ \A u \in Tile : offer'[u] = IF u = t THEN o ELSE offer[u]
      /\ \A u \in Tile, k \in Tags :
           /\ FreeAt(u, k)' <=> FreeAt(u, k) /\ ~(u = t /\ k = o.tag)
           /\ BookAt(u, k)' = IF u = t /\ k = o.tag THEN e ELSE BookAt(u, k)
           /\ OfferedAt(u, k)' <=> OfferedAt(u, k) \/ (u = t /\ k = o.tag)
           /\ PendingAt(u, k)' <=> PendingAt(u, k)
           /\ AcceptedAt(u, k)' = AcceptedAt(u, k) /\ AnswerAt(u, k)' = AnswerAt(u, k)
  BY OfferSlots DEF ScoreInv
<1>2. UNCHANGED <<pending, mismatches, mem, accepted, answer, wrong>>
  BY DEF Score!Offer, Score!machineVars
<1>3. o.tag \in Tags /\ e # Score!None /\ e.line \in Line
  BY DEF Score!Op, Score!Entry, Tags, Score!None
<1>4. /\ Tags' = Tags /\ Score!Op' = Score!Op /\ (Checked' <=> Checked)
      /\ Score!Racing' <=> Score!Racing
  BY SettingFixed
<1>5. ScoreType'
  BY <1>1, <1>2, <1>4 DEF ScoreInv, ScoreType
<1>6. ASSUME NEW u \in Tile, NEW k \in Tags PROVE Slot(u, k)'
  <2>1. Slot(u, k)
    BY DEF ScoreInv
  <2>2. CASE u = t /\ k = o.tag
    BY <2>1, <2>2, <1>1, <1>3 DEF Slot, FreeSlot, OfferedSlot, AcceptedSlot, AnsweredSlot
  <2>3. CASE ~(u = t /\ k = o.tag)
    BY <2>1, <2>3, <1>1 DEF Slot, FreeSlot, OfferedSlot, AcceptedSlot, AnsweredSlot
  <2>4. QED
    BY <2>2, <2>3
<1>7. \A x : Score!Written(x)' = Score!Written(x)
  BY <1>2 DEF Score!Written
<1>8. ASSUME NEW u \in Tile, NEW k \in Tags PROVE SlotRight(u, k)'
  <2>1. SlotRight(u, k) /\ Slot(u, k)
    BY DEF ScoreInv
  <2>2. CASE u = t /\ k = o.tag
    <3>1. /\ BookAt(u, k)' = e /\ offer'[u] = o /\ AcceptedAt(u, k)' = Score!None
          /\ AnswerAt(u, k)' = Score!None
      BY <2>1, <2>2, <1>1, <1>3 DEF Slot, FreeSlot, OfferedSlot, AcceptedSlot, AnsweredSlot
    <3>2. EntryRight(e)'
      BY <1>4 DEF EntryRight
    <3>3. QED
      BY <3>1, <3>2 DEF SlotRight
  <2>3. CASE ~(u = t /\ k = o.tag)
    <3>1. /\ BookAt(u, k)' = BookAt(u, k) /\ AcceptedAt(u, k)' = AcceptedAt(u, k)
          /\ AnswerAt(u, k)' = AnswerAt(u, k)
          /\ OfferedAt(u, k)' <=> OfferedAt(u, k)
      BY <2>3, <1>1
    <3>2. OfferedAt(u, k) => offer'[u] = offer[u]
      BY <1>1 DEF OfferedAt
    <3>3. PICK b : b = BookAt(u, k)
      OBVIOUS
    <3>4. EntryRight(b)' <=> EntryRight(b)
      BY <1>4 DEF EntryRight
    <3>5. b # Score!None => b.line \in Line
      BY <3>3 DEF BookAt, ScoreInv, ScoreType, Score!Entry
    <3>6. b # Score!None /\ Checked => gold'[b.line] = gold[b.line]
      BY <3>3, <3>5, <1>3 DEF ScoreInv, LinesClaimed, On
    <3>7. \A x : b # Score!None /\ OperationRight(x, b) => OperationRight(x, b)'
      BY <3>5, <3>6, <1>4, <1>7 DEF OperationRight
    <3>8. \A x : b # Score!None /\ AnswerRight(x, b) => AnswerRight(x, b)'
      BY <3>5, <3>6, <1>4, <1>2 DEF AnswerRight
    <3>9. OfferedAt(u, k) \/ AcceptedAt(u, k) # Score!None \/ AnswerAt(u, k) # Score!None => b # Score!None
      BY <2>1, <3>3 DEF Slot, FreeSlot, OfferedSlot, AcceptedSlot, AnsweredSlot
    <3>10. BookAt(u, k)' # Score!None => EntryRight(BookAt(u, k))'
      BY <2>1, <3>1, <3>3, <3>4 DEF SlotRight
    <3>11. ASSUME OfferedAt(u, k) PROVE OperationRight(offer[u], BookAt(u, k))'
      <4>1. PICK x : x = offer[u]
        OBVIOUS
      <4>2. OperationRight(x, b)'
        BY <3>11, <4>1, <2>1, <3>3, <3>7, <3>9 DEF SlotRight
      <4>3. QED
        BY <3>11, <4>1, <4>2, <3>1, <3>2, <3>3
    <3>12. AcceptedAt(u, k)' # Score!None => OperationRight(AcceptedAt(u, k), BookAt(u, k))'
      BY <2>1, <3>1, <3>3, <3>7, <3>9 DEF SlotRight
    <3>13. ASSUME AnswerAt(u, k) # Score!None PROVE AnswerRight(AnswerAt(u, k), BookAt(u, k))'
      <4>1. PICK x : x = AnswerAt(u, k)
        OBVIOUS
      <4>2. AnswerRight(x, b)'
        BY <3>13, <4>1, <2>1, <3>3, <3>8, <3>9 DEF SlotRight
      <4>3. QED
        BY <4>1, <4>2, <3>1, <3>3
    <3>14. QED
      BY <3>1, <3>10, <3>11, <3>12, <3>13 DEF SlotRight
  <2>4. QED
    BY <2>2, <2>3
<1>9. LinesClaimed'
  <2>1. ASSUME NEW u \in Tile, NEW k \in Tags, NEW l \in Line
        PROVE  On(u, k, l)' <=> IF u = t /\ k = o.tag THEN l = e.line ELSE On(u, k, l)
    BY <1>1, <1>3 DEF On
  <2>2. SUFFICES ASSUME Checked
                PROVE  /\ \A u \in Tile, k \in Tags, l \in Line : On(u, k, l)' => l \in busy_lines'
                       /\ \A l \in busy_lines' : \E u \in Tile, k \in Tags : On(u, k, l)'
                       /\ \A u, v \in Tile, k, j \in Tags, l \in Line :
                             On(u, k, l)' /\ On(v, j, l)' => u = v /\ k = j
    BY <1>4 DEF LinesClaimed
  <2>3. LinesClaimed /\ busy_lines' = busy_lines \cup {e.line} /\ e.line \notin busy_lines
        /\ busy_lines \subseteq Line
    BY <2>2 DEF ScoreInv, ScoreType
  <2>4. \A l \in Line : ~On(t, o.tag, l)
    BY <1>3 DEF ScoreInv, Slot, FreeSlot, OfferedSlot, AcceptedSlot, AnsweredSlot, On
  <2>5. \A u \in Tile, k \in Tags : ~On(u, k, e.line)
    BY <2>2, <2>3, <1>3 DEF LinesClaimed
  <2>6. \A u \in Tile, k \in Tags, l \in Line : On(u, k, l)' => l \in busy_lines'
    BY <2>1, <2>2, <2>3 DEF LinesClaimed
  <2>7. ASSUME NEW l \in busy_lines' PROVE \E u \in Tile, k \in Tags : On(u, k, l)'
    BY <2>1, <2>2, <2>3, <2>4, <1>3 DEF LinesClaimed
  <2>8. ASSUME NEW u \in Tile, NEW v \in Tile, NEW k \in Tags, NEW j \in Tags, NEW l \in Line,
               On(u, k, l)', On(v, j, l)'
        PROVE  u = v /\ k = j
    BY <2>1, <2>2, <2>3, <2>5, <2>8 DEF LinesClaimed
  <2>9. QED
    BY <2>6, <2>7, <2>8
<1>10. MemoryFollowed'
  BY <1>2, <1>4 DEF ScoreInv, MemoryFollowed
<1>11. Score!AlarmsSound'
  BY <1>2 DEF ScoreInv, Score!AlarmsSound, Score!Mode
<1>12. QED
  BY <1>4, <1>5, <1>6, <1>8, <1>9, <1>10, <1>11 DEF ScoreInv

\* plan_store: the prediction of a store is what the machine will hold.
LEMMA PlanStoreKeeps ==
    ASSUME Score!ScoreboardTypes, ScoreInv, setting' = setting, NEW t \in Tile,
           NEW l \in setting.lines, NEW w \in setting.words, NEW be \in SUBSET Byte,
           Score!plan_store(t, l, w, be)
    PROVE  ScoreInv'
<1> USE DEF Score!plan_store
<1>1. l \in Line /\ w \in Score!Word /\ be \in Score!Enables
  <2>1. l \in Line /\ w \in Score!Word
    BY SettingTyped DEF ScoreInv
  <2>2. Byte \in Score!Enables
    BY SettingTyped DEF ScoreInv
  <2>3. be \in Score!Enables
    BY <2>2 DEF Score!StoreEnables
  <2>4. QED
    BY <2>1, <2>3
<1>2. Score!LowestFree(t) \in Tags /\ FreeAt(t, Score!LowestFree(t))
  BY LowestIsFree DEF ScoreInv
<1>3. PICK k \in Tags : k = Score!LowestFree(t)
  BY <1>2
<1>4. PICK o \in Score!Op : o = [op |-> "ST", tag |-> k, line |-> l, wdata |-> w, be |-> be]
  BY <1>1 DEF Score!Op, Tags
<1>5. gold' \in [Line -> Score!Word] /\ plausible' \in [Line -> SUBSET Score!Word]
  <2>1. Score!Merged(gold[l], w, be) \in Score!Word
    BY <1>1 DEF ScoreInv, ScoreType, Score!Merged, Score!Word
  <2>2. QED
    <3>1. gold \in [Line -> Score!Word] /\ plausible \in [Line -> SUBSET Score!Word]
      BY DEF ScoreInv, ScoreType
    <3>2. CASE Score!Racing
      BY <3>1, <3>2, <1>1
    <3>3. CASE ~Score!Racing
      <4>1. gold' = [gold EXCEPT ![l] = Score!Merged(gold[l], w, be)] /\ plausible' = plausible
        BY <3>3 DEF Score!store
      <4>2. QED
        BY <4>1, <3>1, <2>1, <1>1
    <3>4. QED
      BY <3>2, <3>3
<1>6. PICK e \in Score!Entry : e = [op |-> "ST", predicted |-> ~Score!Racing, want |-> gold'[l],
                                    line |-> l, plausible |-> FALSE]
  BY <1>1, <1>5 DEF Score!Entry
<1>7. Score!Offer(t, o, e)
  BY <1>3, <1>4, <1>6 DEF Score!load
<1>8. EntryRight(e)
  BY <1>6, Score!ScoreboardTypes DEF EntryRight, Checked, Score!Racing, Score!Mode, ScoreInv, ScoreType,
     Score!ScoreboardTypes
<1>9. mem' = mem /\ mem[l] \in [Byte -> Val] /\ w \in [Byte -> Val]
  BY <1>1, <1>7 DEF Score!Offer, Score!machineVars, ScoreInv, ScoreType, Score!Word
<1>10. Score!Written(o)' = [b \in Byte |-> IF b \in be THEN w[b] ELSE mem[l][b]]
  BY <1>4, <1>9 DEF Score!Written
<1>11. ASSUME Checked
       PROVE  /\ l \notin busy_lines /\ gold'[l] = Score!Written(o)'
              /\ \A m \in Line \ {l} : gold'[m] = gold[m]
  <2>1. ~Score!Racing /\ l \notin busy_lines
    BY <1>11 DEF Checked, Score!Racing, Score!Mode, Score!Candidates
  <2>2. gold[l] = mem[l]
    BY <1>1, <1>11, <2>1 DEF ScoreInv, MemoryFollowed
  <2>3. gold' = [gold EXCEPT ![l] = Score!Merged(gold[l], w, be)]
    BY <2>1 DEF Score!store
  <2>4. Score!Merged(gold[l], w, be) = Score!Written(o)'
    BY <1>10, <2>2 DEF Score!Merged
  <2>5. QED
    BY <2>1, <2>3, <2>4, <1>1 DEF ScoreInv, ScoreType
<1>12. ASSUME Score!Racing
       PROVE  be = Byte /\ w \in plausible'[l] /\ Score!Written(o)' = w
  <2>1. be = Byte
    BY <1>12 DEF Score!StoreEnables
  <2>2. w \in plausible'[l]
    BY <1>12, <1>1 DEF ScoreInv, ScoreType
  <2>3. QED
    BY <2>1, <2>2, <1>9, <1>10
<1>13. OperationRight(o, e)'
  <2>1. (Checked' <=> Checked) /\ (Score!Racing' <=> Score!Racing)
    BY SettingFixed
  <2>2. Checked => e.want = Score!Written(o)' /\ gold'[e.line] = e.want
    BY <1>6, <1>11
  <2>3. Score!Racing => Score!Written(o)' \in plausible'[e.line] /\ o.be = Byte /\ o.wdata \in plausible'[e.line]
    BY <1>4, <1>6, <1>12
  <2>4. QED
    BY <2>1, <2>2, <2>3, <1>4, <1>6 DEF OperationRight
<1>14. /\ busy_lines' = busy_lines \cup {e.line} /\ busy_lines' \subseteq Line
       /\ \A m \in Line : plausible[m] \subseteq plausible'[m]
  BY <1>1, <1>6 DEF ScoreInv, ScoreType
<1>15. Checked => e.line \notin busy_lines /\ \A m \in Line \ {e.line} : gold'[m] = gold[m]
  BY <1>6, <1>11
<1>16. offer[t] = Score!None /\ FreeAt(t, o.tag)
  BY <1>2, <1>3, <1>4
<1>17. QED
  BY <1>5, <1>7, <1>8, <1>13, <1>14, <1>15, <1>16, OfferKeeps

\* plan_load: a load is predicted to find the golden memory's word.
LEMMA PlanLoadKeeps ==
    ASSUME Score!ScoreboardTypes, ScoreInv, setting' = setting, NEW t \in Tile,
           NEW l \in setting.lines, Score!plan_load(t, l)
    PROVE  ScoreInv'
<1> USE DEF Score!plan_load
<1>1. l \in Line /\ Byte \in Score!Enables /\ Score!ZeroWord \in Score!Word /\ gold[l] \in Score!Word
  BY SettingTyped DEF ScoreInv, ScoreType
<1>2. Score!LowestFree(t) \in Tags /\ FreeAt(t, Score!LowestFree(t))
  BY LowestIsFree DEF ScoreInv
<1>3. PICK k \in Tags : k = Score!LowestFree(t)
  BY <1>2
<1>4. PICK o \in Score!Op :
         o = [op |-> "LD", tag |-> k, line |-> l, wdata |-> Score!ZeroWord, be |-> Byte]
  BY <1>1 DEF Score!Op, Tags
<1>5. gold' = gold /\ plausible' = plausible
  OBVIOUS
<1>6. PICK e \in Score!Entry : e = [op |-> "LD", predicted |-> ~Score!Racing, want |-> gold[l],
                                    line |-> l, plausible |-> Score!Racing]
  BY <1>1 DEF Score!Entry, Score!Racing
<1>7. Score!Offer(t, o, e)
  BY <1>3, <1>4, <1>6 DEF Score!load
<1>8. EntryRight(e)
  BY <1>6 DEF EntryRight, Checked, Score!Racing, Score!Mode, ScoreInv, ScoreType, Score!ScoreboardTypes
<1>9. mem' = mem
  BY <1>7 DEF Score!Offer, Score!machineVars
<1>10. Score!Written(o)' = mem[l]
  <2>1. Score!Written(o) = mem[l]
    BY <1>4, WrittenWord DEF ScoreInv
  <2>2. QED
    BY <2>1, <1>9 DEF Score!Written
<1>11. Checked => l \notin busy_lines /\ gold[l] = mem[l]
  <2>1. Checked => l \notin busy_lines
    BY DEF Checked, Score!Racing, Score!Mode, Score!Candidates
  <2>2. QED
    BY <2>1, <1>1 DEF ScoreInv, MemoryFollowed
<1>12. OperationRight(o, e)'
  <2>1. (Checked' <=> Checked) /\ (Score!Racing' <=> Score!Racing)
    BY SettingFixed
  <2>2. Checked => e.want = Score!Written(o)' /\ gold'[e.line] = e.want
    BY <1>5, <1>6, <1>10, <1>11
  <2>3. Score!Racing => Score!Written(o)' \in plausible'[e.line]
    BY <1>1, <1>5, <1>6, <1>10 DEF ScoreInv, MemoryFollowed
  <2>4. o.line = e.line /\ o.op # "ST"
    BY <1>4, <1>6
  <2>5. QED
    BY <2>1, <2>2, <2>3, <2>4 DEF OperationRight
<1>13. busy_lines' = busy_lines \cup {e.line} /\ busy_lines' \subseteq Line
  BY <1>1, <1>6 DEF ScoreInv, ScoreType
<1>14. gold' \in [Line -> Score!Word] /\ plausible' \in [Line -> SUBSET Score!Word]
  BY <1>5 DEF ScoreInv, ScoreType
<1>15. offer[t] = Score!None /\ FreeAt(t, o.tag)
  BY <1>2, <1>3, <1>4
<1>16. Checked => e.line \notin busy_lines
  BY <1>6, <1>11
<1>17. QED
  BY <1>5, <1>7, <1>8, <1>12, <1>13, <1>14, <1>15, <1>16, OfferKeeps

\* issue: an operation of a directed race promises nothing.
LEMMA IssueKeeps ==
    ASSUME Score!ScoreboardTypes, ScoreInv, setting' = setting, NEW t \in Tile,
           NEW l \in setting.lines, NEW op \in {"LD", "ST"}, NEW w \in setting.words,
           Score!issue(t, op, l, w)
    PROVE  ScoreInv'
<1> USE DEF Score!issue
<1>1. /\ l \in Line /\ Byte \in Score!Enables /\ Score!ZeroWord \in Score!Word /\ w \in Score!Word
      /\ ~Checked /\ ~Score!Racing
  BY SettingTyped DEF ScoreInv, Checked, Score!Racing, Score!Mode
<1>2. Score!LowestFree(t) \in Tags /\ FreeAt(t, Score!LowestFree(t))
  BY LowestIsFree DEF ScoreInv
<1>3. PICK k \in Tags : k = Score!LowestFree(t)
  BY <1>2
<1>4. PICK o \in Score!Op : o = [op |-> op, tag |-> k, line |-> l, wdata |-> w, be |-> Byte]
  BY <1>1 DEF Score!Op, Tags
<1>5. PICK e \in Score!Entry : e = [op |-> op, predicted |-> FALSE, want |-> Score!ZeroWord,
                                    line |-> l, plausible |-> FALSE]
  BY <1>1 DEF Score!Entry
<1>6. Score!Offer(t, o, e)
  BY <1>3, <1>4, <1>5
<1>7. EntryRight(e) /\ OperationRight(o, e)'
  <2>1. ~Checked' /\ ~Score!Racing'
    BY <1>1, SettingFixed
  <2>2. QED
    BY <2>1, <1>1, <1>4, <1>5 DEF EntryRight, OperationRight
<1>8. /\ gold' \in [Line -> Score!Word] /\ plausible' \in [Line -> SUBSET Score!Word]
      /\ busy_lines' \subseteq Line /\ plausible' = plausible
      /\ offer[t] = Score!None /\ FreeAt(t, o.tag)
  BY <1>2, <1>3, <1>4 DEF ScoreInv, ScoreType
<1>9. QED
  BY <1>1, <1>6, <1>7, <1>8, OfferKeeps

\* A step that changes neither memory nor what the driver knows of a slot leaves
\* what is right about it right.
LEMMA StillRight ==
    ASSUME UNCHANGED <<setting, gold, mem, plausible>>, NEW e, NEW x
    PROVE  /\ EntryRight(e)' <=> EntryRight(e)
           /\ OperationRight(x, e)' <=> OperationRight(x, e)
           /\ AnswerRight(x, e)' <=> AnswerRight(x, e)
<1>1. Score!Written(x)' = Score!Written(x) /\ (Checked' <=> Checked) /\ (Score!Racing' <=> Score!Racing)
  BY SettingFixed DEF Score!Written
<1>2. QED
  BY <1>1 DEF EntryRight, OperationRight, AnswerRight

\* drive: the offer goes to the machine.
LEMMA DriveKeeps ==
    ASSUME ScoreInv, setting' = setting, NEW t \in Tile, Score!drive(t)
    PROVE  ScoreInv'
<1>1. PICK o \in Score!Op : o = offer[t]
  BY DEF ScoreInv, ScoreType, Score!drive
<1>2. o.tag \in Tags /\ o # Score!None
  BY DEF Score!Op, Tags, Score!None, Score!drive
<1>3. UNCHANGED <<gold, free_tags, book, busy_lines, mismatches, plausible, mem, answer, wrong>>
  BY DEF Score!drive
<1>4. /\ accepted' \in [Tile -> [Tags -> Score!Op \cup {Score!None}]]
      /\ \A u \in Tile, k \in Tags : accepted'[u][k] = IF u = t /\ k = o.tag THEN o ELSE accepted[u][k]
  <2>1. accepted \in [Tile -> [Tags -> Score!Op \cup {Score!None}]]
    BY DEF ScoreInv, ScoreType
  <2>2. accepted' = [accepted EXCEPT ![t][o.tag] = o] /\ o \in Score!Op \cup {Score!None}
    BY <1>1 DEF Score!drive
  <2>3. QED
    BY <2>1, <2>2, <1>2, SlotSet
<1>5. /\ offer' \in [Tile -> Score!Op \cup {Score!None}]
      /\ \A u \in Tile : offer'[u] = IF u = t THEN Score!None ELSE offer[u]
  BY DEF ScoreInv, ScoreType, Score!drive
<1>6. /\ pending' \in [Tile -> SUBSET Tags]
      /\ \A u \in Tile : pending'[u] = IF u = t THEN pending[u] \cup {o.tag} ELSE pending[u]
  BY <1>1, <1>2 DEF ScoreInv, ScoreType, Score!drive
<1>7. /\ Tags' = Tags /\ Score!Op' = Score!Op /\ (Checked' <=> Checked)
      /\ Score!Racing' <=> Score!Racing
  BY SettingFixed
<1>8. ScoreType'
  BY <1>3, <1>4, <1>5, <1>6, <1>7 DEF ScoreInv, ScoreType
<1>9. ASSUME NEW u \in Tile, NEW k \in Tags
      PROVE  /\ FreeAt(u, k)' <=> FreeAt(u, k)
             /\ BookAt(u, k)' = BookAt(u, k)
             /\ AnswerAt(u, k)' = AnswerAt(u, k)
             /\ PendingAt(u, k)' <=> PendingAt(u, k) \/ (u = t /\ k = o.tag)
             /\ AcceptedAt(u, k)' = IF u = t /\ k = o.tag THEN o ELSE AcceptedAt(u, k)
             /\ OfferedAt(u, k)' <=> OfferedAt(u, k) /\ ~(u = t /\ k = o.tag)
             /\ u = t => (OfferedAt(u, k) <=> k = o.tag)
  BY <1>1, <1>2, <1>3, <1>4, <1>5, <1>6 DEF FreeAt, BookAt, AnswerAt, PendingAt, AcceptedAt, OfferedAt
<1>10. ASSUME NEW u \in Tile, NEW k \in Tags PROVE Slot(u, k)' /\ SlotRight(u, k)'
  <2>1. Slot(u, k) /\ SlotRight(u, k)
    BY DEF ScoreInv
  <2>2. Slot(u, k)'
    BY <2>1, <1>2, <1>9 DEF Slot, FreeSlot, OfferedSlot, AcceptedSlot, AnsweredSlot
  <2>3. PICK b : b = BookAt(u, k)
    OBVIOUS
  <2>4. /\ EntryRight(b)' <=> EntryRight(b)
        /\ \A x : OperationRight(x, b)' <=> OperationRight(x, b)
        /\ \A x : AnswerRight(x, b)' <=> AnswerRight(x, b)
    BY <1>3, StillRight
  <2>5. BookAt(u, k)' # Score!None => EntryRight(BookAt(u, k))'
    BY <2>1, <2>3, <2>4, <1>9 DEF SlotRight
  <2>6. ASSUME OfferedAt(u, k)' PROVE OperationRight(offer[u], BookAt(u, k))'
    <3>1. offer'[u] = offer[u] /\ OfferedAt(u, k)
      BY <2>6, <1>5, <1>9
    <3>2. PICK x : x = offer[u]
      OBVIOUS
    <3>3. OperationRight(x, b)'
      BY <3>1, <3>2, <2>1, <2>3, <2>4 DEF SlotRight
    <3>4. QED
      BY <3>1, <3>2, <3>3, <2>3, <1>9
  <2>7. ASSUME AcceptedAt(u, k)' # Score!None PROVE OperationRight(AcceptedAt(u, k), BookAt(u, k))'
    <3>1. PICK x : x = AcceptedAt(u, k)'
      OBVIOUS
    <3>2. OperationRight(x, b)
      <4>1. CASE u = t /\ k = o.tag
        BY <4>1, <3>1, <2>1, <2>3, <1>1, <1>9 DEF SlotRight
      <4>2. CASE ~(u = t /\ k = o.tag)
        BY <4>2, <3>1, <2>1, <2>3, <2>7, <1>9 DEF SlotRight
      <4>3. QED
        BY <4>1, <4>2
    <3>3. OperationRight(x, b)'
      BY <3>2, <2>4
    <3>4. QED
      BY <3>1, <3>3, <2>3, <1>9
  <2>8. ASSUME AnswerAt(u, k)' # Score!None PROVE AnswerRight(AnswerAt(u, k), BookAt(u, k))'
    <3>1. PICK x : x = AnswerAt(u, k)
      OBVIOUS
    <3>2. AnswerRight(x, b)'
      BY <3>1, <2>1, <2>3, <2>4, <2>8, <1>9 DEF SlotRight
    <3>3. QED
      BY <3>1, <3>2, <2>3, <1>9
  <2>9. QED
    BY <2>2, <2>5, <2>6, <2>7, <2>8 DEF SlotRight
<1>11. LinesClaimed' /\ MemoryFollowed' /\ Score!AlarmsSound'
  <2>1. \A u \in Tile, k \in Tags, l \in Line : On(u, k, l)' <=> On(u, k, l)
    BY <1>9 DEF On
  <2>2. LinesClaimed'
    BY <2>1, <1>3, <1>7 DEF ScoreInv, ScoreType, LinesClaimed
  <2>3. MemoryFollowed' /\ Score!AlarmsSound'
    BY <1>3, <1>7 DEF ScoreInv, MemoryFollowed, Score!AlarmsSound, Score!Mode
  <2>4. QED
    BY <2>2, <2>3
<1>12. QED
  BY <1>7, <1>8, <1>10, <1>11 DEF ScoreInv

\* perform: which slot changes, and how.
LEMMA PerformSlots ==
    ASSUME ScoreInv, setting' = setting, NEW t \in Tile, NEW k \in Tags, Score!perform(t, k)
    PROVE  \E o \in Score!Op, a \in Answers :
             /\ o = AcceptedAt(t, k) /\ o # Score!None /\ a # Score!None
             /\ a.bad <=> a.word # Score!Written(o)
             /\ mem' = [mem EXCEPT ![o.line] = Score!Written(o)]
             /\ accepted' \in [Tile -> [Tags -> Score!Op \cup {Score!None}]]
             /\ answer' \in [Tile -> [Tags -> Answers \cup {Score!None}]]
             /\ \A u \in Tile, j \in Tags :
                  /\ AcceptedAt(u, j)' = IF u = t /\ j = k THEN Score!None ELSE AcceptedAt(u, j)
                  /\ AnswerAt(u, j)' = IF u = t /\ j = k THEN a ELSE AnswerAt(u, j)
<1>1. /\ accepted \in [Tile -> [Tags -> Score!Op \cup {Score!None}]]
      /\ answer \in [Tile -> [Tags -> Answers \cup {Score!None}]]
  BY DEF ScoreInv, ScoreType
<1>2. PICK o \in Score!Op : o = accepted[t][k] /\ o # Score!None
  BY <1>1 DEF Score!perform
<1>3. Score!Written(o) \in Score!Word
  BY WrittenWord DEF ScoreInv
<1>4. /\ mem' = [mem EXCEPT ![o.line] = Score!Written(o)]
      /\ accepted' = [accepted EXCEPT ![t][k] = Score!None]
  BY <1>2 DEF Score!perform
<1>5. PICK a \in Answers : /\ answer' = [answer EXCEPT ![t][k] = a]
                           /\ a.bad <=> a.word # Score!Written(o)
  <2>1. CASE answer' = [answer EXCEPT ![t][k] =
                          [op |-> "done", word |-> Score!Written(o), bad |-> FALSE]]
    <3>1. PICK a : a = [op |-> "done", word |-> Score!Written(o), bad |-> FALSE]
      OBVIOUS
    <3>2. a \in Answers /\ (a.bad <=> a.word # Score!Written(o))
      BY <3>1, <1>3 DEF Answers
    <3>3. QED
      BY <2>1, <3>1, <3>2
  <2>2. ASSUME NEW w \in Score!Word \ {Score!Written(o)},
               answer' = [answer EXCEPT ![t][k] = [op |-> "done", word |-> w, bad |-> TRUE]]
        PROVE  \E a \in Answers : /\ answer' = [answer EXCEPT ![t][k] = a]
                                  /\ a.bad <=> a.word # Score!Written(o)
    <3>1. PICK a : a = [op |-> "done", word |-> w, bad |-> TRUE]
      OBVIOUS
    <3>2. a \in Answers /\ (a.bad <=> a.word # Score!Written(o))
      BY <3>1 DEF Answers
    <3>3. QED
      BY <2>2, <3>1, <3>2
  <2>3. QED
    BY <2>1, <2>2, <1>2 DEF Score!perform
<1>6. a # Score!None /\ a \in Answers \cup {Score!None} /\ Score!None \in Score!Op \cup {Score!None}
  BY DEF Answers, Score!None
<1>7. /\ accepted' \in [Tile -> [Tags -> Score!Op \cup {Score!None}]]
      /\ \A u \in Tile, j \in Tags : accepted'[u][j] = IF u = t /\ j = k THEN Score!None ELSE accepted[u][j]
  BY <1>1, <1>4, <1>6, SlotSet
<1>8. /\ answer' \in [Tile -> [Tags -> Answers \cup {Score!None}]]
      /\ \A u \in Tile, j \in Tags : answer'[u][j] = IF u = t /\ j = k THEN a ELSE answer[u][j]
  BY <1>1, <1>5, <1>6, SlotSet
<1>9. \A u \in Tile, j \in Tags :
         /\ AcceptedAt(u, j)' = IF u = t /\ j = k THEN Score!None ELSE AcceptedAt(u, j)
         /\ AnswerAt(u, j)' = IF u = t /\ j = k THEN a ELSE AnswerAt(u, j)
  BY <1>7, <1>8 DEF AcceptedAt, AnswerAt
<1>10. o = AcceptedAt(t, k)
  BY <1>2 DEF AcceptedAt
<1>11. /\ o \in Score!Op /\ a \in Answers
       /\ o = AcceptedAt(t, k) /\ o # Score!None /\ a # Score!None
       /\ a.bad <=> a.word # Score!Written(o)
       /\ mem' = [mem EXCEPT ![o.line] = Score!Written(o)]
       /\ accepted' \in [Tile -> [Tags -> Score!Op \cup {Score!None}]]
       /\ answer' \in [Tile -> [Tags -> Answers \cup {Score!None}]]
  BY <1>2, <1>4, <1>5, <1>6, <1>7, <1>8, <1>10
<1>12. QED
  BY <1>9, <1>11

\* perform: the machine makes of the operation what was predicted, and answers
\* with it or not.
LEMMA PerformKeeps ==
    ASSUME ScoreInv, setting' = setting, NEW t \in Tile, NEW k \in Tags, Score!perform(t, k)
    PROVE  ScoreInv'
<1>1. PICK o \in Score!Op, a \in Answers :
         /\ o = AcceptedAt(t, k) /\ o # Score!None /\ a # Score!None
         /\ a.bad <=> a.word # Score!Written(o)
         /\ mem' = [mem EXCEPT ![o.line] = Score!Written(o)]
         /\ accepted' \in [Tile -> [Tags -> Score!Op \cup {Score!None}]]
         /\ answer' \in [Tile -> [Tags -> Answers \cup {Score!None}]]
         /\ \A u \in Tile, j \in Tags :
              /\ AcceptedAt(u, j)' = IF u = t /\ j = k THEN Score!None ELSE AcceptedAt(u, j)
              /\ AnswerAt(u, j)' = IF u = t /\ j = k THEN a ELSE AnswerAt(u, j)
  BY PerformSlots
<1>2. UNCHANGED <<gold, free_tags, book, busy_lines, pending, offer, mismatches, plausible, wrong>>
  BY DEF Score!perform, Score!driverVars
<1>3. /\ Tags' = Tags /\ Score!Op' = Score!Op /\ (Checked' <=> Checked)
      /\ Score!Racing' <=> Score!Racing
  BY SettingFixed
<1>4. Score!Written(o) \in Score!Word /\ o.line \in Line
  BY WrittenWord DEF ScoreInv, Score!Op
<1>5. /\ mem' \in [Line -> Score!Word]
      /\ mem'[o.line] = Score!Written(o) /\ \A l \in Line \ {o.line} : mem'[l] = mem[l]
  BY <1>1, <1>4 DEF ScoreInv, ScoreType
<1>6. ScoreType'
  BY <1>1, <1>2, <1>3, <1>5 DEF ScoreInv, ScoreType
<1>7. ASSUME NEW u \in Tile, NEW j \in Tags
      PROVE  /\ FreeAt(u, j)' <=> FreeAt(u, j)
             /\ BookAt(u, j)' = BookAt(u, j)
             /\ PendingAt(u, j)' <=> PendingAt(u, j)
             /\ OfferedAt(u, j)' <=> OfferedAt(u, j)
  BY <1>2 DEF FreeAt, BookAt, PendingAt, OfferedAt
<1>8. PICK c : c = BookAt(t, k)
  OBVIOUS
<1>9. /\ c # Score!None /\ c.line = o.line /\ OperationRight(o, c)
      /\ AnswerAt(t, k) = Score!None /\ ~OfferedAt(t, k)
  BY <1>1, <1>8 DEF ScoreInv, Slot, FreeSlot, OfferedSlot, AcceptedSlot, AnsweredSlot, SlotRight,
     OperationRight
<1>10. On(t, k, o.line)
  BY <1>8, <1>9 DEF On
<1>11. MemoryFollowed'
  <2>1. ASSUME Checked, NEW l \in Line \ busy_lines PROVE gold[l] = mem'[l]
    <3>1. l # o.line
      BY <2>1, <1>4, <1>10 DEF ScoreInv, LinesClaimed
    <3>2. QED
      BY <2>1, <3>1, <1>5 DEF ScoreInv, MemoryFollowed
  <2>2. ASSUME Score!Racing, NEW l \in Line PROVE mem'[l] \in plausible[l]
    BY <2>2, <1>5, <1>9 DEF ScoreInv, MemoryFollowed, OperationRight
  <2>3. QED
    BY <2>1, <2>2, <1>2, <1>3 DEF MemoryFollowed
<1>12. LinesClaimed' /\ Score!AlarmsSound'
  <2>1. \A u \in Tile, j \in Tags, l \in Line : On(u, j, l)' <=> On(u, j, l)
    BY <1>7 DEF On
  <2>2. LinesClaimed'
    BY <2>1, <1>2, <1>3 DEF ScoreInv, ScoreType, LinesClaimed
  <2>3. Score!AlarmsSound'
    BY <1>2, <1>3 DEF ScoreInv, Score!AlarmsSound, Score!Mode
  <2>4. QED
    BY <2>2, <2>3
<1>13. AnswerRight(a, c)'
  BY <1>1, <1>2, <1>3, <1>5, <1>9 DEF AnswerRight, OperationRight
<1>14. ASSUME NEW u \in Tile, NEW j \in Tags, ~(u = t /\ j = k), NEW b, b = BookAt(u, j),
              b # Score!None
       PROVE  /\ \A x \in Score!Op : OperationRight(x, b) => OperationRight(x, b)'
              /\ \A x : AnswerRight(x, b) => AnswerRight(x, b)'
  <2>1. b.line \in Line
    BY <1>14 DEF BookAt, ScoreInv, ScoreType, Score!Entry
  <2>2. Checked => b.line # o.line
    BY <1>14, <1>10, <1>4, <2>1 DEF ScoreInv, LinesClaimed, On
  <2>3. Checked => mem'[b.line] = mem[b.line]
    BY <2>1, <2>2, <1>5
  <2>4. ASSUME NEW x \in Score!Op, OperationRight(x, b) PROVE OperationRight(x, b)'
    <3>1. Checked => Score!Written(x)' = Score!Written(x)
      BY <2>3, <2>4 DEF OperationRight, Score!Written
    <3>2. ASSUME Score!Racing PROVE Score!Written(x)' \in plausible[b.line]
      <4>1. x.op = "LD" => Score!Written(x)' = mem'[x.line]
        BY <1>3, <1>6, WrittenWordNext
      <4>2. x.op = "ST" => Score!Written(x)' = x.wdata
        BY <1>3, <1>6, <2>4, <3>2, WrittenWordNext DEF OperationRight
      <4>3. mem'[b.line] \in plausible[b.line]
        BY <1>2, <1>3, <1>11, <2>1, <3>2 DEF MemoryFollowed
      <4>4. x.op \in {"LD", "ST"} /\ x.line = b.line
        BY <2>4 DEF Score!Op, OperationRight
      <4>5. x.op = "ST" => x.wdata \in plausible[b.line]
        BY <2>4, <3>2 DEF OperationRight
      <4>6. QED
        BY <4>1, <4>2, <4>3, <4>4, <4>5
    <3>3. QED
      BY <2>4, <3>1, <3>2, <1>2, <1>3 DEF OperationRight
  <2>5. ASSUME NEW x, AnswerRight(x, b) PROVE AnswerRight(x, b)'
    BY <2>3, <2>5, <1>2, <1>3 DEF AnswerRight
  <2>6. QED
    BY <2>4, <2>5
<1>15. ASSUME NEW u \in Tile, NEW j \in Tags PROVE Slot(u, j)' /\ SlotRight(u, j)'
  <2>1. Slot(u, j) /\ SlotRight(u, j)
    BY DEF ScoreInv
  <2>2. Slot(u, j)'
    BY <2>1, <1>1, <1>7 DEF Slot, FreeSlot, OfferedSlot, AcceptedSlot, AnsweredSlot
  <2>3. PICK b : b = BookAt(u, j)
    OBVIOUS
  <2>4. EntryRight(b)' <=> EntryRight(b)
    BY <1>3 DEF EntryRight
  <2>5. BookAt(u, j)' # Score!None => EntryRight(BookAt(u, j))'
    BY <2>1, <2>3, <2>4, <1>7 DEF SlotRight
  <2>6. CASE u = t /\ j = k
    <3>1. /\ AnswerAt(u, j)' = a /\ AcceptedAt(u, j)' = Score!None /\ BookAt(u, j)' = c
          /\ ~OfferedAt(u, j)'
      BY <2>6, <1>1, <1>7, <1>8, <1>9
    <3>2. AnswerRight(AnswerAt(u, j), BookAt(u, j))'
      BY <3>1, <1>13
    <3>3. QED
      BY <2>2, <2>5, <3>1, <3>2 DEF SlotRight
  <2>7. CASE ~(u = t /\ j = k)
    <3>1. /\ AnswerAt(u, j)' = AnswerAt(u, j) /\ AcceptedAt(u, j)' = AcceptedAt(u, j)
          /\ BookAt(u, j)' = b /\ offer'[u] = offer[u]
      BY <2>7, <2>3, <1>1, <1>2, <1>7
    <3>2. OfferedAt(u, j) \/ AcceptedAt(u, j) # Score!None \/ AnswerAt(u, j) # Score!None
             => b # Score!None
      BY <2>1, <2>3 DEF Slot, FreeSlot, OfferedSlot, AcceptedSlot, AnsweredSlot
    <3>3. ASSUME OfferedAt(u, j) PROVE OperationRight(offer[u], BookAt(u, j))'
      <4>1. PICK x : x = offer[u]
        OBVIOUS
      <4>2. x \in Score!Op
        BY <3>3, <4>1 DEF OfferedAt, ScoreInv, ScoreType
      <4>3. OperationRight(x, b)'
        BY <3>2, <3>3, <4>1, <4>2, <2>1, <2>3, <2>7, <1>14 DEF SlotRight
      <4>4. QED
        BY <4>1, <4>3, <3>1
    <3>4. ASSUME AcceptedAt(u, j) # Score!None PROVE OperationRight(AcceptedAt(u, j), BookAt(u, j))'
      <4>1. PICK x : x = AcceptedAt(u, j)
        OBVIOUS
      <4>2. x \in Score!Op
        BY <3>4, <4>1 DEF AcceptedAt, ScoreInv, ScoreType
      <4>3. OperationRight(x, b)'
        BY <3>2, <3>4, <4>1, <4>2, <2>1, <2>3, <2>7, <1>14 DEF SlotRight
      <4>4. QED
        BY <4>1, <4>3, <3>1
    <3>5. ASSUME AnswerAt(u, j) # Score!None PROVE AnswerRight(AnswerAt(u, j), BookAt(u, j))'
      <4>1. PICK x : x = AnswerAt(u, j)
        OBVIOUS
      <4>2. AnswerRight(x, b)'
        BY <3>2, <3>5, <4>1, <2>1, <2>3, <2>7, <1>14 DEF SlotRight
      <4>3. QED
        BY <4>1, <4>2, <3>1
    <3>6. QED
      BY <2>2, <2>5, <3>1, <3>3, <3>4, <3>5, <1>7 DEF SlotRight
  <2>8. QED
    BY <2>2, <2>6, <2>7
<1>16. QED
  BY <1>3, <1>6, <1>11, <1>12, <1>15 DEF ScoreInv

\* _collect: the tag is free again, and its line is released with it.
LEMMA CollectKeeps ==
    ASSUME ScoreInv, setting' = setting, NEW t \in Tile, NEW k \in Tags, Score!_collect(t, k)
    PROVE  ScoreInv'
<1>1. PICK e : e = BookAt(t, k)
  OBVIOUS
<1>2. PICK a : a = AnswerAt(t, k)
  OBVIOUS
<1>3. /\ a # Score!None
      /\ pending' = [pending EXCEPT ![t] = @ \ {k}]
      /\ book' = [book EXCEPT ![t][k] = Score!None]
      /\ busy_lines' = busy_lines \ {e.line}
      /\ free_tags' = [free_tags EXCEPT ![t] = @ \cup {k}]
      /\ mismatches' = \/ mismatches
                       \/ e.plausible /\ a.word \notin plausible[e.line]
                       \/ e.predicted /\ a.word # e.want
      /\ answer' = [answer EXCEPT ![t][k] = Score!None]
      /\ wrong' = (wrong \/ a.bad)
      /\ UNCHANGED <<gold, offer, plausible, mem, accepted>>
  BY <1>1, <1>2 DEF Score!_collect, Score!StillBusy, BookAt, AnswerAt
<1>4. /\ Tags' = Tags /\ Score!Op' = Score!Op /\ (Checked' <=> Checked)
      /\ Score!Racing' <=> Score!Racing
  BY SettingFixed
<1>5. /\ e \in Score!Entry /\ a \in Answers /\ EntryRight(e) /\ AnswerRight(a, e)
      /\ AcceptedAt(t, k) = Score!None /\ ~OfferedAt(t, k)
  <2>1. Slot(t, k) /\ SlotRight(t, k)
    BY DEF ScoreInv
  <2>2. AnsweredSlot(t, k)
    BY <2>1, <1>2, <1>3 DEF Slot, FreeSlot, OfferedSlot, AcceptedSlot
  <2>3. e \in Score!Entry
    BY <2>2, <1>1 DEF AnsweredSlot, BookAt, ScoreInv, ScoreType
  <2>4. a \in Answers
    BY <1>2, <1>3 DEF AnswerAt, ScoreInv, ScoreType
  <2>5. QED
    BY <2>1, <2>2, <2>3, <2>4, <1>1, <1>2 DEF SlotRight, AnsweredSlot
<1>6. e.line \in Line /\ On(t, k, e.line)
  BY <1>1, <1>5 DEF Score!Entry, On, Score!None
<1>7. /\ book' \in [Tile -> [Tags -> Score!Entry \cup {Score!None}]]
      /\ \A u \in Tile, j \in Tags : book'[u][j] = IF u = t /\ j = k THEN Score!None ELSE book[u][j]
  <2>1. book \in [Tile -> [Tags -> Score!Entry \cup {Score!None}]]
    BY DEF ScoreInv, ScoreType
  <2>2. book' = [book EXCEPT ![t][k] = Score!None] /\ Score!None \in Score!Entry \cup {Score!None}
    BY <1>3
  <2>3. QED
    BY <2>1, <2>2, SlotSet
<1>8. /\ answer' \in [Tile -> [Tags -> Answers \cup {Score!None}]]
      /\ \A u \in Tile, j \in Tags : answer'[u][j] = IF u = t /\ j = k THEN Score!None ELSE answer[u][j]
  <2>1. answer \in [Tile -> [Tags -> Answers \cup {Score!None}]]
    BY DEF ScoreInv, ScoreType
  <2>2. answer' = [answer EXCEPT ![t][k] = Score!None] /\ Score!None \in Answers \cup {Score!None}
    BY <1>3
  <2>3. QED
    BY <2>1, <2>2, SlotSet
<1>9. /\ free_tags' \in [Tile -> SUBSET Tags] /\ pending' \in [Tile -> SUBSET Tags]
      /\ \A u \in Tile : free_tags'[u] = IF u = t THEN free_tags[u] \cup {k} ELSE free_tags[u]
      /\ \A u \in Tile : pending'[u] = IF u = t THEN pending[u] \ {k} ELSE pending[u]
  BY <1>3 DEF ScoreInv, ScoreType
<1>10. mismatches' \in BOOLEAN /\ wrong' \in BOOLEAN
  BY <1>3, <1>5 DEF ScoreInv, ScoreType, Answers, Score!Entry
<1>11. ScoreType'
  BY <1>3, <1>4, <1>7, <1>8, <1>9, <1>10 DEF ScoreInv, ScoreType
<1>12. ASSUME NEW u \in Tile, NEW j \in Tags
       PROVE  /\ FreeAt(u, j)' <=> FreeAt(u, j) \/ (u = t /\ j = k)
              /\ BookAt(u, j)' = IF u = t /\ j = k THEN Score!None ELSE BookAt(u, j)
              /\ PendingAt(u, j)' <=> PendingAt(u, j) /\ ~(u = t /\ j = k)
              /\ AcceptedAt(u, j)' = AcceptedAt(u, j)
              /\ OfferedAt(u, j)' <=> OfferedAt(u, j)
              /\ AnswerAt(u, j)' = IF u = t /\ j = k THEN Score!None ELSE AnswerAt(u, j)
  BY <1>3, <1>7, <1>8, <1>9 DEF FreeAt, BookAt, PendingAt, AcceptedAt, OfferedAt, AnswerAt
<1>13. ASSUME NEW u \in Tile, NEW j \in Tags PROVE Slot(u, j)' /\ SlotRight(u, j)'
  <2>1. Slot(u, j) /\ SlotRight(u, j)
    BY DEF ScoreInv
  <2>2. Slot(u, j)'
    BY <2>1, <1>5, <1>12 DEF Slot, FreeSlot, OfferedSlot, AcceptedSlot, AnsweredSlot
  <2>3. CASE u = t /\ j = k
    <3>1. /\ AnswerAt(u, j)' = Score!None /\ AcceptedAt(u, j)' = Score!None
          /\ BookAt(u, j)' = Score!None /\ ~OfferedAt(u, j)'
      BY <2>3, <1>5, <1>12
    <3>2. QED
      BY <2>2, <3>1 DEF SlotRight
  <2>4. CASE ~(u = t /\ j = k)
    <3>1. PICK b : b = BookAt(u, j)
      OBVIOUS
    <3>2. /\ EntryRight(b)' <=> EntryRight(b)
          /\ \A x : OperationRight(x, b)' <=> OperationRight(x, b)
          /\ \A x : AnswerRight(x, b)' <=> AnswerRight(x, b)
      BY <1>3, StillRight
    <3>3. /\ AnswerAt(u, j)' = AnswerAt(u, j) /\ AcceptedAt(u, j)' = AcceptedAt(u, j)
          /\ BookAt(u, j)' = b /\ offer'[u] = offer[u]
      BY <2>4, <3>1, <1>3, <1>12
    <3>4. ASSUME OfferedAt(u, j) PROVE OperationRight(offer[u], BookAt(u, j))'
      <4>1. PICK x : x = offer[u]
        OBVIOUS
      <4>2. OperationRight(x, b)'
        BY <3>4, <4>1, <3>1, <3>2, <2>1 DEF SlotRight
      <4>3. QED
        BY <4>1, <4>2, <3>3
    <3>5. ASSUME AcceptedAt(u, j) # Score!None PROVE OperationRight(AcceptedAt(u, j), BookAt(u, j))'
      <4>1. PICK x : x = AcceptedAt(u, j)
        OBVIOUS
      <4>2. OperationRight(x, b)'
        BY <3>5, <4>1, <3>1, <3>2, <2>1 DEF SlotRight
      <4>3. QED
        BY <4>1, <4>2, <3>3
    <3>6. ASSUME AnswerAt(u, j) # Score!None PROVE AnswerRight(AnswerAt(u, j), BookAt(u, j))'
      <4>1. PICK x : x = AnswerAt(u, j)
        OBVIOUS
      <4>2. AnswerRight(x, b)'
        BY <3>6, <4>1, <3>1, <3>2, <2>1 DEF SlotRight
      <4>3. QED
        BY <4>1, <4>2, <3>3
    <3>7. BookAt(u, j)' # Score!None => EntryRight(BookAt(u, j))'
      BY <3>1, <3>2, <3>3, <2>1 DEF SlotRight
    <3>8. QED
      BY <2>2, <3>3, <3>4, <3>5, <3>6, <3>7, <1>12 DEF SlotRight
  <2>5. QED
    BY <2>3, <2>4
<1>14. LinesClaimed'
  <2>1. ASSUME NEW u \in Tile, NEW j \in Tags, NEW l \in Line
        PROVE  On(u, j, l)' <=> On(u, j, l) /\ ~(u = t /\ j = k)
    BY <1>12 DEF On
  <2>2. SUFFICES ASSUME Checked
                PROVE  /\ \A u \in Tile, j \in Tags, l \in Line : On(u, j, l)' => l \in busy_lines'
                       /\ \A l \in busy_lines' : \E u \in Tile, j \in Tags : On(u, j, l)'
                       /\ \A u, v \in Tile, j, i \in Tags, l \in Line :
                             On(u, j, l)' /\ On(v, i, l)' => u = v /\ j = i
    BY <1>4 DEF LinesClaimed
  <2>3. LinesClaimed /\ busy_lines' = busy_lines \ {e.line} /\ busy_lines \subseteq Line
    BY <1>3 DEF ScoreInv, ScoreType
  <2>4. \A l \in Line : On(t, k, l) <=> l = e.line
    BY <1>1, <1>6 DEF On
  <2>5. \A u \in Tile, j \in Tags, l \in Line : On(u, j, l)' => l \in busy_lines'
    BY <2>1, <2>2, <2>3, <2>4, <1>6 DEF LinesClaimed
  <2>6. ASSUME NEW l \in busy_lines' PROVE \E u \in Tile, j \in Tags : On(u, j, l)'
    <3>1. l \in busy_lines /\ l # e.line
      BY <2>3
    <3>2. PICK u \in Tile, j \in Tags : On(u, j, l)
      BY <3>1, <2>2, <2>3 DEF LinesClaimed
    <3>3. ~(u = t /\ j = k)
      BY <3>1, <3>2, <2>3, <2>4
    <3>4. QED
      BY <3>1, <3>2, <3>3, <2>1, <2>3
  <2>7. ASSUME NEW u \in Tile, NEW v \in Tile, NEW j \in Tags, NEW i \in Tags, NEW l \in Line,
               On(u, j, l)', On(v, i, l)'
        PROVE  u = v /\ j = i
    BY <2>1, <2>2, <2>3, <2>7 DEF LinesClaimed
  <2>8. QED
    BY <2>5, <2>6, <2>7
<1>15. MemoryFollowed'
  BY <1>3, <1>4, <1>5, <1>6 DEF ScoreInv, MemoryFollowed, AnswerRight
<1>16. Score!AlarmsSound'
  <2>1. a.bad \in BOOLEAN
    BY <1>5 DEF Answers
  <2>2. (e.plausible /\ a.word \notin plausible[e.line]) \/ (e.predicted /\ a.word # e.want) => a.bad
    BY <1>5 DEF EntryRight, AnswerRight
  <2>3. Checked /\ a.bad => e.predicted /\ a.word # e.want
    BY <1>5 DEF EntryRight, AnswerRight
  <2>4. /\ mismatches => wrong
        /\ Checked /\ wrong => mismatches
    BY DEF ScoreInv, Score!AlarmsSound, Score!Mode, Checked
  <2>5. (mismatches' => wrong') /\ (Checked /\ wrong' => mismatches')
    BY <2>1, <2>2, <2>3, <2>4, <1>3
  <2>6. QED
    BY <2>5, <1>4 DEF Score!AlarmsSound, Score!Mode, Checked
<1>17. QED
  BY <1>4, <1>11, <1>13, <1>14, <1>15, <1>16 DEF ScoreInv

\* The invariant in every step of the driver and of the machine.
LEMMA ScoreNext ==
    ASSUME Score!ScoreboardTypes, ScoreInv, [Score!Next]_(Score!vars)
    PROVE  ScoreInv'
<1>1. CASE Score!Next
  <2>1. setting' = setting
    BY <1>1 DEF Score!Next
  <2>2. PICK t \in Tile :
           \/ \E l \in setting.lines, w \in setting.words, be \in SUBSET Byte : Score!plan_store(t, l, w, be)
           \/ \E l \in setting.lines : Score!plan_load(t, l)
           \/ \E l \in setting.lines, op \in {"LD", "ST"}, w \in setting.words : Score!issue(t, op, l, w)
           \/ Score!drive(t)
           \/ \E k \in Tags : Score!perform(t, k) \/ Score!_collect(t, k)
    BY <1>1 DEF Score!Next, Tags
  <2>3. QED
    BY <2>1, <2>2, PlanStoreKeeps, PlanLoadKeeps, IssueKeeps, DriveKeeps, PerformKeeps, CollectKeeps
<1>2. CASE UNCHANGED Score!vars
  <2>1. UNCHANGED <<setting, gold, free_tags, book, busy_lines, pending, offer, mismatches, plausible,
                    mem, accepted, answer, wrong>>
    BY <1>2 DEF Score!vars
  <2>2. /\ Tags' = Tags /\ Score!Op' = Score!Op /\ (Checked' <=> Checked)
        /\ Score!Racing' <=> Score!Racing
    BY <2>1, SettingFixed
  <2>3. ScoreType'
    BY <2>1, <2>2 DEF ScoreInv, ScoreType
  <2>4. ASSUME NEW t \in Tile, NEW k \in Tags PROVE Slot(t, k)' /\ SlotRight(t, k)'
    <3>1. Slot(t, k) /\ SlotRight(t, k)
      BY DEF ScoreInv
    <3>2. Slot(t, k)'
      BY <3>1, <2>1 DEF Slot, FreeSlot, OfferedSlot, AcceptedSlot, AnsweredSlot,
         BookAt, AcceptedAt, AnswerAt, FreeAt, PendingAt, OfferedAt
    <3>3. \A e, x : /\ EntryRight(e)' <=> EntryRight(e)
                    /\ OperationRight(x, e)' <=> OperationRight(x, e)
                    /\ AnswerRight(x, e)' <=> AnswerRight(x, e)
      BY <2>1, StillRight
    <3>4. SlotRight(t, k)'
      BY <3>1, <3>3, <2>1 DEF SlotRight, BookAt, AcceptedAt, AnswerAt, OfferedAt
    <3>5. QED
      BY <3>2, <3>4
  <2>5. \A t \in Tile, k \in Tags, l \in Line : On(t, k, l)' <=> On(t, k, l)
    BY <2>1 DEF On, BookAt
  <2>6. LinesClaimed' /\ MemoryFollowed' /\ Score!AlarmsSound'
    BY <2>1, <2>2, <2>5 DEF ScoreInv, ScoreType, LinesClaimed, MemoryFollowed, Score!AlarmsSound, Score!Mode
  <2>7. QED
    BY <2>2, <2>3, <2>4, <2>6 DEF ScoreInv
<1>3. QED
  BY <1>1, <1>2

\* Tags, busy lines and the golden memory, from the invariant.
LEMMA BookIsKept ==
    ASSUME ScoreInv PROVE Score!BookKept
<1>1. Score!TypeOK
  BY DEF ScoreInv, ScoreType, Score!TypeOK, Tags
<1>2. Score!TagsInOnePlace
  <2> SUFFICES ASSUME NEW t \in Tile, NEW k \in Tags
               PROVE  /\ k \in free_tags[t] <=> book[t][k] = Score!None
                      /\ k \in free_tags[t] => k \notin pending[t] /\ (offer[t] # Score!None => offer[t].tag # k)
                      /\ k \notin free_tags[t] =>
                            ((k \in pending[t]) # (offer[t] # Score!None /\ offer[t].tag = k))
                      /\ accepted[t][k] # Score!None \/ answer[t][k] # Score!None => k \in pending[t]
                      /\ book[t][k] # Score!None => ~Score!Done(t, k)
    BY DEF Score!TagsInOnePlace, Tags
  <2>1. Slot(t, k)
    BY DEF ScoreInv
  <2>2. QED
    BY <2>1 DEF Slot, FreeSlot, OfferedSlot, AcceptedSlot, AnsweredSlot, FreeAt, BookAt, AcceptedAt,
       AnswerAt, PendingAt, OfferedAt, Score!Done
<1>3. Score!OneOperationPerLine
  <2> SUFFICES ASSUME Checked, NEW l \in Line
               PROVE  Cardinality({p \in Tile \X Tags : book[p[1]][p[2]] # Score!None /\ book[p[1]][p[2]].line = l})
                         = (IF l \in busy_lines THEN 1 ELSE 0)
    BY SameCardinality DEF Score!OneOperationPerLine, Checked, Score!Mode, Tags
  <2> DEFINE P == {p \in Tile \X Tags : book[p[1]][p[2]] # Score!None /\ book[p[1]][p[2]].line = l}
  <2>1. \A t \in Tile, k \in Tags : <<t, k>> \in P <=> On(t, k, l)
    BY DEF On, BookAt
  <2>2. LinesClaimed
    BY DEF ScoreInv
  <2>3. CASE l \in busy_lines
    <3>1. PICK t \in Tile, k \in Tags : On(t, k, l)
      BY <2>2, <2>3 DEF LinesClaimed
    <3>2. P = {<<t, k>>}
      BY <3>1, <2>1, <2>2 DEF LinesClaimed
    <3>3. QED
      BY <2>3, <3>2, FS_Singleton
  <2>4. CASE l \notin busy_lines
    <3>1. P = {}
      BY <2>1, <2>2, <2>4 DEF LinesClaimed
    <3>2. QED
      BY <2>4, <3>1, FS_EmptySet
  <2>5. QED
    BY <2>3, <2>4
<1>4. Score!GoldenIsMachine
  BY DEF ScoreInv, MemoryFollowed, Score!GoldenIsMachine, Checked, Score!Mode
<1>5. QED
  BY <1>1, <1>2, <1>3, <1>4 DEF Score!BookKept

\* In the bench.  For any tiles, tags, lines and words, and any order in which
\* the machine performs and answers: the scoreboard complains of wrong answers
\* only, of every one where one operation at a time is on a line, and its tags,
\* busy lines and predictions are why (multicore.py, golden.py, raceutil.py).
THEOREM ScoreboardSound == BenchSpec => []AlarmsSound
<1> DEFINE Inv == part = "scoreboard" => ScoreInv
<1>0. Score!ScoreboardTypes
  BY BenchTypes
<1>1. BenchInit => Inv
  BY <1>0, ScoreInit DEF BenchInit
<1>2. Inv /\ [BenchNext]_allVars => Inv'
  <2> SUFFICES ASSUME Inv, [BenchNext]_allVars, part' = "scoreboard" PROVE ScoreInv'
    OBVIOUS
  <2>1. part = "scoreboard" /\ [Score!Next]_(Score!vars)
    BY DEF BenchNext, OthersOff, allVars, Score!vars
  <2>2. QED
    BY <2>1, <1>0, ScoreNext
<1>3. Inv => AlarmsSound
  BY BookIsKept DEF AlarmsSound, ScoreInv
<1> HIDE DEF Inv
<1>4. QED
  BY <1>1, <1>2, <1>3, PTL DEF BenchSpec

---------------------------------------------------------------------------
(* The liveness gauge.  While it is sampled, an entry's age is never       *)
(* further above the worst one sampled than the cycles since the last      *)
(* sample; and the age of an entry is one below the cycles it has lived,   *)
(* or equal when it is freed.                                              *)

\* The gauge has been sampled in every cycle so far.
Sampled == DrainSampled \/ phase = "main"

AgeAt(f, e) == age_q[f][e]
LivedAt(f, e) == lived[f][e]
ValidAt(f, e) == valid[f][e]

GaugeType ==
    /\ valid \in [TxnFile -> [TxnEntry -> BOOLEAN]]
    /\ age_q \in [TxnFile -> [TxnEntry -> Nat]] /\ lived \in [TxnFile -> [TxnEntry -> Nat]]
    /\ worst \in [TxnFile -> Nat] /\ peak \in [TxnFile -> Nat]
    /\ n \in Nat /\ cycles \in Nat

\* One file and entry, against the worst age sampled and the peak.
EntryGauged(f, e) ==
    /\ AgeAt(f, e) <= cycles
    /\ Sampled => AgeAt(f, e) <= worst[f] + (n % Every)
    /\ AgeAt(f, e) <= peak[f] + 1
    /\ ValidAt(f, e) => AgeAt(f, e) <= peak[f] /\ LivedAt(f, e) = AgeAt(f, e) + 1
    /\ LivedAt(f, e) >= AgeAt(f, e)

FileGauged(f) ==
    /\ peak[f] <= cycles /\ worst[f] <= cycles
    /\ Sampled => peak[f] <= worst[f] + Every
    /\ worst[f] <= peak[f] + 1

GaugeInv ==
    /\ GaugeType
    /\ \A f \in TxnFile : FileGauged(f) /\ \A e \in TxnEntry : EntryGauged(f, e)

\* A set of naturals with a bound has a greatest element.
LEMMA GreatestExists ==
    ASSUME NEW S \in SUBSET Nat, S # {}, NEW B \in Nat, \A x \in S : x <= B
    PROVE  Gauge!Max(S) \in S /\ \A y \in S : y <= Gauge!Max(S)
<1>1. PICK T \in SUBSET Nat : T = {B - x : x \in S}
  <2>1. \A x \in S : B - x \in Nat
    OBVIOUS
  <2>2. {B - x : x \in S} \in SUBSET Nat
    BY <2>1
  <2>3. QED
    BY <2>2
<1>2. PICK m \in T : \A y \in T : m <= y
  <2>1. T # {}
    BY <1>1
  <2>2. QED
    BY <2>1, LeastExists
<1>3. PICK x \in S : m = B - x
  BY <1>1, <1>2
<1>4. \A y \in S : x >= y
  <2> SUFFICES ASSUME NEW y \in S PROVE x >= y
    OBVIOUS
  <2>1. B - y \in T
    BY <1>1
  <2>2. B - x <= B - y
    BY <2>1, <1>2, <1>3
  <2>3. x \in Nat /\ y \in Nat
    OBVIOUS
  <2>4. QED
    BY <2>2, <2>3
<1>5. Gauge!Max(S) \in S /\ \A y \in S : Gauge!Max(S) >= y
  BY <1>4 DEF Gauge!Max
<1>6. QED
  BY <1>5

\* A quotient and a remainder are the only ones.
LEMMA RemainderUnique ==
    ASSUME NEW d \in Nat \ {0}, NEW p \in Int, NEW q \in Int, NEW r \in 0 .. d - 1, NEW s \in 0 .. d - 1,
           d * p + r = d * q + s
    PROVE  p = q /\ r = s
<1>1. ASSUME NEW x \in Int, NEW y \in Int, NEW u \in 0 .. d - 1, NEW v \in 0 .. d - 1,
             d * x + u = d * y + v, x < y
      PROVE  FALSE
  <2>1. PICK k \in Nat : y = x + 1 + k
    <3>1. y - x - 1 \in Nat /\ y = x + 1 + (y - x - 1)
      BY <1>1
    <3>2. QED
      BY <3>1
  <2>2. d * y = d * x + d + d * k
    BY <2>1
  <2>3. d * k \in Nat
    OBVIOUS
  <2>4. d * x \in Int
    OBVIOUS
  <2>5. QED
    BY <1>1, <2>2, <2>3, <2>4
<1>2. ~(p < q) /\ ~(q < p)
  BY <1>1
<1>3. p = q
  BY <1>2
<1>4. QED
  BY <1>3

\* What a remainder is.
LEMMA Remainder ==
    ASSUME NEW c \in Nat, NEW d \in Nat \ {0}
    PROVE  /\ (c % d) \in 0 .. d - 1 /\ (c \div d) \in Nat
           /\ c = d * (c \div d) + (c % d)
OBVIOUS

\* The cycles since the last sample, counted on.
LEMMA CountedOn ==
    ASSUME NEW c \in Nat, NEW d \in Nat \ {0}
    PROVE  /\ (c % d) \in 0 .. d - 1
           /\ (c + 1) % d = IF (c % d) + 1 = d THEN 0 ELSE (c % d) + 1
<1>1. PICK q \in Nat, r \in 0 .. d - 1 : r = c % d /\ c = d * q + r
  BY Remainder
<1>2. PICK p \in Nat, s \in 0 .. d - 1 : s = (c + 1) % d /\ c + 1 = d * p + s
  BY Remainder, c + 1 \in Nat
<1>3. CASE r + 1 = d
  <2>1. d * p + s = d * (q + 1) + 0
    BY <1>1, <1>2, <1>3
  <2>2. s = 0
    BY <2>1, RemainderUnique, 0 \in 0 .. d - 1, q + 1 \in Int
  <2>3. QED
    BY <2>2, <1>1, <1>2, <1>3
<1>4. CASE r + 1 # d
  <2>1. d * p + s = d * q + (r + 1) /\ r + 1 \in 0 .. d - 1
    BY <1>1, <1>2, <1>4
  <2>2. s = r + 1
    BY <2>1, RemainderUnique
  <2>3. QED
    BY <2>2, <1>1, <1>2, <1>4
<1>5. QED
  BY <1>3, <1>4

\* At the start nothing is in use.
LEMMA GaugeInit == ASSUME Gauge!GaugeTypes, Gauge!Init PROVE GaugeInv
<1> USE DEF Gauge!Init, Gauge!All
<1>1. GaugeType
  BY DEF GaugeType
<1>2. Every \in Nat \ {0}
  BY DEF Gauge!GaugeTypes
<1>3. (0 % Every) \in 0 .. Every - 1
  BY <1>2, CountedOn, 0 \in Nat
<1>4. ASSUME NEW f \in TxnFile, NEW e \in TxnEntry PROVE EntryGauged(f, e)
  BY <1>2, <1>3 DEF EntryGauged, AgeAt, LivedAt, ValidAt
<1>5. ASSUME NEW f \in TxnFile PROVE FileGauged(f)
  BY <1>2 DEF FileGauged
<1>6. QED
  BY <1>1, <1>4, <1>5 DEF GaugeInv

\* An entry at a clock edge: it ages while it is in use and in the cycle in
\* which it is freed.
LEMMA EdgeEntry ==
    ASSUME GaugeType, NEW used, NEW freed, Gauge!Edge(used, freed), Gauge!Cycle(used, freed),
           NEW f \in TxnFile, NEW e \in TxnEntry
    PROVE  /\ AgeAt(f, e)' = IF ValidAt(f, e) THEN AgeAt(f, e) + 1 ELSE 0
           /\ ValidAt(f, e)' \in BOOLEAN
           /\ ValidAt(f, e)' /\ ValidAt(f, e) => LivedAt(f, e)' = LivedAt(f, e) + 1
           /\ ValidAt(f, e)' /\ ~ValidAt(f, e) => LivedAt(f, e)' = 1
           /\ ~ValidAt(f, e)' => LivedAt(f, e)' = LivedAt(f, e)
<1>1. /\ age_q'[f][e] = Gauge!Age(f, e, used[f])
      /\ valid'[f][e] = ((valid[f][e] /\ e \notin freed[f]) \/ e \in used[f])
      /\ lived'[f][e] = IF e \in used[f] THEN 1
                        ELSE IF valid'[f][e] THEN lived[f][e] + 1 ELSE lived[f][e]
  BY DEF Gauge!Edge
<1>2. used[f] \in Gauge!OneOrNone(f, FALSE)
  BY DEF Gauge!Cycle
<1>3. e \in used[f] => valid[f][e] = FALSE
  BY <1>2 DEF Gauge!OneOrNone
<1>4. valid[f][e] \in BOOLEAN
  BY DEF GaugeType
<1>5. QED
  BY <1>1, <1>3, <1>4 DEF Gauge!Age, AgeAt, ValidAt, LivedAt

\* The peak after a clock edge.
LEMMA EdgePeak ==
    ASSUME GaugeInv, cycles' = cycles + 1, NEW used, NEW freed, Gauge!Edge(used, freed),
           Gauge!Cycle(used, freed), NEW f \in TxnFile
    PROVE  /\ peak'[f] \in Nat /\ peak'[f] >= peak[f]
           /\ \A e \in TxnEntry : ValidAt(f, e)' => AgeAt(f, e)' <= peak'[f]
           /\ peak'[f] = peak[f] \/ \E e \in TxnEntry : peak'[f] = AgeAt(f, e)'
           /\ peak'[f] <= cycles'
<1> DEFINE S == {peak[f]} \cup {age_q'[f][e] : e \in {x \in TxnEntry : valid'[f][x]}}
<1>1. peak'[f] = Gauge!Max(S)
  BY DEF Gauge!Edge
<1>2. \A e \in TxnEntry : AgeAt(f, e)' \in Nat /\ AgeAt(f, e)' <= cycles'
  <2> SUFFICES ASSUME NEW e \in TxnEntry PROVE AgeAt(f, e)' \in Nat /\ AgeAt(f, e)' <= cycles'
    OBVIOUS
  <2>1. AgeAt(f, e)' = IF ValidAt(f, e) THEN AgeAt(f, e) + 1 ELSE 0
    BY EdgeEntry DEF GaugeInv
  <2>2. AgeAt(f, e) \in Nat /\ AgeAt(f, e) <= cycles /\ cycles \in Nat
    BY DEF GaugeInv, GaugeType, EntryGauged, AgeAt
  <2>3. QED
    BY <2>1, <2>2
<1>3. S \in SUBSET Nat /\ S # {} /\ (\A x \in S : x <= cycles') /\ cycles' \in Nat
  <2>1. peak[f] \in Nat /\ peak[f] <= cycles /\ cycles \in Nat
    BY DEF GaugeInv, GaugeType, FileGauged
  <2>2. QED
    BY <1>2, <2>1 DEF AgeAt
<1>4. /\ \A e \in TxnEntry : ValidAt(f, e)' => AgeAt(f, e)' \in S
      /\ \A x \in S : x = peak[f] \/ \E e \in TxnEntry : x = AgeAt(f, e)'
      /\ peak[f] \in S
  BY DEF ValidAt, AgeAt
<1> HIDE DEF S
<1>5. Gauge!Max(S) \in S /\ \A y \in S : y <= Gauge!Max(S)
  BY <1>3, GreatestExists
<1>6. QED
  BY <1>1, <1>3, <1>4, <1>5

\* The worst age after a sample: it is taken in every Every-th call.
LEMMA SampledWorst ==
    ASSUME GaugeInv, cycles' \in Nat, Gauge!sample, NEW f \in TxnFile,
           \A e \in TxnEntry : AgeAt(f, e)' \in Nat /\ AgeAt(f, e)' <= cycles',
           worst[f] <= cycles'
    PROVE  /\ n' = n + 1 /\ worst'[f] \in Nat /\ worst'[f] >= worst[f] /\ worst'[f] <= cycles'
           /\ worst'[f] = worst[f] \/ \E e \in TxnEntry : worst'[f] = AgeAt(f, e)'
           /\ (n' % Every) = 0 => \A e \in TxnEntry : AgeAt(f, e)' <= worst'[f]
<1> DEFINE S == {worst[f]} \cup {age_q'[f][e] : e \in TxnEntry}
<1>1. n' = n + 1 /\ worst[f] \in Nat
  BY DEF Gauge!sample, GaugeInv, GaugeType
<1>2. CASE (n' % Every) # 0
  BY <1>1, <1>2 DEF Gauge!sample
<1>3. CASE (n' % Every) = 0
  <2>1. worst'[f] = Gauge!Max(S)
    BY <1>3 DEF Gauge!sample
  <2>2. S \in SUBSET Nat /\ S # {} /\ \A x \in S : x <= cycles'
    BY <1>1 DEF AgeAt
  <2>3. /\ \A e \in TxnEntry : AgeAt(f, e)' \in S
        /\ \A x \in S : x = worst[f] \/ \E e \in TxnEntry : x = AgeAt(f, e)'
        /\ worst[f] \in S
    BY DEF AgeAt
  <2> HIDE DEF S
  <2>4. Gauge!Max(S) \in S /\ \A y \in S : y <= Gauge!Max(S)
    BY <2>2, GreatestExists
  <2>5. QED
    BY <1>1, <2>1, <2>2, <2>3, <2>4
<1>4. QED
  BY <1>2, <1>3

\* One cycle of the files, sampled or not.
LEMMA GaugeCycle ==
    ASSUME Gauge!GaugeTypes, GaugeInv, NEW used, NEW freed, Gauge!Cycle(used, freed),
           Sampled' => Sampled, Gauge!sample \/ (UNCHANGED <<n, worst>> /\ ~Sampled')
    PROVE  GaugeInv'
<1>1. /\ cycles' = cycles + 1 /\ cycles \in Nat /\ n \in Nat /\ Every \in Nat \ {0}
      /\ Gauge!Edge(used, freed)
  BY DEF Gauge!Cycle, GaugeInv, GaugeType, Gauge!GaugeTypes
<1>2. \A f \in TxnFile, e \in TxnEntry :
         /\ AgeAt(f, e)' = IF ValidAt(f, e) THEN AgeAt(f, e) + 1 ELSE 0
         /\ ValidAt(f, e)' \in BOOLEAN
         /\ ValidAt(f, e)' /\ ValidAt(f, e) => LivedAt(f, e)' = LivedAt(f, e) + 1
         /\ ValidAt(f, e)' /\ ~ValidAt(f, e) => LivedAt(f, e)' = 1
         /\ ~ValidAt(f, e)' => LivedAt(f, e)' = LivedAt(f, e)
  BY <1>1, EdgeEntry DEF GaugeInv
<1>3. \A f \in TxnFile, e \in TxnEntry :
         AgeAt(f, e) \in Nat /\ LivedAt(f, e) \in Nat /\ ValidAt(f, e) \in BOOLEAN
  BY DEF GaugeInv, GaugeType, AgeAt, LivedAt, ValidAt
<1>4. \A f \in TxnFile, e \in TxnEntry :
         /\ AgeAt(f, e) <= cycles
         /\ Sampled => AgeAt(f, e) <= worst[f] + (n % Every)
         /\ AgeAt(f, e) <= peak[f] + 1
         /\ ValidAt(f, e) => AgeAt(f, e) <= peak[f] /\ LivedAt(f, e) = AgeAt(f, e) + 1
         /\ LivedAt(f, e) >= AgeAt(f, e)
  BY DEF GaugeInv, EntryGauged
<1>5. \A f \in TxnFile : /\ worst[f] \in Nat /\ peak[f] \in Nat
                         /\ peak[f] <= cycles /\ worst[f] <= cycles
                         /\ Sampled => peak[f] <= worst[f] + Every
                         /\ worst[f] <= peak[f] + 1
  BY DEF GaugeInv, FileGauged, GaugeType
<1>6. \A f \in TxnFile, e \in TxnEntry : AgeAt(f, e)' \in Nat /\ AgeAt(f, e)' <= cycles'
  BY <1>1, <1>2, <1>3, <1>4
<1>7. \A f \in TxnFile :
         /\ peak'[f] \in Nat /\ peak'[f] >= peak[f]
         /\ \A e \in TxnEntry : ValidAt(f, e)' => AgeAt(f, e)' <= peak'[f]
         /\ peak'[f] = peak[f] \/ \E e \in TxnEntry : peak'[f] = AgeAt(f, e)'
         /\ peak'[f] <= cycles'
  BY <1>1, EdgePeak
<1>8. \A f \in TxnFile :
         /\ worst'[f] \in Nat /\ worst'[f] >= worst[f] /\ worst'[f] <= cycles'
         /\ worst'[f] = worst[f] \/ \E e \in TxnEntry : worst'[f] = AgeAt(f, e)'
         /\ Sampled' /\ (n' % Every) = 0 => \A e \in TxnEntry : AgeAt(f, e)' <= worst'[f]
  <2> SUFFICES ASSUME NEW f \in TxnFile
               PROVE  /\ worst'[f] \in Nat /\ worst'[f] >= worst[f] /\ worst'[f] <= cycles'
                      /\ worst'[f] = worst[f] \/ \E e \in TxnEntry : worst'[f] = AgeAt(f, e)'
                      /\ Sampled' /\ (n' % Every) = 0 => \A e \in TxnEntry : AgeAt(f, e)' <= worst'[f]
    OBVIOUS
  <2>1. worst[f] \in Nat /\ worst[f] <= cycles' /\ cycles' \in Nat
    BY <1>1, <1>5
  <2>2. CASE Gauge!sample
    BY <2>1, <2>2, <1>6, SampledWorst
  <2>3. CASE UNCHANGED <<n, worst>> /\ ~Sampled'
    BY <2>1, <2>3
  <2>4. QED
    BY <2>2, <2>3
<1>9. n' \in Nat /\ (Sampled' => n' = n + 1)
  BY <1>1 DEF Gauge!sample
<1>10. PICK c \in 0 .. Every - 1, d \in 0 .. Every - 1 :
          /\ c = n % Every /\ d = n' % Every
          /\ Sampled' => d = IF c + 1 = Every THEN 0 ELSE c + 1
  <2>1. PICK k \in Nat, m \in Nat : k = n /\ m = n' /\ (Sampled' => m = k + 1)
    BY <1>1, <1>9
  <2>2. /\ (k % Every) \in 0 .. Every - 1 /\ (m % Every) \in 0 .. Every - 1
        /\ ((k + 1) % Every) = IF (k % Every) + 1 = Every THEN 0 ELSE (k % Every) + 1
    <3>1. Every \in Nat \ {0}
      BY <1>1
    <3>2. (m % Every) \in 0 .. Every - 1
      BY <3>1, CountedOn
    <3>3. QED
      BY <3>1, <3>2, CountedOn
  <2>3. QED
    BY <2>1, <2>2
<1>11. GaugeType'
  <2>1. /\ valid' \in [TxnFile -> [TxnEntry -> BOOLEAN]]
        /\ age_q' \in [TxnFile -> [TxnEntry -> Nat]] /\ lived' \in [TxnFile -> [TxnEntry -> Nat]]
    <3>1. \A f \in TxnFile, e \in TxnEntry : LivedAt(f, e)' \in Nat
      BY <1>2, <1>3
    <3>2. \A f \in TxnFile, e \in TxnEntry :
             valid'[f][e] \in BOOLEAN /\ age_q'[f][e] \in Nat /\ lived'[f][e] \in Nat
      BY <3>1, <1>2, <1>6 DEF AgeAt, LivedAt, ValidAt
    <3>3. /\ valid' = [f \in TxnFile |-> [e \in TxnEntry |-> valid'[f][e]]]
          /\ age_q' = [f \in TxnFile |-> [e \in TxnEntry |-> age_q'[f][e]]]
          /\ lived' = [f \in TxnFile |-> [e \in TxnEntry |-> lived'[f][e]]]
      BY <1>1 DEF Gauge!Edge
    <3>4. QED
      BY <3>2, <3>3
  <2>2. peak' \in [TxnFile -> Nat]
    <3>1. peak' = [f \in TxnFile |-> peak'[f]]
      BY <1>1 DEF Gauge!Edge
    <3>2. QED
      BY <3>1, <1>7
  <2>3. worst' \in [TxnFile -> Nat]
    <3>1. worst' = [f \in TxnFile |-> worst'[f]]
      <4>1. worst = [f \in TxnFile |-> worst[f]]
        BY DEF GaugeInv, GaugeType
      <4>2. CASE Gauge!sample
        BY <4>1, <4>2 DEF Gauge!sample
      <4>3. CASE UNCHANGED worst
        BY <4>1, <4>3
      <4>4. QED
        BY <4>2, <4>3
    <3>2. QED
      BY <3>1, <1>8
  <2>4. QED
    BY <2>1, <2>2, <2>3, <1>1, <1>9 DEF GaugeType
<1>12. ASSUME NEW f \in TxnFile, NEW e \in TxnEntry PROVE EntryGauged(f, e)'
  <2>1. Sampled' => AgeAt(f, e)' <= worst'[f] + d
    BY <1>2, <1>3, <1>4, <1>5, <1>8, <1>10
  <2>2. AgeAt(f, e)' <= peak'[f] + 1
    BY <1>2, <1>3, <1>4, <1>5, <1>7
  <2>3. ValidAt(f, e)' => AgeAt(f, e)' <= peak'[f] /\ LivedAt(f, e)' = AgeAt(f, e)' + 1
    BY <1>2, <1>3, <1>4, <1>7
  <2>4. LivedAt(f, e)' >= AgeAt(f, e)'
    BY <1>2, <1>3, <1>4
  <2>5. QED
    BY <2>1, <2>2, <2>3, <2>4, <1>6, <1>10 DEF EntryGauged
<1>13. ASSUME NEW f \in TxnFile PROVE FileGauged(f)'
  <2>1. \A e \in TxnEntry : /\ AgeAt(f, e)' \in Nat /\ AgeAt(f, e)' <= peak[f] + 1
                            /\ Sampled' => AgeAt(f, e)' <= worst[f] + c + 1
    BY <1>2, <1>3, <1>4, <1>5, <1>10
  <2>2. Sampled' => peak'[f] <= worst'[f] + Every
    BY <2>1, <1>1, <1>5, <1>7, <1>8
  <2>3. worst'[f] <= peak'[f] + 1
    BY <2>1, <1>5, <1>7, <1>8
  <2>4. QED
    BY <2>2, <2>3, <1>7, <1>8 DEF FileGauged
<1>14. QED
  BY <1>11, <1>12, <1>13 DEF GaugeInv

\* The invariant in every step: the drain is sampled or it is not.
LEMMA GaugeNext ==
    ASSUME Gauge!GaugeTypes, GaugeInv, [Gauge!Next]_(Gauge!vars)
    PROVE  GaugeInv'
<1>1. ASSUME NEW used, NEW freed, Gauge!MainLoop(used, freed) \/ Gauge!DrainLoop(used, freed)
      PROVE  GaugeInv'
  <2>1. phase' = phase /\ (Sampled' => Sampled) /\ Gauge!Cycle(used, freed)
    BY <1>1 DEF Gauge!MainLoop, Gauge!DrainLoop, Sampled
  <2>2. Gauge!sample \/ (UNCHANGED <<n, worst>> /\ ~Sampled')
    BY <1>1 DEF Gauge!MainLoop, Gauge!DrainLoop, Sampled
  <2>3. QED
    BY <2>1, <2>2, GaugeCycle
<1>2. CASE UNCHANGED <<valid, age_q, worst, n, cycles, lived, peak>> /\ (Sampled' => Sampled)
  BY <1>2 DEF GaugeInv, GaugeType, FileGauged, EntryGauged, AgeAt, LivedAt, ValidAt
<1>3. CASE Gauge!StopPlanning \/ Gauge!Report \/ UNCHANGED Gauge!vars
  BY <1>2, <1>3 DEF Gauge!StopPlanning, Gauge!Report, Gauge!vars, Sampled
<1>4. QED
  BY <1>1, <1>3 DEF Gauge!Next

\* What the gauge and hangdump's list report, from the invariant.
LEMMA GaugeIsHonest ==
    ASSUME Gauge!GaugeTypes, GaugeInv
    PROVE  /\ Gauge!AboveByOne /\ Gauge!StuckWereLive
           /\ Sampled => Gauge!MissesAtMostEvery
<1>1. Every \in Nat /\ Threshold \in Nat
  BY DEF Gauge!GaugeTypes
<1>2. Sampled => Gauge!MissesAtMostEvery
  BY <1>1 DEF Gauge!MissesAtMostEvery, GaugeInv, GaugeType, FileGauged
<1>3. Gauge!AboveByOne
  BY DEF Gauge!AboveByOne, GaugeInv, FileGauged
<1>4. Gauge!StuckWereLive
  <2> SUFFICES ASSUME NEW f \in TxnFile, NEW e \in TxnEntry
               PROVE  /\ ValidAt(f, e) /\ LivedAt(f, e) > Threshold => AgeAt(f, e) >= Threshold
                      /\ AgeAt(f, e) >= Threshold => LivedAt(f, e) >= Threshold
    BY DEF Gauge!StuckWereLive, Gauge!stuck, AgeAt, LivedAt, ValidAt
  <2>1. AgeAt(f, e) \in Nat /\ LivedAt(f, e) \in Nat
    BY DEF GaugeInv, GaugeType, AgeAt, LivedAt
  <2>2. /\ ValidAt(f, e) => LivedAt(f, e) = AgeAt(f, e) + 1
        /\ LivedAt(f, e) >= AgeAt(f, e)
    BY DEF GaugeInv, EntryGauged
  <2>3. QED
    BY <1>1, <2>1, <2>2
<1>5. QED
  BY <1>2, <1>3, <1>4

\* In the bench.  For any files, entries, threshold and interval: the worst age
\* is never above the peak by more than a cycle, and hangdump names every entry
\* stuck for longer than the threshold and only such as lived for it; and the
\* gauge misses the peak by at most the interval, to the end where the drain is
\* sampled as well and up to the drain where it is not (probe.py, hangdump.py).
THEOREM GaugeSound ==
    BenchSpec => []( /\ DrainSampled \/ phase = "main" => GaugeHonest
                     /\ part = "gauge" => Gauge!AboveByOne /\ Gauge!StuckWereLive )
<1> DEFINE Inv == part = "gauge" => GaugeInv
           Honest == /\ DrainSampled \/ phase = "main" => GaugeHonest
                     /\ part = "gauge" => Gauge!AboveByOne /\ Gauge!StuckWereLive
<1>0. Gauge!GaugeTypes
  BY BenchTypes
<1>1. BenchInit => Inv
  BY <1>0, GaugeInit DEF BenchInit
<1>2. Inv /\ [BenchNext]_allVars => Inv'
  <2> SUFFICES ASSUME Inv, [BenchNext]_allVars, part' = "gauge" PROVE GaugeInv'
    OBVIOUS
  <2>1. part = "gauge" /\ [Gauge!Next]_(Gauge!vars)
    BY DEF BenchNext, OthersOff, allVars, Gauge!vars
  <2>2. QED
    BY <2>1, <1>0, GaugeNext
<1>3. Inv => Honest
  BY <1>0, GaugeIsHonest DEF GaugeHonest, Gauge!GaugeHonest, Sampled
<1> HIDE DEF Inv
<1>4. QED
  BY <1>1, <1>2, <1>3, PTL DEF BenchSpec

---------------------------------------------------------------------------
(* The synthesis flow.  What is in the output directory belongs to the run *)
(* at hand from the stage that wrote it on, and the bracket halves exactly *)
(* in every step of the search, so that its last width is known.           *)

MaybeRun == Synth!Run \cup {Synth!None}

Summaries ==
    [of : {"summary"}, target : Nat, sram : Synth!Sram, effort : Synth!Effort,
     flops : Synth!Run, cells : Synth!Run, timed : Synth!Run, boxes : MaybeRun,
     slack : {"met", "violated", "none"}]

\* What a summary claims of the run it describes.
OneRun(s) ==
    /\ s \in Summaries
    /\ s.flops = s.cells /\ s.timed = s.cells
    /\ s.boxes = IF Synth!Boxed THEN s.cells ELSE Synth!None
    /\ s.cells.period = s.target /\ s.cells.effort = s.effort
    /\ s.cells.design.sram = s.sram

\* Its slack says on which side of the shortest period its target is.
SlackTrue(s) ==
    /\ s.slack = "met" => s.target >= shortest[s.effort]
    /\ s.slack = "violated" => s.target < shortest[s.effort]

FlowTypes ==
    /\ rtl \in Version
    /\ key \in Synth!Key
    /\ args \in [sram : Synth!Sram, sweep : BOOLEAN, effort : Synth!Effort]
    /\ shortest \in [Synth!Effort -> Nat]
    /\ cache \in [Synth!Key -> Synth!Verilog \cup {Synth!None}]
    /\ \A k \in Synth!Key : cache[k] # Synth!None => cache[k].sram = k.sram
    /\ outdir \in [premap : MaybeRun, netlist : MaybeRun, boxes : MaybeRun,
                   summary : Summaries \cup {Synth!None}]
    /\ ~Synth!Boxed => outdir.boxes = Synth!None
    /\ outdir.summary # Synth!None => OneRun(outdir.summary)

\* The width of the bracket after k steps, in steps of 1/Scale.
Width(k) == (SweepHi - SweepLo) * (2 ^ (SweepSteps - k))

Bracket ==
    /\ lo \in Nat /\ hi \in Nat /\ steps \in 0 .. SweepSteps
    /\ SweepLo * Synth!Scale <= lo /\ hi <= SweepHi * Synth!Scale
    /\ hi - lo = Width(steps)
    /\ (hi = SweepHi * Synth!Scale) <=> (best = Synth!None)
    /\ best # Synth!None => /\ OneRun(best) /\ SlackTrue(best)
                            /\ best.slack = "met" /\ best.target = Synth!Round(hi)
    /\ lo # SweepLo * Synth!Scale => \E r \in runs : r.period = Synth!Round(lo) /\ ~r.ok
    /\ \A r \in runs : /\ r.period \in Nat /\ r.effort \in Synth!Effort
                       /\ ~r.ok => r.period < shortest[r.effort]

\* The search is over: too narrow, or enough steps.
Over == steps = SweepSteps \/ hi - lo < SweepResolution * Synth!Scale

Given == design \in Synth!Verilog /\ design.sram = args.sram

\* Where the process is, and what it has by then.
Stage ==
    /\ pc \in {"idle", "convert", "converting", "synth", "boxes", "sta", "judge", "answer", "save"}
    /\ pc \in {"convert", "converting"} => key.sram = args.sram
    /\ pc = "converting" => cache[key] \in Synth!Verilog
    /\ pc \in {"synth", "boxes", "sta", "judge"} => Given
    /\ pc \in {"boxes", "sta"} => outdir.premap = Synth!Script /\ outdir.netlist = Synth!Script
    /\ pc = "sta" => outdir.boxes = IF Synth!Boxed THEN outdir.netlist ELSE Synth!None
    /\ pc = "judge" => OneRun(res) /\ SlackTrue(res) /\ args.sweep /\ res.target = Synth!Round(Synth!mid)
    /\ pc = "save" => OneRun(res) /\ (args.sweep => res = best /\ best # Synth!None)
    /\ pc = "answer" => args.sweep
    /\ pc \notin {"answer", "save"} => steps < SweepSteps
    /\ pc \in {"answer", "save"} /\ args.sweep => Over

FlowInv == FlowTypes /\ Bracket /\ Stage

\* Powers of two: the width halves in each step, from the scale to one.
LEMMA WidthHalves ==
    ASSUME Synth!SynthFlowTypes, Synth!PowersOfTwo
    PROVE  /\ Synth!Scale \in Nat \ {0} /\ SweepHi - SweepLo \in Nat \ {0}
           /\ \A k \in 0 .. SweepSteps : Width(k) \in Nat \ {0}
           /\ \A k \in 0 .. SweepSteps - 1 : Width(k) = 2 * Width(k + 1)
           /\ Width(0) = SweepHi * Synth!Scale - SweepLo * Synth!Scale
           /\ Width(SweepSteps) = SweepHi - SweepLo
           /\ \A k \in 0 .. SweepSteps : Width(k) >= SweepHi - SweepLo
<1> DEFINE P(k) == 2 ^ k
           D == SweepHi - SweepLo
<1>1. /\ SweepSteps \in Nat \ {0} /\ SweepLo \in Nat /\ SweepHi \in Nat /\ D \in Nat \ {0}
  BY DEF Synth!SynthFlowTypes
<1>2. /\ \A k \in 0 .. SweepSteps : P(k) \in Nat \ {0}
      /\ \A k \in 0 .. SweepSteps - 1 : P(k + 1) = 2 * P(k)
      /\ P(0) = 1 /\ Synth!Scale = P(SweepSteps)
      /\ \A k \in 0 .. SweepSteps : Width(k) = D * P(SweepSteps - k)
  BY <1>1 DEF Synth!PowersOfTwo, Synth!Scale, Width
<1> HIDE DEF P, D
<1>3. Synth!Scale \in Nat \ {0}
  BY <1>1, <1>2
<1>4. ASSUME NEW k \in 0 .. SweepSteps PROVE Width(k) \in Nat \ {0} /\ Width(k) >= D
  <2>1. PICK x \in Nat \ {0} : x = P(SweepSteps - k)
    BY <1>1, <1>2
  <2>2. PICK y \in Nat : x = y + 1
    BY x - 1 \in Nat
  <2>3. D * x = D * y + D /\ D * y \in Nat
    BY <1>1, <2>2
  <2>4. QED
    BY <1>1, <1>2, <2>1, <2>3
<1>5. ASSUME NEW k \in 0 .. SweepSteps - 1 PROVE Width(k) = 2 * Width(k + 1)
  <2>1. /\ SweepSteps - k = (SweepSteps - (k + 1)) + 1 /\ SweepSteps - (k + 1) \in 0 .. SweepSteps - 1
        /\ k \in 0 .. SweepSteps /\ k + 1 \in 0 .. SweepSteps
    BY <1>1
  <2>2. PICK x \in Nat : x = P(SweepSteps - (k + 1)) /\ P(SweepSteps - k) = 2 * x
    BY <1>1, <1>2, <2>1
  <2>3. Width(k) = D * (2 * x) /\ Width(k + 1) = D * x
    BY <1>2, <2>1, <2>2
  <2>4. QED
    BY <1>1, <2>3
<1>6. Width(0) = SweepHi * Synth!Scale - SweepLo * Synth!Scale
  <2>1. Width(0) = D * P(SweepSteps)
    BY <1>1, <1>2
  <2>2. PICK x \in Nat : x = P(SweepSteps) /\ Synth!Scale = x
    BY <1>1, <1>2
  <2>3. D = SweepHi - SweepLo
    BY DEF D
  <2>4. (SweepHi - SweepLo) * x = SweepHi * x - SweepLo * x
    BY <1>1, <2>2
  <2>5. QED
    BY <2>1, <2>2, <2>3, <2>4
<1>7. Width(SweepSteps) = D
  BY <1>1, <1>2
<1>8. QED
  BY <1>1, <1>3, <1>4, <1>5, <1>6, <1>7 DEF D

\* Python's rounding is off by half a unit at the most, and exact on units.
LEMMA RoundOff ==
    ASSUME Synth!Scale \in Nat \ {0}, NEW x \in Nat
    PROVE  /\ Synth!Round(x) \in Nat
           /\ 2 * (Synth!Scale * Synth!Round(x)) <= 2 * x + Synth!Scale
           /\ 2 * x <= 2 * (Synth!Scale * Synth!Round(x)) + Synth!Scale
<1>1. PICK d \in Nat \ {0} : d = Synth!Scale
  OBVIOUS
<1>2. PICK q \in Nat, r \in 0 .. d - 1 : q = x \div d /\ r = x % d /\ x = d * q + r
  BY Remainder
<1>3. Synth!Round(x) = q \/ Synth!Round(x) = q + 1
  BY <1>1, <1>2 DEF Synth!Round
<1>4. Synth!Round(x) = q => 2 * r <= d
  BY <1>1, <1>2 DEF Synth!Round
<1>5. Synth!Round(x) = q + 1 => 2 * r >= d
  BY <1>1, <1>2 DEF Synth!Round
<1>6. d * (q + 1) = d * q + d /\ d * q \in Nat
  OBVIOUS
<1>7. QED
  BY <1>1, <1>2, <1>3, <1>4, <1>5, <1>6

\* A period that is a whole number is rounded to itself.
LEMMA RoundExact ==
    ASSUME Synth!Scale \in Nat \ {0}, NEW q \in Nat
    PROVE  Synth!Round(q * Synth!Scale) = q
<1>1. PICK d \in Nat \ {0} : d = Synth!Scale
  OBVIOUS
<1>2. PICK x \in Nat : x = q * d
  OBVIOUS
<1>3. PICK p \in Nat, r \in 0 .. d - 1 : p = x \div d /\ r = x % d /\ x = d * p + r
  BY Remainder
<1>4. d * p + r = d * q + 0
  BY <1>2, <1>3
<1>5. p = q /\ r = 0
  BY <1>4, RemainderUnique, 0 \in 0 .. d - 1
<1>6. QED
  BY <1>1, <1>2, <1>3, <1>5 DEF Synth!Round

\* The middle of the bracket halves it.
LEMMA MidHalves ==
    ASSUME Synth!SynthFlowTypes, Synth!PowersOfTwo, Bracket, steps < SweepSteps
    PROVE  /\ Synth!mid \in Nat /\ lo < Synth!mid /\ Synth!mid < hi
           /\ hi - Synth!mid = Width(steps + 1) /\ Synth!mid - lo = Width(steps + 1)
<1>1. PICK w \in Nat \ {0} : w = Width(steps + 1) /\ hi - lo = 2 * w
  <2>1. steps \in 0 .. SweepSteps - 1 /\ steps + 1 \in 0 .. SweepSteps /\ hi - lo = Width(steps)
    BY DEF Bracket, Synth!SynthFlowTypes
  <2>2. Width(steps + 1) \in Nat \ {0} /\ Width(steps) = 2 * Width(steps + 1)
    BY <2>1, WidthHalves
  <2>3. QED
    BY <2>1, <2>2
<1>2. lo \in Nat /\ hi \in Nat
  BY DEF Bracket
<1>3. Synth!mid = lo + w
  BY <1>1, <1>2 DEF Synth!mid
<1>4. QED
  BY <1>1, <1>2, <1>3

\* Of two products with one factor the smaller has the smaller other factor.
LEMMA FactorOrder ==
    ASSUME NEW d \in Nat \ {0}, NEW x \in Int, NEW y \in Int, d * x < d * y
    PROVE  x < y
<1> SUFFICES ASSUME x >= y PROVE FALSE
  OBVIOUS
<1>1. PICK k \in Nat : x = y + k
  BY x - y \in Nat
<1>2. d * x = d * y + d * k /\ d * k \in Nat /\ d * y \in Int
  BY <1>1
<1>3. QED
  BY <1>2

\* Scaling up and down again.
LEMMA ProductQuotient ==
    ASSUME NEW d \in Nat \ {0}, NEW x \in Nat
    PROVE  (x * d) \div d = x
<1>1. PICK y \in Nat : y = x * d /\ y = d * x
  OBVIOUS
<1>2. PICK q \in Nat, s \in 0 .. d - 1 : q = y \div d /\ y = d * q + s
  BY Remainder
<1>3. d * x + 0 = d * q + s
  BY <1>1, <1>2
<1>4. x = q
  BY <1>3, RemainderUnique, 0 \in 0 .. d - 1
<1>5. QED
  BY <1>1, <1>2, <1>4

\* The answer of a sweep whose runs had one effort is as close to the shortest
\* period as the last bracket is wide.
LEMMA AnswerNear ==
    ASSUME Synth!SynthFlowTypes, Synth!PowersOfTwo, FlowInv, pc = "save", args.sweep,
           \A r \in runs : r.effort = res.effort
    PROVE  Synth!NearShortest(res)
<1> DEFINE p == shortest[res.effort]
           d == Synth!Scale
           t == res.target
           b == Synth!Round(lo)
           W == SweepHi - SweepLo
<1>1. /\ SweepLo \in Nat /\ SweepHi \in Nat /\ W \in Nat \ {0} /\ SweepResolution \in Nat \ {0}
      /\ d \in Nat \ {0} /\ lo \in Nat /\ hi \in Nat
  BY WidthHalves DEF Synth!SynthFlowTypes, FlowInv, Bracket
<1>2. /\ OneRun(res) /\ SlackTrue(res) /\ res.slack = "met" /\ t = Synth!Round(hi)
  BY DEF FlowInv, Stage, Bracket
<1>3. t \in Nat /\ res.effort \in Synth!Effort /\ p \in Nat /\ t >= p
  <2>1. res \in Summaries
    BY <1>2 DEF OneRun
  <2>2. t \in Nat /\ res.effort \in Synth!Effort
    BY <2>1 DEF Summaries
  <2>3. p \in Nat
    BY <2>2 DEF FlowInv, FlowTypes
  <2>4. QED
    BY <1>2, <2>2, <2>3 DEF SlackTrue
<1>4. b \in Nat /\ (p > SweepLo => b < p)
  <2>1. b \in Nat
    BY <1>1, RoundOff
  <2>2. CASE lo = SweepLo * d
    BY <1>1, <2>1, <2>2, RoundExact
  <2>3. CASE lo # SweepLo * d
    <3>1. PICK r \in runs : r.period = b /\ ~r.ok
      BY <2>3 DEF FlowInv, Bracket
    <3>2. r.period < shortest[r.effort] /\ r.effort = res.effort
      BY <3>1 DEF FlowInv, Bracket
    <3>3. QED
      BY <3>1, <3>2, <2>1
  <2>4. QED
    BY <2>2, <2>3
<1>5. d * (t - b - 1) <= hi - lo
  <2>1. /\ 2 * (d * t) <= 2 * hi + d
        /\ 2 * lo <= 2 * (d * b) + d
    BY <1>1, <1>2, RoundOff
  <2>2. d * t \in Nat /\ d * b \in Nat /\ d * (t - b - 1) = d * t - d * b - d
    BY <1>1, <1>3, <1>4
  <2>3. QED
    BY <1>1, <2>1, <2>2
<1>6. hi - lo \in Nat /\ hi - lo >= W /\ (hi - lo = W \/ hi - lo < SweepResolution * d)
  <2>1. steps \in 0 .. SweepSteps /\ hi - lo = Width(steps) /\ Over
    BY DEF FlowInv, Bracket, Stage
  <2>2. Width(steps) \in Nat /\ Width(steps) >= W /\ Width(SweepSteps) = W
    BY <2>1, WidthHalves
  <2>3. QED
    BY <2>1, <2>2 DEF Over
<1>7. Synth!Tolerance = IF W < SweepResolution * d THEN SweepResolution + 1 ELSE (W \div d) + 2
  <2>1. (W * d) \div d = W
    BY <1>1, ProductQuotient
  <2>2. 2 ^ SweepSteps = d
    BY DEF Synth!Scale
  <2>3. QED
    BY <2>1, <2>2 DEF Synth!Tolerance
<1> HIDE DEF p, d, t, b
<1>8. t - b - 1 \in Int /\ t - b \in Int
  BY <1>3, <1>4
<1>9. CASE hi - lo < SweepResolution * d
  <2>1. d * SweepResolution = SweepResolution * d /\ d * SweepResolution \in Nat
    BY <1>1
  <2>2. d * (t - b - 1) < d * SweepResolution
    <3>1. d * (t - b - 1) \in Int
      BY <1>1, <1>8
    <3>2. QED
      BY <3>1, <1>5, <1>6, <1>9, <2>1
  <2>3. t - b - 1 < SweepResolution
    BY <2>2, <1>1, <1>8, FactorOrder
  <2>4. Synth!Tolerance = SweepResolution + 1
    BY <1>1, <1>6, <1>7, <1>9, <2>1
  <2>5. p > SweepLo => t - p < Synth!Tolerance
    BY <1>1, <1>3, <1>4, <2>3, <2>4
  <2>6. QED
    BY <2>5, <1>3 DEF Synth!NearShortest, p, t
<1>10. CASE hi - lo = W /\ ~(hi - lo < SweepResolution * d)
  <2>1. PICK q \in Nat, s \in 0 .. d - 1 : q = W \div d /\ W = d * q + s
    BY <1>1, Remainder
  <2>2. d * (t - b - 1) < d * (q + 1)
    <3>1. d * (t - b - 1) \in Int /\ d * (q + 1) = d * q + d /\ d * q \in Nat
      BY <1>1, <1>8
    <3>2. QED
      BY <3>1, <1>1, <1>5, <1>10, <2>1
  <2>3. t - b - 1 < q + 1
    BY <2>2, <1>1, <1>8, FactorOrder
  <2>4. Synth!Tolerance = q + 2
    BY <1>7, <1>10, <2>1
  <2>5. p > SweepLo => t - p < Synth!Tolerance
    BY <1>1, <1>3, <1>4, <2>3, <2>4
  <2>6. QED
    BY <2>5, <1>3 DEF Synth!NearShortest, p, t
<1>11. QED
  BY <1>6, <1>9, <1>10

\* A file of the output directory that is there is not the absence of one.
LEMMA NoneApart ==
    /\ \A x \in Synth!Run : x # Synth!None
    /\ \A x \in Synth!Verilog : x # Synth!None
    /\ \A x \in Summaries : x # Synth!None
BY DEF Synth!Run, Synth!Verilog, Summaries, Synth!None

\* The fields of a summary.
LEMMA SummaryFields ==
    ASSUME NEW t \in Nat, NEW x \in Synth!Sram, NEW e \in Synth!Effort, NEW s \in Synth!Run,
           NEW b \in MaybeRun, NEW slack \in {"met", "violated", "none"}, NEW r,
           r = [of |-> "summary", target |-> t, sram |-> x, effort |-> e, flops |-> s,
                cells |-> s, timed |-> s, boxes |-> b, slack |-> slack]
    PROVE  /\ r \in Summaries /\ r.target = t /\ r.sram = x /\ r.effort = e
           /\ r.flops = s /\ r.cells = s /\ r.timed = s /\ r.boxes = b /\ r.slack = slack
<1> HIDE DEF MaybeRun, Synth!Run, Synth!Effort, Synth!Sram
<1>1. /\ r.target = t /\ r.sram = x /\ r.effort = e
      /\ r.flops = s /\ r.cells = s /\ r.timed = s /\ r.boxes = b /\ r.slack = slack
  OBVIOUS
<1>2. r \in Summaries
  BY DEF Summaries
<1>3. QED
  BY <1>1, <1>2

\* What yosys is told in each stage of a run is a run.
LEMMA ScriptTyped ==
    ASSUME Synth!SynthFlowTypes, Synth!PowersOfTwo, FlowInv, Given
    PROVE  /\ Synth!Target \in Nat /\ Synth!Script \in Synth!Run
           /\ Synth!Script.period = Synth!Target /\ Synth!Script.effort = args.effort
           /\ Synth!Script.design = design
<1>1. Synth!Target \in Nat
  <2>1. lo + hi \in Nat /\ Synth!mid \in Nat
    BY DEF FlowInv, Bracket, Synth!mid
  <2>2. Synth!Round(Synth!mid) \in Nat
    BY <2>1, WidthHalves, RoundOff
  <2>3. Period \in Nat
    BY DEF Synth!SynthFlowTypes
  <2>4. QED
    BY <2>2, <2>3 DEF Synth!Target
<1>2. args.effort \in Synth!Effort /\ design \in Synth!Verilog
  BY DEF FlowInv, FlowTypes, Given
<1> HIDE DEF FlowInv, Synth!Target, Synth!Verilog, Synth!Effort
<1>3. QED
  BY <1>1, <1>2 DEF Synth!Script, Synth!Run

\* The output directory is a record of its four files.
LEMMA OutdirParts ==
    ASSUME FlowTypes
    PROVE  /\ outdir.premap \in MaybeRun /\ outdir.netlist \in MaybeRun
           /\ outdir.boxes \in MaybeRun /\ outdir.summary \in Summaries \cup {Synth!None}
BY DEF FlowTypes

\* A stage of yosys writes its files and leaves the others alone.
LEMMA StageWrites ==
    ASSUME FlowTypes, Synth!Script \in Synth!Run, NEW stage \in 0 .. 2, outdir' = Synth!AfterStage(stage)
    PROVE  /\ outdir' \in [premap : MaybeRun, netlist : MaybeRun, boxes : MaybeRun,
                           summary : Summaries \cup {Synth!None}]
           /\ outdir'.boxes = outdir.boxes /\ outdir'.summary = outdir.summary
           /\ stage = 2 => outdir'.premap = Synth!Script /\ outdir'.netlist = Synth!Script
<1> DEFINE s == Synth!Script
<1>1. s \in MaybeRun
  BY DEF MaybeRun
<1>2. outdir \in [premap : MaybeRun, netlist : MaybeRun, boxes : MaybeRun,
                  summary : Summaries \cup {Synth!None}]
  BY DEF FlowTypes
<1>3. PICK x, y : /\ x = (IF stage >= 1 THEN s ELSE outdir.premap)
                  /\ y = (IF stage >= 2 THEN s ELSE outdir.netlist)
  OBVIOUS
<1>4. x \in MaybeRun /\ y \in MaybeRun /\ (stage = 2 => x = s /\ y = s)
  BY <1>1, <1>3, OutdirParts
<1>5. outdir' = [outdir EXCEPT !.premap = x, !.netlist = y]
  BY <1>3 DEF Synth!AfterStage
<1> HIDE DEF s, MaybeRun, Summaries
<1>6. /\ outdir' \in [premap : MaybeRun, netlist : MaybeRun, boxes : MaybeRun,
                       summary : Summaries \cup {Synth!None}]
      /\ outdir'.boxes = outdir.boxes /\ outdir'.summary = outdir.summary
      /\ outdir'.premap = x /\ outdir'.netlist = y
  BY <1>2, <1>4, <1>5
<1>7. QED
  BY <1>4, <1>6 DEF s

\* The bracket in a step that does not search.
LEMMA BracketFrame ==
    ASSUME Bracket, UNCHANGED <<lo, hi, steps, best, runs, shortest>>
    PROVE  Bracket' /\ steps' = steps /\ (Over' <=> Over)
<1>1. Synth!Round(lo)' = Synth!Round(lo) /\ Synth!Round(hi)' = Synth!Round(hi)
  BY DEF Synth!Round, Synth!Scale
<1>2. \A s : OneRun(s)' <=> OneRun(s)
  BY DEF OneRun, Summaries, Synth!Boxed
<1>3. SlackTrue(best)' <=> SlackTrue(best)
  BY DEF SlackTrue
<1>4. QED
  BY <1>1, <1>2, <1>3 DEF Bracket, Over, Width, Synth!Scale

\* The bracket when an invocation ends, or before the first.
LEMMA BracketAnew ==
    ASSUME Synth!SynthFlowTypes, Synth!PowersOfTwo, NEW how, Synth!Ends(how)
    PROVE  Bracket' /\ steps' < SweepSteps
<1>1. /\ lo' = SweepLo * Synth!Scale /\ hi' = SweepHi * Synth!Scale /\ steps' = 0
      /\ best' = Synth!None /\ runs' = {}
  BY DEF Synth!Ends
<1>2. /\ Synth!Scale \in Nat \ {0} /\ SweepLo \in Nat /\ SweepHi \in Nat /\ SweepSteps \in Nat \ {0}
      /\ Width(0) = SweepHi * Synth!Scale - SweepLo * Synth!Scale
  BY WidthHalves DEF Synth!SynthFlowTypes
<1>3. lo' \in Nat /\ hi' \in Nat /\ hi' - lo' = Width(steps)'
  <2>1. Width(steps)' = Width(0)
    BY <1>1 DEF Width
  <2>2. QED
    BY <1>1, <1>2, <2>1
<1>4. QED
  BY <1>1, <1>2, <1>3 DEF Bracket, Synth!Scale

\* An invocation that ends leaves the files it wrote, with their types.
LEMMA EndsKeeps ==
    ASSUME Synth!SynthFlowTypes, Synth!PowersOfTwo, FlowInv, NEW how, Synth!Ends(how),
           rtl' = rtl, shortest' = shortest, cache' = cache,
           outdir' \in [premap : MaybeRun, netlist : MaybeRun, boxes : MaybeRun,
                        summary : Summaries \cup {Synth!None}],
           ~Synth!Boxed => outdir'.boxes = Synth!None,
           outdir'.summary # Synth!None => OneRun(outdir'.summary)
    PROVE  FlowInv'
<1>1. Bracket' /\ steps' < SweepSteps
  BY BracketAnew
<1>2. key' \in Synth!Key /\ args' \in [sram : Synth!Sram, sweep : BOOLEAN, effort : Synth!Effort]
  <2>1. (CHOOSE v \in Version : TRUE) \in Version
    BY DEF FlowInv, FlowTypes
  <2>2. QED
    BY <2>1 DEF Synth!Ends, Synth!NoArgs, Synth!Key, Synth!Sram, Synth!Effort
<1>3. FlowTypes'
  BY <1>2 DEF FlowInv, FlowTypes, OneRun, Summaries, Synth!Key, Synth!Boxed, MaybeRun
<1>4. Stage'
  BY <1>1 DEF Stage, Synth!Ends
<1>5. QED
  BY <1>1, <1>3, <1>4 DEF FlowInv

\* The directory an invocation that writes nothing more leaves.
LEMMA OutdirKept ==
    ASSUME FlowTypes, outdir' = outdir
    PROVE  /\ outdir' \in [premap : MaybeRun, netlist : MaybeRun, boxes : MaybeRun,
                           summary : Summaries \cup {Synth!None}]
           /\ ~Synth!Boxed => outdir'.boxes = Synth!None
           /\ outdir'.summary # Synth!None => OneRun(outdir'.summary)
BY DEF FlowTypes

\* The flow at the start.
LEMMA FlowInit ==
    ASSUME Synth!SynthFlowTypes, Synth!PowersOfTwo, Synth!Init
    PROVE  FlowInv
<1> USE DEF Synth!Init
<1>1. FlowTypes
  <2>1. shortest \in [Synth!Effort -> Nat]
    BY DEF Synth!SynthFlowTypes
  <2>2. QED
    BY <2>1 DEF FlowTypes, Synth!Key, Synth!Sram, Synth!Effort, Synth!NoArgs, MaybeRun
<1>2. Bracket
  <2>1. /\ Synth!Scale \in Nat \ {0} /\ SweepLo \in Nat /\ SweepHi \in Nat /\ SweepSteps \in Nat \ {0}
        /\ Width(0) = SweepHi * Synth!Scale - SweepLo * Synth!Scale
    BY WidthHalves DEF Synth!SynthFlowTypes
  <2>2. lo \in Nat /\ hi \in Nat /\ hi - lo = Width(steps)
    BY <2>1
  <2>3. QED
    BY <2>1, <2>2 DEF Bracket
<1>3. Stage
  BY DEF Stage, Synth!SynthFlowTypes
<1>4. QED
  BY <1>1, <1>2, <1>3 DEF FlowInv

\* The conversion.
LEMMA FlowConverts ==
    ASSUME Synth!SynthFlowTypes, Synth!PowersOfTwo, FlowInv,
           \/ \E sram \in Srams, sweep \in Modes, effort \in Synth!Effort : Synth!Start(sram, sweep, effort)
           \/ Synth!Cached \/ Synth!Sv2vOpens \/ Synth!Sv2vCloses
    PROVE  FlowInv'
<1>1. FlowTypes /\ Bracket /\ Stage
  BY DEF FlowInv
<1>2. UNCHANGED <<lo, hi, steps, best, runs, shortest, outdir>>
  BY DEF Synth!Start, Synth!Cached, Synth!Sv2vOpens, Synth!Sv2vCloses, Synth!files, Synth!search
<1>3. Bracket' /\ steps' = steps
  BY <1>1, <1>2, BracketFrame
<1>4. \A s : OneRun(s)' <=> OneRun(s)
  BY DEF OneRun, Summaries, Synth!Boxed
<1>5. /\ outdir' \in [premap : MaybeRun, netlist : MaybeRun, boxes : MaybeRun,
                      summary : Summaries \cup {Synth!None}]
      /\ ~Synth!Boxed => outdir'.boxes = Synth!None
      /\ outdir'.summary # Synth!None => OneRun(outdir'.summary)
      /\ shortest' \in [Synth!Effort -> Nat]
  BY <1>1, <1>2, <1>4, OutdirKept DEF FlowTypes
<1>6. ASSUME NEW sram \in Srams, NEW sweep \in Modes, NEW effort \in Synth!Effort,
             Synth!Start(sram, sweep, effort)
      PROVE  FlowInv'
  <2>1. key' \in Synth!Key /\ args' \in [sram : Synth!Sram, sweep : BOOLEAN, effort : Synth!Effort]
        /\ key'.sram = args'.sram
    BY <1>1, <1>6 DEF Synth!Start, FlowTypes, Synth!Key, Synth!Sram, Synth!SynthFlowTypes
  <2>2. FlowTypes'
    BY <1>1, <1>5, <1>6, <2>1 DEF FlowTypes, Synth!Start, Synth!Boxed
  <2>3. Stage'
    BY <1>1, <1>3, <1>6, <2>1 DEF Stage, Synth!Start
  <2>4. QED
    BY <1>3, <2>2, <2>3 DEF FlowInv
<1>7. ASSUME Synth!Cached PROVE FlowInv'
  <2> USE <1>7 DEF Synth!Cached, Synth!files
  <2>1. design' \in Synth!Verilog /\ design'.sram = args'.sram
    BY <1>1 DEF FlowTypes, Stage
  <2>2. FlowTypes'
    BY <1>1, <1>5 DEF FlowTypes, Synth!Boxed
  <2>3. Stage'
    BY <1>1, <1>3, <2>1 DEF Stage, Given
  <2>4. QED
    BY <1>3, <2>2, <2>3 DEF FlowInv
<1>8. ASSUME Synth!Sv2vOpens PROVE FlowInv'
  <2> DEFINE v == [of |-> "verilog", sram |-> args.sram, version |-> rtl, whole |-> FALSE]
  <2>1. v \in Synth!Verilog /\ v.sram = key.sram /\ key \in Synth!Key
    BY <1>1, <1>8 DEF FlowTypes, Synth!Verilog, Stage, Synth!Sv2vOpens
  <2>2. cache' = [cache EXCEPT ![key] = v]
    BY <1>8 DEF Synth!Sv2vOpens
  <2> HIDE DEF v
  <2>3. /\ cache' \in [Synth!Key -> Synth!Verilog \cup {Synth!None}] /\ cache'[key] \in Synth!Verilog
        /\ \A k \in Synth!Key : cache'[k] # Synth!None => cache'[k].sram = k.sram
    BY <1>1, <2>1, <2>2 DEF FlowTypes
  <2>4. FlowTypes'
    BY <1>1, <1>5, <1>8, <2>3 DEF FlowTypes, Synth!Sv2vOpens, Synth!Boxed
  <2>5. Stage'
    BY <1>1, <1>3, <1>8, <2>3 DEF Stage, Synth!Sv2vOpens
  <2>6. QED
    BY <1>3, <2>4, <2>5 DEF FlowInv
<1>9. ASSUME Synth!Sv2vCloses PROVE FlowInv'
  <2>1. PICK v, k : v = cache[key] /\ k = key
    OBVIOUS
  <2>2. v \in Synth!Verilog /\ k \in Synth!Key /\ v.sram = args.sram /\ k.sram = args.sram
    BY <1>1, <1>9, <2>1, NoneApart DEF FlowTypes, Stage, Synth!Sv2vCloses
  <2>3. PICK w : w = [v EXCEPT !.whole = TRUE]
    OBVIOUS
  <2>4. w \in Synth!Verilog /\ w.sram = v.sram
    BY <2>2, <2>3 DEF Synth!Verilog
  <2>5. cache' = [cache EXCEPT ![k] = w]
    BY <1>9, <2>1, <2>3 DEF Synth!Sv2vCloses
  <2>6. /\ cache' \in [Synth!Key -> Synth!Verilog \cup {Synth!None}] /\ cache'[k] = w
        /\ \A x \in Synth!Key : cache'[x] # Synth!None => cache'[x].sram = x.sram
    BY <1>1, <2>2, <2>4, <2>5 DEF FlowTypes
  <2>7. FlowTypes'
    BY <1>1, <1>5, <1>9, <2>6 DEF FlowTypes, Synth!Sv2vCloses, Synth!Boxed
  <2>8. design' = w /\ args' = args
    BY <1>9, <2>1, <2>6 DEF Synth!Sv2vCloses
  <2>9. Stage'
    BY <1>1, <1>3, <1>9, <2>2, <2>4, <2>8 DEF Stage, Given, Synth!Sv2vCloses
  <2>10. QED
    BY <1>3, <2>7, <2>9 DEF FlowInv
<1>10. QED
  BY <1>6, <1>7, <1>8, <1>9

\* One run, up to its timing analysis.
LEMMA FlowRuns ==
    ASSUME Synth!SynthFlowTypes, Synth!PowersOfTwo, FlowInv,
           \/ Synth!Synthesised \/ \E stage \in 0 .. 2 : Synth!YosysKilled(stage) /\ pc' # "idle"
           \/ Synth!blackbox_liberty \/ Synth!opensta
    PROVE  FlowInv'
<1>1. FlowTypes /\ Bracket /\ Stage
  BY DEF FlowInv
<1>2. CASE Synth!Synthesised
  <2>1. UNCHANGED <<rtl, shortest, cache, args, key, design, lo, hi, steps, best, runs>>
    BY <1>2 DEF Synth!Synthesised, Synth!search
  <2>2. Bracket' /\ steps' = steps
    BY <1>1, <2>1, BracketFrame
  <2>3. pc = "synth" /\ pc' = "boxes" /\ outdir' = Synth!AfterStage(2) /\ Given
    BY <1>1, <1>2 DEF Synth!Synthesised, Stage
  <2>4. Synth!Script \in Synth!Run /\ 2 \in 0 .. 2
    BY <2>3, ScriptTyped
  <2>5. /\ outdir' \in [premap : MaybeRun, netlist : MaybeRun, boxes : MaybeRun,
                        summary : Summaries \cup {Synth!None}]
        /\ outdir'.boxes = outdir.boxes /\ outdir'.summary = outdir.summary
        /\ outdir'.premap = Synth!Script /\ outdir'.netlist = Synth!Script
    BY <1>1, <2>3, <2>4, StageWrites
  <2>6. Synth!Script' = Synth!Script
    BY <2>1 DEF Synth!Script, Synth!Target, Synth!mid
  <2>7. FlowTypes'
    BY <1>1, <2>1, <2>5 DEF FlowTypes, OneRun, Synth!Boxed
  <2>8. Stage'
    BY <1>1, <2>1, <2>2, <2>3, <2>5, <2>6 DEF Stage, Given
  <2>9. QED
    BY <2>2, <2>7, <2>8 DEF FlowInv
<1>3. ASSUME NEW stage \in 0 .. 2, Synth!YosysKilled(stage), pc' # "idle" PROVE FlowInv'
  <2>1. args' = [args EXCEPT !.effort = "low"]
        /\ UNCHANGED <<rtl, shortest, cache, pc, key, design, res, lo, hi, steps, best, runs>>
    BY <1>3 DEF Synth!YosysKilled, Synth!Ends, Synth!search
  <2>2. Bracket' /\ steps' = steps
    BY <1>1, <2>1, BracketFrame
  <2>3. pc = "synth" /\ pc' = "synth" /\ outdir' = Synth!AfterStage(stage) /\ Given
    BY <1>1, <1>3, <2>1 DEF Synth!YosysKilled, Stage
  <2>4. /\ args' \in [sram : Synth!Sram, sweep : BOOLEAN, effort : Synth!Effort]
        /\ args'.sram = args.sram
    BY <1>1, <2>1 DEF FlowTypes, Synth!Effort
  <2>5. Synth!Script \in Synth!Run
    BY <2>3, ScriptTyped
  <2>6. /\ outdir' \in [premap : MaybeRun, netlist : MaybeRun, boxes : MaybeRun,
                        summary : Summaries \cup {Synth!None}]
        /\ outdir'.boxes = outdir.boxes /\ outdir'.summary = outdir.summary
    BY <1>1, <2>3, <2>5, StageWrites
  <2>7. FlowTypes'
    BY <1>1, <2>1, <2>4, <2>6 DEF FlowTypes, OneRun, Synth!Boxed
  <2>8. Stage'
    BY <1>1, <2>1, <2>2, <2>3, <2>4 DEF Stage, Given
  <2>9. QED
    BY <2>2, <2>7, <2>8 DEF FlowInv
<1>4. CASE Synth!blackbox_liberty
  <2>1. UNCHANGED <<rtl, shortest, cache, args, key, design, lo, hi, steps, best, runs>>
    BY <1>4 DEF Synth!blackbox_liberty, Synth!search
  <2>2. Bracket' /\ steps' = steps
    BY <1>1, <2>1, BracketFrame
  <2>3. pc = "boxes" /\ pc' = "sta" /\ Given
    BY <1>1, <1>4 DEF Synth!blackbox_liberty, Stage
  <2>4. PICK x : x = Synth!BoxesAfter
    OBVIOUS
  <2>5. x \in MaybeRun /\ x = IF Synth!Boxed THEN outdir.netlist ELSE Synth!None
    BY <1>1, <2>4, OutdirParts DEF FlowTypes, Synth!BoxesAfter
  <2>6. outdir' = [outdir EXCEPT !.boxes = x]
    BY <1>4, <2>4 DEF Synth!blackbox_liberty
  <2>7. /\ outdir' \in [premap : MaybeRun, netlist : MaybeRun, boxes : MaybeRun,
                        summary : Summaries \cup {Synth!None}]
        /\ outdir'.boxes = x /\ outdir'.summary = outdir.summary
        /\ outdir'.premap = outdir.premap /\ outdir'.netlist = outdir.netlist
    <3> HIDE DEF MaybeRun, Summaries
    <3>1. outdir \in [premap : MaybeRun, netlist : MaybeRun, boxes : MaybeRun,
                      summary : Summaries \cup {Synth!None}]
      BY <1>1 DEF FlowTypes
    <3>2. QED
      BY <2>5, <2>6, <3>1
  <2>8. Synth!Script' = Synth!Script
    BY <2>1 DEF Synth!Script, Synth!Target, Synth!mid
  <2>9. FlowTypes'
    BY <1>1, <2>1, <2>5, <2>7 DEF FlowTypes, OneRun, Synth!Boxed
  <2>10. Stage'
    BY <1>1, <2>1, <2>2, <2>3, <2>5, <2>7, <2>8 DEF Stage, Given, Synth!Boxed
  <2>11. QED
    BY <2>2, <2>9, <2>10 DEF FlowInv
<1>5. CASE Synth!opensta
  <2>1. UNCHANGED <<rtl, shortest, cache, outdir, args, key, design, lo, hi, steps, best, runs>>
    BY <1>5 DEF Synth!opensta, Synth!files, Synth!search
  <2>2. Bracket' /\ steps' = steps
    BY <1>1, <2>1, BracketFrame
  <2>3. pc = "sta" /\ pc' = (IF args.sweep THEN "judge" ELSE "save") /\ Given
    BY <1>1, <1>5 DEF Synth!opensta, Stage
  <2>4. PICK slack \in {"met", "violated", "none"} :
           res' = Synth!Summary(slack) /\ (slack = Synth!Slack \/ slack = "none")
    BY <1>5 DEF Synth!opensta, Synth!Slack
  <2>5. PICK s : s = Synth!Script
    OBVIOUS
  <2>6. /\ s \in Synth!Run /\ s.period = Synth!Target /\ s.effort = args.effort
        /\ s.design = design /\ Synth!Target \in Nat
    BY <1>1, <2>3, <2>5, ScriptTyped
  <2>7. /\ outdir.premap = s /\ outdir.netlist = s
        /\ outdir.boxes = IF Synth!Boxed THEN s ELSE Synth!None
        /\ design.sram = args.sram
    BY <1>1, <2>3, <2>5 DEF Stage, Given
  <2>8. PICK b \in MaybeRun : b = outdir.boxes
    BY <2>6, <2>7 DEF MaybeRun
  <2>9. PICK t \in Nat, e \in Synth!Effort, x \in Synth!Sram :
           t = Synth!Target /\ e = args.effort /\ x = args.sram
    BY <1>1, <2>6 DEF FlowTypes
  <2>10. res' = [of |-> "summary", target |-> t, sram |-> x, effort |-> e, flops |-> s,
                 cells |-> s, timed |-> s, boxes |-> b, slack |-> slack]
    BY <2>4, <2>7, <2>8, <2>9 DEF Synth!Summary
  <2> HIDE DEF MaybeRun, Synth!Run, Synth!Effort, Synth!Sram
  <2>11. /\ res' \in Summaries /\ res'.target = t /\ res'.sram = x /\ res'.effort = e
         /\ res'.flops = s /\ res'.cells = s /\ res'.timed = s /\ res'.boxes = b
         /\ res'.slack = slack
    <3>1. s \in Synth!Run
      BY <2>6
    <3>2. QED
      BY <2>10, <3>1, SummaryFields
  <2>12. OneRun(res')
    BY <2>6, <2>7, <2>8, <2>9, <2>11 DEF OneRun
  <2>13. SlackTrue(res)'
    <3>1. shortest' = shortest /\ shortest[e] \in Nat
      BY <1>1, <2>1, <2>9 DEF FlowTypes
    <3>2. Synth!Slack = IF t >= shortest[e] THEN "met" ELSE "violated"
      BY <2>6, <2>7, <2>9 DEF Synth!Slack
    <3>3. QED
      BY <2>4, <2>11, <2>9, <3>1, <3>2 DEF SlackTrue
  <2>14. OneRun(res)'
    BY <2>12 DEF OneRun, Summaries, Synth!Boxed
  <2>15. args.sweep => res'.target = Synth!Round(Synth!mid)'
    BY <2>1, <2>9, <2>11 DEF Synth!Target, Synth!Round, Synth!mid, Synth!Scale
  <2>16. FlowTypes'
    BY <1>1, <2>1 DEF FlowTypes, OneRun, Synth!Boxed
  <2>17. Stage'
    BY <1>1, <2>1, <2>2, <2>3, <2>13, <2>14, <2>15 DEF Stage, Given
  <2>18. QED
    BY <2>2, <2>16, <2>17 DEF FlowInv
<1>6. QED
  BY <1>2, <1>3, <1>4, <1>5

\* A judged step of the search.
LEMMA FlowSearches ==
    ASSUME Synth!SynthFlowTypes, Synth!PowersOfTwo, FlowInv, Synth!sweep_step
    PROVE  FlowInv'
<1> DEFINE u == [period |-> res.target, effort |-> res.effort, ok |-> Synth!Closes]
<1>1. FlowTypes /\ Bracket /\ Stage
  BY DEF FlowInv
<1>2. /\ UNCHANGED <<rtl, shortest, cache, outdir, args, key, design, res>>
      /\ pc = "judge" /\ res.slack # "none" /\ steps' = steps + 1
      /\ hi' = Synth!NewHi /\ lo' = Synth!NewLo /\ best' = Synth!NewBest
      /\ runs' = runs \cup {u}
      /\ pc' = IF Synth!SweepOver THEN "answer" ELSE "synth"
  BY DEF Synth!sweep_step, Synth!files
<1>3. /\ OneRun(res) /\ SlackTrue(res) /\ args.sweep /\ res.target = Synth!Round(Synth!mid)
      /\ steps < SweepSteps /\ Given
  BY <1>1, <1>2 DEF Stage
<1>4. /\ Synth!mid \in Nat /\ lo < Synth!mid /\ Synth!mid < hi
      /\ hi - Synth!mid = Width(steps + 1) /\ Synth!mid - lo = Width(steps + 1)
  BY <1>1, <1>3, MidHalves
<1>5. /\ lo \in Nat /\ hi \in Nat /\ steps \in Nat /\ SweepSteps \in Nat
      /\ SweepLo * Synth!Scale <= lo /\ hi <= SweepHi * Synth!Scale
      /\ SweepLo * Synth!Scale \in Nat /\ SweepHi * Synth!Scale \in Nat
  BY <1>1, WidthHalves DEF Bracket, Synth!SynthFlowTypes
<1>6. /\ res.target \in Nat /\ res.effort \in Synth!Effort
      /\ res.slack \in {"met", "violated", "none"} /\ res # Synth!None
  <2>1. res \in Summaries
    BY <1>3 DEF OneRun
  <2>2. QED
    BY <2>1, NoneApart DEF Summaries
<1>7. \A s : OneRun(s)' <=> OneRun(s)
  BY DEF OneRun, Summaries, Synth!Boxed
<1>8. /\ u.period = res.target /\ u.effort = res.effort /\ u.ok = Synth!Closes
      /\ Synth!Scale' = Synth!Scale /\ Width(steps)' = Width(steps + 1)
  BY <1>2 DEF Synth!Scale, Width
<1> HIDE DEF u
<1>9. \A r \in runs' : /\ r.period \in Nat /\ r.effort \in Synth!Effort
                       /\ ~r.ok => r.period < shortest'[r.effort]
  <2>1. \A r \in runs : /\ r.period \in Nat /\ r.effort \in Synth!Effort
                        /\ ~r.ok => r.period < shortest[r.effort]
    BY <1>1 DEF Bracket
  <2>2. ~u.ok => u.period < shortest[u.effort]
    BY <1>2, <1>3, <1>6, <1>8 DEF SlackTrue, Synth!Closes
  <2>3. QED
    BY <1>2, <1>6, <1>8, <2>1, <2>2
<1>10. Bracket'
  <2>1. CASE Synth!Closes
    <3>1. hi' = Synth!mid /\ lo' = lo /\ best' = res
      BY <1>2, <2>1 DEF Synth!NewHi, Synth!NewLo, Synth!NewBest
    <3>2. Synth!Round(lo)' = Synth!Round(lo) /\ Synth!Round(hi)' = Synth!Round(Synth!mid)
      BY <3>1 DEF Synth!Round, Synth!Scale
    <3>3. OneRun(best)' /\ SlackTrue(best)' /\ best'.slack = "met"
      BY <1>2, <1>3, <1>7, <2>1, <3>1 DEF SlackTrue, Synth!Closes, OneRun, Summaries, Synth!Boxed
    <3>4. lo' # SweepLo * Synth!Scale => \E r \in runs' : r.period = Synth!Round(lo) /\ ~r.ok
      BY <1>1, <1>2, <3>1 DEF Bracket
    <3>5. /\ lo' \in Nat /\ hi' \in Nat /\ steps' \in 0 .. SweepSteps
          /\ SweepLo * Synth!Scale <= lo' /\ hi' <= SweepHi * Synth!Scale
          /\ hi' - lo' = Width(steps + 1) /\ hi' # SweepHi * Synth!Scale
      BY <1>2, <1>3, <1>4, <1>5, <3>1
    <3>6. best' # Synth!None
      BY <1>6, <3>1
    <3>7. QED
      BY <1>3, <1>8, <1>9, <3>1, <3>2, <3>3, <3>4, <3>5, <3>6 DEF Bracket
  <2>2. CASE ~Synth!Closes
    <3>1. hi' = hi /\ lo' = Synth!mid /\ best' = best
      BY <1>2, <2>2 DEF Synth!NewHi, Synth!NewLo, Synth!NewBest
    <3>2. Synth!Round(lo)' = Synth!Round(Synth!mid) /\ Synth!Round(hi)' = Synth!Round(hi)
      BY <3>1 DEF Synth!Round, Synth!Scale
    <3>3. /\ (hi = SweepHi * Synth!Scale) <=> (best = Synth!None)
          /\ best # Synth!None => /\ OneRun(best)' /\ SlackTrue(best)'
                                  /\ best.slack = "met" /\ best.target = Synth!Round(hi)
      BY <1>1, <1>2, <3>1 DEF Bracket, SlackTrue, OneRun, Summaries, Synth!Boxed
    <3>4. u \in runs' /\ u.period = Synth!Round(lo)' /\ ~u.ok
      BY <1>2, <1>3, <1>8, <2>2, <3>2
    <3>5. /\ lo' \in Nat /\ hi' \in Nat /\ steps' \in 0 .. SweepSteps
          /\ SweepLo * Synth!Scale <= lo' /\ hi' <= SweepHi * Synth!Scale
          /\ hi' - lo' = Width(steps + 1)
      BY <1>2, <1>3, <1>4, <1>5, <3>1
    <3>6. QED
      BY <1>8, <1>9, <3>1, <3>2, <3>3, <3>4, <3>5 DEF Bracket
  <2>3. QED
    BY <2>1, <2>2
<1>11. Stage'
  <2>1. Synth!SweepOver <=> Over'
    BY <1>8 DEF Synth!SweepOver, Over
  <2>2. ~Synth!SweepOver => steps' < SweepSteps
    BY <1>2, <1>3, <1>5 DEF Synth!SweepOver
  <2>3. Given'
    BY <1>2, <1>3 DEF Given
  <2>4. args'.sweep
    BY <1>2, <1>3
  <2>5. QED
    BY <1>2, <2>1, <2>2, <2>3, <2>4 DEF Stage
<1>12. FlowTypes'
  BY <1>1, <1>2 DEF FlowTypes, OneRun, Synth!Boxed
<1>13. QED
  BY <1>10, <1>11, <1>12 DEF FlowInv

\* An invocation that ends, however it does.
LEMMA FlowEnds ==
    ASSUME Synth!SynthFlowTypes, Synth!PowersOfTwo, FlowInv,
           \/ Synth!Sv2vFails \/ Synth!LibraryBlind \/ Synth!SlackMissing \/ Synth!Refuse
           \/ Synth!Interrupt \/ Synth!Save
           \/ \E stage \in 0 .. 2 : \/ Synth!YosysFails(stage)
                                    \/ Synth!YosysKilled(stage) /\ pc' = "idle"
    PROVE  FlowInv'
<1>1. FlowTypes /\ Bracket /\ Stage
  BY DEF FlowInv
<1>2. ASSUME NEW how, Synth!Ends(how), UNCHANGED <<rtl, shortest, cache, outdir, invocations>>
      PROVE  FlowInv'
  BY <1>1, <1>2, OutdirKept, EndsKeeps
<1>3. CASE \/ Synth!Sv2vFails \/ Synth!LibraryBlind \/ Synth!SlackMissing \/ Synth!Refuse
           \/ Synth!Interrupt
  BY <1>2, <1>3 DEF Synth!Sv2vFails, Synth!LibraryBlind, Synth!SlackMissing, Synth!Refuse,
                    Synth!Interrupt, Synth!files
<1>4. CASE Synth!Save
  <2>1. Synth!Ends("reported") /\ UNCHANGED <<rtl, shortest, cache>>
    BY <1>4 DEF Synth!Save
  <2>2. outdir' = [outdir EXCEPT !.summary = res] /\ OneRun(res)
    BY <1>1, <1>4 DEF Synth!Save, Stage
  <2>3. /\ res \in Summaries
        /\ outdir \in [premap : MaybeRun, netlist : MaybeRun, boxes : MaybeRun,
                       summary : Summaries \cup {Synth!None}]
    BY <1>1, <2>2 DEF OneRun, FlowTypes
  <2>4. /\ outdir' \in [premap : MaybeRun, netlist : MaybeRun, boxes : MaybeRun,
                        summary : Summaries \cup {Synth!None}]
        /\ outdir'.boxes = outdir.boxes /\ outdir'.summary = res
    <3> HIDE DEF MaybeRun, Summaries
    <3>1. QED
      BY <2>2, <2>3
  <2>5. ~Synth!Boxed => outdir'.boxes = Synth!None
    BY <1>1, <2>4 DEF FlowTypes
  <2>6. QED
    BY <2>1, <2>2, <2>4, <2>5, EndsKeeps
<1>5. ASSUME NEW stage \in 0 .. 2, NEW how, pc = "synth", outdir' = Synth!AfterStage(stage),
             Synth!Ends(how), UNCHANGED <<rtl, shortest, cache>>
      PROVE  FlowInv'
  <2>1. Synth!Script \in Synth!Run
    BY <1>1, <1>5, ScriptTyped DEF Stage
  <2>2. /\ outdir' \in [premap : MaybeRun, netlist : MaybeRun, boxes : MaybeRun,
                        summary : Summaries \cup {Synth!None}]
        /\ outdir'.boxes = outdir.boxes /\ outdir'.summary = outdir.summary
    BY <1>1, <1>5, <2>1, StageWrites
  <2>3. /\ ~Synth!Boxed => outdir'.boxes = Synth!None
        /\ outdir'.summary # Synth!None => OneRun(outdir'.summary)
    BY <1>1, <2>2 DEF FlowTypes
  <2>4. QED
    BY <1>5, <2>2, <2>3, EndsKeeps
<1>6. ASSUME NEW stage \in 0 .. 2, Synth!YosysFails(stage) PROVE FlowInv'
  BY <1>5, <1>6 DEF Synth!YosysFails
<1>7. ASSUME NEW stage \in 0 .. 2, Synth!YosysKilled(stage), pc' = "idle" PROVE FlowInv'
  <2>1. pc = "synth" /\ Synth!Ends("failed")
    BY <1>7 DEF Synth!YosysKilled
  <2>2. QED
    BY <1>5, <1>7, <2>1 DEF Synth!YosysKilled
<1>8. QED
  BY <1>3, <1>4, <1>6, <1>7

\* The answer is taken, or the sources change.
LEMMA FlowOthers ==
    ASSUME Synth!SynthFlowTypes, Synth!PowersOfTwo, FlowInv, Synth!Answer \/ Synth!Edit
    PROVE  FlowInv'
<1>1. FlowTypes /\ Bracket /\ Stage
  BY DEF FlowInv
<1>2. UNCHANGED <<lo, hi, steps, best, runs, shortest, cache, outdir, args, key, design>>
  BY DEF Synth!Answer, Synth!Edit, Synth!files, Synth!search
<1>3. Bracket' /\ steps' = steps /\ (Over' <=> Over)
  BY <1>1, <1>2, BracketFrame
<1>4. rtl' \in Version
  BY <1>1 DEF Synth!Answer, Synth!Edit, Synth!files, FlowTypes
<1>5. FlowTypes'
  BY <1>1, <1>2, <1>4 DEF FlowTypes, OneRun, Synth!Boxed
<1>6. CASE Synth!Answer
  <2>1. pc = "answer" /\ pc' = "save" /\ best # Synth!None /\ res' = best /\ args.sweep
    BY <1>1, <1>6 DEF Synth!Answer, Stage
  <2>2. OneRun(res)'
    BY <1>1, <2>1 DEF Bracket, OneRun, Summaries, Synth!Boxed
  <2>3. Over
    BY <1>1, <2>1 DEF Stage
  <2>4. QED
    BY <1>2, <1>3, <1>5, <2>1, <2>2, <2>3 DEF Stage, FlowInv
<1>7. CASE Synth!Edit
  <2>1. pc' = pc /\ res' = res
    BY <1>7 DEF Synth!Edit
  <2>2. /\ OneRun(res)' <=> OneRun(res)
        /\ SlackTrue(res)' <=> SlackTrue(res)
        /\ Given' <=> Given
    BY <1>2, <2>1 DEF OneRun, SlackTrue, Given, Summaries, Synth!Boxed
  <2>3. Synth!Script' = Synth!Script /\ Synth!Round(Synth!mid)' = Synth!Round(Synth!mid)
    BY <1>2 DEF Synth!Script, Synth!Target, Synth!mid, Synth!Round, Synth!Scale
  <2>4. Stage'
    BY <1>1, <1>2, <1>3, <2>1, <2>2, <2>3 DEF Stage, Synth!Boxed
  <2>5. QED
    BY <1>3, <1>5, <2>4 DEF FlowInv
<1>8. QED
  BY <1>6, <1>7

\* The flow's invariant in every step.
LEMMA FlowNext ==
    ASSUME Synth!SynthFlowTypes, Synth!PowersOfTwo, FlowInv, [Synth!Next]_(Synth!vars)
    PROVE  FlowInv'
<1>1. CASE Synth!Next
  <2>1. CASE \/ \E sram \in Srams, sweep \in Modes, effort \in Synth!Effort :
                    Synth!Start(sram, sweep, effort)
             \/ Synth!Cached \/ Synth!Sv2vOpens \/ Synth!Sv2vCloses
    BY <2>1, FlowConverts
  <2>2. CASE Synth!Synthesised \/ Synth!blackbox_liberty \/ Synth!opensta
    BY <2>2, FlowRuns
  <2>3. ASSUME NEW stage \in 0 .. 2, Synth!YosysKilled(stage) PROVE FlowInv'
    BY <2>3, FlowRuns, FlowEnds
  <2>4. CASE \/ Synth!Sv2vFails \/ Synth!LibraryBlind \/ Synth!SlackMissing \/ Synth!Refuse
             \/ Synth!Interrupt \/ Synth!Save
             \/ \E stage \in 0 .. 2 : Synth!YosysFails(stage)
    BY <2>4, FlowEnds
  <2>5. CASE Synth!sweep_step
    BY <2>5, FlowSearches
  <2>6. CASE Synth!Answer \/ Synth!Edit
    BY <2>6, FlowOthers
  <2>7. QED
    BY <1>1, <2>1, <2>2, <2>3, <2>4, <2>5, <2>6 DEF Synth!Next
<1>2. CASE UNCHANGED Synth!vars
  <2>1. UNCHANGED <<lo, hi, steps, best, runs, shortest, cache, outdir, args, key, design, rtl, pc, res>>
    BY <1>2 DEF Synth!vars
  <2>2. Bracket' /\ steps' = steps /\ (Over' <=> Over)
    BY <2>1, BracketFrame DEF FlowInv
  <2>3. /\ OneRun(res)' <=> OneRun(res)
        /\ SlackTrue(res)' <=> SlackTrue(res)
        /\ Given' <=> Given
    BY <2>1 DEF OneRun, SlackTrue, Given, Summaries, Synth!Boxed
  <2>4. Synth!Script' = Synth!Script /\ Synth!Round(Synth!mid)' = Synth!Round(Synth!mid)
    BY <2>1 DEF Synth!Script, Synth!Target, Synth!mid, Synth!Round, Synth!Scale
  <2>5. Stage'
    BY <2>1, <2>2, <2>3, <2>4 DEF FlowInv, Stage, Synth!Boxed
  <2>6. FlowTypes'
    BY <2>1 DEF FlowInv, FlowTypes, OneRun, Synth!Boxed
  <2>7. QED
    BY <2>2, <2>5, <2>6 DEF FlowInv
<1>3. QED
  BY <1>1, <1>2

\* The types, and the bracket as the flow's own property has it.
LEMMA FlowTyped ==
    ASSUME Synth!SynthFlowTypes, Synth!PowersOfTwo, FlowInv
    PROVE  Synth!TypeOK /\ Synth!BracketKept /\ Synth!SummaryOfOneRun
<1>1. FlowTypes /\ Bracket /\ Stage
  BY DEF FlowInv
<1>2. lo < hi
  <2>1. /\ hi - lo = Width(steps) /\ lo \in Nat /\ hi \in Nat /\ steps \in 0 .. SweepSteps
    BY <1>1 DEF Bracket
  <2>2. Width(steps) \in Nat \ {0}
    BY <2>1, WidthHalves
  <2>3. QED
    BY <2>1, <2>2
<1>3. Synth!TypeOK
  BY <1>1, <1>2, OutdirParts DEF Synth!TypeOK, FlowTypes, Bracket, MaybeRun
<1>4. Synth!BracketKept
  BY <1>1 DEF Synth!BracketKept, Bracket
<1>5. Synth!SummaryOfOneRun
  BY <1>1 DEF Synth!SummaryOfOneRun, FlowTypes, OneRun
<1>6. QED
  BY <1>3, <1>4, <1>5

\* In the bench.  For any periods, bounds, steps and resolution, and any threshold:
\* a summary is of one run under its own labels, whatever was killed, failed,
\* edited or interrupted; the bracket ends in a period that closed and one that
\* did not; and an answer of a sweep at one effort is as close to the shortest
\* period as the resolution or the number of steps allows (oss_synth.py).
THEOREM FlowIsSound == BenchSpec => []FlowSound
<1> DEFINE Inv == part = "synth" => FlowInv
<1>0. Synth!SynthFlowTypes /\ Synth!PowersOfTwo
  BY BenchTypes, BenchPowers
<1>1. BenchInit => Inv
  BY <1>0, FlowInit DEF BenchInit
<1>2. Inv /\ [BenchNext]_allVars => Inv'
  <2> SUFFICES ASSUME Inv, [BenchNext]_allVars, part' = "synth" PROVE FlowInv'
    OBVIOUS
  <2>1. part = "synth" /\ [Synth!Next]_(Synth!vars)
    BY DEF BenchNext, OthersOff, allVars, Synth!vars
  <2>2. QED
    BY <2>1, <1>0, FlowNext
<1>3. Inv => FlowSound
  <2> SUFFICES ASSUME Inv, part = "synth"
               PROVE  /\ Synth!TypeOK /\ Synth!SummaryOfOneRun
                      /\ Synth!BracketKept /\ Synth!AnswerShortestOneEffort
    BY DEF FlowSound
  <2>1. Synth!AnswerShortestOneEffort
    BY <1>0, AnswerNear DEF Synth!AnswerShortestOneEffort
  <2>2. QED
    BY <1>0, <2>1, FlowTyped
<1> HIDE DEF Inv
<1>4. QED
  BY <1>1, <1>2, <1>3, PTL DEF BenchSpec
---------------------------------------------------------------------------
(* The Liberty merge.  Up to the place it has reached, what is kept is the *)
(* cells in order and each declaration once.                               *)

Groups(f) == inputs[f].groups

\* The declarations at the places in D, and which of them are cells'.
DeclaredAt(D) == {Merge!GroupAt(p) : p \in {q \in D : ~Merge!IsCell(Merge!GroupAt(q))}}

CellsAmong(D) == {q \in D : Merge!IsCell(Merge!GroupAt(q))}

\* at lists the places S, and s what is at them, up to length k.
Lists(s, k, S, at) ==
    /\ at \in [1 .. k -> S]
    /\ \A i \in 1 .. k : s[i] = Merge!GroupAt(at[i])
    /\ \A i, j \in 1 .. k : i < j => Merge!Earlier(at[i], at[j])
    /\ \A p \in S : \E i \in 1 .. k : at[i] = p

\* What the merge has made of the groups at the places in D.
Merged(D) ==
    /\ support \in Seq(Merge!Declaration) /\ cells \in Seq(Merge!Cell)
    /\ seen = {Merge!KeyOf(g) : g \in Merge!ToSet(support)}
    /\ Merge!IsInjective(support)
    /\ Merge!ToSet(support) = DeclaredAt(D)
    /\ Merge!CellsOf(D)

\* The places before file and group.
Behind == {p \in Merge!Places : Merge!Earlier(p, <<file, group>>)}

MergeInv ==
    /\ inputs \in [1 .. NumFiles -> Merge!File]
    /\ pc \in {"facts", "groups", "check", "written", "refused"}
    /\ pc = "facts" => /\ file \in 2 .. NumFiles /\ group = 1
                       /\ seen = {} /\ support = <<>> /\ cells = <<>>
                       /\ \A f \in 2 .. file - 1 : ~Merge!Disagree(1, f)
    /\ pc \in {"groups", "check", "written"} => \A f \in 2 .. NumFiles : ~Merge!Disagree(1, f)
    /\ pc = "groups" => /\ file \in 1 .. NumFiles /\ group \in 1 .. Len(Groups(file)) + 1
                        /\ Merged(Behind)
    /\ pc \in {"check", "written"} => Merged(Merge!Places)
    /\ pc = "written" => Merge!check_templates = {}
    /\ pc = "refused" => \/ \E f \in 2 .. NumFiles : Merge!Disagree(1, f)
                         \/ Merged(Merge!Places) /\ Merge!check_templates # {}

\* A group is a cell or a declaration, never both.
LEMMA CellOrNot ==
    /\ \A g \in Merge!Cell : Merge!IsCell(g) /\ g.uses \in SUBSET Name
    /\ \A g \in Merge!Declaration : ~Merge!IsCell(g) /\ g.kind \in Kind /\ g.name \in Name
    /\ \A g, h \in Merge!Declaration : Merge!KeyOf(g) = Merge!KeyOf(h) => g = h
<1>1. \A g \in Merge!Cell : Merge!IsCell(g) /\ g.uses \in SUBSET Name
  BY DEF Merge!Cell, Merge!IsCell
<1>2. \A g \in Merge!Declaration : ~Merge!IsCell(g) /\ g.kind \in Kind /\ g.name \in Name
  BY DEF Merge!Declaration, Merge!IsCell
<1>3. \A g, h \in Merge!Declaration : Merge!KeyOf(g) = Merge!KeyOf(h) => g = h
  BY DEF Merge!Declaration, Merge!KeyOf
<1>4. QED
  BY <1>1, <1>2, <1>3

\* The groups of a file are a sequence of cells and declarations.
LEMMA GroupsTyped ==
    ASSUME inputs \in [1 .. NumFiles -> Merge!File], NEW f \in 1 .. NumFiles
    PROVE  /\ Groups(f) \in Seq(Merge!Cell \cup Merge!Declaration)
           /\ Len(Groups(f)) \in 0 .. MaxGroups
           /\ \A i \in 1 .. Len(Groups(f)) : Groups(f)[i] \in Merge!Cell \cup Merge!Declaration
<1>1. PICK k \in 0 .. MaxGroups : Groups(f) \in [1 .. k -> Merge!Cell \cup Merge!Declaration]
  BY DEF Groups, Merge!File
<1>2. Groups(f) \in Seq(Merge!Cell \cup Merge!Declaration) /\ Len(Groups(f)) = k
  BY <1>1
<1>3. QED
  BY <1>1, <1>2

\* The group at a place.
LEMMA PlaceTyped ==
    ASSUME inputs \in [1 .. NumFiles -> Merge!File]
    PROVE  /\ \A p \in Merge!Places : Merge!GroupAt(p) \in Merge!Cell \cup Merge!Declaration
           /\ \A f \in 1 .. NumFiles : \A i \in 1 .. Len(Groups(f)) :
                  <<f, i>> \in Merge!Places /\ Merge!GroupAt(<<f, i>>) = Groups(f)[i]
           /\ \A p \in Merge!Places : /\ p = <<p[1], p[2]>> /\ p[1] \in 1 .. NumFiles
                                      /\ p[2] \in 1 .. Len(Groups(p[1]))
<1>1. ASSUME NEW f \in 1 .. NumFiles, NEW i \in 1 .. Len(Groups(f))
      PROVE  <<f, i>> \in Merge!Places /\ Merge!GroupAt(<<f, i>>) = Groups(f)[i]
  <2>1. i \in 1 .. MaxGroups
    <3>1. MaxGroups \in Nat
      BY BenchTypes DEF Merge!MergeLibTypes
    <3>2. Len(Groups(f)) \in 0 .. MaxGroups
      BY GroupsTyped
    <3>3. QED
      BY <3>1, <3>2
  <2>2. QED
    BY <2>1 DEF Merge!Places, Merge!GroupAt, Groups
<1>2. ASSUME NEW p \in Merge!Places
      PROVE  p = <<p[1], p[2]>> /\ p[1] \in 1 .. NumFiles /\ p[2] \in 1 .. Len(Groups(p[1]))
  <2>1. p \in (1 .. NumFiles) \X (1 .. MaxGroups) /\ p[2] <= Len(Groups(p[1]))
    BY DEF Merge!Places, Groups
  <2>2. p = <<p[1], p[2]>> /\ p[1] \in 1 .. NumFiles /\ p[2] \in 1 .. MaxGroups
    BY <2>1
  <2>3. Len(Groups(p[1])) \in Nat
    BY <2>2, GroupsTyped
  <2>4. QED
    BY <2>1, <2>2, <2>3
<1>3. ASSUME NEW p \in Merge!Places PROVE Merge!GroupAt(p) \in Merge!Cell \cup Merge!Declaration
  <2>1. Merge!GroupAt(p) = Groups(p[1])[p[2]]
    BY DEF Merge!GroupAt, Groups
  <2>2. QED
    BY <1>2, <2>1, GroupsTyped
<1>4. QED
  BY <1>1, <1>2, <1>3

\* Every group of a file is the group at some place of it.
LEMMA GroupsAtPlaces ==
    ASSUME inputs \in [1 .. NumFiles -> Merge!File]
    PROVE  /\ \A f \in 1 .. NumFiles : \A g \in Merge!ToSet(Groups(f)) :
                  \E p \in Merge!Places : p[1] = f /\ Merge!GroupAt(p) = g
           /\ \A p \in Merge!Places : Merge!GroupAt(p) \in Merge!ToSet(Groups(p[1]))
<1>1. ASSUME NEW f \in 1 .. NumFiles, NEW g \in Merge!ToSet(Groups(f))
      PROVE  \E p \in Merge!Places : p[1] = f /\ Merge!GroupAt(p) = g
  <2>1. PICK i \in DOMAIN Groups(f) : g = Groups(f)[i]
    BY DEF Merge!ToSet
  <2>2. i \in 1 .. Len(Groups(f))
    BY <2>1, GroupsTyped
  <2>3. <<f, i>> \in Merge!Places /\ Merge!GroupAt(<<f, i>>) = g
    BY <2>1, <2>2, PlaceTyped
  <2>4. <<f, i>>[1] = f
    OBVIOUS
  <2>5. QED
    BY <2>3, <2>4
<1>2. ASSUME NEW p \in Merge!Places PROVE Merge!GroupAt(p) \in Merge!ToSet(Groups(p[1]))
  <2>1. p[1] \in 1 .. NumFiles /\ p[2] \in 1 .. Len(Groups(p[1]))
    BY PlaceTyped
  <2>2. p[2] \in DOMAIN Groups(p[1])
    BY <2>1, GroupsTyped
  <2>3. QED
    BY <2>2 DEF Merge!ToSet, Merge!GroupAt, Groups
<1>3. QED
  BY <1>1, <1>2

\* The cells of some places, by the list of their places.
LEMMA CellsListed ==
    \A D : Merge!CellsOf(D) <=> \E at : Lists(cells, Len(cells), CellsAmong(D), at)
BY DEF Merge!CellsOf, Lists, CellsAmong

\* Nothing changes in what is at a place.
LEMMA PlacesKept ==
    ASSUME inputs' = inputs
    PROVE  /\ \A p : Merge!GroupAt(p)' = Merge!GroupAt(p)
           /\ \A D : DeclaredAt(D)' = DeclaredAt(D) /\ CellsAmong(D)' = CellsAmong(D)
           /\ Merge!Places' = Merge!Places
<1>1. \A p : Merge!GroupAt(p)' = Merge!GroupAt(p)
  BY DEF Merge!GroupAt
<1>2. \A D : DeclaredAt(D)' = DeclaredAt(D) /\ CellsAmong(D)' = CellsAmong(D)
  BY <1>1 DEF DeclaredAt, CellsAmong
<1>3. QED
  BY <1>1, <1>2 DEF Merge!Places

\* The cells of some places after a step, by the list of their places.
LEMMA CellsListedNext ==
    ASSUME inputs' = inputs, NEW D
    PROVE  Merge!CellsOf(D)' <=> \E at : Lists(cells', Len(cells'), CellsAmong(D), at)
BY DEF Merge!CellsOf, Lists, CellsAmong, Merge!GroupAt

\* At the start nothing is merged.
LEMMA NothingMerged ==
    ASSUME support = <<>>, cells = <<>>, seen = {}
    PROVE  Merged({})
<1>1. Merge!ToSet(support) = {} /\ Merge!IsInjective(support)
  BY DEF Merge!ToSet, Merge!IsInjective
<1>2. Merge!CellsOf({})
  <2>1. PICK at : at = [i \in 1 .. Len(cells) |-> i]
    OBVIOUS
  <2>2. Len(cells) = 0 /\ at \in [1 .. Len(cells) -> {}]
    BY <2>1
  <2>3. QED
    BY <2>2 DEF Merge!CellsOf
<1>3. support \in Seq(Merge!Declaration) /\ cells \in Seq(Merge!Cell)
  OBVIOUS
<1>4. DeclaredAt({}) = {}
  BY DEF DeclaredAt
<1>5. QED
  BY <1>1, <1>2, <1>3, <1>4 DEF Merged

\* Appending to the cells, behind all places so far.
LEMMA CellAppended ==
    ASSUME NEW D, NEW p, NEW g, Merge!CellsOf(D), cells \in Seq(Merge!Cell), inputs' = inputs,
           g = Merge!GroupAt(p), Merge!IsCell(g), cells' = Append(cells, g),
           \A q \in D : Merge!Earlier(q, p)
    PROVE  Merge!CellsOf(D \cup {p})'
<1>1. PICK k \in Nat : k = Len(cells)
  OBVIOUS
<1>2. PICK at : Lists(cells, k, CellsAmong(D), at)
  BY <1>1, CellsListed
<1>3. /\ Len(cells') = k + 1 /\ cells'[k + 1] = g
      /\ \A i \in 1 .. k : cells'[i] = cells[i]
  BY <1>1
<1>4. PICK s : s = cells'
  OBVIOUS
<1>5. PICK S : S = CellsAmong(D)
  OBVIOUS
<1>6. CellsAmong(D \cup {p}) = S \cup {p} /\ \A q \in S : Merge!Earlier(q, p)
  BY <1>5 DEF CellsAmong
<1>7. /\ at \in [1 .. k -> S]
      /\ \A i \in 1 .. k : s[i] = Merge!GroupAt(at[i])
      /\ \A i, j \in 1 .. k : i < j => Merge!Earlier(at[i], at[j])
      /\ \A q \in S : \E i \in 1 .. k : at[i] = q
  BY <1>2, <1>3, <1>4, <1>5 DEF Lists
<1>8. PICK bt : bt = [i \in 1 .. k + 1 |-> IF i = k + 1 THEN p ELSE at[i]]
  OBVIOUS
<1>9. /\ \A i \in 1 .. k + 1 : i \in 1 .. k \/ i = k + 1
      /\ \A i \in 1 .. k : i \in 1 .. k + 1 /\ i # k + 1
      /\ k + 1 \in 1 .. k + 1
  BY <1>1
<1>10. bt[k + 1] = p /\ \A i \in 1 .. k : bt[i] = at[i] /\ at[i] \in S
  BY <1>7, <1>8, <1>9
<1>11. bt \in [1 .. k + 1 -> S \cup {p}]
  <2>1. \A i \in 1 .. k + 1 : bt[i] \in S \cup {p}
    BY <1>9, <1>10
  <2>2. QED
    BY <1>8, <2>1
<1>12. \A i \in 1 .. k + 1 : s[i] = Merge!GroupAt(bt[i])
  BY <1>3, <1>4, <1>7, <1>9, <1>10
<1>13. \A i, j \in 1 .. k + 1 : i < j => Merge!Earlier(bt[i], bt[j])
  <2> SUFFICES ASSUME NEW i \in 1 .. k + 1, NEW j \in 1 .. k + 1, i < j
               PROVE  Merge!Earlier(bt[i], bt[j])
    OBVIOUS
  <2>1. i \in 1 .. k
    BY <1>1
  <2>2. CASE j \in 1 .. k
    BY <1>7, <1>10, <2>1, <2>2
  <2>3. CASE j = k + 1
    BY <1>6, <1>10, <2>1, <2>3
  <2>4. QED
    BY <1>9, <2>2, <2>3
<1>14. \A q \in S \cup {p} : \E i \in 1 .. k + 1 : bt[i] = q
  BY <1>7, <1>9, <1>10
<1>15. Lists(s, k + 1, S \cup {p}, bt)
  BY <1>11, <1>12, <1>13, <1>14 DEF Lists
<1>16. Lists(s, k + 1, CellsAmong(D \cup {p}), bt)
  BY <1>6, <1>15
<1>17. QED
  BY <1>3, <1>4, <1>16, CellsListedNext

\* Passing over a declaration leaves the cells of the places.
LEMMA CellsPassed ==
    ASSUME NEW D, NEW p, Merge!CellsOf(D), inputs' = inputs, cells' = cells,
           ~Merge!IsCell(Merge!GroupAt(p))
    PROVE  Merge!CellsOf(D \cup {p})'
<1>1. CellsAmong(D \cup {p}) = CellsAmong(D)
  BY DEF CellsAmong
<1>2. PICK at : Lists(cells, Len(cells), CellsAmong(D \cup {p}), at)
  BY <1>1, CellsListed
<1>3. QED
  BY <1>2, CellsListedNext

\* One group taken, cell or declaration.
LEMMA GroupTaken ==
    ASSUME NEW D, NEW p, NEW g, Merged(D), inputs' = inputs,
           g = Merge!GroupAt(p), g \in Merge!Cell \cup Merge!Declaration,
           \A q \in D : Merge!Earlier(q, p) /\ Merge!GroupAt(q) \in Merge!Cell \cup Merge!Declaration,
           IF Merge!IsCell(g)
             THEN cells' = Append(cells, g) /\ UNCHANGED <<seen, support>>
             ELSE /\ seen' = seen \cup {Merge!KeyOf(g)}
                  /\ support' = IF Merge!KeyOf(g) \in seen THEN support ELSE Append(support, g)
                  /\ UNCHANGED cells
    PROVE  Merged(D \cup {p})'
<1>1. /\ support \in Seq(Merge!Declaration) /\ cells \in Seq(Merge!Cell)
      /\ seen = {Merge!KeyOf(x) : x \in Merge!ToSet(support)}
      /\ Merge!IsInjective(support) /\ Merge!ToSet(support) = DeclaredAt(D) /\ Merge!CellsOf(D)
  BY DEF Merged
<1>2. DeclaredAt(D \cup {p})' = DeclaredAt(D \cup {p})
  BY PlacesKept
<1>3. CASE Merge!IsCell(g)
  <2>1. DeclaredAt(D \cup {p}) = DeclaredAt(D)
    BY <1>3 DEF DeclaredAt
  <2>2. cells' \in Seq(Merge!Cell)
    BY <1>1, <1>3, CellOrNot
  <2>3. Merge!CellsOf(D \cup {p})'
    BY <1>1, <1>3, CellAppended
  <2>4. support' = support /\ seen' = seen
    BY <1>3
  <2>5. Merge!ToSet(support') = DeclaredAt(D \cup {p})
    BY <1>1, <2>1, <2>4
  <2>6. seen' = {Merge!KeyOf(x) : x \in Merge!ToSet(support')} /\ Merge!IsInjective(support')
    BY <1>1, <2>4
  <2>7. QED
    BY <1>1, <1>2, <2>2, <2>3, <2>4, <2>5, <2>6 DEF Merged
<1>4. CASE ~Merge!IsCell(g)
  <2>1. DeclaredAt(D \cup {p}) = DeclaredAt(D) \cup {g} /\ g \in Merge!Declaration
    BY <1>4, CellOrNot DEF DeclaredAt
  <2>2. Merge!CellsOf(D \cup {p})' /\ cells' = cells
    BY <1>1, <1>4, CellsPassed
  <2>3. /\ support' \in Seq(Merge!Declaration) /\ Merge!IsInjective(support')
        /\ Merge!ToSet(support') = Merge!ToSet(support) \cup {g}
    <3>1. CASE Merge!KeyOf(g) \in seen
      <4>1. PICK h \in Merge!ToSet(support) : Merge!KeyOf(g) = Merge!KeyOf(h)
        BY <1>1, <3>1
      <4>2. h \in Merge!Declaration
        BY <1>1 DEF Merge!ToSet
      <4>3. g = h
        BY <2>1, <4>1, <4>2, CellOrNot
      <4>4. QED
        BY <1>1, <1>4, <3>1, <4>1, <4>3
    <3>2. CASE Merge!KeyOf(g) \notin seen
      <4>1. support' = Append(support, g)
        BY <1>4, <3>2
      <4>2. PICK k \in Nat : k = Len(support)
        BY <1>1
      <4>3. /\ DOMAIN support' = 1 .. k + 1 /\ DOMAIN support = 1 .. k
            /\ support'[k + 1] = g /\ \A i \in 1 .. k : support'[i] = support[i]
            /\ support' \in Seq(Merge!Declaration)
        BY <1>1, <2>1, <4>1, <4>2
      <4>4. \A i \in 1 .. k : support[i] # g
        BY <1>1, <3>2, <4>3 DEF Merge!ToSet
      <4>5. Merge!IsInjective(support')
        BY <1>1, <4>3, <4>4 DEF Merge!IsInjective
      <4>6. Merge!ToSet(support') = Merge!ToSet(support) \cup {g}
        BY <4>3 DEF Merge!ToSet
      <4>7. QED
        BY <4>3, <4>5, <4>6
    <3>3. QED
      BY <3>1, <3>2
  <2>4. seen' = {Merge!KeyOf(x) : x \in Merge!ToSet(support')}
    <3>1. seen' = seen \cup {Merge!KeyOf(g)}
      BY <1>4
    <3>2. QED
      BY <1>1, <2>3, <3>1
  <2>5. Merge!ToSet(support') = DeclaredAt(D \cup {p})
    BY <1>1, <2>1, <2>3
  <2>6. QED
    BY <1>1, <1>2, <2>2, <2>3, <2>4, <2>5 DEF Merged
<1>5. QED
  BY <1>3, <1>4

\* Nothing of the merge changes.
LEMMA MergedKept ==
    ASSUME NEW D, Merged(D), UNCHANGED <<inputs, support, cells, seen>>
    PROVE  Merged(D)'
<1>1. Merge!CellsOf(D)'
  BY CellsListed, CellsListedNext DEF Merged
<1>2. DeclaredAt(D)' = DeclaredAt(D)
  BY PlacesKept
<1>3. QED
  BY <1>1, <1>2 DEF Merged

\* The places behind are one more after a group, all of a file's at its end.
LEMMA BehindGrows ==
    ASSUME inputs \in [1 .. NumFiles -> Merge!File], inputs' = inputs, pc = "groups",
           file \in 1 .. NumFiles, group \in 1 .. Len(Groups(file)) + 1
    PROVE  /\ group <= Len(Groups(file)) /\ file' = file /\ group' = group + 1
                  => Behind' = Behind \cup {<<file, group>>}
           /\ group > Len(Groups(file)) /\ file < NumFiles /\ file' = file + 1 /\ group' = 1
                  => Behind' = Behind
           /\ group > Len(Groups(file)) /\ file = NumFiles => Behind = Merge!Places
<1>1. /\ NumFiles \in Nat /\ file \in Nat /\ group \in Nat /\ Len(Groups(file)) \in Nat
      /\ Merge!Places' = Merge!Places
  BY PlacesKept, GroupsTyped, BenchTypes DEF Merge!MergeLibTypes
<1>2. \A p \in Merge!Places : /\ p = <<p[1], p[2]>> /\ p[1] \in Nat /\ p[2] \in Nat /\ p[1] <= NumFiles
                              /\ p[2] >= 1 /\ (p[1] = file => p[2] <= Len(Groups(file)))
  <2> SUFFICES ASSUME NEW p \in Merge!Places
               PROVE  /\ p = <<p[1], p[2]>> /\ p[1] \in Nat /\ p[2] \in Nat /\ p[1] <= NumFiles
                      /\ p[2] >= 1 /\ (p[1] = file => p[2] <= Len(Groups(file)))
    OBVIOUS
  <2>1. p = <<p[1], p[2]>> /\ p[1] \in 1 .. NumFiles /\ p[2] \in 1 .. Len(Groups(p[1]))
    BY PlaceTyped
  <2>2. Len(Groups(p[1])) \in Nat
    BY <2>1, GroupsTyped
  <2>3. QED
    BY <1>1, <2>1, <2>2
<1>3. ASSUME group <= Len(Groups(file)), file' = file, group' = group + 1
      PROVE  Behind' = Behind \cup {<<file, group>>}
  <2>1. <<file, group>> \in Merge!Places
    BY <1>1, <1>3, PlaceTyped
  <2>2. \A p \in Merge!Places : Merge!Earlier(p, <<file, group + 1>>)
                                    <=> Merge!Earlier(p, <<file, group>>) \/ p = <<file, group>>
    BY <1>1, <1>2 DEF Merge!Earlier
  <2>3. QED
    BY <1>1, <1>3, <2>1, <2>2 DEF Behind
<1>4. ASSUME group > Len(Groups(file)), file' = file + 1, group' = 1
      PROVE  Behind' = Behind
  <2>1. \A p \in Merge!Places : Merge!Earlier(p, <<file + 1, 1>>) <=> Merge!Earlier(p, <<file, group>>)
    BY <1>1, <1>2, <1>4 DEF Merge!Earlier
  <2>2. QED
    BY <1>1, <1>4, <2>1 DEF Behind
<1>5. ASSUME group > Len(Groups(file)), file = NumFiles PROVE Behind = Merge!Places
  <2>1. \A p \in Merge!Places : Merge!Earlier(p, <<file, group>>)
    BY <1>1, <1>2, <1>5 DEF Merge!Earlier
  <2>2. QED
    BY <2>1 DEF Behind
<1>6. QED
  BY <1>3, <1>4, <1>5

\* The headers are compared.
LEMMA MergeCompares ==
    ASSUME MergeInv, Merge!compare
    PROVE  MergeInv'
<1> USE DEF Merge!compare, Merge!Refuses
<1>1. NumFiles \in Nat /\ NumFiles >= 2 /\ file \in 2 .. NumFiles /\ group = 1 /\ 1 \in 1 .. NumFiles
  BY BenchTypes DEF Merge!MergeLibTypes, MergeInv
<1>2. \A f, h : Merge!Disagree(f, h)' <=> Merge!Disagree(f, h)
  BY DEF Merge!Disagree
<1>3. CASE Merge!Disagree(1, file)
  <2>1. \E f \in 2 .. NumFiles : Merge!Disagree(1, f)'
    BY <1>1, <1>2, <1>3
  <2>2. QED
    BY <1>1, <1>3, <2>1 DEF MergeInv
<1>4. CASE ~Merge!Disagree(1, file) /\ file # NumFiles
  <2>1. \A f \in 2 .. file' - 1 : f \in 2 .. file - 1 \/ f = file
    BY <1>1, <1>4
  <2>2. \A f \in 2 .. file' - 1 : ~Merge!Disagree(1, f)'
    BY <1>2, <1>4, <2>1 DEF MergeInv
  <2>3. file' \in 2 .. NumFiles /\ pc' = "facts"
    BY <1>1, <1>4
  <2>4. QED
    BY <1>1, <2>2, <2>3 DEF MergeInv
<1>5. CASE ~Merge!Disagree(1, file) /\ file = NumFiles
  <2>1. \A f \in 2 .. NumFiles : f \in 2 .. file - 1 \/ f = file
    BY <1>1, <1>5
  <2>2. \A f \in 2 .. NumFiles : ~Merge!Disagree(1, f)'
    BY <1>2, <1>5, <2>1 DEF MergeInv
  <2>3. Merged({})
    BY NothingMerged DEF MergeInv
  <2>4. Behind' = {} /\ pc' = "groups" /\ file' = 1 /\ group' = 1
    <3>1. pc' = "groups" /\ file' = 1 /\ group' = 1
      BY <1>1, <1>5
    <3>2. \A p \in Merge!Places : ~Merge!Earlier(p, <<1, 1>>)
      <4> SUFFICES ASSUME NEW p \in Merge!Places PROVE ~Merge!Earlier(p, <<1, 1>>)
        OBVIOUS
      <4>1. p[1] \in 1 .. NumFiles /\ p[2] \in 1 .. Len(Groups(p[1]))
        BY PlaceTyped DEF MergeInv
      <4>2. p[1] >= 1 /\ p[2] >= 1 /\ p[1] \in Int /\ p[2] \in Int
        BY <4>1, <1>1
      <4>3. QED
        BY <4>2 DEF Merge!Earlier
    <3>3. Merge!Places' = Merge!Places
      BY PlacesKept
    <3>4. QED
      BY <3>1, <3>2, <3>3 DEF Behind
  <2>5. Merged({})'
    BY <2>3, MergedKept
  <2>6. Merged(Behind)'
    BY <2>4, <2>5 DEF Merged, DeclaredAt, Merge!CellsOf
  <2>7. group' \in 1 .. Len(Groups(file)') + 1
    <3>1. Groups(file)' = Groups(1)
      BY <2>4 DEF Groups
    <3>2. Len(Groups(1)) \in Nat
      BY <1>1, GroupsTyped DEF MergeInv
    <3>3. QED
      BY <2>4, <3>1, <3>2
  <2>8. file' \in 1 .. NumFiles
    BY <1>1, <2>4
  <2>9. QED
    BY <2>2, <2>4, <2>6, <2>7, <2>8 DEF MergeInv
<1>6. QED
  BY <1>3, <1>4, <1>5

\* One group, or the end of a file.
LEMMA MergeTakes ==
    ASSUME MergeInv, Merge!take_group \/ Merge!next_file
    PROVE  MergeInv'
<1>1. /\ pc = "groups" /\ inputs' = inputs /\ inputs \in [1 .. NumFiles -> Merge!File]
      /\ file \in 1 .. NumFiles /\ group \in 1 .. Len(Groups(file)) + 1 /\ Merged(Behind)
      /\ \A f \in 2 .. NumFiles : ~Merge!Disagree(1, f)
  BY DEF MergeInv, Merge!take_group, Merge!next_file
<1>2. /\ NumFiles \in Nat /\ file \in Nat /\ group \in Nat /\ Len(Groups(file)) \in Nat
  BY <1>1, GroupsTyped, BenchTypes DEF Merge!MergeLibTypes
<1>3. \A f \in 2 .. NumFiles : ~Merge!Disagree(1, f)'
  BY <1>1 DEF Merge!Disagree
<1>4. CASE Merge!take_group
  <2>1. PICK p : p = <<file, group>>
    OBVIOUS
  <2>2. PICK g : g = Merge!GroupAt(p)
    OBVIOUS
  <2>3. group <= Len(Groups(file)) /\ pc' = "groups" /\ file' = file /\ group' = group + 1
    BY <1>4 DEF Merge!take_group, Groups
  <2>4. p \in Merge!Places /\ g = Groups(file)[group]
    BY <1>1, <1>2, <2>1, <2>2, <2>3, PlaceTyped
  <2>5. g \in Merge!Cell \cup Merge!Declaration
    BY <1>1, <2>2, <2>4, PlaceTyped
  <2>6. IF Merge!IsCell(g)
          THEN cells' = Append(cells, g) /\ UNCHANGED <<seen, support>>
          ELSE /\ seen' = seen \cup {Merge!KeyOf(g)}
               /\ support' = IF Merge!KeyOf(g) \in seen THEN support ELSE Append(support, g)
               /\ UNCHANGED cells
    BY <1>4, <2>4 DEF Merge!take_group, Groups
  <2>7. \A q \in Behind : /\ Merge!Earlier(q, p)
                          /\ Merge!GroupAt(q) \in Merge!Cell \cup Merge!Declaration
    BY <1>1, <2>1, PlaceTyped DEF Behind
  <2>8. PICK D : D = Behind
    OBVIOUS
  <2>9. Merged(D \cup {p})'
    <3>1. \A q \in D : Merge!Earlier(q, p) /\ Merge!GroupAt(q) \in Merge!Cell \cup Merge!Declaration
      BY <2>7, <2>8
    <3>2. Merged(D)
      BY <1>1, <2>8
    <3>3. QED
      BY <1>1, <2>2, <2>5, <2>6, <3>1, <3>2, GroupTaken
  <2>10. Behind' = D \cup {p}
    BY <1>1, <2>1, <2>3, <2>8, BehindGrows
  <2>11. Merged(Behind)'
    BY <2>9, <2>10 DEF Merged, DeclaredAt, Merge!CellsOf
  <2>12. file' \in 1 .. NumFiles /\ group' \in 1 .. Len(Groups(file)') + 1
    BY <1>1, <1>2, <2>3 DEF Groups
  <2>13. QED
    BY <1>1, <1>3, <2>3, <2>11, <2>12 DEF MergeInv
<1>5. CASE Merge!next_file /\ file # NumFiles
  <2>1. /\ group > Len(Groups(file)) /\ file < NumFiles /\ pc' = "groups" /\ file' = file + 1
        /\ group' = 1 /\ UNCHANGED <<inputs, support, cells, seen>>
    BY <1>1, <1>2, <1>5 DEF Merge!next_file, Groups
  <2>2. PICK D : D = Behind
    OBVIOUS
  <2>3. Merged(D)'
    BY <1>1, <2>1, <2>2, MergedKept
  <2>4. Behind' = D
    BY <1>1, <2>1, <2>2, BehindGrows
  <2>5. Merged(Behind)'
    BY <2>3, <2>4 DEF Merged, DeclaredAt, Merge!CellsOf
  <2>6. file' \in 1 .. NumFiles /\ group' \in 1 .. Len(Groups(file)') + 1
    <3>1. file + 1 \in 1 .. NumFiles /\ Groups(file)' = Groups(file + 1)
      BY <1>2, <2>1 DEF Groups
    <3>2. Len(Groups(file + 1)) \in Nat
      BY <1>1, <3>1, GroupsTyped
    <3>3. QED
      BY <2>1, <3>1, <3>2
  <2>7. QED
    BY <1>1, <1>3, <2>1, <2>5, <2>6 DEF MergeInv
<1>6. CASE Merge!next_file /\ file = NumFiles
  <2>1. /\ group > Len(Groups(file)) /\ pc' = "check" /\ UNCHANGED <<inputs, support, cells, seen>>
    BY <1>1, <1>2, <1>6 DEF Merge!next_file, Groups
  <2>2. PICK D : D = Merge!Places
    OBVIOUS
  <2>3. Behind = D
    BY <1>1, <1>6, <2>1, <2>2, BehindGrows
  <2>4. Merged(D)'
    BY <1>1, <2>1, <2>3, MergedKept
  <2>5. Merge!Places' = D
    BY <2>1, <2>2, PlacesKept
  <2>6. Merged(Merge!Places)'
    BY <2>4, <2>5 DEF Merged, DeclaredAt, Merge!CellsOf
  <2>7. QED
    BY <1>1, <1>3, <2>1, <2>6 DEF MergeInv
<1>7. QED
  BY <1>4, <1>5, <1>6

\* The check, or a step that leaves the merge alone.
LEMMA MergeKept ==
    ASSUME MergeInv, UNCHANGED <<inputs, file, group, seen, support, cells>>,
           \/ pc' = pc
           \/ pc = "check" /\ pc' = IF Merge!check_templates = {} THEN "written" ELSE "refused"
    PROVE  MergeInv'
<1>1. PICK D : D = Merge!Places
  OBVIOUS
<1>2. PICK B : B = Behind
  OBVIOUS
<1>3. Merge!Places' = D /\ Behind' = B
  BY <1>1, <1>2, PlacesKept DEF Behind, Merge!Earlier
<1>4. /\ Merged(Merge!Places) => Merged(Merge!Places)'
      /\ Merged(Behind) => Merged(Behind)'
  <2>1. (Merged(D) => Merged(D)') /\ (Merged(B) => Merged(B)')
    BY MergedKept
  <2>2. ASSUME Merged(Merge!Places) PROVE Merged(Merge!Places)'
    <3>1. Merged(D)' /\ Merge!Places' = D
      BY <1>1, <1>3, <2>1, <2>2
    <3>2. QED
      BY <3>1 DEF Merged, DeclaredAt, Merge!CellsOf
  <2>3. ASSUME Merged(Behind) PROVE Merged(Behind)'
    <3>1. Merged(B)' /\ Behind' = B
      BY <1>2, <1>3, <2>1, <2>3
    <3>2. QED
      BY <3>1 DEF Merged, DeclaredAt, Merge!CellsOf
  <2>4. QED
    BY <2>2, <2>3
<1>5. \A f, h : Merge!Disagree(f, h)' <=> Merge!Disagree(f, h)
  BY DEF Merge!Disagree
<1>6. Merge!check_templates' = Merge!check_templates
  BY DEF Merge!check_templates, Merge!Used, Merge!Declared
<1>7. Groups(file)' = Groups(file)
  BY DEF Groups
<1>8. QED
  BY <1>4, <1>5, <1>6, <1>7 DEF MergeInv

\* What the merge writes or refuses, from the invariant.
LEMMA MergeIsSound ==
    ASSUME MergeInv
    PROVE  Merge!MergedWhole /\ Merge!OwnTables
<1>1. inputs \in [1 .. NumFiles -> Merge!File]
  BY DEF MergeInv
<1>2. ASSUME Merged(Merge!Places)
      PROVE  /\ Merge!ToSet(support) = {g \in Merge!AllGroups : ~Merge!IsCell(g)}
             /\ \A c \in Merge!ToSet(cells) : \E p \in Merge!Places :
                    c = Merge!GroupAt(p) /\ Merge!IsCell(c)
  <2>1. \A g : g \in Merge!AllGroups <=> \E p \in Merge!Places : g = Merge!GroupAt(p)
    <3>1. \A f \in 1 .. NumFiles : inputs[f].groups = Groups(f)
      BY DEF Groups
    <3>2. \A g : g \in Merge!AllGroups <=> \E f \in 1 .. NumFiles : g \in Merge!ToSet(Groups(f))
      BY <3>1 DEF Merge!AllGroups
    <3>3. \A p \in Merge!Places : p[1] \in 1 .. NumFiles
      BY <1>1, PlaceTyped
    <3>4. QED
      BY <1>1, <3>2, <3>3, GroupsAtPlaces
  <2>2. Merge!ToSet(support) = {g \in Merge!AllGroups : ~Merge!IsCell(g)}
    BY <1>2, <2>1 DEF Merged, DeclaredAt
  <2>3. PICK at : Lists(cells, Len(cells), CellsAmong(Merge!Places), at)
    BY <1>2, CellsListed DEF Merged
  <2>4. \A c \in Merge!ToSet(cells) : \E p \in Merge!Places : c = Merge!GroupAt(p) /\ Merge!IsCell(c)
    <3> SUFFICES ASSUME NEW c \in Merge!ToSet(cells)
                 PROVE  \E p \in Merge!Places : c = Merge!GroupAt(p) /\ Merge!IsCell(c)
      OBVIOUS
    <3>1. PICK i \in 1 .. Len(cells) : c = cells[i]
      BY <1>2 DEF Merged, Merge!ToSet
    <3>2. at[i] \in CellsAmong(Merge!Places) /\ cells[i] = Merge!GroupAt(at[i])
      BY <2>3 DEF Lists
    <3>3. QED
      BY <3>1, <3>2 DEF CellsAmong
  <2>5. QED
    BY <2>2, <2>4
<1>3. \A c, t : /\ Merged(Merge!Places) /\ c \in Merge!ToSet(cells) /\ t \in c.uses
                => (t \in Merge!Declared <=> \E g \in Merge!ToSet(support) : g.name = t)
                   /\ t \in Merge!Used
  BY DEF Merge!Declared, Merge!Used
<1>4. Merge!MergedWhole
  <2> SUFFICES ASSUME pc = "written"
               PROVE  /\ \A f \in 2 .. NumFiles : ~Merge!Disagree(1, f)
                      /\ Merge!CellsOf(Merge!Places)
                      /\ Merge!ToSet(support) = {g \in Merge!AllGroups : ~Merge!IsCell(g)}
                      /\ Merge!IsInjective(support)
                      /\ \A c \in Merge!ToSet(cells) : \A t \in c.uses :
                             \E g \in Merge!ToSet(support) : g.name = t
    BY DEF Merge!MergedWhole
  <2>1. /\ Merged(Merge!Places) /\ Merge!check_templates = {}
        /\ \A f \in 2 .. NumFiles : ~Merge!Disagree(1, f)
    BY DEF MergeInv
  <2>2. \A t \in Merge!Used : t \in Merge!Declared
    BY <2>1 DEF Merge!check_templates
  <2>3. QED
    BY <1>2, <1>3, <2>1, <2>2 DEF Merged
<1>5. Merge!OwnTables
  <2> SUFFICES ASSUME \A f \in 1 .. NumFiles : \A c \in Merge!ToSet(Groups(f)) :
                         Merge!IsCell(c) => \A t \in c.uses :
                             [kind |-> "lu_table_template", name |-> t] \in Merge!ToSet(Groups(f))
               PROVE  /\ pc = "refused" => \E f \in 2 .. NumFiles : Merge!Disagree(1, f)
                      /\ pc = "written" => \A c \in Merge!ToSet(cells) : \A t \in c.uses :
                             [kind |-> "lu_table_template", name |-> t] \in Merge!ToSet(support)
    BY DEF Merge!OwnTables, Groups
  <2>1. ASSUME Merged(Merge!Places), NEW c \in Merge!ToSet(cells), NEW t \in c.uses
        PROVE  [kind |-> "lu_table_template", name |-> t] \in Merge!ToSet(support)
    <3>1. PICK p \in Merge!Places : c = Merge!GroupAt(p) /\ Merge!IsCell(c)
      BY <1>2, <2>1
    <3>2. PICK f \in 1 .. NumFiles : f = p[1] /\ c \in Merge!ToSet(Groups(f))
      BY <1>1, <3>1, PlaceTyped, GroupsAtPlaces
    <3>3. PICK d : d = [kind |-> "lu_table_template", name |-> t]
      OBVIOUS
    <3>4. d \in Merge!ToSet(Groups(f))
      BY <3>1, <3>2, <3>3
    <3>5. PICK q \in Merge!Places : d = Merge!GroupAt(q)
      BY <1>1, <3>4, GroupsAtPlaces
    <3>6. ~Merge!IsCell(d)
      BY <3>3 DEF Merge!IsCell
    <3>7. d \in Merge!ToSet(support)
      BY <2>1, <3>5, <3>6 DEF Merged, DeclaredAt
    <3>8. QED
      BY <3>3, <3>7
  <2>2. ASSUME pc = "refused" PROVE \E f \in 2 .. NumFiles : Merge!Disagree(1, f)
    <3> SUFFICES ASSUME Merged(Merge!Places), Merge!check_templates # {} PROVE FALSE
      BY <2>2 DEF MergeInv
    <3>1. PICK t \in Merge!Used : t \notin Merge!Declared
      BY DEF Merge!check_templates
    <3>2. PICK c \in Merge!ToSet(cells) : t \in c.uses
      BY <3>1 DEF Merge!Used
    <3>3. PICK d \in Merge!ToSet(support) : d = [kind |-> "lu_table_template", name |-> t]
      BY <2>1, <3>2
    <3>4. d.name = t
      BY <3>3
    <3>5. QED
      BY <3>1, <3>4 DEF Merge!Declared
  <2>3. ASSUME pc = "written"
        PROVE  \A c \in Merge!ToSet(cells) : \A t \in c.uses :
                   [kind |-> "lu_table_template", name |-> t] \in Merge!ToSet(support)
    BY <2>1, <2>3 DEF MergeInv
  <2>4. QED
    BY <2>2, <2>3
<1>6. QED
  BY <1>4, <1>5

\* In the bench.  For any number of files and groups: a merged library has every
\* cell of every file in order and as often as it was there, every declaration
\* once, a declaration for each table used, and a header no file contradicts; and
\* files that declare their own tables are refused for their headers alone
\* (merge_lib.py).
THEOREM MergeKeepsAll == BenchSpec => []MergeSound
<1> DEFINE Inv == part = "merge" => MergeInv
<1>1. BenchInit => Inv
  <2> SUFFICES ASSUME BenchInit, part = "merge" PROVE MergeInv
    OBVIOUS
  <2>1. Merge!Init
    BY DEF BenchInit
  <2>2. 2 \in 2 .. NumFiles /\ \A f \in 2 .. 2 - 1 : FALSE
    BY BenchTypes DEF Merge!MergeLibTypes
  <2>3. QED
    BY <2>1, <2>2 DEF Merge!Init, MergeInv
<1>2. Inv /\ [BenchNext]_allVars => Inv'
  <2> SUFFICES ASSUME Inv, [BenchNext]_allVars, part' = "merge" PROVE MergeInv'
    OBVIOUS
  <2>1. part = "merge" /\ [Merge!Next]_(Merge!vars)
    BY DEF BenchNext, OthersOff, allVars, Merge!vars
  <2>2. CASE Merge!compare
    BY <2>1, <2>2, MergeCompares
  <2>3. CASE Merge!take_group \/ Merge!next_file
    BY <2>1, <2>3, MergeTakes
  <2>4. CASE Merge!write \/ UNCHANGED Merge!vars
    BY <2>1, <2>4, MergeKept DEF Merge!write, Merge!vars
  <2>5. QED
    BY <2>1, <2>2, <2>3, <2>4 DEF Merge!Next
<1>3. Inv => MergeSound
  BY MergeIsSound DEF MergeSound
<1> HIDE DEF Inv
<1>4. QED
  BY <1>1, <1>2, <1>3, PTL DEF BenchSpec
===============================================================================
