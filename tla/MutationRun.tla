------------------------------ MODULE MutationRun ------------------------------
(***************************************************************************)
(* scripts/mutate.py: the RTL is edited in place, one mutation at a time,  *)
(* the named test is run, and the file is put back from a backup.  Around  *)
(* it a user edits, commits and checks out files, and signals arrive: an   *)
(* interrupt, which is an exception in Python and runs the finally, or a   *)
(* termination, which ends the process where it stands.                    *)
(***************************************************************************)
EXTENDS Naturals, Sequences, FiniteSets

CONSTANTS Source,          \* the files of the RTL
          Mutation,        \* a sequence of [name, file]: MUTATIONS in order
          Version,         \* what a file may say, mutations aside
          Sites(_, _),     \* how often a version has the text of a mutation
          Signals          \* sets of signals that may arrive

Names == {Mutation[i].name : i \in 1 .. Len(Mutation)}

MutationRunTypes ==
    /\ Signals \subseteq SUBSET {"interrupt", "late", "terminate"}
    /\ Mutation \in Seq([name : Names, file : Source])

\* A file on disk: what the user wrote, and the mutations in it.
Content == [version : Version, muts : SUBSET Names]

Verdict == {"BROKEN", "KILLED", "SURVIVED"}

VARIABLES head, tree,       \* the last commit and the working tree
          pc, todo,         \* where the script is, and the places of the mutations left
          original, backup, \* what read_text and the backup hold
          passed,           \* what the test said
          results,          \* the verdicts so far
          foreign,          \* a test ran with another arc broken, too
          signal            \* the signals that may arrive

script == <<pc, todo, original, backup, passed, results, foreign>>
vars == <<head, tree, pc, todo, original, backup, passed, results, foreign, signal>>

Written(v) == [version |-> v, muts |-> {}]

None == [version |-> "none"]

Init ==
    /\ \E v \in Version : head = [f \in Source |-> Written(v)]
    /\ tree = head
    /\ pc = "idle" /\ todo = {} /\ original = None /\ backup = None
    /\ passed = FALSE /\ results = <<>> /\ foreign = FALSE
    /\ signal \in Signals

dirty_files == {f \in Source : tree[f] # head[f]}

\* Mutations are taken in the order of MUTATIONS.
place == CHOOSE i \in todo : \A j \in todo : i <= j

mut == Mutation[place]

---------------------------------------------------------------------------
(* The script *)

touched(muts) == {Mutation[i].file : i \in muts}

\* Faulty: uncommitted changes are not looked for.
clashNever(muts) == {}

clash(muts) == touched(muts) \cap dirty_files

\* main, for the mutations chosen by --only or --race.
Start(chosen) ==
    LET muts == {i \in 1 .. Len(Mutation) : Mutation[i].name \in chosen}
    IN  /\ pc = "idle"
        /\ muts # {} /\ clash(muts) = {}
        /\ todo' = muts /\ pc' = "read"
        /\ results' = <<>> /\ foreign' = FALSE
        /\ UNCHANGED <<head, tree, original, backup, passed>>

\* What the process held is gone.
Gone == /\ pc' = "idle" /\ todo' = {} /\ original' = None /\ backup' = None
        /\ passed' = FALSE

\* The next mutation, or the table of results.
NextOne(verdict) ==
    /\ results' = Append(results, [name |-> mut.name, verdict |-> verdict])
    /\ IF todo = {place}
         THEN Gone
         ELSE /\ todo' = todo \ {place} /\ pc' = "read"
              /\ original' = None /\ backup' = None /\ passed' = FALSE

\* apply_one: the file is read, and the mutation must name exactly one site.
Read ==
    /\ pc = "read"
    /\ LET now == tree[mut.file] IN
        \/ /\ Sites(mut.name, now.version) # 1
           /\ NextOne("BROKEN")
        \/ /\ Sites(mut.name, now.version) = 1
           /\ original' = now /\ pc' = "backup"
           /\ UNCHANGED <<todo, backup, passed, results>>
    /\ UNCHANGED <<head, tree, foreign>>

Backup ==
    /\ pc = "backup"
    /\ backup' = tree[mut.file]
    /\ pc' = "write"
    /\ UNCHANGED <<head, tree, todo, original, passed, results, foreign>>

Write ==
    /\ pc = "write"
    /\ tree' = [tree EXCEPT ![mut.file] = [original EXCEPT !.muts = @ \cup {mut.name}]]
    /\ pc' = "test"
    /\ UNCHANGED <<head, todo, original, backup, passed, results, foreign>>

\* Not this mutation alone, or not in the file as it was committed.
OtherArcs ==
    \/ tree[mut.file] # [head[mut.file] EXCEPT !.muts = {mut.name}]
    \/ \E f \in Source \ {mut.file} : tree[f].muts # {}

\* run_test: whether the test notices depends on the design.
Test ==
    /\ pc = "test"
    /\ passed' \in BOOLEAN
    /\ foreign' = (foreign \/ OtherArcs)
    /\ pc' = "restore"
    /\ UNCHANGED <<head, tree, todo, original, backup, results>>

\* Faulty: a surviving mutation returns before it is taken back.
RestoredIfKilled == IF passed THEN tree ELSE [tree EXCEPT ![mut.file] = backup]

Restored == [tree EXCEPT ![mut.file] = backup]

\* The finally, then the verdict.
Restore ==
    /\ pc = "restore"
    /\ tree' = Restored
    /\ NextOne(IF passed THEN "SURVIVED" ELSE "KILLED")
    /\ UNCHANGED <<head, foreign>>

\* Faulty: the test runs outside the try.
InTryShort == {"write"}

\* Faulty: the backup is made in the try.
InTryEarly == {"backup", "write", "test"}

\* Where an exception finds the finally ahead.
InTry == {"write", "test"}

\* An interrupt, or a test that fails without a word: the finally restores.
Raise ==
    /\ "interrupt" \in signal
    /\ pc \in {"read", "backup", "write", "test"}
    /\ tree' = IF pc \in InTry THEN Restored ELSE tree
    /\ Gone
    /\ UNCHANGED <<head, results, foreign>>

\* The process ends where it stands.
Terminate ==
    /\ \/ "terminate" \in signal /\ pc # "idle"
       \/ "late" \in signal /\ pc = "restore"
    /\ Gone
    /\ UNCHANGED <<head, tree, results, foreign>>

---------------------------------------------------------------------------
(* The user *)

Edit(f, v) ==
    /\ pc = "idle"
    /\ tree' = [tree EXCEPT ![f].version = v]
    /\ UNCHANGED <<head, script>>

Commit(f) ==
    /\ pc = "idle" /\ tree[f].muts = {}
    /\ head' = [head EXCEPT ![f] = tree[f]]
    /\ UNCHANGED <<tree, script>>

Checkout(f) ==
    /\ pc = "idle"
    /\ tree' = [tree EXCEPT ![f] = head[f]]
    /\ UNCHANGED <<head, script>>

Next ==
    /\ UNCHANGED signal
    /\ \/ \E chosen \in SUBSET Names : Start(chosen)
       \/ Read \/ Backup \/ Write \/ Test \/ Restore \/ Raise \/ Terminate
       \/ \E f \in Source : Commit(f) \/ Checkout(f) \/ \E v \in Version : Edit(f, v)

Spec == Init /\ [][Next]_vars

---------------------------------------------------------------------------
(* Properties *)

TypeOK ==
    /\ head \in [Source -> Content] /\ tree \in [Source -> Content]
    /\ original \in Content \cup {None} /\ backup \in Content \cup {None}
    /\ \A i \in 1 .. Len(results) : results[i].verdict \in Verdict
    /\ Len(results) + Cardinality(todo) <= Len(Mutation)

\* An interrupted run leaves the tree clean, and so does every other that no
\* signal ends where the finally has begun or where there is none.
CleanAfterRun ==
    signal \subseteq {"interrupt"} /\ pc = "idle" => \A f \in Source : tree[f].muts = {}

\* A file is mutated only as it was committed: wherever a termination ends the
\* script, git can restore the file, and nothing else is lost.
MutatesCommitted ==
    \A f \in Source : tree'[f].muts \ tree[f].muts # {} =>
        tree'[f] = [head[f] EXCEPT !.muts = tree'[f].muts \ tree[f].muts]

\* Mutations are tested one at a time, each in a file as it was committed.
OneArcBroken == signal \subseteq {"interrupt"} => ~foreign

\* What a run reports is of its mutations, and what it leaves is the user's.
TreeKept == CleanAfterRun /\ OneArcBroken /\ TypeOK

===============================================================================
