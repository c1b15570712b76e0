-------------------------------- MODULE MergeLib --------------------------------
(***************************************************************************)
(* syn/yosys/merge_lib.py: several Liberty files merged into one.  A file  *)
(* is what the merge looks at: the critical attributes of its header, and  *)
(* the groups of its library in order.  A group is a cell, which names the *)
(* tables its timing uses, or declares something under a kind and a name.  *)
(***************************************************************************)
EXTENDS Naturals, Sequences, SequencesExt

CONSTANTS CRITICAL, Value,   \* header attributes, and what they may be
          Kind,              \* kinds of declaration: the tables' is "lu_table_template"
          Name,
          NumFiles, MaxGroups

MergeLibTypes ==
    /\ "lu_table_template" \in Kind
    /\ NumFiles \in Nat /\ NumFiles >= 2 /\ MaxGroups \in Nat

Absent == "absent"

Cell == [uses : SUBSET Name]
Declaration == [kind : Kind, name : Name]

IsCell(g) == "uses" \in DOMAIN g

\* header_facts and top_groups, as read off a file.
File == [facts : [CRITICAL -> Value \cup {Absent}],
         groups : UNION {[1 .. n -> Cell \cup Declaration] : n \in 0 .. MaxGroups}]

VARIABLES inputs, pc, file, group, seen, support, cells

vars == <<inputs, pc, file, group, seen, support, cells>>

Init ==
    /\ inputs \in [1 .. NumFiles -> File]
    /\ pc = "facts" /\ file = 2 /\ group = 1
    /\ seen = {} /\ support = <<>> /\ cells = <<>>

---------------------------------------------------------------------------
\* An attribute both headers have, and not alike.
Disagree(f, g) ==
    \E k \in CRITICAL : LET a == inputs[f].facts[k]
                            b == inputs[g].facts[k]
                        IN  a # Absent /\ b # Absent /\ a # b

\* Faulty: only the last file is compared.
RefusesLast(f) == f = NumFiles /\ Disagree(1, f)

Refuses(f) == Disagree(1, f)

compare ==
    /\ pc = "facts"
    /\ pc' = IF Refuses(file) THEN "refused" ELSE IF file = NumFiles THEN "groups" ELSE "facts"
    /\ file' = IF pc' = "facts" THEN file + 1 ELSE 1
    /\ UNCHANGED <<inputs, group, seen, support, cells>>

\* Faulty: a name is declared once, whatever the kind.
KeyOfName(g) == g.name

KeyOf(g) == <<g.kind, g.name>>

\* One group of one file: a cell is kept, a declaration if it is the first.
take_group ==
    /\ pc = "groups" /\ group <= Len(inputs[file].groups)
    /\ LET g == inputs[file].groups[group] IN
         IF IsCell(g)
           THEN cells' = Append(cells, g) /\ UNCHANGED <<seen, support>>
           ELSE /\ seen' = seen \cup {KeyOf(g)}
                /\ support' = IF KeyOf(g) \in seen THEN support ELSE Append(support, g)
                /\ UNCHANGED cells
    /\ group' = group + 1
    /\ UNCHANGED <<inputs, pc, file>>

next_file ==
    /\ pc = "groups" /\ group > Len(inputs[file].groups)
    /\ pc' = IF file = NumFiles THEN "check" ELSE "groups"
    /\ file' = IF file = NumFiles THEN file ELSE file + 1
    /\ group' = 1
    /\ UNCHANGED <<inputs, seen, support, cells>>

Declared == {g.name : g \in ToSet(support)}

Used == UNION {c.uses : c \in ToSet(cells)}

\* Faulty: the check is skipped when nothing is declared.
check_templatesLax == IF Declared = {} THEN {} ELSE Used \ Declared

\* check_templates: what some cell uses and nobody declares, under any kind
\* of template.
check_templates == Used \ Declared

write ==
    /\ pc = "check"
    /\ pc' = IF check_templates = {} THEN "written" ELSE "refused"
    /\ UNCHANGED <<inputs, file, group, seen, support, cells>>

Next == compare \/ take_group \/ next_file \/ write

Spec == Init /\ [][Next]_vars

---------------------------------------------------------------------------
(* Properties *)

AllGroups == UNION {ToSet(inputs[f].groups) : f \in 1 .. NumFiles}

\* A group's place: its file, and where in the file it is.
Places == {p \in (1 .. NumFiles) \X (1 .. MaxGroups) : p[2] <= Len(inputs[p[1]].groups)}

GroupAt(p) == inputs[p[1]].groups[p[2]]

Earlier(p, q) == p[1] < q[1] \/ (p[1] = q[1] /\ p[2] < q[2])

\* The cells written are those at the given places, file by file and in order.
CellsOf(places) ==
    LET cellPlaces == {p \in places : IsCell(GroupAt(p))} IN
    \E at \in [1 .. Len(cells) -> cellPlaces] :
        /\ \A i \in 1 .. Len(cells) : cells[i] = GroupAt(at[i])
        /\ \A i, j \in 1 .. Len(cells) : i < j => Earlier(at[i], at[j])
        /\ \A p \in cellPlaces : \E i \in 1 .. Len(cells) : at[i] = p

\* What is written has every cell of every file, as often as it was there,
\* every declaration once and no other, a declaration for each table used, and
\* the header of the first file, which no other contradicts.
MergedWhole ==
    pc = "written" =>
        /\ \A f \in 2 .. NumFiles : ~Disagree(1, f)
        /\ CellsOf(Places)
        /\ ToSet(support) = {g \in AllGroups : ~IsCell(g)}
        /\ IsInjective(support)
        /\ \A c \in ToSet(cells) : \A n \in c.uses : \E g \in ToSet(support) : g.name = n

\* No cell is left without its timing: if every file declares the tables its
\* own cells use, the merge is written, or refused for its headers alone.
OwnTables ==
    (\A f \in 1 .. NumFiles : \A c \in ToSet(inputs[f].groups) :
        IsCell(c) => \A n \in c.uses :
            [kind |-> "lu_table_template", name |-> n] \in ToSet(inputs[f].groups))
    => /\ pc = "refused" => \E f \in 2 .. NumFiles : Disagree(1, f)
       /\ pc = "written" => \A c \in ToSet(cells) : \A n \in c.uses :
              [kind |-> "lu_table_template", name |-> n] \in ToSet(support)


===============================================================================
