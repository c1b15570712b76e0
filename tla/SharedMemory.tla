------------------------------ MODULE SharedMemory ------------------------------
(***************************************************************************)
(* What the caches promise their cores: per line, permissions that exclude *)
(* each other in real time and one value that every permitted load         *)
(* returns.  No messages, no directory, no transient states.  Coherence    *)
(* implements this under the mapping stated there.                         *)
(***************************************************************************)
EXTENDS Integers

CONSTANTS Cache, Line, Versions

VARIABLES perm,   \* perm[c][l]: what the core of c may do without asking
          view,   \* view[c][l]: what a load hit of c returns
          value   \* value[l]: the version of the last store

smVars == <<perm, view, value>>

Permission == {"none", "read", "write"}

SMTypeOK ==
    /\ perm \in [Cache -> [Line -> Permission]]
    /\ view \in [Cache -> [Line -> 0 .. Versions - 1]]
    /\ value \in [Line -> 0 .. Versions - 1]

SMInit ==
    /\ perm = [c \in Cache |-> [l \in Line |-> "none"]]
    /\ view = [c \in Cache |-> [l \in Line |-> 0]]
    /\ value = [l \in Line |-> 0]

Others(c) == Cache \ {c}

\* Gain read permission: nobody else may write.
AcquireRead(c, l) ==
    /\ perm[c][l] = "none"
    /\ \A d \in Others(c) : perm[d][l] # "write"
    /\ perm' = [perm EXCEPT ![c][l] = "read"]
    /\ view' = [view EXCEPT ![c][l] = value[l]]
    /\ UNCHANGED value

\* Gain write permission without storing: the load that found nobody else.
AcquireWrite(c, l) ==
    /\ \A d \in Others(c) : perm[d][l] = "none"
    /\ perm' = [perm EXCEPT ![c][l] = "write"]
    /\ view' = [view EXCEPT ![c][l] = value[l]]
    /\ UNCHANGED value

\* Store, holding or gaining write permission.
Store(c, l) ==
    /\ \A d \in Others(c) : perm[d][l] = "none"
    /\ perm' = [perm EXCEPT ![c][l] = "write"]
    /\ value' = [value EXCEPT ![l] = (@ + 1) % Versions]
    /\ view' = [view EXCEPT ![c][l] = (value[l] + 1) % Versions]

\* Give up write permission, keeping the line readable.
Downgrade(c, l) ==
    /\ perm[c][l] = "write"
    /\ perm' = [perm EXCEPT ![c][l] = "read"]
    /\ UNCHANGED <<view, value>>

\* Give up the line.
Release(c, l) ==
    /\ perm[c][l] # "none"
    /\ perm' = [perm EXCEPT ![c][l] = "none"]
    /\ view' = [view EXCEPT ![c][l] = 0]
    /\ UNCHANGED value

SMNext ==
    \E c \in Cache, l \in Line :
        \/ AcquireRead(c, l)
        \/ AcquireWrite(c, l)
        \/ Store(c, l)
        \/ Downgrade(c, l)
        \/ Release(c, l)

SMSpec == SMInit /\ [][SMNext]_smVars

---------------------------------------------------------------------------

\* One writer or many readers.
Exclusive ==
    \A c, d \in Cache, l \in Line : c # d /\ perm[c][l] = "write" => perm[d][l] = "none"

\* Whoever may read sees the last store.
ReadersCurrent ==
    \A c \in Cache, l \in Line : perm[c][l] # "none" => view[c][l] = value[l]

===============================================================================
