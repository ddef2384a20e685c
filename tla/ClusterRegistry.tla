-------------------------- MODULE ClusterRegistry --------------------------
(***************************************************************************)
(* What the table "clusters" promises to its readers, whatever handlers,   *)
(* reconciler and crashes do around it: a cluster is inserted once, with   *)
(* the same defaults; each later write changes one column of it and keeps  *)
(* what others have written to the rest; once it is gone it never returns. *)
(***************************************************************************)
EXTENDS Naturals

CONSTANTS
    Ids,        \* cluster ids
    Configs,    \* create bodies
    AgeCap,     \* ages saturate here
    None        \* no row

VARIABLES
    rows,       \* the table
    spent       \* ids that had a row, or were given up before they had one

vars == <<rows, spent>>

Fresh(f) == [config |-> f, pinned |-> FALSE, desired |-> "Running", age |-> 0]

\* store.CreateCluster, for an id that never had a row.
Insert(c) ==
    /\ rows[c] = None /\ c \notin spent
    /\ \E f \in Configs : rows' = [rows EXCEPT ![c] = Fresh(f)]
    /\ UNCHANGED spent

\* One of the UPDATEs, each of one column: the pin, the config, the desired
\* state, the last activity.
Write(c) ==
    /\ rows[c] # None
    /\ \/ \E p \in BOOLEAN : rows' = [rows EXCEPT ![c].pinned = p]
       \/ \E f \in Configs : rows' = [rows EXCEPT ![c].config = f]
       \/ \E d \in {"Running", "Stopped"} : rows' = [rows EXCEPT ![c].desired = d]
       \/ rows' = [rows EXCEPT ![c].age = 0]
    /\ UNCHANGED spent

\* store.DeleteCluster.
Remove(c) ==
    /\ rows[c] # None
    /\ rows' = [rows EXCEPT ![c] = None]
    /\ spent' = spent \cup {c}

\* Creates fail, or end with the process that served them.
GiveUp(lost) ==
    /\ \A c \in lost : rows[c] = None
    /\ spent' = spent \cup lost
    /\ UNCHANGED rows

\* Time passes for every row at once.
Age ==
    /\ rows' = [c \in Ids |-> IF rows[c] = None THEN None
                              ELSE [rows[c] EXCEPT !.age = IF @ < AgeCap THEN @ + 1 ELSE @]]
    /\ UNCHANGED spent

Init == rows = [c \in Ids |-> None] /\ spent = {}

Next ==
    \/ \E c \in Ids : Insert(c) \/ Write(c) \/ Remove(c)
    \/ \E lost \in SUBSET Ids : GiveUp(lost)
    \/ Age

Spec == Init /\ [][Next]_vars
=============================================================================
