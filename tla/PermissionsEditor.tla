-------------------------- MODULE PermissionsEditor --------------------------
(***************************************************************************)
(* The editor of the grants on one object, PermissionsEditor.tsx, on top   *)
(* of the handlers of permissions.go.  It is mounted in the drawer of a    *)
(* cluster and in the share dialog of a notebook.                          *)
(*                                                                         *)
(* As on the Clusters page, each call of an async function is a flow that  *)
(* sends a request, resumes with its answer, and may go on to load.        *)
(***************************************************************************)
EXTENDS Naturals, FiniteSets

CONSTANTS
    Principals,     \* users and groups
    Levels,         \* the ladder of the object's type
    None,           \* no principal, no level
    Slots,          \* flows the editor may have under way
    MaxChanges,     \* bound: changes this editor makes
    Faults          \* "bad": an error status, "lost": fetch fails after the change

VARIABLES
    granted,        \* the table "permissions": one level for each principal
    version,        \* how many changes of this editor the API has made
    perms,          \* perms: the grants shown, with the version they show
    error,          \* error # null
    busy,           \* busy
    principalId,    \* principalId: the principal typed into the form
    flows

\* History variable: see unsure of ClustersView.
VARIABLE unsure

view == <<perms, error, busy, principalId>>
vars == <<granted, version, view, flows, unsure>>

Grants == [Principals -> Levels \cup {None}]
NoGrants == [p \in Principals |-> None]
List == [version : 0 .. MaxChanges, grants : Grants]
Null == [version |-> None, grants |-> NoGrants]
Empty == [version |-> 0, grants |-> NoGrants]

Flow == [kind : {"load", "grant", "revoke"}, who : Principals \cup {None}, level : Levels \cup {None},
         asks : {"change", "list"}, state : {"sent", "ok", "bad", "thrown"},
         list : List \cup {Null}]
NoFlow == [kind |-> "none"]
Sent(kind, who, level, asks) ==
    [kind |-> kind, who |-> who, level |-> level, asks |-> asks, state |-> "sent", list |-> Null]

Active == {s \in Slots : flows[s] # NoFlow}
Asking(what) == {s \in Active : flows[s].asks = what}

-----------------------------------------------------------------------------
\* grant and revoke, while not busy.
Change(s, kind, who, level) ==
    /\ ~busy /\ flows[s] = NoFlow
    /\ flows' = [flows EXCEPT ![s] = Sent(kind, who, level, "change")]
    /\ busy' = TRUE /\ error' = FALSE
    /\ UNCHANGED <<granted, version, perms, principalId, unsure>>

\* The Grant button, for what the form has; the form stays open to typing.
Grant(s) == principalId # None /\ \E level \in Levels : Change(s, "grant", principalId, level)

\* The cross in a row of the list.
Revoke(s) ==
    \E p \in Principals :
        perms # Null /\ perms.grants[p] # None /\ Change(s, "revoke", p, None)

Type ==
    /\ principalId' \in Principals \cup {None}
    /\ UNCHANGED <<granted, version, perms, error, busy, flows, unsure>>

-----------------------------------------------------------------------------
(* permissions.go.                                                         *)

\* grant is an upsert on the principal; revoke deletes its row.
After(q) == [granted EXCEPT ![q.who] = IF q.kind = "revoke" THEN None ELSE q.level]

\* A change is made; revoke of what is not there is answered 404.
ServeChange(s) ==
    LET q == flows[s]
        refused == q.kind = "revoke" /\ granted[q.who] = None
    IN
    /\ s \in Asking("change") /\ q.state = "sent"
    /\ \/ /\ ~refused /\ version < MaxChanges
          /\ granted' = After(q)
          /\ version' = version + 1
          /\ \E ending \in {"ok"} \cup (Faults \cap {"lost"}) :
                 /\ flows' = [flows EXCEPT ![s].state = IF ending = "ok" THEN "ok" ELSE "thrown"]
                 /\ unsure' = (unsure \/ ending # "ok")
       \/ /\ refused \/ "bad" \in Faults
          /\ flows' = [flows EXCEPT ![s].state = "bad"]
          /\ UNCHANGED <<granted, version, unsure>>
    /\ UNCHANGED view

ServeList(s) ==
    /\ s \in Asking("list") /\ flows[s].state = "sent"
    /\ \/ flows' = [flows EXCEPT ![s].state = "ok",
                                 ![s].list = [version |-> version, grants |-> granted]]
       \/ "bad" \in Faults /\ flows' = [flows EXCEPT ![s].state = "bad"]
    /\ UNCHANGED <<granted, version, view, unsure>>

-----------------------------------------------------------------------------
(* Answers.                                                                *)

\* A change was made: a grant empties the form, whatever it has by now, and the
\* list is loaded, still busy.  load forgets the error first.
ChangeDone(s) ==
    /\ s \in Asking("change") /\ flows[s].state = "ok"
    /\ flows' = [flows EXCEPT ![s].asks = "list", ![s].state = "sent"]
    /\ unsure' = (Asking("list") # {})
    /\ principalId' = IF flows[s].kind = "grant" THEN None ELSE principalId
    /\ error' = FALSE
    /\ UNCHANGED <<granted, version, perms, busy>>

\* The change was refused, or fetch failed: the list is not loaded.
ChangeFailed(s) ==
    /\ s \in Asking("change") /\ flows[s].state \in {"bad", "thrown"}
    /\ flows' = [flows EXCEPT ![s] = NoFlow]
    /\ error' = TRUE /\ busy' = FALSE
    /\ UNCHANGED <<granted, version, perms, principalId, unsure>>

\* Mutant: an error leaves the list that was shown, and is not shown itself.
LoadedQuietly(s) ==
    /\ s \in Asking("list") /\ flows[s].state # "sent"
    /\ flows' = [flows EXCEPT ![s] = NoFlow]
    /\ perms' = IF flows[s].state = "ok" THEN flows[s].list ELSE perms
    /\ busy' = (busy /\ flows[s].kind = "load")
    /\ UNCHANGED <<granted, version, error, principalId, unsure>>

\* load, of the editor when it appears, or of a change: that ends "busy".
Loaded(s) ==
    /\ s \in Asking("list") /\ flows[s].state # "sent"
    /\ flows' = [flows EXCEPT ![s] = NoFlow]
    /\ IF flows[s].state = "ok"
       THEN perms' = flows[s].list /\ UNCHANGED error
       ELSE perms' = Empty /\ error' = TRUE
    /\ busy' = (busy /\ flows[s].kind = "load")
    /\ UNCHANGED <<granted, version, principalId, unsure>>

-----------------------------------------------------------------------------
\* The editor is opened: its first load is on its way.
Init ==
    /\ granted \in Grants /\ version = 0
    /\ perms = Null /\ error = FALSE /\ busy = FALSE /\ principalId = None
    /\ \E s \in Slots : flows = [t \in Slots |-> IF t = s THEN Sent("load", None, None, "list") ELSE NoFlow]
    /\ unsure = FALSE

Next ==
    \/ Type
    \/ \E s \in Slots :
           \/ Grant(s) \/ Revoke(s) \/ ServeChange(s) \/ ServeList(s)
           \/ ChangeDone(s) \/ ChangeFailed(s) \/ Loaded(s)

Spec == Init /\ [][Next]_vars

-----------------------------------------------------------------------------
(* Properties.                                                             *)

TypeOK ==
    /\ granted \in Grants /\ version \in 0 .. MaxChanges
    /\ perms \in List \cup {Null} /\ error \in BOOLEAN /\ busy \in BOOLEAN
    /\ principalId \in Principals \cup {None} /\ unsure \in BOOLEAN
    /\ flows \in [Slots -> Flow \cup {NoFlow}]

\* The editor is busy exactly while one change of its own is under way, up to the
\* end of the load that follows it: two changes never overlap, and no error
\* leaves the form disabled (grant and revoke).
BusyIsOneChange ==
    LET mine == {s \in Active : flows[s].kind # "load"} IN
    /\ busy <=> mine # {}
    /\ Cardinality(mine) <= 1

\* When nothing is under way and no error is shown, the grants listed are those
\* of the API, unless loads have overlapped or an answer was lost.  The load of
\* the editor's first appearance may overlap that of a change.
GrantsShown ==
    Active = {} /\ ~error /\ ~unsure => perms.grants = granted
=============================================================================
