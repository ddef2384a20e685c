---------------------------- MODULE ClustersView ----------------------------
(***************************************************************************)
(* The Clusters page of the UI, ClustersView.tsx: the polled list, the     *)
(* actions of its rows, and the create dialog.  The drawer with the        *)
(* details of one cluster is ClusterDrawer.                                *)
(*                                                                         *)
(* Each call of an async function is a flow: it sends its request, resumes *)
(* when the answer is there, and may go on to load the list.  Flows run    *)
(* side by side; the API serves their requests in any order.               *)
(***************************************************************************)
EXTENDS Naturals, FiniteSets

CONSTANTS
    Ids,            \* cluster ids
    None,           \* no id
    Slots,          \* flows the page may have under way
    MaxChanges,     \* bound: changes this page has made
    Offers,         \* bound: the entries of a row's menu that the user takes
    Faults          \* "bad": an error status, "failed": an error status after
                    \* the change, "thrown": fetch fails, "lost": after the change

RowActions == {"start", "stop", "restart", "clone", "pin", "delete"}
Changes == RowActions \cup {"create"}

ASSUME ConstantsAssumption ==
    /\ None \notin Ids
    /\ MaxChanges \in Nat /\ Offers \subseteq RowActions
    /\ Faults \subseteq {"bad", "failed", "thrown", "lost"}

\* What a list shows of a cluster, of its desired state and the phase of its CR:
\* stopped, running and ready, or running with any other phase.
Rows == {"Stopped", "Ready", "Settling"}
Absent == {"new", "gone"}

VARIABLES
    server,         \* the clusters of the API; "new": an id not used so far
    version,        \* how many changes of this page the API has made
    clusters,       \* clusters: the list shown, with the version it shows
    error,          \* error # null
    dialog,         \* createOpen, and whether the form has a name
    creating,       \* creating
    busyId,         \* busyId
    timer,          \* whether the timer of the poll is armed
    flows           \* the flows under way

\* History variable: loads have overlapped since one began alone, or a change
\* whose answer was an error, or was lost, is not known to the page.
VARIABLE unsure

page == <<clusters, error, dialog, creating, busyId, timer>>
vars == <<server, version, page, flows, unsure>>

Null == [version |-> None, rows |-> {}]
NoFlow == [kind |-> "none", row |-> None, asks |-> "list", state |-> "sent", list |-> Null]
Flow == [kind : {"act", "create", "load"}, row : Ids \cup {None},
         asks : Changes \cup {"list"}, state : {"sent", "ok", "bad", "thrown"},
         list : [version : 0 .. MaxChanges, rows : [Ids -> Rows \cup Absent]] \cup {Null}]

Active == {s \in Slots : flows[s] # NoFlow}
Loading == {s \in Active : flows[s].asks = "list"}

\* Mutant: a cluster that is to run is settled in any phase.
SettledInAnyPhase(row) == row \in {"Stopped", "Ready", "Settling"}

\* isTerminalReady of a row, and the rows a list has.
Settled(row) == row \in {"Stopped", "Ready"}
Shown(list) == {c \in Ids : list # Null /\ list.rows[c] \notin Absent}
Refreshing(list) == \E c \in Shown(list) : ~Settled(list.rows[c])

-----------------------------------------------------------------------------
(* Flows.                                                                  *)

Take(s, kind, row, asks) ==
    /\ flows[s] = NoFlow
    /\ flows' = [flows EXCEPT ![s] = [kind |-> kind, row |-> row, asks |-> asks,
                                      state |-> "sent", list |-> Null]]

\* Bounds: a user who has had all changes made asks for no more, and leaves a flow
\* to the poll while its timer is armed.
UserMay ==
    /\ version < MaxChanges
    /\ timer => \E s, t \in Slots \ Active : s # t

\* A load that begins alone reads all that was changed before.
LoadBegins(s) == unsure' = (Loading \ {s} # {})

\* The timer runs out: a flow that only loads.
Poll(s) ==
    /\ timer
    /\ Take(s, "load", None, "list")
    /\ LoadBegins(s)
    /\ timer' = FALSE
    /\ UNCHANGED <<server, version, clusters, error, dialog, creating, busyId>>

\* The entries of the menu of a row, by the desired state that is shown.
Offered(action, row) ==
    CASE action = "start"             -> row = "Stopped"
      [] action \in {"stop", "restart"} -> row # "Stopped"
      [] OTHER                        -> TRUE

\* Mutant: the row is marked with the name of the action.
ActMarksAction(s, action, c) ==
    /\ UserMay /\ c \in Shown(clusters) /\ busyId # c
    /\ Offered(action, clusters.rows[c])
    /\ Take(s, "act", c, action)
    /\ busyId' = action
    /\ UNCHANGED <<server, version, clusters, error, dialog, creating, timer, unsure>>

\* onAction, onTogglePin, onDelete: the menu of a row that is not busy.
Act(s, action, c) ==
    /\ UserMay /\ c \in Shown(clusters) /\ busyId # c
    /\ Offered(action, clusters.rows[c])
    /\ Take(s, "act", c, action)
    /\ busyId' = c
    /\ UNCHANGED <<server, version, clusters, error, dialog, creating, timer, unsure>>

\* The Create button of the dialog.
Create(s) ==
    /\ UserMay /\ dialog = "named" /\ ~creating
    /\ Take(s, "create", None, "create")
    /\ creating' = TRUE
    /\ UNCHANGED <<server, version, clusters, error, dialog, busyId, timer, unsure>>

-----------------------------------------------------------------------------
(* The API.                                                                *)

\* The rows after an action on c; a create or a clone takes an id not used yet.
After(action, c) ==
    CASE action \in {"create", "clone"} ->
             {[server EXCEPT ![d] = "Settling"] : d \in {e \in Ids : server[e] = "new"}}
      [] action = "start"   -> {[server EXCEPT ![c] = IF @ = "Stopped" THEN "Settling" ELSE @]}
      [] action = "restart" -> {[server EXCEPT ![c] = "Settling"]}
      [] action = "stop"    -> {[server EXCEPT ![c] = "Stopped"]}
      [] action = "delete"  -> {[server EXCEPT ![c] = "gone"]}
      [] action = "pin"     -> {server}

\* A change is made, and the answer says so, or does not; one to a cluster that
\* is gone is refused.
ServeChange(s) ==
    LET q == flows[s]
        refused == q.row # None /\ server[q.row] \in Absent
    IN
    /\ s \in Active /\ q.asks \in Changes /\ q.state = "sent"
    /\ \/ /\ ~refused /\ version < MaxChanges
          /\ \E ending \in {"ok"} \cup (Faults \cap {"failed", "lost"}) :
                 /\ server' \in After(q.asks, q.row)
                 /\ version' = version + 1
                 /\ flows' = [flows EXCEPT ![s].state =
                        CASE ending = "ok" -> "ok" [] ending = "failed" -> "bad"
                          [] ending = "lost" -> "thrown"]
                 /\ unsure' = (unsure \/ ending # "ok")
       \/ /\ \E ending \in (Faults \cap {"bad", "thrown"}) \cup (IF refused THEN {"bad"} ELSE {}) :
                 flows' = [flows EXCEPT ![s].state = ending]
          /\ UNCHANGED <<server, version, unsure>>
    /\ UNCHANGED page

\* The list is read.
ServeList(s) ==
    /\ s \in Loading /\ flows[s].state = "sent"
    /\ \E ending \in {"ok"} \cup (Faults \cap {"bad", "thrown"}) :
           flows' = [flows EXCEPT ![s].state = ending,
               ![s].list = IF ending = "ok" THEN [version |-> version, rows |-> server] ELSE Null]
    /\ UNCHANGED <<server, version, page, unsure>>

\* The operator brings a CR up, or it fails.
Operator(c) ==
    /\ \/ server[c] = "Settling" /\ server' = [server EXCEPT ![c] = "Ready"]
       \/ server[c] = "Ready" /\ server' = [server EXCEPT ![c] = "Settling"]
    /\ UNCHANGED <<version, page, flows, unsure>>

\* Somebody else deletes a cluster.
Elsewhere(c) ==
    /\ server[c] \in Rows /\ server' = [server EXCEPT ![c] = "gone"]
    /\ UNCHANGED <<version, page, flows, unsure>>

-----------------------------------------------------------------------------
(* Answers.                                                                *)

\* Mutant: the mark is left to the last of the actions under way to clear.
FinishLast(s) ==
    /\ flows' = [flows EXCEPT ![s] = NoFlow]
    /\ creating' = (creating /\ flows[s].kind # "create")
    /\ busyId' = IF \E t \in Active \ {s} : flows[t].kind = "act" THEN busyId
                 ELSE IF flows[s].kind = "act" THEN None ELSE busyId

\* The finally of a handler; it clears what it finds, not what it has set.
Finish(s) ==
    /\ flows' = [flows EXCEPT ![s] = NoFlow]
    /\ creating' = (creating /\ flows[s].kind # "create")
    /\ busyId' = IF flows[s].kind = "act" THEN None ELSE busyId

\* Mutant: the handler does not load the list.
ChangeDoneOnly(s) ==
    /\ s \in Active /\ flows[s].asks \in Changes /\ flows[s].state = "ok"
    /\ Finish(s)
    /\ dialog' = IF flows[s].kind = "create" THEN "closed" ELSE dialog
    /\ UNCHANGED <<server, version, clusters, error, timer, unsure>>

\* A change was made: the dialog closes, whatever it shows by now,
\* and the flow goes on to load the list.
ChangeDone(s) ==
    /\ s \in Active /\ flows[s].asks \in Changes /\ flows[s].state = "ok"
    /\ flows' = [flows EXCEPT ![s].asks = "list", ![s].state = "sent"]
    /\ LoadBegins(s)
    /\ dialog' = IF flows[s].kind = "create" THEN "closed" ELSE dialog
    /\ UNCHANGED <<server, version, clusters, error, creating, busyId, timer>>

\* Mutant: the dialog is closed by the finally.
ChangeRefusedClosing(s) ==
    /\ s \in Active /\ flows[s].asks \in Changes /\ flows[s].state \in {"bad", "thrown"}
    /\ error' = (error \/ flows[s].state = "bad")
    /\ Finish(s)
    /\ dialog' = IF flows[s].kind = "create" THEN "closed" ELSE dialog
    /\ UNCHANGED <<server, version, clusters, timer, unsure>>

\* An error status is shown; a fetch that fails is caught by nobody.
ChangeRefused(s) ==
    /\ s \in Active /\ flows[s].asks \in Changes /\ flows[s].state \in {"bad", "thrown"}
    /\ error' = (error \/ flows[s].state = "bad")
    /\ Finish(s)
    /\ UNCHANGED <<server, version, clusters, dialog, timer, unsure>>

\* Mutant: the timer is set by the first list only.
LoadedOnce(s) ==
    /\ s \in Loading /\ flows[s].state # "sent"
    /\ IF flows[s].state = "ok"
       THEN /\ clusters' = flows[s].list
            /\ error' = FALSE
            /\ timer' = (clusters = Null /\ Refreshing(flows[s].list))
       ELSE error' = TRUE /\ UNCHANGED <<clusters, timer>>
    /\ Finish(s)
    /\ UNCHANGED <<server, version, dialog, unsure>>

\* load: a new list is shown, and sets the timer anew if a cluster of it has
\* not settled; an error leaves list and timer as they are.
Loaded(s) ==
    /\ s \in Loading /\ flows[s].state # "sent"
    /\ IF flows[s].state = "ok"
       THEN /\ clusters' = flows[s].list
            /\ error' = FALSE
            /\ timer' = Refreshing(flows[s].list)
       ELSE error' = TRUE /\ UNCHANGED <<clusters, timer>>
    /\ Finish(s)
    /\ UNCHANGED <<server, version, dialog, unsure>>

-----------------------------------------------------------------------------
(* The create dialog.                                                      *)

\* The form is reset each time the dialog opens; Create needs a name.
OpenDialog ==
    /\ UserMay /\ dialog = "closed" /\ dialog' = "blank"
    /\ UNCHANGED <<server, version, clusters, error, creating, busyId, timer, flows, unsure>>

EditDialog ==
    /\ dialog \in {"blank", "named"} /\ dialog' \in {"blank", "named", "closed"} \ {dialog}
    /\ UNCHANGED <<server, version, clusters, error, creating, busyId, timer, flows, unsure>>

-----------------------------------------------------------------------------
\* The page is opened: its first load is on its way.
Init ==
    /\ server \in [Ids -> {"Settling", "new"}] /\ version = 0
    /\ clusters = Null /\ error = FALSE
    /\ dialog = "closed" /\ creating = FALSE /\ busyId = None
    /\ timer = FALSE
    /\ \E s \in Slots : flows = [t \in Slots |-> IF t = s THEN [NoFlow EXCEPT !.kind = "load"] ELSE NoFlow]
    /\ unsure = FALSE

Answers(s) == ServeChange(s) \/ ServeList(s) \/ ChangeDone(s) \/ ChangeRefused(s) \/ Loaded(s)

Next ==
    \/ OpenDialog \/ EditDialog
    \/ \E c \in Ids : Operator(c) \/ Elsewhere(c)
    \/ \E s \in Slots :
           \/ Poll(s) \/ Create(s) \/ Answers(s)
           \/ \E c \in Ids, action \in Offers : Act(s, action, c)

Spec == Init /\ [][Next]_vars

\* Timers run out, requests are answered and handlers go on; nothing is assumed
\* of the user, nor of the clusters.
FairSpec ==
    /\ Spec
    /\ WF_vars(\E s \in Slots : Poll(s))
    /\ \A s \in Slots : WF_vars(Answers(s))

-----------------------------------------------------------------------------
(* Properties.                                                             *)

TypeOK ==
    /\ server \in [Ids -> Rows \cup Absent] /\ version \in 0 .. MaxChanges
    /\ clusters \in [version : 0 .. MaxChanges, rows : [Ids -> Rows \cup Absent]] \cup {Null}
    /\ error \in BOOLEAN /\ dialog \in {"closed", "blank", "named"}
    /\ creating \in BOOLEAN /\ busyId \in Ids \cup {None}
    /\ timer \in BOOLEAN /\ unsure \in BOOLEAN
    /\ flows \in [Slots -> Flow \cup {NoFlow}]

\* "refreshing status" is shown only while the page does refresh, or an error is
\* shown as well: a status that has not settled has a timer or a load on its way
\* (the effect on clusters, load).
KeepsRefreshing == Refreshing(clusters) => timer \/ Loading # {} \/ error

\* A row is marked busy only while an action on it is under way, and "Creating"
\* stands for exactly one create: no flag is left behind that keeps a menu or the
\* button disabled, through errors, and through actions on several rows at once,
\* each of which takes the mark over and clears whatever it finds (the finally
\* of onCreate, onDelete, onAction and onTogglePin).
BusyIsWorking ==
    LET creates == {s \in Active : flows[s].kind = "create"} IN
    /\ busyId # None => \E s \in Active : flows[s].kind = "act" /\ flows[s].row = busyId
    /\ creating <=> creates # {}
    /\ Cardinality(creates) <= 1

\* When nothing is under way and no error is shown, the list has every change
\* this page has made, unless loads have overlapped or an answer did not say
\* that its change was made (each handler loads after its change).
OwnChangesShown ==
    Active = {} /\ ~error /\ ~unsure => clusters.version = version

\* What is typed into the create dialog is lost to nobody but the user, who
\* closes it, and to a create that has succeeded (onCreate).
DraftKept ==
    [][dialog = "named" /\ dialog' # "named" =>
           \/ flows' = flows
           \/ \E s \in Active : flows[s].kind = "create" /\ flows[s].state = "ok"]_vars

\* A row that has not settled is read again until it has, unless the cluster
\* has not settled either or an error is shown (the poll).  No id differs from
\* another, so that one of them stands for all.
SettledIsSeen ==
    LET c == CHOOSE d \in Ids : TRUE IN
    (c \in Shown(clusters) /\ clusters.rows[c] = "Settling")
        ~> (\/ error \/ server[c] = "Settling"
            \/ c \notin Shown(clusters) \/ clusters.rows[c] # "Settling")
=============================================================================
