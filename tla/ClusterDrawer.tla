--------------------------- MODULE ClusterDrawer ---------------------------
(***************************************************************************)
(* The drawer with the details of one cluster: the tabs of ClusterDetail   *)
(* in ClustersView.tsx, of which the events and the metrics are loaded     *)
(* once and the driver's logs over and over (LogViewer.tsx).               *)
(*                                                                         *)
(* A tab is mounted while it is the active one.  An effect that has been   *)
(* cleaned up goes on only to its next look at "cancelled", and what it    *)
(* sets on a component that is unmounted is lost.                          *)
(***************************************************************************)
EXTENDS Naturals, FiniteSets

CONSTANTS
    Ids,            \* cluster ids
    None,
    Slots           \* requests that may be under way

Loading == {"events", "logs", "metrics"}
Tabs == {"overview", "permissions"} \cup Loading

VARIABLES
    open,           \* the cluster of the drawer
    tab,            \* the active tab
    shown,          \* what it shows: of which cluster, and whether it is there
    timer,          \* the timer of the logs: the cluster it is for
    flights         \* the requests: of which tab and cluster; live until the
                    \* effect that sent them is cleaned up

vars == <<open, tab, shown, timer, flights>>

NoFlight == [tab |-> "none"]
Free == {s \in Slots : flights[s] = NoFlight}
Live(t) == {s \in Slots : flights[s] # NoFlight /\ flights[s].tab = t /\ flights[s].live}
Blank(c) == [of |-> c, state |-> "loading"]

-----------------------------------------------------------------------------
\* Mutant: the effects are not cleaned up.
MountUncleaned(c, t, s) ==
    /\ open' = c /\ tab' = t /\ shown' = Blank(c)
    /\ flights' = [flights EXCEPT ![s] = IF c # None /\ t \in Loading
                                         THEN [tab |-> t, of |-> c, live |-> TRUE] ELSE @]
    /\ UNCHANGED timer

\* The drawer shows tab t of cluster c, or is closed: what was mounted is
\* cleaned up, its timer is stopped, and the effect of the new tab sends its
\* first request.
Mount(c, t, s) ==
    /\ open' = c /\ tab' = t /\ shown' = Blank(c)
    /\ flights' = [r \in Slots |->
           IF r = s /\ c # None /\ t \in Loading THEN [tab |-> t, of |-> c, live |-> TRUE]
           ELSE IF flights[r] = NoFlight THEN NoFlight ELSE [flights[r] EXCEPT !.live = FALSE]]
    /\ timer' = None

\* A click on a row, behind which the drawer is closed, opens the first tab.
Open(c) == open = None /\ \E s \in Free : Mount(c, "overview", s)

\* Escape, the scrim or the cross; the deletion of the cluster.
Close == open # None /\ \E s \in Slots : Mount(None, "overview", s)

\* A tab is clicked, or reached with the arrow keys, Home or End.
Choose(t) == open # None /\ t # tab /\ \E s \in Free : Mount(open, t, s)

-----------------------------------------------------------------------------
\* What an answer is to be shown, or an error.
Show(s) == IF flights[s].live
           THEN shown' \in {[of |-> flights[s].of, state |-> x] : x \in {"ready", "error"}}
           ELSE UNCHANGED shown

\* The answer to the events or the metrics.
Answer(s) ==
    /\ flights[s] # NoFlight /\ flights[s].tab # "logs"
    /\ Show(s)
    /\ flights' = [flights EXCEPT ![s] = NoFlight]
    /\ UNCHANGED <<open, tab, timer>>

\* Mutant: tick does not look at "cancelled" after fetchLogs.
AnswerLogsUnchecked(s) ==
    /\ flights[s] # NoFlight /\ flights[s].tab = "logs"
    /\ Show(s)
    /\ flights' = [flights EXCEPT ![s] = NoFlight]
    /\ timer' = flights[s].of
    /\ UNCHANGED <<open, tab>>

\* The answer to the logs: after it, good or bad, the timer is set.
AnswerLogs(s) ==
    /\ flights[s] # NoFlight /\ flights[s].tab = "logs"
    /\ Show(s)
    /\ flights' = [flights EXCEPT ![s] = NoFlight]
    /\ timer' = IF flights[s].live THEN flights[s].of ELSE timer
    /\ UNCHANGED <<open, tab>>

\* The timer runs out: the logs are asked for again.
Tick(s) ==
    /\ timer # None /\ flights[s] = NoFlight
    /\ flights' = [flights EXCEPT ![s] = [tab |-> "logs", of |-> timer, live |-> TRUE]]
    /\ timer' = None
    /\ UNCHANGED <<open, tab, shown>>

-----------------------------------------------------------------------------
Init ==
    /\ open = None /\ tab = "overview" /\ shown = Blank(None) /\ timer = None
    /\ flights = [s \in Slots |-> NoFlight]

Next ==
    \/ Close
    \/ \E c \in Ids : Open(c)
    \/ \E t \in Tabs : Choose(t)
    \/ \E s \in Slots : Answer(s) \/ AnswerLogs(s) \/ Tick(s)

Spec == Init /\ [][Next]_vars

-----------------------------------------------------------------------------
(* Properties.                                                             *)

TypeOK ==
    /\ open \in Ids \cup {None} /\ tab \in Tabs /\ timer \in Ids \cup {None}
    /\ shown \in [of : Ids \cup {None}, state : {"loading", "ready", "error"}]
    /\ flights \in [Slots -> [tab : Loading, of : Ids, live : BOOLEAN] \cup {NoFlight}]

\* While the logs are on the screen they keep coming, through any error: one
\* request or one timer is there for them.  When they are not, nothing is left
\* that would ask for them again (tick and the clean-up of LogViewer's effect).
LogsKeepComing ==
    Cardinality(Live("logs")) + (IF timer # None THEN 1 ELSE 0)
        = (IF open # None /\ tab = "logs" THEN 1 ELSE 0)

\* What a tab shows is of the cluster the drawer is open on, whatever answer
\* comes late for another cluster, or another tab (the clean-ups of the effects).
ShownIsOfOpen == shown.of = open /\ (open = None \/ tab \notin Loading => shown.state = "loading")
=============================================================================
