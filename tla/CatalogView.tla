---------------------------- MODULE CatalogView ----------------------------
(***************************************************************************)
(* The Catalog page of the UI, CatalogView.tsx on Tree.tsx and Tabs.tsx:   *)
(* a tree of catalogs, namespaces and tables whose branches are loaded     *)
(* when they are expanded, beside the details of the table picked last.    *)
(* The page reads only.                                                    *)
(*                                                                         *)
(* A component that is unmounted loses its state, and an answer that comes *)
(* for it later changes nothing: such a request is dropped right away.  An *)
(* effect that runs anew cancels the request of its last run, but looks at *)
(* the flag before it reads the body of the answer and not after.          *)
(***************************************************************************)
EXTENDS Naturals, Sequences

CONSTANTS
    Tables,         \* the tables of the server: <<catalog, namespace, table>>,
                    \* each name a sequence of letters and dots
    None

\* A node of the tree is the path of names that leads to it.
Paths(k) == {SubSeq(t, 1, k) : t \in Tables}
Branches == Paths(1) \cup Paths(2)

\* The names joined by a NUL, which no name has, are the node's id, with its
\* kind; joined by dots those of a table are the key of its panel.
Join(path, by) == IF Len(path) = 1 THEN path[1]
                  ELSE IF Len(path) = 2 THEN path[1] \o <<by>> \o path[2]
                  ELSE path[1] \o <<by>> \o path[2] \o <<by>> \o path[3]

Id(path) == <<Len(path), Join(path, "NUL")>>

PanelKey(t) == Join(t, ".")

VARIABLES
    roots,          \* roots and treeError: "null", "error" or "ready"
    coords,         \* coords: the path that is known for an id
    branch,         \* expanded and state of each branch, and its live requests
    picked,         \* picked
    selectedId,     \* selectedId
    panel,          \* detail and error of the panel
    calls,          \* the requests of the panel: sent, or past the check with
                    \* a body or a failure to read; live until cancelled
    tab             \* the active tab; of the sample's, its status

vars == <<roots, coords, branch, picked, selectedId, panel, calls, tab>>

Folded == [expanded |-> FALSE, status |-> "idle", rows |-> {}, calls |-> 0]
NoPanel == [detail |-> None, error |-> FALSE]
Tabs == {"columns", "details", "history", "permissions"}
SampleStates == {"loading", "ready", "unavailable", "error"}

\* The branches on the screen, and the tables under them.
Mounted(b) ==
    /\ roots = "ready"
    /\ Len(b) = 2 => /\ branch[<<b[1]>>].expanded /\ branch[<<b[1]>>].status = "loaded"
                     /\ b \in branch[<<b[1]>>].rows
TableRows == UNION {branch[b].rows : b \in {x \in Paths(2) : Mounted(x) /\ branch[x].expanded}}

\* What the server has under a path; the rows they make under the branch b.
Under(path) == {t \in Paths(Len(path) + 1) : SubSeq(t, 1, Len(path)) = path}
RowsOf(b, children) == {Append(b, c[Len(c)]) : c \in children}

-----------------------------------------------------------------------------
(* The tree.                                                               *)

\* The effect of the page: the catalogs, or an error.
RootsLoaded ==
    /\ roots = "null"
    /\ \/ /\ roots' = "ready"
          /\ coords' = [i \in {Id(c) : c \in Paths(1)} |->
                           CHOOSE c \in Paths(1) : i = Id(c)]
       \/ roots' = "error" /\ UNCHANGED coords
    /\ UNCHANGED <<branch, picked, selectedId, panel, calls, tab>>

\* Mutant: what is unmounted in the midst of a load is found loading again.
FoldKeepingStatus(b) ==
    branch' = [x \in Branches |->
        CASE x = b -> [branch[x] EXCEPT !.expanded = FALSE]
          [] x # b /\ x[1] = b[1] /\ Len(b) = 1 -> [branch[x] EXCEPT !.expanded = FALSE, !.calls = 0]
          [] OTHER -> branch[x]]

\* A folded branch keeps what it has loaded and goes on to load; the branches
\* under it are unmounted.
FoldBranch(b) ==
    branch' = [x \in Branches |->
        CASE x = b -> [branch[x] EXCEPT !.expanded = FALSE]
          [] x # b /\ x[1] = b[1] /\ Len(b) = 1 -> Folded
          [] OTHER -> branch[x]]

\* Mutant: ensureLoaded does not look at the status.
ExpandAgain(b) == branch' = [branch EXCEPT ![b].expanded = TRUE, ![b].status = "loading",
                                           ![b].rows = {}, ![b].calls = @ + 1]

\* expand, then ensureLoaded: one load, and another one after an error only.
Expand(b) ==
    branch' = IF branch[b].status \in {"loaded", "loading"}
              THEN [branch EXCEPT ![b].expanded = TRUE]
              ELSE [branch EXCEPT ![b].expanded = TRUE, ![b].status = "loading",
                                  ![b].rows = {}, ![b].calls = @ + 1]

\* A click, Enter or an arrow key on the row of a branch.
Toggle(b) ==
    /\ Mounted(b)
    /\ IF branch[b].expanded THEN FoldBranch(b) ELSE Expand(b)
    /\ UNCHANGED <<roots, coords, picked, selectedId, panel, calls, tab>>

\* loadChildren, for what coords has of the branch's id; the children's are
\* stored.  An error leaves no rows.
ChildrenLoaded(b) ==
    LET children == Under(coords[Id(b)]) IN
    /\ branch[b].calls > 0
    /\ \/ /\ branch' = [branch EXCEPT ![b].status = "loaded", ![b].calls = @ - 1,
                                      ![b].rows = RowsOf(b, children)]
          /\ coords' = [i \in DOMAIN coords \cup {Id(c) : c \in children} |->
                           IF \E c \in children : i = Id(c)
                           THEN CHOOSE c \in children : i = Id(c) ELSE coords[i]]
       \/ /\ branch' = [branch EXCEPT ![b].status = "error", ![b].calls = @ - 1, ![b].rows = {}]
          /\ UNCHANGED coords
    /\ UNCHANGED <<roots, picked, selectedId, panel, calls, tab>>

-----------------------------------------------------------------------------
(* The panel.                                                              *)

\* What is left of the requests when their effect is cleaned up.
Cancelled == {[c EXCEPT !.live = FALSE] : c \in {x \in calls : x.stage # "sent"}}

\* Mutant: the panel has no key; the effect finds what is under way.
ShowUnkeyed(t) ==
    IF t = picked THEN UNCHANGED <<panel, calls, tab>>
    ELSE /\ panel' = NoPanel
         /\ calls' = Cancelled \cup {[of |-> t, stage |-> "sent", live |-> TRUE]}
         /\ tab' = "columns"

\* The panel of another key is mounted; one of the same key runs its effect
\* anew, for another table.  Tabs and sample are gone with the details.
Show(t) ==
    IF t = picked THEN UNCHANGED <<panel, calls, tab>>
    ELSE /\ panel' = NoPanel
         /\ calls' = {[of |-> t, stage |-> "sent", live |-> TRUE]} \cup
                     (IF picked # None /\ PanelKey(t) = PanelKey(picked) THEN Cancelled ELSE {})
         /\ tab' = "columns"

\* onSelect of a table's row: what coords has of its id.
Pick(row) ==
    /\ row \in TableRows
    /\ LET t == coords[Id(row)] IN
       /\ picked' = t
       /\ selectedId' = Id(row)
       /\ Show(t)
    /\ UNCHANGED <<roots, coords, branch>>

\* Mutant: an error status is not shown.
AnswerErrorLost(c) ==
    /\ c.stage = "sent"
    /\ \/ calls' = (calls \ {c}) \cup {[c EXCEPT !.stage = "body"]} /\ UNCHANGED panel
       \/ calls' = calls \ {c} /\ UNCHANGED panel
    /\ UNCHANGED <<roots, coords, branch, picked, selectedId, tab>>

\* The answer is there, and its body, or that of an error status, is read next;
\* or fetch fails.
Answer(c) ==
    /\ c.stage = "sent"
    /\ \/ \E stage \in {"body", "failure"} :
              calls' = (calls \ {c}) \cup {[c EXCEPT !.stage = stage]} /\ UNCHANGED panel
       \/ calls' = calls \ {c} /\ panel' = [panel EXCEPT !.error = TRUE]
    /\ UNCHANGED <<roots, coords, branch, picked, selectedId, tab>>

\* What was read is shown without another look at "cancelled"; that it cannot be
\* read, only if the request still counts.
ReadBody(c) ==
    /\ c.stage # "sent"
    /\ calls' = calls \ {c}
    /\ \/ c.stage = "body" /\ panel' = [panel EXCEPT !.detail = c.of]
       \/ panel' = [panel EXCEPT !.error = @ \/ c.stage = "failure" \/ c.live]
    /\ UNCHANGED <<roots, coords, branch, picked, selectedId, tab>>

TabsShown == panel.detail # None /\ ~panel.error

\* A tab is chosen; that of the sample loads each time it is.
Choose(t) ==
    /\ TabsShown
    /\ tab' = t /\ (t = "loading" => tab \in Tabs)
    /\ UNCHANGED <<roots, coords, branch, picked, selectedId, panel, calls>>

\* SampleTab's effect: 501 says that Trino is not configured.
SampleLoaded ==
    /\ TabsShown /\ tab = "loading"
    /\ tab' \in {"ready", "unavailable", "error"}
    /\ UNCHANGED <<roots, coords, branch, picked, selectedId, panel, calls>>

-----------------------------------------------------------------------------
Init ==
    /\ roots = "null" /\ coords = [i \in {} |-> None]
    /\ branch = [b \in Branches |-> Folded]
    /\ picked = None /\ selectedId = None
    /\ panel = NoPanel /\ calls = {} /\ tab = "columns"

Arrival == SampleLoaded \/ \E c \in calls : Answer(c) \/ ReadBody(c)

Next ==
    \/ RootsLoaded \/ Arrival
    \/ \E b \in Branches : Toggle(b) \/ ChildrenLoaded(b)
    \/ \E row \in TableRows : Pick(row)
    \/ \E t \in Tabs \cup {"loading"} : Choose(t)

Spec == Init /\ [][Next]_vars

-----------------------------------------------------------------------------
(* Properties.                                                             *)

TypeOK ==
    /\ roots \in {"null", "error", "ready"}
    /\ \A b \in Branches : /\ branch[b].expanded \in BOOLEAN /\ branch[b].calls \in 0 .. 1
                           /\ branch[b].status \in {"idle", "loading", "loaded", "error"}
    /\ picked \in Tables \cup {None}
    /\ panel.detail \in Tables \cup {None} /\ panel.error \in BOOLEAN
    /\ tab \in Tabs \cup SampleStates

\* The details shown under the heading of a table are those of that table,
\* whatever was picked before and however late its answer comes, unless the
\* names of two tables make the same key: then the panel may show the other one
\* (the effect of TableDetailPanel and the key it is mounted with).
\* And the row that is marked in the tree is the row of that table (CatalogView.tsx:29:
\* node ids are stable and unique, and names with dots are never mis-parsed).
DetailIsOfPicked ==
    /\ panel.detail # None => PanelKey(panel.detail) = PanelKey(picked)
    /\ \A row \in TableRows : Id(row) = selectedId => picked = row

\* A branch on the screen that says "Loading" has exactly one request under way,
\* and any other has none: none is loaded twice, and none is left waiting for
\* an answer that went to a row that is gone (ensureLoaded).
LoadingIsOne ==
    \A b \in Branches : branch[b].calls = (IF branch[b].status = "loading" THEN 1 ELSE 0)

\* The panel never says "Loading" for good: it has details or an error, or a
\* request for the table that is picked is under way and still counts (the effect
\* of TableDetailPanel, which another table starts anew).
PickedIsLoading ==
    picked # None => \/ panel.detail # None \/ panel.error
                     \/ \E c \in calls : c.of = picked /\ c.live
=============================================================================
