--------------------------- MODULE NotebookEditor ---------------------------
(***************************************************************************)
(* The notebook editor of the UI, NotebookEditor.tsx, on one notebook.     *)
(*                                                                         *)
(* The editor is a handful of React state variables.  Handlers send a      *)
(* request and return; a callback changes the variables when the answer    *)
(* arrives, in whatever order answers arrive, after whatever the user did  *)
(* meanwhile.  Sending, serving and the callback are separate actions.     *)
(*                                                                         *)
(* A content is a number: the initial one is 0 and every edit of a cell    *)
(* makes a new one.                                                        *)
(***************************************************************************)
EXTENDS Naturals

CONSTANTS
    Slots,          \* requests the browser may have in flight
    MaxContents,    \* bound: contents made by edits, here or in another tab
    Faults,         \* "bad": an error status, "thrown": fetch fails,
                    \* "lost": it fails after the API has made the change
    OtherTabs       \* whether somebody else saves the same notebook

Contents == 0 .. MaxContents

\* Requests whose callbacks, or whose effects, concern the content.
Movers == {"load", "save", "restore"}
Kinds == Movers \cup {"snapshot", "attach", "trash", "run"}

\* orphan: the component that sent the request is gone.
Request == [kind : Kinds, state : {"sent", "ok", "bad", "thrown"},
            content : Contents, orphan : BOOLEAN]

Free == [kind |-> "load", state |-> "free", content |-> 0, orphan |-> FALSE]

ASSUME ConstantsAssumption ==
    /\ MaxContents \in Nat
    /\ Faults \subseteq {"bad", "thrown", "lost"}
    /\ OtherTabs \in BOOLEAN

VARIABLES
    loaded,         \* notebook # null
    cells,          \* cells
    error,          \* error # null: the error screen, with its Retry
    dirty,          \* dirty
    saving,         \* saving
    runs,           \* runs: what is shown below a code cell
    net,            \* the requests in flight
    stored,         \* the content of the notebook in the API's store
    revisions,      \* the contents saved as revisions
    open,           \* whether the editor is shown
    made            \* how many contents have been made

\* History variable: requests about the content, or an edit and such a
\* request, have overlapped since one began alone; or an answer was lost.
VARIABLE crossed

editor == <<loaded, cells, error, dirty, saving, runs>>
store == <<stored, revisions>>
vars == <<editor, net, store, open, made, crossed>>

Active == {s \in Slots : net[s].state # "free"}
Moving == {s \in Active : /\ net[s].kind \in Movers
                          /\ net[s].orphan => net[s].state = "sent"}

\* The editor's own view, with its toolbar, cells, drawer and dialogs.
Editing == open /\ loaded /\ ~error

-----------------------------------------------------------------------------
(* The user.                                                               *)

\* A slot takes a request; kind and content are those of the fetch.
Send(s, kind, content) ==
    /\ net[s].state = "free"
    /\ net' = [net EXCEPT ![s] =
                   [kind |-> kind, state |-> "sent", content |-> content, orphan |-> FALSE]]

\* A load or a save that begins alone ends what was crossed before it.
Begins(kind) ==
    crossed' = IF Moving # {} THEN TRUE
               ELSE IF kind \in {"load", "save"} THEN FALSE ELSE crossed

\* updateCells: any change of the cells.
Edit ==
    /\ Editing /\ made < MaxContents
    /\ made' = made + 1
    /\ cells' = made + 1
    /\ dirty' = TRUE
    /\ crossed' = (crossed \/ Moving # {})
    /\ UNCHANGED <<loaded, error, saving, runs, net, store, open>>

\* The Save button, disabled while saving and when nothing is dirty.
Save(s) ==
    /\ Editing /\ dirty /\ ~saving
    /\ Send(s, "save", cells)
    /\ saving' = TRUE
    /\ Begins("save")
    /\ UNCHANGED <<loaded, cells, error, dirty, runs, store, open, made>>

\* RevisionHistory: restore of a revision, snapshot of the stored content.
Restore(s) ==
    /\ Editing
    /\ \E v \in revisions : Send(s, "restore", v)
    /\ Begins("restore")
    /\ UNCHANGED <<editor, store, open, made>>

\* Snapshot, attach and trash wait for their answer and change nothing yet.
Ask(s, kind) ==
    /\ Editing
    /\ kind \in {"snapshot", "attach", "trash"}
    /\ Send(s, kind, 0)
    /\ UNCHANGED <<editor, store, open, made, crossed>>

\* runCells, of one cell or of all.
Run(s) ==
    /\ Editing
    /\ Send(s, "run", 0)
    /\ runs' = "running"
    /\ UNCHANGED <<loaded, cells, error, dirty, saving, store, open, made, crossed>>

\* Retry on the error screen: load forgets notebook, edits and results.
Retry(s) ==
    /\ open /\ error
    /\ Send(s, "load", 0)
    /\ loaded' = FALSE /\ error' = FALSE /\ dirty' = FALSE /\ runs' = "idle"
    /\ Begins("load")
    /\ UNCHANGED <<cells, saving, store, open, made>>

\* Another notebook is selected and this one again: the component, keyed by
\* the notebook's id, is a new one, whose effect loads.
Reopen(s) ==
    /\ open /\ net[s].state = "free"
    /\ net' = [t \in Slots |->
                  IF t = s THEN [kind |-> "load", state |-> "sent", content |-> 0, orphan |-> FALSE]
                  ELSE IF net[t].state = "free" THEN Free
                  ELSE [net[t] EXCEPT !.orphan = TRUE]]
    /\ loaded' = FALSE /\ cells' = 0 /\ error' = FALSE /\ dirty' = FALSE
    /\ saving' = FALSE /\ runs' = "idle"
    /\ Begins("load")
    /\ UNCHANGED <<store, open, made>>

-----------------------------------------------------------------------------
(* The API.                                                                *)

\* What the editor and the proxy route put into the body of a run; the handler
\* answers 400 to a body without code.
RunBody == {"cell_id"}

\* How a request may end; "lost" is seen as thrown.
Endings(kind) == IF kind = "run" /\ "code" \notin RunBody
                 THEN {"bad"} \cup (Faults \ {"lost"})
                 ELSE {"ok"} \cup Faults

\* The change a request makes.  A restore makes the revision the content.
Apply(kind, content) ==
    /\ stored' = IF kind \in {"save", "restore"} THEN content ELSE stored
    /\ revisions' = IF kind = "snapshot" THEN revisions \cup {stored} ELSE revisions

\* The API serves a request; the answer to a load carries the content.
Serve(s) ==
    LET q == net[s] IN
    /\ q.state = "sent"
    /\ \E ending \in Endings(q.kind) :
           /\ IF ending \in {"ok", "lost"} THEN Apply(q.kind, q.content)
              ELSE UNCHANGED store
           /\ net' = [net EXCEPT
                  ![s].state = IF ending = "lost" THEN "thrown" ELSE ending,
                  ![s].content = IF q.kind = "load" THEN stored ELSE q.content]
           /\ crossed' = (crossed \/ (ending = "lost" /\ q.kind = "restore"))
    /\ UNCHANGED <<editor, open, made>>

\* The same notebook is saved in another tab.
SaveElsewhere ==
    /\ OtherTabs /\ made < MaxContents
    /\ made' = made + 1
    /\ stored' = made + 1
    /\ crossed' = TRUE
    /\ UNCHANGED <<editor, net, revisions, open>>

-----------------------------------------------------------------------------
(* The callbacks.                                                          *)

\* The answer of kind is there, and so is the component that waits for it.
Answered(s, kind) ==
    /\ net[s].kind = kind /\ net[s].state \notin {"free", "sent"} /\ ~net[s].orphan
    /\ net' = [net EXCEPT ![s] = Free]

\* load: the content is shown, or the error screen.
LoadAnswered(s) ==
    /\ Answered(s, "load")
    /\ IF net[s].state = "ok"
       THEN loaded' = TRUE /\ cells' = net[s].content /\ UNCHANGED error
       ELSE error' = TRUE /\ UNCHANGED <<loaded, cells>>
    /\ UNCHANGED <<dirty, saving, runs, store, open, made, crossed>>

\* Mutant: without the finally, "saving" ends with a good answer only.
SaveAnsweredEarly(s) ==
    /\ Answered(s, "save")
    /\ saving' = (saving /\ net[s].state # "ok")
    /\ loaded' = (loaded \/ net[s].state = "ok")
    /\ dirty' = (dirty /\ net[s].state # "ok")
    /\ error' = (error \/ net[s].state = "bad")
    /\ UNCHANGED <<cells, runs, store, open, made, crossed>>

\* Mutant: the cells are marked clean whatever became of the save.
SaveAnsweredClean(s) ==
    /\ Answered(s, "save")
    /\ saving' = FALSE
    /\ loaded' = (loaded \/ net[s].state = "ok")
    /\ dirty' = FALSE
    /\ error' = (error \/ net[s].state = "bad")
    /\ UNCHANGED <<cells, runs, store, open, made, crossed>>

\* save: the cells stay as they are; a fetch that fails only ends "saving".
SaveAnswered(s) ==
    /\ Answered(s, "save")
    /\ saving' = FALSE
    /\ loaded' = (loaded \/ net[s].state = "ok")
    /\ dirty' = (dirty /\ net[s].state # "ok")
    /\ error' = (error \/ net[s].state = "bad")
    /\ UNCHANGED <<cells, runs, store, open, made, crossed>>

\* restore: the editor takes the restored content over; errors are the drawer's.
RestoreAnswered(s) ==
    /\ Answered(s, "restore")
    /\ IF net[s].state = "ok"
       THEN loaded' = TRUE /\ cells' = net[s].content /\ dirty' = FALSE
       ELSE UNCHANGED <<loaded, cells, dirty>>
    /\ UNCHANGED <<error, saving, runs, store, open, made, crossed>>

\* onSnapshot shows a message, onAttached takes the notebook without its cells.
AskAnswered(s) ==
    /\ \/ Answered(s, "snapshot") /\ UNCHANGED loaded
       \/ Answered(s, "attach") /\ loaded' = (loaded \/ net[s].state = "ok")
    /\ UNCHANGED <<cells, error, dirty, saving, runs, store, open, made, crossed>>

\* onTrash: the view closes the editor, or the error screen is shown.
TrashAnswered(s) ==
    /\ Answered(s, "trash")
    /\ open' = (open /\ net[s].state # "ok")
    /\ error' = (error \/ net[s].state = "bad")
    /\ UNCHANGED <<loaded, cells, dirty, saving, runs, store, made, crossed>>

\* Mutant: a fetch that fails is not caught.
RunAnsweredUncaught(s) ==
    /\ Answered(s, "run")
    /\ runs' = CASE net[s].state = "ok"     -> "done"
                 [] net[s].state = "bad"    -> "error"
                 [] net[s].state = "thrown" -> runs
    /\ UNCHANGED <<loaded, cells, error, dirty, saving, store, open, made, crossed>>

\* Mutant: the answer itself is taken for the state of the cell.
RunAnsweredRaw(s) ==
    /\ Answered(s, "run")
    /\ runs' = net[s].state
    /\ UNCHANGED <<loaded, cells, error, dirty, saving, store, open, made, crossed>>

\* runCells: each way to end leaves a result below the cell.
RunAnswered(s) ==
    /\ Answered(s, "run")
    /\ runs' = IF net[s].state = "ok" THEN "done" ELSE "error"
    /\ UNCHANGED <<loaded, cells, error, dirty, saving, store, open, made, crossed>>

\* A callback of a component that is gone: only the view hears of a trash.
OrphanAnswered(s) ==
    /\ net[s].orphan /\ net[s].state # "sent"
    /\ net' = [net EXCEPT ![s] = Free]
    /\ open' = (open /\ ~(net[s].kind = "trash" /\ net[s].state = "ok"))
    /\ UNCHANGED <<editor, store, made, crossed>>

-----------------------------------------------------------------------------
\* The editor is opened on a notebook.
Init ==
    /\ loaded = FALSE /\ cells = 0 /\ error = FALSE /\ dirty = FALSE
    /\ saving = FALSE /\ runs = "idle"
    /\ \E s \in Slots : net = [t \in Slots |->
           IF t = s THEN [kind |-> "load", state |-> "sent", content |-> 0, orphan |-> FALSE]
           ELSE Free]
    /\ stored = 0 /\ revisions = {}
    /\ open = TRUE /\ made = 0 /\ crossed = FALSE

User(s) ==
    \/ Save(s) \/ Restore(s) \/ Run(s) \/ Retry(s) \/ Reopen(s)
    \/ \E kind \in Kinds : Ask(s, kind)

Callback(s) ==
    \/ LoadAnswered(s) \/ SaveAnswered(s) \/ RestoreAnswered(s) \/ AskAnswered(s)
    \/ TrashAnswered(s) \/ RunAnswered(s) \/ OrphanAnswered(s)

Next ==
    \/ Edit \/ SaveElsewhere
    \/ \E s \in Slots : User(s) \/ Serve(s) \/ Callback(s)

Spec == Init /\ [][Next]_vars

\* Requests are answered and callbacks run; nothing is assumed of the user.
FairSpec == Spec /\ \A s \in Slots : WF_vars(Serve(s) \/ Callback(s))

-----------------------------------------------------------------------------
(* Properties.                                                             *)

\* Well-formedness, and: a component that says "saving" has its save in flight.
TypeOK ==
    /\ loaded \in BOOLEAN /\ cells \in Contents /\ error \in BOOLEAN
    /\ dirty \in BOOLEAN /\ saving \in BOOLEAN
    /\ runs \in {"idle", "running", "done", "error"}
    /\ net \in [Slots -> Request \cup {Free}]
    /\ stored \in Contents /\ revisions \subseteq Contents
    /\ open \in BOOLEAN /\ made \in Contents /\ crossed \in BOOLEAN

\* saving is set exactly while one save of this component is on its way, so the
\* button cannot start a second one, nor stay disabled when the save is over,
\* through errors, Retry and Reopen (save: the finally).
SavingIsASave ==
    LET mine == {s \in Active : net[s].kind = "save" /\ ~net[s].orphan} IN
    /\ saving <=> mine # {}
    /\ \A s, t \in mine : s = t

\* Cells that are shown as saved are what the store has, unless requests about
\* the content have overlapped each other, an edit or another tab's save, or
\* the answer to a restore was lost (save, load and onRestored).
CleanIsStoredUnlessCrossed ==
    Editing /\ ~dirty /\ Moving = {} /\ ~crossed => cells = stored

\* A cell does not stay "running": each ending of runCells sets a result.
RunEnds == runs = "running" ~> runs # "running"

\* Violated.  Cells without the mark "Unsaved changes" are saved.
CleanIsStored == Editing /\ ~dirty /\ Moving = {} => cells = stored

\* Violated.  A run sent by the editor is one that the API accepts.
RunIsAccepted == \A s \in Active : net[s].kind = "run" => net[s].state # "bad"
=============================================================================
