--------------------------- MODULE NotebooksView ---------------------------
(***************************************************************************)
(* The Notebooks page of the UI, NotebooksView.tsx with WorkspaceTree.tsx: *)
(* the workspace that is built from the list of notebooks, the dialog that *)
(* creates one, and the notebook that is open, on top of the handlers      *)
(* create, list and trash of notebooks.go.                                 *)
(*                                                                         *)
(* The flows are those of ClustersView.  What goes on inside the editor is *)
(* NotebookEditor; here it has the button that trashes its notebook.       *)
(***************************************************************************)
EXTENDS Naturals, Sequences, FiniteSets

CONSTANTS
    Ids,            \* notebook ids
    Names,          \* what is typed as a name
    Folders,        \* what is typed as a folder path: sequences of segments,
                    \* the empty one for nothing
    None,
    Slots,          \* flows the page may have under way
    Faults          \* "bad": an error status, "lost": fetch fails, before the
                    \* change or after it

VARIABLES
    rows,           \* the table "notebooks"
    notebooks,      \* notebooks: the list shown
    error,          \* error # null
    dialog,         \* createOpen, and what is typed
    creating,       \* creating
    selectedId,     \* selectedId: the notebook that is open
    flows           \* the flows under way

\* History variable: a list may be out of date: loads have overlapped since one
\* began alone, or something was changed that the page was not told of.
VARIABLE unsure

page == <<notebooks, error, dialog, creating, selectedId>>
vars == <<rows, page, flows, unsure>>

\* A row has the path it is stored at, of which the workspace makes folders.
Paths == (Folders \cup {<<n>> : n \in Names}) \ {<<>>}
Row == [path : Paths, name : Names, trashed : BOOLEAN]
Unused == [path |-> <<>>]
Closed == [name |-> None, path |-> <<>>, open |-> FALSE]
Drafts == [name : Names \cup {None}, path : Folders, open : {TRUE}]

NoFlow == [kind |-> "none"]
Sent(kind, row, asks, draft) ==
    [kind |-> kind, row |-> row, asks |-> asks, draft |-> draft, state |-> "sent", list |-> None]
Active == {s \in Slots : flows[s] # NoFlow}
Asking(what) == {s \in Active : flows[s].asks = what}

-----------------------------------------------------------------------------
\* The notebooks the API lists: those that are not trashed.
Live == {i \in Ids : rows[i] # Unused /\ ~rows[i].trashed}

-----------------------------------------------------------------------------
(* The user.                                                               *)

\* The dialog opens blank; it is typed into, and closed.
Dialog ==
    /\ dialog' \in IF dialog.open THEN {Closed} \cup Drafts
                   ELSE {[Closed EXCEPT !.open = TRUE]}
    /\ dialog' # dialog
    /\ UNCHANGED <<rows, notebooks, error, creating, selectedId, flows, unsure>>

\* onCreate: Enter or the Create button.
Create(s) ==
    /\ dialog.open /\ dialog.name # None /\ ~creating
    /\ flows[s] = NoFlow
    /\ flows' = [flows EXCEPT ![s] = Sent("create", None, "change", dialog)]
    /\ creating' = TRUE
    /\ UNCHANGED <<rows, notebooks, error, dialog, selectedId, unsure>>

\* onSelectNotebook: a leaf of the workspace, which may be trashed by now.
Select(i) ==
    /\ notebooks # None /\ i \in DOMAIN notebooks /\ ~dialog.open
    /\ selectedId' = i
    /\ UNCHANGED <<rows, notebooks, error, dialog, creating, flows, unsure>>

\* onTrash of the editor that is open; the request outlives it.
Trash(s) ==
    /\ selectedId # None /\ ~dialog.open
    /\ flows[s] = NoFlow
    /\ flows' = [flows EXCEPT ![s] = Sent("trash", selectedId, "change", Closed)]
    /\ UNCHANGED <<rows, page, unsure>>

-----------------------------------------------------------------------------
(* notebooks.go.                                                           *)

\* The column "path" is unique, over trashed notebooks as well.
Taken(path) == \E i \in Ids : rows[i] # Unused /\ rows[i].path = path

\* create: the path that was sent, or one from the name.
StoredPath(draft) == IF draft.path = <<>> THEN <<draft.name>> ELSE draft.path

\* What a change makes of the table, for each id a create may take.
Made(q) ==
    IF q.kind = "create"
    THEN {<<i, [rows EXCEPT ![i] = [path |-> StoredPath(q.draft), name |-> q.draft.name,
                                    trashed |-> FALSE]]>> :
            i \in {j \in Ids : rows[j] = Unused /\ ~Taken(StoredPath(q.draft))}}
    ELSE {<<q.row, [rows EXCEPT ![q.row].trashed = TRUE]>>}

\* A change is made; a create at a path that is taken is answered 409.  A
\* trashed notebook can be trashed again.
ServeChange(s) ==
    LET q == flows[s] IN
    /\ s \in Asking("change") /\ q.state = "sent"
    /\ \/ \E made \in Made(q), ending \in {"ok"} \cup (Faults \cap {"lost"}) :
              /\ rows' = made[2]
              /\ flows' = [flows EXCEPT ![s].row = made[1],
                               ![s].state = IF ending = "ok" THEN "ok" ELSE "thrown"]
              /\ unsure' = (unsure \/ ending # "ok")
       \/ /\ (q.kind = "create" /\ Taken(StoredPath(q.draft))) \/ "bad" \in Faults
          /\ flows' = [flows EXCEPT ![s].state = "bad"]
          /\ UNCHANGED <<rows, unsure>>
       \/ /\ "lost" \in Faults
          /\ flows' = [flows EXCEPT ![s].state = "thrown"]
          /\ UNCHANGED <<rows, unsure>>
    /\ UNCHANGED page

\* list.
ServeList(s) ==
    /\ s \in Asking("list") /\ flows[s].state = "sent"
    /\ \/ flows' = [flows EXCEPT ![s].state = "ok", ![s].list = [i \in Live |-> rows[i]]]
       \/ "bad" \in Faults /\ flows' = [flows EXCEPT ![s].state = "bad"]
    /\ UNCHANGED <<rows, page, unsure>>

\* Somebody else trashes a notebook.
Elsewhere(i) ==
    /\ i \in Live
    /\ rows' = [rows EXCEPT ![i].trashed = TRUE]
    /\ unsure' = TRUE
    /\ UNCHANGED <<page, flows>>

-----------------------------------------------------------------------------
(* Answers.                                                                *)

LoadBegins(s) == unsure' = (Asking("list") \ {s} # {})

\* Mutant: the trash of any notebook closes the one that is open.
ChangeDoneDeselects(s) ==
    LET q == flows[s] IN
    /\ s \in Asking("change") /\ q.state = "ok"
    /\ flows' = [flows EXCEPT ![s].asks = "list", ![s].state = "sent"]
    /\ LoadBegins(s)
    /\ dialog' = IF q.kind = "create" THEN Closed ELSE dialog
    /\ selectedId' = IF q.kind = "trash" THEN None ELSE selectedId
    /\ UNCHANGED <<rows, notebooks, error, creating>>

\* Mutant: the list is not loaded again.
ChangeDoneOnly(s) ==
    LET q == flows[s] IN
    /\ s \in Asking("change") /\ q.state = "ok"
    /\ flows' = [flows EXCEPT ![s] = NoFlow]
    /\ dialog' = IF q.kind = "create" THEN Closed ELSE dialog
    /\ selectedId' = IF q.kind = "create" THEN q.row
                     ELSE IF selectedId = q.row THEN None ELSE selectedId
    /\ creating' = (creating /\ q.kind # "create")
    /\ UNCHANGED <<rows, notebooks, error, unsure>>

\* A create closes the dialog, whatever it shows by now; onTrashed closes the
\* notebook if it is still the one that is open.  Both load the list.
ChangeDone(s) ==
    LET q == flows[s] IN
    /\ s \in Asking("change") /\ q.state = "ok"
    /\ flows' = [flows EXCEPT ![s].asks = "list", ![s].state = "sent"]
    /\ LoadBegins(s)
    /\ dialog' = IF q.kind = "create" THEN Closed ELSE dialog
    /\ selectedId' = IF q.kind = "trash" /\ selectedId = q.row THEN None ELSE selectedId
    /\ UNCHANGED <<rows, notebooks, error, creating>>

\* The error status of a create is shown on the page, that of a trash in the
\* editor; a fetch that fails is caught by nobody.
ChangeFailed(s) ==
    LET q == flows[s] IN
    /\ s \in Asking("change") /\ q.state \in {"bad", "thrown"}
    /\ flows' = [flows EXCEPT ![s] = NoFlow]
    /\ error' = (error \/ (q.kind = "create" /\ q.state = "bad"))
    /\ creating' = (creating /\ q.kind # "create")
    /\ UNCHANGED <<rows, notebooks, dialog, selectedId, unsure>>

\* load, which leaves an empty list after an error; a create goes on to open
\* its notebook, whatever is open by now and even if the load has failed.
Loaded(s) ==
    LET q == flows[s] IN
    /\ s \in Asking("list") /\ q.state # "sent"
    /\ flows' = [flows EXCEPT ![s] = NoFlow]
    /\ notebooks' = IF q.state = "ok" THEN q.list ELSE [i \in {} |-> Unused]
    /\ error' = (q.state # "ok")
    /\ selectedId' = IF q.kind = "create" THEN q.row ELSE selectedId
    /\ creating' = (creating /\ q.kind # "create")
    /\ UNCHANGED <<rows, dialog, unsure>>

-----------------------------------------------------------------------------
\* The page is opened: its load is on its way, and there may be a notebook.
Init ==
    /\ \E n \in Names, i \in Ids, used \in BOOLEAN :
           rows = [j \in Ids |->
               IF used /\ j = i THEN [path |-> <<n>>, name |-> n, trashed |-> FALSE]
               ELSE Unused]
    /\ notebooks = None /\ error = FALSE /\ dialog = Closed /\ creating = FALSE
    /\ selectedId = None
    /\ \E s \in Slots : flows = [t \in Slots |->
           IF t = s THEN Sent("load", None, "list", Closed) ELSE NoFlow]
    /\ unsure = FALSE

Next ==
    \/ Dialog
    \/ \E i \in Ids : Select(i) \/ Elsewhere(i)
    \/ \E s \in Slots :
           \/ Create(s) \/ Trash(s) \/ ServeChange(s) \/ ServeList(s)
           \/ ChangeDone(s) \/ ChangeFailed(s) \/ Loaded(s)

Spec == Init /\ [][Next]_vars

-----------------------------------------------------------------------------
(* Properties.                                                             *)

TypeOK ==
    /\ rows \in [Ids -> Row \cup {Unused}]
    /\ notebooks = None \/ \A i \in DOMAIN notebooks : i \in Ids /\ notebooks[i] \in Row
    /\ error \in BOOLEAN /\ creating \in BOOLEAN /\ unsure \in BOOLEAN
    /\ dialog \in Drafts \cup {Closed}
    /\ selectedId \in Ids \cup {None}

\* "Creating" stands for exactly one create, through its load, its errors, and a
\* dialog that is closed and opened meanwhile (onCreate and its finally).
CreatingIsOne ==
    LET creates == {s \in Active : flows[s].kind = "create"} IN
    /\ creating <=> creates # {}
    /\ Cardinality(creates) <= 1

\* When nothing is under way and no error is shown, the workspace has exactly the
\* notebooks of the API, unless loads have overlapped, an answer was lost or
\* somebody else trashed a notebook (onCreate, onTrashed: load).
WorkspaceIsCurrent == Active = {} /\ ~error /\ ~unsure => DOMAIN notebooks = Live

\* A notebook that is open, perhaps with edits, is closed only by its own trash,
\* and gives way to another one only by the user's choice or a create that ends
\* (onTrashed, onCreate).
KeepsOpen ==
    selectedId # None /\ selectedId' # selectedId =>
        IF selectedId' = None
        THEN \E s \in Active : flows[s].kind = "trash" /\ flows[s].row = selectedId
        ELSE \/ flows' = flows
             \/ \E s \in Active : flows[s].kind = "create" /\ flows[s].row = selectedId'
=============================================================================
