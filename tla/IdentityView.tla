---------------------------- MODULE IdentityView ----------------------------
(***************************************************************************)
(* The Identity & Access page of the UI, IdentityView.tsx: the realm's     *)
(* users and groups, a dialog to add one of either, and a role to assign   *)
(* in each row of the users' table.                                        *)
(*                                                                         *)
(* The answer to the load of the users decides about the whole page: 403   *)
(* or 501 takes the page over, and the sections, their dialogs and rows    *)
(* are unmounted.  A flow whose component is gone still sends its requests *)
(* and loads the lists, which belong to the page.                          *)
(***************************************************************************)
EXTENDS Naturals, FiniteSets

CONSTANTS
    Slots,          \* flows the page may have under way
    MaxChanges,     \* bound: users and groups this page adds
    Statuses,       \* the error statuses the API may answer: "forbidden"
                    \* (403), "unconfigured" (501), "bad" (any other)
    Losses          \* whether fetch may fail after the API has made a change

Sections == {"users", "groups"}

VARIABLES
    added,          \* the users and the groups this page has added
    lists,          \* users and groups: the LoadState of each section
    forms,          \* the dialogs: open or not, the draft, the error shown
    adding,         \* busy of each section
    assigning,      \* busy of the row of a user
    flows

\* History variable: see unsure of ClustersView, for each section.
VARIABLE unsure

page == <<lists, forms, adding, assigning>>
vars == <<added, page, flows, unsure>>

\* classify: 403 and 501 are states of their own.
Kinds == {"loading", "ready", "forbidden", "unconfigured", "error"}
Classify(status) == IF status \in {"forbidden", "unconfigured"} THEN status ELSE "error"

Closed == [draft |-> "closed", error |-> FALSE]
Forms == [draft : {"closed", "blank", "named"}, error : BOOLEAN]

Flow == [kind : {"load", "add", "assign"}, section : Sections, asks : {"change", "list"},
         state : {"sent", "ok", "thrown"} \cup Statuses, seen : 0 .. MaxChanges, orphan : BOOLEAN]
NoFlow == [kind |-> "none"]
Sent(kind, section, asks) ==
    [kind |-> kind, section |-> section, asks |-> asks, state |-> "sent", seen |-> 0, orphan |-> FALSE]

Active == {s \in Slots : flows[s] # NoFlow}
Asking(what) == {s \in Active : flows[s].asks = what}
Loading(section) == {s \in Asking("list") : flows[s].section = section}

\* Mutant: either section takes the page over.
GateByBoth(page_lists) == \E x \in Sections : page_lists[x].kind \in {"forbidden", "unconfigured"}

\* The full-page takeover, and the table of the users.
Gate(page_lists) == page_lists["users"].kind \in {"forbidden", "unconfigured"}

Table(page_lists) == page_lists["users"].kind = "ready"

-----------------------------------------------------------------------------
(* The user.                                                               *)

Take(s, kind, section) ==
    /\ flows[s] = NoFlow
    /\ flows' = [flows EXCEPT ![s] = Sent(kind, section, "change")]

\* The dialogs; each form is reset when it opens.
Dialog(section) ==
    /\ ~Gate(lists)
    /\ forms' \in {[forms EXCEPT ![section] = f] :
                      f \in IF forms[section] = Closed THEN {[draft |-> "blank", error |-> FALSE]}
                            ELSE {Closed} \cup {[forms[section] EXCEPT !.draft = d] : d \in {"blank", "named"}}}
    /\ UNCHANGED <<added, lists, adding, assigning, flows, unsure>>

\* Mutant: submit does not look at busy.
AddAnyway(s, section) ==
    /\ forms[section].draft = "named"
    /\ Take(s, "add", section)
    /\ adding' = [adding EXCEPT ![section] = TRUE]
    /\ UNCHANGED <<added, lists, forms, assigning, unsure>>

\* submit of a dialog, then createUser or createGroup.
Add(s, section) ==
    /\ forms[section].draft = "named" /\ ~adding[section]
    /\ Take(s, "add", section)
    /\ adding' = [adding EXCEPT ![section] = TRUE]
    /\ UNCHANGED <<added, lists, forms, assigning, unsure>>

\* assign, in the row of a user.
Assign(s) ==
    /\ Table(lists) /\ ~assigning
    /\ Take(s, "assign", "users")
    /\ assigning' = TRUE
    /\ UNCHANGED <<added, lists, forms, adding, unsure>>

-----------------------------------------------------------------------------
(* The API.                                                                *)

Serve(s) ==
    LET q == flows[s] IN
    /\ s \in Active /\ q.state = "sent"
    /\ \/ /\ q.asks = "list"
          /\ flows' = [flows EXCEPT ![s].state = "ok", ![s].seen = added[q.section]]
          /\ UNCHANGED <<added, unsure>>
       \/ /\ q.asks = "change" /\ (q.kind = "add" => added[q.section] < MaxChanges)
          /\ added' = IF q.kind = "add" THEN [added EXCEPT ![q.section] = @ + 1] ELSE added
          /\ \E ending \in {"ok"} \cup (IF Losses THEN {"thrown"} ELSE {}) :
                 /\ flows' = [flows EXCEPT ![s].state = ending]
                 /\ unsure' = [unsure EXCEPT ![q.section] = @ \/ ending # "ok"]
       \/ /\ flows' \in {[flows EXCEPT ![s].state = status] : status \in Statuses}
          /\ UNCHANGED <<added, unsure>>
    /\ UNCHANGED page

-----------------------------------------------------------------------------
(* Answers.                                                                *)

\* The finally of a flow whose component is still there.
Free(s) ==
    LET q == flows[s] IN
    /\ adding' = [adding EXCEPT ![q.section] = @ /\ (q.orphan \/ q.kind # "add")]
    /\ assigning' = (assigning /\ (q.orphan \/ q.kind # "assign"))

\* A change was made: the dialog closes, whatever it shows by now, and the list
\* of the section is loaded.
ChangeDone(s) ==
    LET q == flows[s] IN
    /\ s \in Asking("change") /\ q.state = "ok"
    /\ flows' = [flows EXCEPT ![s].asks = "list", ![s].state = "sent"]
    /\ unsure' = [unsure EXCEPT ![q.section] = Loading(q.section) # {}]
    /\ forms' = IF q.kind = "add" /\ ~q.orphan THEN [forms EXCEPT ![q.section] = Closed] ELSE forms
    /\ UNCHANGED <<added, lists, adding, assigning>>

\* It was not, or fetch failed: submit shows the error in the dialog, assign in
\* the row.
ChangeFailed(s) ==
    LET q == flows[s] IN
    /\ s \in Asking("change") /\ q.state \notin {"sent", "ok"}
    /\ flows' = [flows EXCEPT ![s] = NoFlow]
    /\ Free(s)
    /\ forms' = IF q.kind = "add" /\ ~q.orphan /\ forms[q.section] # Closed
                THEN [forms EXCEPT ![q.section].error = TRUE] ELSE forms
    /\ UNCHANGED <<added, lists, unsure>>

\* What the new lists unmount: dialogs and sections by the takeover, the rows
\* of the users by anything but a list of them.
Unmount(s) ==
    LET gone(q) == \/ q.kind = "add" /\ Gate(lists')
                   \/ q.kind = "assign" /\ ~Table(lists')
    IN
    /\ flows' = [t \in Slots |->
                    IF t = s \/ flows[t] = NoFlow THEN NoFlow
                    ELSE [flows[t] EXCEPT !.orphan = @ \/ gone(flows[t])]]
    /\ forms' = IF Gate(lists') THEN [x \in Sections |-> Closed] ELSE forms
    /\ adding' = [x \in Sections |->
           /\ ~Gate(lists')
           /\ adding[x] /\ (flows[s].orphan \/ flows[s].kind # "add" \/ flows[s].section # x)]
    /\ assigning' = (/\ Table(lists')
                     /\ assigning /\ (flows[s].orphan \/ flows[s].kind # "assign"))

\* Mutant: an error leaves the list that was shown.
LoadedQuietly(s) ==
    LET q == flows[s] IN
    /\ s \in Asking("list") /\ q.state # "sent"
    /\ lists' = [lists EXCEPT ![q.section] =
                    IF q.state \in {"ok", "bad"} THEN [kind |-> "ready", seen |-> q.seen]
                    ELSE [kind |-> Classify(q.state), seen |-> 0]]
    /\ Unmount(s)
    /\ UNCHANGED <<added, unsure>>

\* loadUsers and loadGroups.
Loaded(s) ==
    LET q == flows[s] IN
    /\ s \in Asking("list") /\ q.state # "sent"
    /\ lists' = [lists EXCEPT ![q.section] =
                    IF q.state = "ok" THEN [kind |-> "ready", seen |-> q.seen]
                    ELSE [kind |-> Classify(q.state), seen |-> 0]]
    /\ Unmount(s)
    /\ UNCHANGED <<added, unsure>>

-----------------------------------------------------------------------------
\* The page is opened: both lists are loaded.
Init ==
    /\ added = [x \in Sections |-> 0]
    /\ lists = [x \in Sections |-> [kind |-> "loading", seen |-> 0]]
    /\ forms = [x \in Sections |-> Closed]
    /\ adding = [x \in Sections |-> FALSE] /\ assigning = FALSE
    /\ \E s, t \in Slots :
           /\ s # t
           /\ flows = [r \in Slots |-> CASE r = s -> Sent("load", "users", "list")
                                         [] r = t -> Sent("load", "groups", "list")
                                         [] OTHER -> NoFlow]
    /\ unsure = [x \in Sections |-> FALSE]

Next ==
    \/ \E x \in Sections : Dialog(x)
    \/ \E s \in Slots :
           \/ Assign(s) \/ Serve(s) \/ ChangeDone(s) \/ ChangeFailed(s) \/ Loaded(s)
           \/ \E x \in Sections : Add(s, x)

Spec == Init /\ [][Next]_vars

-----------------------------------------------------------------------------
(* Properties.                                                             *)

TypeOK ==
    /\ added \in [Sections -> 0 .. MaxChanges]
    /\ lists \in [Sections -> [kind : Kinds, seen : 0 .. MaxChanges]]
    /\ forms \in [Sections -> Forms] /\ adding \in [Sections -> BOOLEAN]
    /\ assigning \in BOOLEAN /\ unsure \in [Sections -> BOOLEAN]
    /\ flows \in [Slots -> Flow \cup {NoFlow}]

\* A section is busy exactly while one add of its own dialog is under way, a row
\* exactly while one assignment of its own is, and behind the takeover nothing
\* is busy or open: a page that comes back starts afresh, although the flows of
\* the components that are gone still run and end (the unmounts of IdentityView,
\* UsersSection, GroupsSection and UserRow).
BusyIsWorking ==
    LET mine(kind, x) ==
            {s \in Active : flows[s].kind = kind /\ flows[s].section = x /\ ~flows[s].orphan}
    IN
    /\ \A x \in Sections : /\ adding[x] <=> mine("add", x) # {}
                           /\ Cardinality(mine("add", x)) <= 1
    /\ assigning <=> mine("assign", "users") # {}
    /\ Gate(lists) => \A x \in Sections : forms[x] = Closed

\* A list that is shown when nothing is under way has all that this page has
\* added, unless loads of it have overlapped or an answer was lost; also after
\* the takeover has come and gone (createUser, createGroup: reload).
AddedIsShown ==
    \A x \in Sections :
        Active = {} /\ lists[x].kind = "ready" /\ ~unsure[x] => lists[x].seen = added[x]

\* The takeover is the answer to a load of the users, and is ended by another
\* one only; a failed add or assignment never takes the page over, nor do the
\* groups (classify, loadUsers).
TakeoverByUsersOnly ==
    Gate(lists) # Gate(lists)' =>
        \E s \in Loading("users") : /\ flows'[s] = NoFlow
                                    /\ Gate(lists)' <=> flows[s].state \in {"forbidden", "unconfigured"}
=============================================================================
