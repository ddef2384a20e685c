------------------------- MODULE ClustersViewProofs -------------------------
(***************************************************************************)
(* Proofs about ClustersView, for any number of clusters, flows and        *)
(* changes, and all faults.                                                *)
(***************************************************************************)
EXTENDS ClustersView, FiniteSetTheorems, TLAPS

-----------------------------------------------------------------------------
(* Type correctness.  That an action has a row to act on is part of the    *)
(* induction.                                                              *)

Wired ==
    \A s \in Slots : flows[s].kind = "act" => flows[s].row \in Ids

TypeInv == TypeOK /\ Wired

Lists == [version : 0 .. MaxChanges, rows : [Ids -> Rows \cup Absent]] \cup {Null}

\* The steps of Next, one by one.
LEMMA Steps ==
    ASSUME [Next]_vars
    PROVE  \/ OpenDialog \/ EditDialog \/ UNCHANGED vars
           \/ \E c \in Ids : Operator(c) \/ Elsewhere(c)
           \/ \E s \in Slots : \/ Poll(s) \/ Create(s) \/ ServeChange(s) \/ ServeList(s)
                               \/ ChangeDone(s) \/ ChangeRefused(s) \/ Loaded(s)
           \/ \E s \in Slots, c \in Ids, action \in RowActions : Act(s, action, c)
  BY ConstantsAssumption DEF Next, Answers

\* A slot without a flow is known by any of its fields.
LEMMA FreeSlot ==
    ASSUME TypeOK, NEW s \in Slots
    PROVE  /\ s \in Active <=> flows[s] \in Flow
           /\ s \in Active <=> flows[s].kind # "none"
           /\ flows[s].asks \in Changes => s \in Active
           /\ s \in Active => flows[s].asks \in Changes \cup {"list"}
  BY DEF TypeOK, Active, NoFlow, Flow, Changes, RowActions

\* The list is asked for, or a change.
LEMMA ListIsNoChange == "list" \notin Changes
  BY DEF Changes, RowActions

LEMMA TypeInit == Init => TypeInv
  <1> SUFFICES ASSUME Init PROVE TypeInv
    OBVIOUS
  <1>1. [NoFlow EXCEPT !.kind = "load"] \in Flow
    BY DEF NoFlow, Flow
  <1>2. PICK s \in Slots :
            flows = [t \in Slots |-> IF t = s THEN [NoFlow EXCEPT !.kind = "load"] ELSE NoFlow]
    BY DEF Init
  <1>3. flows \in [Slots -> Flow \cup {NoFlow}]
    BY <1>1, <1>2
  <1>4. Wired
    BY <1>2 DEF Wired, NoFlow, RowActions
  <1>5. server \in [Ids -> Rows \cup Absent] /\ version \in 0 .. MaxChanges
    BY ConstantsAssumption DEF Init, Rows, Absent
  <1> QED
    BY <1>3, <1>4, <1>5 DEF Init, TypeOK, TypeInv

LEMMA TypeTake ==
    ASSUME TypeInv, NEW s \in Slots, NEW kind \in {"act", "create", "load"}, NEW row \in Ids \cup {None},
           NEW asks \in Changes \cup {"list"}, Take(s, kind, row, asks),
           kind = "act" => row \in Ids
    PROVE  flows' \in [Slots -> Flow \cup {NoFlow}] /\ Wired'
  <1> DEFINE new == [kind |-> kind, row |-> row, asks |-> asks, state |-> "sent", list |-> Null]
  <1>1. new \in Flow
    BY DEF Flow
  <1>2. flows' = [flows EXCEPT ![s] = new]
    BY DEF Take
  <1>3. flows' \in [Slots -> Flow \cup {NoFlow}]
    BY <1>1, <1>2 DEF TypeInv, TypeOK
  <1>4. \A t \in Slots : flows'[t] = IF t = s THEN new ELSE flows[t]
    BY <1>2 DEF TypeInv, TypeOK
  <1> HIDE DEF new
  <1>5. new.kind = "act" => new.row \in Ids
    BY DEF new
  <1>6. Wired'
    BY <1>4, <1>5 DEF Wired, TypeInv
  <1> QED
    BY <1>3, <1>6

\* A flow that goes on keeps its kind and row; one that ends leaves its slot.
LEMMA TypeGoOn ==
    ASSUME TypeInv, NEW s \in Slots, NEW new \in Flow \cup {NoFlow},
           new = NoFlow \/ (new.kind = flows[s].kind /\ new.row = flows[s].row),
           flows' = [flows EXCEPT ![s] = new]
    PROVE  flows' \in [Slots -> Flow \cup {NoFlow}] /\ Wired'
  <1>1. flows' \in [Slots -> Flow \cup {NoFlow}]
    BY DEF TypeInv, TypeOK
  <1>2. \A t \in Slots : flows'[t] = IF t = s THEN new ELSE flows[t]
    BY DEF TypeInv, TypeOK
  <1>3. new.kind = "act" => new.row \in Ids
    BY DEF TypeInv, Wired, NoFlow
  <1>4. Wired'
    BY <1>2, <1>3 DEF Wired, TypeInv
  <1> QED
    BY <1>1, <1>4

LEMMA TypeServeChange ==
    ASSUME TypeInv, NEW s \in Slots, ServeChange(s)
    PROVE  TypeInv'
  <1> USE DEF TypeInv
  <1>1. flows[s] \in Flow
    BY FreeSlot DEF ServeChange
  <1>2. \A state \in {"ok", "bad", "thrown"} :
            flows' = [flows EXCEPT ![s].state = state] => flows' \in [Slots -> Flow \cup {NoFlow}] /\ Wired'
    <2> SUFFICES ASSUME NEW state \in {"ok", "bad", "thrown"}, flows' = [flows EXCEPT ![s].state = state]
                 PROVE  flows' \in [Slots -> Flow \cup {NoFlow}] /\ Wired'
      OBVIOUS
    <2> DEFINE new == [flows[s] EXCEPT !.state = state]
    <2>1. new \in Flow /\ new.kind = flows[s].kind /\ new.row = flows[s].row /\ new.asks = flows[s].asks
      BY <1>1 DEF Flow
    <2>2. flows' = [flows EXCEPT ![s] = new]
      BY DEF TypeOK
    <2> QED
      BY <2>1, <2>2, TypeGoOn
  <1>3. CASE UNCHANGED <<server, version, unsure>>
    BY <1>2, <1>3 DEF ServeChange, TypeOK, page, Wired
  <1>4. CASE version < MaxChanges /\ version' = version + 1 /\ server' \in After(flows[s].asks, flows[s].row)
    <2>1. server' \in [Ids -> Rows \cup Absent]
      <3>1. flows[s].asks \in Changes
        BY DEF ServeChange
      <3> QED
        BY <1>4, <3>1 DEF After, TypeOK, Rows, Absent, Changes, RowActions
    <2>2. version' \in 0 .. MaxChanges
      BY <1>4, ConstantsAssumption DEF TypeOK
    <2>3. flows' \in [Slots -> Flow \cup {NoFlow}] /\ Wired' /\ unsure' \in BOOLEAN
      BY <1>2 DEF ServeChange, TypeOK
    <2> QED
      BY <2>1, <2>2, <2>3 DEF ServeChange, TypeOK, page
  <1> QED
    BY <1>3, <1>4 DEF ServeChange

LEMMA TypeServeList ==
    ASSUME TypeInv, NEW s \in Slots, ServeList(s)
    PROVE  TypeInv'
  <1> USE DEF TypeInv
  <1>1. flows[s] \in Flow
    BY FreeSlot DEF ServeList, Loading
  <1>2. PICK ending \in {"ok", "bad", "thrown"} : flows' = [flows EXCEPT ![s].state = ending,
               ![s].list = IF ending = "ok" THEN [version |-> version, rows |-> server] ELSE Null]
    BY DEF ServeList
  <1> DEFINE list == IF ending = "ok" THEN [version |-> version, rows |-> server] ELSE Null
             new == [flows[s] EXCEPT !.state = ending, !.list = list]
  <1>3. list \in Lists
    BY DEF TypeOK, Lists
  <1>4. new \in Flow /\ new.kind = flows[s].kind /\ new.row = flows[s].row /\ new.asks = flows[s].asks
    BY <1>1, <1>3 DEF Flow, Lists
  <1>5. flows' = [flows EXCEPT ![s] = new]
    BY <1>2 DEF TypeOK
  <1>6. flows' \in [Slots -> Flow \cup {NoFlow}] /\ Wired'
    BY <1>4, <1>5, TypeGoOn
  <1> QED
    BY <1>6 DEF ServeList, TypeOK, page

LEMMA TypeFinish ==
    ASSUME TypeInv, NEW s \in Slots, Finish(s)
    PROVE  /\ flows' \in [Slots -> Flow \cup {NoFlow}] /\ Wired'
           /\ creating' \in BOOLEAN /\ busyId' \in Ids \cup {None}
  <1>1. flows' \in [Slots -> Flow \cup {NoFlow}] /\ Wired'
    BY TypeGoOn DEF Finish
  <1> QED
    BY <1>1 DEF Finish, TypeInv, TypeOK

LEMMA TypeChangeDone ==
    ASSUME TypeInv, NEW s \in Slots, ChangeDone(s)
    PROVE  TypeInv'
  <1> USE DEF TypeInv
  <1> DEFINE new == [flows[s] EXCEPT !.asks = "list", !.state = "sent"]
  <1>1. flows[s] \in Flow
    BY FreeSlot DEF ChangeDone
  <1>2. new \in Flow /\ new.kind = flows[s].kind /\ new.row = flows[s].row /\ new.asks = "list"
    BY <1>1 DEF Flow
  <1>3. flows' = [flows EXCEPT ![s] = new]
    BY DEF ChangeDone, TypeOK
  <1>4. flows' \in [Slots -> Flow \cup {NoFlow}] /\ Wired'
    BY <1>2, <1>3, TypeGoOn
  <1> QED
    BY <1>4 DEF ChangeDone, LoadBegins, TypeOK

LEMMA TypeLoaded ==
    ASSUME TypeInv, NEW s \in Slots, Loaded(s)
    PROVE  TypeInv'
  <1> USE DEF TypeInv
  <1>1. flows[s] \in Flow
    BY FreeSlot DEF Loaded, Loading
  <1>2. flows[s].list \in Lists
    BY <1>1 DEF Flow, Lists
  <1>3. clusters' \in Lists /\ error' \in BOOLEAN /\ timer' \in BOOLEAN
    BY <1>2 DEF Loaded, TypeOK, Lists, Refreshing
  <1>4. /\ flows' \in [Slots -> Flow \cup {NoFlow}] /\ Wired'
        /\ creating' \in BOOLEAN /\ busyId' \in Ids \cup {None}
    BY TypeFinish DEF Loaded
  <1> QED
    BY <1>3, <1>4 DEF Loaded, TypeOK, Lists

LEMMA TypeStep ==
    ASSUME TypeInv, [Next]_vars
    PROVE  TypeInv'
  <1>1. ASSUME OpenDialog \/ EditDialog \/ UNCHANGED vars
        PROVE  TypeInv'
    BY <1>1 DEF OpenDialog, EditDialog, vars, page, TypeInv, TypeOK, Wired
  <1>2. ASSUME NEW c \in Ids, Operator(c) \/ Elsewhere(c)
        PROVE  TypeInv'
    BY <1>2 DEF Operator, Elsewhere, page, TypeInv, TypeOK, Wired, Rows, Absent
  <1>3. ASSUME NEW s \in Slots, Poll(s)
        PROVE  TypeInv'
    <2>1. flows' \in [Slots -> Flow \cup {NoFlow}] /\ Wired'
      BY <1>3, TypeTake DEF Poll, RowActions
    <2> QED
      BY <1>3, <2>1 DEF Poll, LoadBegins, TypeInv, TypeOK
  <1>4. ASSUME NEW s \in Slots, Create(s)
        PROVE  TypeInv'
    <2>1. flows' \in [Slots -> Flow \cup {NoFlow}] /\ Wired'
      BY <1>4, TypeTake DEF Create, RowActions, Changes
    <2> QED
      BY <1>4, <2>1 DEF Create, TypeInv, TypeOK
  <1>5. ASSUME NEW s \in Slots, NEW c \in Ids, NEW action \in RowActions, Act(s, action, c)
        PROVE  TypeInv'
    <2>1. flows' \in [Slots -> Flow \cup {NoFlow}] /\ Wired'
      BY <1>5, TypeTake DEF Act, RowActions, Changes
    <2> QED
      BY <1>5, <2>1 DEF Act, TypeInv, TypeOK
  <1>6. ASSUME NEW s \in Slots, ChangeRefused(s)
        PROVE  TypeInv'
    BY <1>6, TypeFinish DEF ChangeRefused, TypeInv, TypeOK
  <1> QED
    BY <1>1, <1>2, <1>3, <1>4, <1>5, <1>6, Steps, TypeServeChange, TypeServeList, TypeChangeDone, TypeLoaded

\* All variables of the page, the flows and the API stay well formed.
THEOREM TypeCorrect == Spec => []TypeOK
  <1>1. Spec => []TypeInv
    <2>1. Init => TypeInv
      BY TypeInit
    <2>2. TypeInv /\ [Next]_vars => TypeInv'
      BY TypeStep
    <2> QED
      BY <2>1, <2>2, PTL DEF Spec
  <1>2. TypeInv => TypeOK
    BY DEF TypeInv
  <1> QED
    BY <1>1, <1>2, PTL

-----------------------------------------------------------------------------
(* The flags of rows and dialog.                                           *)

BusyInv ==
    /\ busyId # None => \E s \in Slots : flows[s].kind = "act" /\ flows[s].row = busyId
    /\ creating <=> \E s \in Slots : flows[s].kind = "create"
    /\ \A s, t \in Slots : flows[s].kind = "create" /\ flows[t].kind = "create" => s = t

LEMMA BusyMeans ==
    ASSUME TypeOK, BusyInv
    PROVE  BusyIsWorking
  <1> DEFINE creates == {s \in Active : flows[s].kind = "create"}
  <1>1. busyId # None => \E s \in Active : flows[s].kind = "act" /\ flows[s].row = busyId
    BY FreeSlot DEF BusyInv, RowActions
  <1>2. creates = {s \in Slots : flows[s].kind = "create"}
    BY FreeSlot DEF Active
  <1>3. creating <=> creates # {}
    BY <1>2 DEF BusyInv
  <1>4. Cardinality(creates) <= 1
    <2>1. CASE creates = {}
      BY <2>1, FS_EmptySet
    <2>2. CASE creates # {}
      <3>1. PICK s \in creates : creates = {s}
        BY <1>2, <2>2 DEF BusyInv
      <3> QED
        BY <3>1, FS_Singleton
    <2> QED
      BY <2>1, <2>2
  <1> QED
    BY <1>1, <1>3, <1>4 DEF BusyIsWorking

LEMMA ListServed ==
    ASSUME TypeOK, NEW s \in Slots, ServeList(s)
    PROVE  /\ flows'[s].kind = flows[s].kind /\ flows'[s].row = flows[s].row
           /\ flows'[s].asks = flows[s].asks
           /\ flows'[s].state = "ok" => flows'[s].list.version = version
  <1>1. flows[s] \in Flow
    BY FreeSlot DEF ServeList, Loading
  <1>2. PICK ending : flows' = [flows EXCEPT ![s].state = ending,
               ![s].list = IF ending = "ok" THEN [version |-> version, rows |-> server] ELSE Null]
    BY DEF ServeList
  <1> DEFINE new == [flows[s] EXCEPT !.state = ending,
                        !.list = IF ending = "ok" THEN [version |-> version, rows |-> server] ELSE Null]
  <1>3. flows'[s] = new
    BY <1>2 DEF TypeOK
  <1>4. /\ new.kind = flows[s].kind /\ new.row = flows[s].row /\ new.asks = flows[s].asks
        /\ new.state = ending
        /\ ending = "ok" => new.list.version = version
    BY <1>1 DEF Flow
  <1> QED
    BY <1>3, <1>4

\* Serving a request, or going on after it, leaves the flags and what a flow is for.
LEMMA KindsKept ==
    ASSUME TypeOK, NEW s \in Slots, ServeChange(s) \/ ServeList(s) \/ ChangeDone(s)
    PROVE  /\ \A t \in Slots : flows'[t].kind = flows[t].kind /\ flows'[t].row = flows[t].row
           /\ UNCHANGED <<busyId, creating>>
  <1>1. flows[s] \in Flow
    BY FreeSlot DEF ServeChange, ServeList, ChangeDone, Loading
  <1>2. \A t \in Slots \ {s} : flows'[t] = flows[t]
    BY DEF TypeOK, ServeChange, ServeList, ChangeDone
  <1>3. flows'[s].kind = flows[s].kind /\ flows'[s].row = flows[s].row
    <2>1. CASE ServeChange(s)
      <3>1. PICK state : flows' = [flows EXCEPT ![s].state = state]
        BY <2>1 DEF ServeChange
      <3> QED
        BY <1>1, <3>1 DEF TypeOK, Flow
    <2>2. CASE ServeList(s)
      BY <1>1, <2>2, ListServed
    <2>3. CASE ChangeDone(s)
      BY <1>1, <2>3 DEF TypeOK, Flow, ChangeDone
    <2> QED
      BY <2>1, <2>2, <2>3
  <1> QED
    BY <1>2, <1>3 DEF ServeChange, ServeList, ChangeDone, page

LEMMA BusyTake ==
    ASSUME TypeOK, BusyInv, NEW s \in Slots,
           \/ Poll(s) \/ Create(s)
           \/ \E c \in Ids, action \in RowActions : Act(s, action, c)
    PROVE  BusyInv'
  <1>1. flows[s].kind = "none"
    BY DEF Poll, Create, Act, Take, NoFlow
  <1>2. CASE Poll(s)
    <2>1. /\ flows'[s].kind = "load"
          /\ \A t \in Slots \ {s} : flows'[t] = flows[t]
          /\ UNCHANGED <<busyId, creating>>
      BY <1>2 DEF Poll, Take, TypeOK
    <2> QED
      BY <1>1, <2>1 DEF BusyInv, RowActions
  <1>3. CASE Create(s)
    <2>1. /\ flows'[s].kind = "create"
          /\ \A t \in Slots \ {s} : flows'[t] = flows[t]
          /\ creating' /\ ~creating /\ busyId' = busyId
      BY <1>3 DEF Create, Take, TypeOK
    <2> QED
      BY <1>1, <2>1 DEF BusyInv, RowActions
  <1>4. ASSUME NEW c \in Ids, NEW action \in RowActions, Act(s, action, c)
        PROVE  BusyInv'
    <2>1. /\ flows'[s].kind = "act" /\ flows'[s].row = c
          /\ \A t \in Slots \ {s} : flows'[t] = flows[t]
          /\ creating' = creating /\ busyId' = c
      BY <1>4 DEF Act, Take, TypeOK
    <2> QED
      BY <1>1, <2>1 DEF BusyInv, RowActions
  <1> QED
    BY <1>2, <1>3, <1>4

LEMMA BusyFinish ==
    ASSUME TypeOK, BusyInv, NEW s \in Slots, Finish(s)
    PROVE  BusyInv'
  <1>1. /\ flows'[s].kind = "none"
        /\ \A t \in Slots \ {s} : flows'[t] = flows[t]
    BY DEF Finish, TypeOK, NoFlow
  <1>2. CASE flows[s].kind = "act"
    BY <1>1, <1>2 DEF Finish, BusyInv, RowActions
  <1>3. CASE flows[s].kind # "act"
    BY <1>1, <1>3 DEF Finish, BusyInv, RowActions
  <1> QED
    BY <1>2, <1>3

\* Nothing is marked busy that has nobody at work on it.
THEOREM FlagsAreWork == Spec => []BusyIsWorking
  <1>1. Init => BusyInv
    BY DEF Init, BusyInv, NoFlow, RowActions
  <1>2. TypeInv /\ BusyInv /\ [Next]_vars => BusyInv'
    <2> SUFFICES ASSUME TypeInv, BusyInv, [Next]_vars
                 PROVE  BusyInv'
      OBVIOUS
    <2>1. TypeOK
      BY DEF TypeInv
    <2>2. CASE OpenDialog \/ EditDialog \/ UNCHANGED vars
      BY <2>2 DEF OpenDialog, EditDialog, vars, page, BusyInv
    <2>3. CASE \E c \in Ids : Operator(c) \/ Elsewhere(c)
      BY <2>3 DEF Operator, Elsewhere, page, BusyInv
    <2>4. ASSUME NEW s \in Slots, ServeChange(s) \/ ServeList(s) \/ ChangeDone(s)
          PROVE  BusyInv'
      BY <2>1, <2>4, KindsKept DEF BusyInv
    <2>5. ASSUME NEW s \in Slots, ChangeRefused(s) \/ Loaded(s)
          PROVE  BusyInv'
      BY <2>1, <2>5, BusyFinish DEF ChangeRefused, Loaded
    <2> QED
      BY <2>1, <2>2, <2>3, <2>4, <2>5, BusyTake, Steps
  <1>3. Spec => []TypeInv
    BY TypeInit, TypeStep, PTL DEF Spec
  <1>4. TypeInv /\ BusyInv => BusyIsWorking
    BY BusyMeans DEF TypeInv
  <1> QED
    BY <1>1, <1>2, <1>3, <1>4, PTL DEF Spec

-----------------------------------------------------------------------------
(* Polling.                                                                *)

\* A flow that is loading stays, unless it is the one whose answer is shown.
LEMMA LoadingKept ==
    ASSUME TypeOK, NEW s \in Slots, NEW r \in Loading,
           \/ Create(s) \/ ServeChange(s) \/ ServeList(s) \/ ChangeDone(s) \/ ChangeRefused(s)
           \/ \E c \in Ids, action \in RowActions : Act(s, action, c)
    PROVE  r \in Loading'
  <1>1. r \in Slots /\ flows[r] # NoFlow /\ flows[r] \in Flow /\ flows[r].asks = "list"
    BY FreeSlot DEF Loading, Active
  <1>2. CASE r # s
    <2>1. flows'[r] = flows[r]
      BY <1>1, <1>2 DEF TypeOK, Create, ServeChange, ServeList, ChangeDone, ChangeRefused, Act, Take, Finish
    <2> QED
      BY <1>1, <2>1 DEF Loading, Active
  <1>3. CASE r = s
    <2>1. ServeList(s)
      BY <1>1, <1>3, ListIsNoChange DEF Create, ServeChange, ChangeDone, ChangeRefused, Act, Take
    <2>2. flows'[r].asks = "list" /\ flows'[r].kind = flows[r].kind
      BY <1>1, <1>3, <2>1, ListServed
    <2> QED
      BY <1>1, <2>2 DEF Loading, Active, NoFlow, Flow, Changes, RowActions
  <1> QED
    BY <1>2, <1>3

LEMMA RefreshStep ==
    ASSUME TypeOK, KeepsRefreshing, [Next]_vars
    PROVE  KeepsRefreshing'
  <1> USE DEF KeepsRefreshing
  <1>1. CASE OpenDialog \/ EditDialog \/ UNCHANGED vars
    BY <1>1 DEF OpenDialog, EditDialog, vars, page, Loading, Active, Refreshing, Shown
  <1>2. CASE \E c \in Ids : Operator(c) \/ Elsewhere(c)
    BY <1>2 DEF Operator, Elsewhere, page, Loading, Active, Refreshing, Shown
  <1>3. ASSUME NEW s \in Slots, Poll(s)
        PROVE  KeepsRefreshing'
    <2>1. flows'[s].asks = "list" /\ flows'[s].kind = "load"
      BY <1>3 DEF Poll, Take, TypeOK
    <2> QED
      BY <2>1 DEF Loading, Active, NoFlow
  <1>4. ASSUME NEW s \in Slots,
               \/ Create(s) \/ ServeChange(s) \/ ServeList(s) \/ ChangeDone(s) \/ ChangeRefused(s)
               \/ \E c \in Ids, action \in RowActions : Act(s, action, c)
        PROVE  KeepsRefreshing'
    <2>1. UNCHANGED <<clusters, timer>> /\ (error => error')
      BY <1>4 DEF Create, ServeChange, ServeList, ChangeDone, ChangeRefused, Act, page
    <2>2. Loading # {} => Loading' # {}
      BY <1>4, LoadingKept
    <2> QED
      BY <2>1, <2>2 DEF Refreshing, Shown
  <1>5. ASSUME NEW s \in Slots, Loaded(s)
        PROVE  KeepsRefreshing'
    BY <1>5 DEF Loaded, Refreshing, Shown
  <1> QED
    BY <1>1, <1>2, <1>3, <1>4, <1>5, Steps

\* A status that has not settled is refreshed until an error is shown.
THEOREM RefreshesUntilSettled == Spec => []KeepsRefreshing
  <1>1. Init => KeepsRefreshing
    BY DEF Init, KeepsRefreshing, Refreshing, Shown
  <1> QED
    BY <1>1, RefreshStep, TypeCorrect, PTL DEF Spec

-----------------------------------------------------------------------------
(* The list and the changes of this page.  Unless the page cannot be sure, *)
(* one load at most is under way, and when no change is waiting for its    *)
(* load what that load has read, or else the list shown, is up to date.    *)

Pending(s) == flows[s].asks \in Changes /\ flows[s].state = "ok"

OwnInv ==
    ~unsure =>
        /\ \A s, t \in Loading : s = t
        /\ (\A s \in Slots : ~Pending(s)) =>
               /\ \A s \in Loading : flows[s].state = "ok" => flows[s].list.version = version
               /\ Loading = {} /\ ~error => clusters.version = version

LEMMA OwnMeans ==
    ASSUME TypeOK, OwnInv
    PROVE  OwnChangesShown
  <1> SUFFICES ASSUME Active = {}, ~error, ~unsure
               PROVE  clusters.version = version
    BY DEF OwnChangesShown
  <1>1. Loading = {}
    BY DEF Loading
  <1>2. \A s \in Slots : ~Pending(s)
    BY FreeSlot DEF Pending
  <1> QED
    BY <1>1, <1>2 DEF OwnInv

\* A load that begins when no other is under way reads all that was changed.
LEMMA OwnLoadBegins ==
    ASSUME TypeOK, OwnInv, NEW s \in Slots, Poll(s) \/ ChangeDone(s)
    PROVE  OwnInv'
  <1>1. /\ \A t \in Slots \ {s} : flows'[t] = flows[t]
        /\ flows'[s].asks = "list" /\ flows'[s].state = "sent" /\ flows'[s].kind # "none"
        /\ unsure' = (Loading \ {s} # {})
    <2>1. CASE Poll(s)
      BY <2>1 DEF Poll, Take, LoadBegins, TypeOK
    <2>2. CASE ChangeDone(s)
      <3>1. flows[s] \in Flow
        BY <2>2, FreeSlot DEF ChangeDone
      <3> QED
        BY <2>2, <3>1 DEF ChangeDone, LoadBegins, TypeOK, Flow, Changes, RowActions
    <2> QED
      BY <2>1, <2>2
  <1>2. s \in Loading' /\ Loading' \subseteq Loading \cup {s}
    BY <1>1 DEF Loading, Active, NoFlow
  <1> QED
    BY <1>1, <1>2 DEF OwnInv

LEMMA OwnChangeBegins ==
    ASSUME TypeOK, OwnInv, NEW s \in Slots,
           Create(s) \/ \E c \in Ids, action \in RowActions : Act(s, action, c)
    PROVE  OwnInv'
  <1>1. /\ \A t \in Slots \ {s} : flows'[t] = flows[t]
        /\ flows'[s].asks \in Changes /\ flows'[s].state = "sent"
        /\ flows[s].state = "sent" /\ flows[s] = NoFlow
        /\ UNCHANGED <<unsure, clusters, version, error>>
    BY DEF Create, Act, Take, NoFlow, TypeOK, Changes
  <1>2. Loading' = Loading
    BY <1>1, ListIsNoChange DEF Loading, Active
  <1>3. \A t \in Slots : Pending(t)' <=> Pending(t)
    BY <1>1, ListIsNoChange DEF Pending, NoFlow
  <1>4. \A t \in Loading : flows'[t] = flows[t]
    BY <1>1 DEF Loading, Active
  <1> QED
    BY <1>1, <1>2, <1>3, <1>4 DEF OwnInv

LEMMA OwnServeChange ==
    ASSUME TypeOK, OwnInv, NEW s \in Slots, ServeChange(s)
    PROVE  OwnInv'
  <1>1. s \in Active /\ flows[s] \in Flow /\ flows[s].asks \in Changes /\ flows[s].state = "sent"
    BY FreeSlot DEF ServeChange
  <1>2. PICK state : flows' = [flows EXCEPT ![s].state = state]
    BY DEF ServeChange
  <1>3. /\ \A t \in Slots \ {s} : flows'[t] = flows[t]
        /\ flows'[s].asks \in Changes /\ flows'[s].state = state
    BY <1>1, <1>2 DEF TypeOK, Flow
  <1>4. Loading' = Loading /\ s \notin Loading
    BY <1>1, <1>3, ListIsNoChange DEF Loading, Active, NoFlow
  <1>5. \A t \in Loading : flows'[t] = flows[t]
    BY <1>3, <1>4 DEF Loading, Active
  <1>6. \/ unsure'
        \/ flows'[s].state = "ok" /\ (~unsure' => ~unsure)
        \/ flows'[s].state \in {"bad", "thrown"} /\ UNCHANGED <<version, unsure>>
    <2>1. ASSUME NEW ending \in {"bad", "thrown"}, flows' = [flows EXCEPT ![s].state = ending]
          PROVE  flows'[s].state \in {"bad", "thrown"}
      BY <1>1, <2>1 DEF TypeOK, Flow
    <2>2. ASSUME NEW ending \in {"ok", "failed", "lost"},
                 flows' = [flows EXCEPT ![s].state =
                        CASE ending = "ok" -> "ok" [] ending = "failed" -> "bad"
                          [] ending = "lost" -> "thrown"],
                 unsure' = (unsure \/ ending # "ok")
          PROVE  unsure' \/ (flows'[s].state = "ok" /\ (~unsure' => ~unsure))
      BY <1>1, <2>2 DEF TypeOK, Flow
    <2> QED
      BY <1>3, <2>1, <2>2 DEF ServeChange
  <1> QED
    BY <1>1, <1>3, <1>4, <1>5, <1>6 DEF OwnInv, Pending, ServeChange, page

LEMMA OwnServeList ==
    ASSUME TypeOK, OwnInv, NEW s \in Slots, ServeList(s)
    PROVE  OwnInv'
  <1>1. s \in Loading /\ flows[s].asks = "list" /\ flows[s].kind # "none"
    BY FreeSlot DEF ServeList, Loading
  <1>2. \A t \in Slots \ {s} : flows'[t] = flows[t]
    BY DEF ServeList, TypeOK
  <1>3. flows'[s].asks = "list" /\ flows'[s].kind # "none"
    BY <1>1, ListServed
  <1>4. Loading' = Loading
    BY <1>1, <1>2, <1>3 DEF Loading, Active, NoFlow
  <1>5. \A t \in Slots : Pending(t)' <=> Pending(t)
    BY <1>1, <1>2, <1>3, ListIsNoChange DEF Pending
  <1>6. UNCHANGED <<version, clusters, error, unsure>>
    BY DEF ServeList, page
  <1> QED
    BY <1>1, <1>2, <1>4, <1>5, <1>6, ListServed DEF OwnInv

LEMMA OwnChangeRefused ==
    ASSUME TypeOK, OwnInv, NEW s \in Slots, ChangeRefused(s)
    PROVE  OwnInv'
  <1>1. /\ \A t \in Slots \ {s} : flows'[t] = flows[t]
        /\ flows'[s] = NoFlow
        /\ flows[s].asks \in Changes /\ flows[s].state # "ok"
        /\ UNCHANGED <<version, clusters, unsure>> /\ (error => error')
    BY DEF ChangeRefused, Finish, TypeOK
  <1>2. Loading' = Loading /\ s \notin Loading
    BY <1>1, ListIsNoChange DEF Loading, Active
  <1>3. \A t \in Slots : Pending(t)' <=> Pending(t)
    BY <1>1, ListIsNoChange DEF Pending, NoFlow
  <1>4. \A t \in Loading : flows'[t] = flows[t]
    BY <1>1, <1>2 DEF Loading, Active
  <1> QED
    BY <1>1, <1>2, <1>3, <1>4 DEF OwnInv

LEMMA OwnLoaded ==
    ASSUME TypeOK, OwnInv, NEW s \in Slots, Loaded(s)
    PROVE  OwnInv'
  <1>1. /\ \A t \in Slots \ {s} : flows'[t] = flows[t]
        /\ flows'[s] = NoFlow
        /\ s \in Loading /\ flows[s].asks = "list"
        /\ UNCHANGED <<version, unsure>>
    BY DEF Loaded, Finish, TypeOK, Loading
  <1>2. Loading' = Loading \ {s}
    BY <1>1 DEF Loading, Active
  <1>3. \A t \in Slots : Pending(t)' <=> Pending(t)
    BY <1>1, ListIsNoChange DEF Pending, NoFlow
  <1>4. \/ flows[s].state = "ok" /\ clusters' = flows[s].list
        \/ error'
    BY DEF Loaded
  <1> QED
    BY <1>1, <1>2, <1>3, <1>4 DEF OwnInv

\* The list at rest has every change of this page that was not lost.
THEOREM OwnChangesAreShown == Spec => []OwnChangesShown
  <1>1. Init => OwnInv
    BY DEF Init, OwnInv, Loading, Active, NoFlow
  <1>2. TypeOK /\ OwnInv /\ [Next]_vars => OwnInv'
    <2> SUFFICES ASSUME TypeOK, OwnInv, [Next]_vars
                 PROVE  OwnInv'
      OBVIOUS
    <2>1. CASE OpenDialog \/ EditDialog \/ UNCHANGED vars
      BY <2>1 DEF OpenDialog, EditDialog, vars, page, OwnInv, Loading, Active, Pending
    <2>2. CASE \E c \in Ids : Operator(c) \/ Elsewhere(c)
      BY <2>2 DEF Operator, Elsewhere, page, OwnInv, Loading, Active, Pending
    <2> QED
      BY <2>1, <2>2, OwnLoadBegins, OwnChangeBegins, OwnServeChange, OwnServeList,
         OwnChangeRefused, OwnLoaded, Steps
  <1>3. TypeOK /\ OwnInv => OwnChangesShown
    BY OwnMeans
  <1> QED
    BY <1>1, <1>2, <1>3, TypeCorrect, PTL DEF Spec

\* Drafts end with the dialog, by its user or by the create that was sent.
THEOREM DraftsAreKept == Spec => DraftKept
  <1>1. TypeOK /\ [Next]_vars =>
            [dialog = "named" /\ dialog' # "named" =>
                \/ flows' = flows
                \/ \E s \in Active : flows[s].kind = "create" /\ flows[s].state = "ok"]_vars
    <2> SUFFICES ASSUME TypeOK, [Next]_vars, dialog = "named", dialog' # "named", flows' # flows
                 PROVE  \E s \in Active : flows[s].kind = "create" /\ flows[s].state = "ok"
      OBVIOUS
    <2>1. PICK s \in Slots : ChangeDone(s)
      BY Steps DEF OpenDialog, EditDialog, Operator, Elsewhere, Poll, Create,
                   ServeChange, ServeList, ChangeRefused, Loaded, Act, vars, page
    <2> QED
      BY <2>1, FreeSlot DEF ChangeDone
  <1> QED
    BY <1>1, TypeCorrect, PTL DEF Spec, DraftKept
=============================================================================
