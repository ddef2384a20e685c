----------------------- MODULE ClusterLifecycleProofs -----------------------
(* Theorems about ClusterLifecycle, for every value of its constants: its  *)
(* types, and the safety invariants of its handlers and the reconciler.    *)
EXTENDS ClusterLifecycle, TLAPS

-----------------------------------------------------------------------------
(* Type correctness.                                                       *)

\* The part of TypeOK that is about the request slots, for one slot.
SlotOK(q) == q \in Request /\ (q = IdleRequest \/ Serving(q))

LEMMA SlotsType ==
    ASSUME TypeOK, NEW r \in Requests, NEW q, SlotOK(q), req' = [req EXCEPT ![r] = q]
    PROVE  /\ req' \in [Requests -> Request]
           /\ \A s \in Requests : req'[s] = IdleRequest \/ Serving(req'[s])
  BY DEF TypeOK, SlotOK

LEMMA IdleSlot == SlotOK(IdleRequest)
  BY DEF SlotOK, IdleRequest, Request, Calls, Pins

LEMMA BusySlot ==
    ASSUME TypeOK, NEW r \in Requests, req[r].call # "idle"
    PROVE  Serving(req[r]) /\ req[r].id \in Ids /\ req[r] \in Request
  BY DEF TypeOK, IdleRequest, Serving

\* The script of each handler, read off After.
LEMMA Scripts ==
    /\ \A op \in {"create", "clone"} : After(op, "k8sCreate") = "insert"
    /\ \A op \in {"start", "restart"} : /\ After(op, "k8sCreate") = "setRunning"
                                       /\ After(op, "setRunning") = "touch"
                                       /\ After(op, "touch") = "respond"
    /\ After("stop", "k8sDelete") = "setStopped"
    /\ After("stop", "setStopped") = "respond"
    /\ After("restart", "k8sDelete") = "k8sCreate"
    /\ After("delete", "k8sDelete") = "deleteRow"
    /\ After("patch", "updateConfig") = "respond"
  BY DEF After

\* The call that follows is one of the same handler.
LEMMA AfterServing ==
    ASSUME NEW q \in Request, Serving(q),
           \/ q.call \in {"k8sCreate", "k8sDelete", "setRunning", "setStopped",
                          "updateConfig"}
           \/ q.call = "touch" /\ q.op # "run"
    PROVE  SlotOK([q EXCEPT !.call = After(q.op, q.call)])
  BY Scripts DEF Serving, SlotOK, Request, Calls

LEMMA ReleaseType ==
    ASSUME TypeOK, NEW c \in Ids, NEW others \in BOOLEAN, NEW bad \in BOOLEAN,
           Release(c, others, bad)
    PROVE  settled' \subseteq Ids /\ spoiled' \subseteq Ids
  BY DEF TypeOK, Release, Continue

\* Going on and returning leave well-formed slots and sets of ids.
SlotsAndHistoryOK ==
    /\ req' \in [Requests -> Request]
    /\ \A s \in Requests : req'[s] = IdleRequest \/ Serving(req'[s])
    /\ settled' \subseteq Ids /\ spoiled' \subseteq Ids

LEMMA AdvanceType ==
    ASSUME TypeOK, NEW r \in Requests, NEW bad \in BOOLEAN, Advance(r, bad),
           \/ req[r].call \in {"k8sCreate", "k8sDelete", "setRunning", "setStopped",
                               "updateConfig"}
           \/ req[r].call = "touch" /\ req[r].op # "run"
    PROVE  SlotsAndHistoryOK
  <1>1. Serving(req[r]) /\ req[r].id \in Ids /\ req[r] \in Request
    BY BusySlot
  <1>2. SlotOK([req[r] EXCEPT !.call = After(req[r].op, req[r].call)])
    BY <1>1, AfterServing
  <1>3. req' = [req EXCEPT ![r] = [req[r] EXCEPT !.call = After(req[r].op, req[r].call)]]
    BY DEF Advance
  <1>4. /\ req' \in [Requests -> Request]
        /\ \A s \in Requests : req'[s] = IdleRequest \/ Serving(req'[s])
    BY <1>2, <1>3, SlotsType
  <1>5. settled' \subseteq Ids /\ spoiled' \subseteq Ids
    BY <1>1 DEF TypeOK, Advance, Continue
  <1>6. QED
    BY <1>4, <1>5 DEF SlotsAndHistoryOK

LEMMA FinishType ==
    ASSUME TypeOK, NEW r \in Requests, NEW bad \in BOOLEAN, Finish(r, bad),
           req[r].call # "idle"
    PROVE  SlotsAndHistoryOK
  <1>1. req[r].id \in Ids
    BY BusySlot
  <1>2. req' = [req EXCEPT ![r] = IdleRequest]
    BY DEF Finish
  <1>3. /\ req' \in [Requests -> Request]
        /\ \A s \in Requests : req'[s] = IdleRequest \/ Serving(req'[s])
    BY <1>2, IdleSlot, SlotsType
  <1>4. settled' \subseteq Ids /\ spoiled' \subseteq Ids
    BY <1>1, ReleaseType DEF TypeOK, Finish
  <1>5. QED
    BY <1>3, <1>4 DEF SlotsAndHistoryOK

LEMMA AcceptType ==
    ASSUME TypeOK, NEW r \in Requests, NEW op, NEW c, NEW f, NEW pin, NEW call,
           Accept(r, op, c, f, pin, call),
           SlotOK([op |-> op, call |-> call, id |-> c, config |-> f, pin |-> pin])
    PROVE  /\ req' \in [Requests -> Request]
           /\ \A s \in Requests : req'[s] = IdleRequest \/ Serving(req'[s])
           /\ stale' \subseteq Ids \cup Requests
           /\ UNCHANGED <<rows, crs, rec, disturbed>>
  BY SlotsType DEF Accept, TypeOK

LEMMA EngageType ==
    ASSUME TypeOK, NEW c \in Ids, Engage(c)
    PROVE  settled' \subseteq Ids /\ spoiled' \subseteq Ids
  BY DEF TypeOK, Engage

LEMMA UpdateRowType ==
    ASSUME TypeOK, NEW c \in Ids, NEW newRow, NEW o, UpdateRow(c, newRow, o),
           rows[c] # None => newRow \in Row \cup {None}
    PROVE  rows' \in [Ids -> Row \cup {None}] /\ disturbed' \subseteq Ids
  BY DEF TypeOK, UpdateRow, Disturb

LEMMA NextDueType ==
    ASSUME TypeOK, NEW c \in Ids, NextDue(c)
    PROVE  /\ rec' \in Reconciler
           /\ rec'.id = None /\ rec'.call = "get"
           /\ disturbed' \subseteq Ids
  BY DEF TypeOK, NextDue, Reconciler

LEMMA TypeInit == Init => TypeOK
  BY IdleSlot, NoneAssumption DEF Init, TypeOK, SlotOK, IdleReconciler, Reconciler

\* Every action that a request takes keeps the types.
LEMMA BeginType ==
    ASSUME TypeOK, NEW r \in Requests, Begin(r)
    PROVE  TypeOK'
  <1>1. CASE BeginCreate(r)
    <2>1. PICK c \in Ids, f \in Configs :
              Issue(c) /\ Accept(r, "create", c, f, "keep", "k8sCreate") /\ Engage(c)
      BY <1>1 DEF BeginCreate
    <2>2. SlotOK([op |-> "create", call |-> "k8sCreate", id |-> c,
                  config |-> f, pin |-> "keep"])
      BY DEF SlotOK, Serving, Request, Calls, Pins, AllOperations
    <2>3. QED
      BY <2>1, <2>2, AcceptType, EngageType DEF TypeOK, Issue
  <1>2. CASE BeginClone(r)
    <2>1. PICK source \in Ids, c \in Ids :
              /\ rows[source] # None
              /\ Issue(c)
              /\ Accept(r, "clone", c, rows[source].config, "keep", "k8sCreate")
              /\ Engage(c)
      BY <1>2 DEF BeginClone
    <2>2. rows[source].config \in Configs
      BY <2>1 DEF TypeOK, Row
    <2>3. SlotOK([op |-> "clone", call |-> "k8sCreate", id |-> c,
                  config |-> rows[source].config, pin |-> "keep"])
      BY <2>2 DEF SlotOK, Serving, Request, Calls, Pins, AllOperations
    <2>4. QED
      BY <2>1, <2>3, AcceptType, EngageType DEF TypeOK, Issue
  <1>3. CASE BeginChange(r)
    <2>1. PICK op \in {"start", "stop", "restart", "delete"}, c \in Ids :
              /\ rows[c] # None
              /\ Accept(r, op, c,
                        IF op \in {"start", "restart"} THEN rows[c].config ELSE None,
                        "keep", FirstCall(op))
              /\ Engage(c)
              /\ UNCHANGED issued
      BY <1>3 DEF BeginChange
    <2>2. rows[c].config \in Configs
      BY <2>1 DEF TypeOK, Row
    <2>3. /\ op = "start" => FirstCall(op) = "k8sCreate"
          /\ op # "start" => FirstCall(op) = "k8sDelete"
      BY DEF FirstCall
    <2>4. SlotOK([op |-> op, call |-> FirstCall(op), id |-> c,
                  config |-> IF op \in {"start", "restart"} THEN rows[c].config ELSE None,
                  pin |-> "keep"])
      BY <2>2, <2>3 DEF SlotOK, Serving, Request, Calls, Pins, AllOperations
    <2>5. QED
      BY <2>1, <2>4, AcceptType, EngageType DEF TypeOK
  <1>4. CASE BeginPatch(r)
    <2>1. PICK c \in Ids, pin \in Pins, f \in Configs \cup {None} :
              /\ rows[c] # None
              /\ Accept(r, "patch", c, f, pin,
                        CASE pin # "keep" -> "setPinned"
                          [] pin = "keep" /\ f # None -> "updateConfig"
                          [] OTHER -> "respond")
              /\ UNCHANGED <<issued, settled, spoiled>>
      BY <1>4 DEF BeginPatch
    <2> DEFINE call == CASE pin # "keep" -> "setPinned"
                         [] pin = "keep" /\ f # None -> "updateConfig"
                         [] OTHER -> "respond"
    <2>2. \/ call \in {"setPinned", "respond"}
          \/ call = "updateConfig" /\ f # None
      OBVIOUS
    <2> HIDE DEF call
    <2>3. SlotOK([op |-> "patch", call |-> call, id |-> c, config |-> f, pin |-> pin])
      BY <2>2 DEF SlotOK, Serving, Request, Calls, AllOperations
    <2>4. Accept(r, "patch", c, f, pin, call)
      BY <2>1 DEF call
    <2>5. QED
      BY <2>1, <2>3, <2>4, AcceptType DEF TypeOK
  <1>5. CASE BeginRun(r)
    <2>1. PICK c \in Ids : /\ rows[c] # None
                           /\ Accept(r, "run", c, None, "keep", "execute")
                           /\ UNCHANGED <<issued, settled, spoiled>>
      BY <1>5 DEF BeginRun
    <2>2. SlotOK([op |-> "run", call |-> "execute", id |-> c,
                  config |-> None, pin |-> "keep"])
      BY DEF SlotOK, Serving, Request, Calls, Pins, AllOperations
    <2>3. QED
      BY <2>1, <2>2, AcceptType DEF TypeOK
  <1>6. QED
    BY <1>1, <1>2, <1>3, <1>4, <1>5 DEF Begin

LEMMA ServeType ==
    ASSUME TypeOK, NEW r \in Requests, Serve(r)
    PROVE  TypeOK'
  <1> DEFINE c == req[r].id
  <1>0. \A o : (o # "ok") \in BOOLEAN
    OBVIOUS
  <1>1. CASE ProvisionCR(r)
    <2>1. Serving(req[r]) /\ c \in Ids /\ req[r].config \in Configs
      BY <1>1, BusySlot DEF ProvisionCR, Serving
    <2>2. SlotsAndHistoryOK
      BY <1>1, AdvanceType, FinishType DEF ProvisionCR
    <2>3. crs' \in [Ids -> Configs \cup {None}] /\ stale' \subseteq Ids \cup Requests
      BY <1>1, <2>1 DEF ProvisionCR, TypeOK
    <2>4. QED
      BY <1>1, <2>2, <2>3 DEF ProvisionCR, TypeOK, SlotsAndHistoryOK
  <1>2. CASE TeardownCR(r)
    <2>1. SlotsAndHistoryOK
      BY <1>2, AdvanceType, FinishType DEF TeardownCR
    <2>2. crs' \in [Ids -> Configs \cup {None}]
      BY <1>2 DEF TeardownCR, TypeOK
    <2>3. QED
      BY <1>2, <2>1, <2>2 DEF TeardownCR, TypeOK, SlotsAndHistoryOK
  <1>3. CASE InsertRow(r)
    <2>1. Serving(req[r]) /\ c \in Ids /\ req[r].config \in Configs
      BY <1>3, BusySlot DEF InsertRow, Serving
    <2>2. SlotsAndHistoryOK
      BY <1>0, <1>3, FinishType DEF InsertRow
    <2>3. [config |-> req[r].config, pinned |-> FALSE,
           desired |-> "Running", age |-> 0] \in Row
      BY <2>1, ConstantsAssumption DEF Row
    <2>4. rows' \in [Ids -> Row \cup {None}]
      BY <1>3, <2>3 DEF InsertRow, TypeOK
    <2>5. QED
      BY <1>3, <2>2, <2>4 DEF InsertRow, TypeOK, SlotsAndHistoryOK
  <1>4. CASE SetDesired(r)
    <2>1. c \in Ids
      BY <1>4, BusySlot DEF SetDesired
    <2>2. SlotsAndHistoryOK
      BY <1>0, <1>4, AdvanceType DEF SetDesired
    <2>3. rows[c] # None =>
            [rows[c] EXCEPT !.desired = IF req[r].call = "setRunning"
                                        THEN "Running" ELSE "Stopped"] \in Row
      BY <2>1 DEF TypeOK, Row
    <2>4. rows' \in [Ids -> Row \cup {None}] /\ disturbed' \subseteq Ids
      BY <1>4, <2>1, <2>3, UpdateRowType DEF SetDesired
    <2>5. QED
      BY <1>4, <2>2, <2>4 DEF SetDesired, TypeOK, SlotsAndHistoryOK
  <1>5. CASE Touch(r)
    <2>1. c \in Ids
      BY <1>5, BusySlot DEF Touch
    <2>2. SlotsAndHistoryOK
      BY <1>5, AdvanceType, FinishType DEF Touch
    <2>3. rows[c] # None => [rows[c] EXCEPT !.age = 0] \in Row
      BY <2>1, ConstantsAssumption DEF TypeOK, Row
    <2>4. rows' \in [Ids -> Row \cup {None}] /\ disturbed' \subseteq Ids
      BY <1>5, <2>1, <2>3, UpdateRowType DEF Touch
    <2>5. QED
      BY <1>5, <2>2, <2>4 DEF Touch, TypeOK, SlotsAndHistoryOK
  <1>6. CASE SetPinned(r)
    <2>1. Serving(req[r]) /\ c \in Ids /\ req[r] \in Request
      BY <1>6, BusySlot DEF SetPinned
    <2>2. ASSUME req' = [req EXCEPT ![r].call =
                       IF req[r].config = None THEN "respond" ELSE "updateConfig"],
                 UNCHANGED <<settled, spoiled>>
          PROVE  SlotsAndHistoryOK
      <3> DEFINE q == [req[r] EXCEPT !.call =
                       IF req[r].config = None THEN "respond" ELSE "updateConfig"]
      <3>1. SlotOK(q)
        BY <1>6, <2>1 DEF SetPinned, SlotOK, Serving, Request, Calls
      <3>2. req' = [req EXCEPT ![r] = q]
        BY <2>2
      <3>3. /\ req' \in [Requests -> Request]
            /\ \A s \in Requests : req'[s] = IdleRequest \/ Serving(req'[s])
        BY <3>1, <3>2, SlotsType
      <3>4. QED
        BY <2>2, <3>3 DEF TypeOK, SlotsAndHistoryOK
    <2>3. SlotsAndHistoryOK
      BY <1>6, <2>2, FinishType DEF SetPinned
    <2>4. rows[c] # None => [rows[c] EXCEPT !.pinned = (req[r].pin = "pin")] \in Row
      BY <2>1 DEF TypeOK, Row
    <2>5. rows' \in [Ids -> Row \cup {None}] /\ disturbed' \subseteq Ids
      BY <1>6, <2>1, <2>4, UpdateRowType DEF SetPinned
    <2>6. QED
      BY <1>6, <2>3, <2>5 DEF SetPinned, TypeOK, SlotsAndHistoryOK
  <1>7. CASE UpdateConfig(r)
    <2>1. Serving(req[r]) /\ c \in Ids /\ req[r].config \in Configs
      BY <1>7, BusySlot DEF UpdateConfig, Serving
    <2>2. SlotsAndHistoryOK
      BY <1>7, AdvanceType, FinishType DEF UpdateConfig
    <2>3. rows[c] # None => [rows[c] EXCEPT !.config = req[r].config] \in Row
      BY <2>1 DEF TypeOK, Row
    <2>4. rows' \in [Ids -> Row \cup {None}] /\ disturbed' \subseteq Ids
      BY <1>7, <2>1, <2>3, UpdateRowType DEF UpdateConfig
    <2>5. stale' \subseteq Ids \cup Requests
      BY <1>7, <2>1 DEF UpdateConfig, TypeOK
    <2>6. QED
      BY <1>7, <2>2, <2>4, <2>5 DEF UpdateConfig, TypeOK, SlotsAndHistoryOK
  <1>8. CASE DeleteRow(r)
    <2>1. c \in Ids
      BY <1>8, BusySlot DEF DeleteRow
    <2>2. SlotsAndHistoryOK
      BY <1>0, <1>8, FinishType DEF DeleteRow
    <2>3. rows' \in [Ids -> Row \cup {None}] /\ disturbed' \subseteq Ids
      BY <1>8, <2>1, UpdateRowType DEF DeleteRow
    <2>4. QED
      BY <1>8, <2>2, <2>3 DEF DeleteRow, TypeOK, SlotsAndHistoryOK
  <1>9. CASE Execute(r)
    <2>1. Serving(req[r]) /\ c \in Ids /\ req[r] \in Request
      BY <1>9, BusySlot DEF Execute
    <2>2. SlotOK([req[r] EXCEPT !.call = "touch"])
      BY <1>9, <2>1 DEF Execute, SlotOK, Serving, Request, Calls
    <2>3. ASSUME req' = [req EXCEPT ![r].call = "touch"], UNCHANGED <<settled, spoiled>>
          PROVE  SlotsAndHistoryOK
      <3>1. /\ req' \in [Requests -> Request]
            /\ \A s \in Requests : req'[s] = IdleRequest \/ Serving(req'[s])
        BY <2>2, <2>3, SlotsType
      <3>2. QED
        BY <2>3, <3>1 DEF TypeOK, SlotsAndHistoryOK
    <2>4. SlotsAndHistoryOK
      BY <1>9, <2>3, FinishType DEF Execute
    <2>5. QED
      BY <1>9, <2>4 DEF Execute, TypeOK, SlotsAndHistoryOK
  <1>10. CASE Respond(r)
    <2>1. SlotsAndHistoryOK
      BY <1>10, FinishType DEF Respond
    <2>2. QED
      BY <1>10, <2>1 DEF Respond, TypeOK, SlotsAndHistoryOK
  <1>11. QED
    BY <1>1, <1>2, <1>3, <1>4, <1>5, <1>6, <1>7, <1>8, <1>9, <1>10 DEF Serve

LEMMA ReconcileType ==
    ASSUME TypeOK, Reconcile
    PROVE  TypeOK'
  <1> DEFINE c == rec.id
  <1>1. CASE ReconcilerLists
    <2>1. IdleDue \subseteq Ids
      BY DEF IdleDue
    <2>2. rec' = [call |-> "get", due |-> IdleDue, id |-> None]
      BY <1>1 DEF ReconcilerLists, IdleReconciler
    <2>3. rec' \in Reconciler /\ None \notin IdleDue
      BY <2>1, <2>2, NoneAssumption DEF Reconciler
    <2>4. QED
      BY <1>1, <2>2, <2>3 DEF ReconcilerLists, TypeOK
  <1>2. ASSUME NEW d \in Ids, NEW o \in StoreOutcomes, ReconcilerGets(d, o)
        PROVE  TypeOK'
    <2>1. CASE o = "ok" /\ rows[d] # None
      <3>1. settled' \subseteq Ids /\ spoiled' \subseteq Ids
        BY <1>2, <2>1, EngageType DEF ReconcilerGets
      <3>2. QED
        BY <1>2, <2>1, <3>1, NoneAssumption DEF ReconcilerGets, TypeOK, Reconciler
    <2>2. CASE ~(o = "ok" /\ rows[d] # None)
      BY <1>2, <2>2, NextDueType DEF ReconcilerGets, TypeOK, NextDue
    <2>3. QED
      BY <2>1, <2>2
  <1>3. ASSUME NEW o \in K8sOutcomes, ReconcilerDeletes(o)
        PROVE  TypeOK'
    <2>1. c \in Ids
      BY <1>3 DEF ReconcilerDeletes, TypeOK, Reconciler
    <2>2. crs' \in [Ids -> Configs \cup {None}]
      BY <1>3, <2>1 DEF ReconcilerDeletes, TypeOK
    <2>3. CASE o = "ok"
      BY <1>3, <2>2, <2>3 DEF ReconcilerDeletes, TypeOK, Reconciler
    <2>4. CASE o # "ok"
      <3>1. (OthersOn(None, c) # {}) \in BOOLEAN
        OBVIOUS
      <3>2. settled' \subseteq Ids /\ spoiled' \subseteq Ids
        BY <1>3, <2>1, <2>4, <3>1, ReleaseType DEF ReconcilerDeletes
      <3>3. QED
        <4>1. NextDue(c)
          BY <1>3, <2>4 DEF ReconcilerDeletes
        <4>2. rec' \in Reconciler /\ rec'.id = None /\ rec'.call = "get" /\ disturbed' \subseteq Ids
          BY <2>1, <4>1, NextDueType
        <4>3. None \notin rec'.due
          BY <4>2, NoneAssumption DEF Reconciler
        <4>4. QED
          BY <1>3, <2>2, <3>2, <4>2, <4>3 DEF ReconcilerDeletes, TypeOK
    <2>5. QED
      BY <2>3, <2>4
  <1>4. ASSUME NEW o \in StoreOutcomes, ReconcilerMarks(o)
        PROVE  TypeOK'
    <2>1. c \in Ids
      BY <1>4 DEF ReconcilerMarks, TypeOK, Reconciler
    <2>2. rows' \in [Ids -> Row \cup {None}]
      <3>1. rows[c] # None => [rows[c] EXCEPT !.desired = "Stopped"] \in Row
        BY <2>1 DEF TypeOK, Row
      <3>2. QED
        BY <1>4, <2>1, <3>1 DEF ReconcilerMarks, TypeOK
    <2>3. (OthersOn(None, c) # {}) \in BOOLEAN /\ (o # "ok") \in BOOLEAN
      OBVIOUS
    <2>4. settled' \subseteq Ids /\ spoiled' \subseteq Ids
      BY <1>4, <2>1, <2>3, ReleaseType DEF ReconcilerMarks
    <2>5. QED
      <3>1. rec' \in Reconciler /\ rec'.id = None /\ rec'.call = "get" /\ disturbed' \subseteq Ids
        BY <1>4, <2>1, NextDueType DEF ReconcilerMarks
      <3>2. None \notin rec'.due
        BY <3>1, NoneAssumption DEF Reconciler
      <3>3. QED
        BY <1>4, <2>2, <2>4, <3>1, <3>2 DEF ReconcilerMarks, TypeOK
  <1>5. QED
    BY <1>1, <1>2, <1>3, <1>4 DEF Reconcile

LEMMA EnvironmentType ==
    ASSUME TypeOK, Tick \/ Crash \/ \E c \in Ids : OutOfBandDelete(c)
    PROVE  TypeOK'
  <1>1. CASE Tick
    <2>1. ASSUME NEW c \in Ids, rows[c] # None
          PROVE  Older(rows[c]) \in Row
      BY <2>1, ConstantsAssumption DEF TypeOK, Row, Older
    <2>2. QED
      BY <1>1, <2>1 DEF Tick, TypeOK, history
  <1>2. CASE Crash
    BY <1>2, IdleSlot DEF Crash, TypeOK, SlotOK, IdleReconciler, Reconciler
  <1>3. CASE \E c \in Ids : OutOfBandDelete(c)
    BY <1>3 DEF OutOfBandDelete, TypeOK
  <1>4. QED
    BY <1>1, <1>2, <1>3

LEMMA TypeStep == TypeOK /\ [Next]_vars => TypeOK'
  <1>1. CASE UNCHANGED vars
    BY <1>1 DEF vars, system, history, TypeOK
  <1>2. QED
    BY <1>1, BeginType, ServeType, ReconcileType, EnvironmentType DEF Next

\* Every reachable state is well typed: the rows, the CRs, and a request that is
\* always at a call its own handler makes, holding the data that call needs.
THEOREM TypeCorrect == Spec => []TypeOK
  BY TypeInit, TypeStep, PTL DEF Spec

-----------------------------------------------------------------------------
(***************************************************************************)
(* The safety invariants.                                                  *)
(***************************************************************************)

(* What a call of a request leaves alone.                                  *)

\* The slot of r is emptied, or holds the same request at another call; nothing
\* follows insert, and k8sCreate is made once.
Moves(r) ==
    /\ \A s \in Requests \ {r} : req'[s] = req[s]
    /\ \/ req'[r] = IdleRequest
       \/ /\ req'[r].op = req[r].op /\ req'[r].id = req[r].id
          /\ req'[r].config = req[r].config
          /\ req[r].call # "insert"
          /\ req[r].call = "k8sCreate" => req'[r].call # "k8sCreate"

LEMMA AdvanceMoves ==
    ASSUME TypeOK, NEW r \in Requests, NEW bad, Advance(r, bad),
           req[r].call \in {"k8sCreate", "k8sDelete", "setRunning", "setStopped",
                            "touch", "updateConfig"},
           req[r].call = "touch" => req[r].op # "run"
    PROVE  Moves(r)
  <1>1. Serving(req[r]) /\ req[r] \in Request
    BY BusySlot
  <1>2. /\ \A s \in Requests \ {r} : req'[s] = req[s]
        /\ req'[r] = [req[r] EXCEPT !.call = After(req[r].op, req[r].call)]
    BY DEF TypeOK, Advance
  <1>3. req[r].call = "k8sCreate" => After(req[r].op, req[r].call) # "k8sCreate"
    BY <1>1, Scripts DEF Serving
  <1>4. QED
    BY <1>1, <1>2, <1>3 DEF Moves, Request

LEMMA FinishMoves ==
    ASSUME TypeOK, NEW r \in Requests, NEW bad, Finish(r, bad)
    PROVE  Moves(r)
  BY DEF TypeOK, Finish, Moves

\* Other clusters are left alone, and only the two creating calls create.
Touches(r) ==
    LET c == req[r].id IN
    /\ \A d \in Ids \ {c} : rows'[d] = rows[d] /\ crs'[d] = crs[d]
    /\ rows'[c] # None => rows[c] # None \/ req[r].call = "insert"
    /\ crs'[c] # None => \/ crs'[c] = crs[c]
                         \/ /\ crs[c] = None /\ req[r].call = "k8sCreate"
                            /\ crs'[c] = req[r].config

LEMMA UpdateRowTouches ==
    ASSUME TypeOK, NEW c \in Ids, NEW newRow, NEW o, UpdateRow(c, newRow, o)
    PROVE  /\ \A d \in Ids \ {c} : rows'[d] = rows[d]
           /\ rows[c] = None => rows'[c] = None
  BY DEF TypeOK, UpdateRow

LEMMA ServeFrame ==
    ASSUME TypeOK, NEW r \in Requests, Serve(r)
    PROVE  /\ req[r].id \in Ids /\ Serving(req[r])
           /\ issued' = issued /\ rec' = rec
           /\ Moves(r) /\ Touches(r)
  <1> DEFINE c == req[r].id
  <1>0. c \in Ids /\ Serving(req[r]) /\ req[r] \in Request
    BY BusySlot DEF Serve, ProvisionCR, TeardownCR, InsertRow, SetDesired, Touch,
                    SetPinned, UpdateConfig, DeleteRow, Execute, Respond
  <1>1. CASE ProvisionCR(r)
    <2>1. Moves(r)
      BY <1>1, AdvanceMoves, FinishMoves DEF ProvisionCR
    <2>2. Touches(r)
      BY <1>0, <1>1 DEF ProvisionCR, Touches, TypeOK
    <2>3. QED
      BY <1>0, <1>1, <2>1, <2>2 DEF ProvisionCR
  <1>2. CASE TeardownCR(r)
    <2>1. Moves(r)
      BY <1>2, AdvanceMoves, FinishMoves DEF TeardownCR
    <2>2. Touches(r)
      BY <1>0, <1>2 DEF TeardownCR, Touches, TypeOK
    <2>3. QED
      BY <1>0, <1>2, <2>1, <2>2 DEF TeardownCR
  <1>3. CASE InsertRow(r)
    <2>1. Moves(r)
      BY <1>3, FinishMoves DEF InsertRow
    <2>2. Touches(r)
      BY <1>0, <1>3 DEF InsertRow, Touches, TypeOK
    <2>3. QED
      BY <1>0, <1>3, <2>1, <2>2 DEF InsertRow
  <1>4. CASE SetDesired(r)
    <2>1. Moves(r)
      BY <1>4, AdvanceMoves DEF SetDesired
    <2>2. Touches(r)
      BY <1>0, <1>4, UpdateRowTouches DEF SetDesired, Touches
    <2>3. QED
      BY <1>0, <1>4, <2>1, <2>2 DEF SetDesired
  <1>5. CASE Touch(r)
    <2>1. Moves(r)
      BY <1>5, AdvanceMoves, FinishMoves DEF Touch
    <2>2. Touches(r)
      BY <1>0, <1>5, UpdateRowTouches DEF Touch, Touches
    <2>3. QED
      BY <1>0, <1>5, <2>1, <2>2 DEF Touch
  <1>6. CASE SetPinned(r)
    <2>1. ASSUME req' = [req EXCEPT ![r].call =
                       IF req[r].config = None THEN "respond" ELSE "updateConfig"]
          PROVE  Moves(r)
      BY <1>0, <1>6, <2>1 DEF SetPinned, Moves, TypeOK, Request
    <2>2. Moves(r)
      BY <1>6, <2>1, FinishMoves DEF SetPinned
    <2>3. Touches(r)
      BY <1>0, <1>6, UpdateRowTouches DEF SetPinned, Touches
    <2>4. QED
      BY <1>0, <1>6, <2>2, <2>3 DEF SetPinned
  <1>7. CASE UpdateConfig(r)
    <2>1. Moves(r)
      BY <1>7, AdvanceMoves, FinishMoves DEF UpdateConfig
    <2>2. Touches(r)
      BY <1>0, <1>7, UpdateRowTouches DEF UpdateConfig, Touches
    <2>3. QED
      BY <1>0, <1>7, <2>1, <2>2 DEF UpdateConfig
  <1>8. CASE DeleteRow(r)
    <2>1. Moves(r)
      BY <1>8, FinishMoves DEF DeleteRow
    <2>2. Touches(r)
      BY <1>0, <1>8, UpdateRowTouches DEF DeleteRow, Touches
    <2>3. QED
      BY <1>0, <1>8, <2>1, <2>2 DEF DeleteRow
  <1>9. CASE Execute(r)
    <2>1. ASSUME req' = [req EXCEPT ![r].call = "touch"]
          PROVE  Moves(r)
      BY <1>0, <1>9, <2>1 DEF Execute, Moves, TypeOK, Request
    <2>2. Moves(r)
      BY <1>9, <2>1, FinishMoves DEF Execute
    <2>3. QED
      BY <1>0, <1>9, <2>2 DEF Execute, Touches
  <1>10. CASE Respond(r)
    <2>1. Moves(r)
      BY <1>10, FinishMoves DEF Respond
    <2>2. QED
      BY <1>0, <1>10, <2>1 DEF Respond, Touches
  <1>11. QED
    BY <1>1, <1>2, <1>3, <1>4, <1>5, <1>6, <1>7, <1>8, <1>9, <1>10 DEF Serve

\* A request begins on a new id, or on one that has a row.
LEMMA BeginFrame ==
    ASSUME TypeOK, NEW r \in Requests, Begin(r)
    PROVE  /\ UNCHANGED <<rows, crs, rec>>
           /\ \A s \in Requests \ {r} : req'[s] = req[s]
           /\ req'[r].id \in Ids /\ req'[r].op # None
           /\ \/ /\ req'[r].op \in {"create", "clone"}
                 /\ req'[r].call = "k8sCreate"
                 /\ Issue(req'[r].id)
              \/ /\ req'[r].op \notin {"create", "clone"}
                 /\ rows[req'[r].id] # None
                 /\ issued' = issued
  <1>1. ASSUME NEW op, NEW c \in Ids, NEW f, NEW pin, NEW call,
               Accept(r, op, c, f, pin, call)
        PROVE  /\ UNCHANGED <<rows, crs, rec>>
               /\ \A s \in Requests \ {r} : req'[s] = req[s]
               /\ req'[r].op = op /\ req'[r].id = c /\ req'[r].call = call
    BY <1>1 DEF Accept, TypeOK
  <1>2. None \notin {"create", "clone", "start", "stop", "restart", "delete", "patch", "run"}
    BY NoneAssumption DEF AllOperations
  <1>3. CASE BeginCreate(r)
    BY <1>1, <1>2, <1>3 DEF BeginCreate
  <1>4. CASE BeginClone(r)
    <2>1. PICK c \in Ids : \E f : Accept(r, "clone", c, f, "keep", "k8sCreate") /\ Issue(c)
      BY <1>4 DEF BeginClone
    <2>2. QED
      BY <1>1, <1>2, <2>1
  <1>5. CASE BeginChange(r)
    <2>1. PICK op \in {"start", "stop", "restart", "delete"}, c \in Ids : \E f :
              /\ rows[c] # None
              /\ Accept(r, op, c, f, "keep", FirstCall(op))
              /\ UNCHANGED issued
      BY <1>5 DEF BeginChange
    <2>2. QED
      BY <1>1, <1>2, <2>1
  <1>6. CASE BeginPatch(r)
    <2>1. PICK c \in Ids : \E f, pin, call :
              /\ rows[c] # None
              /\ Accept(r, "patch", c, f, pin, call)
              /\ UNCHANGED issued
      BY <1>6 DEF BeginPatch
    <2>2. QED
      BY <1>1, <1>2, <2>1
  <1>7. CASE BeginRun(r)
    <2>1. PICK c \in Ids : /\ rows[c] # None
                           /\ Accept(r, "run", c, None, "keep", "execute")
                           /\ UNCHANGED issued
      BY <1>7 DEF BeginRun
    <2>2. /\ UNCHANGED <<rows, crs, rec>>
          /\ \A s \in Requests \ {r} : req'[s] = req[s]
          /\ req'[r].op = "run" /\ req'[r].id = c
      BY <1>1, <2>1
    <2>3. QED
      BY <1>2, <2>1, <2>2
  <1>8. QED
    BY <1>3, <1>4, <1>5, <1>6, <1>7 DEF Begin

\* The reconciler only takes away, and only from the id in its hand.
LEMMA ReconcileFrame ==
    ASSUME TypeOK, Reconcile
    PROVE  /\ req' = req /\ issued' = issued
           /\ \A d \in Ids : /\ rows'[d] = None <=> rows[d] = None
                             /\ crs'[d] \in {crs[d], None}
                             /\ d # rec.id => rows'[d] = rows[d] /\ crs'[d] = crs[d]
           /\ rec'.due \cup {rec'.id} \subseteq rec.due \cup {rec.id, None} \cup IdleDue
  <1>1. CASE ReconcilerLists
    BY <1>1 DEF ReconcilerLists, IdleReconciler, TypeOK, Reconciler
  <1>2. ASSUME NEW d \in Ids, NEW o \in StoreOutcomes, ReconcilerGets(d, o)
        PROVE  /\ UNCHANGED <<rows, crs, req, issued>>
               /\ rec'.due \cup {rec'.id} \subseteq rec.due \cup {rec.id, None} \cup IdleDue
    BY <1>2 DEF ReconcilerGets, NextDue, TypeOK, Reconciler
  <1>3. ASSUME NEW o \in K8sOutcomes, ReconcilerDeletes(o)
        PROVE  /\ req' = req /\ issued' = issued /\ rows' = rows
               /\ \A d \in Ids : /\ crs'[d] \in {crs[d], None}
                                 /\ d # rec.id => crs'[d] = crs[d]
               /\ rec'.due \cup {rec'.id} \subseteq rec.due \cup {rec.id, None} \cup IdleDue
    <2>1. rec.id \in Ids
      BY <1>3 DEF ReconcilerDeletes, TypeOK, Reconciler
    <2>2. /\ req' = req /\ issued' = issued /\ rows' = rows
          /\ \A d \in Ids : /\ crs'[d] \in {crs[d], None}
                            /\ d # rec.id => crs'[d] = crs[d]
      BY <1>3, <2>1 DEF ReconcilerDeletes, TypeOK
    <2>3. CASE o = "ok"
      BY <1>3, <2>2, <2>3 DEF ReconcilerDeletes, TypeOK, Reconciler
    <2>4. CASE o # "ok"
      BY <1>3, <2>2, <2>4 DEF ReconcilerDeletes, NextDue
    <2>5. QED
      BY <2>3, <2>4
  <1>4. ASSUME NEW o \in StoreOutcomes, ReconcilerMarks(o)
        PROVE  /\ req' = req /\ issued' = issued /\ crs' = crs
               /\ \A d \in Ids : /\ rows'[d] = None <=> rows[d] = None
                                 /\ d # rec.id => rows'[d] = rows[d]
               /\ rec'.due \cup {rec'.id} \subseteq rec.due \cup {rec.id, None} \cup IdleDue
    <2>1. rec.id \in Ids
      BY <1>4 DEF ReconcilerMarks, TypeOK, Reconciler
    <2>2. rows[rec.id] # None => [rows[rec.id] EXCEPT !.desired = "Stopped"] \in Row
      BY <2>1 DEF TypeOK, Row
    <2>3. QED
      BY <1>4, <2>1, <2>2, NoneAssumption DEF ReconcilerMarks, NextDue, TypeOK
  <1>5. QED
    BY <1>1, <1>2, <1>3, <1>4 DEF Reconcile, ReconcilerLists

-----------------------------------------------------------------------------
(* Creation.                                                               *)

LEMMA CreatorAloneInit == Init => CreatorAlone
  BY NoneAssumption DEF Init, CreatorAlone, Creating, IdleRequest, IdleReconciler,
                        AllOperations

LEMMA CreatorAloneBegin ==
    ASSUME TypeOK, TypeOK', CreatorAlone, NEW r \in Requests, Begin(r)
    PROVE  CreatorAlone'
  <1> DEFINE c == req'[r].id
  <1>1. /\ UNCHANGED <<rows, crs, rec>>
        /\ \A s \in Requests \ {r} : req'[s] = req[s]
        /\ c \in Ids
    BY BeginFrame
  <1>2. CASE req'[r].op \in {"create", "clone"} /\ c \notin issued /\ issued' = issued \cup {c}
    <2>1. \A s \in Requests \ {r} : req[s].id # c
      BY <1>1, <1>2, NoneAssumption DEF CreatorAlone, IdleRequest
    <2>2. rows[c] = None /\ crs[c] = None /\ c \notin rec.due /\ c # rec.id
      BY <1>1, <1>2, NoneAssumption DEF CreatorAlone
    <2>3. QED
      BY <1>1, <1>2, <2>1, <2>2 DEF CreatorAlone, Creating
  <1>3. CASE req'[r].op \notin {"create", "clone"} /\ rows[c] # None /\ issued' = issued
    BY <1>1, <1>3 DEF CreatorAlone, Creating
  <1>4. QED
    BY <1>2, <1>3, BeginFrame DEF Issue

LEMMA CreatorAloneServe ==
    ASSUME TypeOK, TypeOK', CreatorAlone, NEW r \in Requests, Serve(r)
    PROVE  CreatorAlone'
  <1> DEFINE c == req[r].id
  <1>1. /\ c \in Ids /\ c # None /\ Serving(req[r]) /\ req[r] # IdleRequest
        /\ issued' = issued /\ rec' = rec
        /\ Moves(r) /\ Touches(r)
    BY ServeFrame, NoneAssumption DEF IdleRequest
  <1>2. c \in issued
    BY <1>1 DEF CreatorAlone
  <1>3. ASSUME NEW s \in Requests, Creating(s)'
        PROVE  LET d == req'[s].id IN
               /\ rows'[d] = None
               /\ req'[s].call = "k8sCreate" => crs'[d] = None
               /\ d \notin rec.due /\ d # rec.id
               /\ \A q \in Requests \ {s} : req'[q].id # d
    <2>1. /\ Creating(s) /\ req'[s].id = req[s].id
          /\ s = r => req[r].call # "insert" /\ req'[r].call # "k8sCreate"
      <3>1. CASE s = r
        <4>1. req'[r] # IdleRequest
          BY <1>3, <3>1, NoneAssumption DEF Creating, IdleRequest, AllOperations
        <4>2. QED
          BY <1>1, <1>3, <3>1, <4>1 DEF Moves, Creating, Serving
      <3>2. CASE s # r
        BY <1>1, <1>3, <3>2 DEF Moves, Creating
      <3>3. QED
        BY <3>1, <3>2
    <2> DEFINE d == req[s].id
    <2>2. /\ rows[d] = None /\ (req[s].call = "k8sCreate" => crs[d] = None)
          /\ d \notin rec.due /\ d # rec.id
          /\ \A q \in Requests \ {s} : req[q].id # d
      BY <2>1 DEF CreatorAlone
    <2>3. d \in Ids
      BY <1>3, <2>1, NoneAssumption DEF TypeOK, Serving, Creating, IdleRequest, AllOperations
    <2>4. ASSUME NEW q \in Requests \ {s} PROVE req'[q].id # d
      <3>1. req[q].id # d /\ None # d
        BY <2>2, <2>3, NoneAssumption
      <3>2. req'[q].id \in {req[q].id, None}
        BY <1>1 DEF Moves, IdleRequest
      <3>3. QED
        BY <3>1, <3>2
    <2>5. rows'[d] = None /\ (req'[s].call = "k8sCreate" => crs'[d] = None)
      BY <1>1, <2>1, <2>2, <2>3 DEF Touches, Moves
    <2>6. QED
      BY <2>1, <2>2, <2>4, <2>5
  <1>4. \A s \in Requests : req'[s] # IdleRequest => req'[s].id \in issued
    BY <1>1, <1>2 DEF CreatorAlone, Moves
  <1>5. \A d \in Ids \ issued : rows'[d] = None /\ crs'[d] = None
    BY <1>1, <1>2 DEF CreatorAlone, Touches
  <1>6. QED
    BY <1>1, <1>3, <1>4, <1>5 DEF CreatorAlone

LEMMA CreatorAloneReconcile ==
    ASSUME TypeOK, TypeOK', CreatorAlone, Reconcile
    PROVE  CreatorAlone'
  <1>1. /\ req' = req /\ issued' = issued
        /\ \A d \in Ids : rows'[d] = None <=> rows[d] = None
        /\ \A d \in Ids : crs'[d] \in {crs[d], None}
        /\ rec'.due \cup {rec'.id} \subseteq rec.due \cup {rec.id, None} \cup IdleDue
    BY ReconcileFrame
  <1>2. \A c \in IdleDue : c \in Ids /\ rows[c] # None
    BY DEF IdleDue
  <1>3. \A r \in Requests : Creating(r) => req[r].id \in Ids
    BY NoneAssumption DEF TypeOK, Serving, Creating, IdleRequest, AllOperations
  <1>4. rec'.due \cup ({rec'.id} \ {None}) \subseteq issued
    BY <1>1, <1>2, NoneAssumption DEF CreatorAlone, TypeOK, Reconciler
  <1>5. ASSUME NEW r \in Requests, Creating(r)
        PROVE  LET c == req[r].id IN
               /\ rows'[c] = None
               /\ req[r].call = "k8sCreate" => crs'[c] = None
               /\ c \notin rec'.due /\ c # rec'.id
               /\ \A q \in Requests \ {r} : req[q].id # c
    <2> DEFINE c == req[r].id
    <2>1. c \in Ids /\ c # None
      BY <1>3, <1>5, NoneAssumption
    <2>2. /\ rows[c] = None /\ (req[r].call = "k8sCreate" => crs[c] = None)
          /\ c \notin rec.due /\ c # rec.id
          /\ \A q \in Requests \ {r} : req[q].id # c
      BY <1>5 DEF CreatorAlone
    <2>3. c \notin rec'.due \cup {rec'.id}
      BY <1>1, <1>2, <2>1, <2>2
    <2>4. QED
      BY <1>1, <2>1, <2>2, <2>3
  <1>6. QED
    BY <1>1, <1>4, <1>5 DEF CreatorAlone, Creating

LEMMA CreatorAloneEnvironment ==
    ASSUME TypeOK, CreatorAlone, Tick \/ Crash \/ \E c \in Ids : OutOfBandDelete(c)
    PROVE  CreatorAlone'
  <1>1. CASE Tick
    <2>1. \A c \in Ids : rows[c] = None => rows'[c] = None
      BY <1>1 DEF Tick
    <2>2. \A r \in Requests : Creating(r) => req[r].id \in Ids
      BY NoneAssumption DEF TypeOK, Serving, Creating, IdleRequest, AllOperations
    <2>3. QED
      BY <1>1, <2>1, <2>2 DEF Tick, CreatorAlone, Creating
  <1>2. CASE Crash
    BY <1>2, NoneAssumption DEF Crash, CreatorAlone, Creating, IdleRequest, IdleReconciler,
                                AllOperations
  <1>3. CASE \E c \in Ids : OutOfBandDelete(c)
    BY <1>3 DEF OutOfBandDelete, CreatorAlone, Creating, TypeOK
  <1>4. QED
    BY <1>1, <1>2, <1>3

LEMMA CreatorAloneStep == TypeOK /\ TypeOK' /\ CreatorAlone /\ [Next]_vars => CreatorAlone'
  <1>1. CASE UNCHANGED vars
    BY <1>1 DEF vars, system, CreatorAlone, Creating
  <1>2. QED
    BY <1>1, CreatorAloneBegin, CreatorAloneServe, CreatorAloneReconcile,
       CreatorAloneEnvironment DEF Next

\* A cluster that is being created is in nobody else's hands: the id that create
\* or clone has drawn is held by no other request and not by the reconciler, it
\* has no row, and no CR before its own k8sCreate.
THEOREM CreatorsAreAlone == Spec => []CreatorAlone
  BY TypeInit, TypeStep, CreatorAloneInit, CreatorAloneStep, PTL DEF Spec

-----------------------------------------------------------------------------
(* Deletion.                                                               *)

LEMMA DeletedStep == TypeOK /\ [Next]_vars => [\A c \in issued : StaysDeleted(c)]_vars
  <1> SUFFICES ASSUME TypeOK, Next, NEW c \in issued, rows[c] = None,
                      \A r \in Requests : req[r].id = c => ~Creating(r)
               PROVE  /\ rows'[c] = None
                      /\ crs[c] = None /\ OthersOn(None, c) = {} => crs'[c] = None
    BY DEF StaysDeleted
  <1>0. c \in Ids
    BY DEF TypeOK
  <1>1. CASE \E r \in Requests : Begin(r)
    BY <1>1, BeginFrame
  <1>2. ASSUME NEW r \in Requests, Serve(r)
        PROVE  /\ rows'[c] = None
               /\ crs[c] = None /\ OthersOn(None, c) = {} => crs'[c] = None
    <2>1. Serving(req[r]) /\ Touches(r)
      BY <1>2, ServeFrame
    <2>2. req[r].id = c => req[r].call # "insert"
      BY <2>1 DEF Serving, Creating
    <2>3. req[r].id = c /\ req[r].call = "k8sCreate" => OthersOn(None, c) # {}
      BY <2>1, NoneAssumption DEF Serving, OthersOn, Lifecycle, AllOperations
    <2>4. QED
      BY <1>0, <2>1, <2>2, <2>3 DEF Touches
  <1>3. CASE Reconcile
    BY <1>0, <1>3, ReconcileFrame
  <1>4. CASE Tick
    BY <1>0, <1>4 DEF Tick
  <1>5. CASE Crash \/ \E d \in Ids : OutOfBandDelete(d)
    BY <1>0, <1>5 DEF Crash, OutOfBandDelete, TypeOK
  <1>6. QED
    BY <1>1, <1>2, <1>3, <1>4, <1>5 DEF Next

\* A deleted cluster stays deleted: whatever requests and passes still hold its
\* id, its row never comes back; nor does its CR, unless a lifecycle operation
\* that began before the deletion is still under way.
THEOREM DeletionIsFinal == Spec => DeletedStaysDeleted
  BY TypeInit, TypeStep, DeletedStep, PTL DEF Spec, DeletedStaysDeleted

-----------------------------------------------------------------------------
(* The reconciler's list.                                                  *)

\* The row of c is due for an idle stop.
DueRow(c) ==
    /\ rows[c] # None
    /\ rows[c].desired = "Running" /\ ~rows[c].pinned
    /\ 0 < IdleMinutes[rows[c].config]
    /\ IdleMinutes[rows[c].config] < rows[c].age

Held == (rec.due \cup {rec.id}) \ {None}

LEMMA HeldRows == HeldIdleUnlessDisturbed <=> \A c \in Held \ disturbed : DueRow(c)
  BY DEF HeldIdleUnlessDisturbed, Held, DueRow

\* A request that writes the row of a held id disturbs it, insert apart.
LEMMA UpdateRowDisturbs ==
    ASSUME TypeOK, NEW c \in Ids, NEW newRow, NEW o, UpdateRow(c, newRow, o)
    PROVE  /\ disturbed \subseteq disturbed'
           /\ \A d \in Held \ disturbed' : rows'[d] = rows[d]
  BY DEF TypeOK, UpdateRow, Disturb, Held, Reconciler

LEMMA HeldServe ==
    ASSUME TypeOK, CreatorAlone, NEW r \in Requests, Serve(r)
    PROVE  /\ disturbed \subseteq disturbed'
           /\ \A d \in Held \ disturbed' : rows'[d] = rows[d]
  <1> DEFINE c == req[r].id
  <1>0. c \in Ids /\ Serving(req[r])
    BY ServeFrame
  <1>1. CASE InsertRow(r)
    <2>1. Creating(r)
      BY <1>0, <1>1 DEF InsertRow, Serving, Creating
    <2>2. c \notin Held
      BY <2>1 DEF CreatorAlone, Held
    <2>3. QED
      BY <1>1, <2>2 DEF InsertRow, TypeOK, Held, Reconciler
  <1>2. CASE SetDesired(r) \/ Touch(r) \/ SetPinned(r) \/ UpdateConfig(r) \/ DeleteRow(r)
    BY <1>0, <1>2, UpdateRowDisturbs DEF SetDesired, Touch, SetPinned, UpdateConfig, DeleteRow
  <1>3. CASE ProvisionCR(r) \/ TeardownCR(r) \/ Execute(r) \/ Respond(r)
    BY <1>3 DEF ProvisionCR, TeardownCR, Execute, Respond
  <1>4. QED
    BY <1>1, <1>2, <1>3 DEF Serve

LEMMA HeldReconcile ==
    ASSUME TypeOK, \A c \in Held \ disturbed : DueRow(c), Reconcile
    PROVE  \A c \in Held' \ disturbed' : DueRow(c)'
  <1>1. CASE ReconcilerLists
    <2>1. \A c \in IdleDue : DueRow(c)
      BY DEF IdleDue, DueRow
    <2>2. Held' \subseteq IdleDue /\ rows' = rows
      BY <1>1 DEF ReconcilerLists, IdleReconciler, Held
    <2>3. QED
      BY <2>1, <2>2 DEF DueRow
  <1>2. ASSUME NEW d \in Ids, NEW o \in StoreOutcomes, ReconcilerGets(d, o)
        PROVE  \A c \in Held' \ disturbed' : DueRow(c)'
    <2>1. rows' = rows /\ Held' \ disturbed' \subseteq Held \ disturbed
      BY <1>2 DEF ReconcilerGets, NextDue, Held, TypeOK, Reconciler
    <2>2. QED
      BY <2>1 DEF DueRow
  <1>3. ASSUME NEW o \in K8sOutcomes, ReconcilerDeletes(o)
        PROVE  \A c \in Held' \ disturbed' : DueRow(c)'
    <2>1. rows' = rows /\ Held' \ disturbed' \subseteq Held \ disturbed
      <3>1. CASE o = "ok"
        BY <1>3, <3>1 DEF ReconcilerDeletes, Held, TypeOK, Reconciler
      <3>2. CASE o # "ok"
        BY <1>3, <3>2 DEF ReconcilerDeletes, NextDue, Held
      <3>3. QED
        BY <3>1, <3>2
    <2>2. QED
      BY <2>1 DEF DueRow
  <1>4. ASSUME NEW o \in StoreOutcomes, ReconcilerMarks(o)
        PROVE  \A c \in Held' \ disturbed' : DueRow(c)'
    <2>1. rec.id \in Ids /\ rec.id \notin rec.due /\ rec.due \subseteq Ids
      BY <1>4 DEF ReconcilerMarks, TypeOK, Reconciler
    <2>2. Held' \ disturbed' \subseteq Held \ disturbed /\ Held' = rec.due \ {None}
      BY <1>4, <2>1 DEF ReconcilerMarks, NextDue, Held
    <2>3. \A c \in Held' : rows'[c] = rows[c]
      BY <1>4, <2>1, <2>2 DEF ReconcilerMarks, TypeOK
    <2>4. QED
      BY <2>2, <2>3 DEF DueRow
  <1>5. QED
    BY <1>1, <1>2, <1>3, <1>4 DEF Reconcile

LEMMA HeldStep ==
    ASSUME TypeOK, CreatorAlone, HeldIdleUnlessDisturbed, [Next]_vars
    PROVE  HeldIdleUnlessDisturbed'
  <1>0. \A c \in Held \ disturbed : DueRow(c)
    BY HeldRows
  <1> SUFFICES \A c \in Held' \ disturbed' : DueRow(c)'
    BY DEF HeldIdleUnlessDisturbed, Held, DueRow
  <1>1. CASE UNCHANGED vars
    BY <1>0, <1>1 DEF vars, system, history, Held, DueRow
  <1>2. ASSUME NEW r \in Requests, Begin(r)
        PROVE  \A c \in Held' \ disturbed' : DueRow(c)'
    <2>1. UNCHANGED <<rows, rec, disturbed>>
      BY <1>2 DEF Begin, BeginCreate, BeginClone, BeginChange, BeginPatch, BeginRun, Accept
    <2>2. QED
      BY <1>0, <2>1 DEF Held, DueRow
  <1>3. ASSUME NEW r \in Requests, Serve(r)
        PROVE  \A c \in Held' \ disturbed' : DueRow(c)'
    <2>1. Held' = Held
      BY <1>3, ServeFrame DEF Held
    <2>2. QED
      BY <1>0, <1>3, <2>1, HeldServe DEF DueRow
  <1>4. CASE Reconcile
    BY <1>0, <1>4, HeldReconcile
  <1>5. CASE Tick
    <2>1. Held' = Held /\ disturbed' = disturbed /\ Held \subseteq Ids
      BY <1>5 DEF Tick, history, Held, TypeOK, Reconciler
    <2>2. ASSUME NEW c \in Held \ disturbed
          PROVE  DueRow(c)'
      <3>1. c \in Ids /\ rows[c] \in Row /\ DueRow(c)
        BY <1>0, <2>1, <2>2 DEF TypeOK, DueRow
      <3>2. rows'[c] = Older(rows[c])
        BY <1>5, <3>1 DEF Tick, DueRow
      <3>3. /\ rows'[c] \in Row /\ rows'[c].age >= rows[c].age
            /\ rows'[c].desired = rows[c].desired /\ rows'[c].pinned = rows[c].pinned
            /\ rows'[c].config = rows[c].config
        BY <3>1, <3>2, ConstantsAssumption DEF Row, Older
      <3>4. IdleMinutes[rows[c].config] \in Nat /\ rows[c].age \in Nat /\ rows'[c].age \in Nat
        BY <3>1, <3>3, ConstantsAssumption DEF Row
      <3>5. QED
        BY <3>1, <3>3, <3>4, NoneAssumption DEF DueRow
    <2>3. QED
      BY <2>1, <2>2
  <1>6. CASE Crash
    BY <1>6 DEF Crash, IdleReconciler, Held
  <1>7. CASE \E c \in Ids : OutOfBandDelete(c)
    BY <1>0, <1>7 DEF OutOfBandDelete, Held, DueRow
  <1>8. QED
    BY <1>1, <1>2, <1>3, <1>4, <1>5, <1>6, <1>7 DEF Next

\* What the reconciler still holds from its list is Running, unpinned and idle for
\* longer than its window, except for ids whose row a request has written since.
THEOREM OnlyIdleIsHeld == Spec => []HeldIdleUnlessDisturbed
  <1>1. Init => HeldIdleUnlessDisturbed
    BY DEF Init, IdleReconciler, HeldIdleUnlessDisturbed
  <1>2. QED
    BY <1>1, TypeInit, TypeStep, CreatorAloneInit, CreatorAloneStep, HeldStep, PTL DEF Spec
=============================================================================
