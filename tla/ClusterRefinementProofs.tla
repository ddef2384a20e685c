----------------------- MODULE ClusterRefinementProofs -----------------------
(***************************************************************************)
(* That ClusterLifecycle implements ClusterRegistry, proved for all values *)
(* of the constants.                                                       *)
(***************************************************************************)
EXTENDS ClusterRefinement, ClusterLifecycleProofs

-----------------------------------------------------------------------------
(* The ids that are being created.                                         *)

LEMMA ServedExpect ==
    ASSUME NEW r \in Requests, Moves(r)
    PROVE  Expecting' \subseteq Expecting
  <1> SUFFICES ASSUME NEW c \in Ids, NEW s \in Requests, Creating(s)', req'[s].id = c
               PROVE  c \in Expecting
    BY DEF Expecting
  <1>1. CASE s = r
    <2>1. req'[r] # IdleRequest
      BY <1>1, NoneAssumption DEF Creating, IdleRequest, AllOperations
    <2>2. QED
      BY <1>1, <2>1 DEF Moves, Creating, Expecting
  <1>2. CASE s # r
    BY <1>2 DEF Moves, Creating, Expecting
  <1>3. QED
    BY <1>1, <1>2

LEMMA OthersExpect ==
    ASSUME NEW r \in Requests, Moves(r), ~Creating(r)
    PROVE  Expecting' = Expecting
  <1>1. ASSUME NEW c \in Expecting PROVE c \in Expecting'
    BY <1>1 DEF Expecting, Creating, Moves
  <1>2. QED
    BY <1>1, ServedExpect

-----------------------------------------------------------------------------
(* Steps of the registry.                                                  *)

\* A step that leaves the rows alone gives up at most the creates it ends.
LEMMA GivesUp ==
    ASSUME TypeOK', rows' = rows, issued \subseteq issued',
           Expecting' \cap issued \subseteq Expecting
    PROVE  Registry!Next
  <1>1. spentIds \subseteq spentIds' /\ spentIds' \subseteq Ids
    BY DEF spentIds, TypeOK
  <1>2. Registry!GiveUp(spentIds')
    BY <1>1 DEF Registry!GiveUp, spentIds
  <1>3. QED
    BY <1>1, <1>2 DEF Registry!Next

\* A row that is there is changed, and stays.
LEMMA Rewrites ==
    ASSUME TypeOK, NEW c \in Ids, NEW newRow \in Row, rows[c] # None,
           rows' = [rows EXCEPT ![c] = newRow],
           issued' = issued, Expecting' = Expecting
    PROVE  spentIds' = spentIds
  <1>1. \A d \in Ids : rows'[d] = None <=> rows[d] = None
    BY NoneAssumption DEF TypeOK
  <1>2. QED
    BY <1>1 DEF spentIds, TypeOK

LEMMA UpdateRowWrites ==
    ASSUME TypeOK, TypeOK', NEW c \in Ids, NEW newRow, NEW o, UpdateRow(c, newRow, o),
           issued' = issued, Expecting' = Expecting,
           rows[c] # None => newRow \in Row /\
               \/ \E p \in BOOLEAN : newRow = [rows[c] EXCEPT !.pinned = p]
               \/ \E f \in Configs : newRow = [rows[c] EXCEPT !.config = f]
               \/ \E d \in {"Running", "Stopped"} : newRow = [rows[c] EXCEPT !.desired = d]
               \/ newRow = [rows[c] EXCEPT !.age = 0]
    PROVE  Registry!Next
  <1>1. CASE rows' = rows
    BY <1>1, GivesUp
  <1>2. CASE rows[c] # None /\ rows' = [rows EXCEPT ![c] = newRow]
    <2>1. spentIds' = spentIds
      BY <1>2, Rewrites
    <2>2. Registry!Write(c)
      BY <1>2, <2>1 DEF Registry!Write
    <2>3. QED
      BY <2>2 DEF Registry!Next
  <1>3. QED
    BY <1>1, <1>2 DEF UpdateRow

-----------------------------------------------------------------------------
(* Each action.                                                            *)

LEMMA BeginImplements ==
    ASSUME TypeOK, TypeOK', NEW r \in Requests, Begin(r)
    PROVE  Registry!Next
  <1>1. /\ rows' = rows
        /\ \A s \in Requests \ {r} : req'[s] = req[s]
        /\ \/ Issue(req'[r].id)
           \/ ~Creating(r)' /\ issued' = issued
    BY BeginFrame DEF Creating
  <1>2. issued \subseteq issued'
    BY <1>1 DEF Issue
  <1>3. Expecting' \cap issued \subseteq Expecting
    BY <1>1 DEF Expecting, Creating, Issue
  <1>4. QED
    BY <1>1, <1>2, <1>3, GivesUp

LEMMA InsertImplements ==
    ASSUME TypeOK, TypeOK', CreatorAlone, NEW r \in Requests, InsertRow(r)
    PROVE  Registry!Next
  <1> DEFINE c == req[r].id
  <1>1. /\ c \in Ids /\ Serving(req[r]) /\ issued' = issued /\ Moves(r)
        /\ \A d \in Ids \ {c} : rows'[d] = rows[d]
    BY ServeFrame DEF Serve, Touches
  <1>2. Creating(r) /\ req[r].config \in Configs
    BY <1>1 DEF Serving, InsertRow, Creating
  <1>3. Expecting' \subseteq Expecting
    BY <1>1, ServedExpect
  <1>4. CASE rows' = rows
    BY <1>1, <1>3, <1>4, GivesUp
  <1>5. CASE rows' = [rows EXCEPT ![c] = Registry!Fresh(req[r].config)]
    <2>1. rows[c] = None /\ c \notin spentIds
      BY <1>1, <1>2 DEF CreatorAlone, spentIds, Expecting
    <2>2. rows'[c] # None
      <3>1. Registry!Fresh(req[r].config) \in Row
        BY <1>2, ConstantsAssumption DEF Registry!Fresh, Row
      <3>2. rows'[c] = Registry!Fresh(req[r].config)
        BY <1>1, <1>5 DEF TypeOK
      <3>3. QED
        BY <3>1, <3>2, NoneAssumption
    <2>3. ASSUME NEW d \in Expecting, d # c PROVE d \in Expecting'
      BY <2>3, <1>1 DEF Expecting, Creating, Moves
    <2>4. spentIds' = spentIds
      BY <1>1, <1>3, <2>1, <2>2, <2>3 DEF spentIds, TypeOK
    <2>5. Registry!Insert(c)
      BY <1>2, <1>5, <2>1, <2>4 DEF Registry!Insert
    <2>6. QED
      BY <1>1, <2>5 DEF Registry!Next
  <1>6. QED
    BY <1>4, <1>5 DEF InsertRow, Registry!Fresh

LEMMA DeleteImplements ==
    ASSUME TypeOK, TypeOK', CreatorAlone, NEW r \in Requests, DeleteRow(r)
    PROVE  Registry!Next
  <1> DEFINE c == req[r].id
  <1>1. c \in Ids /\ Serving(req[r]) /\ issued' = issued /\ Moves(r)
    BY ServeFrame DEF Serve
  <1>2. ~Creating(r)
    BY <1>1 DEF Serving, DeleteRow, Creating
  <1>3. Expecting' = Expecting
    BY <1>1, <1>2, OthersExpect
  <1>4. CASE rows' = rows
    BY <1>1, <1>3, <1>4, GivesUp
  <1>5. CASE rows[c] # None /\ rows' = [rows EXCEPT ![c] = None]
    <2>1. c \in issued /\ c \notin Expecting
      BY <1>1, <1>5 DEF CreatorAlone, Expecting
    <2>2. spentIds' = spentIds \cup {c}
      BY <1>1, <1>3, <1>5, <2>1 DEF spentIds, TypeOK
    <2>3. Registry!Remove(c)
      BY <1>5, <2>2 DEF Registry!Remove
    <2>4. QED
      BY <1>1, <2>3 DEF Registry!Next
  <1>6. QED
    BY <1>4, <1>5 DEF DeleteRow, UpdateRow

\* The UPDATEs of the handlers.
LEMMA UpdatesImplement ==
    ASSUME TypeOK, TypeOK', NEW r \in Requests,
           SetDesired(r) \/ Touch(r) \/ SetPinned(r) \/ UpdateConfig(r)
    PROVE  Registry!Next
  <1> DEFINE c == req[r].id
  <1>1. c \in Ids /\ Serving(req[r]) /\ issued' = issued /\ Moves(r)
    BY ServeFrame DEF Serve
  <1>2. ~Creating(r)
    BY <1>1 DEF Serving, SetDesired, Touch, SetPinned, UpdateConfig, Creating
  <1>3. Expecting' = Expecting
    BY <1>1, <1>2, OthersExpect
  <1>4. rows[c] # None => rows[c] \in Row
    BY <1>1 DEF TypeOK
  <1>5. CASE SetDesired(r)
    <2> DEFINE d == IF req[r].call = "setRunning" THEN "Running" ELSE "Stopped"
               newRow == [rows[c] EXCEPT !.desired = d]
    <2>1. PICK o : UpdateRow(c, newRow, o)
      BY <1>5 DEF SetDesired
    <2>2. rows[c] # None => newRow \in Row
      BY <1>4 DEF Row
    <2>3. QED
      BY <1>1, <1>3, <2>1, <2>2, UpdateRowWrites
  <1>6. CASE Touch(r)
    <2> DEFINE newRow == [rows[c] EXCEPT !.age = 0]
    <2>1. PICK o : UpdateRow(c, newRow, o)
      BY <1>6 DEF Touch
    <2>2. rows[c] # None => newRow \in Row
      BY <1>4, ConstantsAssumption DEF Row
    <2>3. QED
      BY <1>1, <1>3, <2>1, <2>2, UpdateRowWrites
  <1>7. CASE SetPinned(r)
    <2> DEFINE p == req[r].pin = "pin"
               newRow == [rows[c] EXCEPT !.pinned = p]
    <2>1. PICK o : UpdateRow(c, newRow, o)
      BY <1>7 DEF SetPinned
    <2>2. rows[c] # None => newRow \in Row
      BY <1>4 DEF Row
    <2>3. \E x \in BOOLEAN : newRow = [rows[c] EXCEPT !.pinned = x]
      OBVIOUS
    <2> HIDE DEF newRow
    <2>4. QED
      BY <1>1, <1>3, <2>1, <2>2, <2>3, UpdateRowWrites
  <1>8. CASE UpdateConfig(r)
    <2> DEFINE newRow == [rows[c] EXCEPT !.config = req[r].config]
    <2>1. PICK o : UpdateRow(c, newRow, o)
      BY <1>8 DEF UpdateConfig
    <2>2. req[r].config \in Configs
      BY <1>1, <1>8 DEF Serving, UpdateConfig
    <2>3. rows[c] # None => newRow \in Row
      BY <1>4, <2>2 DEF Row
    <2>4. QED
      BY <1>1, <1>3, <2>1, <2>2, <2>3, UpdateRowWrites
  <1>9. QED
    BY <1>5, <1>6, <1>7, <1>8

LEMMA ServeImplements ==
    ASSUME TypeOK, TypeOK', CreatorAlone, NEW r \in Requests, Serve(r)
    PROVE  Registry!Next
  <1>1. issued' = issued /\ Expecting' \subseteq Expecting
    BY ServeFrame, ServedExpect
  <1>2. CASE ProvisionCR(r) \/ TeardownCR(r) \/ Execute(r) \/ Respond(r)
    <2>1. rows' = rows
      BY <1>2 DEF ProvisionCR, TeardownCR, Execute, Respond
    <2>2. QED
      BY <1>1, <2>1, GivesUp
  <1>3. QED
    BY <1>2, InsertImplements, DeleteImplements, UpdatesImplement DEF Serve

LEMMA ReconcileImplements ==
    ASSUME TypeOK, TypeOK', Reconcile
    PROVE  Registry!Next
  <1>1. req' = req /\ issued' = issued
    BY ReconcileFrame
  <1>2. Expecting' = Expecting
    BY <1>1 DEF Expecting, Creating
  <1>3. CASE rows' = rows
    BY <1>1, <1>2, <1>3, GivesUp
  <1>4. CASE rows' # rows
    <2> DEFINE c == rec.id
               newRow == [rows[c] EXCEPT !.desired = "Stopped"]
    <2>1. rec.call = "mark" /\ rows[c] # None /\ rows' = [rows EXCEPT ![c] = newRow]
      BY <1>4 DEF Reconcile, ReconcilerLists, ReconcilerGets, ReconcilerDeletes, ReconcilerMarks
    <2>2. c \in Ids
      BY <2>1 DEF TypeOK, Reconciler
    <2>3. newRow \in Row
      BY <2>1, <2>2 DEF TypeOK, Row
    <2>4. spentIds' = spentIds
      BY <1>1, <1>2, <2>1, <2>2, <2>3, Rewrites
    <2>5. Registry!Write(c)
      BY <2>1, <2>4 DEF Registry!Write
    <2>6. QED
      BY <2>2, <2>5 DEF Registry!Next
  <1>5. QED
    BY <1>3, <1>4

LEMMA EnvironmentImplements ==
    ASSUME TypeOK, TypeOK', Tick \/ Crash \/ \E c \in Ids : OutOfBandDelete(c)
    PROVE  Registry!Next
  <1>1. CASE Tick
    <2>1. Expecting' = Expecting /\ issued' = issued
      BY <1>1 DEF Tick, Expecting, Creating
    <2>2. \A c \in Ids : rows[c] # None => Older(rows[c]) # None
      <3>1. ASSUME NEW c \in Ids, rows[c] # None PROVE rows'[c] \in Row
        <4>1. rows[c] \in Row
          BY <3>1 DEF TypeOK
        <4>2. rows'[c] = Older(rows[c])
          BY <1>1, <3>1 DEF Tick
        <4>3. Older(rows[c]) \in Row
          BY <4>1, ConstantsAssumption DEF Older, Row
        <4>4. QED
          BY <4>2, <4>3
      <3>2. QED
        BY <1>1, <3>1, NoneAssumption DEF Tick
    <2>3. \A c \in Ids : rows'[c] = None <=> rows[c] = None
      BY <1>1, <2>2 DEF Tick
    <2>4. spentIds' = spentIds
      BY <2>1, <2>3 DEF spentIds, TypeOK
    <2>5. Registry!Age
      BY <1>1, <2>4 DEF Tick, Older, Registry!Age
    <2>6. QED
      BY <2>5 DEF Registry!Next
  <1>2. CASE Crash
    <2>1. Expecting' = {}
      BY <1>2, NoneAssumption DEF Crash, Expecting, Creating, IdleRequest, AllOperations
    <2>2. QED
      BY <1>2, <2>1, GivesUp DEF Crash
  <1>3. CASE \E c \in Ids : OutOfBandDelete(c)
    <2>1. rows' = rows /\ issued' = issued /\ req' = req
      BY <1>3 DEF OutOfBandDelete
    <2>2. Expecting' = Expecting
      BY <2>1 DEF Expecting, Creating
    <2>3. QED
      BY <2>1, <2>2, GivesUp
  <1>4. QED
    BY <1>1, <1>2, <1>3

LEMMA RefinementInit == Init => Registry!Init
  BY DEF Init, Registry!Init, spentIds

LEMMA RefinementStep ==
    TypeOK /\ TypeOK' /\ CreatorAlone /\ [Next]_vars => [Registry!Next]_(Registry!vars)
  <1>1. CASE UNCHANGED vars
    BY <1>1 DEF vars, system, Registry!vars, spentIds, Expecting, Creating
  <1>2. QED
    BY <1>1, BeginImplements, ServeImplements, ReconcileImplements,
       EnvironmentImplements DEF Next

\* The table "clusters" keeps its promise, ClusterRegistry, for any clusters,
\* requests and configs, through every overlap, lost call and crash: a row is
\* inserted once and with the same defaults, each write changes one column and
\* keeps what others have written, and an id that is spent is never used again.
THEOREM LifecycleImplementsRegistry == Spec => ImplementsRegistry
  <1>1. Init => Registry!Init
    BY RefinementInit
  <1>2. TypeOK /\ TypeOK' /\ CreatorAlone /\ [Next]_vars => [Registry!Next]_(Registry!vars)
    BY RefinementStep
  <1>3. QED
    BY <1>1, <1>2, TypeCorrect, CreatorsAreAlone, PTL DEF Spec, ImplementsRegistry, Registry!Spec
=============================================================================
