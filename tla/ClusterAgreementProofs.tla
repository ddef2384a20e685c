----------------------- MODULE ClusterAgreementProofs -----------------------
(* That the row and the CR of a cluster agree at rest, and that a CR       *)
(* carries the persisted config of its row, for every value of the         *)
(* constants.                                                              *)
EXTENDS ClusterLifecycleProofs

-----------------------------------------------------------------------------
(* The invariant, cluster by cluster.                                      *)

\* r is in the middle of a lifecycle operation on c.
User(r, c) == req[r].id = c /\ req[r].op \in Lifecycle

\* What OnCourse and SettledAgree say of the cluster c.
Fine(c) ==
    /\ c \in spoiled => Busy(c)
    /\ c \in settled /\ ~Busy(c) => Agrees(c)
    /\ \A r \in Requests : User(r, c) /\ c \notin spoiled =>
          /\ \A q \in Requests \ {r} : ~User(q, c)
          /\ rec.id # c
          /\ Expected(r)
    /\ rec.id = c /\ c \notin spoiled =>
          /\ \A q \in Requests : ~User(q, c)
          /\ HasRow(c)
          /\ rec.call = "mark" => ~Runs(c)

LEMMA BusyUsers ==
    ASSUME NEW c
    PROVE  /\ OthersOn(None, c) # {} <=> \E q \in Requests : User(q, c)
           /\ Busy(c) <=> (\E q \in Requests : User(q, c)) \/ rec.id = c
           /\ \A r : OthersOn(r, c) # {} <=> \E q \in Requests \ {r} : User(q, c)
  BY NoneAssumption DEF OthersOn, User, Busy

LEMMA BusyUsersNext ==
    ASSUME NEW c
    PROVE  Busy(c)' <=> (\E q \in Requests : User(q, c)') \/ rec'.id = c
  BY NoneAssumption DEF OthersOn, User, Busy

LEMMA UsersHaveIds == TypeOK => \A r \in Requests : req[r].op \in Lifecycle => req[r].id \in Ids
  BY NoneAssumption DEF TypeOK, Serving, IdleRequest, Lifecycle, AllOperations

LEMMA FineEverywhere ==
    ASSUME TypeOK
    PROVE  OnCourse /\ SettledAgree <=> \A c \in Ids : Fine(c)
  <1>1. spoiled \subseteq Ids /\ settled \subseteq Ids /\ rec.id \in Ids \cup {None}
    BY DEF TypeOK, Reconciler
  <1>2. ASSUME OnCourse, SettledAgree, NEW c \in Ids PROVE Fine(c)
    <2>1. (c \in spoiled => Busy(c)) /\ (c \in settled /\ ~Busy(c) => Agrees(c))
      BY <1>2 DEF OnCourse, SettledAgree
    <2>2. ASSUME NEW r \in Requests, User(r, c), c \notin spoiled
          PROVE  /\ \A q \in Requests \ {r} : ~User(q, c)
                 /\ rec.id # c
                 /\ Expected(r)
      <3>1. OthersOn(r, c) = {} /\ rec.id # c /\ Expected(r)
        BY <1>2, <2>2 DEF OnCourse, User
      <3>2. QED
        BY <3>1, BusyUsers
    <2>3. ASSUME rec.id = c, c \notin spoiled
          PROVE  /\ \A q \in Requests : ~User(q, c)
                 /\ HasRow(c)
                 /\ rec.call = "mark" => ~Runs(c)
      <3>1. c # None
        BY NoneAssumption
      <3>2. OthersOn(None, c) = {} /\ HasRow(c) /\ (rec.call = "mark" => ~Runs(c))
        BY <1>2, <2>3, <3>1 DEF OnCourse
      <3>3. QED
        BY <3>2, BusyUsers
    <2>4. QED
      BY <2>1, <2>2, <2>3 DEF Fine
  <1>3. ASSUME \A c \in Ids : Fine(c) PROVE OnCourse /\ SettledAgree
    <2>1. \A c \in spoiled : Busy(c)
      BY <1>1, <1>3 DEF Fine
    <2>2. ASSUME NEW r \in Requests, req[r].op \in Lifecycle, req[r].id \notin spoiled
          PROVE  OthersOn(r, req[r].id) = {} /\ rec.id # req[r].id /\ Expected(r)
      BY <1>3, <2>2, UsersHaveIds, BusyUsers DEF Fine, User
    <2>3. ASSUME rec.id # None, rec.id \notin spoiled
          PROVE  /\ OthersOn(None, rec.id) = {}
                 /\ HasRow(rec.id)
                 /\ rec.call = "mark" => ~Runs(rec.id)
      BY <1>1, <1>3, <2>3, BusyUsers DEF Fine
    <2>4. SettledAgree
      BY <1>1, <1>3 DEF Fine, SettledAgree
    <2>5. QED
      BY <2>1, <2>2, <2>3, <2>4 DEF OnCourse
  <1>4. QED
    BY <1>2, <1>3

-----------------------------------------------------------------------------
(* Steps that leave c alone.                                               *)

\* Nothing that Fine(c) looks at changes.
Unseen(c) ==
    /\ HasRow(c)' <=> HasRow(c)
    /\ HasRow(c) => rows'[c].desired = rows[c].desired
    /\ Runs(c)' <=> Runs(c)
    /\ rec'.id = c <=> rec.id = c
    /\ rec.id = c => rec'.call = rec.call
    /\ \A q \in Requests : /\ User(q, c)' <=> User(q, c)
                           /\ User(q, c) => req'[q].op = req[q].op /\ req'[q].call = req[q].call
    /\ c \in spoiled' <=> c \in spoiled
    /\ c \in settled' => c \in settled

LEMMA FineUnseen ==
    ASSUME NEW c \in Ids, Fine(c), Unseen(c)
    PROVE  Fine(c)'
  <1>1. Busy(c)' <=> Busy(c)
    BY BusyUsers, BusyUsersNext DEF Unseen
  <1>2. c \in settled' /\ ~Busy(c)' => Agrees(c)'
    BY <1>1 DEF Unseen, Fine, Agrees, HasRow, Runs
  <1>3. ASSUME NEW r \in Requests, User(r, c), Expected(r)
        PROVE  Expected(r)'
    <2>1. req'[r].op = req[r].op /\ req'[r].call = req[r].call
          /\ req'[r].id = c /\ req[r].id = c
      BY <1>3 DEF Unseen, User
    <2>2. Creating(r)' <=> Creating(r)
      BY <2>1 DEF Creating
    <2>3. HasRow(c)' = HasRow(c) /\ Runs(c)' = Runs(c)
      BY DEF Unseen, HasRow, Runs
    <2>4. \A s : HasRow(c) => Wanted(c, s)' = Wanted(c, s)
      BY DEF Unseen, Wanted, HasRow
    <2>5. \A s : Wanted(c, s) => HasRow(c)
      BY DEF Wanted
    <2>6. QED
      BY <1>3, <2>1, <2>2, <2>3, <2>4, <2>5 DEF Expected
  <1>4. QED
    BY <1>1, <1>2, <1>3 DEF Unseen, Fine

-----------------------------------------------------------------------------
(* A handler that goes on, and one that returns.                           *)

\* Advance and Finish change the slot of r, and the history of its id alone.
LEMMA LeavesOthers ==
    ASSUME TypeOK, NEW r \in Requests, NEW bad, req[r].op \in Lifecycle,
           Advance(r, bad) \/ Finish(r, bad)
    PROVE  \A d \in Ids \ {req[r].id} :
              /\ d \in spoiled' <=> d \in spoiled
              /\ d \in settled' => d \in settled
  BY DEF Advance, Finish, Release, Continue

LEMMA AdvanceFine ==
    ASSUME TypeOK, NEW r \in Requests, NEW c \in Ids, req[r].id = c, NEW bad \in BOOLEAN, Advance(r, bad),
           req[r].op \in Lifecycle, Fine(c), rec' = rec,
           c \notin spoiled /\ ~bad => Expected(r)'
    PROVE  Fine(c)'
  <1>1. /\ \A s \in Requests \ {r} : req'[s] = req[s]
        /\ req'[r].op = req[r].op /\ req'[r].id = c
    BY DEF TypeOK, Advance, Request
  <1>2. \A s \in Requests : User(s, c)' <=> User(s, c)
    BY <1>1 DEF User
  <1>3. User(r, c) /\ Busy(c) /\ Busy(c)'
    BY <1>2, BusyUsers, BusyUsersNext DEF User
  <1>4. c \in spoiled' <=> c \in spoiled \/ bad
    BY DEF Advance, Continue
  <1>5. c \notin spoiled' => /\ \A q \in Requests \ {r} : ~User(q, c)
                            /\ rec.id # c /\ Expected(r)'
    BY <1>3, <1>4 DEF Fine
  <1>6. QED
    BY <1>2, <1>3, <1>4, <1>5 DEF Fine

LEMMA FinishFine ==
    ASSUME TypeOK, NEW r \in Requests, NEW c \in Ids, req[r].id = c, NEW bad \in BOOLEAN, Finish(r, bad),
           req[r].op \in Lifecycle, Fine(c), rec' = rec,
           c \notin spoiled /\ ~bad => Agrees(c)'
    PROVE  Fine(c)'
  <1>1. /\ \A s \in Requests \ {r} : req'[s] = req[s]
        /\ req'[r] = IdleRequest
        /\ Release(c, OthersOn(r, c) # {} \/ rec.id = c, bad)
    BY DEF TypeOK, Finish
  <1>2. \A s \in Requests : User(s, c)' <=> User(s, c) /\ s # r
    BY <1>1, NoneAssumption DEF User, IdleRequest, Lifecycle, AllOperations
  <1>3. User(r, c)
    BY DEF User
  <1>4. Busy(c)' <=> OthersOn(r, c) # {} \/ rec.id = c
    BY <1>2, BusyUsers, BusyUsersNext
  <1>5. c \notin spoiled => ~Busy(c)'
    BY <1>3, <1>4, BusyUsers DEF Fine
  <1>6. CASE Busy(c)'
    <2>1. c \in spoiled'
      BY <1>1, <1>4, <1>5, <1>6 DEF Release, Continue
    <2>2. QED
      BY <1>6, <2>1 DEF Fine
  <1>7. CASE ~Busy(c)'
    <2>1. /\ c \notin spoiled'
          /\ c \in settled' => ~bad /\ c \notin spoiled
      BY <1>1, <1>4, <1>7 DEF Release
    <2>2. rec'.id # c /\ \A s \in Requests : ~User(s, c)'
      BY <1>7, BusyUsersNext
    <2>3. QED
      BY <2>1, <2>2 DEF Fine
  <1>8. QED
    BY <1>6, <1>7

-----------------------------------------------------------------------------
(* Requests.                                                               *)

\* Accept is where a request begins; only a lifecycle operation engages its id.
LEMMA BeginAccepts ==
    ASSUME TypeOK, NEW r \in Requests, Begin(r)
    PROVE  \E op \in AllOperations, c \in Ids : \E f, pin, call :
              /\ Accept(r, op, c, f, pin, call)
              /\ op \in Lifecycle => Engage(c)
              /\ op \notin Lifecycle => UNCHANGED <<settled, spoiled>>
              /\ op \in {"start", "stop", "restart", "delete"} =>
                    rows[c] # None /\ call = FirstCall(op)
              /\ op \in {"create", "clone"} => call = "k8sCreate"
  <1>1. CASE BeginCreate(r)
    <2>1. PICK c \in Ids : \E f : Accept(r, "create", c, f, "keep", "k8sCreate") /\ Engage(c)
      BY <1>1 DEF BeginCreate
    <2>2. QED
      BY <2>1 DEF Lifecycle, AllOperations
  <1>2. CASE BeginClone(r)
    <2>1. PICK c \in Ids : \E f : Accept(r, "clone", c, f, "keep", "k8sCreate") /\ Engage(c)
      BY <1>2 DEF BeginClone
    <2>2. QED
      BY <2>1 DEF Lifecycle, AllOperations
  <1>3. CASE BeginChange(r)
    <2>1. PICK op \in {"start", "stop", "restart", "delete"}, c \in Ids : \E f :
              /\ rows[c] # None
              /\ Accept(r, op, c, f, "keep", FirstCall(op))
              /\ Engage(c)
      BY <1>3 DEF BeginChange
    <2>2. QED
      BY <2>1 DEF Lifecycle, AllOperations
  <1>4. CASE BeginPatch(r)
    <2>1. PICK c \in Ids : \E f, pin, call :
              /\ Accept(r, "patch", c, f, pin, call)
              /\ UNCHANGED <<settled, spoiled>>
      BY <1>4 DEF BeginPatch
    <2>2. QED
      BY <2>1 DEF Lifecycle, AllOperations
  <1>5. CASE BeginRun(r)
    <2>1. PICK c \in Ids : /\ Accept(r, "run", c, None, "keep", "execute")
                           /\ UNCHANGED <<settled, spoiled>>
      BY <1>5 DEF BeginRun
    <2>2. QED
      BY <2>1 DEF Lifecycle, AllOperations
  <1>6. QED
    BY <1>1, <1>2, <1>3, <1>4, <1>5 DEF Begin

LEMMA FineBegin ==
    ASSUME TypeOK, NEW r \in Requests, Begin(r), NEW d \in Ids, Fine(d)
    PROVE  Fine(d)'
  <1>0. PICK op \in AllOperations, c \in Ids : \E f, pin, call :
              /\ Accept(r, op, c, f, pin, call)
              /\ op \in Lifecycle => Engage(c)
              /\ op \notin Lifecycle => UNCHANGED <<settled, spoiled>>
              /\ op \in {"start", "stop", "restart", "delete"} =>
                    rows[c] # None /\ call = FirstCall(op)
              /\ op \in {"create", "clone"} => call = "k8sCreate"
    BY BeginAccepts
  <1>1. PICK f, pin, call :
              /\ Accept(r, op, c, f, pin, call)
              /\ op \in Lifecycle => Engage(c)
              /\ op \notin Lifecycle => UNCHANGED <<settled, spoiled>>
              /\ op \in {"start", "stop", "restart", "delete"} =>
                    rows[c] # None /\ call = FirstCall(op)
              /\ op \in {"create", "clone"} => call = "k8sCreate"
    BY <1>0
  <1>2. /\ UNCHANGED <<rows, crs, rec>>
        /\ \A s \in Requests \ {r} : req'[s] = req[s]
        /\ req[r] = IdleRequest
        /\ req'[r].op = op /\ req'[r].id = c /\ req'[r].call = call
    BY <1>1 DEF Accept, TypeOK
  <1>3. \A x : ~User(r, x)
    BY <1>2, NoneAssumption DEF User, IdleRequest, Lifecycle, AllOperations
  <1>4. /\ \A s \in Requests \ {r} : User(s, d)' <=> User(s, d)
        /\ User(r, d)' <=> op \in Lifecycle /\ d = c
    BY <1>2 DEF User
  <1>5. CASE op \in Lifecycle /\ d = c
    <2>1. /\ spoiled' = IF Busy(c) THEN spoiled \cup {c} ELSE spoiled
          /\ Busy(c)'
      BY <1>1, <1>4, <1>5, BusyUsersNext DEF Engage
    <2>2. CASE Busy(c)
      BY <1>5, <2>1, <2>2 DEF Fine
    <2>3. CASE ~Busy(c)
      <3>1. rec'.id # c /\ \A q \in Requests \ {r} : ~User(q, c)'
        BY <1>2, <1>4, <1>5, <2>3, BusyUsers
      <3>2. Expected(r)'
        <4>1. CASE op \in {"create", "clone"}
          BY <1>1, <1>2, <4>1 DEF Expected, Creating
        <4>2. CASE op \in {"start", "stop", "restart", "delete"}
          <5>1. rows[c] # None /\ call \in {"k8sCreate", "k8sDelete"}
                /\ (op = "restart" => call = "k8sDelete")
            BY <1>1, <4>2 DEF FirstCall
          <5>2. QED
            BY <1>2, <4>2, <5>1 DEF Expected, Creating, HasRow
        <4>3. QED
          BY <1>5, <4>1, <4>2 DEF Lifecycle, AllOperations
      <3>3. QED
        BY <1>5, <2>1, <2>3, <3>1, <3>2 DEF Fine
    <2>4. QED
      BY <2>2, <2>3
  <1>6. CASE ~(op \in Lifecycle /\ d = c)
    <2>1. /\ d \in spoiled' <=> d \in spoiled
          /\ d \in settled' <=> d \in settled
      BY <1>1, <1>6 DEF Engage
    <2>2. Unseen(d)
      BY <1>2, <1>3, <1>4, <1>6, <2>1 DEF Unseen, HasRow, Runs
    <2>3. QED
      BY <2>2, FineUnseen
  <1>7. QED
    BY <1>5, <1>6

\* A call of a lifecycle operation ends in Advance or in Finish.
LEMMA ServeEnds ==
    ASSUME TypeOK, NEW r \in Requests, Serve(r), req[r].op \in Lifecycle
    PROVE  \E bad \in BOOLEAN : Advance(r, bad) \/ Finish(r, bad)
  <1>1. Serving(req[r])
    BY ServeFrame
  <1>2. req[r].call \notin {"setPinned", "execute"}
    BY <1>1 DEF Serving, Lifecycle
  <1>3. ~SetPinned(r) /\ ~Execute(r)
    BY <1>2 DEF SetPinned, Execute
  <1>4. CASE ProvisionCR(r)
    BY <1>4 DEF ProvisionCR
  <1>5. CASE TeardownCR(r)
    BY <1>5 DEF TeardownCR
  <1>6. CASE InsertRow(r)
    <2>1. PICK o \in StoreOutcomes : Finish(r, o # "ok")
      BY <1>6 DEF InsertRow
    <2>2. QED
      BY <2>1
  <1>7. CASE SetDesired(r)
    <2>1. PICK o \in StoreOutcomes : Advance(r, o # "ok")
      BY <1>7 DEF SetDesired
    <2>2. QED
      BY <2>1
  <1>8. CASE Touch(r)
    BY <1>8 DEF Touch
  <1>9. CASE UpdateConfig(r)
    BY <1>9 DEF UpdateConfig
  <1>10. CASE DeleteRow(r)
    <2>1. PICK o \in StoreOutcomes : Finish(r, o # "ok")
      BY <1>10 DEF DeleteRow
    <2>2. QED
      BY <2>1
  <1>11. CASE Respond(r)
    BY <1>11 DEF Respond
  <1>12. QED
    BY <1>3, <1>4, <1>5, <1>6, <1>7, <1>8, <1>9, <1>10, <1>11 DEF Serve

\* A lifecycle operation on another cluster.
LEMMA FineServeOther ==
    ASSUME TypeOK, NEW r \in Requests, Serve(r), req[r].op \in Lifecycle,
           NEW d \in Ids \ {req[r].id}, Fine(d)
    PROVE  Fine(d)'
  <1>1. /\ rec' = rec /\ Moves(r)
        /\ rows'[d] = rows[d] /\ crs'[d] = crs[d]
    BY ServeFrame DEF Touches
  <1>2. None # d
    BY NoneAssumption
  <1>3. \A q \in Requests : /\ User(q, d)' <=> User(q, d)
                            /\ User(q, d) => req'[q].op = req[q].op /\ req'[q].call = req[q].call
    BY <1>1, <1>2 DEF Moves, User, IdleRequest
  <1>4. (d \in spoiled' <=> d \in spoiled) /\ (d \in settled' => d \in settled)
    BY ServeEnds, LeavesOthers
  <1>5. Unseen(d)
    BY <1>1, <1>3, <1>4 DEF Unseen, HasRow, Runs
  <1>6. QED
    BY <1>5, FineUnseen

\* The calls of patch and run never matter to a row's existence or desired state.
LEMMA FineServeNoLifecycle ==
    ASSUME TypeOK, NEW r \in Requests, Serve(r), req[r].op \notin Lifecycle,
           NEW d \in Ids, Fine(d)
    PROVE  Fine(d)'
  <1> DEFINE c == req[r].id
  <1>1. c \in Ids /\ Serving(req[r]) /\ rec' = rec /\ Moves(r)
    BY ServeFrame
  <1>2. req[r].op \in {"patch", "run"}
        /\ req[r].call \in {"setPinned", "updateConfig", "respond", "execute", "touch"}
    BY <1>1 DEF Serving, Lifecycle, AllOperations
  <1>3. \A q \in Requests : /\ User(q, d)' <=> User(q, d)
                            /\ User(q, d) => req'[q].op = req[q].op /\ req'[q].call = req[q].call
    BY <1>1, NoneAssumption DEF Moves, User, IdleRequest, Lifecycle, AllOperations
  <1>4. ASSUME NEW newRow, NEW o, UpdateRow(c, newRow, o),
               rows[c] # None => newRow # None /\ newRow.desired = rows[c].desired
        PROVE  /\ HasRow(d)' <=> HasRow(d)
               /\ HasRow(d) => rows'[d].desired = rows[d].desired
    BY <1>1, <1>4 DEF TypeOK, UpdateRow, HasRow
  <1>5. /\ rows[c] # None => rows[c] \in Row
        /\ 0 \in 0 .. AgeCap
    BY <1>1, ConstantsAssumption DEF TypeOK
  <1>6. ASSUME /\ HasRow(d)' <=> HasRow(d)
               /\ HasRow(d) => rows'[d].desired = rows[d].desired,
               UNCHANGED <<crs, settled, spoiled>>
        PROVE  Fine(d)'
    <2>1. Unseen(d)
      BY <1>1, <1>3, <1>6 DEF Unseen, HasRow, Runs
    <2>2. QED
      BY <2>1, FineUnseen
  <1>7. ASSUME NEW bad, Finish(r, bad) PROVE UNCHANGED <<settled, spoiled>>
    BY <1>7 DEF Finish
  <1>8. ASSUME Advance(r, FALSE) PROVE UNCHANGED <<settled, spoiled>>
    BY <1>8 DEF Advance, Continue
  <1>9. CASE SetPinned(r)
    <2> DEFINE newRow == [rows[c] EXCEPT !.pinned = (req[r].pin = "pin")]
    <2>1. rows[c] # None => newRow \in Row /\ newRow.desired = rows[c].desired
      BY <1>5 DEF Row
    <2>2. UNCHANGED <<crs, settled, spoiled>> /\ \E o : UpdateRow(c, newRow, o)
      BY <1>7, <1>9 DEF SetPinned
    <2> HIDE DEF newRow
    <2>3. QED
      BY <1>4, <1>6, <2>1, <2>2, NoneAssumption
  <1>10. CASE UpdateConfig(r)
    <2> DEFINE newRow == [rows[c] EXCEPT !.config = req[r].config]
    <2>1. req[r].config \in Configs
      BY <1>1, <1>10 DEF UpdateConfig, Serving
    <2>2. rows[c] # None => newRow \in Row /\ newRow.desired = rows[c].desired
      BY <1>5, <2>1 DEF Row
    <2>3. UNCHANGED <<crs, settled, spoiled>> /\ \E o : UpdateRow(c, newRow, o)
      BY <1>7, <1>8, <1>10 DEF UpdateConfig
    <2> HIDE DEF newRow
    <2>4. QED
      BY <1>4, <1>6, <2>2, <2>3, NoneAssumption
  <1>11. CASE Touch(r)
    <2> DEFINE newRow == [rows[c] EXCEPT !.age = 0]
    <2>1. rows[c] # None => newRow \in Row /\ newRow.desired = rows[c].desired
      BY <1>5 DEF Row
    <2>2. UNCHANGED <<crs, settled, spoiled>> /\ \E o : UpdateRow(c, newRow, o)
      BY <1>7, <1>8, <1>11 DEF Touch
    <2> HIDE DEF newRow
    <2>3. QED
      BY <1>4, <1>6, <2>1, <2>2, NoneAssumption
  <1>12. CASE Execute(r) \/ Respond(r)
    <2>1. UNCHANGED <<rows, crs, settled, spoiled>>
      BY <1>7, <1>12 DEF Execute, Respond
    <2>2. QED
      BY <1>6, <2>1 DEF HasRow
  <1>13. ~ \/ ProvisionCR(r) \/ TeardownCR(r) \/ InsertRow(r)
           \/ SetDesired(r) \/ DeleteRow(r)
    BY <1>2 DEF ProvisionCR, TeardownCR, InsertRow, SetDesired, DeleteRow
  <1>14. QED
    BY <1>9, <1>10, <1>11, <1>12, <1>13 DEF Serve

\* What an undisturbed operation finds.
LEMMA FineExpected ==
    ASSUME NEW r \in Requests, NEW c, req[r].id = c, req[r].op \in Lifecycle,
           Fine(c), c \notin spoiled
    PROVE  Expected(r)
  BY DEF Fine, User

\* A lifecycle operation on its own cluster.
LEMMA FineServeOwn ==
    ASSUME TypeOK, NEW r \in Requests, Serve(r), req[r].op \in Lifecycle,
           NEW c \in Ids, req[r].id = c, Fine(c)
    PROVE  Fine(c)'
  <1>1. Serving(req[r]) /\ rec' = rec /\ req[r] \in Request
    BY ServeFrame, BusySlot DEF Serve, ProvisionCR, TeardownCR, InsertRow, SetDesired,
       Touch, SetPinned, UpdateConfig, DeleteRow, Execute, Respond
  <1>2. ASSUME NEW bad, Advance(r, bad)
        PROVE  /\ req'[r].op = req[r].op /\ req'[r].id = c
               /\ req'[r].call = After(req[r].op, req[r].call)
               /\ Creating(r)' <=> Creating(r)
    BY <1>1, <1>2 DEF TypeOK, Advance, Request, Creating
  <1>3. CASE ProvisionCR(r)
    <2>1. PICK o \in K8sOutcomes :
              /\ IF o # "failed" /\ crs[c] = None
                 THEN crs' = [crs EXCEPT ![c] = req[r].config] ELSE UNCHANGED crs
              /\ IF o = "ok" THEN Advance(r, FALSE) ELSE Finish(r, TRUE)
              /\ rows' = rows /\ req[r].call = "k8sCreate"
      BY <1>3 DEF ProvisionCR
    <2>2. CASE o # "ok"
      BY <1>1, <2>1, <2>2, FinishFine
    <2>3. CASE o = "ok"
      <3>1. req[r].config \in Configs /\ req[r].op \in {"create", "clone", "start", "restart"}
        BY <1>1, <2>1 DEF Serving
      <3>2. Runs(c)' /\ (HasRow(c)' <=> HasRow(c))
        BY <2>1, <2>3, <3>1, NoneAssumption DEF TypeOK, Runs, HasRow
      <3>3. ASSUME c \notin spoiled PROVE Expected(r)'
        <4>1. Expected(r)
          BY <3>3, FineExpected
        <4>2. CASE req[r].op \in {"create", "clone"}
          BY <1>2, <2>1, <2>3, <3>2, <4>2 DEF Expected, Creating
        <4>3. CASE req[r].op \in {"start", "restart"}
          <5>1. req'[r].call = "setRunning"
            BY <1>2, <2>1, <2>3, <4>3, Scripts
          <5>2. HasRow(c)
            BY <4>1, <4>3 DEF Expected, Creating
          <5>3. QED
            BY <1>2, <2>1, <2>3, <3>2, <4>3, <5>1, <5>2 DEF Expected, Creating
        <4>4. QED
          BY <3>1, <4>2, <4>3
      <3>4. QED
        BY <1>1, <2>1, <2>3, <3>3, AdvanceFine
    <2>4. QED
      BY <2>2, <2>3
  <1>4. CASE TeardownCR(r)
    <2>1. PICK o \in K8sOutcomes :
              /\ o # "failed" => crs' = [crs EXCEPT ![c] = None]
              /\ IF o = "ok" THEN Advance(r, FALSE) ELSE Finish(r, TRUE)
              /\ rows' = rows /\ req[r].call = "k8sDelete"
      BY <1>4 DEF TeardownCR
    <2>2. CASE o # "ok"
      BY <1>1, <2>1, <2>2, FinishFine
    <2>3. CASE o = "ok"
      <3>1. req[r].op \in {"stop", "restart", "delete"}
        BY <1>1, <2>1 DEF Serving
      <3>2. ~Runs(c)' /\ (HasRow(c)' <=> HasRow(c))
        BY <2>1, <2>3 DEF TypeOK, Runs, HasRow
      <3>3. ASSUME c \notin spoiled PROVE Expected(r)'
        <4>1. Expected(r)
          BY <3>3, FineExpected
        <4>2. /\ req[r].op \in {"stop", "restart"} => HasRow(c)
              /\ ~Creating(r)
          BY <3>1, <4>1 DEF Expected, Creating
        <4>3. CASE req[r].op = "stop"
          <5>1. req'[r].call = "setStopped"
            BY <1>2, <2>1, <2>3, <4>3, Scripts
          <5>2. QED
            BY <1>2, <2>1, <2>3, <3>2, <4>2, <4>3, <5>1 DEF Expected
        <4>4. CASE req[r].op = "restart"
          <5>1. req'[r].call = "k8sCreate"
            BY <1>2, <2>1, <2>3, <4>4, Scripts
          <5>2. QED
            BY <1>2, <2>1, <2>3, <3>2, <4>2, <4>4, <5>1 DEF Expected
        <4>5. CASE req[r].op = "delete"
          BY <1>2, <2>1, <2>3, <3>2, <4>2, <4>5 DEF Expected
        <4>6. QED
          BY <3>1, <4>3, <4>4, <4>5
      <3>4. QED
        BY <1>1, <2>1, <2>3, <3>3, AdvanceFine
    <2>4. QED
      BY <2>2, <2>3
  <1>5. CASE InsertRow(r)
    <2>1. PICK o \in StoreOutcomes :
              /\ o # "failed" => rows' = [rows EXCEPT ![c] =
                           [config |-> req[r].config, pinned |-> FALSE,
                            desired |-> "Running", age |-> 0]]
              /\ Finish(r, o # "ok")
              /\ crs' = crs /\ req[r].call = "insert"
      BY <1>5 DEF InsertRow
    <2>2. Creating(r) /\ req[r].config \in Configs
      BY <1>1, <2>1 DEF Serving, Creating
    <2>3. [config |-> req[r].config, pinned |-> FALSE, desired |-> "Running", age |-> 0] \in Row
      BY <2>2, ConstantsAssumption DEF Row
    <2>4. ASSUME c \notin spoiled, o = "ok" PROVE Agrees(c)'
      <3>1. Runs(c)
        BY <2>1, <2>2, <2>4, FineExpected DEF Expected, Creating
      <3>2. rows'[c].desired = "Running" /\ rows'[c] # None
        <4> DEFINE new == [config |-> req[r].config, pinned |-> FALSE,
                           desired |-> "Running", age |-> 0]
        <4>1. new # None /\ new.desired = "Running"
          BY <2>3, NoneAssumption
        <4>2. rows' = [rows EXCEPT ![c] = new]
          BY <2>1, <2>4
        <4> HIDE DEF new
        <4>3. QED
          BY <4>1, <4>2 DEF TypeOK
      <3>3. QED
        BY <2>1, <3>1, <3>2 DEF Agrees, Runs
    <2>5. QED
      <3>1. (o # "ok") \in BOOLEAN
        OBVIOUS
      <3>2. QED
        BY <1>1, <2>1, <2>4, <3>1, FinishFine
  <1>6. CASE SetDesired(r)
    <2> DEFINE state == IF req[r].call = "setRunning" THEN "Running" ELSE "Stopped"
               newRow == [rows[c] EXCEPT !.desired = state]
    <2>1. PICK o \in StoreOutcomes : UpdateRow(c, newRow, o) /\ Advance(r, o # "ok")
      BY <1>6 DEF SetDesired
    <2>2. crs' = crs /\ req[r].call \in {"setRunning", "setStopped"}
      BY <1>6 DEF SetDesired
    <2>3. \/ req[r].op \in {"start", "restart"} /\ req[r].call = "setRunning"
          \/ req[r].op = "stop" /\ req[r].call = "setStopped"
      BY <1>1, <2>2 DEF Serving
    <2>4. rows[c] # None => newRow \in Row /\ newRow.desired = state
      BY DEF TypeOK, Row
    <2> HIDE DEF newRow
    <2>5. ASSUME c \notin spoiled, o = "ok" PROVE Expected(r)'
      <3>1. Expected(r) /\ ~Creating(r)
        BY <2>3, <2>5, FineExpected DEF Creating
      <3>2. HasRow(c)
        BY <2>3, <3>1 DEF Expected
      <3>3. rows'[c] = newRow
        BY <2>1, <2>5, <3>2 DEF UpdateRow, HasRow, TypeOK
      <3>4. rows'[c] # None /\ rows'[c].desired = state
        BY <2>4, <3>2, <3>3, NoneAssumption DEF HasRow
      <3>5. CASE req[r].op \in {"start", "restart"} /\ req[r].call = "setRunning"
        <4>1. Runs(c)
          BY <3>1, <3>5 DEF Expected
        <4>2. req'[r].call = "touch"
          BY <1>2, <2>1, <3>5, Scripts
        <4>3. QED
          BY <1>2, <2>1, <2>2, <3>1, <3>4, <3>5, <4>1, <4>2 DEF Expected, Runs, Wanted, HasRow
      <3>6. CASE req[r].op = "stop" /\ req[r].call = "setStopped"
        <4>1. ~Runs(c)
          BY <3>1, <3>6 DEF Expected
        <4>2. req'[r].call = "respond"
          BY <1>2, <2>1, <3>6, Scripts
        <4>3. QED
          BY <1>2, <2>1, <2>2, <3>1, <3>4, <3>6, <4>1, <4>2 DEF Expected, Runs, Wanted, HasRow
      <3>7. QED
        BY <2>3, <3>5, <3>6
    <2>6. (o # "ok") \in BOOLEAN
      OBVIOUS
    <2>7. QED
      BY <1>1, <2>1, <2>5, <2>6, AdvanceFine
  <1>7. CASE Touch(r)
    <2> DEFINE newRow == [rows[c] EXCEPT !.age = 0]
    <2>1. req[r].op \in {"start", "restart"} /\ req[r].call = "touch"
      BY <1>1, <1>7 DEF Touch, Serving, Lifecycle
    <2>2. crs' = crs /\ Advance(r, FALSE) /\ \E o : UpdateRow(c, newRow, o)
      BY <1>7, <2>1 DEF Touch
    <2>3. rows[c] # None => newRow \in Row /\ newRow.desired = rows[c].desired
      BY ConstantsAssumption DEF TypeOK, Row
    <2> HIDE DEF newRow
    <2>4. ASSUME c \notin spoiled PROVE Expected(r)'
      <3>1. Expected(r) /\ ~Creating(r)
        BY <2>1, <2>4, FineExpected DEF Creating
      <3>2. HasRow(c) /\ Runs(c) /\ Wanted(c, "Running")
        BY <2>1, <3>1 DEF Expected
      <3>3. Wanted(c, "Running")'
        BY <2>2, <2>3, <3>2, NoneAssumption DEF UpdateRow, HasRow, TypeOK, Wanted
      <3>4. req'[r].call = "respond"
        BY <1>2, <2>1, <2>2, Scripts
      <3>5. QED
        BY <1>2, <2>1, <2>2, <3>1, <3>2, <3>3, <3>4 DEF Expected, Runs, Wanted, HasRow
    <2>5. QED
      BY <1>1, <2>2, <2>4, AdvanceFine
  <1>8. CASE DeleteRow(r)
    <2>1. PICK o \in StoreOutcomes : UpdateRow(c, None, o) /\ Finish(r, o # "ok")
      BY <1>8 DEF DeleteRow
    <2>2. crs' = crs /\ req[r].call = "deleteRow" /\ req[r].op = "delete"
      BY <1>1, <1>8 DEF DeleteRow, Serving
    <2>3. ASSUME c \notin spoiled, o = "ok" PROVE Agrees(c)'
      <3>1. ~Runs(c)
        BY <2>2, <2>3, FineExpected DEF Expected, Creating
      <3>2. rows'[c] = None
        BY <2>1, <2>3 DEF UpdateRow, TypeOK
      <3>3. QED
        BY <2>2, <3>1, <3>2 DEF Agrees, Runs
    <2>4. (o # "ok") \in BOOLEAN
      OBVIOUS
    <2>5. QED
      BY <1>1, <2>1, <2>3, <2>4, FinishFine
  <1>9. CASE Respond(r)
    <2>1. Finish(r, FALSE) /\ UNCHANGED <<rows, crs>> /\ req[r].call = "respond"
      BY <1>9 DEF Respond
    <2>2. req[r].op \in {"start", "restart", "stop"}
      BY <1>1, <2>1 DEF Serving, Lifecycle
    <2>3. ASSUME c \notin spoiled PROVE Agrees(c)'
      <3>1. Expected(r) /\ ~Creating(r)
        BY <2>2, <2>3, FineExpected DEF Creating
      <3>2. Agrees(c)
        BY <2>1, <2>2, <3>1 DEF Expected, Agrees, Wanted, HasRow, Runs
      <3>3. QED
        BY <2>1, <3>2 DEF Agrees
    <2>4. QED
      BY <1>1, <2>1, <2>3, FinishFine
  <1>10. ~SetPinned(r) /\ ~UpdateConfig(r) /\ ~Execute(r)
    BY <1>1 DEF Serving, Lifecycle, SetPinned, UpdateConfig, Execute
  <1>11. QED
    BY <1>3, <1>4, <1>5, <1>6, <1>7, <1>8, <1>9, <1>10 DEF Serve

-----------------------------------------------------------------------------
(* The reconciler and the environment.                                     *)

LEMMA FineReconcile ==
    ASSUME TypeOK, Reconcile, NEW d \in Ids, Fine(d)
    PROVE  Fine(d)'
  <1> DEFINE c == rec.id
             users == \E q \in Requests : User(q, d)
  <1>0. /\ rec \in Reconciler /\ (rec.id = None <=> rec.call = "get") /\ d # None
        /\ req' = req
    BY ReconcileFrame, NoneAssumption DEF TypeOK
  <1>1. \A q : User(q, d)' <=> User(q, d)
    BY <1>0 DEF User
  <1>2. Busy(d)' <=> users \/ rec'.id = d
    BY <1>1, BusyUsersNext
  <1>3. Busy(d) <=> users \/ rec.id = d
    BY BusyUsers
  <1>4. ASSUME /\ rows'[d] = None <=> rows[d] = None
               /\ HasRow(d) => rows'[d].desired = rows[d].desired
               /\ crs'[d] = crs[d]
               /\ rec'.id # d /\ rec.id # d
               /\ (d \in spoiled' <=> d \in spoiled) /\ (d \in settled' => d \in settled)
        PROVE  Fine(d)'
    <2>1. Unseen(d)
      BY <1>0, <1>1, <1>4 DEF Unseen, HasRow, Runs
    <2>2. QED
      BY <2>1, FineUnseen
  \* The pass lets c go.
  <1>5. ASSUME NEW bad \in BOOLEAN, c = d, rec'.id = None,
               Release(c, OthersOn(None, c) # {}, bad),
               d \notin spoiled /\ ~bad => Agrees(d)'
        PROVE  Fine(d)'
    <2>1. Busy(d)' <=> users
      BY <1>0, <1>2, <1>5
    <2>2. OthersOn(None, c) # {} <=> users
      BY <1>5, BusyUsers
    <2>3. CASE users
      <3>1. d \in spoiled
        BY <1>5, <2>3 DEF Fine
      <3>2. d \in spoiled'
        BY <1>5, <2>2, <2>3, <3>1 DEF Release, Continue
      <3>3. QED
        BY <2>1, <2>3, <3>2 DEF Fine
    <2>4. CASE ~users
      <3>1. d \notin spoiled' /\ (d \in settled' => ~bad /\ d \notin spoiled)
        BY <1>5, <2>2, <2>4 DEF Release
      <3>2. rec'.id # d /\ \A q \in Requests : ~User(q, d)'
        BY <1>0, <1>1, <1>5, <2>4
      <3>3. QED
        BY <1>5, <3>1, <3>2 DEF Fine
    <2>5. QED
      BY <2>3, <2>4
  <1>6. CASE ReconcilerLists
    BY <1>0, <1>4, <1>6 DEF ReconcilerLists, IdleReconciler
  <1>7. ASSUME NEW e \in Ids, NEW o \in StoreOutcomes, ReconcilerGets(e, o)
        PROVE  Fine(d)'
    <2>1. rec.id = None /\ UNCHANGED <<rows, crs>>
      BY <1>0, <1>7 DEF ReconcilerGets
    <2>2. CASE o = "ok" /\ rows[e] # None
      <3>1. /\ rec'.id = e /\ rec'.call = "k8sDelete"
            /\ spoiled' = IF Busy(e) THEN spoiled \cup {e} ELSE spoiled
            /\ settled' = settled
        BY <1>7, <2>2 DEF ReconcilerGets, Engage
      <3>2. CASE d = e
        <4>1. Busy(d) => d \in spoiled'
          BY <3>1, <3>2
        <4>2. ~Busy(d) => \A q \in Requests : ~User(q, d)'
          BY <1>1, <1>3
        <4>3. HasRow(d)' /\ Busy(d)'
          BY <1>2, <2>1, <2>2, <3>1, <3>2 DEF HasRow
        <4>4. Busy(d) <=> users
          BY <1>0, <1>3, <2>1
        <4>5. QED
          BY <1>1, <3>1, <3>2, <4>1, <4>2, <4>3 DEF Fine
      <3>3. CASE d # e
        BY <1>0, <1>4, <2>1, <3>1, <3>3
      <3>4. QED
        BY <3>2, <3>3
    <2>3. CASE ~(o = "ok" /\ rows[e] # None)
      <3>1. rec'.id = None /\ UNCHANGED <<settled, spoiled>>
        BY <1>7, <2>3 DEF ReconcilerGets, NextDue
      <3>2. QED
        BY <1>0, <1>4, <2>1, <3>1
    <2>4. QED
      BY <2>2, <2>3
  <1>8. ASSUME NEW o \in K8sOutcomes, ReconcilerDeletes(o)
        PROVE  Fine(d)'
    <2>1. c \in Ids /\ rows' = rows
      BY <1>0, <1>8 DEF ReconcilerDeletes, Reconciler
    <2>2. crs' = IF o # "failed" THEN [crs EXCEPT ![c] = None] ELSE crs
      BY <1>8 DEF ReconcilerDeletes
    <2>3. CASE o = "ok"
      <3>1. rec'.id = c /\ rec'.call = "mark" /\ UNCHANGED <<settled, spoiled>>
        BY <1>0, <1>8, <2>3 DEF ReconcilerDeletes, Reconciler
      <3>2. CASE d = c
        <4>1. ~Runs(d)' /\ (HasRow(d)' <=> HasRow(d)) /\ Busy(d) /\ Busy(d)'
          BY <1>2, <1>3, <2>1, <2>2, <2>3, <3>1, <3>2 DEF Runs, HasRow, TypeOK
        <4>2. QED
          BY <1>1, <3>1, <3>2, <4>1 DEF Fine
      <3>3. CASE d # c
        BY <1>4, <2>1, <2>2, <3>1, <3>3 DEF TypeOK
      <3>4. QED
        BY <3>2, <3>3
    <2>4. CASE o # "ok"
      <3>0. rec'.id = None
        BY <1>8, <2>4 DEF ReconcilerDeletes, NextDue
      <3>1. rec'.id = None /\ Release(c, OthersOn(None, c) # {}, TRUE)
        BY <1>8, <2>4, <3>0 DEF ReconcilerDeletes
      <3>2. CASE d = c
        BY <1>5, <2>1, <3>1, <3>2
      <3>3. CASE d # c
        <4>1. (d \in spoiled' <=> d \in spoiled) /\ (d \in settled' => d \in settled)
          BY <3>1, <3>3 DEF Release, Continue
        <4>2. crs'[d] = crs[d]
          BY <2>1, <2>2, <3>3 DEF TypeOK
        <4>3. QED
          BY <1>0, <1>4, <2>1, <3>1, <3>3, <4>1, <4>2
      <3>4. QED
        BY <3>2, <3>3
    <2>5. QED
      BY <2>3, <2>4
  <1>9. ASSUME NEW o \in StoreOutcomes, ReconcilerMarks(o)
        PROVE  Fine(d)'
    <2>1. c \in Ids /\ crs' = crs /\ rec.call = "mark"
      BY <1>0, <1>9 DEF ReconcilerMarks, Reconciler
    <2>2. rows' = IF o # "failed" /\ rows[c] # None
                  THEN [rows EXCEPT ![c] = [rows[c] EXCEPT !.desired = "Stopped"]] ELSE rows
      BY <1>9 DEF ReconcilerMarks
    <2>3. rec'.id = None /\ Release(c, OthersOn(None, c) # {}, o # "ok")
      BY <1>9 DEF ReconcilerMarks, NextDue
    <2>4. CASE d = c
      <3>1. ASSUME d \notin spoiled, o = "ok" PROVE Agrees(d)'
        <4>1. HasRow(d) /\ ~Runs(d)
          BY <2>1, <2>4, <3>1 DEF Fine
        <4>2. rows[d] \in Row /\ rows'[d] = [rows[d] EXCEPT !.desired = "Stopped"]
          BY <2>1, <2>2, <2>4, <3>1, <4>1 DEF HasRow, TypeOK
        <4>3. rows'[d].desired = "Stopped"
          BY <4>2 DEF Row
        <4>4. QED
          BY <2>1, <4>1, <4>3 DEF Agrees, Runs
      <3>2. (o # "ok") \in BOOLEAN
        OBVIOUS
      <3>3. QED
        BY <1>5, <2>3, <2>4, <3>1, <3>2
    <2>5. CASE d # c
      <3>1. (d \in spoiled' <=> d \in spoiled) /\ (d \in settled' => d \in settled)
        BY <2>3, <2>5 DEF Release, Continue
      <3>2. rows'[d] = rows[d]
        BY <2>1, <2>2, <2>5 DEF TypeOK
      <3>3. QED
        BY <1>0, <1>4, <2>1, <2>3, <2>5, <3>1, <3>2
    <2>6. QED
      BY <2>4, <2>5
  <1>10. QED
    BY <1>6, <1>7, <1>8, <1>9 DEF Reconcile

LEMMA FineEnvironment ==
    ASSUME TypeOK, Tick \/ Crash \/ (\E c \in Ids : OutOfBandDelete(c)),
           NEW d \in Ids, Fine(d)
    PROVE  Fine(d)'
  <1>1. CASE Tick
    <2>1. UNCHANGED <<crs, req, rec, settled, spoiled>>
      BY <1>1 DEF Tick, history
    <2>2. rows'[d] = IF rows[d] = None THEN None ELSE Older(rows[d])
      BY <1>1 DEF Tick
    <2>3. rows[d] # None => Older(rows[d]) \in Row /\ Older(rows[d]).desired = rows[d].desired
      BY ConstantsAssumption DEF TypeOK, Row, Older
    <2>4. /\ HasRow(d)' <=> HasRow(d)
          /\ HasRow(d) => rows'[d].desired = rows[d].desired
      BY <2>2, <2>3, NoneAssumption DEF HasRow
    <2>5. Unseen(d)
      BY <2>1, <2>4 DEF Unseen, User, Runs, HasRow
    <2>6. QED
      BY <2>5, FineUnseen
  <1>2. CASE Crash
    <2>1. rec'.id # d /\ \A q \in Requests : ~User(q, d)'
      BY <1>2, NoneAssumption DEF Crash, User, IdleRequest, IdleReconciler, Lifecycle, AllOperations
    <2>2. d \notin spoiled' /\ (d \in settled' => d \in settled /\ ~Busy(d))
      BY <1>2 DEF Crash
    <2>3. d \in settled' => Agrees(d)'
      BY <1>2, <2>2 DEF Fine, Crash, Agrees
    <2>4. QED
      BY <2>1, <2>2, <2>3 DEF Fine
  <1>3. ASSUME NEW c \in Ids, OutOfBandDelete(c)
        PROVE  Fine(d)'
    <2>1. UNCHANGED <<rows, req, rec>>
      BY <1>3 DEF OutOfBandDelete
    <2>2. \A q : User(q, d)' <=> User(q, d)
      BY <2>1 DEF User
    <2>3. CASE d = c
      <3>1. /\ d \notin settled' /\ (Busy(d) => d \in spoiled')
            /\ ~Busy(d) => spoiled' = spoiled
        BY <1>3, <2>3 DEF OutOfBandDelete
      <3>2. Busy(d)' <=> Busy(d)
        BY <2>1, <2>2, BusyUsers, BusyUsersNext
      <3>3. CASE Busy(d)
        BY <3>1, <3>2, <3>3 DEF Fine
      <3>4. CASE ~Busy(d)
        <4>1. d \notin spoiled' /\ rec'.id # d /\ \A q \in Requests : ~User(q, d)'
          BY <2>1, <2>2, <3>1, <3>4, BusyUsers DEF Fine
        <4>2. QED
          BY <3>1, <4>1 DEF Fine
      <3>5. QED
        BY <3>3, <3>4
    <2>4. CASE d # c
      <3>1. /\ crs'[d] = crs[d]
            /\ d \in settled' <=> d \in settled
            /\ d \in spoiled' <=> d \in spoiled
        BY <1>3, <2>4 DEF OutOfBandDelete, TypeOK
      <3>2. Unseen(d)
        BY <2>1, <2>2, <3>1 DEF Unseen, User, Runs, HasRow
      <3>3. QED
        BY <3>2, FineUnseen
    <2>5. QED
      BY <2>3, <2>4
  <1>4. QED
    BY <1>1, <1>2, <1>3

LEMMA FineStep ==
    ASSUME TypeOK, [Next]_vars, NEW d \in Ids, Fine(d)
    PROVE  Fine(d)'
  <1>1. CASE UNCHANGED vars
    <2>1. Unseen(d)
      BY <1>1 DEF vars, system, history, Unseen, User, Runs, HasRow
    <2>2. QED
      BY <2>1, FineUnseen
  <1>2. ASSUME NEW r \in Requests, Serve(r)
        PROVE  Fine(d)'
    BY <1>2, FineServeOther, FineServeOwn, FineServeNoLifecycle
  <1>3. QED
    BY <1>1, <1>2, FineBegin, FineReconcile, FineEnvironment DEF Next

-----------------------------------------------------------------------------
LEMMA FineInit == Init => \A c \in Ids : Fine(c)
  <1> SUFFICES ASSUME Init, NEW c \in Ids PROVE Fine(c)
    OBVIOUS
  <1>1. c \notin spoiled /\ rec.id # c /\ Agrees(c)
    BY NoneAssumption DEF Init, IdleReconciler, Agrees
  <1>2. \A r \in Requests : ~User(r, c)
    BY NoneAssumption DEF Init, IdleRequest, User, Lifecycle, AllOperations
  <1>3. QED
    BY <1>1, <1>2 DEF Fine

\* Every cluster is as OnCourse and SettledAgree want it, in every state.
Course == \A c \in Ids : Fine(c)

LEMMA CourseHolds == Spec => [](TypeOK /\ Course)
  <1>1. Init => Course
    BY FineInit DEF Course
  <1>2. TypeOK /\ Course /\ [Next]_vars => Course'
    BY FineStep DEF Course
  <1>3. QED
    BY <1>1, <1>2, TypeInit, TypeStep, PTL DEF Spec

\* An operation that has its cluster for itself, and has seen no fault, finds the
\* row and the CR at every call as its own earlier calls left them.
THEOREM UndisturbedStayOnCourse == Spec => []OnCourse
  <1>1. TypeOK /\ Course => OnCourse
    BY FineEverywhere DEF Course
  <1>2. QED
    BY <1>1, CourseHolds, PTL

\* At rest, a cluster whose last lifecycle operation or idle stop overlapped no
\* other and saw no fault is in the same state in Postgres and in Kubernetes: it
\* has a CR exactly if it has a row that wants it Running.
THEOREM SettledClustersAgree == Spec => []SettledAgree
  <1>1. TypeOK /\ Course => SettledAgree
    BY FineEverywhere DEF Course
  <1>2. QED
    BY <1>1, CourseHolds, PTL

-----------------------------------------------------------------------------
(***************************************************************************)
(* That a CR carries the persisted config of its row.                      *)
(***************************************************************************)

(* The invariant, cluster by cluster and request by request.               *)

Rendered(c) ==
    c \notin stale /\ crs[c] # None /\ rows[c] # None => crs[c] = rows[c].config

\* The calls before which a handler still needs the config it loaded.
WillRender == {"k8sDelete", "k8sCreate"}

Snapshot(r) ==
    LET c == req[r].id IN
    /\ /\ req[r].op \in {"start", "restart"} /\ r \notin stale
       /\ req[r].call \in WillRender /\ rows[c] # None
       => req[r].config = rows[c].config
    /\ Creating(r) /\ crs[c] # None => crs[c] = req[r].config

Current == (\A c \in Ids : Rendered(c)) /\ (\A r \in Requests : Snapshot(r))

LEMMA CurrentIs == Current <=> CRHasPersistedConfig /\ SnapshotsCurrent
  BY DEF Current, Rendered, Snapshot, WillRender, CRHasPersistedConfig, SnapshotsCurrent

-----------------------------------------------------------------------------
(* Steps that render nothing.                                              *)

\* A row keeps its config or is marked, and so is whoever has read it.
Keeps(c, s) == rows'[c] # None => /\ rows[c] # None
                                  /\ rows'[c].config = rows[c].config \/ s \in stale'

\* The slot s is emptied, or its request goes on with the same data.
GoesOn(s) ==
    \/ req'[s] = IdleRequest
    \/ /\ req'[s].op = req[s].op /\ req'[s].id = req[s].id /\ req'[s].config = req[s].config
       /\ req'[s].op \in {"start", "restart"} /\ req'[s].call \in WillRender =>
             req[s].call \in WillRender

LEMMA CurrentKept ==
    ASSUME TypeOK, Current, stale \subseteq stale',
           \A c \in Ids : Keeps(c, c) /\ crs'[c] \in {crs[c], None},
           \A s \in Requests : GoesOn(s) /\ (req[s].id \in Ids => Keeps(req[s].id, s))
    PROVE  Current'
  <1>1. ASSUME NEW c \in Ids PROVE Rendered(c)'
    BY <1>1 DEF Current, Rendered, Keeps
  <1>2. ASSUME NEW s \in Requests PROVE Snapshot(s)'
    <2>1. CASE req'[s] = IdleRequest
      BY <2>1, NoneAssumption DEF Snapshot, IdleRequest, Creating, AllOperations
    <2>2. CASE req'[s] # IdleRequest
      <3>1. req'[s].op = req[s].op /\ req'[s].id = req[s].id /\ req'[s].config = req[s].config
        BY <2>2 DEF GoesOn
      <3>2. CASE req[s].op \in {"start", "restart", "create", "clone"}
        <4>1. req[s].id \in Ids
          BY <3>2, UsersHaveIds DEF Lifecycle, AllOperations
        <4>2. Snapshot(s)
          BY DEF Current
        <4>3. /\ req[s].op \in {"start", "restart"} /\ s \notin stale'
              /\ req'[s].call \in WillRender /\ rows'[req[s].id] # None
              => req[s].config = rows'[req[s].id].config
          BY <2>2, <3>1, <4>1, <4>2 DEF Snapshot, Keeps, GoesOn
        <4>4. Creating(s) /\ crs'[req[s].id] # None => crs'[req[s].id] = req[s].config
          BY <4>1, <4>2 DEF Snapshot
        <4>5. Creating(s)' <=> Creating(s)
          BY <3>1 DEF Creating
        <4>6. QED
          BY <3>1, <4>3, <4>4, <4>5 DEF Snapshot
      <3>3. CASE req[s].op \notin {"start", "restart", "create", "clone"}
        BY <3>1, <3>3 DEF Snapshot, Creating
      <3>4. QED
        BY <3>2, <3>3
    <2>3. QED
      BY <2>1, <2>2
  <1>3. QED
    BY <1>1, <1>2 DEF Current

-----------------------------------------------------------------------------
(* Requests.                                                               *)

\* A start or restart begins with the config of the row it read.
LEMMA BeginReads ==
    ASSUME TypeOK, NEW r \in Requests, Begin(r)
    PROVE  /\ stale' = stale \ {r}
           /\ req'[r].op \in {"start", "restart"} => req'[r].config = rows[req'[r].id].config
  <1>1. ASSUME NEW op, NEW c \in Ids, NEW f, NEW pin, NEW call,
               Accept(r, op, c, f, pin, call)
        PROVE  /\ stale' = stale \ {r}
               /\ req'[r].op = op /\ req'[r].id = c /\ req'[r].config = f
    BY <1>1 DEF Accept, TypeOK
  <1>2. CASE BeginCreate(r)
    BY <1>1, <1>2 DEF BeginCreate
  <1>3. CASE BeginClone(r)
    <2>1. PICK c \in Ids : \E f : Accept(r, "clone", c, f, "keep", "k8sCreate")
      BY <1>3 DEF BeginClone
    <2>2. QED
      BY <1>1, <2>1
  <1>4. CASE BeginChange(r)
    <2>1. PICK op \in {"start", "stop", "restart", "delete"}, c \in Ids : \E f :
              /\ op \in {"start", "restart"} => f = rows[c].config
              /\ Accept(r, op, c, f, "keep", FirstCall(op))
      BY <1>4 DEF BeginChange
    <2>2. QED
      BY <1>1, <2>1
  <1>5. CASE BeginPatch(r)
    <2>1. PICK c \in Ids : \E f, pin, call : Accept(r, "patch", c, f, pin, call)
      BY <1>5 DEF BeginPatch
    <2>2. QED
      BY <1>1, <2>1
  <1>6. CASE BeginRun(r)
    <2>1. PICK c \in Ids : Accept(r, "run", c, None, "keep", "execute")
      BY <1>6 DEF BeginRun
    <2>2. QED
      BY <1>1, <2>1
  <1>7. QED
    BY <1>2, <1>3, <1>4, <1>5, <1>6 DEF Begin

LEMMA CurrentBegin ==
    ASSUME TypeOK, CreatorAlone, Current, NEW r \in Requests, Begin(r)
    PROVE  Current'
  <1>1. /\ UNCHANGED <<rows, crs>>
        /\ \A s \in Requests \ {r} : req'[s] = req[s]
        /\ req'[r].id \in Ids
        /\ Creating(r)' => crs[req'[r].id] = None
    BY BeginFrame DEF Issue, CreatorAlone, Creating
  <1>2. /\ stale' = stale \ {r} /\ r \notin Ids
        /\ req'[r].op \in {"start", "restart"} => req'[r].config = rows[req'[r].id].config
    BY BeginReads, NoneAssumption
  <1>3. \A c \in Ids : Rendered(c)'
    BY <1>1, <1>2 DEF Current, Rendered
  <1>4. ASSUME NEW s \in Requests \ {r} PROVE Snapshot(s)'
    BY <1>1, <1>2 DEF Current, Snapshot, Creating
  <1>5. Snapshot(r)'
    BY <1>1, <1>2 DEF Snapshot
  <1>6. QED
    BY <1>3, <1>4, <1>5 DEF Current

\* After k8sCreate a handler renders no more; k8sDelete comes before it only.
LEMMA AfterRender == \A op, call : After(op, call) \in WillRender => call \in WillRender
  BY DEF After, WillRender

LEMMA ServeGoesOn ==
    ASSUME TypeOK, NEW r \in Requests, Serve(r), NEW s \in Requests
    PROVE  GoesOn(s)
  <1>1. Moves(r) /\ Serving(req[r])
    BY ServeFrame
  <1>2. ASSUME req'[r] # IdleRequest, req[r].op \in {"start", "restart"},
               req'[r].call \in WillRender
        PROVE  req[r].call \in WillRender
    <2>1. PICK bad : Advance(r, bad) \/ Finish(r, bad)
      BY <1>2, ServeEnds DEF Lifecycle, AllOperations
    <2>2. req'[r].call = After(req[r].op, req[r].call)
      BY <1>2, <2>1, FinishMoves DEF Advance, Finish, TypeOK, Request
    <2>3. QED
      BY <1>2, <2>2, AfterRender
  <1>3. CASE s = r
    BY <1>1, <1>2, <1>3 DEF Moves, GoesOn
  <1>4. CASE s # r
    BY <1>1, <1>4 DEF Moves, GoesOn
  <1>5. QED
    BY <1>3, <1>4

\* k8s.Create: what r renders is what it has read.
LEMMA CurrentProvision ==
    ASSUME TypeOK, CreatorAlone, Current, NEW r \in Requests, ProvisionCR(r),
           NEW c, req[r].id = c
    PROVE  Current'
  <1>1. c \in Ids /\ Serving(req[r]) /\ req[r].call = "k8sCreate" /\ rows' = rows
    BY BusySlot DEF ProvisionCR
  <1>2. \A s \in Requests : GoesOn(s)
    BY ServeGoesOn DEF Serve
  <1>3. PICK o \in K8sOutcomes :
              /\ IF o # "failed" /\ crs[c] = None
                 THEN /\ crs' = [crs EXCEPT ![c] = req[r].config]
                      /\ stale' = IF r \in stale THEN stale \cup {c} ELSE stale \ {c}
                 ELSE UNCHANGED <<crs, stale>>
    BY DEF ProvisionCR
  <1>4. CASE UNCHANGED <<crs, stale>>
    BY <1>1, <1>2, <1>4, CurrentKept DEF Keeps
  <1>5. CASE /\ crs[c] = None
             /\ crs' = [crs EXCEPT ![c] = req[r].config]
             /\ stale' = IF r \in stale THEN stale \cup {c} ELSE stale \ {c}
    <2>1. req[r].op \in {"create", "clone", "start", "restart"}
      BY <1>1 DEF Serving
    <2>2. Rendered(c)'
      <3>1. CASE Creating(r)
        BY <1>1, <3>1 DEF CreatorAlone, Rendered
      <3>2. CASE req[r].op \in {"start", "restart"}
        BY <1>1, <1>5, <3>2 DEF Current, Snapshot, Rendered, TypeOK, WillRender
      <3>3. QED
        BY <2>1, <3>1, <3>2 DEF Creating
    <2>3. ASSUME NEW d \in Ids \ {c} PROVE Rendered(d)'
      BY <1>1, <1>5 DEF Current, Rendered
    <2>4. ASSUME NEW s \in Requests PROVE Snapshot(s)'
      <3>1. s \in stale' <=> s \in stale
        BY <1>1, <1>5, NoneAssumption
      <3>2. CASE req'[s] = IdleRequest
        BY <3>2, NoneAssumption DEF Snapshot, IdleRequest, Creating, AllOperations
      <3>3. CASE req'[s] # IdleRequest
        <4>1. /\ req'[s].op = req[s].op /\ req'[s].id = req[s].id
              /\ req'[s].config = req[s].config
              /\ req'[s].op \in {"start", "restart"} /\ req'[s].call \in WillRender =>
                    req[s].call \in WillRender
          BY <1>2, <3>3 DEF GoesOn
        <4>2. ASSUME Creating(s), crs'[req[s].id] # None
              PROVE  crs'[req[s].id] = req[s].config
          <5>1. CASE s = r
            BY <1>1, <1>5, <5>1 DEF TypeOK
          <5>2. CASE s # r
            <6>1. req[s].id # c /\ req[s].id \in Ids
              BY <4>2, <5>2, UsersHaveIds DEF CreatorAlone, Creating, Lifecycle, AllOperations
            <6>2. QED
              BY <1>1, <1>5, <4>2, <6>1 DEF Current, Snapshot
          <5>3. QED
            BY <5>1, <5>2
        <4>3. Creating(s)' <=> Creating(s)
          BY <4>1 DEF Creating
        <4>4. QED
          BY <1>1, <3>1, <4>1, <4>2, <4>3 DEF Current, Snapshot
      <3>4. QED
        BY <3>2, <3>3
    <2>5. QED
      BY <2>2, <2>3, <2>4 DEF Current
  <1>6. QED
    BY <1>3, <1>4, <1>5

\* store.CreateCluster: the row gets the config its CR was rendered from.
LEMMA CurrentInsert ==
    ASSUME TypeOK, CreatorAlone, Current, NEW r \in Requests, InsertRow(r),
           NEW c, req[r].id = c
    PROVE  Current'
  <1> DEFINE new == [config |-> req[r].config, pinned |-> FALSE,
                     desired |-> "Running", age |-> 0]
  <1>1. c \in Ids /\ Creating(r) /\ req[r].call = "insert" /\ UNCHANGED <<crs, stale>>
    BY BusySlot DEF InsertRow, Serving, Creating
  <1>2. \A s \in Requests : GoesOn(s)
    BY ServeGoesOn DEF Serve
  <1>3. rows' = rows \/ rows' = [rows EXCEPT ![c] = new]
    BY DEF InsertRow
  <1>4. new.config = req[r].config
    OBVIOUS
  <1> HIDE DEF new
  <1>5. ASSUME NEW d \in Ids PROVE Rendered(d)'
    <2>1. CASE d = c
      <3>1. crs[c] # None => crs[c] = req[r].config
        BY <1>1 DEF Current, Snapshot
      <3>2. rows'[c] # None => rows'[c] = rows[c] \/ rows'[c].config = req[r].config
        BY <1>1, <1>3, <1>4 DEF TypeOK
      <3>3. QED
        BY <1>1, <2>1, <3>1, <3>2 DEF Current, Rendered
    <2>2. CASE d # c
      BY <1>1, <1>3, <2>2 DEF Current, Rendered, TypeOK
    <2>3. QED
      BY <2>1, <2>2
  <1>6. req'[r] = IdleRequest
    BY DEF InsertRow, Finish, TypeOK
  <1>7. ASSUME NEW s \in Requests \ {r} PROVE Snapshot(s)'
    <2>1. req[s].id # c
      BY <1>1 DEF CreatorAlone
    <2>2. req[s].id \in Ids => rows'[req[s].id] = rows[req[s].id]
      BY <1>1, <1>3, <2>1 DEF TypeOK
    <2>3. req'[s] = req[s]
      BY DEF InsertRow, Finish, TypeOK
    <2>4. Creating(s) \/ req[s].op \in {"start", "restart"} => req[s].id \in Ids
      BY UsersHaveIds DEF Creating, Lifecycle, AllOperations
    <2>5. QED
      BY <1>1, <2>2, <2>3, <2>4 DEF Current, Snapshot, Creating
  <1>8. Snapshot(r)'
    BY <1>6, NoneAssumption DEF Snapshot, IdleRequest, Creating, AllOperations
  <1>9. QED
    BY <1>5, <1>7, <1>8 DEF Current

LEMMA UpdateRowKeeps ==
    ASSUME TypeOK, NEW c \in Ids, NEW newRow, NEW o, UpdateRow(c, newRow, o),
           rows[c] # None => newRow = None \/ newRow.config = rows[c].config
    PROVE  \A d \in Ids : \A x : Keeps(d, x)
  BY DEF TypeOK, UpdateRow, Keeps

LEMMA CurrentServe ==
    ASSUME TypeOK, CreatorAlone, Current, NEW r \in Requests, Serve(r)
    PROVE  Current'
  <1> DEFINE c == req[r].id
  <1>1. c \in Ids
    BY ServeFrame
  <1>2. \A s \in Requests : GoesOn(s)
    BY ServeGoesOn
  <1>3. rows[c] # None => rows[c] \in Row
    BY <1>1 DEF TypeOK
  <1>4. ASSUME UNCHANGED <<crs, stale>>, \A d \in Ids : \A x : Keeps(d, x) PROVE Current'
    BY <1>2, <1>4, CurrentKept
  <1>5. CASE SetDesired(r)
    <2> DEFINE newRow == [rows[c] EXCEPT !.desired =
                            IF req[r].call = "setRunning" THEN "Running" ELSE "Stopped"]
    <2>1. rows[c] # None => newRow.config = rows[c].config
      BY <1>3 DEF Row
    <2>2. UNCHANGED <<crs, stale>> /\ \E o : UpdateRow(c, newRow, o)
      BY <1>5 DEF SetDesired
    <2> HIDE DEF newRow
    <2>3. QED
      BY <1>1, <1>4, <2>1, <2>2, UpdateRowKeeps
  <1>6. CASE Touch(r)
    <2> DEFINE newRow == [rows[c] EXCEPT !.age = 0]
    <2>1. rows[c] # None => newRow.config = rows[c].config
      BY <1>3 DEF Row
    <2>2. UNCHANGED <<crs, stale>> /\ \E o : UpdateRow(c, newRow, o)
      BY <1>6 DEF Touch
    <2> HIDE DEF newRow
    <2>3. QED
      BY <1>1, <1>4, <2>1, <2>2, UpdateRowKeeps
  <1>7. CASE SetPinned(r)
    <2> DEFINE newRow == [rows[c] EXCEPT !.pinned = (req[r].pin = "pin")]
    <2>1. rows[c] # None => newRow.config = rows[c].config
      BY <1>3 DEF Row
    <2>2. UNCHANGED <<crs, stale>> /\ \E o : UpdateRow(c, newRow, o)
      BY <1>7 DEF SetPinned
    <2> HIDE DEF newRow
    <2>3. QED
      BY <1>1, <1>4, <2>1, <2>2, UpdateRowKeeps
  <1>8. CASE DeleteRow(r)
    <2>1. UNCHANGED <<crs, stale>> /\ \E o : UpdateRow(c, None, o)
      BY <1>8 DEF DeleteRow
    <2>2. QED
      BY <1>1, <1>4, <2>1, UpdateRowKeeps
  <1>9. CASE UpdateConfig(r)
    <2>1. /\ crs' = crs /\ stale \subseteq stale' /\ c \in stale'
          /\ \A s \in Requests : req[s].id = c => s \in stale'
          /\ \E o, newRow : UpdateRow(c, newRow, o)
      BY <1>9 DEF UpdateConfig
    <2>2. \A d \in Ids \ {c} : rows'[d] = rows[d]
      BY <1>1, <2>1, UpdateRowTouches
    <2>3. rows'[c] # None => rows[c] # None
      BY <1>1, <2>1, UpdateRowTouches
    <2>4. \A d \in Ids : Keeps(d, d)
      BY <2>1, <2>2, <2>3 DEF Keeps
    <2>5. \A s \in Requests : req[s].id \in Ids => Keeps(req[s].id, s)
      BY <2>1, <2>2, <2>3 DEF Keeps
    <2>6. QED
      BY <1>2, <2>1, <2>4, <2>5, CurrentKept
  <1>10. CASE TeardownCR(r)
    <2>1. UNCHANGED <<rows, stale>> /\ \A d \in Ids : crs'[d] \in {crs[d], None}
      BY <1>1, <1>10 DEF TeardownCR, TypeOK
    <2>2. QED
      BY <1>2, <2>1, CurrentKept DEF Keeps
  <1>11. CASE Execute(r) \/ Respond(r)
    BY <1>4, <1>11 DEF Execute, Respond, Keeps
  <1>12. QED
    BY <1>5, <1>6, <1>7, <1>8, <1>9, <1>10, <1>11, CurrentProvision, CurrentInsert DEF Serve

-----------------------------------------------------------------------------
(* The reconciler and the environment render nothing.                      *)

LEMMA CurrentReconcile ==
    ASSUME TypeOK, Current, Reconcile
    PROVE  Current'
  <1>1. /\ req' = req
        /\ \A d \in Ids : /\ rows'[d] = None <=> rows[d] = None
                          /\ crs'[d] \in {crs[d], None}
                          /\ d # rec.id => rows'[d] = rows[d]
    BY ReconcileFrame
  <1>2. stale' = stale
    BY DEF Reconcile, ReconcilerLists, ReconcilerGets, ReconcilerDeletes, ReconcilerMarks
  <1>3. ASSUME NEW d \in Ids, rows[d] # None PROVE rows'[d].config = rows[d].config
    <2>1. CASE \E o \in StoreOutcomes : ReconcilerMarks(o)
      <3>1. CASE d = rec.id
        <4>1. rows' \in {rows, [rows EXCEPT ![d] = [rows[d] EXCEPT !.desired = "Stopped"]]}
          BY <2>1, <3>1 DEF ReconcilerMarks
        <4>2. rows[d] \in Row
          BY <1>3 DEF TypeOK
        <4>3. [rows[d] EXCEPT !.desired = "Stopped"].config = rows[d].config
          BY <4>2 DEF Row
        <4>4. QED
          BY <4>1, <4>3 DEF TypeOK
      <3>2. QED
        BY <1>1, <3>1
    <2>2. CASE ~ \E o \in StoreOutcomes : ReconcilerMarks(o)
      BY <2>2 DEF Reconcile, ReconcilerLists, ReconcilerGets, ReconcilerDeletes
    <2>3. QED
      BY <2>1, <2>2
  <1>4. \A d \in Ids : \A x : Keeps(d, x)
    BY <1>1, <1>3 DEF Keeps
  <1>5. \A s \in Requests : GoesOn(s)
    BY <1>1 DEF GoesOn
  <1>6. QED
    BY <1>1, <1>2, <1>4, <1>5, CurrentKept

LEMMA CurrentEnvironment ==
    ASSUME TypeOK, Current, Tick \/ Crash \/ \E c \in Ids : OutOfBandDelete(c)
    PROVE  Current'
  <1>1. CASE Tick
    <2>1. UNCHANGED <<crs, req, stale>>
      BY <1>1 DEF Tick, history
    <2>2. ASSUME NEW d \in Ids, NEW x PROVE Keeps(d, x)
      <3>1. rows'[d] = IF rows[d] = None THEN None ELSE Older(rows[d])
        BY <1>1 DEF Tick
      <3>2. rows[d] # None => Older(rows[d]).config = rows[d].config
        BY DEF TypeOK, Row, Older
      <3>3. QED
        BY <3>1, <3>2 DEF Keeps
    <2>3. \A s \in Requests : GoesOn(s)
      BY <2>1 DEF GoesOn
    <2>4. QED
      BY <2>1, <2>2, <2>3, CurrentKept
  <1>2. CASE Crash
    <2>1. UNCHANGED <<rows, crs, stale>> /\ \A s \in Requests : req'[s] = IdleRequest
      BY <1>2 DEF Crash
    <2>2. QED
      BY <2>1, CurrentKept DEF GoesOn, Keeps
  <1>3. CASE \E c \in Ids : OutOfBandDelete(c)
    <2>1. UNCHANGED <<rows, req, stale>> /\ \A d \in Ids : crs'[d] \in {crs[d], None}
      BY <1>3 DEF OutOfBandDelete, TypeOK
    <2>2. QED
      BY <2>1, CurrentKept DEF GoesOn, Keeps
  <1>4. QED
    BY <1>1, <1>2, <1>3

-----------------------------------------------------------------------------
LEMMA CurrentInit == Init => Current
  BY NoneAssumption DEF Init, Current, Rendered, Snapshot, IdleRequest, Creating, AllOperations

LEMMA CurrentStep == TypeOK /\ CreatorAlone /\ Current /\ [Next]_vars => Current'
  <1>1. CASE UNCHANGED vars
    BY <1>1 DEF vars, system, history, Current, Rendered, Snapshot, Creating
  <1>2. QED
    BY <1>1, CurrentBegin, CurrentServe, CurrentReconcile, CurrentEnvironment DEF Next

LEMMA CurrentHolds == Spec => []Current
  BY TypeInit, TypeStep, CreatorAloneInit, CreatorAloneStep, CurrentInit, CurrentStep, PTL
     DEF Spec

\* The config a handler keeps across its calls, to render a CR from, is the one in
\* the row unless the row was edited after the handler read it; and the CR of a
\* cluster being created carries the config its row will be inserted with.
THEOREM SnapshotsAreCurrent == Spec => []SnapshotsCurrent
  BY CurrentIs, CurrentHolds, PTL

\* A CR carries exactly the persisted config of its row, unless that config was
\* edited after the handler that rendered the CR had read it.
THEOREM CRsHavePersistedConfig == Spec => []CRHasPersistedConfig
  BY CurrentIs, CurrentHolds, PTL
=============================================================================
