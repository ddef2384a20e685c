------------------------ MODULE NotebookEditorProofs ------------------------
(***************************************************************************)
(* Proofs about NotebookEditor, for any number of requests in flight and   *)
(* of contents, all faults, and with or without another tab.               *)
(*                                                                         *)
(* CleanIsStoredUnlessCrossed is not inductive: while a request about the  *)
(* content is in flight, Course says what its answer will do to the cells. *)
(***************************************************************************)
EXTENDS NotebookEditor, TLAPS

-----------------------------------------------------------------------------
(* Type correctness.                                                       *)

LEMMA FreeSlot == Free \notin Request /\ 0 \in Contents
  BY ConstantsAssumption DEF Free, Request, Contents

LEMMA TypeInit == Init => TypeOK
  <1> SUFFICES ASSUME Init
               PROVE  TypeOK
    OBVIOUS
  <1>1. net \in [Slots -> Request \cup {Free}]
    BY FreeSlot DEF Init, Request, Kinds, Movers
  <1> QED
    BY <1>1, FreeSlot DEF Init, TypeOK

LEMMA TypeUser ==
    ASSUME TypeOK, NEW s \in Slots, User(s)
    PROVE  TypeOK'
  <1> USE DEF TypeOK, store
  <1>0. ASSUME NEW kind \in Kinds, NEW content \in Contents, Send(s, kind, content)
        PROVE  net' \in [Slots -> Request \cup {Free}]
    BY <1>0 DEF Send, Request
  <1>1. crossed' \in BOOLEAN
    BY DEF User, Save, Restore, Run, Retry, Reopen, Ask, Begins
  <1>2. CASE Save(s)
    BY <1>0, <1>1, <1>2 DEF Save, Kinds, Movers
  <1>3. CASE Restore(s)
    <2>1. PICK v \in revisions : Send(s, "restore", v)
      BY <1>3 DEF Restore
    <2> QED
      BY <1>0, <1>1, <1>3, <2>1 DEF Restore, editor, Kinds, Movers
  <1>4. CASE Run(s)
    BY <1>0, <1>1, <1>4, FreeSlot DEF Run, Kinds, Movers
  <1>5. CASE Retry(s)
    BY <1>0, <1>1, <1>5, FreeSlot DEF Retry, Kinds, Movers
  <1>6. CASE Reopen(s)
    <2>1. \A t \in Slots : net'[t] \in Request \cup {Free}
      <3> SUFFICES ASSUME NEW t \in Slots
                   PROVE  net'[t] \in Request \cup {Free}
        OBVIOUS
      <3>1. CASE t = s
        BY <1>6, <3>1, FreeSlot DEF Reopen, Request, Kinds, Movers
      <3>2. CASE t # s /\ net[t] = Free
        BY <1>6, <3>2 DEF Reopen, Free
      <3>3. CASE t # s /\ net[t] \in Request
        BY <1>6, <3>3 DEF Reopen, Request
      <3> QED
        BY <3>1, <3>2, <3>3
    <2>2. net' \in [Slots -> Request \cup {Free}]
      BY <1>6, <2>1 DEF Reopen
    <2> QED
      BY <1>1, <1>6, <2>2, FreeSlot DEF Reopen
  <1>7. ASSUME NEW kind \in Kinds, Ask(s, kind)
        PROVE  TypeOK'
    BY <1>0, <1>1, <1>7, FreeSlot DEF Ask, editor
  <1> QED
    BY <1>2, <1>3, <1>4, <1>5, <1>6, <1>7 DEF User

LEMMA TypeServe ==
    ASSUME TypeOK, NEW s \in Slots, Serve(s)
    PROVE  TypeOK'
  <1> USE DEF TypeOK
  <1>1. PICK ending \in Endings(net[s].kind) :
            /\ IF ending \in {"ok", "lost"} THEN Apply(net[s].kind, net[s].content)
               ELSE UNCHANGED store
            /\ net' = [net EXCEPT
                   ![s].state = IF ending = "lost" THEN "thrown" ELSE ending,
                   ![s].content = IF net[s].kind = "load" THEN stored ELSE net[s].content]
            /\ crossed' = (crossed \/ (ending = "lost" /\ net[s].kind = "restore"))
    BY DEF Serve
  <1>2. net[s] \in Request
    BY DEF Serve, Free
  <1>3. ending \in {"ok", "bad", "thrown", "lost"}
    BY ConstantsAssumption DEF Endings
  <1>4. net' \in [Slots -> Request \cup {Free}]
    BY <1>1, <1>2, <1>3 DEF Request
  <1>5. stored' \in Contents /\ revisions' \subseteq Contents
    BY <1>1, <1>2 DEF Apply, Request, store
  <1> QED
    BY <1>1, <1>4, <1>5 DEF Serve, editor

LEMMA TypeCallback ==
    ASSUME TypeOK, NEW s \in Slots, Callback(s)
    PROVE  TypeOK'
  <1> USE DEF TypeOK, store
  <1>1. net' = [net EXCEPT ![s] = Free] /\ (net[s].state # "free" => net[s] \in Request)
    BY DEF Callback, Answered, LoadAnswered, SaveAnswered, RestoreAnswered, AskAnswered,
       TrashAnswered, RunAnswered, OrphanAnswered, Free
  <1>2. net' \in [Slots -> Request \cup {Free}]
    BY <1>1
  <1>3. CASE LoadAnswered(s)
    BY <1>1, <1>2, <1>3 DEF LoadAnswered, Answered, Request
  <1>4. CASE SaveAnswered(s)
    BY <1>2, <1>4 DEF SaveAnswered
  <1>5. CASE RestoreAnswered(s)
    BY <1>1, <1>2, <1>5 DEF RestoreAnswered, Answered, Request
  <1>6. CASE AskAnswered(s)
    BY <1>2, <1>6 DEF AskAnswered
  <1>7. CASE TrashAnswered(s)
    BY <1>2, <1>7 DEF TrashAnswered
  <1>8. CASE RunAnswered(s)
    BY <1>2, <1>8 DEF RunAnswered
  <1>9. CASE OrphanAnswered(s)
    BY <1>2, <1>9 DEF OrphanAnswered, editor
  <1> QED
    BY <1>3, <1>4, <1>5, <1>6, <1>7, <1>8, <1>9 DEF Callback

LEMMA TypeStep == TypeOK /\ [Next]_vars => TypeOK'
  <1> SUFFICES ASSUME TypeOK, [Next]_vars
               PROVE  TypeOK'
    OBVIOUS
  <1>1. CASE Edit
    BY <1>1, ConstantsAssumption DEF Edit, TypeOK, Contents, store
  <1>2. CASE SaveElsewhere
    BY <1>2, ConstantsAssumption DEF SaveElsewhere, TypeOK, Contents, editor
  <1>3. CASE UNCHANGED vars
    BY <1>3 DEF vars, editor, store, TypeOK
  <1> QED
    BY <1>1, <1>2, <1>3, TypeUser, TypeServe, TypeCallback DEF Next

\* The editor's variables, the requests and the store are well formed.
THEOREM TypeCorrect == Spec => []TypeOK
  BY TypeInit, TypeStep, PTL DEF Spec

-----------------------------------------------------------------------------
(* The Save button.                                                        *)

\* Serving a request changes its state, from "sent", and the content of a load.
LEMMA ServeMoves ==
    ASSUME TypeOK, NEW s \in Slots, Serve(s)
    PROVE  /\ \A t \in Slots \ {s} : net'[t] = net[t]
           /\ net[s] \in Request /\ net[s].state = "sent"
           /\ net'[s].kind = net[s].kind /\ net'[s].orphan = net[s].orphan
           /\ net'[s].state \in {"ok", "bad", "thrown"}
           /\ net[s].kind # "load" => net'[s].content = net[s].content
           /\ \/ /\ Apply(net[s].kind, net[s].content)
                 /\ \/ net'[s].state = "ok" /\ crossed' = crossed
                    \/ /\ net'[s].state = "thrown"
                       /\ crossed' = (crossed \/ net[s].kind = "restore")
              \/ /\ UNCHANGED <<store, crossed>>
                 /\ net'[s].state # "ok"
           /\ net[s].kind = "load" => net'[s].content = stored
  <1>1. net[s] \in Request /\ net[s].state = "sent" /\ crossed \in BOOLEAN
    BY DEF Serve, TypeOK, Free
  <1>2. PICK ending \in Endings(net[s].kind) :
            /\ IF ending \in {"ok", "lost"} THEN Apply(net[s].kind, net[s].content)
               ELSE UNCHANGED store
            /\ net' = [net EXCEPT
                   ![s].state = IF ending = "lost" THEN "thrown" ELSE ending,
                   ![s].content = IF net[s].kind = "load" THEN stored ELSE net[s].content]
            /\ crossed' = (crossed \/ (ending = "lost" /\ net[s].kind = "restore"))
    BY DEF Serve
  <1>3. ending \in {"ok", "bad", "thrown", "lost"}
    BY ConstantsAssumption DEF Endings
  <1>4. /\ \A t \in Slots \ {s} : net'[t] = net[t]
        /\ net'[s].kind = net[s].kind /\ net'[s].orphan = net[s].orphan
        /\ net'[s].state = IF ending = "lost" THEN "thrown" ELSE ending
        /\ net'[s].content = IF net[s].kind = "load" THEN stored ELSE net[s].content
    BY <1>1, <1>2 DEF TypeOK, Request
  <1>5. CASE ending = "ok"
    BY <1>1, <1>2, <1>4, <1>5
  <1>6. CASE ending = "lost"
    BY <1>1, <1>2, <1>4, <1>6
  <1>7. CASE ending \in {"bad", "thrown"}
    BY <1>1, <1>2, <1>4, <1>7
  <1> QED
    BY <1>3, <1>5, <1>6, <1>7

\* The saves of this component that are on their way.
Mine == {s \in Active : net[s].kind = "save" /\ ~net[s].orphan}

LEMMA SavingStep == TypeOK /\ SavingIsASave /\ [Next]_vars => SavingIsASave'
  <1> SUFFICES ASSUME TypeOK, saving <=> Mine # {}, \A s, t \in Mine : s = t, [Next]_vars
               PROVE  (saving' <=> Mine' # {}) /\ \A s, t \in Mine' : s = t
    BY DEF SavingIsASave, Mine
  <1>1. ASSUME NEW s \in Slots, Save(s)
        PROVE  (saving' <=> Mine' # {}) /\ \A t, u \in Mine' : t = u
    <2>1. Mine' = {s}
      BY <1>1 DEF Save, Send, Mine, Active, TypeOK
    <2> QED
      BY <1>1, <2>1 DEF Save
  <1>2. ASSUME NEW s \in Slots, Reopen(s)
        PROVE  (saving' <=> Mine' # {}) /\ \A t, u \in Mine' : t = u
    <2>1. ASSUME NEW t \in Slots
          PROVE  t \notin Mine'
      <3>1. CASE t = s
        BY <1>2, <3>1 DEF Reopen, Mine
      <3>2. CASE t # s /\ net[t].state = "free"
        BY <1>2, <3>2 DEF Reopen, Mine, Active, TypeOK, Request, Free
      <3>3. CASE t # s /\ net[t].state # "free"
        BY <1>2, <3>3 DEF Reopen, Mine, Active, TypeOK, Request, Free
      <3> QED
        BY <3>1, <3>2, <3>3
    <2>2. Mine' = {}
      BY <2>1 DEF Mine, Active
    <2> QED
      BY <1>2, <2>2 DEF Reopen
  <1>3. ASSUME NEW s \in Slots, SaveAnswered(s)
        PROVE  (saving' <=> Mine' # {}) /\ \A t, u \in Mine' : t = u
    <2>1. s \in Mine /\ Mine' = Mine \ {s}
      BY <1>3 DEF SaveAnswered, Answered, Mine, Active, TypeOK, Free
    <2> QED
      BY <1>3, <2>1 DEF SaveAnswered
  <1>4. ASSUME NEW s \in Slots, User(s), ~Save(s), ~Reopen(s)
        PROVE  saving' = saving /\ Mine' = Mine
    <2>1. ASSUME NEW kind \in Kinds \ {"save"}, NEW content, Send(s, kind, content)
          PROVE  Mine' = Mine
      BY <2>1 DEF Send, Mine, Active, TypeOK
    <2>2. \E kind \in Kinds \ {"save"} : \E content \in revisions \cup {0} :
              Send(s, kind, content)
      BY <1>4 DEF User, Restore, Run, Retry, Ask, Kinds, Movers
    <2>3. saving' = saving
      BY <1>4 DEF User, Restore, Run, Retry, Ask, editor
    <2> QED
      BY <2>1, <2>2, <2>3
  <1>5. ASSUME NEW s \in Slots, Serve(s)
        PROVE  saving' = saving /\ Mine' = Mine
    <2>1. net[s] \in Request /\ net[s].state = "sent"
      BY <1>5 DEF Serve, TypeOK, Free
    <2>2. /\ \A t \in Slots \ {s} : net'[t] = net[t]
          /\ net'[s].kind = net[s].kind /\ net'[s].orphan = net[s].orphan
          /\ net'[s].state # "free"
      BY <1>5, <2>1, ServeMoves
    <2>3. \A t \in Slots : t \in Mine' <=> t \in Mine
      BY <2>1, <2>2 DEF Mine, Active
    <2>4. Mine' = Mine
      BY <2>3 DEF Mine, Active
    <2> QED
      BY <1>5, <2>4 DEF Serve, editor
  <1>6. ASSUME NEW s \in Slots, Callback(s), ~SaveAnswered(s)
        PROVE  saving' = saving /\ Mine' = Mine
    <2>1. net' = [net EXCEPT ![s] = Free] /\ s \notin Mine /\ saving' = saving
      BY <1>6 DEF Callback, Answered, LoadAnswered, RestoreAnswered, AskAnswered,
         TrashAnswered, RunAnswered, OrphanAnswered, editor, Mine
    <2> QED
      BY <2>1 DEF Mine, Active, TypeOK, Free
  <1>7. CASE Edit \/ SaveElsewhere \/ UNCHANGED vars
    BY <1>7 DEF Edit, SaveElsewhere, vars, editor, Mine, Active
  <1> QED
    BY <1>1, <1>2, <1>3, <1>4, <1>5, <1>6, <1>7 DEF Next

\* "saving" is set exactly while the one save of this component is on its way
\* (save and its finally).
THEOREM SavingIsOneSave == Spec => []SavingIsASave
  <1>1. ASSUME Init
        PROVE  SavingIsASave
    <2>1. \A s \in Active : net[s].kind = "load"
      BY <1>1 DEF Init, Active, Free
    <2> QED
      BY <1>1, <2>1 DEF Init, SavingIsASave
  <1> QED
    BY TypeCorrect, SavingStep, <1>1, PTL DEF Spec

-----------------------------------------------------------------------------
(* What the cells show.                                                    *)

\* The cells, when they are shown as clean, are the content stored.
Agrees == loaded /\ ~error /\ ~dirty => cells = stored

\* What is known of a request about the content that nothing has crossed: a
\* save holds the dirty cells, and a good answer what is stored.
Course(s) ==
    LET q == net[s] IN
    /\ ~q.orphan
    /\ q.kind = "load" => (q.state = "ok" => q.content = stored)
    /\ q.kind = "save" => /\ loaded \/ error
                          /\ dirty /\ q.content = cells
                          /\ q.state = "ok" => stored = cells
    /\ q.kind = "restore" => /\ loaded \/ error
                             /\ IF q.state = "ok" THEN stored = q.content ELSE Agrees

Uncrossed ==
    /\ \A s, t \in Moving : s = t
    /\ \A s \in Moving : Course(s)
    /\ Moving = {} => Agrees /\ (loaded \/ error)

CleanInv == ~crossed => Uncrossed

\* Steps of requests that are not about the content.
LEMMA UncrossedElsewhere ==
    ASSUME TypeOK, CleanInv, ~crossed', crossed' = crossed, Moving' = Moving,
           \A s \in Moving : net'[s] = net[s],
           cells' = cells, dirty' = dirty, stored' = stored,
           error => error', loaded => loaded',
           Moving = {} /\ ~error' => (loaded' <=> loaded)
    PROVE  CleanInv'
  <1>1. ASSUME Uncrossed, loaded \/ error, Agrees
        PROVE  Agrees'
    BY <1>1 DEF Agrees
  <1>2. ASSUME NEW s \in Moving
        PROVE  Course(s)'
    BY <1>1, <1>2 DEF CleanInv, Uncrossed, Course
  <1> QED
    BY <1>1, <1>2 DEF CleanInv, Uncrossed

\* A load or save that is sent with nothing else moving.
LEMMA SendMoves ==
    ASSUME TypeOK, NEW s \in Slots, NEW kind, NEW content, Send(s, kind, content)
    PROVE  /\ \A t \in Slots \ {s} : net'[t] = net[t]
           /\ net'[s] = [kind |-> kind, state |-> "sent", content |-> content,
                         orphan |-> FALSE]
           /\ s \notin Moving
           /\ Moving' = IF kind \in Movers THEN Moving \cup {s} ELSE Moving
  <1>1. /\ \A t \in Slots \ {s} : net'[t] = net[t]
        /\ net'[s] = [kind |-> kind, state |-> "sent", content |-> content,
                      orphan |-> FALSE]
        /\ net[s].state = "free"
    BY DEF Send, TypeOK
  <1>2. \A t \in Slots : t # s => (t \in Moving' <=> t \in Moving)
    BY <1>1 DEF Moving, Active
  <1>3. s \notin Moving /\ (s \in Moving' <=> kind \in Movers)
    BY <1>1 DEF Moving, Active
  <1>4. Moving \subseteq Slots /\ Moving' \subseteq Slots
    BY DEF Moving, Active
  <1> QED
    BY <1>1, <1>2, <1>3, <1>4

\* An answer frees its slot.
LEMMA AnswerMoves ==
    ASSUME TypeOK, NEW s \in Slots, net' = [net EXCEPT ![s] = Free]
    PROVE  /\ \A t \in Slots \ {s} : net'[t] = net[t]
           /\ Moving' = Moving \ {s}
  <1>1. \A t \in Slots \ {s} : net'[t] = net[t]
    BY DEF TypeOK
  <1>2. net'[s].state = "free"
    BY DEF TypeOK, Free
  <1>3. \A t \in Slots : t \in Moving' <=> t \in Moving /\ t # s
    BY <1>1, <1>2 DEF Moving, Active
  <1>4. Moving \subseteq Slots /\ Moving' \subseteq Slots
    BY DEF Moving, Active
  <1> QED
    BY <1>1, <1>3, <1>4

LEMMA CleanUser ==
    ASSUME TypeOK, CleanInv, NEW s \in Slots, User(s)
    PROVE  CleanInv'
  <1>1. CASE Save(s)
    <2> SUFFICES ASSUME ~crossed'
                 PROVE  Uncrossed'
      BY DEF CleanInv
    <2>1. Moving = {} /\ Moving' = {s}
      BY <1>1, SendMoves DEF Save, Begins, Movers
    <2>2. net'[s] = [kind |-> "save", state |-> "sent", content |-> cells, orphan |-> FALSE]
      BY <1>1, SendMoves DEF Save
    <2>3. Course(s)'
      BY <1>1, <2>2 DEF Save, Course, Editing
    <2> QED
      BY <2>1, <2>3 DEF Uncrossed
  <1>2. CASE Restore(s)
    <2> SUFFICES ASSUME ~crossed'
                 PROVE  Uncrossed'
      BY DEF CleanInv
    <2>1. PICK v \in revisions : Send(s, "restore", v)
      BY <1>2 DEF Restore
    <2>2. Moving = {} /\ ~crossed /\ Moving' = {s}
      BY <1>2, <2>1, SendMoves DEF Restore, Begins, Movers
    <2>3. Agrees' /\ loaded'
      BY <1>2, <2>2 DEF CleanInv, Uncrossed, Restore, Agrees, editor, store, Editing
    <2>4. net'[s] = [kind |-> "restore", state |-> "sent", content |-> v, orphan |-> FALSE]
      BY <2>1, SendMoves
    <2>5. Course(s)'
      BY <2>3, <2>4 DEF Course
    <2> QED
      BY <2>2, <2>5 DEF Uncrossed
  <1>3. CASE Retry(s)
    <2> SUFFICES ASSUME ~crossed'
                 PROVE  Uncrossed'
      BY DEF CleanInv
    <2>1. Moving = {} /\ Moving' = {s}
      BY <1>3, SendMoves DEF Retry, Begins, Movers
    <2>2. net'[s] = [kind |-> "load", state |-> "sent", content |-> 0, orphan |-> FALSE]
      BY <1>3, SendMoves DEF Retry
    <2>3. Course(s)'
      BY <2>2 DEF Course
    <2> QED
      BY <2>1, <2>3 DEF Uncrossed
  <1>4. CASE Reopen(s)
    <2> SUFFICES ASSUME ~crossed'
                 PROVE  Uncrossed'
      BY DEF CleanInv
    <2>1. Moving = {}
      BY <1>4 DEF Reopen, Begins
    <2>2. ASSUME NEW t \in Slots \ {s}
          PROVE  t \notin Moving'
      <3>1. CASE net[t].state = "free"
        BY <1>4, <3>1 DEF Reopen, Moving, Active, Free
      <3>2. CASE net[t].state # "free"
        <4>1. net[t] \in Request
          BY <3>2 DEF TypeOK, Free
        <4>2. net'[t].kind = net[t].kind /\ net'[t].state = net[t].state
              /\ net'[t].orphan
          BY <1>4, <3>2, <4>1 DEF Reopen, Request
        <4> QED
          BY <2>1, <4>2 DEF Moving, Active
      <3> QED
        BY <3>1, <3>2
    <2>3. Moving' \subseteq {s}
      BY <2>2 DEF Moving, Active
    <2>4. s \in Moving' /\ Course(s)'
      BY <1>4 DEF Reopen, Course, Moving, Active, Movers
    <2> QED
      BY <2>3, <2>4 DEF Uncrossed
  <1>5. ASSUME NEW kind \in Kinds \ Movers, Send(s, kind, 0), UNCHANGED <<store, crossed>>,
               cells' = cells, dirty' = dirty, error' = error, loaded' = loaded
        PROVE  CleanInv'
    <2>1. Moving' = Moving /\ \A t \in Moving : net'[t] = net[t]
      BY <1>5, SendMoves DEF Moving, Active
    <2> QED
      BY <1>5, <2>1, UncrossedElsewhere DEF store, CleanInv
  <1>6. CASE Run(s)
    BY <1>5, <1>6 DEF Run, Kinds, Movers
  <1>7. ASSUME NEW kind \in Kinds, Ask(s, kind)
        PROVE  CleanInv'
    BY <1>5, <1>7 DEF Ask, Movers, editor
  <1> QED
    BY <1>1, <1>2, <1>3, <1>4, <1>6, <1>7 DEF User

LEMMA CleanServe ==
    ASSUME TypeOK, CleanInv, NEW s \in Slots, Serve(s)
    PROVE  CleanInv'
  <1> SUFFICES ASSUME ~crossed'
               PROVE  Uncrossed'
    BY DEF CleanInv
  <1>1. ~crossed /\ Uncrossed
    BY ServeMoves DEF CleanInv
  <1>2. UNCHANGED editor
    BY DEF Serve
  <1>3. \A t \in Slots : t # s => (t \in Moving' <=> t \in Moving)
    BY ServeMoves DEF Moving, Active
  <1>4. Moving' \subseteq Slots /\ Moving \subseteq Slots
    BY DEF Moving, Active
  <1>5. CASE s \in Moving
    <2>1. Moving = {s} /\ Course(s) /\ ~net[s].orphan
      BY <1>1, <1>5 DEF Uncrossed, Course
    <2>2. s \in Moving'
      BY <1>5, <2>1, ServeMoves DEF Moving, Active
    <2>3. Moving' = {s}
      BY <1>3, <1>4, <2>1, <2>2
    <2>4. Course(s)'
      <3>1. CASE net[s].kind = "load"
        <4>1. stored' = stored
          BY <3>1, ServeMoves DEF Apply, store
        <4> QED
          BY <2>1, <3>1, <4>1, ServeMoves DEF Course
      <3>2. CASE net[s].kind = "save"
        BY <1>2, <2>1, <3>2, ServeMoves DEF Course, Apply, store, editor
      <3>3. CASE net[s].kind = "restore"
        BY <1>2, <2>1, <3>3, ServeMoves DEF Course, Apply, store, editor, Agrees
      <3>4. net[s].kind \in Movers
        BY <1>5 DEF Moving
      <3> QED
        BY <3>1, <3>2, <3>3, <3>4 DEF Movers
    <2> QED
      BY <2>3, <2>4 DEF Uncrossed
  <1>6. CASE s \notin Moving
    <2>1. net[s].kind \notin Movers
      BY <1>6, ServeMoves DEF Moving, Active
    <2>2. stored' = stored
      BY <2>1, ServeMoves DEF Apply, store, Movers
    <2>3. s \notin Moving'
      BY <2>1, ServeMoves DEF Moving
    <2>4. Moving' = Moving
      BY <1>3, <1>4, <1>6, <2>3
    <2>5. \A t \in Moving : net'[t] = net[t]
      BY <1>4, <1>6, ServeMoves
    <2>6. crossed' = crossed
      BY <2>1, ServeMoves DEF Movers, TypeOK
    <2>7. CleanInv'
      BY <1>1, <1>2, <2>2, <2>4, <2>5, <2>6, UncrossedElsewhere DEF editor
    <2> QED
      BY <2>7 DEF CleanInv
  <1> QED
    BY <1>5, <1>6

LEMMA CleanCallback ==
    ASSUME TypeOK, CleanInv, NEW s \in Slots, Callback(s)
    PROVE  CleanInv'
  <1> SUFFICES ASSUME ~crossed'
               PROVE  Uncrossed'
    BY DEF CleanInv
  <1>1. /\ net' = [net EXCEPT ![s] = Free] /\ crossed' = crossed /\ UNCHANGED store
        /\ net[s].state \notin {"free", "sent"} \/ net[s].orphan
    BY DEF Callback, Answered, LoadAnswered, SaveAnswered, RestoreAnswered, AskAnswered,
       TrashAnswered, RunAnswered, OrphanAnswered, store
  <1>2. Uncrossed /\ Moving' = Moving \ {s}
    BY <1>1, AnswerMoves DEF CleanInv
  <1>3. ASSUME NEW kind \in Movers, Answered(s, kind)
        PROVE  Moving = {s} /\ Course(s) /\ Moving' = {}
    <2>1. s \in Moving
      BY <1>3 DEF Answered, Moving, Active
    <2> QED
      BY <1>2, <2>1 DEF Uncrossed
  <1>4. CASE LoadAnswered(s)
    <2>1. Moving' = {} /\ Course(s) /\ net[s].kind = "load"
      BY <1>3, <1>4 DEF LoadAnswered, Answered, Movers
    <2> QED
      BY <1>4, <2>1 DEF LoadAnswered, Course, Uncrossed, Agrees, store
  <1>5. CASE SaveAnswered(s)
    <2>1. Moving' = {} /\ Course(s) /\ net[s].kind = "save"
      BY <1>3, <1>5 DEF SaveAnswered, Answered, Movers
    <2>2. net[s].state \in {"ok", "bad", "thrown"}
      BY <1>5 DEF SaveAnswered, Answered, TypeOK, Request, Free
    <2>3. /\ loaded \/ error
          /\ dirty /\ cells' = cells /\ stored' = stored
          /\ net[s].state = "ok" => stored = cells
          /\ loaded' = (loaded \/ net[s].state = "ok")
          /\ dirty' = (dirty /\ net[s].state # "ok")
          /\ error' = (error \/ net[s].state = "bad")
      BY <1>1, <1>5, <2>1 DEF SaveAnswered, Course, store
    <2> QED
      BY <2>1, <2>2, <2>3 DEF Uncrossed, Agrees
  <1>6. CASE RestoreAnswered(s)
    <2>1. Moving' = {} /\ Course(s) /\ net[s].kind = "restore"
      BY <1>3, <1>6 DEF RestoreAnswered, Answered, Movers
    <2> QED
      BY <1>6, <2>1 DEF RestoreAnswered, Course, Uncrossed, Agrees, store
  <1>7. ASSUME s \notin Moving, cells' = cells, dirty' = dirty, error => error', loaded => loaded'
        PROVE  Uncrossed'
    <2>1. Moving' = Moving /\ \A t \in Moving : net'[t] = net[t]
      BY <1>1, <1>2, <1>7, AnswerMoves DEF Moving, Active
    <2>2. Moving = {} /\ ~error' => (loaded' <=> loaded)
      BY <1>2, <1>7 DEF Uncrossed, TypeOK
    <2> QED
      BY <1>1, <1>7, <2>1, <2>2, UncrossedElsewhere DEF store, CleanInv
  <1>8. CASE AskAnswered(s) \/ TrashAnswered(s) \/ RunAnswered(s)
    <2>1. s \notin Moving
      BY <1>8 DEF AskAnswered, TrashAnswered, RunAnswered, Answered, Moving, Movers
    <2> QED
      BY <1>7, <1>8, <2>1 DEF AskAnswered, TrashAnswered, RunAnswered
  <1>9. CASE OrphanAnswered(s)
    <2>1. s \notin Moving
      BY <1>9 DEF OrphanAnswered, Moving
    <2> QED
      BY <1>7, <1>9, <2>1 DEF OrphanAnswered, editor
  <1> QED
    BY <1>4, <1>5, <1>6, <1>8, <1>9 DEF Callback

LEMMA CleanStep == TypeOK /\ CleanInv /\ [Next]_vars => CleanInv'
  <1> SUFFICES ASSUME TypeOK, CleanInv, [Next]_vars
               PROVE  CleanInv'
    OBVIOUS
  <1>1. CASE Edit
    <2>1. Moving' = Moving
      BY <1>1 DEF Edit, Moving, Active
    <2> QED
      BY <1>1, <2>1 DEF Edit, CleanInv, Uncrossed, Agrees, Editing, store
  <1>2. CASE SaveElsewhere
    BY <1>2 DEF SaveElsewhere, CleanInv
  <1>3. CASE UNCHANGED vars
    BY <1>3 DEF vars, editor, store, CleanInv, Uncrossed, Course, Agrees, Moving, Active
  <1> QED
    BY <1>1, <1>2, <1>3, CleanUser, CleanServe, CleanCallback DEF Next

LEMMA CleanInit == Init => CleanInv
  <1> SUFFICES ASSUME Init
               PROVE  Uncrossed
    BY DEF CleanInv
  <1>1. PICK s \in Slots : net = [t \in Slots |->
            IF t = s THEN [kind |-> "load", state |-> "sent", content |-> 0, orphan |-> FALSE]
            ELSE Free]
    BY DEF Init
  <1>2. Moving = {s}
    BY <1>1 DEF Moving, Active, Movers, Free
  <1> QED
    BY <1>1, <1>2 DEF Uncrossed, Course

\* Cells shown as saved are what the store has, through errors, Retry and
\* Reopen, unless something about the content has overlapped something else or
\* the answer to a restore was lost (load, save, onRestored).
THEOREM CleanCellsAreStored == Spec => []CleanIsStoredUnlessCrossed
  <1>1. CleanInv => CleanIsStoredUnlessCrossed
    BY DEF CleanInv, Uncrossed, Agrees, CleanIsStoredUnlessCrossed, Editing
  <1> QED
    BY TypeCorrect, CleanInit, CleanStep, <1>1, PTL DEF Spec
=============================================================================
