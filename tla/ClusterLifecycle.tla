-------------------------- MODULE ClusterLifecycle --------------------------
(***************************************************************************)
(* Spark clusters of the control plane.                                    *)
(*                                                                         *)
(* A cluster is two records kept by two services: a row of the Postgres    *)
(* table "clusters" (what the user asked for) and a SparkConnect custom    *)
(* resource, the CR, in Kubernetes (what runs).  The HTTP handlers of      *)
(* clusters.go change them with separate calls, with no transaction and    *)
(* no lock between the calls, each request on a goroutine of its own; the  *)
(* idle reconciler of reconcile.go runs next to them.  Here every call is  *)
(* one action, so that all the interleavings of the calls are behaviours.  *)
(*                                                                         *)
(* A cluster is identified by its row id.  The CR name stored in the row   *)
(* is random and unique, so id and CR name stand for each other.           *)
(***************************************************************************)
EXTENDS Naturals, FiniteSets

CONSTANTS
    Ids,             \* cluster ids, each with its CR name; used at most once
    Requests,        \* the slots for HTTP requests served at the same time
    Configs,         \* create bodies, as persisted in the column "config"
    IdleMinutes,     \* [Configs -> Nat], the idle_minutes of a body, 0 = off
    AgeCap,          \* ages saturate here, above every idle window
    Operations,      \* the operations that clients issue
    K8sOutcomes,     \* how a Kubernetes call may end
    StoreOutcomes,   \* how a Postgres call may end
    Disruptions,     \* "crash": API restart, "outOfBand": CR deleted by hand
    None             \* no row, no CR, no config, no id

AllOperations ==
    {"create", "clone", "start", "stop", "restart", "delete", "patch", "run"}

\* The operations whose handlers change the CR or desired_state.
Lifecycle == AllOperations \ {"patch", "run"}

Pins == {"keep", "pin", "unpin"}

\* A call returns nil ("ok"), fails without effect ("failed"), or takes
\* effect although its caller sees an error ("lost": timeout, disconnect).
AllOutcomes == {"ok", "failed", "lost"}

Row == [config : Configs, pinned : BOOLEAN,
        desired : {"Running", "Stopped"}, age : 0 .. AgeCap]

Calls == {"idle", "k8sCreate", "k8sDelete", "insert", "setRunning",
          "setStopped", "touch", "deleteRow", "setPinned", "updateConfig",
          "execute", "respond"}

Request == [op : AllOperations \cup {None}, call : Calls,
            id : Ids \cup {None}, config : Configs \cup {None}, pin : Pins]

ASSUME ConstantsAssumption ==
    /\ Operations \subseteq AllOperations
    /\ IdleMinutes \in [Configs -> Nat]
    /\ AgeCap \in Nat
    /\ \A f \in Configs : IdleMinutes[f] < AgeCap
    /\ {"ok"} \subseteq K8sOutcomes /\ K8sOutcomes \subseteq AllOutcomes
    /\ {"ok"} \subseteq StoreOutcomes /\ StoreOutcomes \subseteq AllOutcomes
    /\ Disruptions \subseteq {"crash", "outOfBand"}

ASSUME NoneAssumption ==
    /\ None \notin Ids /\ None \notin Requests
    /\ None \notin Configs /\ None \notin Row /\ None \notin AllOperations
    /\ Ids \cap Requests = {}

VARIABLES
    rows,       \* the table "clusters"
    crs,        \* the SparkConnect CRs: the config each was rendered from
    issued,     \* ids already given to some cluster
    req,        \* the request each slot is serving
    rec         \* the idle reconciler

\* History variables: read by properties only, never by an action's guard.
VARIABLES
    settled,    \* ids whose last lifecycle operation ran alone, free of faults
    spoiled,    \* ids in use by an operation that overlapped or saw a fault
    stale,      \* CRs and request snapshots older than an edit of the config
    disturbed   \* ids the reconciler still holds, written since it listed them

system == <<rows, crs, issued, req, rec>>
history == <<settled, spoiled, stale, disturbed>>
vars == <<system, history>>

IdleRequest ==
    [op |-> None, call |-> "idle", id |-> None, config |-> None, pin |-> "keep"]

\* RunOnce: the due ids not reached yet, the id in hand, the call it is at.
Reconciler == [call : {"get", "k8sDelete", "mark"},
               due : SUBSET Ids, id : Ids \cup {None}]

IdleReconciler == [call |-> "get", due |-> {}, id |-> None]

-----------------------------------------------------------------------------
(* History bookkeeping.                                                    *)

\* Requests, other than r, that are in the middle of a lifecycle operation on c.
OthersOn(r, c) == {q \in Requests \ {r} : req[q].id = c /\ req[q].op \in Lifecycle}

Busy(c) == OthersOn(None, c) # {} \/ rec.id = c

\* A lifecycle operation on c reads the row: it overlaps whoever is there.
Engage(c) == /\ spoiled' = IF Busy(c) THEN spoiled \cup {c} ELSE spoiled
             /\ UNCHANGED settled

\* A call of a lifecycle operation on c has failed or not; more calls follow.
Continue(c, bad) == /\ spoiled' = IF bad THEN spoiled \cup {c} ELSE spoiled
                    /\ UNCHANGED settled

\* The operation leaves c.  When nobody else is there, c comes to rest, settled
\* if the operation was alone and every call of it succeeded.
Release(c, others, bad) ==
    IF others
    THEN Continue(c, bad)
    ELSE /\ settled' = IF bad \/ c \in spoiled THEN settled \ {c} ELSE settled \cup {c}
         /\ spoiled' = spoiled \ {c}

\* A request writes the row of c while the reconciler still has it on its list.
Disturb(c) == disturbed' = IF c \in rec.due \cup {rec.id}
                           THEN disturbed \cup {c} ELSE disturbed

-----------------------------------------------------------------------------
(* Handlers: what follows each call.                                       *)

FirstCall(op) == CASE op = "start"                       -> "k8sCreate"
                   [] op \in {"stop", "restart", "delete"} -> "k8sDelete"

\* Mutant: delete goes on as stop does.
AfterDeleteStops(op, call) ==
    CASE call = "k8sDelete" /\ op \in {"stop", "delete"}   -> "setStopped"
      [] call = "k8sDelete" /\ op = "restart"              -> "k8sCreate"
      [] call = "k8sCreate" /\ op \in {"create", "clone"}  -> "insert"
      [] call = "k8sCreate" /\ op \in {"start", "restart"} -> "setRunning"
      [] call = "setRunning"                               -> "touch"
      [] OTHER                                             -> "respond"

\* The call a handler makes after one that did not end it.
After(op, call) ==
    CASE call = "k8sDelete" /\ op = "stop"                 -> "setStopped"
      [] call = "k8sDelete" /\ op = "restart"              -> "k8sCreate"
      [] call = "k8sDelete" /\ op = "delete"               -> "deleteRow"
      [] call = "k8sCreate" /\ op \in {"create", "clone"}  -> "insert"
      [] call = "k8sCreate" /\ op \in {"start", "restart"} -> "setRunning"
      [] call = "setRunning"                               -> "touch"
      [] OTHER                                             -> "respond"

\* The handler goes on; bad: the error of the call is dropped.
Advance(r, bad) ==
    /\ req' = [req EXCEPT ![r].call = After(req[r].op, req[r].call)]
    /\ Continue(req[r].id, bad)

\* The handler writes its answer and returns; bad: because the call failed.
Finish(r, bad) ==
    /\ req' = [req EXCEPT ![r] = IdleRequest]
    /\ LET c == req[r].id
       IN  IF req[r].op \in Lifecycle
           THEN Release(c, OthersOn(r, c) # {} \/ rec.id = c, bad)
           ELSE UNCHANGED <<settled, spoiled>>

-----------------------------------------------------------------------------
(* Requests begin.  A handler that finds no row, or whose caller may not   *)
(* act on it, answers 404 or 403 at once: it changes nothing, so the       *)
(* stuttering step stands for it.                                          *)

Accept(r, op, c, f, pin, call) ==
    /\ op \in Operations
    /\ req[r] = IdleRequest
    /\ req' = [req EXCEPT ![r] = [op |-> op, call |-> call, id |-> c,
                                  config |-> f, pin |-> pin]]
    /\ stale' = stale \ {r}
    /\ UNCHANGED <<rows, crs, rec, disturbed>>

\* Mutant: the CR name is derived from the cluster's name alone.
IssueByName(c) == issued' = issued \cup {c}

\* A new CR name is generated: random, so never one already issued.
Issue(c) == c \notin issued /\ issued' = issued \cup {c}

BeginCreate(r) ==
    \E c \in Ids, f \in Configs :
        /\ Issue(c)
        /\ Accept(r, "create", c, f, "keep", "k8sCreate")
        /\ Engage(c)

\* clone reads the source row and keeps its config for the new cluster.
BeginClone(r) ==
    \E source \in Ids, c \in Ids :
        /\ rows[source] # None
        /\ Issue(c)
        /\ Accept(r, "clone", c, rows[source].config, "keep", "k8sCreate")
        /\ Engage(c)

\* Mutant: start and restart render the CR from the defaults.
BeginChangeByDefault(r) ==
    \E op \in {"start", "stop", "restart", "delete"}, c \in Ids :
        /\ rows[c] # None
        /\ Accept(r, op, c, CHOOSE f \in Configs : TRUE, "keep", FirstCall(op))
        /\ Engage(c)
        /\ UNCHANGED issued

\* start, stop, restart and delete read the row; the first and third load the
\* config they will render the CR from.
BeginChange(r) ==
    \E op \in {"start", "stop", "restart", "delete"}, c \in Ids :
        /\ rows[c] # None
        /\ Accept(r, op, c,
                  IF op \in {"start", "restart"} THEN rows[c].config ELSE None,
                  "keep", FirstCall(op))
        /\ Engage(c)
        /\ UNCHANGED issued

\* patch: the body has a pin state, a config, both or neither.
BeginPatch(r) ==
    \E c \in Ids, pin \in Pins, f \in Configs \cup {None} :
        /\ rows[c] # None
        /\ Accept(r, "patch", c, f, pin,
                  CASE pin # "keep" -> "setPinned"
                    [] pin = "keep" /\ f # None -> "updateConfig"
                    [] OTHER -> "respond")
        /\ UNCHANGED <<issued, settled, spoiled>>

\* A notebook cell runs on the cluster: the row is read for the CR's endpoint.
BeginRun(r) ==
    \E c \in Ids :
        /\ rows[c] # None
        /\ Accept(r, "run", c, None, "keep", "execute")
        /\ UNCHANGED <<issued, settled, spoiled>>

-----------------------------------------------------------------------------
(* Kubernetes calls.                                                       *)

\* k8s.Create.  AlreadyExists is tolerated by start and restart; create and
\* clone hold a new name, for which it cannot happen.  Other errors: 502.
ProvisionCR(r) ==
    LET c == req[r].id IN
    /\ req[r].call = "k8sCreate"
    /\ \E o \in K8sOutcomes :
        /\ IF o # "failed" /\ crs[c] = None
           THEN /\ crs' = [crs EXCEPT ![c] = req[r].config]
                /\ stale' = IF r \in stale THEN stale \cup {c} ELSE stale \ {c}
           ELSE UNCHANGED <<crs, stale>>
        /\ IF o = "ok" THEN Advance(r, FALSE) ELSE Finish(r, TRUE)
    /\ UNCHANGED <<rows, issued, rec, disturbed>>

\* Mutant: the error of the Kubernetes call is dropped like that of the store.
TeardownCRAnyway(r) ==
    /\ req[r].call = "k8sDelete"
    /\ \E o \in K8sOutcomes :
        /\ crs' = IF o # "failed" THEN [crs EXCEPT ![req[r].id] = None] ELSE crs
        /\ Advance(r, FALSE)
    /\ UNCHANGED <<rows, issued, rec, stale, disturbed>>

\* k8s.Delete.  NotFound is tolerated by every caller.  Other errors: 502.
TeardownCR(r) ==
    /\ req[r].call = "k8sDelete"
    /\ \E o \in K8sOutcomes :
        /\ crs' = IF o # "failed" THEN [crs EXCEPT ![req[r].id] = None] ELSE crs
        /\ IF o = "ok" THEN Advance(r, FALSE) ELSE Finish(r, TRUE)
    /\ UNCHANGED <<rows, issued, rec, stale, disturbed>>

-----------------------------------------------------------------------------
(* Postgres calls.                                                         *)

\* UPDATE clusters ... WHERE id = c: no effect when the row is gone.
UpdateRow(c, newRow, o) ==
    IF o # "failed" /\ rows[c] # None
    THEN rows' = [rows EXCEPT ![c] = newRow] /\ Disturb(c)
    ELSE UNCHANGED <<rows, disturbed>>

\* Mutant: the column "config" is left to its default.
InsertRowByDefault(r) ==
    /\ req[r].call = "insert"
    /\ \E o \in StoreOutcomes :
        /\ rows' = IF o = "failed" THEN rows
                   ELSE [rows EXCEPT ![req[r].id] =
                           [config |-> CHOOSE f \in Configs : TRUE, pinned |-> FALSE,
                            desired |-> "Running", age |-> 0]]
        /\ Finish(r, o # "ok")
    /\ UNCHANGED <<crs, issued, rec, stale, disturbed>>

\* store.CreateCluster: the other columns take the defaults of the table.  When
\* it fails the handler answers 500 and the CR stays.
InsertRow(r) ==
    /\ req[r].call = "insert"
    /\ \E o \in StoreOutcomes :
        /\ rows' = IF o = "failed" THEN rows
                   ELSE [rows EXCEPT ![req[r].id] =
                           [config |-> req[r].config, pinned |-> FALSE,
                            desired |-> "Running", age |-> 0]]
        /\ Finish(r, o # "ok")
    /\ UNCHANGED <<crs, issued, rec, stale, disturbed>>

\* Mutant: the UPDATE writes the whole row that the handler has read.
SetDesiredResets(r) ==
    LET c == req[r].id IN
    /\ req[r].call \in {"setRunning", "setStopped"}
    /\ UpdateRow(c, [rows[c] EXCEPT !.pinned = FALSE, !.age = 0, !.desired =
            IF req[r].call = "setRunning" THEN "Running" ELSE "Stopped"], "ok")
    /\ Advance(r, FALSE)
    /\ UNCHANGED <<crs, issued, rec, stale>>

\* store.SetClusterDesiredState in start, stop and restart: its error is dropped.
SetDesired(r) ==
    LET c == req[r].id IN
    /\ req[r].call \in {"setRunning", "setStopped"}
    /\ \E o \in StoreOutcomes :
        /\ UpdateRow(c, [rows[c] EXCEPT !.desired =
                IF req[r].call = "setRunning" THEN "Running" ELSE "Stopped"], o)
        /\ Advance(r, o # "ok")
    /\ UNCHANGED <<crs, issued, rec, stale>>

\* store.TouchClusterActivity, last in run: its error is dropped.
Touch(r) ==
    LET c == req[r].id IN
    /\ req[r].call = "touch"
    /\ \E o \in StoreOutcomes : UpdateRow(c, [rows[c] EXCEPT !.age = 0], o)
    /\ IF req[r].op = "run" THEN Finish(r, FALSE) ELSE Advance(r, FALSE)
    /\ UNCHANGED <<crs, issued, rec, stale>>

\* patch: the pin state first, the config second, each by its own UPDATE; an
\* error, or the row being gone, ends the handler with a 500.
SetPinned(r) ==
    LET c == req[r].id IN
    /\ req[r].call = "setPinned"
    /\ \E o \in StoreOutcomes :
        /\ UpdateRow(c, [rows[c] EXCEPT !.pinned = (req[r].pin = "pin")], o)
        /\ IF o # "ok" \/ rows[c] = None
           THEN Finish(r, TRUE)
           ELSE /\ req' = [req EXCEPT ![r].call =
                             IF req[r].config = None THEN "respond" ELSE "updateConfig"]
                /\ UNCHANGED <<settled, spoiled>>
    /\ UNCHANGED <<crs, issued, rec, stale>>

\* Mutant: the config is written by INSERT ... ON CONFLICT DO UPDATE.
UpdateConfigUpserts(r) ==
    LET c == req[r].id
        readers == {q \in Requests : req[q].id = c}
    IN
    /\ req[r].call = "updateConfig"
    /\ rows' = [rows EXCEPT ![c] =
                  IF rows[c] # None THEN [rows[c] EXCEPT !.config = req[r].config]
                  ELSE [config |-> req[r].config, pinned |-> FALSE,
                        desired |-> "Running", age |-> 0]]
    /\ Disturb(c)
    /\ Advance(r, FALSE)
    /\ stale' = stale \cup {c} \cup readers
    /\ UNCHANGED <<crs, issued, rec>>

UpdateConfig(r) ==
    LET c == req[r].id
        readers == {q \in Requests : req[q].id = c}
    IN
    /\ req[r].call = "updateConfig"
    /\ \E o \in StoreOutcomes :
        /\ UpdateRow(c, [rows[c] EXCEPT !.config = req[r].config], o)
        /\ IF o # "ok" \/ rows[c] = None THEN Finish(r, TRUE) ELSE Advance(r, FALSE)
    /\ stale' = stale \cup {c} \cup readers
    /\ UNCHANGED <<crs, issued, rec>>

\* store.DeleteCluster; the row being gone already still answers 204.
DeleteRow(r) ==
    /\ req[r].call = "deleteRow"
    /\ \E o \in StoreOutcomes :
        /\ UpdateRow(req[r].id, None, o)
        /\ Finish(r, o # "ok")
    /\ UNCHANGED <<crs, issued, rec, stale>>

-----------------------------------------------------------------------------
(* Calls that change nothing.                                              *)

\* broker.Run: activity is recorded after the cell has run, not before.
Execute(r) ==
    /\ req[r].call = "execute"
    /\ \/ /\ req' = [req EXCEPT ![r].call = "touch"]
          /\ UNCHANGED <<settled, spoiled>>
       \/ Finish(r, TRUE)
    /\ UNCHANGED <<rows, crs, issued, rec, stale, disturbed>>

\* respondCluster: the row and the CR are read again and sent.
Respond(r) ==
    /\ req[r].call = "respond"
    /\ Finish(r, FALSE)
    /\ UNCHANGED <<rows, crs, issued, rec, stale, disturbed>>

-----------------------------------------------------------------------------
(* The idle reconciler: one goroutine, one pass per tick of its ticker.    *)

\* Mutant: the pin flag is not looked at.
IdleDueOfPinned == {c \in Ids : /\ rows[c] # None
                                /\ rows[c].desired = "Running"
                                /\ IdleMinutes[rows[c].config] > 0
                                /\ rows[c].age > IdleMinutes[rows[c].config]}

\* idleDueIDs
IdleDue == {c \in Ids : /\ rows[c] # None
                        /\ ~rows[c].pinned
                        /\ rows[c].desired = "Running"
                        /\ IdleMinutes[rows[c].config] > 0
                        /\ rows[c].age > IdleMinutes[rows[c].config]}

\* A pass begins: store.ListClusters and the choice of the due ids.  A pass
\* that cannot list, or finds nothing due, changes nothing.
ReconcilerLists ==
    /\ rec = IdleReconciler
    /\ IdleDue # {}
    /\ rec' = [rec EXCEPT !.due = IdleDue]
    /\ disturbed' = {}
    /\ UNCHANGED <<rows, crs, issued, req, settled, spoiled, stale>>

\* The pass goes to its next id, done with c.
NextDue(c) == /\ rec' = [call |-> "get", due |-> rec.due \ {c}, id |-> None]
              /\ disturbed' = disturbed \ {c}

\* store.GetCluster: only the CR name of the row is used; an error skips the id.
ReconcilerGets(c, o) ==
    /\ rec.call = "get" /\ c \in rec.due
    /\ IF o = "ok" /\ rows[c] # None
       THEN /\ rec' = [call |-> "k8sDelete", due |-> rec.due \ {c}, id |-> c]
            /\ Engage(c)
            /\ UNCHANGED disturbed
       ELSE NextDue(c) /\ UNCHANGED <<settled, spoiled>>
    /\ UNCHANGED <<rows, crs, issued, req, stale>>

\* Mutant: an error of the Kubernetes call does not skip the id.
ReconcilerDeletesAnyway(o) ==
    LET c == rec.id IN
    /\ rec.call = "k8sDelete"
    /\ crs' = IF o # "failed" THEN [crs EXCEPT ![c] = None] ELSE crs
    /\ rec' = [rec EXCEPT !.call = "mark"]
    /\ UNCHANGED <<rows, issued, req, history>>

ReconcilerDeletes(o) ==
    LET c == rec.id IN
    /\ rec.call = "k8sDelete"
    /\ crs' = IF o # "failed" THEN [crs EXCEPT ![c] = None] ELSE crs
    /\ IF o = "ok"
       THEN /\ rec' = [rec EXCEPT !.call = "mark"]
            /\ UNCHANGED <<settled, spoiled, disturbed>>
       ELSE NextDue(c) /\ Release(c, OthersOn(None, c) # {}, TRUE)
    /\ UNCHANGED <<rows, issued, req, stale>>

\* Mutant: the pass deletes the CR and leaves the row as it is.
ReconcilerMarksNothing(o) ==
    LET c == rec.id IN
    /\ rec.call = "mark"
    /\ NextDue(c)
    /\ Release(c, OthersOn(None, c) # {}, o # "ok")
    /\ UNCHANGED <<rows, crs, issued, req, stale>>

ReconcilerMarks(o) ==
    LET c == rec.id IN
    /\ rec.call = "mark"
    /\ rows' = IF o # "failed" /\ rows[c] # None
               THEN [rows EXCEPT ![c].desired = "Stopped"] ELSE rows
    /\ NextDue(c)
    /\ Release(c, OthersOn(None, c) # {}, o # "ok")
    /\ UNCHANGED <<crs, issued, req, stale>>

Reconcile ==
    \/ ReconcilerLists
    \/ \E c \in Ids, o \in StoreOutcomes : ReconcilerGets(c, o)
    \/ \E o \in K8sOutcomes : ReconcilerDeletes(o)
    \/ \E o \in StoreOutcomes : ReconcilerMarks(o)

-----------------------------------------------------------------------------
(* The environment.                                                        *)

Older(row) == [row EXCEPT !.age = IF @ < AgeCap THEN @ + 1 ELSE @]

\* Time passes for every row at once.
Tick ==
    /\ \E c \in Ids : rows[c] # None /\ rows[c].age < AgeCap
    /\ rows' = [c \in Ids |-> IF rows[c] = None THEN None ELSE Older(rows[c])]
    /\ UNCHANGED <<crs, issued, req, rec, history>>

\* The API process dies: the requests and the pass it was serving end where
\* they are; rows and CRs stay.
Crash ==
    /\ "crash" \in Disruptions
    /\ req' = [r \in Requests |-> IdleRequest]
    /\ rec' = IdleReconciler
    /\ settled' = settled \ {c \in Ids : Busy(c)}
    /\ spoiled' = {}
    /\ disturbed' = {}
    /\ UNCHANGED <<rows, crs, issued, stale>>

\* Someone removes a CR by hand.
OutOfBandDelete(c) ==
    /\ "outOfBand" \in Disruptions
    /\ crs[c] # None
    /\ crs' = [crs EXCEPT ![c] = None]
    /\ settled' = settled \ {c}
    /\ spoiled' = IF Busy(c) THEN spoiled \cup {c} ELSE spoiled
    /\ UNCHANGED <<rows, issued, req, rec, stale, disturbed>>

-----------------------------------------------------------------------------
Init ==
    /\ rows = [c \in Ids |-> None]
    /\ crs = [c \in Ids |-> None]
    /\ issued = {}
    /\ req = [r \in Requests |-> IdleRequest]
    /\ rec = IdleReconciler
    /\ settled = Ids
    /\ spoiled = {}
    /\ stale = {}
    /\ disturbed = {}

Begin(r) ==
    BeginCreate(r) \/ BeginClone(r) \/ BeginChange(r) \/ BeginPatch(r) \/ BeginRun(r)

Serve(r) ==
    \/ ProvisionCR(r) \/ TeardownCR(r) \/ InsertRow(r) \/ SetDesired(r) \/ Touch(r)
    \/ SetPinned(r) \/ UpdateConfig(r) \/ DeleteRow(r) \/ Execute(r) \/ Respond(r)

Next ==
    \/ \E r \in Requests : Begin(r) \/ Serve(r)
    \/ Reconcile
    \/ Tick
    \/ Crash
    \/ \E c \in Ids : OutOfBandDelete(c)

Spec == Init /\ [][Next]_vars

(***************************************************************************)
(* Fairness.  The ticker keeps starting passes and time passes.  Strong    *)
(* fairness of the successful calls: a call that the reconciler repeats    *)
(* pass after pass does not fail for ever.  Nothing is asked of users.     *)
(***************************************************************************)
Fairness ==
    /\ WF_vars(Tick)
    /\ SF_vars(ReconcilerLists)
    /\ \A c \in Ids : SF_vars(ReconcilerGets(c, "ok"))
    /\ SF_vars(ReconcilerDeletes("ok"))
    /\ SF_vars(ReconcilerMarks("ok"))

FairSpec == Spec /\ Fairness

-----------------------------------------------------------------------------
(* Safety.                                                                 *)

\* A request under way acts on a cluster and is at a call of its own handler.
Serving(q) ==
    /\ q.id \in Ids
    /\ \/ /\ q.op \in {"create", "clone"} /\ q.config \in Configs
          /\ q.call \in {"k8sCreate", "insert"}
       \/ /\ q.op = "start" /\ q.config \in Configs
          /\ q.call \in {"k8sCreate", "setRunning", "touch", "respond"}
       \/ /\ q.op = "restart" /\ q.config \in Configs
          /\ q.call \in {"k8sDelete", "k8sCreate", "setRunning", "touch", "respond"}
       \/ q.op = "stop" /\ q.call \in {"k8sDelete", "setStopped", "respond"}
       \/ q.op = "delete" /\ q.call \in {"k8sDelete", "deleteRow"}
       \/ q.op = "patch" /\ q.call \in {"setPinned", "respond"}
       \/ q.op = "patch" /\ q.call = "updateConfig" /\ q.config \in Configs
       \/ q.op = "run" /\ q.call \in {"execute", "touch"}

\* Every handler is at a call it makes, with the data that call needs.
TypeOK ==
    /\ rows \in [Ids -> Row \cup {None}]
    /\ crs \in [Ids -> Configs \cup {None}]
    /\ issued \subseteq Ids
    /\ req \in [Requests -> Request]
    /\ \A r \in Requests : req[r] = IdleRequest \/ Serving(req[r])
    /\ rec \in Reconciler
    /\ rec.id = None <=> rec.call = "get"
    /\ rec.id \notin rec.due
    /\ settled \subseteq Ids /\ spoiled \subseteq Ids
    /\ stale \subseteq Ids \cup Requests
    /\ disturbed \subseteq Ids

\* A cluster that is being created belongs to its creator: no other request and
\* no pass of the reconciler has its id in hand, and it has no row yet.
Creating(r) == req[r].op \in {"create", "clone"}

CreatorAlone ==
    /\ \A c \in Ids \ issued : rows[c] = None /\ crs[c] = None
    /\ rec.due \cup ({rec.id} \ {None}) \subseteq issued
    /\ \A r \in Requests : req[r] # IdleRequest => req[r].id \in issued
    /\ \A r \in Requests : Creating(r) =>
          LET c == req[r].id IN
          /\ rows[c] = None
          /\ req[r].call = "k8sCreate" => crs[c] = None
          /\ c \notin rec.due /\ c # rec.id
          /\ \A q \in Requests \ {r} : req[q].id # c

\* The two records of a cluster agree: it runs exactly if a row wants it to.
Agrees(c) == crs[c] # None <=> (rows[c] # None /\ rows[c].desired = "Running")

\* A cluster whose last start, stop, restart, create, clone, delete or idle stop
\* overlapped no other on the same cluster and saw no fault is, at rest, in the
\* same state in Postgres and in Kubernetes, whatever happened to it before.
\* So only an overlap or a fault leaves a Stopped cluster running, a Running one
\* without CR, or a CR without row, and one clean operation repairs the first two.
SettledAgree == \A c \in settled : ~Busy(c) => Agrees(c)

\* What an operation on its way may rely on about its cluster.
HasRow(c) == rows[c] # None
Runs(c) == crs[c] # None
Wanted(c, state) == HasRow(c) /\ rows[c].desired = state

Expected(r) ==
    LET c == req[r].id IN
    CASE Creating(r) -> req[r].call = "insert" => Runs(c)
      [] req[r].op \in {"start", "restart"} ->
            /\ HasRow(c)
            /\ req[r].op = "restart" /\ req[r].call = "k8sCreate" => ~Runs(c)
            /\ req[r].call \in {"setRunning", "touch", "respond"} => Runs(c)
            /\ req[r].call \in {"touch", "respond"} => Wanted(c, "Running")
      [] req[r].op = "stop" ->
            /\ HasRow(c)
            /\ req[r].call \in {"setStopped", "respond"} => ~Runs(c)
            /\ req[r].call = "respond" => Wanted(c, "Stopped")
      [] OTHER -> req[r].call = "deleteRow" => ~Runs(c)

\* An operation that has its cluster for itself, and has seen no fault, finds the
\* row and the CR at every call as the calls before it left them, whatever the
\* state was when it began; and only clusters in use are marked spoiled.
OnCourse ==
    /\ \A c \in spoiled : Busy(c)
    /\ \A r \in Requests :
          req[r].op \in Lifecycle /\ req[r].id \notin spoiled =>
              /\ OthersOn(r, req[r].id) = {} /\ rec.id # req[r].id
              /\ Expected(r)
    /\ rec.id # None /\ rec.id \notin spoiled =>
          /\ OthersOn(None, rec.id) = {}
          /\ HasRow(rec.id)
          /\ rec.call = "mark" => ~Runs(rec.id)

\* What the reconciler still holds from its listing is Running, unpinned and idle
\* for longer than its window, except for rows that a request wrote meanwhile:
\* a wrong stop can only come from an update that lands during the pass.
HeldIdleUnlessDisturbed ==
    \A c \in (rec.due \cup {rec.id}) \ disturbed :
        c # None =>
            /\ rows[c] # None
            /\ rows[c].desired = "Running" /\ ~rows[c].pinned
            /\ 0 < IdleMinutes[rows[c].config]
            /\ IdleMinutes[rows[c].config] < rows[c].age

\* A CR carries exactly the persisted config of its row, unless that config was
\* edited after the handler that rendered the CR had read it.  This holds under
\* all overlaps, faults and crashes.
CRHasPersistedConfig ==
    \A c \in Ids \ stale :
        crs[c] # None /\ rows[c] # None => crs[c] = rows[c].config

\* The same of the snapshots that CRs will be rendered from or rows inserted with.
SnapshotsCurrent ==
    \A r \in Requests :
        /\ /\ req[r].op \in {"start", "restart"} /\ r \notin stale
           /\ req[r].call \in {"k8sDelete", "k8sCreate"} /\ rows[req[r].id] # None
           => req[r].config = rows[req[r].id].config
        /\ Creating(r) /\ crs[req[r].id] # None => crs[req[r].id] = req[r].config

StaysDeleted(c) ==
    rows[c] = None /\ (\A r \in Requests : req[r].id = c => ~Creating(r)) =>
        /\ rows'[c] = None
        /\ crs[c] = None /\ OthersOn(None, c) = {} => crs'[c] = None

\* A deleted cluster stays deleted.  Whatever requests and passes still hold its
\* id, its row never comes back; nor does its CR, unless a lifecycle operation
\* that began before the deletion is still under way.
DeletedStaysDeleted == [][\A c \in issued : StaysDeleted(c)]_vars

-----------------------------------------------------------------------------
(* Liveness.                                                               *)

\* A Running, unpinned cluster with an idle window does not stay idle for ever:
\* its activity is renewed again and again, or at some time it is no longer such
\* a cluster, because it was stopped.
AutoStops(c) == /\ rows[c] # None
                /\ rows[c].desired = "Running" /\ ~rows[c].pinned
                /\ IdleMinutes[rows[c].config] > 0

IdleIsStopped == \A c \in Ids : []<>(~AutoStops(c) \/ rows[c].age = 0)

-----------------------------------------------------------------------------
(* What a comment says, and the code does not always do.                   *)

\* A step in which the reconciler takes the CR of c away.
ReconcilerStops(c) == rec.id = c /\ rec' # rec /\ crs[c] # None /\ crs'[c] = None

\* A cell that runs keeps its cluster off idle-terminate.
CellKeepsClusterUp ==
    [][\A c \in Ids : ReconcilerStops(c) =>
          \A r \in Requests : ~(req[r].id = c /\ req[r].call = "execute")]_vars
=============================================================================
