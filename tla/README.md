# QuickSense: models, checks and proofs

QuickSense is a lakehouse control plane: a Go API in front of Postgres,
Kubernetes, Polaris, Trino, Keycloak and a Python execution broker, with a
Next.js UI on top. This directory holds TLA+ models of its behaviour, the TLC
configurations that check them and theorems that TLAPS proves about them. Paths
below are relative to the repository.

## 1. The system

### Parts, their state and their operations

| Part | Source | State | Operations |
|---|---|---|---|
| Cluster lifecycle API | `api/internal/http/clusters.go`, `store/pg.go`, `k8s/sparkconnect.go` | a row of `clusters` per cluster (config, pinned, desired_state, last_activity_at) and a SparkConnect CR in Kubernetes | create, clone, start, stop, restart, delete, patch; list, get, events, logs, metrics |
| Idle reconciler | `api/internal/http/reconcile.go` | none beyond the pass it is in | a pass per minute: list, choose, delete CR, mark row |
| Notebook service | `api/internal/http/notebooks.go` | rows of `notebooks` and `notebook_revisions` | create, update, trash, attach, save and restore revision, export, run |
| Object permissions | `api/internal/authz`, `http/permissions.go` | rows of `permissions`, unique per object and principal | grant (upsert), revoke, list; `Allows` at the start of every handler |
| Execution broker | `docker/broker/broker.py`, `api/internal/broker` | one process-wide dictionary of Spark sessions, and `sys.stdout` | POST /run, a thread each |
| Polaris proxy, Keycloak admin client | `api/internal/polaris`, `api/internal/keycloak` | a cached token with its expiry, under a mutex | catalogs, namespaces, tables; users, groups, roles |
| Trino sample client | `api/internal/trino` | none | a paging loop over `nextUri` |
| API authentication | `api/internal/auth` | the key set of the OIDC library | verify a JWT, require a role |
| Start-up, configuration | `cmd/quicksense-api/main.go`, `config`, `store/migrate.go` | the schema version | ensure the database, migrate, connect, serve |
| UI session | `ui/auth.ts`, `ui/middleware.ts`, `ui/lib/auth-callbacks.ts` | access and refresh token in the session cookie | sign in, refresh before expiry |
| Notebook editor | `ui/components/NotebookEditor.tsx` | notebook, cells, dirty, saving, run results | load, edit, save, run, restore, attach: asynchronous callbacks |
| Clusters view | `ui/components/ClustersView.tsx`, `LogViewer.tsx` | the list, an error, a poll timer, the busy row | load, poll while something settles, one action per row |
| Notebook list | `ui/components/NotebooksView.tsx`, `WorkspaceTree.tsx` | the list, the create dialog, the open notebook | create, select, trash, load |
| Permissions editor | `ui/components/PermissionsEditor.tsx` | the grants shown, a form | grant, revoke, load |
| Identity page | `ui/components/IdentityView.tsx` | users, groups, their dialogs, a role per row | add, assign, load; takeover on 403 and 501 |
| Catalog page | `ui/components/CatalogView.tsx`, `Tree.tsx` | a lazy tree, the details of the table picked | expand, fold, pick, sample |
| Proxy routes | `ui/app/api`, `ui/lib/api.ts` | none | check the session, dispatch on path and verb, call the API |
| Bootstrap | `scripts/lib/bootstrap-common.sh` | catalog, grants, roles and principals in Polaris | idempotent `ensure_*` steps |

### How the parts interact, and what is hard

- Every HTTP request runs on its own goroutine; no handler takes a lock and no
  handler uses a transaction. What two requests read and write interleaves call
  by call.
- A cluster lives in two services. Each lifecycle handler makes one or two
  Kubernetes calls and one or two Postgres updates, in an order of its own, and
  gives up, tolerates or ignores errors call by call. Nothing compensates and
  nothing resumes after a crash.
- The reconciler shares the rows and the CRs with the requests and decides from
  a list it read at the start of its pass.
- A notebook cell goes from the editor through the API and the broker to the
  CR's endpoint; its activity is written to the cluster's row afterwards.
- Handlers check a permission first and act later.
- The broker's threads share the session dictionary and the interpreter's
  standard output.
- The UI's callbacks complete in any order, after edits, after the selection has
  changed and after their component is gone; most of the pages' loads have no
  guard against an older answer.
- A request of the UI passes four tables that are written and tested apart: the
  fetch of a component, the route files, the functions of `api.ts` and the
  router of the API.
- Requests that run side by side on the UI's server refresh one session.

### What makes each part correct

- Clusters: the two records agree whenever nothing overlapped or failed; an
  overlap or a fault never does more than make them disagree, and one clean
  operation repairs that; a CR carries the persisted config; what is deleted
  stays deleted; ids are never shared.
- Reconciler: it stops only what was idle, running and unpinned, up to updates
  that land during the pass; it stops every such cluster at last.
- Notebooks: no revision mixes notebooks, no save is lost without notice,
  trashed notebooks stay as they were.
- Permissions: levels are monotone, no write without a level held at the check.
- Broker: a cell gets its own output, and a session of the cluster as it is now.
- Token caches and UI session: no call leaves with a token inside its margin;
  concurrent refreshes do not break a session.
- Editor: what is shown as saved is saved, under the notebook it belongs to.
- Clusters view: polling goes on while a cluster settles; the page's own changes
  are shown; no flag stays set.
- Other pages: what is shown belongs to what is open; one change at a time; an
  answer for a component that is gone changes nothing of the one in its place.
- Proxy: every request reaches the handler it is meant for, with its fields.
- Bootstrap: any number of interrupted runs and a complete one reach the goal.

`PROJECT.json` lists the hazards, each at its line, with the properties that cover it.

## 2. Plan

| Order | Module | Composes | Status |
|---|---|---|---|
| 1 | `ClusterLifecycle` (+ `MCClusterLifecycle`, `ClusterLifecycleProofs`, `ClusterAgreementProofs`) | handlers, reconciler, Postgres, Kubernetes | done |
| 2 | `ClusterRegistry`, `ClusterRefinement` (+ `ClusterRefinementProofs`): what the table `clusters` promises, implemented by 1 | refinement of 1 | done |
| 3 | `Broker` (+ `MCBroker`, `BrokerProofs`): session cache, output capture | the broker's threads | done |
| 4 | `NotebookEditor` (+ `NotebookEditorProofs`): callbacks over the editor's state | editor, user, an API that serves a request in one step | done |
| 5 | `ClustersView` (+ `ClustersViewProofs`): poll, actions, dialog | page, user, API | done |
| 6 | `Console` (+ `MCConsole`, `ConsoleProofs`): `PermissionsEditor`, `IdentityView`, `CatalogView`, `NotebooksView`, `ClusterDrawer` | the other pages, one of them open | done |
| 7 | `Routes`, `Proxy` (+ `ProxyProofs`): from a fetch to a handler, and the session on the way | route files, `api.ts`, the router, the session | done |
| 8 | `Permissions`: ladders, `Effective`, `Allows` as operators against a reference definition; grant and revoke beside a check | used by 9 | open |
| 9 | `Notebooks`: notebooks, revisions, attachment, call by call, with the permission check | 8 | open |
| 10 | `TokenCache`, `TrinoSample`, `Bootstrap`, `Startup`, `SparkConnectCR` | | open |

Every safety property of the passing runs is a theorem. Liveness is checked and
not proved, which is out of the prover's reach: `IdleIsStopped`,
`SettledIsSeen`, `RunEnds`. Worth proving next: monotonicity of the ladders of 8.

## 3. Clusters: `ClusterLifecycle`

### State

| Variable | Code |
|---|---|
| `rows` | the table `clusters`: config, pinned, desired_state, and the age of last_activity_at in ticks |
| `crs` | the SparkConnect CRs: the config each was rendered from, or `None` |
| `issued` | the CR names generated so far (`generateCRName` draws them at random) |
| `req` | for each slot, the request served: operation, cluster, the config it holds, and the call it makes next |
| `rec` | the reconciler: the due ids it has not reached, the one in hand, its next call |
| `settled`, `spoiled`, `stale`, `disturbed` | history: written by the actions, read by the properties alone |

A row id and its CR name stand for each other, since both are drawn for one
cluster and never used again. A create body is an element of `Configs`, of which
only its idle window matters.

### Actions

A request is a sequence of calls and each call is one action; between two of
them anything may happen. `BeginCreate`, `BeginClone`, `BeginChange` (start,
stop, restart, delete), `BeginPatch` and `BeginRun` are the part of a handler up
to its first write, which is one read of the row. `ProvisionCR` and `TeardownCR`
are the Kubernetes calls, `InsertRow`, `SetDesired`, `Touch`, `SetPinned`,
`UpdateConfig` and `DeleteRow` the Postgres calls, `Execute` the call to the
broker and `Respond` the last read. `FirstCall` and `After` are the order in
which each handler makes its calls. `Finish` is its return, early or at the end.

A Kubernetes or Postgres call ends in one of three ways: `ok`, `failed` without
effect, or `lost`, the effect taking place while the caller sees an error. Which
errors end a handler, which are tolerated and which are dropped is as in the
code. A handler that finds no row, or whose caller may not act on it, changes
nothing and is a stuttering step.

The reconciler is `ReconcilerLists`, `ReconcilerGets`, `ReconcilerDeletes` and
`ReconcilerMarks`. `Tick` makes every row older. `Crash` ends all requests and
the pass where they are. `OutOfBandDelete` removes a CR by hand.

Assumed of services outside the repository: `Delete` removes a CR at once (no
finalizer is set anywhere in the source), each SQL statement is atomic, and a
random CR name is never drawn twice.

### History variables

`spoiled` holds the clusters in use by a lifecycle operation that overlapped
another one, or by one that saw a failing call. `settled` holds the clusters
that were not spoiled when the last such operation left them, and had no CR
removed by hand since. `stale` holds the CRs, and the
requests in progress, whose config was read before an edit of the row's config.
`disturbed` holds the ids on the reconciler's list whose rows a request has
written since the list was read. They let a property say exactly which
circumstances excuse a deviation, so that every other one is an error.

### Properties

- `TypeOK`: a request is always at a call of its own handler and holds what that
  call needs.
- `CreatorAlone`: while a cluster is being created nobody else has its id.
- `OnCourse`: an operation that is alone and saw no fault finds row and CR, at
  every call, as its earlier calls left them.
- `SettledAgree`: a settled cluster at rest has a CR exactly if it has a row that
  says Running. Hence only overlaps and faults make the two disagree, and any
  later start, stop or restart that runs alone repairs them. (A CR without row
  has no such operation: its row id is gone, and nothing repairs it.)
- `HeldIdleUnlessDisturbed`: what the reconciler holds is idle, Running and
  unpinned unless its row was written during the pass.
- `CRHasPersistedConfig`, `SnapshotsCurrent`: a CR has the config of its row
  unless that config was edited after the handler had read it. This holds
  through all overlaps, faults and crashes.
- `DeletedStaysDeleted`: no request and no pass that still holds the id of a
  deleted cluster brings its row back, nor its CR unless it is a lifecycle
  operation that began before.
- `IdleIsStopped`: an unpinned Running cluster with a window does not stay idle
  for ever.

### Runs

| Run | Instance | Shows |
|---|---|---|
| `cluster_faults` | 1 id, 2 requests, 2 configs, create, start, stop, patch, delete, Kubernetes calls ok, failed or lost, store calls ok or failed, crash, CR removed by hand | what overlaps and faults can do, the repair, and which config a CR is rendered from |
| `cluster_clones` | 2 ids, 2 requests, 2 configs, create, clone, restart, delete, store calls ok or lost, crash | that ids are not shared, and the refinement |
| `cluster_idle_stop` | 1 id, 1 request, 2 configs, create, start, stop, restart, patch, run, every outcome of a call, crash, fairness | idle clusters are stopped |
| `long_cell_stopped` | smallest that shows it | the finding below |

Bounds. Handlers never touch a cluster other than their own, except that clone
reads the config of its source, so one id shows every interleaving on a cluster
and two show clones (of the config a clone gets, the theorem on
`CRHasPersistedConfig` speaks for all instances). Two slots are two requests at
a time, one after the other in each slot without limit; with the reconciler
there are three processes. Restarts overlap other requests in `cluster_clones`:
they make the calls of a stop and of a start. Store calls that are lost are in
`cluster_clones`, and the proofs cover every outcome in every combination. The
configs are one without idle window and one with a window of one tick; ages
saturate at `AgeCap` = 2, one above the window, since only "older than the
window" is ever asked. Ids are used once, so when a run's pool is used up and
all clusters are deleted nothing more happens: this is why the runs do not check
deadlock.

Fairness, in `cluster_idle_stop` only: time passes; the ticker starts passes
again and again (`time.NewTicker` in `Start`); and a call the reconciler repeats
pass after pass succeeds at some time (strong fairness of the successful
outcome, since crashes and failures disable it in between). Nothing is assumed
of users: the property holds for a user who starts, restarts or runs cells for
ever, because then the activity is renewed for ever.

### Findings

- `long_cell_stopped`: a cell that runs longer than the idle window loses its
  cluster: activity is recorded only after the cell.

Three deviations show in the properties' exceptions without a run of their own.
A start and a stop that overlap may both answer 200 and leave row and CR in
disagreement (`spoiled`). A
pin set while a pass is under way does not keep the cluster from being stopped by
that pass (`disturbed`). A start whose update of the row fails answers 200 for a
cluster its row says is Stopped (`spoiled`).

### The abstract specification: `ClusterRegistry`

`ClusterRegistry` is what the table `clusters` promises to whoever reads it: a
cluster is inserted once, with the defaults of `CreateCluster`; every later write
changes one of the columns config, pinned, desired_state and last_activity_at and
keeps what others have written to the rest; once removed, a cluster never
returns, and neither does one whose create was given up. It knows of no request,
no Kubernetes and no crash.

`ClusterRefinement` states that `ClusterLifecycle` implements it
(`ImplementsRegistry`). The table is the same on both sides; the ids that are
`spent` are those which were issued and have neither a row nor a request left
that would insert it. Kubernetes calls, reads, and the start and end of requests
map to stuttering, the end of a create without a row, also by a crash, to
`GiveUp`, each UPDATE of a handler or of the reconciler to `Write`, and time to
`Age`. TLC checks it in `cluster_clones`, TLAPS proves it for all constants.

### Proofs

Every safety property above is proved for all values of the constants: any number
of clusters, requests and configs, all operations, faults and crashes together.
The only assumptions are the two named ones of `ClusterLifecycle`:
`ConstantsAssumption` (the windows lie below the cap, a call may succeed) and
`NoneAssumption` (`None` is none of the values it stands in for; ids and request
slots are different things, since `stale` holds some of each).

| Module | Theorems | Inductive invariant |
|---|---|---|
| `ClusterLifecycleProofs`, types | `TypeCorrect` | `TypeOK` itself; `Scripts` states the order of calls of each handler and `AfterServing` that the call which follows is one of the same handler |
| `ClusterLifecycleProofs`, safety | `CreatorsAreAlone`, `OnlyIdleIsHeld`, `DeletionIsFinal` | `CreatorAlone` is inductive over `TypeOK`; for the reconciler, every id held and not in `disturbed` has a due row; `DeletedStaysDeleted` follows from `CreatorAlone`, which excludes the one writer that could insert |
| `ClusterAgreementProofs`, rows and CRs | `UndisturbedStayOnCourse`, `SettledClustersAgree` | `Fine(c)`, for each cluster: what `OnCourse` says while an unspoiled operation is under way and what `SettledAgree` says at rest. Neither is inductive alone: an operation starts from a settled cluster, and settles it when it ends |
| `ClusterAgreementProofs`, configs | `SnapshotsAreCurrent`, `CRsHavePersistedConfig` | `Current`: CRs and snapshots are either stale or equal to the row. It needs `CreatorAlone`, since the insert or the CR of a request that creates must not meet another holder of its id |
| `ClusterRefinementProofs` | `LifecycleImplementsRegistry` | `TypeOK` and `CreatorAlone`, which gives that an insert finds no row and an id that is not spent, since its only holder is the request itself |

Each module extends an earlier one. In each there is a lemma per group of
actions, one step per action under it, and `PTL` only in the last step. TLC
checked every invariant before it was proved.

What stays with TLC: `IdleIsStopped`, since liveness under fairness is out of
the prover's reach, and the counterexample.

## 4. The execution broker: `Broker`

### State and actions

A thread per POST /run, which is here the cell it executes, at a place `pc`.
Shared are `sessions` (the dictionary `_sessions`) and `stdout` (the
interpreter's `sys.stdout`: the console or the buffer of a cell). Of a cell's own
there are `spark` (its session), `saved` (what its `redirect_stdout` will put
back), `buffer` (its `StringIO`, as a count of the lines of each cell it
received) and `answer`. A session goes by the name of the cell that created it.

Each access to something shared is one action: `Lookup` and `Connect` are the
two accesses of `_session`, `Save` and `Redirect` the two halves of
`redirect_stdout.__enter__` (read `sys.stdout`, then set it), `PrintLine` a line
written to whatever `sys.stdout` is now, `Leave` its `__exit__` at the end of the
cell or when the cell raises, `Collect` the answer. `SystemExit` passes `except
Exception` and ends the thread. `Restart` kills the process with its threads. A
request without `connect_url` or `code` is answered with 400 and touches nothing.

Assumed of pyspark: `getOrCreate` returns a session of the cluster it is called
for, or raises. Not modelled: a session that outlives its cluster, and the time
limits of the API's client and server.

### Properties

`overlapped` holds the cells whose redirection overlapped another one, `raced`
the urls two threads missed in the dictionary at once: both are history.

- `TypeOK`: also, no buffer holds more lines of a cell than it printed.
- `AloneGetsItsOutput`: a cell that did not overlap another is answered with
  exactly its output, whatever cells before it left in `sys.stdout`.
- `RestoredUnlessOverlapped`: with no cell running, `sys.stdout` is the console
  or the buffer of a cell that overlapped another.
- `SessionSharedUnlessRaced`: all cells on one url have the cached session,
  unless two threads missed it at once.

### Run

`broker_cells` has three cells, two of them on one url, a line each, and a
restart. Two cells show an overlap; the third runs after or across it, which is
how a stream left behind reaches a later cell. A cell is served once, so a run
ends when all are: deadlock is not checked.

Two cells that overlap may get each other's output: `redirect_stdout` replaces
`sys.stdout` of the whole process, and each cell runs on a thread. This is what
`overlapped` excepts. A cell that raises `SystemExit` is never answered, which
`Leave` models and no run asks about.

### Proofs

`BrokerProofs` proves the four properties for any number of cells, urls and
lines, from `ConstantsAssumption`. `TypeOK` is inductive. `Capture` says that the
buffer of a cell that did not overlap is `sys.stdout` only while that cell runs,
that no other cell has it in `saved`, and that the buffer has had its own lines
and no others; without the part about `saved`, another cell's `__exit__` could
bring the buffer back. `Sharing` adds that, on a url nobody raced for, at most
one thread is creating a session, and none while there is one.

## 5. The notebook editor: `NotebookEditor`

### State and actions

The React state of one `NotebookEditor` (`loaded` is `notebook !== null`; `cells`,
`dirty`, `saving`; `error` is the error screen; `runs` what is shown below one
code cell), the requests in flight (`net`), and the API's content and revisions
of the notebook (`stored`, `revisions`). A content is a number; every edit makes
a new one.

A handler sends a request and returns; the API serves it; a callback changes the
state when the answer is there. These are three actions (`Save`, `Serve`,
`SaveAnswered`, and so on), and anything may happen between them. The guards of
the user's actions are what the page offers: `Editing` for the toolbar, cells,
drawer and dialogs, the disabled Save button, `Retry` on the error screen.
`Reopen` selects another notebook and this one again: the component is keyed by
the id, so a new one is mounted, and the callbacks of the old one change nothing,
but for a trash, of which the view hears. `SaveElsewhere` is another tab.

A request ends `ok`, `bad` (an error status), `thrown` (the fetch fails) or
`lost` (it fails after the API has made the change). The API serves a request in
one step here; its calls of the store belong to the module `Notebooks`. The
answer 501 of an API without broker and the other error statuses of a run are
one outcome, since the editor treats them alike but for the wording.

### Properties

`crossed` is history: requests about the content (load, save, restore), an edit
and such a request, or another tab's save, have overlapped since such a request
last began alone; or the answer to a restore was lost.

- `SavingIsASave`: the editor says it is saving exactly while its one save is on
  its way, so that the button neither starts a second save nor stays disabled.
- `CleanIsStoredUnlessCrossed`: cells without the mark for unsaved changes are
  what the store has, unless something crossed. A failed save keeps the mark; a
  save whose answer was lost does too.
- `RunEnds`: a cell does not stay "running".

### Runs, fairness, findings

`editor` has two requests in flight, two contents beyond the first, all faults
and another tab: enough for a request to cross another, an edit or the other tab
in either order, and for a clean load or save to follow. The slots are used
again without limit. A user who has trashed the notebook has nothing left to do,
so deadlock is not checked.

Its fairness, for `RunEnds`, is weak fairness of serving and of callbacks for each
slot: fetch settles and the event loop runs its callback. Nothing is
assumed of the user.

- `unmarked_edit`: an edit made while a save is in flight is marked as saved when
  the save returns.
- `run_rejected`: the editor and the proxy route send `cell_id` or nothing, and
  the API answers 400 to a body without `code`: no run from the editor executes.

### Proofs

`NotebookEditorProofs` proves the three invariants for any number of slots and
contents and all faults. `SavingIsASave` is inductive over `TypeOK`: `Reopen`
makes every save an orphan at the moment it resets `saving`.
`CleanIsStoredUnlessCrossed` is not inductive, since what it says of the cells
depends on the answer under way: `CleanInv` adds that, when nothing has crossed,
at most one request about the content is in flight, and `Course` says of it what
its callback will need (a save carries the cells, which are dirty; an answer
carries what is stored; a restore not yet served leaves cells and store in
agreement).

`RunEnds` is liveness and stays with TLC, as do the counterexamples of both
modules.

## 6. The Clusters page: `ClustersView`

### State and actions

The React state of the page: `clusters` (the list, with the `version` of the API
it was read at), `error`, `dialog` (open or not, and whether the form has a
name), `creating`, `busyId`, and whether the poll's `timer` is
armed. `server` is what the API would list, `flows` the calls of async functions
that are under way. A row is stopped, ready, or settling: what `isTerminalReady`
and the entries of the menu look at.

A call of `load`, `onCreate`, `onDelete`, `onAction` or `onTogglePin` is a flow.
It sends its request (`Poll`, `Create`, `Act`), is served (`ServeChange`,
`ServeList`, in any order among the flows), resumes (`ChangeDone`,
`ChangeRefused`), which after a change means that it loads the list, and ends
(`Loaded`, with the `finally` of its function). `OpenDialog` and `EditDialog`
are the user's; `Operator` is the phase of a CR that changes, `Elsewhere`
another user who deletes. The drawer is `ClusterDrawer` in section 7.

A request ends `ok`, `bad` (an error status), `failed` (an error status after the
change was made), `thrown` (the fetch fails) or `lost` (it fails after the change
was made). The API answers a list in one step; the handler's reads of row after
row, and of a CR each, are abstracted.

### Properties

`unsure` is history: loads have overlapped since one began alone, or an answer
did not tell the page of a change that was made.

- `KeepsRefreshing`: a list with a cluster that has not settled has a timer or a
  load on its way, or an error is shown. The exception is real: a poll that
  fails leaves the list as it is, so the effect that arms the timer does not run
  and polling ends (`ClustersView.tsx:98`), until something else loads.
- `SettledIsSeen`: a row shown as settling is read again until it has settled,
  unless an error is shown or the cluster has not settled either.
- `BusyIsWorking`: `busyId` is one variable for all rows: an action on another
  row takes it over, and the `finally` of any action clears it, whosever it is;
  still no row stays marked with nobody at work, and `creating` stands for
  exactly one create.
- `OwnChangesShown`: at rest and without an error, the list has every change of
  the page, unless `unsure`.
- `DraftKept`: what is typed into the create dialog is lost to the user's closing
  it or to a create that has succeeded. That create may be an earlier one, whose
  answer closes the dialog that was opened again since.

### Runs, fairness

`clusters_view` has two ids, each of a settling cluster or `new` when the page
opens, two flows, one change that the API makes (others it refuses), and the
faults `bad` and `lost`. That is enough for a poll to cross a change and its load,
for a create beside rows, and for actions on two rows to be under way at once, of
which each takes over and clears what the other has marked: a page that left the
mark to the last action to clear would break `BusyIsWorking`, and would not with
one row (the mutant `FinishLast`).

Three bounds keep the run small. `Offers` limits the menu to `stop`, `restart` and
`delete`, which leave a row settled, settling and gone: a clone changes the list
as the create does, a pin changes no row, and a start needs a row that was
stopped, by a change made before. `UserMay` lets the user begin no
action, and open no dialog, once the one change is made, since the API could only
refuse a second. And `SettledIsSeen` is said of one id: no id differs from another
in anything, so that either stands for both.

When no cluster is left and the dialog is closed the page may rest, so deadlock is
not checked.

Fairness, for `SettledIsSeen`: timers run out (`WF` of `Poll`), requests are
answered and handlers go on (`WF` for each slot). Nothing is assumed of the user
or of the operator; the bound on flows leaves one to the poll while its timer is
armed (`UserMay`), since the browser starts a timer's callback whatever else is
under way.

### Proofs

`ClustersViewProofs` proves the type invariant and the four safety properties,
for any number of clusters, flows and changes, any `Offers` and all faults, from
`ConstantsAssumption`. `TypeInv` adds to `TypeOK` that an action has a row to act
on. `BusyIsWorking` and `KeepsRefreshing` are inductive
over it. `OwnChangesShown` is not, as it speaks of the page at rest alone:
`OwnInv` says that, unless `unsure`, at most one load is under way, and with no
change waiting for its load, what that load has read, or else the list shown, is
of the current version. `DraftKept` follows step by step. `SettledIsSeen` stays
with TLC.

## 7. The other pages: `Console`

`Console` composes the five modules of the other pages: a user has one page open
at a time, each page starts from the API's data alone, and leaving one unmounts
all of it. Its variables are those of all pages, of which one is in use; its
properties are those of the pages, each said of the page that is open.

| Module | Code | State and actions |
|---|---|---|
| `PermissionsEditor` | `PermissionsEditor.tsx` on `http/permissions.go` | grants of the table and grants shown, `busy`, the form; `Grant`, `Revoke`, their answers, and loads |
| `IdentityView` | `IdentityView.tsx` on `http/admin.go` | the load state of users and of groups, two dialogs, the busy flags; a flow whose component is gone is an `orphan`: it goes on, and changes what belongs to the page alone |
| `CatalogView` | `CatalogView.tsx`, `Tree.tsx` | for each branch whether it is expanded and what it has loaded, the side map `coords`, the table `picked` and the requests of its panel, with the step between the answer and its body |
| `NotebooksView` | `NotebooksView.tsx`, `WorkspaceTree.tsx` on `http/notebooks.go` | the table with its unique path, trashed rows included, the list shown, the dialog, the notebook that is open |
| `ClusterDrawer` | the tabs of `ClustersView.tsx`, `LogViewer.tsx` | the cluster and the tab that are open, what the tab shows, the timer of the logs, and the requests, live until their effect is cleaned up |

What is checked of them (`console`, two flows at a time, one change by the API,
errors and losses, two notebooks, three tables):

- `BusyIsWorking` (identities, permissions and notebooks): a control that is
  disabled has exactly one request at work, through errors,
  dialogs that are closed and opened again, and the takeover of the identity page
  (behind which nothing is left busy or open).
- `GrantsShown`, `IdentityAddedIsShown`, `NotebooksWorkspaceIsCurrent`: at rest
  and without an error the list agrees with the API, unless `unsure` as above.
- `IdentityTakeoverByUsersOnly`: the takeover comes and goes with the answer to a
  load of the users, as the comment at `IdentityView.tsx:78` says; a failed add
  or the groups never cause it.
- `CatalogDetailIsOfPicked`, `CatalogPickedIsLoading`: the details, and the row
  marked in the tree, are those of the table in the heading, and the panel always
  ends in details or an error. The details have an exception: the panel's key joins three names with dots, so tables `a`/`b.c`/`d`
  and `a.b`/`c`/`d` share a panel that is not mounted anew, and since the effect
  looks at `cancelled` before it awaits the body and not after, the details of
  one may be shown under the heading of the other (`CatalogView.tsx:147`, `:236`).
- `CatalogLoadingIsOne`: a branch that says "Loading" has exactly one request,
  through folding and unfolding it and its parent.
- `NotebooksOpenStaysOpen`: a notebook that is open is closed by its own trash
  only, and gives way to another one by the user's choice or a create that ends.
- `DrawerLogsKeepComing`, `DrawerShownIsOfOpen`: while the logs are on the
  screen exactly one request or timer is there for them, otherwise none is left;
  what a tab shows is of the cluster that is open.

Bounds. Two flows cross in every order, and each slot is used again without
limit. One change by the API separates a list that has it from one that does not;
a second one would be compared in the same way. The three tables are the least
that has a key shared by two and a second table in a namespace. Two notebooks
are one to be open and one to be created or trashed beside it; one name and the
folders "none" and "/Reports" make two paths, so that one path is taken. Slots
and ids are symmetric. A page at rest with nothing left to do is no
deadlock. No fairness is assumed: the properties are safety.

### Proofs

`ConsoleProofs` proves `TypeOK` and all the properties above, for any number of
flows, requests, principals, notebooks, tables and changes, all faults and
losses. A step of the console is a step of the page that is open or leaves that
page alone (the lemmas `...Turn`), so each page has an inductive invariant over
its own `Init` and `Next`, carried over to `Spec` once (the lemmas `...Holds`).

| Page | Theorems | Inductive invariant, beside the types |
|---|---|---|
| permissions | `GrantsAreShown` | `PermissionsBusy`: `busy` stands for one flow that changes; `PermissionsCurrent`: unless `unsure`, with no change waiting for its load, what a load has read, or else what is shown, are the API's grants. A change whose load has yet to read is what makes this hold between the change and the load |
| identity | `AddedIsListed`, `TakeoverIsByUsers` | `IdentityBusy`: a busy flag stands for one flow that is no orphan, and nothing is busy behind the takeover; `IdentityCurrent`, as above, for each of the two lists |
| notebooks | `WorkspaceIsTheAPIs`, `OpenNotebookStays` | `NotebooksBusy` and `NotebooksCurrent`, as above; an answer holds notebooks that exist |
| catalog | `DetailsAreOfPicked`, `BranchLoadsOnce`, `PickedKeepsLoading` | `CatalogTree`: each id that `coords` knows leads to the node with that id, a row on the screen and a branch that loads are known, and a branch has one request exactly while it says so. `CatalogPanel`: a request is for a table of the panel's key, and for the table picked while it counts |
| drawer | `LogsKeepBeingAsked`, `DrawerShowsItsCluster` | `DrawerInv`: a live request is of the cluster and the tab that are open, and the timer and the live requests of the logs are one in all |
| all | `ConsoleTyped`, `BusyIsOneRequest` | those of the pages, and that one of the five is open |

The catalog rests on a fact about names: `IdsApart` proves that two nodes with
the same id are the same node, since a NUL separates the names in an id and no
name has one (`CatalogView.tsx:29`). With dots instead of NULs the lemma is
false, which is what the shared key of the panel shows.

The assumptions are `ConsoleAssumption` (`None` is no value of the sets it stands
in for, a notebook may be in no folder, a table has three names) and
`CatalogNames`: the names of tables are sequences of characters without a NUL.

## 8. From a fetch to a handler: `Routes`, `Proxy`

`Routes` has four tables, one for each layer a request of the UI passes: the
fetches of the components (`Fetches`, with the handler each one is meant for),
the route files below `app/api` (`Files`, with the cases by which a catch-all
dispatches, the fields a case needs and those it hands on), the functions of
`api.ts` (`Api`), and the routes of the Go router with the fields their handlers
ask for and read (`Router`). A path is a sequence of segments and a shape one with
places for segments; `FileCases` is how Next.js picks a file, `Args` and `Fill`
how the segments of one path come into the next, `Upstream` what a case sends on.
`Segments` are the ids, and the names of catalogs, namespaces and tables; api.ts
encodes each of them, so that it stays one segment, and the encoding itself is
left out.

`Proxy` runs the tables: requests side by side on the UI's server, each with the
session cookie it was sent with. `Authenticate` is `auth()` with `jwtCallback`,
`Refresh` its exchange of the refresh token, which Keycloak may rotate, `Forward`
the dispatch, `ServeApi` the API's own check of the token and its status,
`Answer` the way back, perhaps with a new cookie. Auth.js and Keycloak are
external: whether a changed session is written to the cookie, and whether a
refresh token is rotated, is open.

- `HandledAsMeant`: each request reaches exactly the handler it is meant for, for
  the object it names, with all the fields that handler asks for, and with all of
  those it reads and the UI has sent. Excepted are the fields of `run` and the
  lists that no file serves (the findings).
- `DeniedUnrefreshed`: the API finds a token expired only if refreshing it has
  failed: the margin covers the way from `jwtCallback` to the API and what the
  API's clock is ahead of the UI's (`Ahead`).
- `SignedInUnlessRaced`: at rest, the refresh token in the cookie is the one
  Keycloak accepts, unless a refresh ran beside another request, or its result
  was lost or not stored (`raced`). The exception is real
  (`auth-callbacks.ts:51`): nothing makes two requests share one refresh.

`proxy` has one slot that makes any of the UI's requests and one that polls, so
that a refresh may run beside a request. `Segments` are two words, so that one
argument may be taken for another, and one of them, "tables", is also a fixed
segment, so that a name may look like a keyword. Tokens live 3 units with a
margin of 2, the clock goes to 2 and that of the API is 1 ahead: a token may be
good, within its margin, or expired for the API, and may be refreshed more than
once. `Tick` lets no more pass between `jwtCallback` and the API than the margin
leaves of `Ahead`, which is the assumption `DeniedUnrefreshed` rests on.
The clock is bounded, so deadlock is not checked.

- `empty_path`: no file serves `/api/notebooks` and `/api/catalogs`, since a
  catch-all needs a segment: the lists of notebooks and of catalogs, and the
  creation of a notebook, are answered 404 by the UI's server. The comments at
  the head of both route files list the empty path; their tests call the handlers
  with it. The models of the pages in 7 take the lists as served, which is what
  the handlers are written for.

### Proofs

`ProxyProofs` proves `TypeOK`, `DeniedUnrefreshed` and `SignedInUnlessRaced`
(`ProxyTyped`, `DeniedOnlyUnrefreshed`, `SessionIsKept`) for any number of polls
beside the user, any life of a token, any margin shorter than that, an API whose
clock is ahead by no more than the margin, and any bound on time, from
`ProxyAssumption`. `ProxyInv` says of a request between
`jwtCallback` and the API that, by the API's clock, it is within the margin of the
time its token was looked at, and that the token outlives that margin unless its refresh failed.
With it goes that a token was made `Life` before it expires and that the clock
counts the refresh tokens. `SessionKept` says that, unless something raced, one
request at most has a new token that the browser does not have yet, with the
refresh token Keycloak accepts, and that otherwise the cookie has it.

`RequestsAreHandledAsMeant` proves `HandledAsMeant` for any `Segments`: an id may
be any value at all, a keyword of another path too. The argument goes layer by
layer, over the form of a path (`All`, `One`, `Of`, `Tables` and so on) and never
over its letters:

1. a path fits a shape only of its own form, and then where their fixed segments
   agree (`FitsAll` to `FitsRoles`);
2. a request is served by the first file that fits, and no earlier one does
   (`FirstFile`, `FilesOfClusters` and its like);
3. each case of a file asks `api.ts` for what has its own verb and shape
   (`Mirrors`), and filling a shape with the arguments taken by it gives the path
   back (`FillsBack`), so that what is sent has the path of the request
   (`SentOn`); `clusterLifecycle`, which gets the action as an argument, goes
   apart;
4. each fetch that a file serves meets a case that is content with its fields and
   hands all of them on, and the router has exactly one handler for it, the one
   meant (`Proper`, one lemma for each group of fetches).

Together they give `Delivered`, which is the property for one request;
`AllHandled` carries it along the steps of `Proxy`, beside `ProxyInv`, from which
it needs the shape of a request alone. Nothing is assumed of `Segments`.

## 9. Not modelled

Response bodies, logging, metrics, the wording of errors and the layout of pages
are left out throughout. Below a page a handler of the API is one step; its calls
one by one are in `ClusterLifecycle` for clusters, and open for notebooks,
permissions and identities (plan, 8 to 10). Of the API, the Polaris and Trino
clients, the ladders of permissions, and start-up are open; of the UI, the
dialogs for attaching and for revisions have lists of their own that nothing
else depends on. Deployment files and the end-to-end scripts have no behaviour of
their own. The components with status `not_modelled` or `partly` in
`PROJECT.json` name the module planned for them, or why there is none.

Disagreements that the models abstract from are kept as hazards: the API's error
frame of a cell has not the shape the UI renders, an error of the session has no
reader, and the write timeout of the server is shorter than a cell may take.
