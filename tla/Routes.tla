------------------------------- MODULE Routes -------------------------------
(***************************************************************************)
(* The way of a request from the browser to a handler of the API, in three *)
(* tables: the route handlers under app/api, each of which picks a         *)
(* function of api.ts by the shape of the path; the requests those         *)
(* functions send; and the router of the API.                              *)
(*                                                                         *)
(* A path is the sequence of its segments without "/api" or "/v1".  In a   *)
(* shape "$1", "$2" and "$3" stand for any segment: the first argument a   *)
(* function of api.ts puts in its path, the second, the third.  A body, or *)
(* a query, is the set of the fields it has.                               *)
(***************************************************************************)
EXTENDS Naturals, Sequences

CONSTANT Segments       \* the ids, and the names of the catalog, in paths

Places == {"$1", "$2", "$3"}

\* The paths, and the shapes: those of "$1", "$2" and "$3".
All(kind) == <<kind>>
One(kind, id) == <<kind, id>>
Of(kind, id, what) == <<kind, id, what>>
Restore(id, rev) == <<"notebooks", id, "revisions", rev, "restore">>
Tables(c, n) == <<"catalogs", c, "namespaces", n, "tables">>
Table(c, n, t) == <<"catalogs", c, "namespaces", n, "tables", t>>
Sample(c, n, t) == <<"catalogs", c, "namespaces", n, "tables", t, "sample">>
Roles(user) == <<"admin", "users", user, "roles">>

Fits(path, shape) ==
    /\ Len(path) = Len(shape)
    /\ \A i \in DOMAIN path : shape[i] \in Places \cup {path[i]}

\* Mutant: the first two arguments are taken for each other.
ArgsSwapped(path, shape) ==
    LET at(a) == CHOOSE i \in DOMAIN shape : shape[i] = a IN
    [a \in {shape[i] : i \in DOMAIN shape} \cap Places |->
        path[CASE a = "$1" /\ \E i \in DOMAIN shape : shape[i] = "$2" -> at("$2")
               [] a = "$2" -> at("$1") [] OTHER -> at(a)]]

\* The segments for the places of a shape, and a shape filled in.
Args(path, shape) ==
    [a \in {shape[i] : i \in DOMAIN shape} \cap Places |-> path[CHOOSE i \in DOMAIN shape : shape[i] = a]]
Fill(shape, args) ==
    [i \in DOMAIN shape |-> IF shape[i] \in Places THEN args[shape[i]] ELSE shape[i]]

-----------------------------------------------------------------------------
(* The handlers under app/api.                                             *)

\* A case of a handler: the function it calls; the fields without which it is
\* 400, and those it hands on when they are there.
Case(verb, shape, call, needs, takes) ==
    [verb |-> verb, shape |-> shape, call |-> call, needs |-> needs, takes |-> takes]

PermissionCases(kind, grant, revoke, list) ==
    LET path == Of(kind, "$1", "permissions")
        who == {"principal_type", "principal_id"} IN
    {Case("GET", path, list, {}, {}),
     Case("PUT", path, grant, who \cup {"level"}, {}),
     Case("DELETE", path, revoke, who, {})}

\* normalizeClusterConfig makes a whole configuration of what there is.
Config == {"driver", "executor", "worker_min", "worker_max", "image", "idle_minutes",
           "spark_conf", "env", "tags"}

Clusters == {
    Case("GET", All("clusters"), "listClusters", {}, {}),
    Case("POST", All("clusters"), "createClusterFull", {"name"}, Config)}
Cluster == {
    Case("GET", One("clusters", "$1"), "getCluster", {}, {}),
    Case("PATCH", One("clusters", "$1"), "patchCluster", {}, {"pinned", "config"}),
    Case("DELETE", One("clusters", "$1"), "deleteCluster", {}, {})}
ClusterAction == {
    Case("POST", Of("clusters", "$1", "start"), "clusterLifecycle", {}, {}),
    Case("POST", Of("clusters", "$1", "stop"), "clusterLifecycle", {}, {}),
    Case("POST", Of("clusters", "$1", "restart"), "clusterLifecycle", {}, {}),
    Case("POST", Of("clusters", "$1", "clone"), "cloneCluster", {}, {"name"}),
    Case("GET", Of("clusters", "$1", "events"), "clusterEvents", {}, {}),
    Case("GET", Of("clusters", "$1", "logs"), "clusterLogs", {}, {}),
    Case("GET", Of("clusters", "$1", "metrics"), "clusterMetrics", {}, {})}
ClusterPermissions ==
    PermissionCases("clusters", "grantPermission", "revokePermission", "listPermissions")

Catalogs == {
    Case("GET", All("catalogs"), "listCatalogs", {}, {}),
    Case("GET", Of("catalogs", "$1", "namespaces"), "listNamespaces", {}, {}),
    Case("GET", Tables("$1", "$2"), "listTables", {}, {}),
    Case("GET", Table("$1", "$2", "$3"), "getTable", {}, {}),
    Case("GET", Sample("$1", "$2", "$3"),
         "getTableSample", {}, {"limit"})}

Admin == {
    Case("GET", One("admin", "users"), "adminListUsers", {}, {}),
    Case("GET", One("admin", "groups"), "adminListGroups", {}, {}),
    Case("POST", One("admin", "users"), "adminCreateUser", {"username"}, {"email"}),
    Case("POST", One("admin", "groups"), "adminCreateGroup", {"name"}, {}),
    Case("PUT", Roles("$1"), "adminAssignRole", {"role"}, {})}

Notebooks ==
    {Case("GET", All("notebooks"), "listNotebooks", {}, {}),
     Case("POST", All("notebooks"), "createNotebook", {"name"}, {"path", "folder_id", "content"}),
     Case("GET", One("notebooks", "$1"), "getNotebook", {}, {}),
     Case("PUT", One("notebooks", "$1"), "saveNotebook", {"content"}, {}),
     Case("DELETE", One("notebooks", "$1"), "trashNotebook", {}, {}),
     Case("GET", Of("notebooks", "$1", "revisions"), "listRevisions", {}, {}),
     Case("POST", Of("notebooks", "$1", "revisions"), "saveRevision", {}, {"message"}),
     Case("POST", Restore("$1", "$2"), "restoreRevision", {}, {}),
     Case("POST", Of("notebooks", "$1", "attach"), "attachNotebook", {"cluster_id"}, {}),
     Case("POST", Of("notebooks", "$1", "run"), "runCell", {}, {"cell_id"})}
    \cup PermissionCases("notebooks", "putNotebookPermission", "deleteNotebookPermission",
                         "listNotebookPermissions")
NotebookExport == {Case("GET", Of("notebooks", "$1", "export"), "notebookExport", {}, {"format"})}

\* The file-system router of Next.js: the first file whose pattern fits, those
\* without stars first; "[...path]" is one segment or more.
File(shape, more, cases) == [shape |-> shape, more |-> more, cases |-> cases]
Files == <<
    File(All("clusters"), FALSE, Clusters),
    File(One("clusters", "$1"), FALSE, Cluster),
    File(Of("clusters", "$1", "permissions"), FALSE, ClusterPermissions),
    File(Of("clusters", "$1", "$1"), FALSE, ClusterAction),
    File(Of("notebooks", "$1", "export"), FALSE, NotebookExport),
    File(One("notebooks", "$1"), TRUE, Notebooks),
    File(One("catalogs", "$1"), TRUE, Catalogs),
    File(One("admin", "$1"), TRUE, Admin)>>
Serves(file, path) ==
    LET n == Len(file.shape) IN
    /\ IF file.more THEN Len(path) >= n ELSE Len(path) = n
    /\ \A i \in 1 .. n : file.shape[i] \in Places \cup {path[i]}

\* The cases a request meets: one, or none, which is 404.
FileCases(path) == LET fitting == {i \in DOMAIN Files : Serves(Files[i], path)} IN
                   IF fitting = {} THEN {} ELSE Files[CHOOSE i \in fitting : \A j \in fitting : i <= j].cases

Meets(q) == {x \in FileCases(q.path) : x.verb = q.verb /\ Fits(q.path, x.shape)}

-----------------------------------------------------------------------------
(* api.ts.                                                                 *)

Sends(verb, shape) == [verb |-> verb, shape |-> shape]
Api == [
    listClusters |-> Sends("GET", All("clusters")),
    createClusterFull |-> Sends("POST", All("clusters")),
    getCluster |-> Sends("GET", One("clusters", "$1")),
    patchCluster |-> Sends("PATCH", One("clusters", "$1")),
    deleteCluster |-> Sends("DELETE", One("clusters", "$1")),
    clusterLifecycle |-> Sends("POST", Of("clusters", "$1", "$2")),
    cloneCluster |-> Sends("POST", Of("clusters", "$1", "clone")),
    clusterEvents |-> Sends("GET", Of("clusters", "$1", "events")),
    clusterLogs |-> Sends("GET", Of("clusters", "$1", "logs")),
    clusterMetrics |-> Sends("GET", Of("clusters", "$1", "metrics")),
    listCatalogs |-> Sends("GET", All("catalogs")),
    listNamespaces |-> Sends("GET", Of("catalogs", "$1", "namespaces")),
    listTables |-> Sends("GET", Tables("$1", "$2")),
    getTable |-> Sends("GET", Table("$1", "$2", "$3")),
    getTableSample |-> Sends("GET", Sample("$1", "$2", "$3")),
    listNotebooks |-> Sends("GET", All("notebooks")),
    createNotebook |-> Sends("POST", All("notebooks")),
    getNotebook |-> Sends("GET", One("notebooks", "$1")),
    saveNotebook |-> Sends("PUT", One("notebooks", "$1")),
    trashNotebook |-> Sends("DELETE", One("notebooks", "$1")),
    attachNotebook |-> Sends("POST", Of("notebooks", "$1", "attach")),
    listRevisions |-> Sends("GET", Of("notebooks", "$1", "revisions")),
    saveRevision |-> Sends("POST", Of("notebooks", "$1", "revisions")),
    restoreRevision |-> Sends("POST", Restore("$1", "$2")),
    runCell |-> Sends("POST", Of("notebooks", "$1", "run")),
    notebookExport |-> Sends("GET", Of("notebooks", "$1", "export")),
    listNotebookPermissions |-> Sends("GET", Of("notebooks", "$1", "permissions")),
    putNotebookPermission |-> Sends("PUT", Of("notebooks", "$1", "permissions")),
    deleteNotebookPermission |-> Sends("DELETE", Of("notebooks", "$1", "permissions")),
    listPermissions |-> Sends("GET", Of("clusters", "$1", "permissions")),
    grantPermission |-> Sends("PUT", Of("clusters", "$1", "permissions")),
    revokePermission |-> Sends("DELETE", Of("clusters", "$1", "permissions")),
    adminListUsers |-> Sends("GET", One("admin", "users")),
    adminCreateUser |-> Sends("POST", One("admin", "users")),
    adminAssignRole |-> Sends("PUT", Roles("$1")),
    adminListGroups |-> Sends("GET", One("admin", "groups")),
    adminCreateGroup |-> Sends("POST", One("admin", "groups"))]

\* What a case sends to the API: its function is called with the segments in its
\* places (clusterLifecycle also with the action), and the fields.
Upstream(q, x) ==
    LET to == Api[x.call]
        args == IF x.call = "clusterLifecycle" THEN [a \in {"$1", "$2"} |-> q.path[IF a = "$1" THEN 2 ELSE 3]]
                ELSE Args(q.path, x.shape) IN
    [verb |-> to.verb, path |-> Fill(to.shape, args),
     fields |-> (q.fields \cap (x.needs \cup x.takes))
                \cup (IF x.call = "createClusterFull" THEN Config ELSE {})]

-----------------------------------------------------------------------------
(* router.go, with the fields without which a handler answers 400, and those *)
(* it reads if they are there.                                             *)

Route(verb, shape, handler, asks, reads) ==
    [verb |-> verb, shape |-> shape, handler |-> handler, asks |-> asks, reads |-> reads]
Who == {"principal_type", "principal_id"}
ClusterRoutes ==
    {Route("GET", All("clusters"), "clusters.list", {}, {}),
     Route("POST", All("clusters"), "clusters.create", {"name"}, Config),
     Route("GET", One("clusters", "$1"), "clusters.get", {}, {}),
     Route("DELETE", One("clusters", "$1"), "clusters.delete", {}, {}),
     Route("PATCH", One("clusters", "$1"), "clusters.patch", {}, {"pinned", "config"}),
     Route("POST", Of("clusters", "$1", "clone"), "clusters.clone", {}, {"name"}),
     Route("POST", Of("clusters", "$1", "start"), "clusters.start", {}, {}),
     Route("POST", Of("clusters", "$1", "stop"), "clusters.stop", {}, {}),
     Route("POST", Of("clusters", "$1", "restart"), "clusters.restart", {}, {}),
     Route("GET", Of("clusters", "$1", "events"), "clusters.events", {}, {}),
     Route("GET", Of("clusters", "$1", "logs"), "clusters.logs", {}, {}),
     Route("GET", Of("clusters", "$1", "metrics"), "clusters.metrics", {}, {})}
CatalogRoutes ==
    {Route("GET", All("catalogs"), "catalogs.list", {}, {}),
     Route("POST", All("catalogs"), "catalogs.create", {}, {"Name", "Bucket", "S3Endpoint", "Region"}),
     Route("GET", Of("catalogs", "$1", "namespaces"), "catalogs.listNamespaces", {}, {}),
     Route("GET", Tables("$1", "$2"), "tables.list", {}, {}),
     Route("POST", Tables("$1", "$2"), "tables.create", {}, {"name", "location"}),
     Route("GET", Table("$1", "$2", "$3"), "tables.get", {}, {}),
     Route("GET", Sample("$1", "$2", "$3"), "tables.sample", {}, {"limit"})}
NotebookRoutes ==
    {Route("POST", All("notebooks"), "notebooks.create", {"name"}, {"path", "folder_id", "content"}),
     Route("GET", All("notebooks"), "notebooks.list", {}, {}),
     Route("GET", One("notebooks", "$1"), "notebooks.get", {}, {}),
     Route("PUT", One("notebooks", "$1"), "notebooks.update", {"content"}, {}),
     Route("DELETE", One("notebooks", "$1"), "notebooks.trash", {}, {}),
     Route("POST", Of("notebooks", "$1", "attach"), "notebooks.attach", {}, {"cluster_id"}),
     Route("GET", Of("notebooks", "$1", "revisions"), "notebooks.listRevisions", {}, {}),
     Route("POST", Of("notebooks", "$1", "revisions"), "notebooks.saveRevision", {}, {"message"}),
     Route("POST", Restore("$1", "$2"), "notebooks.restoreRevision", {}, {}),
     Route("GET", Of("notebooks", "$1", "export"), "notebooks.export", {}, {"format"}),
     Route("POST", Of("notebooks", "$1", "run"), "notebooks.run", {"code"}, {})}
GrantRoutes(kind, list, grant, revoke) ==
    {Route("GET", Of(kind, "$1", "permissions"), list, {}, {}),
     Route("PUT", Of(kind, "$1", "permissions"), grant, Who \cup {"level"}, {}),
     Route("DELETE", Of(kind, "$1", "permissions"), revoke, Who, {})}
ClusterGrants == GrantRoutes("clusters", "clusters.grants", "clusters.grant", "clusters.revoke")
NotebookGrants == GrantRoutes("notebooks", "notebooks.grants", "notebooks.grant", "notebooks.revoke")
AdminRoutes ==
    {Route("GET", One("admin", "users"), "admin.listUsers", {}, {}),
     Route("POST", One("admin", "users"), "admin.createUser", {"username"}, {"email"}),
     Route("PUT", Roles("$1"), "admin.assignRole", {"role"}, {}),
     Route("GET", One("admin", "groups"), "admin.listGroups", {}, {}),
     Route("POST", One("admin", "groups"), "admin.createGroup", {"name"}, {})}
Router == ClusterRoutes \cup CatalogRoutes \cup NotebookRoutes \cup AdminRoutes
          \cup ClusterGrants \cup NotebookGrants

Routed(q) == {r \in Router : r.verb = q.verb /\ Fits(q.path, r.shape)}

-----------------------------------------------------------------------------
(* The requests of the UI: each fetch of a component, and what it is for.  *)

Fetch(to, verb, path, fields) == [to |-> to, verb |-> verb, path |-> path, fields |-> fields]
OfGrants(kind, list, grant, revoke) == UNION {
    {Fetch(list, "GET", Of(kind, id, "permissions"), {}),
     Fetch(grant, "PUT", Of(kind, id, "permissions"), Who \cup {"level"}),
     Fetch(revoke, "DELETE", Of(kind, id, "permissions"), Who)} : id \in Segments}
OfClusterGrants == OfGrants("clusters", "clusters.grants", "clusters.grant", "clusters.revoke")
OfNotebookGrants == OfGrants("notebooks", "notebooks.grants", "notebooks.grant", "notebooks.revoke")
OfClusters ==
    {Fetch("clusters.list", "GET", All("clusters"), {}),
     Fetch("clusters.create", "POST", All("clusters"), {"name"} \cup Config)}
    \cup UNION {
        {Fetch("clusters.delete", "DELETE", One("clusters", id), {}),
         Fetch("clusters.patch", "PATCH", One("clusters", id), {"pinned"}),
         Fetch("clusters.start", "POST", Of("clusters", id, "start"), {}),
         Fetch("clusters.stop", "POST", Of("clusters", id, "stop"), {}),
         Fetch("clusters.restart", "POST", Of("clusters", id, "restart"), {}),
         Fetch("clusters.clone", "POST", Of("clusters", id, "clone"), {}),
         Fetch("clusters.events", "GET", Of("clusters", id, "events"), {}),
         Fetch("clusters.logs", "GET", Of("clusters", id, "logs"), {}),
         Fetch("clusters.metrics", "GET", Of("clusters", id, "metrics"), {})} : id \in Segments}
OfCatalog ==
    {Fetch("catalogs.list", "GET", All("catalogs"), {})}
    \cup {Fetch("catalogs.listNamespaces", "GET", Of("catalogs", c, "namespaces"), {}) : c \in Segments}
    \cup {Fetch("tables.list", "GET", Tables(c, n), {}) :
              c \in Segments, n \in Segments}
    \cup UNION {
        {Fetch("tables.get", "GET", Table(c, n, t), {}),
         Fetch("tables.sample", "GET", Sample(c, n, t), {"limit"})} :
              c \in Segments, n \in Segments, t \in Segments}
OfNotebook(id) ==
    {Fetch("notebooks.get", "GET", One("notebooks", id), {}),
     Fetch("notebooks.update", "PUT", One("notebooks", id), {"content"}),
     Fetch("notebooks.trash", "DELETE", One("notebooks", id), {}),
     Fetch("notebooks.run", "POST", Of("notebooks", id, "run"), {"cell_id"}),
     Fetch("notebooks.listRevisions", "GET", Of("notebooks", id, "revisions"), {}),
     Fetch("notebooks.saveRevision", "POST", Of("notebooks", id, "revisions"), {"message"}),
     Fetch("notebooks.attach", "POST", Of("notebooks", id, "attach"), {"cluster_id"}),
     Fetch("notebooks.export", "GET", Of("notebooks", id, "export"), {"format"})}
    \cup {Fetch("notebooks.restoreRevision", "POST", Restore(id, rev), {}) : rev \in Segments}
OfNotebooks ==
    {Fetch("notebooks.list", "GET", All("notebooks"), {}),
     Fetch("notebooks.create", "POST", All("notebooks"), {"name", "path"})}
    \cup UNION {OfNotebook(id) : id \in Segments}
OfIdentity ==
    {Fetch("admin.listUsers", "GET", One("admin", "users"), {}),
     Fetch("admin.listGroups", "GET", One("admin", "groups"), {}),
     Fetch("admin.createUser", "POST", One("admin", "users"), {"username", "email"}),
     Fetch("admin.createGroup", "POST", One("admin", "groups"), {"name"})}
    \cup {Fetch("admin.assignRole", "PUT", Roles(user), {"role"}) : user \in Segments}
Fetches == OfClusters \cup OfCatalog \cup OfNotebooks \cup OfIdentity
           \cup OfClusterGrants \cup OfNotebookGrants

\* The fetches no file serves: a catch-all needs a segment.
Unserved == {q \in Fetches : FileCases(q.path) = {}}
=============================================================================
