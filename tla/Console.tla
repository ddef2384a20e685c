------------------------------ MODULE Console ------------------------------
(***************************************************************************)
(* The pages of the UI other than that of the clusters, of which a user    *)
(* has one open at a time: going to another page unmounts everything, and  *)
(* the new one starts from the API's data alone, of which its Init has     *)
(* every kind.  A behaviour is therefore that of one page.                 *)
(***************************************************************************)
EXTENDS Naturals, Sequences, FiniteSets

CONSTANTS None, Slots, MaxChanges, Faults,
    Statuses, Losses,           \* of the identity page
    Principals, Levels,         \* of the permissions editor
    Tables,                     \* of the catalog page
    Ids, Names, Folders         \* of the notebooks page, and of the drawer

ASSUME ConsoleAssumption ==
    /\ None \notin Principals \cup Levels \cup Tables \cup Ids \cup Names
    /\ MaxChanges \in Nat /\ Losses \in BOOLEAN
    /\ Faults \subseteq {"bad", "lost"}
    /\ Statuses \subseteq {"forbidden", "unconfigured", "bad"}
    /\ \A t \in Tables : Len(t) = 3
    /\ <<>> \in Folders

\* The page that is open, and the state of each page; a page that is not has
\* None for it.  The names are those of the pages, which share some.
VARIABLES page,
    added, lists, forms, adding, assigning,
    granted, version, perms, busy, principalId,
    roots, coords, branch, picked, panel, calls,
    rows, notebooks, dialog, creating,
    open, shown, timer, flights,
    error, flows, unsure, selectedId, tab

Identity == INSTANCE IdentityView
Permissions == INSTANCE PermissionsEditor
Catalog == INSTANCE CatalogView
Notebooks == INSTANCE NotebooksView
Drawer == INSTANCE ClusterDrawer

\* The names of the catalog are of characters, among them no NUL.
ASSUME CatalogNames ==
    \A t \in Tables : /\ t \in Seq(Seq(STRING)) /\ Catalog!Id(t) # None
                      /\ \A k \in 1 .. 3 : \A i \in DOMAIN t[k] : t[k][i] # "NUL"

identityVars == <<added, lists, forms, adding, assigning>>
permissionsVars == <<granted, version, perms, busy, principalId>>
catalogVars == <<roots, coords, branch, picked, panel, calls>>
notebooksVars == <<rows, notebooks, dialog, creating>>
drawerVars == <<open, shown, timer, flights>>
vars == <<page, identityVars, permissionsVars, catalogVars, notebooksVars, drawerVars,
          error, flows, unsure, selectedId, tab>>

-----------------------------------------------------------------------------
Is(p) == page = p

\* Who has a variable that several pages have.
HasFlows == page \in {"identity", "permissions", "notebooks"}
HasError == page \in {"permissions", "notebooks"}

Init ==
    /\ page \in {"identity", "permissions", "catalog", "notebooks", "drawer"}
    /\ IF Is("identity") THEN Identity!Init
       ELSE added = None /\ lists = None /\ forms = None /\ adding = None /\ assigning = None
    /\ IF Is("permissions") THEN Permissions!Init
       ELSE granted = None /\ version = None /\ perms = None /\ busy = None /\ principalId = None
    /\ IF Is("catalog") THEN Catalog!Init
       ELSE roots = None /\ coords = None /\ branch = None /\ picked = None /\ panel = None
            /\ calls = None
    /\ IF Is("notebooks") THEN Notebooks!Init
       ELSE rows = None /\ notebooks = None /\ dialog = None /\ creating = None
    /\ IF Is("drawer") THEN Drawer!Init
       ELSE open = None /\ shown = None /\ timer = None /\ flights = None
    /\ HasError \/ error = None
    /\ HasFlows \/ (flows = None /\ unsure = None)
    /\ page \in {"catalog", "notebooks"} \/ selectedId = None
    /\ page \in {"catalog", "drawer"} \/ tab = None

\* A step of a page, beside the others, which are not there.
IdentityStep ==
    /\ Is("identity") /\ Identity!Next
    /\ UNCHANGED <<page, permissionsVars, catalogVars, notebooksVars, drawerVars, error, selectedId, tab>>

PermissionsStep ==
    /\ Is("permissions") /\ Permissions!Next
    /\ UNCHANGED <<page, identityVars, catalogVars, notebooksVars, drawerVars, selectedId, tab>>

CatalogStep ==
    /\ Is("catalog") /\ Catalog!Next
    /\ UNCHANGED <<page, identityVars, permissionsVars, notebooksVars, drawerVars, error, flows, unsure>>

NotebooksStep ==
    /\ Is("notebooks") /\ Notebooks!Next
    /\ UNCHANGED <<page, identityVars, permissionsVars, catalogVars, drawerVars, tab>>

DrawerStep ==
    /\ Is("drawer") /\ Drawer!Next
    /\ UNCHANGED <<page, identityVars, permissionsVars, catalogVars, notebooksVars,
                   error, flows, unsure, selectedId>>

Next == IdentityStep \/ PermissionsStep \/ CatalogStep \/ NotebooksStep \/ DrawerStep

Spec == Init /\ [][Next]_vars

-----------------------------------------------------------------------------
(* Properties: those of the pages.                                         *)

\* Each page is typed.
TypeOK ==
    CASE Is("identity")    -> Identity!TypeOK
      [] Is("permissions") -> Permissions!TypeOK
      [] Is("catalog")     -> Catalog!TypeOK
      [] Is("notebooks")   -> Notebooks!TypeOK
      [] Is("drawer")      -> Drawer!TypeOK

\* A control that is disabled has exactly one request at work, on every page:
\* none is left disabled, and no change is made twice at a time.
BusyIsWorking ==
    /\ Is("identity") => Identity!BusyIsWorking
    /\ Is("permissions") => Permissions!BusyIsOneChange
    /\ Is("notebooks") => Notebooks!CreatingIsOne

\* IdentityView: users and groups that were added are shown.
IdentityAddedIsShown == Is("identity") => Identity!AddedIsShown

\* IdentityView: the takeover comes and goes with the answer to a load of users.
IdentityTakeoverByUsersOnly == [][Is("identity") => Identity!TakeoverByUsersOnly]_vars

\* PermissionsEditor: the grants shown are those of the API.
GrantsShown == Is("permissions") => Permissions!GrantsShown

\* CatalogView: the details and the row marked are those of the table in the heading.
CatalogDetailIsOfPicked == Is("catalog") => Catalog!DetailIsOfPicked

\* CatalogView: no branch is loaded twice at a time, or waits for nothing.
CatalogLoadingIsOne == Is("catalog") => Catalog!LoadingIsOne

\* CatalogView: a panel that is loading has a request for its table.
CatalogPickedIsLoading == Is("catalog") => Catalog!PickedIsLoading

\* NotebooksView: the workspace has the notebooks of the API.
NotebooksWorkspaceIsCurrent == Is("notebooks") => Notebooks!WorkspaceIsCurrent

\* NotebooksView: an open notebook is closed by its own trash only.
NotebooksOpenStaysOpen == [][Is("notebooks") => Notebooks!KeepsOpen]_vars

\* ClusterDrawer: the logs keep coming while they are on the screen.
DrawerLogsKeepComing == Is("drawer") => Drawer!LogsKeepComing

\* ClusterDrawer: what is shown is of the cluster that is open.
DrawerShownIsOfOpen == Is("drawer") => Drawer!ShownIsOfOpen
=============================================================================
