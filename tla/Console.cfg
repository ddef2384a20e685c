CONSTANTS
    None = None
    Slots = {s1, s2}
    MaxChanges = 1
    Faults = {"bad", "lost"}
    Statuses = {"forbidden", "bad"}
    Losses = TRUE
    Principals = {p1}
    Levels = {l1, l2}
    Tables <- SomeTables
    Ids = {i1, i2}
    Names = {"A"}
    Folders <- SomeFolders
SPECIFICATION Spec
INVARIANTS TypeOK BusyIsWorking IdentityAddedIsShown GrantsShown
    CatalogDetailIsOfPicked CatalogLoadingIsOne CatalogPickedIsLoading
    NotebooksWorkspaceIsCurrent DrawerLogsKeepComing DrawerShownIsOfOpen
PROPERTIES NotebooksOpenStaysOpen IdentityTakeoverByUsersOnly
SYMMETRY Symmetry
CHECK_DEADLOCK FALSE
