CONSTANTS
    None = None
    Ids = {c1}
    Requests = {r1, r2}
    Configs <- MCConfigs
    IdleMinutes <- MCIdleMinutes
    AgeCap <- MCAgeCap
    Operations = {"create","start","stop","delete","patch"}
    K8sOutcomes = {"ok", "failed", "lost"}
    StoreOutcomes = {"ok", "failed"}
    Disruptions = {"crash", "outOfBand"}
SPECIFICATION Spec
SYMMETRY Symmetry
INVARIANTS TypeOK OnCourse SettledAgree HeldIdleUnlessDisturbed CRHasPersistedConfig SnapshotsCurrent
CHECK_DEADLOCK FALSE
PROPERTIES DeletedStaysDeleted
