CONSTANTS
    None = None
    Ids = {c1, c2}
    Requests = {r1, r2}
    Configs <- MCConfigs
    IdleMinutes <- MCIdleMinutes
    AgeCap <- MCAgeCap
    Operations = {"create", "clone", "restart", "delete"}
    K8sOutcomes = {"ok"}
    StoreOutcomes = {"ok", "lost"}
    Disruptions = {"crash"}
SPECIFICATION Spec
SYMMETRY Symmetry
INVARIANTS CreatorAlone
CHECK_DEADLOCK FALSE
PROPERTIES ImplementsRegistry
