CONSTANTS
    None = None
    Ids = {c1}
    Requests = {r1}
    Configs <- MCConfigs
    IdleMinutes <- MCIdleMinutes
    AgeCap <- MCAgeCap
    Operations = {"create", "run"}
    K8sOutcomes = {"ok"}
    StoreOutcomes = {"ok"}
    Disruptions = {}
SPECIFICATION Spec
PROPERTY CellKeepsClusterUp
CHECK_DEADLOCK FALSE
