CONSTANTS
    None = None
    Ids = {c1}
    Requests = {r1}
    Configs <- MCConfigs
    IdleMinutes <- MCIdleMinutes
    AgeCap <- MCAgeCap
    Operations = {"create", "start", "stop", "restart", "patch", "run"}
    K8sOutcomes = {"ok", "failed", "lost"}
    StoreOutcomes = {"ok", "failed", "lost"}
    Disruptions = {"crash"}
SPECIFICATION FairSpec
PROPERTIES IdleIsStopped
CHECK_DEADLOCK FALSE
