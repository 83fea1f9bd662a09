SPECIFICATION FairSpec
CONSTANTS
    Steps = 10
    PodEnvs = {"both", "one", "none"}
    ConfigMaps = {TRUE, FALSE}
INVARIANTS
    TypeOK
    SyncedBeforeWork
PROPERTIES
    StopEnds
    ConnectEnds
CHECK_DEADLOCK FALSE
