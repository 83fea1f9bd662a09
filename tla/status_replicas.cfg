SPECIFICATION FairSpec
CONSTANTS
    Replicas = {"a", "b"}
    Ingresses = {"i"}
    ServiceLists <- Lists
    PodLabels <- Pod
    LookupFails = FALSE
    MaxRev = 2
    MaxStops = 1
INVARIANTS TypeOK OnlySelectingServices
PROPERTIES StatusConverges
