SPECIFICATION Spec
CONSTANTS
    Replicas = {"a"}
    Ingresses = {"i"}
    ServiceLists <- OneBalancer
    PodLabels <- Pod
    LookupFails = FALSE
    MaxRev = 2
    MaxStops = 1
INVARIANT ShutdownRemovesAddresses
