SPECIFICATION FairSpec
CONSTANTS
    Uids = {"u1", "u2"}
    IngressSpecs <- OneSpecs
    Namespaces = {"a"}
    SecretNames = {"s1"}
    Types = {TRUE}
    MaxIngressRev = 3
    MaxSecretRev = 1
    Removals = TRUE
    WatchLoss = FALSE
    DiskFails = FALSE
    Crashes = FALSE
PROPERTY EventuallyOnDisk
CHECK_DEADLOCK FALSE
