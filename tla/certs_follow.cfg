SPECIFICATION Spec
CONSTANTS
    Uids = {"u1"}
    IngressSpecs <- OneSpecs
    Namespaces = {"a"}
    SecretNames = {"s1"}
    Types = {TRUE, FALSE}
    MaxIngressRev = 3
    MaxSecretRev = 3
    Removals = TRUE
    WatchLoss = TRUE
    DiskFails = TRUE
    Crashes = TRUE
INVARIANTS TypeOK FolderInSync NoOrphanFile
