SPECIFICATION Spec
CONSTANTS
    Sessions = {"a1", "a2", "b"}
    Ids = {"A", "B"}
    LeaseID <- TwoOfA
    Skew <- OneAhead
    leaseDuration = 6
    leaseRenewInterval = 2
    leasePollInterval = 6
    lockAcquireTimeout = 3
    ApiDelay = 0
    AbortDelay = 0
    MaxFails = 1
    MaxClock = 1000
INVARIANTS TypeOK MutualExclusion OwnerHoldsLease LockReturns RefresherRenewsOwnLease
PROPERTIES NoTakeoverOfLiveLease
VIEW RelativeView
