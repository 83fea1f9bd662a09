SPECIFICATION Spec
CONSTANTS
    Uids <- TwoUids
    Bodies <- AllBodies
    OptionSets <- AnyOptions
    Orders <- SomeOrders
    Iterations <- TwoIterations
    Width <- Widths
    Lower <- Lowers
    Requests <- PathRequests
INVARIANTS
    CoversRules
    LongestPathWins
    AllOrNothing
    ProxyLast
    Deterministic
