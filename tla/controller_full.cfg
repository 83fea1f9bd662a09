SPECIFICATION Spec
CONSTANTS
    IngressNames = {i1, i2}
    ConfigMapNames = {cm, other}
    ConfigMapName = cm
    ClassName = "caddy"
    ClassNameRequired = TRUE
    IngressBodies <- MixedBodies
    ConfigMapTexts = {"true", "bad"}
    NilHTTP = {"nilhttp"}
    Conflict = {"conflict"}
    MaxRev = 3
    WatchLoss = TRUE
    Crashes = TRUE
    i1 = i1
    i2 = i2
    cm = cm
    other = other
INVARIANTS TypeOK StoreUnique NothingLost OptionsCurrent
PROPERTIES StoreMonotone
SYMMETRY Symmetry
