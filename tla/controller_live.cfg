SPECIFICATION FairSpec
CONSTANTS
    IngressNames = {i1, i2}
    ConfigMapNames = {cm}
    ConfigMapName = cm
    ClassName = "caddy"
    ClassNameRequired = FALSE
    IngressBodies <- NoClassBodies
    ConfigMapTexts = {"true"}
    NilHTTP = {"nilhttp"}
    Conflict = {"conflict"}
    MaxRev = 3
    WatchLoss = FALSE
    Crashes = FALSE
    i1 = i1
    i2 = i2
    cm = cm
INVARIANTS NoGhost
PROPERTIES Converges
