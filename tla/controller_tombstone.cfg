SPECIFICATION Spec
CONSTANTS
    IngressNames = {i1}
    ConfigMapNames = {cm}
    ConfigMapName = cm
    ClassName = "caddy"
    ClassNameRequired = TRUE
    IngressBodies <- OurBodies
    ConfigMapTexts = {}
    NilHTTP = {"nilhttp"}
    Conflict = {"conflict"}
    MaxRev = 3
    WatchLoss = TRUE
    Crashes = FALSE
    i1 = i1
    cm = cm
INVARIANTS DeletedIsRemoved
