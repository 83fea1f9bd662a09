SPECIFICATION MCSpec
CONSTANTS
    Clients = {c1, c2}
    Keys <- ThreeKeys
    Folders <- TwoFolders
    Values = {v, w}
    None = None
    MaxLimbo = 1
    MaxLength = 6
SYMMETRY
    Symmetry
INVARIANTS
    TypeOK
    WellFormedName
    ListedKeysLoad
    FolderFindsKeys
PROPERTY
    ImplementsKeyValue
