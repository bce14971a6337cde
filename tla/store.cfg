CONSTANTS
    Clients = {a, b}
    Contexts = {1, 2}
    Topics = {t}
    PubQos = {2}
    SubQos = {1}
    Wills = {FALSE}
    Kinds <- MCKinds
    Denied = TRUE
    autosave_interval = 1
    autosave_on_changes = FALSE
    Faults = {"kill", "power", "full"}
    MaxList = 1
    MaxMsgs = 2
    MaxSaves = 1
    MaxLate = 1
    MaxStarts = 2
    NULL = NULL
SYMMETRY Perms
CHECK_DEADLOCK FALSE
SPECIFICATION PSpec
INVARIANTS StoreExact PointersValid DurableSurvives
PROPERTIES RestartIsFaithful
