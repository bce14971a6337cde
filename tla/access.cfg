CONSTANTS
    ClientIds = {"u", "v"}
    Users = {"u", "v"}
    Passwords = {"p", "q"}
    Configs <- MCConfigs
    TopicNames <- MCTopicNames
    UserIsId = {FALSE, TRUE}
    MaxLoads = 3
    NULL = NULL
SPECIFICATION Spec
INVARIANTS PointersCurrent AccessAsWritten
PROPERTIES ReloadChecksUsers
CHECK_DEADLOCK FALSE
