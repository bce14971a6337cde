CONSTANTS
    DevRoot = TRUE
    AllowedFlags = {}
    MayFail = {"extract"}
    Releases = {"stretch", "bullseye"}
SPECIFICATION Spec
INVARIANT BootAlwaysComplete
