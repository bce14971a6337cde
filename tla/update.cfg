CONSTANTS
    DevRoot = TRUE
    AllowedFlags = {"force-compatible", "from-initramfs", "factoryreset", "no-postinst"}
    MayFail = {"verify", "mkdir", "mkfs", "clean", "losetup", "bind"}
    Releases = {"stretch", "bullseye"}
SPECIFICATION BothSpec
INVARIANTS BootAlwaysComplete RollbackNeedsFactoryReset DegradedTypeOK DegradedTargetIsInactive
PROPERTIES ImplementsABUpdate
