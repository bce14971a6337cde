CONSTANTS
    address_count = 3
    Local = {0}
    Configs <- MCConfigs
    Remotes <- MCRemotes
    threshold = 2
    max_inflight = 1
    max_queued = 1
    MaxZero = 1
    MaxLosses = 2
    MaxChanges = 2
SPECIFICATION FairSpec
INVARIANTS NotificationTrue PollEntryOwn
PROPERTIES LazyWaitsForThreshold AddressFound PrimaryRegained
CHECK_DEADLOCK FALSE
