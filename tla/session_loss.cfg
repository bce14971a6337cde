CONSTANTS
    max_inflight = 1
    max_queued = 1
    OutMsgs = {1,2}
    InMsgs = {11,12}
    OutQos = {0,1}
    InQos = {1,2}
    Denied = {12}
    Revocable = {}
    LastMid = 9
    MaxPkts = 2
    MaxLosses = 2
SPECIFICATION LossSpec
INVARIANTS LimitsKept OrderKept ForwardedExactlyOnce
CHECK_DEADLOCK FALSE
