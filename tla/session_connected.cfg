CONSTANTS
    max_inflight = 2
    max_queued = 3
    OutMsgs = {1,2,3}
    InMsgs = {11,12}
    OutQos = {1,2}
    InQos = {1,2}
    Denied = {}
    Revocable = {}
    LastMid = 9
    MaxPkts = 2
    MaxLosses = 0
SPECIFICATION ConnectedSpec
INVARIANTS NoDuplicateQos2 PubrecKnown
PROPERTIES DeliveredBeforeForgotten QueuedIsDelivered HandshakeEnds
CHECK_DEADLOCK FALSE
