CONSTANTS
    Scenarios <- MCScenarios
    LastMid = 5
    NULL = NULL
SPECIFICATION Spec
INVARIANTS ListsSound PublishedOnce ReceivedOnce LoopGoesOn
PROPERTIES EverythingArrives
