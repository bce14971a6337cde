CONSTANTS
    Scenarios <- RepeatScenario
    LastMid = 5
    NULL = NULL
SPECIFICATION Spec
INVARIANTS NoMultipleCallbacks
