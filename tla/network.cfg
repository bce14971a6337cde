CONSTANTS
    Threads = {t1}
    Bodies <- MCBodies
    Hello <- MCHello
    Radix = 2
    Room = 4
    MaxLosses = 1
    NULL = NULL
SPECIFICATION FairSpec
INVARIANTS HandledInOrder LengthAgreed
PROPERTIES QueuedLeaves
CHECK_DEADLOCK FALSE
