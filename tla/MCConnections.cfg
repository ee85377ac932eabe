SPECIFICATION Spec
CONSTANTS
    InitCount = 1
    MaxPool = 3
    Worker = {w1, w2}
    MaxConns = 2
    RefSize = 4
    Settings <- MCSettings
    Listed <- MCListed
CHECK_DEADLOCK FALSE
INVARIANTS  OwnCause  NoWrap
PROPERTIES IsAllocator Returned
