CONSTANTS
    Io = {"io1", "io2"}
    PacketUnits = 2
    MaxBuffer = 4
    Batch = 10
    MaxParallelism = 2
    Settings <- MCSettings
SPECIFICATION FairSpec
CHECK_DEADLOCK FALSE
INVARIANTS FirstSendsInOrder LockstepKeepsReplies NeverMute 
PROPERTIES LockstepAnswered
