CONSTANTS
    Worker <- MCWorker
    Packet <- MCPacket
    Cmd <- MCCmd
    FollowUp <- MCFollowUp
    LogThread <- MCLogThread
    MaxQueueSize = 2
    Threads <- MCThreads
    CommandOf <- MCCommandOf
    Settings <- MCSettings
SPECIFICATION FairSpec
INVARIANTS
    NoLostWakeup
    NeverReturns
    LinesKept
    FileInOrder
PROPERTIES
    UsesQueues
    StopEndsServer
    PacketsHandled
    TickTerminates
