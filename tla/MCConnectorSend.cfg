SPECIFICATION FairSpec
CONSTANTS
    Writer = {process, update}
    Worker = {w1}
    Null = Null
    Size = 2
    MaxWrites = 3
    MaxClients = 2
INVARIANTS InOrder NotOvertaken
PROPERTIES QueuedIsSent
