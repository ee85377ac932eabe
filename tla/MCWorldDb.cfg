CONSTANTS
    Caller = {"a", "b"}
    Cid = {1, 2}
    Name = {"n", "m"}
    DefaultItems <- MCDefaultItems
    MaxTime = 2
    MaxSequence = 2
    Settings <- MCSettings
SPECIFICATION FairSpec
CHECK_DEADLOCK FALSE
INVARIANTS WholeCharacters CreateAnswersTruly ItemSNUnique RemovedTogether
 
