SPECIFICATION FairSpec
CONSTANTS
    NForms = 2
    MaxVer = 2
    MaxConn = 3
    MaxDepth = 2
    Scenes <- MCEnding
INVARIANTS TypeOK AnswerIsOurs
PROPERTIES TransferEnds
CHECK_DEADLOCK FALSE
