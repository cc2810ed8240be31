SPECIFICATION Spec
CONSTANTS
    NForms = 2
    MaxVer = 2
    MaxConn = 2
    MaxDepth = 2
    Scenes <- MCUnopened
INVARIANTS SentMeansStored
CHECK_DEADLOCK FALSE
