SPECIFICATION Spec
CONSTANTS
    NForms = 2
    MaxVer = 2
    MaxConn = 2
    MaxDepth = 2
    Scenes <- MCFaulty
INVARIANTS SentIsStored RecordIsOneForm NothingLeaks
PROPERTIES ImplementsSubmission
CHECK_DEADLOCK FALSE
