SPECIFICATION Spec
CONSTANTS
    NumProcs = 2
    MaxStored = 0
    None = None
INVARIANT RestartServes
CHECK_DEADLOCK FALSE
