SPECIFICATION Spec
CONSTANTS
    empty = empty
    c1025 = c1025
    c1026 = c1026
    other = other
    None = None
    NumTotalSub = 6
    WithMin = 3
    WithoutMin = 1
INVARIANTS ClientTypeOK QueryIsAnswered ChoicesAgree
    AcceptedIsSound RefusedForReason
PROPERTIES SavedIsComplete
CHECK_DEADLOCK FALSE
