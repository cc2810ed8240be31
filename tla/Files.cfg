SPECIFICATION Spec
CONSTANTS
    ann = ann
    bea = bea
    None = None
    Students <- MCStudents
    Uses <- MCUses
    MaxEdits = 2
INVARIANTS TypeOK ListIsTrue SentIsCurrent SavedIsFound PhotoIsOwnOrCarried
CHECK_DEADLOCK FALSE
