CONSTANTS
    t1 = t1  t2 = t2  p1 = p1  p2 = p2 u1 = u1  u2 = u2
    Threads = {t1,t2}
    Tools = {p1, p2}
    Colleges = {u1,u2}
    Passwords = {"a"}
    MaxEdits = 2
    MaxTime = 3
    Faults = {"kill", "exit", "get", "evict"}
    Windows <- MCWindows
    NoRecord = NoRecord
    NoPass = NoPass
    Unread = Unread
    Unsure = Unsure
SPECIFICATION Spec
INVARIANTS TypeOK VerdictRests ReloadedIsCurrent EditIsKept
SYMMETRY Symmetry
CONSTRAINT Regimes
