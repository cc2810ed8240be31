CONSTANTS
    t1 = t1  t2 = t2  c1 = c1  c2 = c2  k1 = k1  k2 = k2
    short = short  long = long
    Threads = {t1, t2}
    Colleges = {c1}
    Keys = {k1}
    Lines = {long}
    LineSize <- MCLineSize
    MaxLine = 2
    MaxInfo = 3
    MaxBody = 3
    MaxForms = 2
    Faults = {"exit", "crash", "put", "text", "evict"}
    NoBody = NoBody
SPECIFICATION FairSpec
INVARIANTS TypeOK RecordIsWhole AnsweredIsKept AnsweredText
PROPERTIES ImplementsRegistry GoneIsReleased
