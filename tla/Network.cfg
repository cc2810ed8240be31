SPECIFICATION PartsSpec
CONSTANTS
    Byte = {x, nl, nul}
    NL = nl
    Nul = nul
    x = x
    MaxLine = 3
    Raw <- MCRaw
    Last <- MCLast
    Texts <- MCTexts
    Faults = {"close", "reset"}
    NForms = 2
    Sizes = {0, 2, 3}
    NoPhoto <- MCNoPhoto
    BufSize = 2
    Chunk = 2
    Width = 16
    ImageFaults = {"missing", "create", "disk", "grow", "slow", "cut"}
    Addresses = {a1, a2}
    NoAddress = NoAddress
    MaxMoves = 1
    NumProcs = 2
    MaxStored = 1
    NumFiles = 2
    MaxChanges = 2
    Backlog = 1
    None = None
INVARIANTS NetworkTypeOK ReadAsWritten PhotosAreWhole FormsGoOn
    AddressIsKnown ScriptIsObeyed
PROPERTIES ServerIsFound NothingHangs NotesAreRight
CHECK_DEADLOCK FALSE
