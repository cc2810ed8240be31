SPECIFICATION Spec
CONSTANTS
    NForms = 2
    Sizes = {1, 3}
    NoPhoto <- MCNoPhoto
    BufSize = 2
    Chunk = 2
    Width = 16
    Faults = {}
INVARIANTS PhotosArrive
CHECK_DEADLOCK FALSE
