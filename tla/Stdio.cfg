CONSTANTS
    BUFSIZ = 2
    MAX_OPEN_FILES = 2
    Texts <- MCTexts
    BufSizes = {1}
    Counts = {0, 1}
    Offsets <- MCOffsets
    MaxPrinted = 5
    MaxPos = 4
SPECIFICATION Spec
CHECK_DEADLOCK FALSE
INVARIANTS
    BufferFits
    InOrder
    NoSilentLoss
    OwnPosition
    PromptShown
