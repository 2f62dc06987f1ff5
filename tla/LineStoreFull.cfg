CONSTANTS
    LN = 1
    BYTE = 32
    VariablesBegin = 12
    MemTop = 15
    MaxUInt = 1023
    NL = 1
    SPACE = 2
    Quotes = {3}
    LOWER = 4
    UPPER = 5
    ZERO = 6
    FnChars = {4, 5, 6, 7, 8, 9, 10, 11, 12, 13, 14, 15}
    Keys = {4, 7}
    Written = {}
    Values = {}
    MaxTyped = 4
    MaxLines = 3
SPECIFICATION PersistentSpec
INVARIANTS
    ShuffleRoom
