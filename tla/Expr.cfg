CONSTANTS
    Width = 4
    Symbols = {" ", "-", "+", "*", "/", "(", ")", "0", "1", "A", "<", ">", "=", "!"}
    Openings <- MCOpenings
    MaxTyped = 4
    Variable <- MCVariable
    Memory <- MCMemory
    Key = 6
SPECIFICATION Spec
CHECK_DEADLOCK FALSE
INVARIANTS
    StopsAtNL
    Sound
    Complete
    TrapsOnlyAtMin
