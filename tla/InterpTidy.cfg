CONSTANTS
    Programs <- StackPrograms
    DirectLines <- StackDirect
    NumberedLines <- StackNumbered
    Statements <- StackStatements
    Answers <- None
    FOR_WORDS = 4
    GOSUB_WORDS = 3
    VarArea = 27
    StackWords = 19
    PrintWords = 3
    IntHalf = 4
    LongHalf = 8
    MaxEdits = 1
    MaxTyped = 3
SPECIFICATION TidySpec
INVARIANTS StackOfFrames KeepsPlace
PROPERTY ImplementsStack
CHECK_DEADLOCK FALSE
