CONSTANTS
    Programs <- AnyPrograms
    DirectLines <- AnyDirect
    NumberedLines <- AnyNumbered
    Statements <- AnyStatements
    Answers <- AnyAnswers
    FOR_WORDS = 4
    GOSUB_WORDS = 3
    VarArea = 27
    StackWords = 4
    PrintWords = 3
    IntHalf = 4
    LongHalf = 8
    MaxEdits = 1
    MaxTyped = 3
SPECIFICATION Spec
INVARIANTS TypeOK StackAboveProgram
PROPERTY VariablesKept
CHECK_DEADLOCK FALSE
