CONSTANTS
    PageSize = 2
    InitialPages = 2
    InitialPage = 2
    LastPage = 7
    AddrMod = 32
    MaxIncrement = 5
SPECIFICATION Spec
INVARIANTS
    TypeOK
    BreakInLimit
    AdjacentHeapOwned
    PagesAccounted
PROPERTY
    ImplementsBreak
