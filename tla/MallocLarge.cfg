CONSTANTS
    PageSize = 128
    InitialPages = 2
    InitialBase = 128
    AddrMod = 4096
    HeapMax = 1408
    TrimThreshold = 600
    IntMax = 2047
    Requests = {318, 350}
    Resizes = {318}
    Arrays = {}
    MaxBlocks = 3
    ForeignSizes = {3}
    ForeignMax = 3
SPECIFICATION Spec
INVARIANTS
    Tiled
    BinsSound
    ExtendsWhenNeeded
    TopAtPageEnd
