CONSTANTS
    PageSize = 8
    InitialPages = 2
    InitialBase = 8
    AddrMod = 4096
    HeapMax = 40
    TrimThreshold = 16
    IntMax = 2047
    Requests = {2, 8, 4095}
    Resizes = {2, 11, 4095}
    Arrays <- MCArrays
    MaxBlocks = 3
    ForeignSizes = {}
    ForeignMax = 0
SPECIFICATION Spec
INVARIANTS
    Tiled
    BoundaryTags
PROPERTIES
    ImplementsAllocator
