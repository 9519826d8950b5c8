SPECIFICATION MemorySystemSpec
CONSTANTS
    PageSize = 4
    NumPages = 5
    Values = {0, 1}
    Watched = {9, 10, 11}
    Safe = FALSE
    MapBaseAddress = 8
    Sizes = {1, 2, 4, 5}
    Alignments = {1, 2}
    MaxPointers = 2
    SpecPageSize = 2
    MaxPages = 1
    None = None
    Spaces = {1, 2}
    VirtualPages = {"lmstore", "other"}
    LMStorePages = {"lmstore"}
    Offsets = {0, 1}
INVARIANTS
    MemorySystemTypeOK
    PagesAreUsed
    SpeculativeReads
    RecordedAddresses
PROPERTY
    ImplementsAllocator
