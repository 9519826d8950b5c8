SPECIFICATION Spec
CONSTANTS
    LMRefSize = 3
    LMDirSize = 3
    Word = 24
    MaxAccesses = 4
    Addrs <- TwoReads
    NumPorts = 2
    MemBlockSize = 8
    MaxReads = 2
    MaxRefusals = 1
    Reuse = FALSE
INVARIANT AllocationHasItsData
CHECK_DEADLOCK FALSE
