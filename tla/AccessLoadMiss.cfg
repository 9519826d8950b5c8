SPECIFICATION Spec
CONSTANTS
    LMRefSize = 3
    LMDirSize = 3
    Word = 64
    MaxAccesses = 4
    Addrs <- OnceEach
    NumPorts = 2
    MemBlockSize = 8
    MaxReads = 1
    MaxRefusals = 1
    Reuse = FALSE
INVARIANT LoadFindsBlock
CHECK_DEADLOCK FALSE
