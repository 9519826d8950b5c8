SPECIFICATION FairSpec
CONSTANTS
    LMRefSize = 3
    LMDirSize = 3
    Word = 24
    MaxAccesses = 4
    Addrs <- TwoReads
    NumPorts = 1
    MemBlockSize = 8
    MaxReads = 2
    MaxRefusals = 1
    Reuse = FALSE
INVARIANTS TypeOK WaitersWillBeWoken PortsWellUsed StoreFindsBlock CompletionSignalledOnce
    FreeSpaceReported PendingCountsReads
PROPERTIES ImplementsAccessOrder EveryAccessFinishes
\* The bound on the accesses stops the program.
CHECK_DEADLOCK FALSE
