SPECIFICATION CompiledSpec
CONSTANTS
    LMRefSize = 5
    LMDirSize = 5
    Word = 64
    Globals <- LargeGlobals
    Main <- EqualMain
    Functions <- EqualFunctions
    NumFunctions = 4
    CallGraphs <- AnyGraph
    BlockSizes = {4}
    GlobalsSize = 8
    num_lmref_entries = 5
    lmstorage_size = 32
    OnlyApart = TRUE
INVARIANT NoOverlap
CHECK_DEADLOCK FALSE
