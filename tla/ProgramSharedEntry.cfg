SPECIFICATION CompiledSpec
CONSTANTS
    LMRefSize = 5
    LMDirSize = 5
    Word = 64
    Globals <- EqualGlobals
    Main <- EqualMain
    Functions <- EqualFunctions
    NumFunctions = 4
    CallGraphs <- AnyGraph
    BlockSizes = {4}
    GlobalsSize = 4
    num_lmref_entries = 5
    lmstorage_size = 32
    OnlyApart = FALSE
INVARIANT EveryAccessHits
CHECK_DEADLOCK FALSE
