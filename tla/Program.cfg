SPECIFICATION CompiledSpec
CONSTANTS
    LMRefSize = 5
    LMDirSize = 5
    Word = 32
    Globals <- EqualGlobals
    Main <- EqualMain
    Functions <- EqualFunctions
    NumFunctions = 4
    CallGraphs <- AnyGraph
    BlockSizes = {0, 4}
    GlobalsSize = 4
    num_lmref_entries = 5
    lmstorage_size = 16
    OnlyApart = TRUE
INVARIANTS CompiledTypeOK DirectoryMatchesProgram NoOverlap AllSpaceReturned
    NeighboursDiffer StorageSuffices
PROPERTY ImplementsProgram
\* The program ends when main has returned.
CHECK_DEADLOCK FALSE
