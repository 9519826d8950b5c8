SPECIFICATION Spec
CONSTANTS
    A = A
    B = B
    LA = LA
    LB = LB
    Mem = Mem
    t1 = t1
    t2 = t2
    Modules = {A, B, LA, Mem}
    MainMemory = Mem
    Low <- FlatLow
    NumWays <- OneWay
    Tags = {t1, t2}
    NoTag = NoTag
    NoModule = NoModule
    MaxInFlight = 2
    AccessTypes = {"store", "nc_store"}
SYMMETRY SameTagsAndAllCaches
INVARIANTS
    SingleWriter
    ModifiedDataIsKept
\* The system may stop: see coherence_nc_wait.
CHECK_DEADLOCK FALSE
