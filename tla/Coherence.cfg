SPECIFICATION Spec
CONSTANTS
    A = A
    B = B
    LA = LA
    LB = LB
    Mem = Mem
    t1 = t1
    t2 = t2
    Modules = {A, LA, LB, Mem}
    MainMemory = Mem
    Low <- NestedLow
    NumWays <- OneWay
    Tags = {t1, t2}
    NoTag = NoTag
    NoModule = NoModule
    MaxInFlight = 2
    AccessTypes = {"load", "store"}
SYMMETRY SameTags
INVARIANTS
    LowerModuleHasBlock
    OwnerIsKnown
    CopiesAreKnown
    SingleWriter
    NoCircularWait
    LocksAreReleased
    UnlocksOwnLock
    EvictFindsBlock
    NeverPanics
    NoLostWakeup

