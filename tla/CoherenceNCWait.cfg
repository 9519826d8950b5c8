SPECIFICATION Spec
CONSTANTS
    A = A
    B = B
    LA = LA
    LB = LB
    Mem = Mem
    t1 = t1
    t2 = t2
    Modules = {A, B, Mem}
    MainMemory = Mem
    Low <- TwoLow
    NumWays <- OneWay
    Tags = {t1, t2}
    NoTag = NoTag
    NoModule = NoModule
    MaxInFlight = 2
    AccessTypes = {"load", "store", "nc_store"}
SYMMETRY SameTagsAndCaches
INVARIANTS
    NoCircularWait

