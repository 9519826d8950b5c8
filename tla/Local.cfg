SPECIFICATION FairSpec
CONSTANTS
    MaxAccesses = 4
    Blocks = {1, 2}
    NumPorts = 1
INVARIANTS TypeOK ConflictsInOrder MastersInFlight CoalescedCounted WaitsForOlder SignalledOnce
PROPERTY EveryAccessFinishes
\* The bound on the accesses stops the program.
CHECK_DEADLOCK FALSE
