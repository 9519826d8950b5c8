--------------------------- MODULE MCLMStoreAccess ---------------------------
(* Instances of LMStoreAccess: what small programs have in flight. *)
EXTENDS LMStoreAccess, FiniteSetsExt

Addr(op, ref, size, blk) ==
    [op |-> op, ref |-> ref, id |-> ref, size |-> size, blk |-> blk]

\* Two blocks of one read at most.
OnceEach ==
    {Addr("ReadAlloc", 1, 8, 1), Addr("Access", 1, 0, 2), Addr("WriteDealloc", 1, 8, 3),
     Addr("NoReadAlloc", 2, 4, 4), Addr("Access", 2, 0, 5), Addr("NoWriteDealloc", 2, 4, 6)}

\* A block that is read from memory with two requests, and one of one read.
TwoReads ==
    {Addr("ReadAlloc", 1, 20, 1), Addr("Access", 1, 0, 2),
     Addr("NoReadAlloc", 2, 4, 3), Addr("Access", 2, 0, 4), Addr("WriteDealloc", 2, 4, 5)}

\* Module::UpdateStats: when nothing is in flight, the free space that the
\* module reports is what the blocks that the program holds leave free, whatever
\* order the allocations and deallocations ran in and however they were retried.
FreeSpaceReported ==
    (\A a \in Accesses : ~InFlight(a)) =>
        freeSpace = -MapThenSumSet(LAMBDA h : h.size, held)
=============================================================================
