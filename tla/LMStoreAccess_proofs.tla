------------------------- MODULE LMStoreAccess_proofs -------------------------
(* What holds of the event chains of an LMStore for every program, any number *)
(* of accesses in flight, ports, reads and refusals.                          *)
EXTENDS LMStoreAccess, FiniteSetTheorems, TLAPS

\* The free pointer wraps.
LEMMA UnsignedWraps ==
    ASSUME NEW i \in Unsigned, NEW j \in Unsigned
    PROVE  (i + j) % Word \in Unsigned /\ (i - j) % Word \in Unsigned
    BY TableAssumption DEF Unsigned

\* The updates of a frame that the events make.
LEMMA FrameUpdates ==
    ASSUME NEW f \in Frames, NEW e \in BOOLEAN, NEW s \in {"I", "E"}, NEW p \in Int
    PROVE  /\ [f EXCEPT !.error = e] \in Frames
           /\ [f EXCEPT !.witness = e] \in Frames
           /\ [f EXCEPT !.pending = p] \in Frames
           /\ [f EXCEPT !.error = e, !.state = s] \in Frames
           /\ [f EXCEPT !.pending = p, !.error = e] \in Frames
           /\ f.pending \in Int
    BY DEF Frames

\* Every address that an access can have names an entry of the directory.
LEMMA AddressType ==
    ASSUME TypeOK, NEW a \in Accesses
    PROVE  /\ addr[a].op \in OpCodes
           /\ addr[a].id \in Nat
           /\ addr[a].size \in Unsigned
           /\ Slot(addr[a]) \in 0..(LMDirSize - 1)
<1>1. addr[a] \in [op : OpCodes, ref : Refs, id : Nat, size : Unsigned, blk : Nat]
    BY AccessAssumption, TableAssumption DEF TypeOK, NoAddr, OpCodes, Refs, Unsigned
<1> QED
    BY <1>1, TableAssumption DEF Slot, LMRef, Refs

\* The operations of the tables keep the types of the tables.
LEMMA AllocateType ==
    ASSUME TypeOK, NEW a \in Accesses, allocateBlock(addr[a])
    PROVE  TablesTypeOK'
<1>1. addr[a].size \in Unsigned /\ addr[a].id \in Nat /\ Slot(addr[a]) \in 0..(LMDirSize - 1)
    BY AddressType
<1>2. LMBIndex \in Unsigned /\ LMDir \in [0..(LMDirSize - 1) -> DirEntry]
    BY DEF TypeOK, TablesTypeOK
<1>3. (LMBIndex + addr[a].size) % Word \in Unsigned
    BY <1>1, <1>2, UnsignedWraps
<1> QED
    BY <1>1, <1>2, <1>3 DEF TablesTypeOK, allocateBlock, DirEntry, BlockStates, tables

LEMMA DeallocateType ==
    ASSUME TypeOK, NEW a \in Accesses, deallocateBlock(addr[a])
    PROVE  TablesTypeOK'
<1>1. Slot(addr[a]) \in 0..(LMDirSize - 1)
    BY AddressType
<1>2. LMBIndex \in Unsigned /\ LMDir \in [0..(LMDirSize - 1) -> DirEntry]
    BY DEF TypeOK, TablesTypeOK
<1>3. LMDir[LMDirIndex].BlockSize \in Unsigned
    BY <1>2, TableAssumption DEF DirEntry, LMDirIndex
<1>4. (LMBIndex - LMDir[LMDirIndex].BlockSize) % Word \in Unsigned
    BY <1>2, <1>3, UnsignedWraps
<1> QED
    BY <1>1, <1>2, <1>4 DEF TablesTypeOK, deallocateBlock, DirEntry, BlockStates

LEMMA SetStateType ==
    ASSUME TypeOK, NEW a \in Accesses, setBlockState(addr[a], "M")
    PROVE  TablesTypeOK'
<1>1. Slot(addr[a]) \in 0..(LMDirSize - 1)
    BY AddressType
<1> QED
    BY ZenonT(40), <1>1 DEF TypeOK, TablesTypeOK, setBlockState, DirEntry, BlockStates

LEMMA TypeInit == Init => TypeOK
<1> SUFFICES ASSUME Init PROVE TypeOK
    OBVIOUS
<1>1. TablesTypeOK
    BY TableAssumption DEF Init, TablesInit, TablesTypeOK, DirEntry, BlockStates, Unsigned
<1> QED
    BY <1>1, AccessAssumption DEF Init, TypeOK, Frames, ReadStates, AccessTypes, PCs, NewFrame, NewFind

\* One step for each action; the actions that change the tables use the lemmas
\* above for them.
LEMMA TypeStep == TypeOK /\ [Next]_vars => TypeOK'
<1> SUFFICES ASSUME TypeOK, [Next]_vars PROVE TypeOK'
    OBVIOUS
<1> USE AccessAssumption
<1>0. CASE UNCHANGED vars
    BY <1>0 DEF vars, TypeOK, TablesTypeOK
<1>1. ASSUME NEW x \in Addrs, NEW t \in AccessTypes, Issue(x, t) PROVE TypeOK'
    <2>1. issued' \in Accesses /\ issued' \in 0..MaxAccesses
        BY <1>1 DEF Issue, TypeOK, Accesses
    <2>2. x.ref \in Refs
        OBVIOUS
    <2> QED
        BY <1>1, <2>1, <2>2 DEF Issue, TypeOK, TablesTypeOK, tables, Goto, PCs, memory, port
<1>2. ASSUME NEW a \in Accesses, LockWait(a) PROVE TypeOK'
    <2>1. Blockers(a) \subseteq 0..MaxAccesses
        BY DEF Blockers, FirstNonEmpty, OlderAlloc, OlderWrite, OlderSameBlock, Youngest,
               OfType, Older, Accesses
    <2> QED
        BY <1>2, <2>1 DEF LockWait, TypeOK, TablesTypeOK, tables, program, memory, port
<1>3. ASSUME NEW a \in Accesses, Lock(a) PROVE TypeOK'
    <2>1. CASE StoreLock(a)
        <3>1. frame' \in [Accesses -> Frames]
            BY <2>1, FrameUpdates DEF StoreLock, TypeOK
        <3>2. frame[a].witness \in BOOLEAN
            BY DEF TypeOK, Frames
        <3> QED
            BY <2>1, <3>1, <3>2 DEF StoreLock, NewFind, Goto, PCs, TypeOK, TablesTypeOK,
                                    tables, program, memory, port
    <2>2. CASE LoadLock(a)
        BY <2>2 DEF LoadLock, NewFind, Goto, PCs, TypeOK, TablesTypeOK, tables, program,
                    memory, port
    <2>3. CASE AllocLock(a) \/ DeallocLock(a)
        BY <2>3 DEF AllocLock, DeallocLock, Goto, PCs, TypeOK, TablesTypeOK, tables, program,
                    memory, port
    <2> QED
        BY <1>3, <2>1, <2>2, <2>3 DEF Lock
<1>4. ASSUME NEW a \in Accesses, FindAndLock(a) PROVE TypeOK'
    <2>1. frame' \in [Accesses -> Frames]
        BY <1>4, FrameUpdates DEF FindAndLock, TypeOK
    <2>2. pc' \in [Accesses -> PCs]
        BY <1>4 DEF FindAndLock, Goto, PCs, TypeOK
    <2>3. ports' \in SUBSET Accesses /\ portQueue' \in Seq(Accesses)
        <3>1. Append(portQueue, a) \in Seq(Accesses)
            BY DEF TypeOK
        <3> QED
            BY <1>4, <3>1 DEF FindAndLock, TypeOK
    <2> QED
        BY <1>4, <2>1, <2>2, <2>3 DEF FindAndLock, TypeOK, TablesTypeOK, tables, program, memory
<1>5. ASSUME NEW a \in Accesses, FindAndLockPort(a) PROVE TypeOK'
    BY <1>5 DEF FindAndLockPort, FindBlock, Goto, PCs, TypeOK, TablesTypeOK, tables, program, memory, port
<1>6. ASSUME NEW a \in Accesses, FindAndLockAction(a) PROVE TypeOK'
    <2>1. portQueue # <<>> => Head(portQueue) \in Accesses /\ Tail(portQueue) \in Seq(Accesses)
        BY DEF TypeOK
    <2>2. pc' \in [Accesses -> PCs]
        BY <1>6, <2>1 DEF FindAndLockAction, Goto, PCs, TypeOK
    <2>3. ports' \in SUBSET Accesses /\ portQueue' \in Seq(Accesses)
        BY <1>6, <2>1 DEF FindAndLockAction, TypeOK
    <2> QED
        BY <1>6, <2>2, <2>3 DEF FindAndLockAction, TypeOK, TablesTypeOK, tables, program, memory
<1>7. ASSUME NEW a \in Accesses, FindAndLockFinish(a) PROVE TypeOK'
    <2>1. find[a].state \in {"I", "E"}
        BY DEF TypeOK
    <2>2. frame' \in [Accesses -> Frames]
        BY <1>7, <2>1, FrameUpdates DEF FindAndLockFinish, TypeOK
    <2> QED
        BY <1>7, <2>2 DEF FindAndLockFinish, Goto, PCs, TypeOK, TablesTypeOK, tables, program,
                          memory, port
<1>8. ASSUME NEW a \in Accesses, LoadAction(a) PROVE TypeOK'
    BY <1>8 DEF LoadAction, Goto, PCs, TypeOK, TablesTypeOK, tables, program, memory, port
<1>9. ASSUME NEW a \in Accesses, StoreAction(a) PROVE TypeOK'
    <2>1. TablesTypeOK'
        BY <1>9, SetStateType DEF StoreAction, TypeOK, TablesTypeOK, tables
    <2> QED
        BY <1>9, <2>1 DEF StoreAction, Goto, PCs, TypeOK, program, memory, port
<1>10. ASSUME NEW a \in Accesses, AllocAction(a) PROVE TypeOK'
    <2>1. MMBlocks(addr[a].size) \in Int
        <3>1. addr[a].size \in Nat
            BY AddressType DEF Unsigned
        <3> QED
            BY <3>1 DEF MMBlocks
    <2>2. frame' \in [Accesses -> Frames]
        <3>1. frame[a] \in Frames
            BY DEF TypeOK
        <3>2. CASE type[a] = "NoReadAlloc"
            <4>1. frame' = [frame EXCEPT ![a].pending = 1]
                BY <1>10, <3>2 DEF AllocAction
            <4>2. [frame[a] EXCEPT !.pending = 1] \in Frames
                BY <3>1 DEF Frames
            <4> QED
                BY <4>1, <4>2 DEF TypeOK
        <3>3. CASE type[a] # "NoReadAlloc"
            <4>1. frame' = [frame EXCEPT ![a] = [@ EXCEPT
                              !.pending = MMBlocks(addr[a].size), !.error = FALSE]]
                BY <1>10, <3>3 DEF AllocAction
            <4>2. [frame[a] EXCEPT !.pending = MMBlocks(addr[a].size), !.error = FALSE] \in Frames
                BY <2>1, <3>1 DEF Frames
            <4> QED
                BY <4>1, <4>2 DEF TypeOK
        <3> QED
            BY <3>2, <3>3
    <2>3. reads' \in [Accesses -> [Reads -> ReadStates]]
        <3>1. CASE type[a] = "NoReadAlloc"
            BY <1>10, <3>1 DEF AllocAction, TypeOK
        <3>2. CASE type[a] # "NoReadAlloc"
            <4>1. PICK blocked \in SUBSET (1..MMBlocks(addr[a].size)) :
                      reads' = [reads EXCEPT ![a] =
                         [i \in Reads |-> IF i \in blocked THEN "blocked"
                                          ELSE IF i <= MMBlocks(addr[a].size) THEN "sent"
                                          ELSE "none"]]
                BY <1>10, <3>2 DEF AllocAction
            <4> QED
                BY <4>1 DEF TypeOK, ReadStates
        <3> QED
            BY <3>1, <3>2
    <2> QED
        BY <1>10, <2>2, <2>3 DEF AllocAction, Goto, PCs, TypeOK, TablesTypeOK, tables, program, port
<1>11. ASSUME NEW a \in Accesses, DeallocAction(a) PROVE TypeOK'
    <2>1. TablesTypeOK'
        BY <1>11, DeallocateType DEF DeallocAction
    <2> QED
        BY <1>11, <2>1 DEF DeallocAction, Goto, PCs, TypeOK, program, memory, port
<1>12. ASSUME NEW a \in Accesses, AllocProcess(a),
              reads' \in [Accesses -> [Reads -> ReadStates]]
       PROVE TypeOK'
    <2>1. TablesTypeOK'
        BY <1>12, AllocateType DEF AllocProcess, Frames, TypeOK, TablesTypeOK, tables
    <2> QED
        <3>1. frame' \in [Accesses -> Frames]
            <4>1. frame[a] \in Frames /\ frame[a].pending - 1 \in Int
                BY DEF TypeOK, Frames
            <4> QED
                BY <1>12, <4>1, FrameUpdates DEF AllocProcess, TypeOK
        <3>2. pc' \in [Accesses -> PCs]
            BY <1>12 DEF AllocProcess, Goto, PCs, TypeOK
        <3> QED
            BY <1>12, <2>1, <3>1, <3>2 DEF AllocProcess, TypeOK, program, port
<1>13. ASSUME NEW a \in Accesses, AllocProcessNoRead(a) PROVE TypeOK'
    BY <1>12, <1>13 DEF AllocProcessNoRead, TypeOK
<1>14. ASSUME NEW a \in Accesses, Unlock(a) PROVE TypeOK'
    <2>1. addr[a].size \in Int
        BY AddressType DEF Unsigned
    <2> QED
        <3>1. freeSpace' \in Int
            BY <1>14, <2>1 DEF Unlock, TypeOK
        <3> QED
            BY <1>14, <3>1 DEF Unlock, Goto, PCs, TypeOK, TablesTypeOK, tables, program,
                               memory, port
<1>15. ASSUME NEW a \in Accesses, Finish(a) PROVE TypeOK'
    BY <1>15 DEF Finish, Goto, PCs, TypeOK, TablesTypeOK, tables, program, memory, port
<1>16. ASSUME NEW a \in Accesses, NEW i \in Reads, ReadStep(a, i) PROVE TypeOK'
    <2>1. ASSUME NEW o \in {"blocked", "sent"}, ReadRequest(a, i, o) PROVE TypeOK'
        <3>1. frame' \in [Accesses -> Frames]
            BY <2>1, FrameUpdates DEF ReadRequest, TypeOK
        <3>2. reads' \in [Accesses -> [Reads -> ReadStates]]
            BY <2>1 DEF ReadRequest, TypeOK, ReadStates
        <3> QED
            BY <2>1, <3>1, <3>2 DEF ReadRequest, TypeOK, TablesTypeOK, tables, program, port
    <2>2. CASE ServeRead(a, i)
        BY <2>2 DEF ServeRead, ReadStates, TypeOK, TablesTypeOK, tables, program, port
    <2>3. CASE RefuseRead(a, i)
        <3>1. frame' \in [Accesses -> Frames]
            BY <2>3, FrameUpdates DEF RefuseRead, TypeOK
        <3>2. reads' \in [Accesses -> [Reads -> ReadStates]]
            BY <2>3 DEF RefuseRead, TypeOK, ReadStates
        <3>3. refusals' \in 0..MaxRefusals
            BY <2>3 DEF RefuseRead, TypeOK
        <3> QED
            BY <2>3, <3>1, <3>2, <3>3 DEF RefuseRead, TypeOK, TablesTypeOK, tables, program, port
    <2>4. CASE AllocProcessRead(a, i)
        BY <1>12, <2>4 DEF AllocProcessRead, ReadStates, TypeOK
    <2> QED
        BY <1>16, <2>1, <2>2, <2>3, <2>4 DEF ReadStep
<1> QED
    BY <1>0, <1>1, <1>2, <1>3, <1>4, <1>5, <1>6, <1>7, <1>8, <1>9, <1>10, <1>11,
       <1>13, <1>14, <1>15, <1>16 DEF Next, Step

\* Every state of the event chains is well typed, whatever the program issues.
THEOREM TypeCorrect == Spec => []TypeOK
    BY TypeInit, TypeStep, PTL DEF Spec
-----------------------------------------------------------------------------
\* The type of an allocation is the operation of an address the program uses.
AllocTypesMatch ==
    \A a \in Accesses : type[a] \in AllocOps => addr[a] \in Addrs /\ addr[a].op = type[a]

\* The accesses issued are the first ones.
IssuedInOrder == \A a \in Accesses : pc[a] = "idle" <=> a > issued

LEMMA OutstandingFinite ==
    ASSUME NEW a \in Accesses
    PROVE  /\ IsFiniteSet(Outstanding(a))
           /\ Cardinality(Outstanding(a)) \in Nat
           /\ Cardinality(Outstanding(a)) = 0 <=> Outstanding(a) = {}
<1>1. IsFiniteSet(Reads)
    BY FS_Interval, AccessAssumption DEF Reads
<1>2. IsFiniteSet(Outstanding(a))
    BY <1>1, FS_Subset DEF Outstanding
<1> QED
    BY <1>2, FS_CardinalityType, FS_EmptySet

\* An event that leaves the read requests alone, and neither starts nor ends
\* the read phase of an allocation, keeps the count.
LEMMA PendingKept ==
    ASSUME PendingCountsReads, UNCHANGED reads,
           \A b \in Accesses : /\ pc'[b] = "reading" <=> pc[b] = "reading"
                               /\ pc[b] = "reading" => frame'[b] = frame[b]
    PROVE  PendingCountsReads'
    BY DEF PendingCountsReads, Outstanding

\* The requests that lmstore_alloc_action starts.
LEMMA PendingAllocAction ==
    ASSUME TypeOK, AllocTypesMatch, PendingCountsReads,
           NEW a \in Accesses, AllocAction(a)
    PROVE  PendingCountsReads'
<1>1. pc[a] = "action" /\ Outstanding(a) = {}
    BY DEF AllocAction, PendingCountsReads
<1>2. CASE type[a] = "NoReadAlloc"
    BY <1>1, <1>2, PendingKept DEF AllocAction, TypeOK, Goto
<1>3. CASE type[a] # "NoReadAlloc"
    <2> DEFINE n == MMBlocks(addr[a].size)
    <2>1. n \in Reads
        BY <1>3, AccessAssumption DEF AllocAction, AllocOps, AllocTypesMatch
    <2>2. PICK blocked \in SUBSET (1..n) :
              reads' = [reads EXCEPT ![a] =
                 [i \in Reads |-> IF i \in blocked THEN "blocked"
                                  ELSE IF i <= n THEN "sent" ELSE "none"]]
        BY <1>3 DEF AllocAction
    <2>3. frame' = [frame EXCEPT ![a] = [@ EXCEPT !.pending = n, !.error = FALSE]]
        BY <1>3 DEF AllocAction
    <2>4. pc' = [pc EXCEPT ![a] = "reading"]
        BY <1>3 DEF AllocAction, Goto
    <2> HIDE DEF n
    <2>5. Outstanding(a)' = 1..n
        BY <2>1, <2>2, AccessAssumption DEF Outstanding, Reads, TypeOK
    <2>6. Cardinality(1..n) = n /\ 1..n # {}
        <3>1. n \in Nat \ {0}
            BY <2>1, AccessAssumption DEF Reads
        <3>2. Cardinality(1..n) = IF 1 > n THEN 0 ELSE n - 1 + 1
            BY <3>1, FS_Interval
        <3> QED
            BY <3>1, <3>2
    <2>7. frame'[a].pending = n
        BY <2>3 DEF TypeOK, Frames
    <2>8. \A b \in Accesses \ {a} :
              pc'[b] = pc[b] /\ frame'[b] = frame[b] /\ Outstanding(b)' = Outstanding(b)
        BY <2>2, <2>3, <2>4 DEF TypeOK, Outstanding
    <2>9. pc'[a] = "reading"
        BY <2>4 DEF TypeOK
    <2> QED
        BY <2>5, <2>6, <2>7, <2>8, <2>9 DEF PendingCountsReads
<1> QED
    BY <1>2, <1>3

\* A request that is sent, served or refused stays outstanding.
LEMMA PendingRead ==
    ASSUME TypeOK, PendingCountsReads, NEW a \in Accesses, NEW i \in Reads,
           \/ ReadRequest(a, i, "blocked") \/ ReadRequest(a, i, "sent")
           \/ ServeRead(a, i) \/ RefuseRead(a, i)
    PROVE  PendingCountsReads'
<1>1. \A b \in Accesses : Outstanding(b)' = Outstanding(b)
    <2>1. /\ reads[a][i] \in {"blocked", "sent"}
          /\ \E r \in {"blocked", "sent", "served", "refused"} :
                reads' = [reads EXCEPT ![a][i] = r]
        BY DEF ReadRequest, ServeRead, RefuseRead
    <2> QED
        BY <2>1 DEF Outstanding, TypeOK
<1>2. \A b \in Accesses : frame'[b].pending = frame[b].pending
    BY DEF ReadRequest, ServeRead, RefuseRead, TypeOK, Frames
<1>3. pc' = pc
    BY DEF ReadRequest, ServeRead, RefuseRead
<1> QED
    BY <1>1, <1>2, <1>3 DEF PendingCountsReads

\* A request that returns is outstanding no more, and lmstore_alloc_process
\* ends the read phase if it was the last one.
LEMMA PendingReturn ==
    ASSUME TypeOK, PendingCountsReads, NEW a \in Accesses, NEW i \in Reads,
           AllocProcessRead(a, i)
    PROVE  PendingCountsReads'
<1>1. i \in Outstanding(a)
    BY DEF AllocProcessRead, Outstanding
<1>2. pc[a] = "reading" /\ frame[a].pending = Cardinality(Outstanding(a))
    BY <1>1 DEF PendingCountsReads
<1>3. Outstanding(a)' = Outstanding(a) \ {i}
    BY DEF AllocProcessRead, Outstanding, TypeOK, ReadStates
<1>4. /\ Cardinality(Outstanding(a)') = Cardinality(Outstanding(a)) - 1
      /\ Cardinality(Outstanding(a)') \in Nat
      /\ Cardinality(Outstanding(a)') = 0 <=> Outstanding(a)' = {}
    BY <1>1, <1>3, OutstandingFinite, FS_RemoveElement, FS_EmptySet, FS_CardinalityType
<1>5. frame'[a].pending = frame[a].pending - 1
    BY DEF AllocProcessRead, AllocProcess, TypeOK, Frames
<1>6. pc'[a] = "reading" <=> frame[a].pending > 1
    BY <1>2 DEF AllocProcessRead, AllocProcess, Goto, TypeOK
<1>7. \A b \in Accesses \ {a} :
          pc'[b] = pc[b] /\ frame'[b] = frame[b] /\ Outstanding(b)' = Outstanding(b)
    BY DEF AllocProcessRead, AllocProcess, Goto, TypeOK, Outstanding
<1> QED
    BY <1>2, <1>4, <1>5, <1>6, <1>7, OutstandingFinite DEF PendingCountsReads

-----------------------------------------------------------------------------
PortPCs == {"port_wait", "find_port", "find_action"}
Running == PCs \ {"idle", "lock", "done"}
Quiet == Running \ (PortPCs \cup {"reading"})

\* What the other events do to the order of the accesses: the lock event lets an
\* access pass, or the access goes on, or back to its lock event.
Passes(a) ==
    /\ pc[a] = "lock" /\ waiting[a] = 0 /\ Blockers(a) = {}
    /\ \E e \in Quiet : pc' = [pc EXCEPT ![a] = e]
    /\ \A b \in Accesses \ {a} : frame'[b] = frame[b]
    /\ UNCHANGED <<program, waiting, port, reads>>

Moves(a) ==
    /\ pc[a] \in Quiet
    /\ \E e \in Quiet \cup {"lock"} : pc' = [pc EXCEPT ![a] = e]
    /\ \A b \in Accesses \ {a} : frame'[b] = frame[b]
    /\ UNCHANGED <<program, waiting, port, reads>>

\* The kinds of steps.
LEMMA StepKinds ==
    ASSUME TypeOK, Next
    PROVE  \/ \E x \in Addrs, t \in AccessTypes : Issue(x, t)
           \/ \E a \in Accesses :
                 \/ LockWait(a) \/ Passes(a) \/ Moves(a) \/ Finish(a)
                 \/ FindAndLock(a) \/ FindAndLockPort(a) \/ FindAndLockAction(a)
                 \/ AllocAction(a)
                 \/ \E i \in Reads : ReadStep(a, i)
<1> USE DEF Quiet, Running, PortPCs, PCs
<1>1. ASSUME NEW a \in Accesses, Lock(a) PROVE Passes(a)
    BY <1>1 DEF Lock, LoadLock, StoreLock, AllocLock, DeallocLock, Passes, Goto, memory, TypeOK
<1>2. ASSUME NEW a \in Accesses, FindAndLockFinish(a) PROVE Moves(a)
    BY <1>2 DEF FindAndLockFinish, Moves, Goto, memory, TypeOK
<1>3. ASSUME NEW a \in Accesses, LoadAction(a) PROVE Moves(a)
    BY <1>3 DEF LoadAction, Moves, Goto, memory
<1>4. ASSUME NEW a \in Accesses, StoreAction(a) PROVE Moves(a)
    BY <1>4 DEF StoreAction, Moves, Goto, memory
<1>5. ASSUME NEW a \in Accesses, DeallocAction(a) PROVE Moves(a)
    BY <1>5 DEF DeallocAction, Moves, Goto, memory
<1>6. ASSUME NEW a \in Accesses, AllocProcessNoRead(a) PROVE Moves(a)
    <2>1. CASE frame[a].pending > 1
        <3>1. pc' = [pc EXCEPT ![a] = "process"]
            BY <1>6, <2>1 DEF AllocProcessNoRead, AllocProcess, TypeOK
        <3> QED
            BY <1>6, <3>1 DEF AllocProcessNoRead, AllocProcess, Moves, TypeOK
    <2>2. CASE ~(frame[a].pending > 1)
        BY <1>6, <2>2 DEF AllocProcessNoRead, AllocProcess, Moves, Goto, TypeOK
    <2> QED
        BY <2>1, <2>2
<1>7. ASSUME NEW a \in Accesses, Unlock(a) PROVE Moves(a)
    BY <1>7 DEF Unlock, Moves, Goto, memory
<1> QED
    BY <1>1, <1>2, <1>3, <1>4, <1>5, <1>6, <1>7 DEF Next, Step

\* What a step does to the events of the accesses while main memory is asked.
LEMMA ReadStepKinds ==
    ASSUME TypeOK, PendingCountsReads, NEW a \in Accesses, NEW i \in Reads, ReadStep(a, i)
    PROVE  /\ pc[a] = "reading"
           /\ \E e \in {"reading", "lock", "unlock"} : pc' = [pc EXCEPT ![a] = e]
           /\ UNCHANGED <<program, waiting, port>>
<1>1. pc[a] = "reading"
    BY DEF ReadStep, PendingCountsReads, Outstanding, ReadRequest, ServeRead, RefuseRead,
           AllocProcessRead
<1>2. CASE pc' = pc
    <2>1. pc' = [pc EXCEPT ![a] = "reading"]
        BY <1>1, <1>2 DEF TypeOK
    <2> QED
        BY <1>1, <2>1 DEF ReadStep, ReadRequest, ServeRead, RefuseRead, AllocProcessRead,
                          AllocProcess
<1>3. CASE pc' # pc
    BY <1>1, <1>3 DEF ReadStep, ReadRequest, ServeRead, RefuseRead, AllocProcessRead,
                      AllocProcess, Goto
<1> QED
    BY <1>2, <1>3

LEMMA AllocActionKind ==
    ASSUME NEW a \in Accesses, AllocAction(a)
    PROVE  /\ pc[a] = "action"
           /\ \E e \in {"process", "reading"} : pc' = [pc EXCEPT ![a] = e]
           /\ UNCHANGED <<program, waiting, port>>
    BY DEF AllocAction, Goto

LEMMA QueueWaits ==
    ASSUME TypeOK, PortsWellUsed, portQueue # <<>>
    PROVE  Head(portQueue) \in Accesses /\ pc[Head(portQueue)] = "port_wait"
    BY DEF TypeOK, PortsWellUsed
-----------------------------------------------------------------------------
LEMMA PendingStep ==
    ASSUME TypeOK, AllocTypesMatch, IssuedInOrder, PendingCountsReads, PortsWellUsed, Next
    PROVE  PendingCountsReads'
<1>1. ASSUME NEW x \in Addrs, NEW t \in AccessTypes, Issue(x, t)
      PROVE  PendingCountsReads'
    BY <1>1, PendingKept DEF Issue, Goto, IssuedInOrder, TypeOK, memory, Accesses
<1>2. ASSUME NEW a \in Accesses, LockWait(a)
      PROVE  PendingCountsReads'
    BY <1>2, PendingKept DEF LockWait, memory
<1>3. ASSUME NEW a \in Accesses, Passes(a) \/ Moves(a)
      PROVE  PendingCountsReads'
    BY <1>3, PendingKept DEF Passes, Moves, Quiet, TypeOK
<1>4. ASSUME NEW a \in Accesses, Finish(a)
      PROVE  PendingCountsReads'
    BY <1>4, PendingKept DEF Finish, Goto, memory, TypeOK
<1>5. ASSUME NEW a \in Accesses, FindAndLock(a) \/ FindAndLockPort(a)
      PROVE  PendingCountsReads'
    BY <1>5, PendingKept DEF FindAndLock, FindAndLockPort, Goto, memory, TypeOK
<1>6. ASSUME NEW a \in Accesses, FindAndLockAction(a)
      PROVE  PendingCountsReads'
    BY <1>6, PendingKept, QueueWaits DEF FindAndLockAction, Goto, memory, TypeOK
<1>7. ASSUME NEW a \in Accesses, NEW i \in Reads, ReadStep(a, i)
      PROVE  PendingCountsReads'
    BY <1>7, PendingRead, PendingReturn DEF ReadStep
<1> QED
    BY <1>1, <1>2, <1>3, <1>4, <1>5, <1>6, <1>7, PendingAllocAction, StepKinds

LEMMA IssueStep ==
    ASSUME TypeOK, AllocTypesMatch, IssuedInOrder, PendingCountsReads, PortsWellUsed, Next
    PROVE  AllocTypesMatch' /\ IssuedInOrder'
<1>1. ASSUME NEW x \in Addrs, NEW t \in AccessTypes, Issue(x, t)
      PROVE  AllocTypesMatch' /\ IssuedInOrder'
    BY <1>1 DEF Issue, Goto, AllocTypesMatch, IssuedInOrder, TypeOK, Accesses, AllocOps
<1>2. ASSUME UNCHANGED <<type, addr, issued>>,
             \A b \in Accesses : pc'[b] = "idle" <=> pc[b] = "idle"
      PROVE  AllocTypesMatch' /\ IssuedInOrder'
    BY <1>2 DEF AllocTypesMatch, IssuedInOrder
<1>3. ASSUME NEW a \in Accesses, LockWait(a) \/ Passes(a) \/ Moves(a) \/ Finish(a)
      PROVE  AllocTypesMatch' /\ IssuedInOrder'
    BY <1>2, <1>3 DEF LockWait, Passes, Moves, Finish, Goto, Quiet, Running, TypeOK, program
<1>4. ASSUME NEW a \in Accesses, FindAndLock(a) \/ FindAndLockPort(a)
      PROVE  AllocTypesMatch' /\ IssuedInOrder'
    BY <1>2, <1>4 DEF FindAndLock, FindAndLockPort, Goto, TypeOK, program
<1>5. ASSUME NEW a \in Accesses, FindAndLockAction(a)
      PROVE  AllocTypesMatch' /\ IssuedInOrder'
    BY <1>2, <1>5, QueueWaits DEF FindAndLockAction, Goto, TypeOK, program
<1>6. ASSUME NEW a \in Accesses, AllocAction(a)
      PROVE  AllocTypesMatch' /\ IssuedInOrder'
    BY <1>2, <1>6, AllocActionKind DEF TypeOK, program
<1>7. ASSUME NEW a \in Accesses, NEW i \in Reads, ReadStep(a, i)
      PROVE  AllocTypesMatch' /\ IssuedInOrder'
    BY <1>2, <1>7, ReadStepKinds DEF TypeOK, program
<1> QED
    BY <1>1, <1>3, <1>4, <1>5, <1>6, <1>7, StepKinds
-----------------------------------------------------------------------------
\* A step that neither takes nor releases a port.
LEMMA PortsKept ==
    ASSUME PortsWellUsed, UNCHANGED port,
           \A b \in Accesses :
              /\ pc'[b] = "port_wait" <=> pc[b] = "port_wait"
              /\ pc'[b] \in {"find_port", "find_action"} <=> pc[b] \in {"find_port", "find_action"}
    PROVE  PortsWellUsed'
    BY DEF PortsWellUsed, port

\* The ports in use are a finite set.
LEMMA PortsFinite ==
    ASSUME TypeOK
    PROVE  IsFiniteSet(ports) /\ Cardinality(ports) \in Nat
<1>1. IsFiniteSet(Accesses)
    BY FS_Interval, AccessAssumption DEF Accesses
<1>2. IsFiniteSet(ports)
    BY <1>1, FS_Subset DEF TypeOK
<1> QED
    BY <1>2, FS_CardinalityType

\* LockPort.
LEMMA PortsFindAndLock ==
    ASSUME TypeOK, PortsWellUsed, NEW a \in Accesses, FindAndLock(a)
    PROVE  PortsWellUsed'
<1> USE AccessAssumption
<1>0. pc[a] = "find" /\ a \notin ports
    BY DEF FindAndLock, PortsWellUsed
<1>1. CASE Cardinality(ports) >= NumPorts
    <2>1. portQueue' = Append(portQueue, a) /\ ports' = ports /\ pc' = [pc EXCEPT ![a] = "port_wait"]
        BY <1>1 DEF FindAndLock, Goto
    <2>2. Cardinality(ports) = NumPorts
        BY <1>1, PortsFinite DEF PortsWellUsed
    <2>3. /\ Len(portQueue') = Len(portQueue) + 1 /\ Len(portQueue) \in Nat
          /\ portQueue'[Len(portQueue) + 1] = a
          /\ \A i \in 1..Len(portQueue) : portQueue'[i] = portQueue[i]
        BY <2>1 DEF TypeOK
    <2>4. ports' = {b \in Accesses : pc'[b] \in {"find_port", "find_action"}}
        BY <1>0, <2>1 DEF PortsWellUsed, TypeOK
    <2>5. \A b \in Accesses :
              pc'[b] = "port_wait" <=> \E i \in 1..Len(portQueue') : portQueue'[i] = b
        BY <2>1, <2>3 DEF PortsWellUsed, TypeOK
    <2>6. \A i, j \in 1..Len(portQueue') : i # j => portQueue'[i] # portQueue'[j]
        BY <1>0, <2>3 DEF PortsWellUsed
    <2> QED
        BY <2>1, <2>2, <2>4, <2>5, <2>6 DEF PortsWellUsed
<1>2. CASE ~(Cardinality(ports) >= NumPorts)
    <2>1. portQueue' = portQueue /\ ports' = ports \cup {a} /\ pc' = [pc EXCEPT ![a] = "find_port"]
        BY <1>2 DEF FindAndLock, Goto
    <2>2. Cardinality(ports') = Cardinality(ports) + 1
        BY <1>0, <2>1, PortsFinite, FS_AddElement
    <2>3. Cardinality(ports') <= NumPorts
        BY <1>2, <2>2, PortsFinite
    <2>4. portQueue = <<>>
        BY <1>2, PortsFinite DEF PortsWellUsed
    <2>5. ports' = {b \in Accesses : pc'[b] \in {"find_port", "find_action"}}
        BY <1>0, <2>1 DEF PortsWellUsed, TypeOK
    <2>6. \A b \in Accesses : pc'[b] = "port_wait" <=> pc[b] = "port_wait"
        BY <1>0, <2>1 DEF TypeOK
    <2> QED
        BY <2>1, <2>3, <2>4, <2>5, <2>6 DEF PortsWellUsed
<1> QED
    BY <1>1, <1>2

\* UnlockPort.
LEMMA PortsFindAndLockAction ==
    ASSUME TypeOK, PortsWellUsed, NEW a \in Accesses, FindAndLockAction(a)
    PROVE  PortsWellUsed'
<1>0. pc[a] = "find_action" /\ a \in ports
    BY DEF FindAndLockAction, PortsWellUsed
<1>1. /\ IsFiniteSet(ports \ {a})
      /\ Cardinality(ports \ {a}) = Cardinality(ports) - 1
    BY <1>0, PortsFinite, FS_RemoveElement
<1>2. CASE portQueue = <<>>
    <2>1. ports' = ports \ {a} /\ portQueue' = <<>> /\ pc' = [pc EXCEPT ![a] = "find_finish"]
        BY <1>2 DEF FindAndLockAction, Goto
    <2>2. ports' = {b \in Accesses : pc'[b] \in {"find_port", "find_action"}}
        BY <1>0, <2>1 DEF PortsWellUsed, TypeOK
    <2>3. \A b \in Accesses : pc'[b] = "port_wait" <=> pc[b] = "port_wait"
        BY <1>0, <2>1 DEF TypeOK
    <2>4. Cardinality(ports') <= NumPorts
        BY <1>1, <2>1, PortsFinite, AccessAssumption DEF PortsWellUsed
    <2> QED
        BY <1>2, <2>1, <2>2, <2>3, <2>4 DEF PortsWellUsed
<1>3. CASE portQueue # <<>>
    <2> DEFINE h == Head(portQueue)
    <2>1. h \in Accesses /\ pc[h] = "port_wait" /\ h \notin ports /\ h # a
        BY <1>0, <1>3, QueueWaits DEF PortsWellUsed
    <2>2. /\ ports' = (ports \ {a}) \cup {h}
          /\ portQueue' = Tail(portQueue)
          /\ pc' = [pc EXCEPT ![a] = "find_finish", ![h] = "find_port"]
        BY <1>3 DEF FindAndLockAction
    <2>3. Cardinality(ports') = Cardinality(ports)
        <3>1. Cardinality((ports \ {a}) \cup {h}) = Cardinality(ports \ {a}) + 1
            BY <1>1, <2>1, FS_AddElement
        <3> QED
            BY <1>1, <2>2, <3>1, PortsFinite
    <2>4. /\ h = portQueue[1] /\ Len(portQueue) \in Nat \ {0}
          /\ Len(portQueue') = Len(portQueue) - 1
          /\ \A i \in 1..Len(portQueue') : portQueue'[i] = portQueue[i + 1]
        BY <1>3, <2>2 DEF TypeOK
    <2> HIDE DEF h
    <2>5. /\ pc'[a] = "find_finish" /\ pc'[h] = "find_port"
          /\ \A b \in Accesses \ {a, h} : pc'[b] = pc[b]
        BY <2>1, <2>2 DEF TypeOK
    <2>6. ports' = {b \in Accesses : pc'[b] \in {"find_port", "find_action"}}
        BY <2>1, <2>2, <2>5 DEF PortsWellUsed
    <2>7. \A b \in Accesses :
              pc'[b] = "port_wait" <=> \E i \in 1..Len(portQueue') : portQueue'[i] = b
        <3>1. ASSUME NEW b \in Accesses, pc'[b] = "port_wait"
              PROVE  \E i \in 1..Len(portQueue') : portQueue'[i] = b
            <4>1. b # h /\ pc[b] = "port_wait"
                BY <2>5, <3>1
            <4>2. PICK i \in 1..Len(portQueue) : portQueue[i] = b
                BY <4>1 DEF PortsWellUsed
            <4>3. i # 1 /\ i - 1 \in 1..Len(portQueue')
                BY <2>4, <4>1, <4>2
            <4>4. portQueue'[i - 1] = portQueue[(i - 1) + 1] /\ (i - 1) + 1 = i
                BY <2>4, <4>2, <4>3
            <4> QED
                BY <4>2, <4>3, <4>4
        <3>2. ASSUME NEW b \in Accesses, NEW i \in 1..Len(portQueue'), portQueue'[i] = b
              PROVE  pc'[b] = "port_wait"
            <4>1. i + 1 \in 1..Len(portQueue) /\ portQueue[i + 1] = b /\ i + 1 # 1
                BY <2>4, <3>2
            <4>2. pc[b] = "port_wait"
                BY <4>1 DEF PortsWellUsed
            <4>3. b # h
                BY <2>4, <4>1 DEF PortsWellUsed
            <4> QED
                BY <1>0, <2>5, <4>2, <4>3
        <3> QED
            BY <3>1, <3>2
    <2>8. \A i, j \in 1..Len(portQueue') : i # j => portQueue'[i] # portQueue'[j]
        <3> SUFFICES ASSUME NEW i \in 1..Len(portQueue'), NEW j \in 1..Len(portQueue'), i # j
                     PROVE  portQueue'[i] # portQueue'[j]
            OBVIOUS
        <3>1. i + 1 \in 1..Len(portQueue) /\ j + 1 \in 1..Len(portQueue) /\ i + 1 # j + 1
            BY <2>4
        <3> QED
            BY <2>4, <3>1 DEF PortsWellUsed
    <2>9. Cardinality(ports') <= NumPorts /\ Cardinality(ports') = NumPorts
        BY <1>3, <2>3 DEF PortsWellUsed
    <2> QED
        BY <2>6, <2>7, <2>8, <2>9 DEF PortsWellUsed
<1> QED
    BY <1>2, <1>3

LEMMA PortsStep ==
    ASSUME TypeOK, IssuedInOrder, PendingCountsReads, PortsWellUsed, Next
    PROVE  PortsWellUsed'
<1>1. ASSUME NEW x \in Addrs, NEW t \in AccessTypes, Issue(x, t)
      PROVE  PortsWellUsed'
    BY <1>1, PortsKept DEF Issue, Goto, IssuedInOrder, TypeOK, Accesses
<1>2. ASSUME NEW a \in Accesses, LockWait(a) \/ Passes(a) \/ Moves(a) \/ Finish(a)
      PROVE  PortsWellUsed'
    BY <1>2, PortsKept DEF LockWait, Passes, Moves, Finish, Goto, Quiet, PortPCs, TypeOK
<1>3. ASSUME NEW a \in Accesses, FindAndLockPort(a)
      PROVE  PortsWellUsed'
    BY <1>3, PortsKept DEF FindAndLockPort, Goto, TypeOK
<1>4. ASSUME NEW a \in Accesses, AllocAction(a)
      PROVE  PortsWellUsed'
    BY <1>4, PortsKept, AllocActionKind DEF TypeOK
<1>5. ASSUME NEW a \in Accesses, NEW i \in Reads, ReadStep(a, i)
      PROVE  PortsWellUsed'
    BY <1>5, PortsKept, ReadStepKinds DEF TypeOK
<1> QED
    BY <1>1, <1>2, <1>3, <1>4, <1>5, PortsFindAndLock, PortsFindAndLockAction, StepKinds
-----------------------------------------------------------------------------
\* An event of an access that does not wait, and does not finish, wakes up
\* nobody and leaves everybody who waits something to wait for.
LEMMA WaitersKept ==
    ASSUME TypeOK, WaitersWillBeWoken, UNCHANGED waiting,
           \A b \in Accesses : pc'[b] # pc[b] => waiting[b] = 0 /\ pc'[b] \notin {"idle", "done"}
    PROVE  WaitersWillBeWoken'
    BY DEF WaitersWillBeWoken, InFlight, TypeOK, Accesses

LEMMA BlockersOlder ==
    ASSUME NEW a \in Accesses, NEW b \in Blockers(a)
    PROVE  b \in Accesses /\ b < a /\ InFlight(b)
    BY DEF Blockers, FirstNonEmpty, OlderAlloc, OlderWrite, OlderSameBlock, Youngest,
           OfType, Older

LEMMA WaitersStep ==
    ASSUME TypeOK, IssuedInOrder, PendingCountsReads, PortsWellUsed, WaitersWillBeWoken, Next
    PROVE  WaitersWillBeWoken'
<1>0. \A b \in Accesses : pc[b] # "lock" => waiting[b] = 0
    BY DEF WaitersWillBeWoken
<1>1. ASSUME NEW x \in Addrs, NEW t \in AccessTypes, Issue(x, t)
      PROVE  WaitersWillBeWoken'
    BY <1>0, <1>1, WaitersKept DEF Issue, Goto, IssuedInOrder, TypeOK, Accesses
<1>2. ASSUME NEW a \in Accesses, LockWait(a)
      PROVE  WaitersWillBeWoken'
    BY <1>2, BlockersOlder DEF LockWait, WaitersWillBeWoken, InFlight, TypeOK, Accesses
<1>3. ASSUME NEW a \in Accesses, Passes(a) \/ Moves(a)
      PROVE  WaitersWillBeWoken'
    BY <1>0, <1>3, WaitersKept DEF Passes, Moves, Quiet, Running, TypeOK
<1>4. ASSUME NEW a \in Accesses, Finish(a)
      PROVE  WaitersWillBeWoken'
    BY <1>4 DEF Finish, Goto, WaitersWillBeWoken, InFlight, TypeOK, Accesses
<1>5. ASSUME NEW a \in Accesses, FindAndLock(a) \/ FindAndLockPort(a)
      PROVE  WaitersWillBeWoken'
    BY <1>0, <1>5, WaitersKept DEF FindAndLock, FindAndLockPort, Goto, TypeOK
<1>6. ASSUME NEW a \in Accesses, FindAndLockAction(a)
      PROVE  WaitersWillBeWoken'
    BY <1>0, <1>6, WaitersKept, QueueWaits DEF FindAndLockAction, Goto, TypeOK
<1>7. ASSUME NEW a \in Accesses, AllocAction(a)
      PROVE  WaitersWillBeWoken'
    BY <1>0, <1>7, WaitersKept, AllocActionKind DEF TypeOK
<1>8. ASSUME NEW a \in Accesses, NEW i \in Reads, ReadStep(a, i)
      PROVE  WaitersWillBeWoken'
    BY <1>0, <1>8, WaitersKept, ReadStepKinds DEF TypeOK
<1> QED
    BY <1>1, <1>2, <1>3, <1>4, <1>5, <1>6, <1>7, <1>8, StepKinds
-----------------------------------------------------------------------------
\* The inductive invariant.
IInv ==
    /\ TypeOK
    /\ AllocTypesMatch
    /\ IssuedInOrder
    /\ PendingCountsReads
    /\ PortsWellUsed
    /\ WaitersWillBeWoken

LEMMA IInvInit == Init => IInv
<1> SUFFICES ASSUME Init PROVE IInv
    OBVIOUS
<1>1. TypeOK
    BY TypeInit
<1>2. AllocTypesMatch /\ IssuedInOrder /\ WaitersWillBeWoken
    BY AccessAssumption DEF Init, AllocTypesMatch, IssuedInOrder, WaitersWillBeWoken, AllocOps,
                            Accesses
<1>3. PendingCountsReads
    BY DEF Init, PendingCountsReads, Outstanding
<1>4. PortsWellUsed
    BY FS_EmptySet, AccessAssumption DEF Init, PortsWellUsed
<1> QED
    BY <1>1, <1>2, <1>3, <1>4 DEF IInv

LEMMA IInvStep == IInv /\ [Next]_vars => IInv'
<1> SUFFICES ASSUME IInv, [Next]_vars PROVE IInv'
    OBVIOUS
<1>1. CASE UNCHANGED vars
    <2>1. TypeOK'
        BY TypeStep DEF IInv
    <2>2. AllocTypesMatch' /\ IssuedInOrder'
        BY <1>1 DEF vars, IInv, AllocTypesMatch, IssuedInOrder
    <2>3. PendingCountsReads'
        BY <1>1, PendingKept DEF vars, IInv
    <2>4. PortsWellUsed'
        BY <1>1, PortsKept DEF vars, port, IInv
    <2>5. WaitersWillBeWoken'
        BY <1>1, WaitersKept DEF vars, IInv
    <2> QED
        BY <2>1, <2>2, <2>3, <2>4, <2>5 DEF IInv
<1>2. CASE Next
    BY <1>2, TypeStep, IssueStep, PendingStep, PortsStep, WaitersStep DEF IInv
<1> QED
    BY <1>1, <1>2

THEOREM Invariant == Spec => []IInv
    BY IInvInit, IInvStep, PTL DEF Spec

\* The counter of every allocation with read is exact.
THEOREM PendingExact == Spec => []PendingCountsReads
<1>1. IInv => PendingCountsReads
    BY DEF IInv
<1> QED
    BY <1>1, Invariant, PTL

\* No port is lost, given twice, or kept from an access that waits for one.
THEOREM PortsExact == Spec => []PortsWellUsed
<1>1. IInv => PortsWellUsed
    BY DEF IInv
<1> QED
    BY <1>1, Invariant, PTL

\* No wake-up is lost.
THEOREM NoLostWakeup == Spec => []WaitersWillBeWoken
<1>1. IInv => WaitersWillBeWoken
    BY DEF IInv
<1> QED
    BY <1>1, Invariant, PTL
-----------------------------------------------------------------------------
(* The counters of the callers. *)

\* CompletionSignalledOnce, and that an access not yet issued has counted nothing,
\* whatever type it will have.
Counted ==
    /\ CompletionSignalledOnce
    /\ \A a \in Accesses : pc[a] = "idle" => witness[a] = 0

\* A step that counts nothing.
LEMMA CountedKept ==
    ASSUME Counted, UNCHANGED <<type, witness>>,
           \A b \in Accesses : pc'[b] = "done" <=> pc[b] = "done",
           \A b \in Accesses : pc'[b] = "idle" <=> pc[b] = "idle"
    PROVE  Counted'
    BY DEF Counted, CompletionSignalledOnce

LEMMA CountedStep ==
    ASSUME IInv, Counted, Next
    PROVE  Counted'
<1>0. TypeOK /\ IssuedInOrder /\ PendingCountsReads /\ PortsWellUsed
    BY DEF IInv
<1>1. ASSUME NEW x \in Addrs, NEW t \in AccessTypes, Issue(x, t)
      PROVE  Counted'
    BY <1>0, <1>1 DEF Issue, Goto, IssuedInOrder, TypeOK, Counted,
                      CompletionSignalledOnce, Accesses
<1>2. ASSUME NEW a \in Accesses, Finish(a)
      PROVE  Counted'
    BY <1>0, <1>2 DEF Finish, Goto, TypeOK, Counted, CompletionSignalledOnce, program
<1>3. ASSUME NEW a \in Accesses, FindAndLockPort(a)
      PROVE  Counted'
    BY <1>0, <1>3 DEF FindAndLockPort, Goto, TypeOK, Counted, CompletionSignalledOnce,
                      program
<1>4. ASSUME NEW a \in Accesses, LockWait(a) \/ Lock(a) \/ FindAndLock(a)
      PROVE  Counted'
    BY <1>0, <1>4, CountedKept DEF LockWait, Lock, LoadLock, StoreLock, AllocLock,
                                   DeallocLock, FindAndLock, Goto, TypeOK, program
<1>5. ASSUME NEW a \in Accesses, FindAndLockAction(a)
      PROVE  Counted'
    BY <1>0, <1>5, CountedKept, QueueWaits DEF FindAndLockAction, Goto, TypeOK, program
<1>6. ASSUME NEW a \in Accesses,
             \/ FindAndLockFinish(a) \/ LoadAction(a) \/ StoreAction(a)
             \/ DeallocAction(a) \/ Unlock(a)
      PROVE  Counted'
    BY <1>0, <1>6, CountedKept DEF FindAndLockFinish, LoadAction, StoreAction,
                                   DeallocAction, Unlock, Goto, TypeOK, program
<1>7. ASSUME NEW a \in Accesses, AllocAction(a)
      PROVE  Counted'
    BY <1>0, <1>7, CountedKept, AllocActionKind DEF AllocAction, TypeOK, program
<1>8. ASSUME NEW a \in Accesses, AllocProcessNoRead(a)
      PROVE  Counted'
    BY <1>0, <1>8, CountedKept DEF AllocProcessNoRead, AllocProcess, Goto, TypeOK, program
<1>9. ASSUME NEW a \in Accesses, NEW i \in Reads, ReadStep(a, i)
      PROVE  Counted'
  <2>1. UNCHANGED <<type, witness>>
      BY <1>9 DEF ReadStep, ReadRequest, ServeRead, RefuseRead, AllocProcessRead,
                  AllocProcess, program
  <2> QED
      BY <2>1, <1>0, <1>9, CountedKept, ReadStepKinds DEF TypeOK
<1> QED
    BY <1>1, <1>2, <1>3, <1>4, <1>5, <1>6, <1>7, <1>8, <1>9 DEF Next, Step

\* Every access but a store increments its caller's counter once, when it ends,
\* over every history of suspensions, retries and refused requests.
THEOREM CompletedOnce == Spec => []CompletionSignalledOnce
<1>1. Init => Counted
    BY DEF Init, Counted, CompletionSignalledOnce
<1>2. IInv /\ Counted /\ [Next]_vars => Counted'
  <2>1. IInv /\ Counted /\ Next => Counted'
      BY CountedStep
  <2>2. Counted /\ UNCHANGED vars => Counted'
      BY DEF vars, Counted, CompletionSignalledOnce
  <2> QED
      BY <2>1, <2>2
<1>3. Counted => CompletionSignalledOnce
    BY DEF Counted
<1> QED
    BY <1>1, <1>2, <1>3, Invariant, PTL DEF Spec
-----------------------------------------------------------------------------
(* The refinement of AccessOrder. *)

\* A set of accesses that is not empty has a youngest member, so a rule that
\* waits for the youngest one of a kind waits for all of them.
LEMMA YoungestExists ==
    ASSUME NEW S \in SUBSET Accesses, Youngest(S) = {}
    PROVE  S = {}
<1> SUFFICES ASSUME S # {} PROVE FALSE
    OBVIOUS
<1> DEFINE Above(x) == {y \in S : y > x}
           T == {Above(x) : x \in S}
<1>1. IsFiniteSet(S)
    <2>1. IsFiniteSet(Accesses)
        BY FS_Interval, AccessAssumption DEF Accesses
    <2> QED
        BY <2>1, FS_Subset
<1>2. IsWellFoundedOn(StrictSubsetOrdering(S), FiniteSubsetsOf(S))
    BY FS_StrictSubsetOrderingWellFounded
<1>3. T \subseteq FiniteSubsetsOf(S) /\ T # {}
    <2>1. ASSUME NEW x \in S
          PROVE  Above(x) \in SUBSET S /\ IsFiniteSet(Above(x))
        BY <1>1, FS_Subset
    <2> QED
        BY <2>1 DEF FiniteSubsetsOf
<1>4. PICK A \in T : \A B \in T : ~(<<B, A>> \in StrictSubsetOrdering(S))
    BY <1>2, <1>3, WFMin, Zenon
<1>5. PICK x \in S : A = Above(x)
    BY <1>4
<1>6. ASSUME NEW y \in S, y > x PROVE FALSE
    <2>1. Above(y) \subseteq Above(x) /\ Above(y) # Above(x)
        <3>1. x \in Int /\ y \in Int /\ y > x /\ \A z \in S : z \in Int
            BY <1>6, AccessAssumption DEF Accesses
        <3>2. y \in Above(x) /\ y \notin Above(y)
            BY <3>1
        <3>3. ASSUME NEW z \in Above(y) PROVE z \in Above(x)
            <4>1. z \in S /\ z > y
                OBVIOUS
            <4> QED
                BY <3>1, <4>1
        <3> QED
            BY <3>2, <3>3
    <2>2. <<Above(y), Above(x)>> \in StrictSubsetOrdering(S)
        BY <2>1 DEF StrictSubsetOrdering
    <2> QED
        BY <1>4, <1>5, <2>2
<1>7. \A y \in S : y <= x
    BY <1>6, AccessAssumption DEF Accesses
<1> QED
    BY <1>5, <1>7 DEF Youngest

\* The lock events let an access pass only if the promised order does.
LEMMA NoBlockersMayStart ==
    ASSUME TypeOK, NEW a \in Accesses, Blockers(a) = {}
    PROVE  Order!MayStart(a)
<1>1. CASE type[a] = "Store"
    <2>1. Older(a) = {}
        BY <1>1, YoungestExists DEF Blockers, Older
    <2> QED
        BY <2>1 DEF Order!MayStart, Order!Older, Order!InFlight, Order!Accesses, Older,
                    InFlight, Status, Accesses
<1>2. CASE type[a] # "Store"
    <2>1. OlderWrite(a) = {} /\ OlderSameBlock(a) = {}
        BY <1>2 DEF Blockers, FirstNonEmpty
    <2>2. OfType(Older(a), {"Store"}) = {}
        BY <2>1, YoungestExists DEF OlderWrite, OfType, Older
    <2>3. type[a] = "Load" => OfType(Older(a), AllocOps) = {}
        BY <1>2, YoungestExists DEF Blockers, FirstNonEmpty, OlderAlloc, OfType, Older
    <2>4. \A b \in Older(a) : /\ type[b] # "Store" /\ ~SameBlock(a, b)
                              /\ type[a] = "Load" => type[b] \notin AllocOps
        BY <2>1, <2>2, <2>3 DEF OlderSameBlock, OfType
    <2> QED
        BY <1>2, <2>4 DEF Order!MayStart, Order!Older, Order!InFlight, Order!Accesses, Older,
                          InFlight, Status, Accesses, SameBlock
<1> QED
    BY <1>1, <1>2

LEMMA OrderInit == Init => Order!Init
    BY DEF Init, Order!Init, Order!Accesses, Accesses, Status

LEMMA OrderStep ==
    ASSUME IInv, [Next]_vars
    PROVE  [Order!Next]_Order!vars
<1> USE DEF Order!Accesses, Accesses
<1>0. TypeOK /\ IssuedInOrder /\ PendingCountsReads /\ PortsWellUsed /\ WaitersWillBeWoken
    BY DEF IInv
<1>1. ASSUME UNCHANGED <<type, addr>>, \A b \in Accesses : Status(b)' = Status(b)
      PROVE  UNCHANGED Order!vars
    BY <1>1 DEF Order!vars
<1>2. CASE UNCHANGED vars
    BY <1>1, <1>2 DEF vars, Status
<1>3. ASSUME NEW x \in Addrs, NEW t \in AccessTypes, Issue(x, t)
      PROVE  \E n \in Accesses : Order!Issue(n)
    <2>0. issued + 1 \in Accesses /\ issued' = issued + 1
        BY <1>0, <1>3, AccessAssumption DEF Issue, TypeOK
    <2>1. PICK n \in Accesses : n = issued + 1 /\ issued' = n
        BY <2>0
    <2>2. /\ pc' = [pc EXCEPT ![n] = "lock"]
          /\ type' = [type EXCEPT ![n] = t]
          /\ addr' = [addr EXCEPT ![n] = x]
        BY <1>3, <2>1 DEF Issue, Goto
    <2>3. \A b \in Accesses : pc[b] = "idle" <=> b >= n
        BY <1>0, <2>1, AccessAssumption DEF IssuedInOrder, TypeOK
    <2>4. \A b \in Accesses : Status(b) = "idle" <=> b >= n
        BY <2>3 DEF Status
    <2>5. Status(n)' = "queued" /\ \A b \in Accesses \ {n} : Status(b)' = Status(b)
        <3>1. pc'[n] = "lock" /\ \A b \in Accesses \ {n} : pc'[b] = pc[b]
            BY <1>0, <2>1, <2>2 DEF TypeOK
        <3> QED
            BY <3>1 DEF Status
    <2>6. \A b \in Accesses \ {n} : type'[b] = type[b] /\ addr'[b] = addr[b]
        BY <1>0, <2>2 DEF TypeOK
    <2>7. Order!Issue(n)
        <3>1. n >= n
            BY <2>1, AccessAssumption
        <3>2. Status(n) = "idle"
            BY <2>1, <2>4, <3>1
        <3>3. [b \in Accesses |-> Status(b)]' = [[b \in Accesses |-> Status(b)] EXCEPT ![n] = "queued"]
            BY <2>1, <2>5
        <3> QED
            BY <2>1, <2>4, <2>6, <3>2, <3>3 DEF Order!Issue
    <2> QED
        BY <2>7
<1>4. ASSUME NEW a \in Accesses, Passes(a)
      PROVE  Order!Start(a)
    <2>1. Status(a) = "queued" /\ Status(a)' = "running"
        BY <1>0, <1>4 DEF Passes, Quiet, Running, Status, TypeOK
    <2>2. \A b \in Accesses \ {a} : Status(b)' = Status(b)
        BY <1>0, <1>4 DEF Passes, Status, TypeOK
    <2>3. UNCHANGED <<type, addr>>
        BY <1>4 DEF Passes, program
    <2>4. Order!MayStart(a)
        BY <1>0, <1>4, NoBlockersMayStart DEF Passes
    <2> QED
        BY <2>1, <2>2, <2>3, <2>4 DEF Order!Start
<1>5. ASSUME NEW a \in Accesses, UNCHANGED <<type, addr>>, Status(a) = "running",
             Status(a)' \in {"running", "queued"},
             \A b \in Accesses \ {a} : Status(b)' = Status(b)
      PROVE  Order!Retry(a) \/ UNCHANGED Order!vars
    <2>1. CASE Status(a)' = "running"
        BY <1>1, <1>5, <2>1
    <2>2. CASE Status(a)' = "queued"
        BY <1>5, <2>2 DEF Order!Retry
    <2> QED
        BY <1>5, <2>1, <2>2
<1>6. ASSUME NEW a \in Accesses, Moves(a)
      PROVE  Order!Retry(a) \/ UNCHANGED Order!vars
    <2>1. Status(a) = "running" /\ Status(a)' \in {"running", "queued"}
        BY <1>0, <1>6 DEF Moves, Quiet, Running, Status, TypeOK
    <2>2. \A b \in Accesses \ {a} : Status(b)' = Status(b)
        BY <1>0, <1>6 DEF Moves, Status, TypeOK
    <2> QED
        BY <1>5, <1>6, <2>1, <2>2 DEF Moves, program
<1>7. ASSUME NEW a \in Accesses, NEW i \in Reads, ReadStep(a, i)
      PROVE  Order!Retry(a) \/ UNCHANGED Order!vars
    <2>1. Status(a) = "running" /\ Status(a)' \in {"running", "queued"}
        BY <1>0, <1>7, ReadStepKinds DEF Status, TypeOK
    <2>2. \A b \in Accesses \ {a} : Status(b)' = Status(b)
        BY <1>0, <1>7, ReadStepKinds DEF Status, TypeOK
    <2> QED
        BY <1>0, <1>5, <1>7, <2>1, <2>2, ReadStepKinds DEF program
<1>8. ASSUME NEW a \in Accesses, Finish(a)
      PROVE  Order!End(a)
    <2>1. Status(a) = "running" /\ Status(a)' = "done"
        BY <1>0, <1>8 DEF Finish, Goto, Status, TypeOK
    <2>2. \A b \in Accesses \ {a} : Status(b)' = Status(b)
        BY <1>0, <1>8 DEF Finish, Goto, Status, TypeOK
    <2> QED
        BY <1>8, <2>1, <2>2 DEF Finish, program, Order!End
<1>9. ASSUME NEW a \in Accesses, LockWait(a)
      PROVE  UNCHANGED Order!vars
    BY <1>1, <1>9 DEF LockWait, program, Status
<1>10. ASSUME NEW a \in Accesses, FindAndLock(a) \/ FindAndLockPort(a)
      PROVE  UNCHANGED Order!vars
    BY <1>0, <1>1, <1>10 DEF FindAndLock, FindAndLockPort, Goto, program, Status, TypeOK
<1>11. ASSUME NEW a \in Accesses, FindAndLockAction(a)
      PROVE  UNCHANGED Order!vars
    BY <1>0, <1>1, <1>11, QueueWaits DEF FindAndLockAction, Goto, program, Status, TypeOK
<1>12. ASSUME NEW a \in Accesses, AllocAction(a)
       PROVE  UNCHANGED Order!vars
    BY <1>0, <1>1, <1>12, AllocActionKind DEF program, Status, TypeOK
<1>13. ASSUME NEW a \in Accesses, Order!Issue(a) \/ Order!Start(a) \/ Order!Retry(a) \/ Order!End(a)
       PROVE  Order!Next
    BY <1>13 DEF Order!Next
<1>14. CASE Next
    <2>1. CASE \E x \in Addrs, t \in AccessTypes : Issue(x, t)
        <3>1. PICK x \in Addrs, t \in AccessTypes : Issue(x, t)
            BY <2>1
        <3> QED
            BY <1>3, <1>13, <3>1
    <2>2. ASSUME NEW a \in Accesses, Passes(a) \/ Finish(a)
          PROVE  Order!Next
        BY <1>4, <1>8, <1>13, <2>2
    <2>3. ASSUME NEW a \in Accesses, Moves(a) \/ \E i \in Reads : ReadStep(a, i)
          PROVE  Order!Next \/ UNCHANGED Order!vars
        BY <1>6, <1>7, <1>13, <2>3
    <2>4. ASSUME NEW a \in Accesses, \/ LockWait(a) \/ FindAndLock(a) \/ FindAndLockPort(a)
                                    \/ FindAndLockAction(a) \/ AllocAction(a)
          PROVE  UNCHANGED Order!vars
        BY <1>9, <1>10, <1>11, <1>12, <2>4
    <2> QED
        BY <1>0, <1>14, <2>1, <2>2, <2>3, <2>4, StepKinds
<1> QED
    BY <1>2, <1>14

\* The event chains implement the promised order of accesses.
THEOREM Implementation == Spec => ImplementsAccessOrder
<1>1. IInv /\ [Next]_vars => [Order!Next]_Order!vars
    BY OrderStep
<1> QED
    BY <1>1, OrderInit, Invariant, PTL DEF Spec, ImplementsAccessOrder, Order!Spec

\* Accesses that conflict run one after the other, in the order of issue: the
\* theorem of AccessOrder, of the chains that implement it.
THEOREM Serialized == Spec => []Order!ConflictsAreSerialized
<1>1. MaxAccesses \in Nat
    BY AccessAssumption
<1>2. Order!Spec => []Order!ConflictsAreSerialized
    BY <1>1, Order!Serialized
<1> QED
    BY <1>2, Implementation, PTL DEF ImplementsAccessOrder

\* A store has the module to itself: from the time it passes store_lock until
\* FinishAccess, every other access in flight is younger and has not passed its
\* own lock event.  This rests on three different waits (a store on its
\* predecessor, loads and allocations and deallocations on older stores) and
\* on the order of the access list.
StoreRunsAlone ==
    \A a, b \in Accesses :
        Started(a) /\ type[a] = "Store" /\ InFlight(b) /\ a # b
            => a < b /\ pc[b] = "lock"

\* A load that has passed load_lock never runs while an allocation that was
\* issued before it is still in flight, not even one that went back to
\* alloc_lock because main memory refused a request.
LoadAfterAllocation ==
    \A a, b \in Accesses :
        Started(a) /\ type[a] = "Load" /\ b < a /\ type[b] \in AllocOps
            => ~InFlight(b)

\* Accesses to one block address run one at a time, in the order of issue.
SameBlockInOrder ==
    \A a, b \in Accesses :
        Started(a) /\ b < a /\ SameBlock(a, b) => ~InFlight(b)

\* A store that has started has the module to itself.
THEOREM StoreAlone == Spec => []StoreRunsAlone
<1>1. Order!ConflictsAreSerialized => StoreRunsAlone
    BY DEF Order!ConflictsAreSerialized, StoreRunsAlone, Order!Older, Order!InFlight,
           Order!Accesses, Accesses, Started, InFlight, Status
<1> QED
    BY <1>1, Serialized, PTL

\* A load that has started has no older allocation in flight.
THEOREM LoadsAfterAllocations == Spec => []LoadAfterAllocation
<1>1. Order!ConflictsAreSerialized => LoadAfterAllocation
    BY DEF Order!ConflictsAreSerialized, LoadAfterAllocation, Order!Older, Order!InFlight,
           Order!Accesses, Accesses, Started, InFlight, Status
<1> QED
    BY <1>1, Serialized, PTL

\* Accesses to one block run one at a time, in the order of issue.
THEOREM SameBlocksInOrder == Spec => []SameBlockInOrder
<1>1. Order!ConflictsAreSerialized => SameBlockInOrder
    BY DEF Order!ConflictsAreSerialized, SameBlockInOrder, Order!Older, Order!InFlight,
           Order!Accesses, Accesses, Started, InFlight, Status, SameBlock
<1> QED
    BY <1>1, Serialized, PTL
-----------------------------------------------------------------------------
(* Stores find their blocks, in a program that allocates an entry once. *)

\* What the accesses a program has issued owe to ProgramMayIssue: what is held
\* has been allocated, an access other than an allocation comes after the
\* allocation of its entry, and nothing comes after the deallocation of it.
ProgramOrder ==
    /\ \A h \in held :
          /\ h.ref \in used
          /\ \E b \in Accesses : b <= issued /\ type[b] \in AllocOps /\ addr[b].ref = h.ref
    /\ \A a \in Accesses :
          a <= issued /\ type[a] \notin AllocOps =>
             \E b \in Accesses : b < a /\ type[b] \in AllocOps /\ addr[b].ref = addr[a].ref
    /\ \A d \in Accesses :
          d <= issued /\ type[d] \in DeallocOps =>
             /\ addr[d].ref \in used
             /\ \A h \in held : h.ref # addr[d].ref
             /\ \A b \in Accesses : d < b /\ b <= issued => addr[b].ref # addr[d].ref

\* No access has passed its lock event before an older store that is in flight.
NothingOvertakesStores ==
    \A a, b \in Accesses :
        a < b /\ type[a] = "Store" /\ InFlight(a) => pc[b] \in {"idle", "lock"}

\* Only allocations run the events of the read phase.
AllocationsRead == \A a \in Accesses : pc[a] \in {"process", "reading"} => type[a] \in AllocOps

\* The access has done what it does to the directory.
Past(a) == pc[a] \in {"unlock", "finish", "done"}

\* A block that was allocated, and whose entry nothing has deallocated, is there.
BlocksPresent ==
    \A b \in Accesses :
        (/\ type[b] \in AllocOps /\ Past(b)
         /\ \A d \in Accesses : type[d] \in DeallocOps /\ Past(d) => addr[d].ref # addr[b].ref)
        => FindBlock(addr[b])

LEMMA ProgramOrderIssue ==
    ASSUME TypeOK, ProgramOrder, ~Reuse,
           NEW x \in Addrs, NEW t \in AccessTypes, Issue(x, t)
    PROVE  ProgramOrder'
<1>0. issued \in Nat /\ issued + 1 \in Accesses
    BY AccessAssumption DEF Issue, TypeOK, Accesses
<1> DEFINE n == issued + 1
<1>1. /\ issued' = n /\ n \in Accesses
      /\ type'[n] = t /\ addr'[n] = x
      /\ \A b \in Accesses \ {n} : type'[b] = type[b] /\ addr'[b] = addr[b]
    BY <1>0 DEF Issue, TypeOK
<1>2. \A b \in Accesses : /\ b <= n <=> b <= issued \/ b = n
                          /\ b <= issued => b # n /\ b < n
                          /\ b < n => b <= issued
    BY <1>0 DEF Accesses
<1>3. /\ t \in AllocOps => held' = held \cup {x} /\ used' = used \cup {x.ref} /\ x.ref \notin used
      /\ t \in DeallocOps => held' = {h \in held : h.ref # x.ref}
      /\ t \notin AllocOps => held' \subseteq held /\ used' = used
      /\ t \notin AllocOps => \E h \in held : h.ref = x.ref
    BY DEF Issue, ProgramMayIssue, AccessTypes, AllocOps, DeallocOps
<1>4. t \in DeallocOps => t \notin AllocOps
    BY DEF AllocOps, DeallocOps
<1> HIDE DEF n
<1>5. ASSUME NEW h \in held'
      PROVE  /\ h.ref \in used'
             /\ \E b \in Accesses : b <= issued' /\ type'[b] \in AllocOps /\ addr'[b].ref = h.ref
    <2>1. CASE h \in held
        <3>1. PICK b \in Accesses : b <= issued /\ type[b] \in AllocOps /\ addr[b].ref = h.ref
            BY <2>1 DEF ProgramOrder
        <3>2. h.ref \in used /\ used \subseteq used'
            BY <1>3, <2>1 DEF ProgramOrder
        <3> QED
            BY <1>1, <1>2, <3>1, <3>2
    <2>2. CASE h \notin held
        <3>1. t \in AllocOps /\ h = x
            BY <1>3, <2>2
        <3> QED
            BY <1>1, <1>2, <1>3, <3>1
    <2> QED
        BY <2>1, <2>2
<1>6. ASSUME NEW a \in Accesses, a <= issued', type'[a] \notin AllocOps
      PROVE  \E b \in Accesses : b < a /\ type'[b] \in AllocOps /\ addr'[b].ref = addr'[a].ref
    <2>1. CASE a = n
        <3>1. PICK h \in held : h.ref = x.ref
            BY <1>1, <1>3, <1>6, <2>1
        <3>2. PICK b \in Accesses : b <= issued /\ type[b] \in AllocOps /\ addr[b].ref = h.ref
            BY DEF ProgramOrder
        <3> QED
            BY <1>1, <1>2, <2>1, <3>1, <3>2
    <2>2. CASE a # n
        <3>1. a <= issued /\ type[a] \notin AllocOps
            BY <1>1, <1>2, <1>6, <2>2
        <3>2. PICK b \in Accesses : b < a /\ type[b] \in AllocOps /\ addr[b].ref = addr[a].ref
            BY <3>1 DEF ProgramOrder
        <3>3. b # n
            BY <1>0, <3>1, <3>2 DEF Accesses, n
        <3> QED
            BY <1>1, <2>2, <3>2, <3>3
    <2> QED
        BY <2>1, <2>2
<1>7. ASSUME NEW d \in Accesses, d <= issued', type'[d] \in DeallocOps
      PROVE  /\ addr'[d].ref \in used'
             /\ \A h \in held' : h.ref # addr'[d].ref
             /\ \A b \in Accesses : d < b /\ b <= issued' => addr'[b].ref # addr'[d].ref
    <2>1. CASE d = n
        <3>1. PICK h \in held : h.ref = x.ref
            BY <1>1, <1>3, <1>4, <1>7, <2>1
        <3>2. x.ref \in used'
            BY <1>1, <1>3, <1>4, <1>7, <2>1, <3>1 DEF ProgramOrder
        <3>3. \A b \in Accesses : ~(d < b /\ b <= issued')
            BY <1>0, <1>1, <2>1 DEF n, Accesses
        <3> QED
            BY <1>1, <1>3, <1>7, <2>1, <3>2, <3>3
    <2>2. CASE d # n
        <3>1. /\ d <= issued /\ addr'[d] = addr[d]
              /\ addr[d].ref \in used
              /\ \A h \in held : h.ref # addr[d].ref
              /\ \A b \in Accesses : d < b /\ b <= issued => addr[b].ref # addr[d].ref
            BY <1>1, <1>2, <1>7, <2>2 DEF ProgramOrder
        <3>2. x.ref # addr[d].ref
            BY <1>3, <3>1
        <3>3. addr[d].ref \in used' /\ \A h \in held' : h.ref # addr[d].ref
            BY <1>3, <3>1, <3>2
        <3>4. ASSUME NEW b \in Accesses, d < b, b <= issued'
              PROVE  addr'[b].ref # addr[d].ref
            BY <1>1, <1>2, <3>1, <3>2, <3>4
        <3> QED
            BY <3>1, <3>3, <3>4
    <2> QED
        BY <2>1, <2>2
<1> QED
    BY <1>5, <1>6, <1>7 DEF ProgramOrder

LEMMA ProgramOrderStep ==
    ASSUME TypeOK, ProgramOrder, ~Reuse, Next
    PROVE  ProgramOrder'
<1>1. UNCHANGED program => ProgramOrder'
    BY DEF ProgramOrder, program
<1>2. ASSUME NEW a \in Accesses, Step(a)
      PROVE  UNCHANGED program
    BY <1>2 DEF Step, LockWait, Lock, LoadLock, StoreLock, AllocLock, DeallocLock,
        FindAndLock, FindAndLockPort, FindAndLockAction, FindAndLockFinish, LoadAction,
        StoreAction, AllocAction, DeallocAction, AllocProcessNoRead, AllocProcess, Unlock,
        Finish, program
<1>3. ASSUME NEW a \in Accesses, NEW i \in Reads, ReadStep(a, i)
      PROVE  UNCHANGED program
    BY <1>3 DEF ReadStep, ReadRequest, ServeRead, RefuseRead, AllocProcessRead,
        AllocProcess, program
<1> QED
    BY <1>1, <1>2, <1>3, ProgramOrderIssue DEF Next
-----------------------------------------------------------------------------
\* A step that adds nothing to the accesses in flight, or to those that have
\* passed their lock events.
LEMMA OvertakesKept ==
    ASSUME NothingOvertakesStores, UNCHANGED type,
           \A b \in Accesses : pc[b] \in {"idle", "done"} => pc'[b] \in {"idle", "done"},
           \A b \in Accesses : pc[b] \in {"idle", "lock"} => pc'[b] \in {"idle", "lock"}
    PROVE  NothingOvertakesStores'
    BY DEF NothingOvertakesStores, InFlight

LEMMA OvertakesStep ==
    ASSUME IInv, NothingOvertakesStores, Next
    PROVE  NothingOvertakesStores'
<1>0. TypeOK /\ IssuedInOrder /\ PendingCountsReads /\ PortsWellUsed
    BY DEF IInv
<1>1. ASSUME NEW x \in Addrs, NEW t \in AccessTypes, Issue(x, t)
      PROVE  NothingOvertakesStores'
    <2>0. issued + 1 \in Accesses
        BY <1>0, <1>1, AccessAssumption DEF Issue, TypeOK, Accesses
    <2>1. PICK n \in Accesses : n = issued + 1
        BY <2>0
    <2>2. /\ pc'[n] = "lock"
          /\ \A b \in Accesses \ {n} : pc'[b] = pc[b] /\ type'[b] = type[b]
        BY <1>0, <1>1, <2>1 DEF Issue, Goto, TypeOK
    <2>3. \A b \in Accesses : n < b => pc[b] = "idle"
        BY <1>0, <2>1 DEF IssuedInOrder, TypeOK, Accesses
    <2> SUFFICES ASSUME NEW a \in Accesses, NEW b \in Accesses,
                        a < b, type'[a] = "Store", pc'[a] \notin {"idle", "done"}
                 PROVE  pc'[b] \in {"idle", "lock"}
        BY DEF NothingOvertakesStores, InFlight
    <2>4. CASE b = n
        BY <2>2, <2>4
    <2>5. CASE b # n /\ a = n
        BY <2>2, <2>3, <2>5
    <2>6. CASE b # n /\ a # n
        BY <2>2, <2>6 DEF NothingOvertakesStores, InFlight
    <2> QED
        BY <2>4, <2>5, <2>6
<1>2. ASSUME NEW a \in Accesses, LockWait(a) \/ Moves(a) \/ Finish(a)
      PROVE  NothingOvertakesStores'
    BY <1>0, <1>2, OvertakesKept DEF LockWait, Moves, Finish, Goto, Quiet, Running, TypeOK,
                                     program
<1>3. ASSUME NEW a \in Accesses, Passes(a)
      PROVE  NothingOvertakesStores'
    <2>1. OfType(Older(a), {"Store"}) = {}
        <3>1. CASE type[a] = "Store"
            <4>1. Older(a) = {}
                BY <1>3, <3>1, YoungestExists DEF Passes, Blockers, Older
            <4> QED
                BY <4>1 DEF OfType
        <3>2. CASE type[a] # "Store"
            <4>1. OlderWrite(a) = {}
                BY <1>3, <3>2 DEF Passes, Blockers, FirstNonEmpty
            <4> QED
                BY <4>1, YoungestExists DEF OlderWrite, OfType, Older
        <3> QED
            BY <3>1, <3>2
    <2>2. \A b \in Accesses : b < a /\ InFlight(b) => type[b] # "Store"
        BY <2>1 DEF OfType, Older
    <2>3. /\ \A b \in Accesses \ {a} : pc'[b] = pc[b]
          /\ InFlight(a)
          /\ UNCHANGED type
        BY <1>0, <1>3 DEF Passes, InFlight, TypeOK, program
    <2> QED
        BY <2>2, <2>3 DEF NothingOvertakesStores, InFlight
<1>4. ASSUME NEW a \in Accesses, FindAndLock(a) \/ FindAndLockPort(a)
      PROVE  NothingOvertakesStores'
    BY <1>0, <1>4, OvertakesKept DEF FindAndLock, FindAndLockPort, Goto, TypeOK, program
<1>5. ASSUME NEW a \in Accesses, FindAndLockAction(a)
      PROVE  NothingOvertakesStores'
    BY <1>0, <1>5, OvertakesKept, QueueWaits DEF FindAndLockAction, Goto, TypeOK, program
<1>6. ASSUME NEW a \in Accesses, AllocAction(a)
      PROVE  NothingOvertakesStores'
    BY <1>0, <1>6, OvertakesKept, AllocActionKind DEF TypeOK, program
<1>7. ASSUME NEW a \in Accesses, NEW i \in Reads, ReadStep(a, i)
      PROVE  NothingOvertakesStores'
    BY <1>0, <1>7, OvertakesKept, ReadStepKinds DEF TypeOK, program
<1> QED
    BY <1>0, <1>1, <1>2, <1>3, <1>4, <1>5, <1>6, <1>7, StepKinds
-----------------------------------------------------------------------------
\* A step that starts no read phase and issues nothing.
LEMMA ReadersKept ==
    ASSUME AllocationsRead, UNCHANGED type,
           \A b \in Accesses : pc'[b] \in {"process", "reading"} => pc[b] \in {"process", "reading"}
    PROVE  AllocationsRead'
    BY DEF AllocationsRead

LEMMA ReadersStep ==
    ASSUME IInv, AllocationsRead, Next
    PROVE  AllocationsRead'
<1>0. TypeOK /\ PendingCountsReads /\ PortsWellUsed
    BY DEF IInv
<1>1. ASSUME NEW x \in Addrs, NEW t \in AccessTypes, Issue(x, t)
      PROVE  AllocationsRead'
    BY <1>0, <1>1 DEF Issue, Goto, TypeOK, AllocationsRead, Accesses
<1>2. ASSUME NEW a \in Accesses, LockWait(a) \/ Lock(a) \/ FindAndLock(a) \/ FindAndLockPort(a)
      PROVE  AllocationsRead'
    BY <1>0, <1>2, ReadersKept DEF LockWait, Lock, LoadLock, StoreLock, AllocLock,
                   DeallocLock, FindAndLock, FindAndLockPort, Goto, TypeOK, program
<1>3. ASSUME NEW a \in Accesses, FindAndLockAction(a)
      PROVE  AllocationsRead'
    BY <1>0, <1>3, ReadersKept, QueueWaits DEF FindAndLockAction, Goto, TypeOK, program
<1>4. ASSUME NEW a \in Accesses,
             \/ FindAndLockFinish(a) \/ LoadAction(a) \/ StoreAction(a)
             \/ DeallocAction(a) \/ Unlock(a) \/ Finish(a)
      PROVE  AllocationsRead'
    BY <1>0, <1>4, ReadersKept DEF FindAndLockFinish, LoadAction, StoreAction, DeallocAction,
                                   Unlock, Finish, Goto, TypeOK, program
<1>5. ASSUME NEW a \in Accesses, AllocAction(a)
      PROVE  AllocationsRead'
    <2>1. type[a] \in AllocOps /\ UNCHANGED type
        BY <1>5 DEF AllocAction, program
    <2>2. \A b \in Accesses \ {a} : pc'[b] = pc[b]
        BY <1>0, <1>5, AllocActionKind DEF TypeOK
    <2> QED
        BY <2>1, <2>2 DEF AllocationsRead
<1>6. ASSUME NEW a \in Accesses, AllocProcessNoRead(a)
      PROVE  AllocationsRead'
    BY <1>0, <1>6, ReadersKept DEF AllocProcessNoRead, AllocProcess, Goto, TypeOK, program
<1>7. ASSUME NEW a \in Accesses, NEW i \in Reads, ReadStep(a, i)
      PROVE  AllocationsRead'
    BY <1>0, <1>7, ReadersKept, ReadStepKinds DEF TypeOK, program
<1> QED
    BY <1>1, <1>2, <1>3, <1>4, <1>5, <1>6, <1>7 DEF Next, Step
-----------------------------------------------------------------------------
\* A step that leaves the directory alone, and after which no further access has
\* done its part.
LEMMA PresentKept ==
    ASSUME BlocksPresent, UNCHANGED LMDir,
           \A b \in Accesses : pc'[b] \in {"unlock", "finish", "done"}
                               <=> pc[b] \in {"unlock", "finish", "done"},
           \A b \in Accesses : Past(b) => type'[b] = type[b] /\ addr'[b] = addr[b]
    PROVE  BlocksPresent'
    BY DEF BlocksPresent, FindBlock, Slot, LMRef, Past

\* Two addresses name the same entry if their references are equal.
LEMMA SameSlot ==
    ASSUME TypeOK, NEW a \in Accesses, NEW b \in Accesses
    PROVE  /\ Slot(addr[a]) = Slot(addr[b]) <=> addr[a].ref = addr[b].ref
           /\ Slot(addr[a]) \in 0..(LMDirSize - 1)
<1>1. \A c \in Accesses : addr[c].ref \in Refs
    BY AccessAssumption, TableAssumption DEF TypeOK, NoAddr, Refs
<1> QED
    BY <1>1, AddressType DEF Slot, LMRef, Refs

LEMMA PresentAllocProcess ==
    ASSUME IInv, AllocationsRead, BlocksPresent, NEW a \in Accesses,
           pc[a] \in {"process", "reading"}, AllocProcess(a)
    PROVE  BlocksPresent'
<1>0. TypeOK /\ AllocTypesMatch
    BY DEF IInv
<1>1. UNCHANGED <<type, addr>> /\ type[a] \in AllocOps /\ addr[a].op \in AllocOps
    BY <1>0 DEF AllocProcess, program, AllocationsRead, AllocTypesMatch
<1>2. CASE frame[a].pending > 1 \/ frame[a].error
    <2>1. /\ UNCHANGED tables
          /\ pc' = pc \/ pc' = [pc EXCEPT ![a] = "lock"]
        BY <1>2 DEF AllocProcess, Goto
    <2> QED
        BY <1>0, <1>1, <2>1, PresentKept DEF TypeOK, tables
<1>3. CASE ~(frame[a].pending > 1 \/ frame[a].error)
    <2>1. pc' = [pc EXCEPT ![a] = "unlock"] /\ allocateBlock(addr[a])
        BY <1>3 DEF AllocProcess, Goto
    <2>2. LMDir' = [LMDir EXCEPT ![Slot(addr[a])] =
                       [LMBIndex |-> LMBIndex, BlockID |-> addr[a].id,
                        BlockSize |-> addr[a].size, state |-> "E"]]
        BY <1>1, <2>1 DEF allocateBlock
    <2> SUFFICES ASSUME NEW b \in Accesses, type[b] \in AllocOps,
                        pc'[b] \in {"unlock", "finish", "done"},
                        \A d \in Accesses : type[d] \in DeallocOps
                                            /\ pc'[d] \in {"unlock", "finish", "done"}
                                            => addr[d].ref # addr[b].ref
                 PROVE  LMDir'[Slot(addr[b])].state # "I"
        BY <1>1 DEF BlocksPresent, Past, FindBlock, Slot, LMRef
    <2>3. Slot(addr[b]) \in DOMAIN LMDir /\ Slot(addr[a]) \in DOMAIN LMDir
        BY <1>0, SameSlot DEF TypeOK, TablesTypeOK
    <2>4. CASE Slot(addr[b]) = Slot(addr[a])
        BY <2>2, <2>3, <2>4
    <2>5. CASE Slot(addr[b]) # Slot(addr[a])
        <3>1. Past(b) /\ \A d \in Accesses : Past(d) => pc'[d] \in {"unlock", "finish", "done"}
            BY <1>0, <2>1, <2>5 DEF Past, TypeOK
        <3>2. LMDir[Slot(addr[b])].state # "I"
            BY <3>1 DEF BlocksPresent, FindBlock
        <3> QED
            BY <2>2, <2>3, <2>5, <3>2
    <2> QED
        BY <2>4, <2>5
<1> QED
    BY <1>2, <1>3

LEMMA PresentStoreAction ==
    ASSUME TypeOK, BlocksPresent, NEW a \in Accesses, StoreAction(a)
    PROVE  BlocksPresent'
<1>1. UNCHANGED <<type, addr>> /\ type[a] = "Store" /\ pc[a] = "action"
    BY DEF StoreAction, program
<1>2. CASE frame[a].error
    <2>1. pc' = [pc EXCEPT ![a] = "lock"] /\ UNCHANGED tables
        BY <1>2 DEF StoreAction, Goto
    <2> QED
        BY <1>1, <2>1, PresentKept DEF TypeOK, tables
<1>3. CASE ~frame[a].error
    <2>1. /\ pc' = [pc EXCEPT ![a] = "unlock"]
          /\ LMDir' = [LMDir EXCEPT ![Slot(addr[a])].state = "M"]
        BY <1>3 DEF StoreAction, Goto, setBlockState
    <2>2. \A b \in Accesses : Slot(addr[b]) \in DOMAIN LMDir
        BY SameSlot DEF TypeOK, TablesTypeOK
    <2>3. \A b \in Accesses :
              LMDir[Slot(addr[b])].state # "I" => LMDir'[Slot(addr[b])].state # "I"
        BY <2>1, <2>2 DEF TypeOK, TablesTypeOK, DirEntry
    <2>4. \A b \in Accesses :
              type[b] \in AllocOps \cup DeallocOps =>
                 (pc'[b] \in {"unlock", "finish", "done"} <=> Past(b))
        BY <1>1, <2>1 DEF Past, TypeOK, AllocOps, DeallocOps
    <2> SUFFICES ASSUME NEW b \in Accesses, type[b] \in AllocOps,
                        pc'[b] \in {"unlock", "finish", "done"},
                        \A d \in Accesses : type[d] \in DeallocOps
                                            /\ pc'[d] \in {"unlock", "finish", "done"}
                                            => addr[d].ref # addr[b].ref
                 PROVE  LMDir'[Slot(addr[b])].state # "I"
        BY <1>1 DEF BlocksPresent, Past, FindBlock, Slot, LMRef
    <2> QED
        BY <2>3, <2>4 DEF BlocksPresent, FindBlock
<1> QED
    BY <1>2, <1>3

LEMMA PresentDeallocAction ==
    ASSUME TypeOK, BlocksPresent, NEW a \in Accesses, DeallocAction(a)
    PROVE  BlocksPresent'
<1>1. UNCHANGED <<type, addr>> /\ type[a] \in DeallocOps /\ pc[a] = "action"
    BY DEF DeallocAction, program
<1>2. /\ pc' = [pc EXCEPT ![a] = "unlock"]
      /\ LMDir' = [LMDir EXCEPT ![Slot(addr[a])].state = "I"]
    BY DEF DeallocAction, Goto, deallocateBlock
<1> SUFFICES ASSUME NEW b \in Accesses, type[b] \in AllocOps,
                    pc'[b] \in {"unlock", "finish", "done"},
                    \A d \in Accesses : type[d] \in DeallocOps
                                        /\ pc'[d] \in {"unlock", "finish", "done"}
                                        => addr[d].ref # addr[b].ref
             PROVE  LMDir'[Slot(addr[b])].state # "I"
    BY <1>1 DEF BlocksPresent, Past, FindBlock, Slot, LMRef
<1>3. Past(b) /\ \A d \in Accesses : Past(d) => pc'[d] \in {"unlock", "finish", "done"}
    BY <1>1, <1>2 DEF Past, TypeOK, AllocOps, DeallocOps
<1>4. LMDir[Slot(addr[b])].state # "I"
    BY <1>3 DEF BlocksPresent, FindBlock
<1>5. Slot(addr[b]) # Slot(addr[a])
    BY <1>1, <1>2, SameSlot DEF TypeOK
<1>6. Slot(addr[b]) \in DOMAIN LMDir
    BY SameSlot DEF TypeOK, TablesTypeOK
<1> QED
    BY <1>2, <1>4, <1>5, <1>6

LEMMA PresentStep ==
    ASSUME IInv, AllocationsRead, BlocksPresent, Next
    PROVE  BlocksPresent'
<1>0. TypeOK /\ IssuedInOrder /\ PendingCountsReads /\ PortsWellUsed
    BY DEF IInv
<1>1. ASSUME NEW x \in Addrs, NEW t \in AccessTypes, Issue(x, t)
      PROVE  BlocksPresent'
    <2>0. issued + 1 \in Accesses
        BY <1>0, <1>1, AccessAssumption DEF Issue, TypeOK, Accesses
    <2>1. PICK n \in Accesses : n = issued + 1
        BY <2>0
    <2>2. /\ pc'[n] = "lock"
          /\ \A b \in Accesses \ {n} : pc'[b] = pc[b] /\ type'[b] = type[b] /\ addr'[b] = addr[b]
          /\ UNCHANGED LMDir
        BY <1>0, <1>1, <2>1 DEF Issue, Goto, TypeOK, tables
    <2>3. pc[n] = "idle"
        BY <1>0, <2>1 DEF IssuedInOrder, TypeOK
    <2> QED
        BY <2>2, <2>3, PresentKept DEF Past
<1>2. ASSUME NEW a \in Accesses,
             \/ LockWait(a) \/ Lock(a) \/ FindAndLock(a) \/ FindAndLockPort(a)
             \/ FindAndLockFinish(a) \/ Unlock(a) \/ Finish(a)
      PROVE  BlocksPresent'
    BY <1>0, <1>2, PresentKept DEF LockWait, Lock, LoadLock, StoreLock, AllocLock,
                   DeallocLock, FindAndLock, FindAndLockPort, FindAndLockFinish, Unlock,
                   Finish, Goto, TypeOK, program, tables
<1>3. ASSUME NEW a \in Accesses, FindAndLockAction(a)
      PROVE  BlocksPresent'
    BY <1>0, <1>3, PresentKept, QueueWaits DEF FindAndLockAction, Goto, TypeOK, program, tables
<1>4. ASSUME NEW a \in Accesses, LoadAction(a)
      PROVE  BlocksPresent'
    <2>1. UNCHANGED <<type, addr, LMDir>> /\ type[a] = "Load"
        BY <1>4 DEF LoadAction, program, tables
    <2>2. \A b \in Accesses \ {a} : pc'[b] = pc[b]
        BY <1>0, <1>4 DEF LoadAction, Goto, TypeOK
    <2>3. \A b \in Accesses :
              type[b] \in AllocOps \cup DeallocOps => pc'[b] = pc[b]
        BY <2>1, <2>2 DEF AllocOps, DeallocOps
    <2> QED
        BY <2>1, <2>3 DEF BlocksPresent, Past, FindBlock, Slot, LMRef
<1>5. ASSUME NEW a \in Accesses, AllocAction(a)
      PROVE  BlocksPresent'
    <2>1. UNCHANGED LMDir
        BY <1>5 DEF AllocAction, tables
    <2> QED
        BY <1>0, <1>5, <2>1, PresentKept, AllocActionKind DEF TypeOK, program
<1>6. ASSUME NEW a \in Accesses, AllocProcessNoRead(a)
      PROVE  BlocksPresent'
    BY <1>6, PresentAllocProcess DEF AllocProcessNoRead
<1>7. ASSUME NEW a \in Accesses, NEW i \in Reads, ReadStep(a, i)
      PROVE  BlocksPresent'
    <2>1. CASE AllocProcessRead(a, i)
        <3>1. pc[a] = "reading"
            BY <1>0, <1>7, ReadStepKinds
        <3> QED
            BY <2>1, <3>1, PresentAllocProcess DEF AllocProcessRead
    <2>2. CASE ~AllocProcessRead(a, i)
        BY <1>7, <2>2, PresentKept DEF ReadStep, ReadRequest, ServeRead, RefuseRead, program,
                                       tables
    <2> QED
        BY <2>1, <2>2
<1> QED
    BY <1>0, <1>1, <1>2, <1>3, <1>4, <1>5, <1>6, <1>7, PresentStoreAction,
       PresentDeallocAction DEF Next, Step
-----------------------------------------------------------------------------
\* When the find-and-lock chain of a store looks its block up, the allocation
\* before it is done, and no deallocation has passed its lock event.
LEMMA StoreHits ==
    ASSUME IInv, ProgramOrder, NothingOvertakesStores, BlocksPresent, StoreRunsAlone,
           NEW a \in Accesses, type[a] = "Store", pc[a] = "find_port"
    PROVE  FindBlock(addr[a])
<1>0. TypeOK /\ IssuedInOrder
    BY DEF IInv
<1>1. \A b \in Accesses : /\ b \in Int /\ issued \in Int
                          /\ b <= issued <=> pc[b] # "idle"
    BY <1>0 DEF IssuedInOrder, TypeOK, Accesses
<1>2. type[a] \notin AllocOps /\ type[a] \notin DeallocOps /\ Started(a) /\ InFlight(a)
    BY DEF AllocOps, DeallocOps, Started, InFlight
<1>3. PICK b \in Accesses : b < a /\ type[b] \in AllocOps /\ addr[b].ref = addr[a].ref
    BY <1>1, <1>2 DEF ProgramOrder
<1>4. Past(b)
    <2>1. pc[b] # "idle"
        BY <1>1, <1>3
    <2>2. ~InFlight(b)
        BY <1>1, <1>2, <1>3 DEF StoreRunsAlone
    <2> QED
        BY <2>1, <2>2 DEF InFlight, Past
<1>5. ASSUME NEW d \in Accesses, type[d] \in DeallocOps, Past(d)
      PROVE  addr[d].ref # addr[b].ref
    <2>1. d # a /\ pc[d] \notin {"idle", "lock"}
        BY <1>2, <1>5 DEF Past
    <2>2. ~(a < d)
        BY <1>2, <2>1 DEF NothingOvertakesStores
    <2>3. d < a /\ d <= issued /\ a <= issued
        BY <1>1, <2>1, <2>2
    <2> QED
        BY <1>3, <1>5, <2>3 DEF ProgramOrder
<1>6. FindBlock(addr[b])
    BY <1>3, <1>4, <1>5 DEF BlocksPresent
<1> QED
    BY <1>3, <1>6 DEF FindBlock, Slot

FindPCs == {"find_action", "find_finish", "action"}

\* A step that takes no access to lmstore_find_and_lock_action.
LEMMA FoundKept ==
    ASSUME StoreFindsBlock, UNCHANGED type,
           \A b \in Accesses : type[b] = "Store" /\ pc'[b] \in FindPCs
                               => pc[b] \in FindPCs /\ find'[b] = find[b]
    PROVE  StoreFindsBlock'
    BY DEF StoreFindsBlock, FindPCs

LEMMA FoundStep ==
    ASSUME IInv, ProgramOrder, NothingOvertakesStores, BlocksPresent, StoreRunsAlone,
           StoreFindsBlock, Next
    PROVE  StoreFindsBlock'
<1> USE DEF FindPCs
<1>0. TypeOK /\ IssuedInOrder /\ PendingCountsReads /\ PortsWellUsed
    BY DEF IInv
<1>1. ASSUME NEW x \in Addrs, NEW t \in AccessTypes, Issue(x, t)
      PROVE  StoreFindsBlock'
    BY <1>0, <1>1 DEF Issue, Goto, TypeOK, StoreFindsBlock, Accesses
<1>2. ASSUME NEW a \in Accesses, LockWait(a) \/ FindAndLock(a)
      PROVE  StoreFindsBlock'
    BY <1>0, <1>2, FoundKept DEF LockWait, FindAndLock, Goto, TypeOK, program
<1>3. ASSUME NEW a \in Accesses, Lock(a)
      PROVE  StoreFindsBlock'
    <2>1. CASE LoadLock(a) \/ StoreLock(a)
        BY <1>0, <2>1, FoundKept DEF LoadLock, StoreLock, Goto, TypeOK, program
    <2>2. CASE AllocLock(a) \/ DeallocLock(a)
        BY <1>0, <2>2, FoundKept DEF AllocLock, DeallocLock, AllocOps, DeallocOps, Goto,
                                     TypeOK, program
    <2> QED
        BY <1>3, <2>1, <2>2 DEF Lock
<1>4. ASSUME NEW a \in Accesses, FindAndLockPort(a)
      PROVE  StoreFindsBlock'
    <2>1. pc[a] = "find_port" /\ UNCHANGED type
        BY <1>4 DEF FindAndLockPort, program
    <2>2. find'[a].hit = FindBlock(addr[a])
        BY <1>0, <1>4 DEF FindAndLockPort, TypeOK
    <2>3. \A b \in Accesses \ {a} : pc'[b] = pc[b] /\ find'[b] = find[b]
        BY <1>0, <1>4 DEF FindAndLockPort, Goto, TypeOK
    <2>4. type[a] = "Store" => FindBlock(addr[a])
        BY <2>1, StoreHits
    <2> QED
        BY <2>1, <2>2, <2>3, <2>4 DEF StoreFindsBlock
<1>5. ASSUME NEW a \in Accesses, FindAndLockAction(a)
      PROVE  StoreFindsBlock'
    BY <1>0, <1>5, FoundKept, QueueWaits DEF FindAndLockAction, Goto, TypeOK, program
<1>6. ASSUME NEW a \in Accesses,
             \/ FindAndLockFinish(a) \/ LoadAction(a) \/ StoreAction(a)
             \/ DeallocAction(a) \/ Unlock(a) \/ Finish(a)
      PROVE  StoreFindsBlock'
    BY <1>0, <1>6, FoundKept DEF FindAndLockFinish, LoadAction, StoreAction, DeallocAction,
                                 Unlock, Finish, Goto, TypeOK, program
<1>7. ASSUME NEW a \in Accesses, AllocAction(a)
      PROVE  StoreFindsBlock'
    <2>1. UNCHANGED <<type, find>>
        BY <1>7 DEF AllocAction, program
    <2> QED
        BY <1>0, <1>7, <2>1, FoundKept, AllocActionKind DEF TypeOK
<1>8. ASSUME NEW a \in Accesses, AllocProcessNoRead(a)
      PROVE  StoreFindsBlock'
    BY <1>0, <1>8, FoundKept DEF AllocProcessNoRead, AllocProcess, Goto, TypeOK, program
<1>9. ASSUME NEW a \in Accesses, NEW i \in Reads, ReadStep(a, i)
      PROVE  StoreFindsBlock'
    <2>1. UNCHANGED <<type, find>>
        BY <1>9 DEF ReadStep, ReadRequest, ServeRead, RefuseRead, AllocProcessRead,
                    AllocProcess, program
    <2> QED
        BY <1>0, <1>9, <2>1, FoundKept, ReadStepKinds DEF TypeOK
<1> QED
    BY <1>1, <1>2, <1>3, <1>4, <1>5, <1>6, <1>7, <1>8, <1>9 DEF Next, Step

\* What StoreFindsBlock rests on.
StoresServed ==
    /\ ProgramOrder
    /\ NothingOvertakesStores
    /\ AllocationsRead
    /\ BlocksPresent
    /\ StoreFindsBlock

LEMMA StoresServedStep ==
    ASSUME ~Reuse, IInv, StoreRunsAlone, StoresServed, [Next]_vars
    PROVE  StoresServed'
<1>1. CASE UNCHANGED vars
    <2>1. ProgramOrder' /\ AllocationsRead' /\ StoreFindsBlock'
        BY <1>1 DEF StoresServed, vars, ProgramOrder, AllocationsRead, StoreFindsBlock
    <2>2. NothingOvertakesStores' /\ BlocksPresent'
        BY <1>1, OvertakesKept, PresentKept DEF StoresServed, vars
    <2> QED
        BY <2>1, <2>2 DEF StoresServed
<1>2. CASE Next
    <2>1. TypeOK
        BY DEF IInv
    <2> QED
        BY <1>2, <2>1, ProgramOrderStep, OvertakesStep, ReadersStep, PresentStep, FoundStep
           DEF StoresServed
<1> QED
    BY <1>1, <1>2

\* A store always finds its block in the directory, in every program that
\* allocates an entry of the LMRef table once: lmstore_store_lock lets nothing
\* pass it, neither the deallocation after it nor itself its allocation.
THEOREM StoresFindTheirBlocks == ASSUME ~Reuse PROVE Spec => []StoreFindsBlock
<1>1. Init => StoresServed
    BY AccessAssumption DEF Init, StoresServed, ProgramOrder, NothingOvertakesStores, InFlight,
        AllocationsRead, BlocksPresent, Past, StoreFindsBlock, Accesses
<1>2. IInv /\ StoreRunsAlone /\ StoresServed /\ [Next]_vars => StoresServed'
    BY StoresServedStep
<1>3. StoresServed => StoreFindsBlock
    BY DEF StoresServed
<1> QED
    BY <1>1, <1>2, <1>3, Invariant, StoreAlone, PTL DEF Spec
=============================================================================
