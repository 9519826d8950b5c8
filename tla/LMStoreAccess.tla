--------------------------- MODULE LMStoreAccess ---------------------------
(***************************************************************************)
(* The event chains of one LMStore module (src/memory/SystemEvents.cc,     *)
(* EventLMStore...Handler): what happens to the loads, stores, allocations *)
(* and deallocations that a program has in flight together.                *)
(*                                                                         *)
(* An access is the number of its frame.  Frames are numbered, and put at  *)
(* the end of Module::accesses, in the order of issue, so that list is the *)
(* set of accesses in flight in increasing order.  One action stands for   *)
(* one event of a handler; latencies are arbitrary.  Main memory, which    *)
(* an allocation with read asks for the data, serves or refuses a request. *)
(***************************************************************************)
EXTENDS LMStore, Sequences, FiniteSets

CONSTANTS
    MaxAccesses,   \* bound on the accesses issued
    Addrs,         \* the addresses the program uses
    NumPorts,      \* ports of the LMStore
    MemBlockSize,  \* block size of main memory
    MaxReads,      \* bound on the main memory blocks of one LMStore block
    MaxRefusals,   \* bound on the requests that main memory refuses
    Reuse          \* may the program allocate an LMRef entry a second time?

Accesses == 1..MaxAccesses
Reads == 1..MaxReads
Refs == 0..(LMRefSize - 1)

\* lmstore_alloc_action: the number of blocks of main memory that it reads.
MMBlocks(size) ==
    IF size > MemBlockSize
    THEN (size \div MemBlockSize) + (IF size % MemBlockSize = 0 THEN 1 ELSE 0)
    ELSE 1

ASSUME AccessAssumption ==
    /\ MaxAccesses \in Nat \ {0}
    /\ NumPorts \in Nat \ {0}
    /\ MemBlockSize \in Nat \ {0}
    /\ MaxReads \in Nat
    /\ MaxRefusals \in Nat
    /\ Reuse \in BOOLEAN
    /\ Addrs \subseteq [op : OpCodes, ref : Refs, id : Nat, size : Unsigned, blk : Nat]
    /\ \A x \in Addrs : x.op = "ReadAlloc" => MMBlocks(x.size) \in Reads

VARIABLES
    issued,     \* number of accesses issued so far
    held,       \* allocation addresses whose block the program now holds
    used,       \* LMRef entries the program has allocated so far
    type,       \* Frame::access_type
    addr,       \* Frame::address, with the physical block blk it falls in
    pc,         \* the next event of the access
    waiting,    \* the access in whose queue this one is suspended, or 0
    frame,      \* the fields of the frame that its children set
    find,       \* the frame of its find-and-lock chain
    reads,      \* the read requests of an allocation to main memory
    witness,    \* how often the access has incremented the caller's counter
    ports,      \* the accesses whose find-and-lock frame holds a port
    portQueue,  \* Module::port_queue
    refusals,   \* requests main memory has refused so far
    freeSpace   \* Module::lmstore_free_space, relative to its initial value

program == <<issued, held, used, type, addr>>
port == <<ports, portQueue>>
memory == <<reads, refusals>>
vars == <<LMDir, LMBIndex, issued, held, used, type, addr, pc, waiting, frame,
          find, reads, witness, ports, portQueue, refusals, freeSpace>>
-----------------------------------------------------------------------------
AccessTypes == {"Load", "Store"} \cup AllocOps \cup DeallocOps

PCs == {"idle", "lock", "find", "port_wait", "find_port", "find_action",
        "find_finish", "action", "process", "reading", "unlock", "finish", "done"}

InFlight(a) == pc[a] \notin {"idle", "done"}
Started(a) == InFlight(a) /\ pc[a] # "lock"
Older(a) == {b \in Accesses : b < a /\ InFlight(b)}
SameBlock(a, b) == addr[a].blk = addr[b].blk

OfType(S, types) == {b \in S : type[b] \in types}
Youngest(S) == {b \in S : \A c \in S : c <= b}

\* getInFlightAlloc, getInFlightWrite and getInFlightAddress; the last one
\* takes any older access to the block that it meets in a hash table.
OlderAlloc(a) == Youngest(OfType(Older(a), AllocOps))
OlderWrite(a) == Youngest(OfType(Older(a), {"Store"}))
OlderSameBlock(a) == {b \in Older(a) : SameBlock(a, b)}

FirstNonEmpty(S, T) == IF S # {} THEN S ELSE T

\* A variant with a bug: a store waits like an allocation.
BlockersStoreLate(a) ==
    CASE type[a] = "Load" ->
            FirstNonEmpty(OlderAlloc(a),
                          FirstNonEmpty(OlderWrite(a), OlderSameBlock(a)))
      [] OTHER -> FirstNonEmpty(OlderWrite(a), OlderSameBlock(a))

\* The accesses one of which the "lock" event of a finds it must wait for.
Blockers(a) ==
    CASE type[a] = "Load" ->
            FirstNonEmpty(OlderAlloc(a),
                          FirstNonEmpty(OlderWrite(a), OlderSameBlock(a)))
      [] type[a] = "Store" -> Youngest(Older(a))
      [] OTHER -> FirstNonEmpty(OlderWrite(a), OlderSameBlock(a))
-----------------------------------------------------------------------------
NewFrame == [error |-> FALSE, hit |-> FALSE, state |-> "I", witness |-> TRUE,
             pending |-> 0]
NewFind == [hit |-> FALSE, state |-> "I", witness |-> FALSE]
NoAddr == [op |-> "Access", ref |-> 0, id |-> 0, size |-> 0, blk |-> 0]

Init ==
    /\ TablesInit
    /\ issued = 0 /\ held = {} /\ used = {}
    /\ type = [a \in Accesses |-> "Load"]
    /\ addr = [a \in Accesses |-> NoAddr]
    /\ pc = [a \in Accesses |-> "idle"]
    /\ waiting = [a \in Accesses |-> 0]
    /\ frame = [a \in Accesses |-> NewFrame]
    /\ find = [a \in Accesses |-> NewFind]
    /\ reads = [a \in Accesses |-> [i \in Reads |-> "none"]]
    /\ witness = [a \in Accesses |-> 0]
    /\ ports = {} /\ portQueue = <<>>
    /\ refusals = 0 /\ freeSpace = 0

Goto(a, event) == pc' = [pc EXCEPT ![a] = event]

\* What a compiled program may issue next: it allocates an entry that it does
\* not hold, and uses and deallocates only what it holds.
ProgramMayIssue(x) ==
    CASE x.op \in AllocOps ->
            /\ \A h \in held : h.ref # x.ref
            /\ Reuse \/ x.ref \notin used
      [] x.op \in DeallocOps ->
            \E h \in held : h.ref = x.ref /\ h.id = x.id /\ h.size = x.size
      [] OTHER -> \E h \in held : h.ref = x.ref

\* Module::Access gives the access its type from the operation code, and the
\* event lmstore_load, _store, _alloc or _dealloc starts it (StartAccess).
\* No allocation is coalesced: canCoalesce knows only loads and stores.
Issue(x, t) ==
    /\ issued < MaxAccesses
    /\ ProgramMayIssue(x)
    /\ IF x.op = "Access" THEN t \in {"Load", "Store"} ELSE t = x.op
    /\ issued' = issued + 1
    /\ type' = [type EXCEPT ![issued'] = t]
    /\ addr' = [addr EXCEPT ![issued'] = x]
    /\ Goto(issued', "lock")
    /\ held' = IF t \in AllocOps THEN held \cup {x}
               ELSE IF t \in DeallocOps THEN {h \in held : h.ref # x.ref}
               ELSE held
    /\ used' = IF t \in AllocOps THEN used \cup {x.ref} ELSE used
    /\ UNCHANGED <<tables, waiting, frame, find, memory, witness, port, freeSpace>>

\* The "lock" event of any of the four chains finds an older access that it
\* must wait for, and suspends the frame in the queue of that access.
LockWait(a) ==
    /\ pc[a] = "lock" /\ waiting[a] = 0
    /\ \E b \in Blockers(a) : waiting' = [waiting EXCEPT ![a] = b]
    /\ UNCHANGED <<tables, program, pc, frame, find, memory, witness, port, freeSpace>>

LoadLock(a) ==
    /\ pc[a] = "lock" /\ waiting[a] = 0 /\ type[a] = "Load"
    /\ Blockers(a) = {}
    /\ find' = [find EXCEPT ![a] = NewFind]
    /\ Goto(a, "find")
    /\ UNCHANGED <<tables, program, waiting, frame, memory, witness, port, freeSpace>>

\* The witness pointer moves to the find-and-lock frame, "so that retries from
\* the same frame do not increment it multiple times".
StoreLock(a) ==
    /\ pc[a] = "lock" /\ waiting[a] = 0 /\ type[a] = "Store"
    /\ Blockers(a) = {}
    /\ find' = [find EXCEPT ![a] = [NewFind EXCEPT !.witness = frame[a].witness]]
    /\ frame' = [frame EXCEPT ![a].witness = FALSE]
    /\ Goto(a, "find")
    /\ UNCHANGED <<tables, program, waiting, memory, witness, port, freeSpace>>

AllocLock(a) ==
    /\ pc[a] = "lock" /\ waiting[a] = 0 /\ type[a] \in AllocOps
    /\ Blockers(a) = {}
    /\ Goto(a, "action")
    /\ UNCHANGED <<tables, program, waiting, frame, find, memory, witness, port, freeSpace>>

DeallocLock(a) ==
    /\ pc[a] = "lock" /\ waiting[a] = 0 /\ type[a] \in DeallocOps
    /\ Blockers(a) = {}
    /\ Goto(a, "action")
    /\ UNCHANGED <<tables, program, waiting, frame, find, memory, witness, port, freeSpace>>
-----------------------------------------------------------------------------
\* lmstore_find_and_lock: take a port or wait for one (Module::LockPort).
FindAndLock(a) ==
    /\ pc[a] = "find"
    /\ frame' = [frame EXCEPT ![a].error = FALSE]
    /\ IF Cardinality(ports) >= NumPorts
       THEN /\ portQueue' = Append(portQueue, a)
            /\ Goto(a, "port_wait")
            /\ UNCHANGED ports
       ELSE /\ ports' = ports \cup {a}
            /\ Goto(a, "find_port")
            /\ UNCHANGED portQueue
    /\ UNCHANGED <<tables, program, waiting, find, memory, witness, freeSpace>>

\* A variant with a bug: every access that hits counts as complete here.
FindAndLockPortAll(a) ==
    /\ pc[a] = "find_port"
    /\ LET hit == FindBlock(addr[a])
       IN  /\ find' = [find EXCEPT ![a] =
                         [hit |-> hit, state |-> IF hit THEN "E" ELSE "I",
                          witness |-> FALSE]]
           /\ witness' = [witness EXCEPT ![a] = @ + (IF hit THEN 1 ELSE 0)]
    /\ Goto(a, "find_action")
    /\ UNCHANGED <<tables, program, waiting, frame, memory, port, freeSpace>>

\* lmstore_find_and_lock_port: look the block up.  A store that hits counts as
\* complete for the caller here, and a store counts, hit or miss, in the
\* statistics branch below, after which the pointer is cleared.
FindAndLockPort(a) ==
    /\ pc[a] = "find_port"
    /\ LET hit == FindBlock(addr[a])
           store == type[a] = "Store" /\ find[a].witness
       IN  /\ find' = [find EXCEPT ![a] =
                         [hit |-> hit, state |-> IF hit THEN "E" ELSE "I",
                          witness |-> FALSE]]
           /\ witness' = [witness EXCEPT ![a] =
                            @ + (IF store /\ hit THEN 1 ELSE 0) + (IF store THEN 1 ELSE 0)]
    /\ Goto(a, "find_action")
    /\ UNCHANGED <<tables, program, waiting, frame, memory, port, freeSpace>>

\* A variant with a bug: the port is freed and the queue forgotten.
FindAndLockActionKeepQueue(a) ==
    /\ pc[a] = "find_action"
    /\ ports' = ports \ {a}
    /\ Goto(a, "find_finish")
    /\ UNCHANGED <<tables, program, waiting, frame, find, memory, witness, portQueue, freeSpace>>

\* lmstore_find_and_lock_action: the port goes to the head of the port queue,
\* if an access waits there (Module::UnlockPort).
FindAndLockAction(a) ==
    /\ pc[a] = "find_action"
    /\ IF portQueue = <<>>
       THEN /\ ports' = ports \ {a}
            /\ Goto(a, "find_finish")
            /\ UNCHANGED portQueue
       ELSE /\ ports' = (ports \ {a}) \cup {Head(portQueue)}
            /\ portQueue' = Tail(portQueue)
            /\ pc' = [pc EXCEPT ![a] = "find_finish", ![Head(portQueue)] = "find_port"]
    /\ UNCHANGED <<tables, program, waiting, frame, find, memory, witness, freeSpace>>

\* lmstore_find_and_lock_finish: the parent gets the state, but not the hit.
FindAndLockFinish(a) ==
    /\ pc[a] = "find_finish"
    /\ frame' = [frame EXCEPT ![a] = [@ EXCEPT !.error = FALSE, !.state = find[a].state]]
    /\ Goto(a, "action")
    /\ UNCHANGED <<tables, program, waiting, find, memory, witness, port, freeSpace>>
-----------------------------------------------------------------------------
LoadAction(a) ==
    /\ pc[a] = "action" /\ type[a] = "Load"
    /\ Goto(a, IF frame[a].error THEN "lock" ELSE "unlock")
    /\ UNCHANGED <<tables, program, waiting, frame, find, memory, witness, port, freeSpace>>

StoreAction(a) ==
    /\ pc[a] = "action" /\ type[a] = "Store"
    /\ IF frame[a].error
       THEN Goto(a, "lock") /\ UNCHANGED tables
       ELSE Goto(a, "unlock") /\ setBlockState(addr[a], "M")
    /\ UNCHANGED <<program, waiting, frame, find, memory, witness, port, freeSpace>>
-----------------------------------------------------------------------------
\* lmstore_alloc_action: an allocation with read calls one read_request chain
\* for each main memory block.  The first event of each runs at once: it resets
\* the parent's error flag, and sends the request if TrySend finds room in the
\* network; a request that is blocked runs that event again later.
AllocAction(a) ==
    /\ pc[a] = "action" /\ type[a] \in AllocOps
    /\ IF type[a] = "NoReadAlloc"
       THEN /\ frame' = [frame EXCEPT ![a].pending = 1]
            /\ Goto(a, "process")
            /\ UNCHANGED reads
       ELSE /\ frame' = [frame EXCEPT ![a] = [@ EXCEPT
                            !.pending = MMBlocks(addr[a].size), !.error = FALSE]]
            /\ \E blocked \in SUBSET (1..MMBlocks(addr[a].size)) :
                  reads' = [reads EXCEPT ![a] =
                     [i \in Reads |-> IF i \in blocked THEN "blocked"
                                      ELSE IF i <= MMBlocks(addr[a].size) THEN "sent"
                                      ELSE "none"]]
            /\ Goto(a, "reading")
    /\ UNCHANGED <<tables, program, waiting, find, refusals, witness, port, freeSpace>>

\* read_request once more, for a request that the network had no room for.
ReadRequest(a, i, outcome) ==
    /\ reads[a][i] = "blocked"
    /\ frame' = [frame EXCEPT ![a].error = FALSE]
    /\ reads' = [reads EXCEPT ![a][i] = outcome]
    /\ UNCHANGED <<tables, program, pc, waiting, find, refusals, witness, port, freeSpace>>

\* Main memory locks the block, or fails to and sets the parent's error flag
\* (read_request_action).
ServeRead(a, i) ==
    /\ reads[a][i] = "sent"
    /\ reads' = [reads EXCEPT ![a][i] = "served"]
    /\ UNCHANGED <<tables, program, pc, waiting, frame, find, refusals, witness, port, freeSpace>>

RefuseRead(a, i) ==
    /\ reads[a][i] = "sent"
    /\ refusals < MaxRefusals
    /\ refusals' = refusals + 1
    /\ reads' = [reads EXCEPT ![a][i] = "refused"]
    /\ frame' = [frame EXCEPT ![a].error = TRUE]
    /\ UNCHANGED <<tables, program, pc, waiting, find, witness, port, freeSpace>>

\* A variant with a bug: the last two requests count as one.
AllocProcessEarly(a) ==
    /\ frame' = [frame EXCEPT ![a].pending = @ - 1]
    /\ IF frame[a].pending > 2
       THEN UNCHANGED <<tables, pc>>
       ELSE IF frame[a].error
            THEN Goto(a, "lock") /\ UNCHANGED tables
            ELSE Goto(a, "unlock") /\ allocateBlock(addr[a])
    /\ UNCHANGED <<program, waiting, find, refusals, witness, port, freeSpace>>

\* A variant with a bug: one more return is awaited than there are requests.
AllocProcessLate(a) ==
    /\ frame' = [frame EXCEPT ![a].pending = @ - 1]
    /\ IF frame[a].pending > 0
       THEN UNCHANGED <<tables, pc>>
       ELSE IF frame[a].error
            THEN Goto(a, "lock") /\ UNCHANGED tables
            ELSE Goto(a, "unlock") /\ allocateBlock(addr[a])
    /\ UNCHANGED <<program, waiting, find, refusals, witness, port, freeSpace>>

\* lmstore_alloc_process, as the continuation of lmstore_alloc_action or as the
\* return of a read request: once nothing is pending, retry or allocate.
AllocProcess(a) ==
    /\ frame' = [frame EXCEPT ![a].pending = @ - 1]
    /\ IF frame[a].pending > 1
       THEN UNCHANGED <<tables, pc>>
       ELSE IF frame[a].error
            THEN Goto(a, "lock") /\ UNCHANGED tables
            ELSE Goto(a, "unlock") /\ allocateBlock(addr[a])
    /\ UNCHANGED <<program, waiting, find, refusals, witness, port, freeSpace>>

AllocProcessNoRead(a) ==
    /\ pc[a] = "process"
    /\ AllocProcess(a)
    /\ UNCHANGED reads

AllocProcessRead(a, i) ==
    /\ reads[a][i] \in {"served", "refused"}
    /\ AllocProcess(a)
    /\ reads' = [reads EXCEPT ![a][i] = IF @ = "served" THEN "returned" ELSE "failed"]

\* lmstore_dealloc_action: the frame's state decides whether to write the block
\* to memory first, but it is still that of a new frame, so the write request
\* chain of the handler (and its event lmstore_dealloc_process) never starts.
DeallocAction(a) ==
    /\ pc[a] = "action" /\ type[a] \in DeallocOps
    /\ frame[a].state # "M" \/ type[a] = "NoWriteDealloc"
    /\ deallocateBlock(addr[a])
    /\ Goto(a, "unlock")
    /\ UNCHANGED <<program, waiting, frame, find, memory, witness, port, freeSpace>>

\* A variant with a bug: the space of a deallocated block is not counted.
UnlockNoCredit(a) ==
    /\ pc[a] = "unlock"
    /\ freeSpace' = IF type[a] \in AllocOps THEN freeSpace - addr[a].size ELSE freeSpace
    /\ Goto(a, "finish")
    /\ UNCHANGED <<tables, program, waiting, frame, find, memory, witness, port>>

\* The "unlock" event: UpdateStats counts the space an allocation takes and a
\* deallocation gives back.
Unlock(a) ==
    /\ pc[a] = "unlock"
    /\ freeSpace' = CASE type[a] \in AllocOps   -> freeSpace - addr[a].size
                      [] type[a] \in DeallocOps -> freeSpace + addr[a].size
                      [] OTHER                  -> freeSpace
    /\ Goto(a, "finish")
    /\ UNCHANGED <<tables, program, waiting, frame, find, memory, witness, port>>

\* A variant with a bug: only the oldest access in the queue is woken up.
FinishWakesOne(a) ==
    /\ pc[a] = "finish"
    /\ witness' = [witness EXCEPT ![a] = IF type[a] = "Store" THEN @ ELSE @ + 1]
    /\ Goto(a, "done")
    /\ waiting' = [b \in Accesses |->
                     IF waiting[b] = a /\ \A c \in 1..(b - 1) : waiting[c] # a
                     THEN 0 ELSE waiting[b]]
    /\ UNCHANGED <<tables, program, frame, find, memory, port, freeSpace>>

\* The "finish" event: the caller's counter is incremented, except by a store,
\* and Module::FinishAccess takes the access off the list and wakes up every
\* access in its queue.
Finish(a) ==
    /\ pc[a] = "finish"
    /\ witness' = [witness EXCEPT ![a] = IF type[a] = "Store" THEN @ ELSE @ + 1]
    /\ Goto(a, "done")
    /\ waiting' = [b \in Accesses |-> IF waiting[b] = a THEN 0 ELSE waiting[b]]
    /\ UNCHANGED <<tables, program, frame, find, memory, port, freeSpace>>
-----------------------------------------------------------------------------
Lock(a) == LoadLock(a) \/ StoreLock(a) \/ AllocLock(a) \/ DeallocLock(a)

Step(a) ==
    \/ LockWait(a) \/ Lock(a)
    \/ FindAndLock(a) \/ FindAndLockPort(a)
    \/ FindAndLockAction(a) \/ FindAndLockFinish(a)
    \/ LoadAction(a) \/ StoreAction(a) \/ AllocAction(a) \/ DeallocAction(a)
    \/ AllocProcessNoRead(a)
    \/ Unlock(a) \/ Finish(a)

ReadStep(a, i) ==
    \/ ReadRequest(a, i, "blocked") \/ ReadRequest(a, i, "sent")
    \/ ServeRead(a, i) \/ RefuseRead(a, i)
    \/ AllocProcessRead(a, i)

Next ==
    \/ \E x \in Addrs, t \in AccessTypes : Issue(x, t)
    \/ \E a \in Accesses : Step(a)
    \/ \E a \in Accesses, i \in Reads : ReadStep(a, i)

Spec == Init /\ [][Next]_vars

\* While there is an event to run other than the retry of a blocked message, the
\* engine runs one; the network has room for a message at some time, and main
\* memory answers every request it has received.
Progress ==
    \E a \in Accesses :
        \/ Step(a)
        \/ \E i \in Reads : \/ ReadRequest(a, i, "sent")
                            \/ ServeRead(a, i) \/ RefuseRead(a, i)
                            \/ AllocProcessRead(a, i)

Fairness == WF_vars(Progress)

FairSpec == Spec /\ Fairness
-----------------------------------------------------------------------------
Frames == [error : BOOLEAN, hit : BOOLEAN, state : {"I", "E"},
           witness : BOOLEAN, pending : Int]

ReadStates == {"none", "blocked", "sent", "served", "refused", "returned", "failed"}

TypeOK ==
    /\ TablesTypeOK
    /\ issued \in 0..MaxAccesses
    /\ held \in SUBSET Addrs
    /\ used \in SUBSET Refs
    /\ type \in [Accesses -> AccessTypes]
    /\ addr \in [Accesses -> Addrs \cup {NoAddr}]
    /\ pc \in [Accesses -> PCs]
    /\ waiting \in [Accesses -> 0..MaxAccesses]
    /\ frame \in [Accesses -> Frames]
    /\ find \in [Accesses -> [hit : BOOLEAN, state : {"I", "E"}, witness : BOOLEAN]]
    /\ reads \in [Accesses -> [Reads -> ReadStates]]
    /\ witness \in [Accesses -> Nat]
    /\ ports \in SUBSET Accesses
    /\ portQueue \in Seq(Accesses)
    /\ refusals \in 0..MaxRefusals
    /\ freeSpace \in Int

\* No wake-up is lost: a suspended access waits for an older one that is still
\* in flight, so some FinishAccess is to come that wakes it up; and no cycle of
\* accesses waits on itself.
WaitersWillBeWoken ==
    \A a \in Accesses :
        waiting[a] # 0 =>
            pc[a] = "lock" /\ waiting[a] < a /\ InFlight(waiting[a])

\* LockPort and UnlockPort: the ports are held by the accesses whose chain is
\* between the two, the queue holds the others that asked for one, once each,
\* and no port is free while an access waits for one.
PortsWellUsed ==
    /\ ports = {a \in Accesses : pc[a] \in {"find_port", "find_action"}}
    /\ \A a \in Accesses :
          pc[a] = "port_wait" <=> \E i \in 1..Len(portQueue) : portQueue[i] = a
    /\ \A i, j \in 1..Len(portQueue) : i # j => portQueue[i] # portQueue[j]
    /\ Cardinality(ports) <= NumPorts
    /\ portQueue # <<>> => Cardinality(ports) = NumPorts

\* The pending counter of an allocation with read: the frame leaves
\* lmstore_alloc_process when the last of its requests has returned, neither
\* earlier nor never, though each return runs the event anew and a request that
\* the network blocked returns later than those sent after it.
Outstanding(a) ==
    {i \in Reads : reads[a][i] \in {"blocked", "sent", "served", "refused"}}

PendingCountsReads ==
    \A a \in Accesses :
        /\ pc[a] = "reading" <=> Outstanding(a) # {}
        /\ pc[a] = "reading" => frame[a].pending = Cardinality(Outstanding(a))

\* A store always finds its block in the directory: it waits for the allocation
\* before it, and the deallocation after it waits for the store.  (True of a
\* program that allocates an entry once.)
StoreFindsBlock ==
    \A a \in Accesses :
        type[a] = "Store" /\ pc[a] \in {"find_action", "find_finish", "action"}
            => find[a].hit

\* "Should always result in hit" (SystemEvents.cc:4463), for loads.
LoadFindsBlock ==
    \A a \in Accesses :
        type[a] = "Load" /\ pc[a] \in {"find_action", "find_finish", "action"}
            => find[a].hit

\* An access but a store completes for its caller exactly once, and not before it
\* has left the access list, however often it was retried.
CompletionSignalledOnce ==
    \A a \in Accesses :
        type[a] # "Store" => witness[a] = IF pc[a] = "done" THEN 1 ELSE 0

\* "Error on read request. Unlock block and retry load." (5169): an allocation
\* with read is not carried out if main memory refused one of its requests.
AllocationHasItsData ==
    \A a \in Accesses, i \in Reads :
        pc[a] \in {"unlock", "finish", "done"} => reads[a][i] # "failed"

\* The abstract specification that these chains implement: an access is queued
\* until its lock event lets it pass, and runs from there to its finish event.
Status(a) == CASE pc[a] = "idle" -> "idle"
               [] pc[a] = "lock" -> "queued"
               [] pc[a] = "done" -> "done"
               [] OTHER          -> "running"

Order == INSTANCE AccessOrder WITH
            AllocTypes <- AllocOps,
            block <- [a \in Accesses |-> addr[a].blk],
            status <- [a \in Accesses |-> Status(a)]

\* Every step of the chains is a step that the promised order of accesses
\* allows: the rules of the lock events, which look for the youngest older
\* allocation or store and for any older access to the block, let an access
\* start only when nothing older conflicts with it.
ImplementsAccessOrder == Order!Spec

\* Every access that is issued finishes: the waits on older accesses, the port
\* queue and the retries end (main memory refuses finitely often).
EveryAccessFinishes ==
    \A a \in Accesses : pc[a] # "idle" ~> pc[a] = "done"
=============================================================================
