---------------------------- MODULE LocalMemory ----------------------------
(***************************************************************************)
(* The event chains of a local memory (SystemEvents.cc, local_load,        *)
(* local_store and local_find_and_lock) and the part of Module they use:   *)
(* the access lists, coalescing and the ports.                             *)
(*                                                                         *)
(* An access is the number of its frame, so older accesses have smaller    *)
(* numbers.  One action is one event of a chain; Issue is Module::Access   *)
(* with the first event of the chain.                                      *)
(***************************************************************************)
EXTENDS Integers, Sequences, FiniteSets

CONSTANTS
    MaxAccesses,   \* bound on the accesses issued
    Blocks,        \* the blocks of the memory
    NumPorts       \* Module::num_ports

ASSUME LocalAssumption ==
    /\ MaxAccesses \in Nat \ {0}
    /\ NumPorts \in Nat \ {0}
    /\ Blocks # {}

Accesses == 1..MaxAccesses

VARIABLES
    issued,        \* number of accesses issued so far
    type,          \* Frame::access_type
    block,         \* the block of Frame::address
    pc,            \* the next event of the access
    waiting,       \* the access in whose queue this one is suspended, or 0
    master,        \* Frame::master_frame, or 0
    coalesced,     \* Frame::coalesced
    numCoalesced,  \* Module::num_coalesced_accesses
    portLocked,    \* Frame::port_locked
    ports,         \* the accesses whose find-and-lock frame holds a port
    portQueue,     \* Module::port_queue
    owesWitness,   \* is Frame::witness still set?
    witness        \* how often the access has incremented the caller's counter

access == <<issued, type, block>>
merging == <<master, coalesced, numCoalesced>>
port == <<ports, portQueue>>
count == <<owesWitness, witness>>
vars == <<issued, type, block, pc, waiting, master, coalesced, numCoalesced,
          portLocked, ports, portQueue, owesWitness, witness>>
-----------------------------------------------------------------------------
PCs == {"idle", "lock", "find", "port_wait", "find_port", "find_action",
        "find_finish", "finish", "done"}

InFlight(a) == pc[a] \notin {"idle", "done"}
Older(a) == {b \in Accesses : b < a /\ InFlight(b)}
Youngest(S) == {b \in S : \A c \in S : c <= b}

FirstNonEmpty(S, T) == IF S # {} THEN S ELSE T

\* getInFlightWrite and getInFlightAddress for a load; a store waits for the
\* access before it in the list, whatever that is.
Blockers(a) ==
    IF type[a] = "Store"
    THEN Youngest(Older(a))
    ELSE FirstNonEmpty(Youngest({b \in Older(a) : type[b] = "Store"}),
                       {b \in Older(a) : block[b] = block[a]})

\* A variant with a bug: the access found becomes the master.
MasterOfFound(b) == b

\* The master of a coalesced chain: that of the access found, or the access.
MasterOf(b) == IF master[b] # 0 THEN master[b] ELSE b

\* A variant with a bug: a load looks past the stores in the access list.
CanCoalescePastStores(t, x) ==
    LET inFlight == {b \in Accesses : InFlight(b)}
    IN  IF t = "Load"
        THEN Youngest({b \in inFlight : type[b] = "Load" /\ block[b] = x})
        ELSE {b \in Youngest(inFlight) :
                 type[b] = "Store" /\ block[b] = x /\ ~portLocked[b]}

\* Module::canCoalesce for an access of type t to block x, younger than all in
\* flight.  A load joins the youngest load of the block in the group of loads
\* at the tail of the access list.  A store joins the access at the tail, if it
\* is a store to the block and its port_locked flag is not set.
CanCoalesce(t, x) ==
    LET inFlight == {b \in Accesses : InFlight(b)}
        loadsAtTail == {b \in inFlight : \A c \in inFlight : c >= b => type[c] = "Load"}
    IN  IF t = "Load"
        THEN Youngest({b \in loadsAtTail : block[b] = x})
        ELSE {b \in Youngest(inFlight) :
                 type[b] = "Store" /\ block[b] = x /\ ~portLocked[b]}

Goto(a, event) == pc' = [pc EXCEPT ![a] = event]
-----------------------------------------------------------------------------
Init ==
    /\ issued = 0
    /\ type = [a \in Accesses |-> "Load"]
    /\ block \in {[a \in Accesses |-> x] : x \in Blocks}
    /\ pc = [a \in Accesses |-> "idle"]
    /\ waiting = [a \in Accesses |-> 0]
    /\ master = [a \in Accesses |-> 0]
    /\ coalesced = [a \in Accesses |-> FALSE]
    /\ numCoalesced = 0
    /\ portLocked = [a \in Accesses |-> FALSE]
    /\ ports = {} /\ portQueue = <<>>
    /\ owesWitness = [a \in Accesses |-> TRUE]
    /\ witness = [a \in Accesses |-> 0]

\* Module::Access, StartAccess, and the rest of local_load or local_store: the
\* access goes on to its lock event, or is coalesced and waits for the master
\* to finish.  The caller's counter is incremented when a store is coalesced.
\* That the caller may have to ask canAccess first is left open.
Issue(t, x) ==
    /\ issued < MaxAccesses
    /\ issued' = issued + 1
    /\ type' = [type EXCEPT ![issued'] = t]
    /\ block' = [block EXCEPT ![issued'] = x]
    /\ \/ /\ CanCoalesce(t, x) = {}
          /\ Goto(issued', "lock")
          /\ UNCHANGED <<waiting, merging, count>>
       \/ \E b \in CanCoalesce(t, x) :
             /\ master' = [master EXCEPT ![issued'] = MasterOf(b)]
             /\ coalesced' = [coalesced EXCEPT ![issued'] = TRUE]
             /\ numCoalesced' = numCoalesced + 1
             /\ waiting' = [waiting EXCEPT ![issued'] = MasterOf(b)]
             /\ Goto(issued', "finish")
             /\ witness' = [witness EXCEPT ![issued'] = IF t = "Store" THEN @ + 1 ELSE @]
             /\ UNCHANGED owesWitness
    /\ UNCHANGED <<portLocked, port>>

\* local_load_lock or local_store_lock finds an older access to wait for.
LockWait(a) ==
    /\ pc[a] = "lock" /\ waiting[a] = 0
    /\ \E b \in Blockers(a) : waiting' = [waiting EXCEPT ![a] = b]
    /\ UNCHANGED <<access, pc, merging, portLocked, port, count>>

\* They find none, and call find-and-lock.  The witness pointer of a store
\* moves to the new frame.
Lock(a) ==
    /\ pc[a] = "lock" /\ waiting[a] = 0
    /\ Blockers(a) = {}
    /\ Goto(a, "find")
    /\ UNCHANGED <<access, waiting, merging, portLocked, port, count>>

\* local_find_and_lock: take a port or wait for one (Module::LockPort).
FindAndLock(a) ==
    /\ pc[a] = "find"
    /\ \/ /\ Cardinality(ports) >= NumPorts
          /\ portQueue' = Append(portQueue, a)
          /\ Goto(a, "port_wait")
          /\ UNCHANGED ports
       \/ /\ Cardinality(ports) < NumPorts
          /\ ports' = ports \cup {a}
          /\ Goto(a, "find_port")
          /\ UNCHANGED portQueue
    /\ UNCHANGED <<access, waiting, merging, portLocked, count>>

\* A variant with a bug: a load is signalled here too.
FindAndLockPortAll(a) ==
    /\ pc[a] = "find_port"
    /\ portLocked' = [portLocked EXCEPT ![a] = TRUE]
    /\ owesWitness' = [owesWitness EXCEPT ![a] = FALSE]
    /\ witness' = [witness EXCEPT ![a] = IF owesWitness[a] THEN @ + 1 ELSE @]
    /\ Goto(a, "find_action")
    /\ UNCHANGED <<access, waiting, merging, port>>

\* local_find_and_lock_port: the parent's flag says that it is too late to
\* coalesce; a store counts as complete for the caller.
FindAndLockPort(a) ==
    /\ pc[a] = "find_port"
    /\ portLocked' = [portLocked EXCEPT ![a] = TRUE]
    /\ owesWitness' = [owesWitness EXCEPT ![a] = @ /\ type[a] = "Load"]
    /\ witness' = [witness EXCEPT ![a] =
                     IF type[a] = "Store" /\ owesWitness[a] THEN @ + 1 ELSE @]
    /\ Goto(a, "find_action")
    /\ UNCHANGED <<access, waiting, merging, port>>

\* A variant with a bug: the port is free, but nobody in the queue is told.
FindAndLockActionQuiet(a) ==
    /\ pc[a] = "find_action"
    /\ portLocked' = [portLocked EXCEPT ![a] = FALSE]
    /\ ports' = ports \ {a}
    /\ Goto(a, "find_finish")
    /\ UNCHANGED <<access, waiting, merging, portQueue, count>>

\* local_find_and_lock_action: the port goes to the head of the port queue, if
\* an access waits there (Module::UnlockPort), and the parent's flag is reset.
FindAndLockAction(a) ==
    /\ pc[a] = "find_action"
    /\ portLocked' = [portLocked EXCEPT ![a] = FALSE]
    /\ \/ /\ portQueue = <<>>
          /\ ports' = ports \ {a}
          /\ Goto(a, "find_finish")
          /\ UNCHANGED portQueue
       \/ /\ portQueue # <<>>
          /\ ports' = (ports \ {a}) \cup {Head(portQueue)}
          /\ portQueue' = Tail(portQueue)
          /\ pc' = [pc EXCEPT ![a] = "find_finish", ![Head(portQueue)] = "find_port"]
    /\ UNCHANGED <<access, waiting, merging, count>>

\* local_find_and_lock_finish returns to local_load_finish or local_store_finish.
FindAndLockFinish(a) ==
    /\ pc[a] = "find_finish"
    /\ Goto(a, "finish")
    /\ UNCHANGED <<access, waiting, merging, portLocked, port, count>>

\* Variants with a bug: the coalesced accesses are not counted down; they are
\* counted down by every access; only the oldest access in the queue is woken up.
FinishNoCount(a) ==
    /\ pc[a] = "finish" /\ waiting[a] = 0
    /\ witness' = [witness EXCEPT ![a] = IF type[a] = "Load" THEN @ + 1 ELSE @]
    /\ Goto(a, "done")
    /\ master' = [b \in Accesses |-> IF InFlight(b) /\ master[b] = a THEN 0 ELSE master[b]]
    /\ waiting' = [b \in Accesses |-> IF waiting[b] = a THEN 0 ELSE waiting[b]]
    /\ UNCHANGED <<access, coalesced, numCoalesced, portLocked, port, owesWitness>>

FinishCountsAll(a) ==
    /\ pc[a] = "finish" /\ waiting[a] = 0
    /\ witness' = [witness EXCEPT ![a] = IF type[a] = "Load" THEN @ + 1 ELSE @]
    /\ Goto(a, "done")
    /\ numCoalesced' = numCoalesced - 1
    /\ master' = [b \in Accesses |-> IF InFlight(b) /\ master[b] = a THEN 0 ELSE master[b]]
    /\ waiting' = [b \in Accesses |-> IF waiting[b] = a THEN 0 ELSE waiting[b]]
    /\ UNCHANGED <<access, coalesced, portLocked, port, owesWitness>>

FinishWakesOne(a) ==
    /\ pc[a] = "finish" /\ waiting[a] = 0
    /\ witness' = [witness EXCEPT ![a] = IF type[a] = "Load" THEN @ + 1 ELSE @]
    /\ Goto(a, "done")
    /\ numCoalesced' = IF coalesced[a] THEN numCoalesced - 1 ELSE numCoalesced
    /\ master' = [b \in Accesses |-> IF InFlight(b) /\ master[b] = a THEN 0 ELSE master[b]]
    /\ waiting' = [b \in Accesses |->
                     IF waiting[b] = a /\ \A c \in 1..(b - 1) : waiting[c] # a
                     THEN 0 ELSE waiting[b]]
    /\ UNCHANGED <<access, coalesced, portLocked, port, owesWitness>>

\* local_load_finish or local_store_finish, which an access that was coalesced
\* comes to when it is woken up.  Module::FinishAccess takes the access off the
\* lists, forgets it as a master and wakes up all that wait for it.
Finish(a) ==
    /\ pc[a] = "finish" /\ waiting[a] = 0
    /\ witness' = [witness EXCEPT ![a] = IF type[a] = "Load" THEN @ + 1 ELSE @]
    /\ Goto(a, "done")
    /\ numCoalesced' = IF coalesced[a] THEN numCoalesced - 1 ELSE numCoalesced
    /\ master' = [b \in Accesses |-> IF InFlight(b) /\ master[b] = a THEN 0 ELSE master[b]]
    /\ waiting' = [b \in Accesses |-> IF waiting[b] = a THEN 0 ELSE waiting[b]]
    /\ UNCHANGED <<access, coalesced, portLocked, port, owesWitness>>
-----------------------------------------------------------------------------
Step(a) ==
    \/ LockWait(a) \/ Lock(a)
    \/ FindAndLock(a) \/ FindAndLockPort(a)
    \/ FindAndLockAction(a) \/ FindAndLockFinish(a)
    \/ Finish(a)

Next ==
    \/ \E t \in {"Load", "Store"}, x \in Blocks : Issue(t, x)
    \/ \E a \in Accesses : Step(a)

Spec == Init /\ [][Next]_vars

\* The engine runs every event it has scheduled.
FairSpec == Spec /\ \A a \in Accesses : WF_vars(Step(a))
-----------------------------------------------------------------------------
TypeOK ==
    /\ issued \in 0..MaxAccesses
    /\ type \in [Accesses -> {"Load", "Store"}]
    /\ block \in [Accesses -> Blocks]
    /\ pc \in [Accesses -> PCs]
    /\ waiting \in [Accesses -> 0..MaxAccesses]
    /\ master \in [Accesses -> 0..MaxAccesses]
    /\ coalesced \in [Accesses -> BOOLEAN]
    /\ numCoalesced \in Nat
    /\ portLocked \in [Accesses -> BOOLEAN]
    /\ ports \in SUBSET Accesses
    /\ portQueue \in Seq(Accesses)
    /\ owesWitness \in [Accesses -> BOOLEAN]
    /\ witness \in [Accesses -> Nat]

\* An access that has passed its lock event, or has been woken up by its master.
Running(a) == InFlight(a) /\ pc[a] # "lock" /\ waiting[a] = 0

Conflict(a, b) == "Store" \in {type[a], type[b]} \/ block[a] = block[b]

\* Coalescing and waiting keep the order of issue: while an access runs, the
\* older accesses that conflict with it are over, or are about to finish by the
\* same master as it.
ConflictsInOrder ==
    \A a, b \in Accesses :
        Running(a) /\ b \in Older(a) /\ Conflict(a, b) =>
            /\ type[a] = type[b] /\ block[a] = block[b]
            /\ coalesced[a] /\ coalesced[b]
            /\ pc[b] = "finish" /\ waiting[b] = 0

\* Module::Coalesce asserts that there is one level of masters only, and the
\* comment in FinishAccess (Module.cc:396) tells of frames that are their own
\* master.  A master is in flight for as long as anyone points to it: the
\* pointer is to a frame that its chain deletes when it ends.
MastersInFlight ==
    \A a \in Accesses :
        InFlight(a) /\ master[a] # 0 =>
            /\ master[a] < a /\ InFlight(master[a])
            /\ master[master[a]] = 0
            /\ waiting[a] = master[a]
            /\ type[a] = type[master[a]] /\ block[a] = block[master[a]]

\* The number of coalesced accesses, which canAccess takes off the accesses in
\* flight before it compares them with the size of the MSHR, is that of those
\* in flight, however masters and slaves finish.
CoalescedCounted ==
    numCoalesced = Cardinality({a \in Accesses : InFlight(a) /\ coalesced[a]})

\* No access is suspended in the queue of one that is over, which would never
\* wake it up, and none waits for a younger one.
WaitsForOlder ==
    \A a \in Accesses :
        waiting[a] # 0 => InFlight(a) /\ waiting[a] \in Older(a)

\* Every access is signalled to its caller once: a load when it finishes, a
\* store when it is coalesced or when it gets its port.
SignalledOnce ==
    \A a \in Accesses : witness[a] <= 1 /\ (pc[a] = "done" => witness[a] = 1)

\* Every access that has been issued finishes.
EveryAccessFinishes ==
    \A a \in Accesses : pc[a] # "idle" ~> pc[a] = "done"
=============================================================================
