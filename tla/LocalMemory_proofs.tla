------------------------- MODULE LocalMemory_proofs -------------------------
(***************************************************************************)
(* The invariants of LocalMemory, for any number of accesses, blocks and   *)
(* ports.                                                                  *)
(***************************************************************************)
EXTENDS LocalMemory, FiniteSetTheorems, WellFoundedInduction, TLAPS

\* Accesses are issued in the order of their numbers.
InOrderOfIssue == \A a \in Accesses : pc[a] = "idle" <=> a > issued

\* The port queue holds accesses that wait for a port, each of them once.
QueueWaits ==
    /\ \A i \in 1..Len(portQueue) : pc[portQueue[i]] = "port_wait"
    /\ \A i, j \in 1..Len(portQueue) : i # j => portQueue[i] # portQueue[j]

\* An access that is coalesced has only its finish event left.  One that waits
\* does so at its lock event, or for its master.
Shape ==
    \A a \in Accesses :
        /\ pc[a] = "idle" => master[a] = 0 /\ ~coalesced[a]
        /\ InFlight(a) /\ coalesced[a] => pc[a] = "finish"
        /\ InFlight(a) /\ master[a] # 0 => coalesced[a]
        /\ waiting[a] # 0 => pc[a] = "lock" \/ master[a] = waiting[a]

\* What the caller has been told so far: of a store when it is past its port, of
\* a load when it is over.
Told(a) ==
    IF type[a] = "Store"
    THEN pc[a] \in {"find_action", "find_finish", "finish", "done"}
    ELSE pc[a] = "done"

CallersTold ==
    \A a \in Accesses :
        /\ witness[a] = IF Told(a) THEN 1 ELSE 0
        /\ pc[a] \in {"idle", "lock", "find", "port_wait", "find_port"} => owesWitness[a]

\* Between a master and an access that is coalesced with it, all accesses that
\* conflict with that access have the same master.
SameMaster ==
    \A a, c \in Accesses :
        /\ InFlight(a) /\ master[a] # 0
        /\ InFlight(c) /\ master[a] < c /\ c < a /\ Conflict(c, a)
        => master[c] = master[a]

IInv ==
    /\ TypeOK /\ InOrderOfIssue /\ QueueWaits /\ Shape /\ CallersTold
    /\ WaitsForOlder /\ MastersInFlight /\ SameMaster /\ ConflictsInOrder
    /\ CoalescedCounted
-----------------------------------------------------------------------------
LEMMA FiniteAccesses ==
  ASSUME NEW S \in SUBSET Accesses
  PROVE  IsFiniteSet(S)
<1>1. IsFiniteSet(Accesses)
  BY FS_Interval, LocalAssumption DEF Accesses
<1> QED BY <1>1, FS_Subset

\* A finite set of accesses with nothing youngest in it is empty.
LEMMA YoungestExists ==
  ASSUME NEW S \in SUBSET Accesses, Youngest(S) = {}
  PROVE  S = {}
<1> SUFFICES ASSUME S # {} PROVE FALSE
  OBVIOUS
<1> DEFINE Above(x) == {y \in S : y > x}
       T == {Above(x) : x \in S}
<1>1. IsFiniteSet(S)
  BY FiniteAccesses
<1>2. IsWellFoundedOn(StrictSubsetOrdering(S), FiniteSubsetsOf(S))
  BY FS_StrictSubsetOrderingWellFounded
<1>3. T \subseteq FiniteSubsetsOf(S) /\ T # {}
  <2>1. ASSUME NEW x \in S
      PROVE  Above(x) \in SUBSET S /\ IsFiniteSet(Above(x))
    BY <1>1, FS_Subset
  <2> QED
    BY <2>1 DEF FiniteSubsetsOf
<1>4. PICK A \in T : \A B \in T : ~(<<B, A>> \in StrictSubsetOrdering(S))
  BY <1>2, <1>3, WFMin, Zenon
<1>5. PICK x \in S : A = Above(x)
  BY <1>4
<1>6. ASSUME NEW y \in S, y > x PROVE FALSE
  <2>1. Above(y) \subseteq Above(x) /\ Above(y) # Above(x)
    <3>1. x \in Int /\ y \in Int /\ y > x /\ \A z \in S : z \in Int
      BY <1>6, LocalAssumption DEF Accesses
    <3>2. y \in Above(x) /\ y \notin Above(y)
      BY <3>1
    <3>3. ASSUME NEW z \in Above(y) PROVE z \in Above(x)
      <4>1. z \in S /\ z > y
        OBVIOUS
      <4> QED
        BY <3>1, <4>1
    <3> QED
      BY <3>2, <3>3
  <2>2. <<Above(y), Above(x)>> \in StrictSubsetOrdering(S)
    BY <2>1 DEF StrictSubsetOrdering
  <2> QED
    BY <1>4, <1>5, <2>2
<1>7. \A y \in S : y <= x
  BY <1>6, LocalAssumption DEF Accesses
<1> QED
  BY <1>5, <1>7 DEF Youngest

LEMMA InitIInv == Init => IInv
<1> SUFFICES ASSUME Init PROVE IInv
  OBVIOUS
<1>1. \A a \in Accesses : ~InFlight(a)
  BY DEF Init, InFlight
<1>2. TypeOK
  BY LocalAssumption DEF Init, TypeOK, Accesses, PCs
<1>3. InOrderOfIssue /\ QueueWaits /\ Shape /\ CallersTold
  BY LocalAssumption DEF Init, InOrderOfIssue, QueueWaits, Shape, CallersTold, Told, Accesses, InFlight
<1>4. WaitsForOlder
  BY DEF Init, WaitsForOlder
<1>5. MastersInFlight /\ SameMaster /\ ConflictsInOrder
  BY <1>1 DEF MastersInFlight, SameMaster, ConflictsInOrder, Running
<1>6. CoalescedCounted
  <2>1. {a \in Accesses : InFlight(a) /\ coalesced[a]} = {}
    BY <1>1
  <2> QED BY <2>1, FS_EmptySet DEF Init, CoalescedCounted
<1> QED BY <1>2, <1>3, <1>4, <1>5, <1>6 DEF IInv

\* Steps that touch no list, no master and no suspended access keep what is said
\* about them.
LEMMA QuietStep ==
  ASSUME IInv, UNCHANGED <<access, merging, waiting>>, pc' \in [Accesses -> PCs],
         \A b \in Accesses :
            /\ InFlight(b)' <=> InFlight(b)
            /\ pc'[b] = "idle" <=> pc[b] = "idle"
            /\ pc'[b] = "lock" <=> pc[b] = "lock"
            /\ pc[b] = "finish" => pc'[b] = "finish"
  PROVE  /\ InOrderOfIssue' /\ Shape' /\ WaitsForOlder' /\ MastersInFlight'
         /\ SameMaster' /\ ConflictsInOrder' /\ CoalescedCounted'
<1>1. UNCHANGED <<issued, type, block, master, coalesced, numCoalesced, waiting>>
  BY DEF access, merging
<1>2. InOrderOfIssue' /\ Shape'
  BY <1>1 DEF IInv, InOrderOfIssue, Shape
<1>3. WaitsForOlder'
  BY <1>1 DEF IInv, WaitsForOlder, Older
<1>4. MastersInFlight'
  BY <1>1, LocalAssumption DEF IInv, MastersInFlight, TypeOK, Accesses
<1>5. SameMaster'
  BY <1>1 DEF IInv, SameMaster, Conflict
<1>6. ConflictsInOrder'
  BY <1>1 DEF IInv, ConflictsInOrder, Running, Older, Conflict
<1>7. CoalescedCounted'
  <2>1. {a \in Accesses : InFlight(a) /\ coalesced[a]}'
          = {a \in Accesses : InFlight(a) /\ coalesced[a]}
    BY <1>1
  <2> QED BY <1>1, <2>1 DEF IInv, CoalescedCounted
<1> QED BY <1>2, <1>3, <1>4, <1>5, <1>6, <1>7
-----------------------------------------------------------------------------
LEMMA LockWaitStep ==
  ASSUME IInv, NEW a \in Accesses, LockWait(a)
  PROVE  IInv'
<1>1. PICK b \in Blockers(a) : waiting' = [waiting EXCEPT ![a] = b]
  BY DEF LockWait
<1>2. /\ pc[a] = "lock" /\ waiting[a] = 0
      /\ UNCHANGED <<issued, type, block, pc, master, coalesced, numCoalesced, portLocked,
                     ports, portQueue, owesWitness, witness>>
  BY DEF LockWait, access, merging, port, count
<1>3. b \in Older(a)
  BY DEF Blockers, FirstNonEmpty, Youngest
<1>4. TypeOK'
  <2>1. b \in 0..MaxAccesses
    BY <1>3, LocalAssumption DEF Older, Accesses
  <2>2. waiting' \in [Accesses -> 0..MaxAccesses]
    BY <1>1, <2>1 DEF IInv, TypeOK
  <2> QED BY <1>2, <2>2 DEF IInv, TypeOK
<1>5. InOrderOfIssue' /\ QueueWaits' /\ CallersTold' /\ SameMaster' /\ CoalescedCounted'
  BY <1>2 DEF IInv, InOrderOfIssue, QueueWaits, CallersTold, Told, SameMaster, Conflict,
              CoalescedCounted, InFlight
<1>6. Shape'
  BY <1>1, <1>2 DEF IInv, Shape, InFlight, TypeOK
<1>7. WaitsForOlder'
  <2>1. \A c \in Accesses : (InFlight(c)' <=> InFlight(c)) /\ Older(c)' = Older(c)
    BY <1>2 DEF InFlight, Older
  <2>2. InFlight(a)
    BY <1>2 DEF InFlight
  <2>3. \A c \in Accesses : waiting'[c] = IF c = a THEN b ELSE waiting[c]
    BY <1>1 DEF IInv, TypeOK
  <2> QED BY <1>3, <2>1, <2>2, <2>3 DEF IInv, WaitsForOlder
<1>8. MastersInFlight'
  BY <1>1, <1>2 DEF IInv, MastersInFlight, Shape, InFlight, TypeOK
<1>9. ConflictsInOrder'
  BY <1>1, <1>2, <1>3 DEF IInv, ConflictsInOrder, Running, Older, Conflict, InFlight, TypeOK
<1> QED BY <1>4, <1>5, <1>6, <1>7, <1>8, <1>9 DEF IInv

\* The lock event lets an access pass when no older one in flight conflicts with it.
LEMMA NoBlockersNoConflict ==
  ASSUME TypeOK, NEW a \in Accesses, Blockers(a) = {}, NEW b \in Older(a)
  PROVE  ~Conflict(a, b)
<1> DEFINE Stores == {c \in Older(a) : type[c] = "Store"}
<1>1. type[a] # "Store"
  BY YoungestExists DEF Blockers, Older
<1>2. Youngest(Stores) = {} /\ {c \in Older(a) : block[c] = block[a]} = {}
  BY <1>1 DEF Blockers, FirstNonEmpty
<1>3. Stores \in SUBSET Accesses
  BY DEF Older
<1>4. Stores = {}
  <2> HIDE DEF Stores
  <2> QED BY <1>2, <1>3, YoungestExists
<1> QED BY <1>1, <1>2, <1>4 DEF Conflict

LEMMA LockStep ==
  ASSUME IInv, NEW a \in Accesses, Lock(a)
  PROVE  IInv'
<1>1. /\ pc[a] = "lock" /\ waiting[a] = 0 /\ Blockers(a) = {}
      /\ pc' = [pc EXCEPT ![a] = "find"]
      /\ UNCHANGED <<issued, type, block, waiting, master, coalesced, numCoalesced, portLocked,
                     ports, portQueue, owesWitness, witness>>
  BY DEF Lock, Goto, access, merging, port, count
<1>2. pc \in [Accesses -> PCs] /\ pc' \in [Accesses -> PCs]
  BY <1>1 DEF IInv, TypeOK, PCs
<1>3. TypeOK'
  BY <1>1, <1>2 DEF IInv, TypeOK
<1>4. \A b \in Accesses : InFlight(b)' <=> InFlight(b)
  BY <1>1, <1>2 DEF InFlight
<1>5. InOrderOfIssue' /\ CallersTold'
  BY <1>1, <1>2 DEF IInv, InOrderOfIssue, CallersTold, Told
<1>6. QueueWaits'
  BY <1>1, <1>2 DEF IInv, QueueWaits, TypeOK
<1>7. Shape'
  BY <1>1, <1>2 DEF IInv, Shape, InFlight
<1>8. WaitsForOlder'
  BY <1>1, <1>4 DEF IInv, WaitsForOlder, Older
<1>9. MastersInFlight'
  <2>1. \A c \in Accesses : master[c] # 0 => master[c] \in Accesses
    BY LocalAssumption DEF IInv, TypeOK, Accesses
  <2> QED BY <1>1, <1>4, <2>1 DEF IInv, MastersInFlight
<1>10. SameMaster'
  BY <1>1, <1>4 DEF IInv, SameMaster, Conflict
<1>11. ConflictsInOrder'
  <2> SUFFICES ASSUME NEW c \in Accesses, NEW b \in Accesses,
                      Running(c)', b \in Older(c)', Conflict(c, b)'
               PROVE  /\ type[c] = type[b] /\ block[c] = block[b]
                      /\ coalesced[c] /\ coalesced[b]
                      /\ pc'[b] = "finish" /\ waiting[b] = 0
    BY <1>1 DEF ConflictsInOrder
  <2>1. b \in Older(c) /\ Conflict(c, b)
    BY <1>1, <1>4 DEF Older, Conflict
  <2>2. CASE c = a
    BY <2>1, <2>2, <1>1, NoBlockersNoConflict DEF IInv
  <2>3. CASE c # a
    <3>1. Running(c)
      BY <2>3, <1>1, <1>2 DEF Running, InFlight
    <3> QED BY <2>1, <3>1, <1>1, <1>2 DEF IInv, ConflictsInOrder
  <2> QED BY <2>2, <2>3
<1>12. CoalescedCounted'
  <2>1. {b \in Accesses : InFlight(b) /\ coalesced[b]}'
          = {b \in Accesses : InFlight(b) /\ coalesced[b]}
    BY <1>1, <1>4
  <2> QED BY <1>1, <2>1 DEF IInv, CoalescedCounted
<1> QED BY <1>3, <1>5, <1>6, <1>7, <1>8, <1>9, <1>10, <1>11, <1>12 DEF IInv

LEMMA QueueElements ==
  ASSUME TypeOK
  PROVE  Len(portQueue) \in Nat /\ \A i \in 1..Len(portQueue) : portQueue[i] \in Accesses
  BY DEF TypeOK

LEMMA FindAndLockStep ==
  ASSUME IInv, NEW a \in Accesses, FindAndLock(a)
  PROVE  IInv'
<1>1. /\ pc[a] = "find"
      /\ UNCHANGED <<access, merging, waiting, portLocked, owesWitness, witness>>
  BY DEF FindAndLock, count
<1>2. TypeOK
  BY DEF IInv
<1>3. CASE /\ portQueue' = Append(portQueue, a) /\ pc' = [pc EXCEPT ![a] = "port_wait"]
           /\ UNCHANGED ports
  <2>1. TypeOK' /\ CallersTold'
    BY <1>1, <1>2, <1>3 DEF IInv, TypeOK, CallersTold, Told, access, merging, PCs
  <2>2. QueueWaits'
    <3>1. /\ Len(portQueue') = Len(portQueue) + 1 /\ Len(portQueue) \in Nat
          /\ portQueue'[Len(portQueue) + 1] = a
          /\ \A i \in 1..Len(portQueue) :
                portQueue'[i] = portQueue[i] /\ portQueue[i] \in Accesses
      BY <1>2, <1>3 DEF TypeOK
    <3>2. \A i \in 1..Len(portQueue) : portQueue[i] # a /\ pc'[portQueue[i]] = "port_wait"
      BY <1>1, <1>2, <1>3, <3>1 DEF IInv, QueueWaits, TypeOK
    <3>3. pc'[a] = "port_wait"
      BY <1>2, <1>3 DEF TypeOK
    <3> QED BY <3>1, <3>2, <3>3 DEF IInv, QueueWaits
  <2>3. \A b \in Accesses : /\ InFlight(b)' <=> InFlight(b)
                            /\ pc'[b] = "idle" <=> pc[b] = "idle"
                            /\ pc'[b] = "lock" <=> pc[b] = "lock"
                            /\ pc[b] = "finish" => pc'[b] = "finish"
    BY <1>1, <1>2, <1>3 DEF InFlight, TypeOK
  <2> QED BY <1>1, <2>1, <2>2, <2>3, QuietStep DEF IInv, TypeOK
<1>4. CASE /\ ports' = ports \cup {a} /\ pc' = [pc EXCEPT ![a] = "find_port"]
           /\ UNCHANGED portQueue
  <2>1. TypeOK' /\ CallersTold'
    BY <1>1, <1>2, <1>4 DEF IInv, TypeOK, CallersTold, Told, access, merging, PCs
  <2>2. QueueWaits'
    BY SMTT(30), <1>1, <1>2, <1>4 DEF IInv, QueueWaits, TypeOK
  <2>3. \A b \in Accesses : /\ InFlight(b)' <=> InFlight(b)
                            /\ pc'[b] = "idle" <=> pc[b] = "idle"
                            /\ pc'[b] = "lock" <=> pc[b] = "lock"
                            /\ pc[b] = "finish" => pc'[b] = "finish"
    BY <1>1, <1>2, <1>4 DEF InFlight, TypeOK
  <2> QED BY <1>1, <2>1, <2>2, <2>3, QuietStep DEF IInv, TypeOK
<1> QED BY <1>3, <1>4 DEF FindAndLock, Goto

LEMMA FindAndLockPortStep ==
  ASSUME IInv, NEW a \in Accesses, FindAndLockPort(a)
  PROVE  IInv'
<1>1. /\ pc[a] = "find_port" /\ pc' = [pc EXCEPT ![a] = "find_action"]
      /\ portLocked' = [portLocked EXCEPT ![a] = TRUE]
      /\ owesWitness' = [owesWitness EXCEPT ![a] = @ /\ type[a] = "Load"]
      /\ witness' = [witness EXCEPT ![a] =
                        IF type[a] = "Store" /\ owesWitness[a] THEN @ + 1 ELSE @]
      /\ UNCHANGED <<access, merging, waiting, ports, portQueue>>
  BY DEF FindAndLockPort, Goto, port
<1>2. TypeOK
  BY DEF IInv
<1>3. TypeOK'
  <2>1. owesWitness' \in [Accesses -> BOOLEAN]
    <3>1. (owesWitness[a] /\ type[a] = "Load") \in BOOLEAN
      OBVIOUS
    <3> QED BY <1>1, <1>2, <3>1 DEF TypeOK
  <2>2. witness' \in [Accesses -> Nat] /\ portLocked' \in [Accesses -> BOOLEAN]
    BY <1>1, <1>2 DEF TypeOK
  <2>3. pc' \in [Accesses -> PCs]
    BY <1>1, <1>2 DEF TypeOK, PCs
  <2> QED BY <1>1, <1>2, <2>1, <2>2, <2>3 DEF TypeOK, access, merging
<1>4. CallersTold'
  <2> SUFFICES ASSUME NEW b \in Accesses
               PROVE  /\ witness'[b] = IF Told(b)' THEN 1 ELSE 0
                      /\ pc'[b] \in {"idle", "lock", "find", "port_wait", "find_port"}
                            => owesWitness'[b]
    BY DEF CallersTold
  <2>1. CASE b = a
    <3>1. owesWitness[a] /\ witness[a] = 0
      BY <1>1 DEF IInv, CallersTold, Told
    <3>2. witness'[a] = IF type[a] = "Store" THEN 1 ELSE 0
      BY <1>1, <1>2, <3>1 DEF TypeOK
    <3>3. pc'[a] = "find_action" /\ type' = type
      BY <1>1, <1>2 DEF TypeOK, access
    <3> QED BY <2>1, <3>2, <3>3 DEF Told
  <2>2. CASE b # a
    <3>1. witness'[b] = witness[b] /\ (Told(b)' <=> Told(b)) /\ pc'[b] = pc[b]
      BY <2>2, <1>1, <1>2 DEF TypeOK, access, Told
    <3>2. owesWitness'[b] = owesWitness[b]
      BY <2>2, <1>1, <1>2 DEF TypeOK
    <3> QED BY <3>1, <3>2 DEF IInv, CallersTold
  <2> QED BY <2>1, <2>2
<1>5. QueueWaits'
  BY <1>1, <1>2 DEF IInv, QueueWaits, TypeOK
<1>6. \A b \in Accesses : /\ InFlight(b)' <=> InFlight(b)
                          /\ pc'[b] = "idle" <=> pc[b] = "idle"
                          /\ pc'[b] = "lock" <=> pc[b] = "lock"
                          /\ pc[b] = "finish" => pc'[b] = "finish"
  BY <1>1, <1>2 DEF InFlight, TypeOK
<1> QED BY <1>1, <1>3, <1>4, <1>5, <1>6, QuietStep DEF IInv, TypeOK

LEMMA FindAndLockActionStep ==
  ASSUME IInv, NEW a \in Accesses, FindAndLockAction(a)
  PROVE  IInv'
<1>1. /\ pc[a] = "find_action"
      /\ portLocked' = [portLocked EXCEPT ![a] = FALSE]
      /\ UNCHANGED <<access, merging, waiting, owesWitness, witness>>
  BY DEF FindAndLockAction, count
<1>2. TypeOK
  BY DEF IInv
<1>3. CASE /\ portQueue = <<>>
           /\ ports' = ports \ {a} /\ pc' = [pc EXCEPT ![a] = "find_finish"]
           /\ UNCHANGED portQueue
  <2>1. TypeOK'
    BY <1>1, <1>2, <1>3 DEF TypeOK, access, merging, PCs
  <2>2. CallersTold' /\ QueueWaits'
    BY <1>1, <1>2, <1>3 DEF IInv, CallersTold, QueueWaits, Told, TypeOK, access
  <2>3. \A b \in Accesses : /\ InFlight(b)' <=> InFlight(b)
                            /\ pc'[b] = "idle" <=> pc[b] = "idle"
                            /\ pc'[b] = "lock" <=> pc[b] = "lock"
                            /\ pc[b] = "finish" => pc'[b] = "finish"
    BY <1>1, <1>2, <1>3 DEF InFlight, TypeOK
  <2> QED BY <1>1, <2>1, <2>2, <2>3, QuietStep DEF IInv, TypeOK
<1>4. CASE /\ portQueue # <<>>
           /\ ports' = (ports \ {a}) \cup {Head(portQueue)}
           /\ portQueue' = Tail(portQueue)
           /\ pc' = [pc EXCEPT ![a] = "find_finish", ![Head(portQueue)] = "find_port"]
  <2> DEFINE h == Head(portQueue)
  <2>1. /\ ports' = (ports \ {a}) \cup {h}
        /\ pc' = [pc EXCEPT ![a] = "find_finish", ![h] = "find_port"]
    BY <1>4
  <2>2. /\ h = portQueue[1] /\ h \in Accesses /\ Len(portQueue) \in Nat \ {0}
        /\ portQueue' \in Seq(Accesses)
        /\ Len(portQueue') = Len(portQueue) - 1
        /\ \A i \in 1..Len(portQueue') : portQueue'[i] = portQueue[i + 1]
        /\ \A i \in 1..Len(portQueue) : portQueue[i] \in Accesses
    BY <1>2, <1>4 DEF TypeOK
  <2> HIDE DEF h
  <2>3. pc[h] = "port_wait" /\ h # a
    <3>1. 1 \in 1..Len(portQueue)
      BY <2>2
    <3> QED BY <2>2, <3>1, <1>1 DEF IInv, QueueWaits
  <2>4. \A b \in Accesses : pc'[b] = IF b = a THEN "find_finish"
                                    ELSE IF b = h THEN "find_port" ELSE pc[b]
    BY <1>2, <2>1, <2>3 DEF TypeOK
  <2>5. TypeOK'
    <3>1. pc' \in [Accesses -> PCs]
      BY <1>2, <2>1, <2>2 DEF TypeOK, PCs
    <3>2. ports' \in SUBSET Accesses
      BY <1>2, <2>1, <2>2 DEF TypeOK
    <3>3. portLocked' \in [Accesses -> BOOLEAN]
      BY <1>1, <1>2 DEF TypeOK
    <3> QED BY <1>1, <1>2, <2>2, <3>1, <3>2, <3>3 DEF TypeOK, access, merging
  <2>6. CallersTold'
    BY <1>1, <2>3, <2>4 DEF IInv, CallersTold, Told, access
  <2>7. QueueWaits'
    <3>1. \A i \in 1..Len(portQueue') :
             i + 1 \in 1..Len(portQueue) /\ i + 1 # 1 /\ portQueue[i + 1] \in Accesses
      BY <2>2
    <3>2. \A i \in 1..Len(portQueue') : portQueue'[i] # h /\ portQueue'[i] # a
      <4> SUFFICES ASSUME NEW i \in 1..Len(portQueue')
                   PROVE  portQueue'[i] # h /\ portQueue'[i] # a
        OBVIOUS
      <4>1. portQueue'[i] = portQueue[i + 1] /\ i + 1 \in 1..Len(portQueue) /\ i + 1 # 1
        BY <2>2, <3>1
      <4>2. portQueue[i + 1] # portQueue[1] /\ pc[portQueue[i + 1]] = "port_wait"
        BY <2>2, <4>1 DEF IInv, QueueWaits
      <4> QED BY <2>2, <4>1, <4>2, <1>1
    <3>3. \A i \in 1..Len(portQueue') : pc'[portQueue'[i]] = "port_wait"
      BY <2>2, <2>4, <3>1, <3>2 DEF IInv, QueueWaits
    <3>4. \A i, j \in 1..Len(portQueue') : i # j => portQueue'[i] # portQueue'[j]
      <4> SUFFICES ASSUME NEW i \in 1..Len(portQueue'), NEW j \in 1..Len(portQueue'), i # j
                   PROVE  portQueue'[i] # portQueue'[j]
        OBVIOUS
      <4>1. i + 1 # j + 1 /\ i + 1 \in 1..Len(portQueue) /\ j + 1 \in 1..Len(portQueue)
        BY <3>1
      <4>2. portQueue'[i] = portQueue[i + 1] /\ portQueue'[j] = portQueue[j + 1]
        BY <2>2
      <4> QED BY <4>1, <4>2 DEF IInv, QueueWaits
    <3> QED BY <3>3, <3>4 DEF QueueWaits
  <2>8. \A b \in Accesses : /\ InFlight(b)' <=> InFlight(b)
                            /\ pc'[b] = "idle" <=> pc[b] = "idle"
                            /\ pc'[b] = "lock" <=> pc[b] = "lock"
                            /\ pc[b] = "finish" => pc'[b] = "finish"
    BY <1>1, <2>3, <2>4 DEF InFlight
  <2> QED BY <1>1, <2>5, <2>6, <2>7, <2>8, QuietStep DEF IInv, TypeOK
<1> QED BY <1>3, <1>4 DEF FindAndLockAction, Goto

LEMMA FindAndLockFinishStep ==
  ASSUME IInv, NEW a \in Accesses, FindAndLockFinish(a)
  PROVE  IInv'
<1>1. /\ pc[a] = "find_finish" /\ pc' = [pc EXCEPT ![a] = "finish"]
      /\ UNCHANGED <<access, waiting, merging, portLocked, ports, portQueue, owesWitness, witness>>
  BY DEF FindAndLockFinish, Goto, port, count
<1>2. TypeOK
  BY DEF IInv
<1>3. TypeOK'
  BY <1>1, <1>2 DEF TypeOK, access, merging, PCs
<1>4. QueueWaits'
  BY <1>1, <1>2, QueueElements DEF IInv, QueueWaits, TypeOK
<1>5. CallersTold'
  BY <1>1, <1>2 DEF IInv, CallersTold, Told, TypeOK, access
<1>6. \A b \in Accesses : /\ InFlight(b)' <=> InFlight(b)
                          /\ pc'[b] = "idle" <=> pc[b] = "idle"
                          /\ pc'[b] = "lock" <=> pc[b] = "lock"
                          /\ pc[b] = "finish" => pc'[b] = "finish"
  BY <1>1, <1>2 DEF InFlight, TypeOK
<1> QED BY <1>1, <1>3, <1>4, <1>5, <1>6, QuietStep DEF IInv, TypeOK
-----------------------------------------------------------------------------
\* What an access joins is of its type and block, and nothing that conflicts with
\* it is younger.
LEMMA CanCoalesceFacts ==
  ASSUME TypeOK, NEW t \in {"Load", "Store"}, NEW x \in Blocks, NEW b \in CanCoalesce(t, x)
  PROVE  /\ b \in Accesses /\ InFlight(b) /\ type[b] = t /\ block[b] = x
         /\ \A c \in Accesses : InFlight(c) /\ b < c => t = "Load" /\ type[c] = "Load" /\ block[c] # x
<1> DEFINE flying == {c \in Accesses : InFlight(c)}
           tail == {c \in flying : \A d \in flying : d >= c => type[d] = "Load"}
<1>1. CASE t = "Load"
  <2>1. b \in Youngest({c \in tail : block[c] = x})
    BY <1>1 DEF CanCoalesce
  <2>2. /\ b \in flying /\ block[b] = x /\ b \in tail
        /\ \A c \in tail : block[c] = x => c <= b
    BY <2>1 DEF Youngest
  <2>3. \A d \in flying : d >= b => type[d] = "Load"
    BY <2>2
  <2>4. type[b] = "Load"
    BY <2>2, <2>3, LocalAssumption DEF Accesses
  <2>5. ASSUME NEW c \in Accesses, InFlight(c), b < c
        PROVE  type[c] = "Load" /\ block[c] # x
    <3>1. c \in flying /\ type[c] = "Load"
      BY <2>2, <2>3, <2>5, LocalAssumption DEF Accesses
    <3>2. c \in tail
      BY <2>2, <2>3, <2>5, <3>1, LocalAssumption DEF Accesses
    <3> QED BY <2>2, <2>5, <3>1, <3>2, LocalAssumption DEF Accesses
  <2> QED BY <1>1, <2>2, <2>4, <2>5
<1>2. CASE t = "Store"
  <2>1. b \in Youngest(flying) /\ type[b] = "Store" /\ block[b] = x
    BY <1>2 DEF CanCoalesce
  <2>2. b \in flying /\ \A c \in flying : c <= b
    BY <2>1 DEF Youngest
  <2> QED BY <1>2, <2>1, <2>2, LocalAssumption DEF Accesses
<1> QED BY <1>1, <1>2

LEMMA MasterOfFacts ==
  ASSUME IInv, NEW b \in Accesses, InFlight(b)
  PROVE  /\ MasterOf(b) \in Accesses /\ MasterOf(b) <= b /\ InFlight(MasterOf(b))
         /\ master[MasterOf(b)] = 0
         /\ type[MasterOf(b)] = type[b] /\ block[MasterOf(b)] = block[b]
         /\ MasterOf(b) # b => master[b] = MasterOf(b)
<1>1. CASE master[b] = 0
  BY <1>1, LocalAssumption DEF MasterOf, Accesses
<1>2. CASE master[b] # 0
  <2>1. MasterOf(b) = master[b] /\ master[b] \in Accesses
    BY <1>2, LocalAssumption DEF IInv, TypeOK, MasterOf, Accesses
  <2> QED BY <1>2, <2>1, LocalAssumption DEF IInv, MastersInFlight, Accesses
<1> QED BY <1>1, <1>2

LEMMA IssueFacts ==
  ASSUME IInv, NEW t \in {"Load", "Store"}, NEW x \in Blocks, Issue(t, x),
         NEW n, n = issued + 1
  PROVE  /\ n \in Accesses /\ issued' = n
         /\ pc[n] = "idle" /\ ~InFlight(n) /\ waiting[n] = 0 /\ master[n] = 0
         /\ ~coalesced[n] /\ witness[n] = 0 /\ owesWitness[n]
         /\ \A c \in Accesses : c <= n \/ pc[c] = "idle"
         /\ \A c \in Accesses : InFlight(c) => c < n
         /\ type' = [type EXCEPT ![n] = t] /\ block' = [block EXCEPT ![n] = x]
         /\ type'[n] = t /\ block'[n] = x
         /\ \A c \in Accesses : c # n => type'[c] = type[c] /\ block'[c] = block[c]
         /\ UNCHANGED <<portLocked, ports, portQueue, owesWitness>>
<1>1. issued \in Nat /\ issued < MaxAccesses /\ issued' = n
  BY LocalAssumption DEF IInv, TypeOK, Issue
<1>2. n \in Accesses
  BY <1>1, LocalAssumption DEF Accesses
<1>3. pc[n] = "idle" /\ \A c \in Accesses : pc[c] # "idle" => c < n
  BY <1>1, <1>2, LocalAssumption DEF IInv, InOrderOfIssue, Accesses
<1>4. ~InFlight(n) /\ \A c \in Accesses : InFlight(c) => c < n
  BY <1>3 DEF InFlight
<1>5. waiting[n] = 0 /\ master[n] = 0 /\ ~coalesced[n]
  BY <1>2, <1>3, <1>4 DEF IInv, WaitsForOlder, Shape
<1>6. witness[n] = 0 /\ owesWitness[n]
  BY <1>2, <1>3 DEF IInv, CallersTold, Told
<1>7. /\ type' = [type EXCEPT ![n] = t] /\ block' = [block EXCEPT ![n] = x]
      /\ UNCHANGED <<portLocked, ports, portQueue, owesWitness>>
  BY <1>1 DEF Issue, port, count
<1>8. /\ type'[n] = t /\ block'[n] = x
      /\ \A c \in Accesses : c # n => type'[c] = type[c] /\ block'[c] = block[c]
  BY <1>2, <1>7 DEF IInv, TypeOK
<1>9. \A c \in Accesses : c <= n \/ pc[c] = "idle"
  BY <1>1, <1>2, <1>3, LocalAssumption DEF Accesses
<1> QED BY <1>1, <1>2, <1>3, <1>4, <1>5, <1>6, <1>7, <1>8, <1>9

\* An access that joins none goes to its lock event.
LEMMA IssueAloneStep ==
  ASSUME IInv, NEW t \in {"Load", "Store"}, NEW x \in Blocks, Issue(t, x),
         pc' = [pc EXCEPT ![issued'] = "lock"],
         UNCHANGED <<waiting, merging, count>>
  PROVE  IInv'
<1>1. PICK n : n = issued + 1
  OBVIOUS
<1>2. /\ n \in Accesses /\ issued' = n
      /\ pc[n] = "idle" /\ ~InFlight(n) /\ waiting[n] = 0 /\ master[n] = 0
      /\ ~coalesced[n] /\ witness[n] = 0 /\ owesWitness[n]
      /\ \A c \in Accesses : c <= n \/ pc[c] = "idle"
      /\ \A c \in Accesses : InFlight(c) => c < n
      /\ type' = [type EXCEPT ![n] = t] /\ block' = [block EXCEPT ![n] = x]
      /\ type'[n] = t /\ block'[n] = x
      /\ \A c \in Accesses : c # n => type'[c] = type[c] /\ block'[c] = block[c]
      /\ UNCHANGED <<portLocked, ports, portQueue, owesWitness>>
  BY <1>1, IssueFacts
<1>3. /\ pc' = [pc EXCEPT ![n] = "lock"]
      /\ UNCHANGED <<waiting, master, coalesced, numCoalesced, witness>>
  BY <1>2 DEF merging, count
<1>4. /\ pc'[n] = "lock" /\ InFlight(n)'
      /\ \A c \in Accesses : c # n => pc'[c] = pc[c] /\ (InFlight(c)' <=> InFlight(c))
  BY <1>2, <1>3 DEF IInv, TypeOK, InFlight
<1>5. TypeOK'
  <2>1. pc' \in [Accesses -> PCs] /\ n \in 0..MaxAccesses
    BY <1>2, <1>3, LocalAssumption DEF IInv, TypeOK, PCs, Accesses
  <2>2. type' \in [Accesses -> {"Load", "Store"}] /\ block' \in [Accesses -> Blocks]
    BY <1>2 DEF IInv, TypeOK
  <2> QED BY <1>2, <1>3, <2>1, <2>2 DEF IInv, TypeOK
<1>6. InOrderOfIssue'
  BY <1>1, <1>2, <1>4, LocalAssumption DEF IInv, InOrderOfIssue, TypeOK, Accesses
<1>7. QueueWaits'
  BY <1>2, <1>4, QueueElements DEF IInv, QueueWaits
<1>8. Shape'
  BY <1>2, <1>3, <1>4 DEF IInv, Shape
<1>9. CallersTold'
  BY <1>2, <1>3, <1>4 DEF IInv, CallersTold, Told
<1>10. WaitsForOlder'
  BY <1>2, <1>3, <1>4 DEF IInv, WaitsForOlder, Older
<1>11. MastersInFlight'
  <2> SUFFICES ASSUME NEW c \in Accesses, InFlight(c)', NEW m, m = master[c], m # 0
               PROVE  /\ m < c /\ InFlight(m)' /\ master[m] = 0 /\ waiting[c] = m
                      /\ type'[c] = type'[m] /\ block'[c] = block'[m]
    BY <1>3 DEF MastersInFlight, InFlight
  <2>1. c # n /\ InFlight(c) /\ m \in Accesses
    BY SMTT(30), <1>2, <1>4, LocalAssumption DEF IInv, TypeOK, Accesses
  <2>2. /\ m < c /\ InFlight(m) /\ master[m] = 0 /\ waiting[c] = m
        /\ type[c] = type[m] /\ block[c] = block[m]
    BY <2>1 DEF IInv, MastersInFlight
  <2>3. m # n
    BY <1>2, <2>2
  <2> QED BY <1>2, <1>4, <2>1, <2>2, <2>3
<1>12. SameMaster'
  <2> SUFFICES ASSUME NEW b \in Accesses, NEW c \in Accesses,
                      InFlight(b)', master[b] # 0, InFlight(c)', master[b] < c, c < b,
                      Conflict(c, b)'
               PROVE  master[c] = master[b]
    BY <1>3 DEF SameMaster
  <2>1. b # n /\ InFlight(b) /\ b < n
    BY <1>2, <1>4
  <2>2. c # n
    BY <2>1, <1>2, LocalAssumption DEF Accesses
  <2>3. InFlight(c) /\ Conflict(c, b)
    BY <1>2, <1>4, <2>1, <2>2 DEF Conflict
  <2> QED BY <2>1, <2>3 DEF IInv, SameMaster
<1>13. ConflictsInOrder'
  <2> SUFFICES ASSUME NEW c \in Accesses, NEW b \in Accesses,
                      Running(c)', b \in Older(c)', Conflict(c, b)'
               PROVE  /\ type'[c] = type'[b] /\ block'[c] = block'[b]
                      /\ coalesced[c] /\ coalesced[b]
                      /\ pc'[b] = "finish" /\ waiting[b] = 0
    BY <1>3 DEF ConflictsInOrder
  <2>1. c # n /\ Running(c)
    BY <1>3, <1>4 DEF Running
  <2>2. b # n
    BY <1>2, <2>1, LocalAssumption DEF Older, Running, Accesses
  <2>3. b \in Older(c) /\ Conflict(c, b)
    BY <1>2, <1>4, <2>1, <2>2 DEF Older, Conflict
  <2> QED BY <1>2, <1>4, <2>1, <2>2, <2>3 DEF IInv, ConflictsInOrder
<1>14. CoalescedCounted'
  <2>1. {b \in Accesses : InFlight(b) /\ coalesced[b]}'
          = {b \in Accesses : InFlight(b) /\ coalesced[b]}
    BY <1>2, <1>3, <1>4
  <2> QED BY <1>3, <2>1 DEF IInv, CoalescedCounted
<1> QED BY <1>5, <1>6, <1>7, <1>8, <1>9, <1>10, <1>11, <1>12, <1>13, <1>14 DEF IInv

\* An access that joins another waits for its master.
LEMMA IssueCoalescedStep ==
  ASSUME IInv, NEW t \in {"Load", "Store"}, NEW x \in Blocks, Issue(t, x),
         NEW b \in CanCoalesce(t, x),
         master' = [master EXCEPT ![issued'] = MasterOf(b)],
         coalesced' = [coalesced EXCEPT ![issued'] = TRUE],
         numCoalesced' = numCoalesced + 1,
         waiting' = [waiting EXCEPT ![issued'] = MasterOf(b)],
         pc' = [pc EXCEPT ![issued'] = "finish"],
         witness' = [witness EXCEPT ![issued'] = IF t = "Store" THEN @ + 1 ELSE @]
  PROVE  IInv'
<1>1. PICK n : n = issued + 1
  OBVIOUS
<1>2. /\ n \in Accesses /\ issued' = n
      /\ pc[n] = "idle" /\ ~InFlight(n) /\ waiting[n] = 0 /\ master[n] = 0
      /\ ~coalesced[n] /\ witness[n] = 0 /\ owesWitness[n]
      /\ \A c \in Accesses : c <= n \/ pc[c] = "idle"
      /\ \A c \in Accesses : InFlight(c) => c < n
      /\ type' = [type EXCEPT ![n] = t] /\ block' = [block EXCEPT ![n] = x]
      /\ type'[n] = t /\ block'[n] = x
      /\ \A c \in Accesses : c # n => type'[c] = type[c] /\ block'[c] = block[c]
      /\ UNCHANGED <<portLocked, ports, portQueue, owesWitness>>
  BY <1>1, IssueFacts
<1>3. /\ b \in Accesses /\ InFlight(b) /\ type[b] = t /\ block[b] = x
      /\ \A c \in Accesses : InFlight(c) /\ b < c =>
            t = "Load" /\ type[c] = "Load" /\ block[c] # x
  BY CanCoalesceFacts DEF IInv
<1>4. PICK m : m = MasterOf(b)
  OBVIOUS
<1>5. /\ m \in Accesses /\ m <= b /\ InFlight(m) /\ master[m] = 0
      /\ type[m] = t /\ block[m] = x
      /\ m # b => master[b] = m
  BY <1>3, <1>4, MasterOfFacts
<1>6. b < n /\ m < n
  BY <1>2, <1>3, <1>5
<1>7. /\ master' = [master EXCEPT ![n] = m] /\ waiting' = [waiting EXCEPT ![n] = m]
      /\ coalesced' = [coalesced EXCEPT ![n] = TRUE] /\ pc' = [pc EXCEPT ![n] = "finish"]
      /\ witness' = [witness EXCEPT ![n] = IF t = "Store" THEN @ + 1 ELSE @]
  BY <1>2, <1>4
<1>8. /\ pc'[n] = "finish" /\ master'[n] = m /\ waiting'[n] = m /\ coalesced'[n]
      /\ witness'[n] = IF t = "Store" THEN 1 ELSE 0
  BY <1>2, <1>7 DEF IInv, TypeOK
<1>9. \A c \in Accesses : c # n =>
         /\ pc'[c] = pc[c] /\ master'[c] = master[c] /\ waiting'[c] = waiting[c]
         /\ (coalesced'[c] <=> coalesced[c]) /\ witness'[c] = witness[c]
  BY <1>2, <1>7 DEF IInv, TypeOK
<1>10. InFlight(n)' /\ \A c \in Accesses : c # n => (InFlight(c)' <=> InFlight(c))
  BY <1>8, <1>9 DEF InFlight
<1>11. m # 0 /\ m # n /\ b # n
  BY <1>2, <1>3, <1>5, LocalAssumption DEF Accesses
<1>12. TypeOK'
  <2>1. n \in 0..MaxAccesses /\ m \in 0..MaxAccesses
    BY <1>2, <1>5, LocalAssumption DEF Accesses
  <2>2. type' \in [Accesses -> {"Load", "Store"}] /\ block' \in [Accesses -> Blocks]
    BY <1>2 DEF IInv, TypeOK
  <2>3. master' \in [Accesses -> 0..MaxAccesses] /\ waiting' \in [Accesses -> 0..MaxAccesses]
    <3>1. master \in [Accesses -> 0..MaxAccesses] /\ waiting \in [Accesses -> 0..MaxAccesses]
      BY DEF IInv, TypeOK
    <3> QED BY <3>1, <1>7, <2>1
  <2>4. coalesced' \in [Accesses -> BOOLEAN] /\ pc' \in [Accesses -> PCs]
    BY <1>7 DEF IInv, TypeOK, PCs
  <2>5. numCoalesced' \in Nat
    BY DEF IInv, TypeOK
  <2>6. witness' \in [Accesses -> Nat]
    <3>1. witness \in [Accesses -> Nat]
      BY DEF IInv, TypeOK
    <3> QED BY <3>1, <1>2, <1>7
  <2> QED BY <1>2, <2>1, <2>2, <2>3, <2>4, <2>5, <2>6 DEF IInv, TypeOK
<1>13. InOrderOfIssue'
  BY <1>1, <1>2, <1>8, <1>9, LocalAssumption DEF IInv, InOrderOfIssue, TypeOK, Accesses
<1>14. QueueWaits'
  BY <1>2, <1>9, QueueElements DEF IInv, QueueWaits
<1>15. Shape'
  BY <1>8, <1>9, <1>10, <1>11 DEF IInv, Shape
<1>16. CallersTold'
  BY <1>2, <1>8, <1>9 DEF IInv, CallersTold, Told
<1>17. WaitsForOlder'
  <2> SUFFICES ASSUME NEW c \in Accesses, waiting'[c] # 0
               PROVE  InFlight(c)' /\ waiting'[c] \in Older(c)'
    BY DEF WaitsForOlder
  <2>1. CASE c = n
    BY <2>1, <1>5, <1>6, <1>8, <1>10, <1>11 DEF Older
  <2>2. CASE c # n
    BY <2>2, <1>2, <1>9, <1>10 DEF IInv, WaitsForOlder, Older
  <2> QED BY <2>1, <2>2
<1>18. MastersInFlight'
  <2> SUFFICES ASSUME NEW c \in Accesses, InFlight(c)', NEW d, d = master'[c], d # 0
               PROVE  /\ d < c /\ InFlight(d)' /\ master'[d] = 0 /\ waiting'[c] = d
                      /\ type'[c] = type'[d] /\ block'[c] = block'[d]
    BY DEF MastersInFlight, InFlight
  <2>1. CASE c = n
    BY <2>1, <1>2, <1>5, <1>6, <1>8, <1>9, <1>10, <1>11
  <2>2. CASE c # n
    <3>1. InFlight(c) /\ d = master[c] /\ d \in Accesses
      BY <2>2, <1>9, <1>10, LocalAssumption DEF IInv, TypeOK, Accesses
    <3>2. /\ d < c /\ InFlight(d) /\ master[d] = 0 /\ waiting[c] = d
          /\ type[c] = type[d] /\ block[c] = block[d]
      BY <3>1 DEF IInv, MastersInFlight
    <3>3. d # n
      BY <1>2, <3>2
    <3> QED BY <2>2, <1>2, <1>9, <1>10, <3>1, <3>2, <3>3
  <2> QED BY <2>1, <2>2
<1>19. SameMaster'
  <2> SUFFICES ASSUME NEW a \in Accesses, NEW c \in Accesses,
                      InFlight(a)', master'[a] # 0, InFlight(c)', master'[a] < c, c < a,
                      Conflict(c, a)'
               PROVE  master'[c] = master'[a]
    BY DEF SameMaster
  <2>1. c # n
    BY <1>2, <1>10, LocalAssumption DEF Accesses
  <2>2. InFlight(c) /\ master'[c] = master[c]
    BY <2>1, <1>9, <1>10
  <2>3. CASE a # n
    <3>1. InFlight(a) /\ master'[a] = master[a] /\ Conflict(c, a)
      BY <2>1, <2>3, <1>2, <1>9, <1>10 DEF Conflict
    <3> QED BY <2>2, <3>1 DEF IInv, SameMaster
  <2>4. CASE a = n
    <3>1. "Store" \in {type[c], t} \/ block[c] = x
      BY <2>1, <2>4, <1>2 DEF Conflict
    <3>2. c <= b /\ Conflict(c, b)
      BY <2>2, <3>1, <1>3, LocalAssumption DEF Accesses, Conflict
    <3>3. m < c
      BY <2>4, <1>8
    <3>4. m # b /\ master[b] = m
      BY <3>2, <3>3, <1>3, <1>5, LocalAssumption DEF Accesses
    <3>5. CASE c = b
      BY <3>4, <3>5, <2>2, <2>4, <1>8
    <3>6. CASE c # b
      <4>1. c < b
        BY <3>2, <3>6, <1>3, LocalAssumption DEF Accesses
      <4>2. master[c] = master[b]
        BY <4>1, <3>2, <3>3, <3>4, <2>2, <1>3, <1>11 DEF IInv, SameMaster
      <4> QED BY <4>2, <3>4, <2>2, <2>4, <1>8
    <3> QED BY <3>5, <3>6
  <2> QED BY <2>3, <2>4
<1>20. ConflictsInOrder'
  <2> SUFFICES ASSUME NEW c \in Accesses, NEW d \in Accesses,
                      Running(c)', d \in Older(c)', Conflict(c, d)'
               PROVE  /\ type'[c] = type'[d] /\ block'[c] = block'[d]
                      /\ coalesced'[c] /\ coalesced'[d]
                      /\ pc'[d] = "finish" /\ waiting'[d] = 0
    BY DEF ConflictsInOrder
  <2>1. c # n
    BY <1>8, <1>11 DEF Running
  <2>2. Running(c)
    BY <2>1, <1>9 DEF Running, InFlight
  <2>3. d # n
    BY <1>2, <2>1, <2>2, LocalAssumption DEF Older, Running, Accesses
  <2>4. d \in Older(c) /\ Conflict(c, d)
    BY <1>2, <1>10, <2>1, <2>3 DEF Older, Conflict
  <2> QED BY <1>2, <1>9, <2>1, <2>2, <2>3, <2>4 DEF IInv, ConflictsInOrder
<1>21. CoalescedCounted'
  <2> DEFINE S == {c \in Accesses : InFlight(c) /\ coalesced[c]}
  <2>1. {c \in Accesses : InFlight(c) /\ coalesced[c]}' = S \cup {n}
    BY <1>2, <1>8, <1>9, <1>10
  <2>2. n \notin S
    BY <1>2
  <2>3. IsFiniteSet(S)
    <3>1. S \in SUBSET Accesses
      OBVIOUS
    <3> HIDE DEF S
    <3> QED BY <3>1, FiniteAccesses
  <2>4. numCoalesced = Cardinality(S)
    BY DEF IInv, CoalescedCounted
  <2> HIDE DEF S
  <2>5. Cardinality(S \cup {n}) = Cardinality(S) + 1
    BY <2>2, <2>3, FS_AddElement
  <2> QED BY <2>1, <2>4, <2>5 DEF CoalescedCounted
<1> QED BY <1>12, <1>13, <1>14, <1>15, <1>16, <1>17, <1>18, <1>19, <1>20, <1>21 DEF IInv

LEMMA IssueStep ==
  ASSUME IInv, NEW t \in {"Load", "Store"}, NEW x \in Blocks, Issue(t, x)
  PROVE  IInv'
<1>1. CASE pc' = [pc EXCEPT ![issued'] = "lock"] /\ UNCHANGED <<waiting, merging, count>>
  BY <1>1, IssueAloneStep
<1>2. CASE \E b \in CanCoalesce(t, x) :
             /\ master' = [master EXCEPT ![issued'] = MasterOf(b)]
             /\ coalesced' = [coalesced EXCEPT ![issued'] = TRUE]
             /\ numCoalesced' = numCoalesced + 1
             /\ waiting' = [waiting EXCEPT ![issued'] = MasterOf(b)]
             /\ pc' = [pc EXCEPT ![issued'] = "finish"]
             /\ witness' = [witness EXCEPT ![issued'] = IF t = "Store" THEN @ + 1 ELSE @]
  BY <1>2, IssueCoalescedStep
<1> QED BY <1>1, <1>2 DEF Issue, Goto
-----------------------------------------------------------------------------
\* When an access finishes, those that wait for it go on.  An access that it
\* wakes up as its master goes on together with all that conflict with it.
LEMMA FinishStep ==
  ASSUME IInv, NEW a \in Accesses, Finish(a)
  PROVE  IInv'
<1>1. /\ pc[a] = "finish" /\ waiting[a] = 0
      /\ witness' = [witness EXCEPT ![a] = IF type[a] = "Load" THEN @ + 1 ELSE @]
      /\ pc' = [pc EXCEPT ![a] = "done"]
      /\ numCoalesced' = IF coalesced[a] THEN numCoalesced - 1 ELSE numCoalesced
      /\ master' = [b \in Accesses |-> IF InFlight(b) /\ master[b] = a THEN 0 ELSE master[b]]
      /\ waiting' = [b \in Accesses |-> IF waiting[b] = a THEN 0 ELSE waiting[b]]
      /\ UNCHANGED <<issued, type, block, coalesced, portLocked, ports, portQueue, owesWitness>>
  BY DEF Finish, Goto, access, port
<1>2. InFlight(a) /\ a # 0 /\ master[a] = 0
  BY <1>1, LocalAssumption DEF IInv, MastersInFlight, InFlight, Accesses
<1>3. pc'[a] = "done" /\ \A c \in Accesses : c # a => pc'[c] = pc[c]
  BY <1>1 DEF IInv, TypeOK
<1>4. ~InFlight(a)' /\ \A c \in Accesses : c # a => (InFlight(c)' <=> InFlight(c))
  BY <1>3 DEF InFlight
<1>5. \A c \in Accesses : /\ waiting'[c] = IF waiting[c] = a THEN 0 ELSE waiting[c]
                          /\ InFlight(c) => master'[c] = IF master[c] = a THEN 0 ELSE master[c]
                          /\ master'[c] \in {0, master[c]}
  BY <1>1
<1>6. numCoalesced' = Cardinality({c \in Accesses : InFlight(c) /\ coalesced[c]}')
      /\ numCoalesced' \in Nat
  <2> DEFINE S == {c \in Accesses : InFlight(c) /\ coalesced[c]}
  <2>1. {c \in Accesses : InFlight(c) /\ coalesced[c]}' = S \ {a}
    BY <1>1, <1>4
  <2>2. IsFiniteSet(S)
    <3>1. S \in SUBSET Accesses
      OBVIOUS
    <3> HIDE DEF S
    <3> QED BY <3>1, FiniteAccesses
  <2>3. numCoalesced = Cardinality(S) /\ (coalesced[a] <=> a \in S)
    BY <1>2 DEF IInv, CoalescedCounted
  <2> HIDE DEF S
  <2>4. CASE coalesced[a]
    <3>1. a \in S /\ numCoalesced' = Cardinality(S) - 1
      BY <2>3, <2>4, <1>1
    <3>2. IsFiniteSet(S \ {a}) /\ Cardinality(S \ {a}) = Cardinality(S) - 1
      BY <2>2, <3>1, FS_RemoveElement
    <3>3. Cardinality(S \ {a}) \in Nat
      BY <3>2, FS_CardinalityType
    <3> QED BY <2>1, <3>1, <3>2, <3>3
  <2>5. CASE ~coalesced[a]
    <3>1. S \ {a} = S
      BY <2>3, <2>5
    <3> QED BY <2>1, <2>3, <2>5, <3>1, <1>1 DEF IInv, TypeOK
  <2> QED BY <2>4, <2>5
<1>7. TypeOK'
  <2>1. pc' \in [Accesses -> PCs] /\ witness' \in [Accesses -> Nat]
    BY <1>1 DEF IInv, TypeOK, PCs
  <2>2. master' \in [Accesses -> 0..MaxAccesses] /\ waiting' \in [Accesses -> 0..MaxAccesses]
    BY <1>1, LocalAssumption DEF IInv, TypeOK
  <2> QED BY <1>1, <1>6, <2>1, <2>2 DEF IInv, TypeOK
<1>8. InOrderOfIssue' /\ QueueWaits'
  <2>1. InOrderOfIssue'
    BY <1>1, <1>3 DEF IInv, InOrderOfIssue
  <2>2. QueueWaits'
    BY <1>1, <1>3, QueueElements DEF IInv, QueueWaits
  <2> QED BY <2>1, <2>2
<1>9. Shape'
  <2> SUFFICES ASSUME NEW c \in Accesses
               PROVE  /\ pc'[c] = "idle" => master'[c] = 0 /\ ~coalesced[c]
                      /\ InFlight(c)' /\ coalesced[c] => pc'[c] = "finish"
                      /\ InFlight(c)' /\ master'[c] # 0 => coalesced[c]
                      /\ waiting'[c] # 0 => pc'[c] = "lock" \/ master'[c] = waiting'[c]
    BY <1>1 DEF Shape
  <2>1. CASE c = a
    BY <2>1, <1>1, <1>2, <1>3, <1>4, <1>5
  <2>2. CASE c # a
    <3>1. waiting'[c] # 0 => waiting'[c] = waiting[c] /\ waiting[c] # a /\ InFlight(c)
      BY <1>5 DEF IInv, WaitsForOlder
    <3> QED BY <2>2, <3>1, <1>3, <1>4, <1>5 DEF IInv, Shape
  <2> QED BY <2>1, <2>2
<1>10. CallersTold'
  <2> SUFFICES ASSUME NEW c \in Accesses
               PROVE  /\ witness'[c] = IF Told(c)' THEN 1 ELSE 0
                      /\ pc'[c] \in {"idle", "lock", "find", "port_wait", "find_port"}
                            => owesWitness[c]
    BY <1>1 DEF CallersTold
  <2>1. CASE c = a
    <3>1. witness[a] = IF type[a] = "Store" THEN 1 ELSE 0
      BY <1>1 DEF IInv, CallersTold, Told
    <3>2. Told(a)' /\ type[a] \in {"Load", "Store"}
      BY <1>1, <1>3 DEF IInv, TypeOK, Told
    <3>3. witness'[a] = 1
      BY <3>1, <3>2, <1>1 DEF IInv, TypeOK
    <3> QED BY <2>1, <3>2, <3>3, <1>3
  <2>2. CASE c # a
    <3>1. witness'[c] = witness[c] /\ (Told(c)' <=> Told(c)) /\ pc'[c] = pc[c]
      BY <2>2, <1>1, <1>3 DEF IInv, TypeOK, Told
    <3> QED BY <3>1 DEF IInv, CallersTold
  <2> QED BY <2>1, <2>2
<1>11. WaitsForOlder'
  <2> SUFFICES ASSUME NEW c \in Accesses, waiting'[c] # 0
               PROVE  InFlight(c)' /\ waiting'[c] \in Older(c)'
    BY DEF WaitsForOlder
  <2>1. waiting'[c] = waiting[c] /\ waiting[c] # a /\ waiting[c] # 0 /\ c # a
    BY <1>1, <1>5
  <2> QED BY <2>1, <1>4 DEF IInv, WaitsForOlder, Older
<1>12. MastersInFlight'
  <2> SUFFICES ASSUME NEW c \in Accesses, InFlight(c)', NEW m, m = master'[c], m # 0
               PROVE  /\ m < c /\ InFlight(m)' /\ master'[m] = 0 /\ waiting'[c] = m
                      /\ type[c] = type[m] /\ block[c] = block[m]
    BY <1>1 DEF MastersInFlight, InFlight
  <2>1. c # a /\ InFlight(c) /\ m = master[c] /\ m # a
    BY <1>2, <1>4, <1>5
  <2>2. m \in Accesses
    BY <2>1, LocalAssumption DEF IInv, TypeOK, Accesses
  <2>3. /\ m < c /\ InFlight(m) /\ master[m] = 0 /\ waiting[c] = m
        /\ type[c] = type[m] /\ block[c] = block[m]
    BY <2>1 DEF IInv, MastersInFlight
  <2>4. master'[m] = 0
    BY <2>2, <2>3, <1>5
  <2> QED BY <2>1, <2>2, <2>3, <2>4, <1>4, <1>5
<1>13. SameMaster'
  <2> SUFFICES ASSUME NEW b \in Accesses, NEW c \in Accesses,
                      InFlight(b)', master'[b] # 0, InFlight(c)', master'[b] < c, c < b,
                      Conflict(c, b)'
               PROVE  master'[c] = master'[b]
    BY DEF SameMaster
  <2>1. /\ InFlight(b) /\ InFlight(c) /\ Conflict(c, b)
        /\ master'[b] = master[b] /\ master[b] # a
    BY <1>1, <1>4, <1>5 DEF Conflict
  <2>2. master[c] = master[b]
    BY <2>1 DEF IInv, SameMaster
  <2> QED BY <2>1, <2>2, <1>5
<1>14. ConflictsInOrder'
  <2> SUFFICES ASSUME NEW c \in Accesses, NEW b \in Accesses,
                      Running(c)', b \in Older(c)', Conflict(c, b)'
               PROVE  /\ type[c] = type[b] /\ block[c] = block[b]
                      /\ coalesced[c] /\ coalesced[b]
                      /\ pc'[b] = "finish" /\ waiting'[b] = 0
    BY <1>1 DEF ConflictsInOrder
  <2>1. /\ c # a /\ b # a /\ InFlight(c) /\ InFlight(b) /\ b < c /\ Conflict(c, b)
        /\ pc[c] # "lock" /\ pc'[b] = pc[b]
    BY <1>1, <1>3, <1>4 DEF Running, Older, Conflict
  <2>2. CASE waiting[c] = 0
    <3>1. Running(c) /\ b \in Older(c)
      BY <2>1, <2>2 DEF Running, Older
    <3>2. /\ type[c] = type[b] /\ block[c] = block[b] /\ coalesced[c] /\ coalesced[b]
          /\ pc[b] = "finish" /\ waiting[b] = 0
      BY <2>1, <3>1 DEF IInv, ConflictsInOrder
    <3> QED BY <2>1, <3>2, <1>5
  <2>3. CASE waiting[c] # 0
    <3>1. waiting[c] = a
      BY <2>3, <1>5 DEF Running
    <3>2. master[c] = a /\ coalesced[c]
      BY <2>1, <2>3, <3>1, <1>2 DEF IInv, Shape
    <3>3. a < c /\ type[c] = type[a] /\ block[c] = block[a]
      BY <2>1, <3>2, <1>2 DEF IInv, MastersInFlight
    <3>4. CASE a < b
      <4>1. master[b] = a
        BY <2>1, <3>2, <3>4, <1>2 DEF IInv, SameMaster, Conflict
      <4>2. coalesced[b] /\ pc[b] = "finish"
        BY <2>1, <4>1, <1>2 DEF IInv, Shape
      <4>3. waiting[b] = a /\ type[b] = type[a] /\ block[b] = block[a]
        BY <2>1, <4>1, <1>2 DEF IInv, MastersInFlight
      <4> QED BY <2>1, <3>2, <3>3, <4>2, <4>3, <1>5
    <3>5. CASE b < a
      <4>1. Running(a) /\ b \in Older(a) /\ Conflict(a, b)
        BY <2>1, <3>3, <3>5, <1>1, <1>2 DEF Running, Older, Conflict
      <4>2. /\ type[a] = type[b] /\ block[a] = block[b] /\ coalesced[b]
            /\ pc[b] = "finish" /\ waiting[b] = 0
        BY <4>1 DEF IInv, ConflictsInOrder
      <4> QED BY <2>1, <3>2, <3>3, <4>2, <1>5
    <3> QED BY <2>1, <3>4, <3>5, LocalAssumption DEF Accesses
  <2> QED BY <2>2, <2>3
<1>15. CoalescedCounted'
  BY <1>6 DEF CoalescedCounted
<1> QED BY <1>7, <1>8, <1>9, <1>10, <1>11, <1>12, <1>13, <1>14, <1>15 DEF IInv
-----------------------------------------------------------------------------
LEMMA IdleStep == IInv /\ UNCHANGED vars => IInv'
<1> SUFFICES ASSUME IInv, UNCHANGED vars PROVE IInv'
  OBVIOUS
<1>1. UNCHANGED <<access, merging, waiting, pc>>
  BY DEF vars, access, merging
<1>2. pc' \in [Accesses -> PCs]
  BY <1>1 DEF IInv, TypeOK
<1>3. TypeOK'
  BY DEF IInv, TypeOK, vars
<1>4. QueueWaits' /\ CallersTold'
  BY DEF IInv, QueueWaits, CallersTold, Told, vars
<1>5. \A b \in Accesses : InFlight(b)' <=> InFlight(b)
  BY <1>1 DEF InFlight
<1> QED BY <1>1, <1>2, <1>3, <1>4, <1>5, QuietStep DEF IInv

THEOREM InductiveInvariant == Spec => []IInv
<1>1. ASSUME IInv, [Next]_vars PROVE IInv'
  BY <1>1, IssueStep, LockWaitStep, LockStep, FindAndLockStep, FindAndLockPortStep,
     FindAndLockActionStep, FindAndLockFinishStep, FinishStep, IdleStep DEF Next, Step
<1> QED BY <1>1, InitIInv, PTL DEF Spec

\* The type invariant: every access is at an event of its chain, and the number of
\* coalesced accesses, of which FinishAccess subtracts, is never negative.
THEOREM TypeCorrect == Spec => []TypeOK
<1>1. IInv => TypeOK
  BY DEF IInv
<1> QED BY <1>1, InductiveInvariant, PTL

\* Accesses that conflict run in the order in which they were issued, although
\* coalesced ones are woken up by their master only.
THEOREM ConflictsOrdered == Spec => []ConflictsInOrder
<1>1. IInv => ConflictsInOrder
  BY DEF IInv
<1> QED BY <1>1, InductiveInvariant, PTL

\* Coalescing keeps one level of masters, and no access points to a master that
\* is over: what Module::Coalesce asserts and Module::FinishAccess resets.
THEOREM MastersAlive == Spec => []MastersInFlight
<1>1. IInv => MastersInFlight
  BY DEF IInv
<1> QED BY <1>1, InductiveInvariant, PTL

\* num_coalesced_accesses is the number of coalesced accesses in flight.
THEOREM CoalescedExact == Spec => []CoalescedCounted
<1>1. IInv => CoalescedCounted
  BY DEF IInv
<1> QED BY <1>1, InductiveInvariant, PTL

\* An access waits for an older one that is in flight, so its wake-up is to come
\* and there is no cycle of waiting accesses.
THEOREM WaitsAreAnswered == Spec => []WaitsForOlder
<1>1. IInv => WaitsForOlder
  BY DEF IInv
<1> QED BY <1>1, InductiveInvariant, PTL

\* The counter of the caller is incremented once for each access, by the port
\* event, by coalescing or at the end.
THEOREM CallersSignalledOnce == Spec => []SignalledOnce
<1>1. IInv => SignalledOnce
  BY DEF IInv, CallersTold, Told, SignalledOnce, TypeOK
<1> QED BY <1>1, InductiveInvariant, PTL
=============================================================================
