---------------------------- MODULE AccessOrder ----------------------------
(***************************************************************************)
(* What a module of the memory system promises about the order of the      *)
(* accesses it is given, whatever event chain carries them out: an access  *)
(* is queued when it is issued, starts only when no older access that is   *)
(* in flight conflicts with it, may fail and be queued again, and ends.    *)
(* The detailed specifications of the chains implement this one.           *)
(***************************************************************************)
EXTENDS Integers, TLAPS

CONSTANTS
    MaxAccesses,   \* bound on the accesses issued
    AllocTypes     \* the access types that a load must not overtake

VARIABLES
    type,          \* the type of every access
    block,         \* the block of every access
    status         \* where every access is

vars == <<type, block, status>>

Accesses == 1..MaxAccesses
Statuses == {"idle", "queued", "running", "done"}

InFlight(a) == status[a] \in {"queued", "running"}
Older(a) == {b \in Accesses : b < a /\ InFlight(b)}

\* Nothing older conflicts with a: a store conflicts with everything, two
\* accesses to one block conflict, and a load conflicts with an allocation.
MayStart(a) ==
    \A b \in Older(a) :
        /\ "Store" \notin {type[a], type[b]}
        /\ block[a] # block[b]
        /\ type[a] = "Load" => type[b] \notin AllocTypes
-----------------------------------------------------------------------------
Init == status = [a \in Accesses |-> "idle"]

Issue(a) ==
    /\ status[a] = "idle"
    /\ \A b \in Accesses : status[b] = "idle" <=> b >= a
    /\ status' = [status EXCEPT ![a] = "queued"]
    /\ \A b \in Accesses \ {a} : type'[b] = type[b] /\ block'[b] = block[b]

Start(a) ==
    /\ status[a] = "queued" /\ MayStart(a)
    /\ status' = [status EXCEPT ![a] = "running"]
    /\ UNCHANGED <<type, block>>

Retry(a) ==
    /\ status[a] = "running"
    /\ status' = [status EXCEPT ![a] = "queued"]
    /\ UNCHANGED <<type, block>>

End(a) ==
    /\ status[a] = "running"
    /\ status' = [status EXCEPT ![a] = "done"]
    /\ UNCHANGED <<type, block>>

Next == \E a \in Accesses : Issue(a) \/ Start(a) \/ Retry(a) \/ End(a)

Spec == Init /\ [][Next]_vars
-----------------------------------------------------------------------------
\* Accesses that conflict never run together: the younger one has not started,
\* or has gone back to the queue, for as long as the older one is in flight.
ConflictsAreSerialized ==
    \A a, b \in Accesses :
        status[a] = "running" /\ b \in Older(a) =>
            /\ "Store" \notin {type[a], type[b]}
            /\ block[a] # block[b]
            /\ type[a] = "Load" => type[b] \notin AllocTypes
-----------------------------------------------------------------------------
\* ConflictsAreSerialized is inductive as it stands.  A step changes the status
\* of one access: only Start makes one run, and its guard is the invariant for
\* that access; Issue adds an access that is younger than every running one.
LEMMA SerializedStep ==
    ASSUME MaxAccesses \in Nat, DOMAIN status = Accesses,
           ConflictsAreSerialized, [Next]_vars
    PROVE  ConflictsAreSerialized' /\ DOMAIN status' = Accesses
<1>1. CASE UNCHANGED vars
    BY <1>1 DEF vars, ConflictsAreSerialized, Older, InFlight, Accesses
<1>2. ASSUME NEW c \in Accesses, Issue(c)
      PROVE  ConflictsAreSerialized' /\ DOMAIN status' = Accesses
    BY <1>2 DEF Issue, ConflictsAreSerialized, Older, InFlight, Accesses
<1>3. ASSUME NEW c \in Accesses, Start(c)
      PROVE  ConflictsAreSerialized' /\ DOMAIN status' = Accesses
    BY <1>3 DEF Start, MayStart, ConflictsAreSerialized, Older, InFlight, Accesses
<1>4. ASSUME NEW c \in Accesses, Retry(c) \/ End(c)
      PROVE  ConflictsAreSerialized' /\ DOMAIN status' = Accesses
    BY <1>4 DEF Retry, End, ConflictsAreSerialized, Older, InFlight, Accesses
<1> QED
    BY <1>1, <1>2, <1>3, <1>4 DEF Next

\* Whatever chain implements the order, the accesses that conflict run one
\* after the other, in the order of issue.
THEOREM Serialized ==
    ASSUME MaxAccesses \in Nat
    PROVE  Spec => []ConflictsAreSerialized
<1> DEFINE Inv == ConflictsAreSerialized /\ DOMAIN status = Accesses
<1>1. Init => Inv
    BY DEF Init, ConflictsAreSerialized, Older, InFlight, Accesses
<1>2. Inv /\ [Next]_vars => Inv'
    BY SerializedStep
<1> QED
    BY <1>1, <1>2, PTL DEF Spec
=============================================================================
