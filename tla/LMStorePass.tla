---------------------------- MODULE LMStorePass ----------------------------
(***************************************************************************)
(* The LMStore pass (src/src/LMStoreLLVM.cpp, runOnModule).  It builds the *)
(* call graph, gives every function an entry of the LMRef table that its   *)
(* callers and callees do not have (LMRefMappingEntry), and then decides,  *)
(* function by function, which blocks have room in the LMStorage (codeGen).*)
(*                                                                         *)
(* A function is its position in the alphabetical order of the names, in   *)
(* which std::map iterates, and which is the order of the module here.     *)
(***************************************************************************)
EXTENDS Integers, FiniteSets

CONSTANTS
    NumFunctions,      \* the functions of the program are 1..NumFunctions
    CallGraphs,        \* the call graphs to compile: sets of pairs <<caller, callee>>
    BlockSizes,        \* the possible sizes of the local variables of a function
    GlobalsSize,       \* GBlock.block_size
    num_lmref_entries,
    lmstorage_size     \* the initial value of the variable of this name

Names == 1..NumFunctions

ASSUME PassAssumption ==
    /\ NumFunctions \in Nat \ {0}
    /\ CallGraphs \subseteq SUBSET (Names \X Names)
    /\ BlockSizes \subseteq Nat
    /\ num_lmref_entries \in Nat \ {0}
    /\ GlobalsSize \in Nat /\ lmstorage_size \in Nat
    /\ GlobalsSize <= lmstorage_size

VARIABLES
    calls,         \* callGraph: the pairs <<caller, callee>>
    block_size,    \* block_size of every function
    lmref_index,   \* Block::lmref_index of BIG; 0 until it is set
    mapped,        \* number of functions LMRefMappingEntry has dealt with
    generated,     \* number of functions codeGen has dealt with
    room,          \* what is left of lmstorage_size
    bypass         \* the functions whose blocks stay in main memory

passVars == <<calls, block_size, lmref_index, mapped, generated, room, bypass>>
-----------------------------------------------------------------------------
\* A variant with a bug: only the callees are neighbours.
EdgesCallees(f) == {g \in Names : <<f, g>> \in calls}

\* BIG[f].edges, which graphGen fills in both directions.
Edges(f) == {g \in Names : <<f, g>> \in calls \/ <<g, f>> \in calls}

\* isSafe: no neighbour has the entry.
isSafe(f, index) == \A g \in Edges(f) : lmref_index[g] # index

Candidates(f) == {index \in 1..(num_lmref_entries - 1) : isSafe(f, index)}

\* GlobVarGen has set the block of the globals aside.
PassInit ==
    /\ calls \in CallGraphs
    /\ block_size \in [Names -> BlockSizes]
    /\ lmref_index = [f \in Names |-> 0]
    /\ mapped = 0 /\ generated = 0
    /\ room = lmstorage_size - GlobalsSize
    /\ bypass = {}

\* LMRefMappingEntry, for the next function: the first entry that is safe.  A
\* function without calls is not in BIG, and one for which there is no such
\* entry is passed over: both keep 0, the entry of the globals.
LMRefMappingEntry ==
    LET f == mapped + 1
    IN  /\ mapped < NumFunctions
        /\ mapped' = f
        /\ IF Edges(f) # {} /\ Candidates(f) # {}
           THEN \E index \in Candidates(f) :
                   /\ \A other \in Candidates(f) : index <= other
                   /\ lmref_index' = [lmref_index EXCEPT ![f] = index]
           ELSE UNCHANGED lmref_index
        /\ UNCHANGED <<calls, block_size, generated, room, bypass>>

\* A variant with a bug: the room is not tested.
codeGenNoTest ==
    LET f == generated + 1
    IN  /\ mapped = NumFunctions /\ generated < NumFunctions
        /\ generated' = f
        /\ bypass' = IF block_size[f] = 0 THEN bypass \cup {f} ELSE bypass
        /\ room' = room - block_size[f]
        /\ UNCHANGED <<calls, block_size, lmref_index, mapped>>

\* codeGen, for the next function: its block is left out if there is no room.
codeGen ==
    LET f == generated + 1
    IN  /\ mapped = NumFunctions /\ generated < NumFunctions
        /\ generated' = f
        /\ IF block_size[f] > room
           THEN bypass' = bypass \cup {f} /\ UNCHANGED room
           ELSE /\ bypass' = IF block_size[f] = 0 THEN bypass \cup {f} ELSE bypass
                /\ room' = room - block_size[f]
        /\ UNCHANGED <<calls, block_size, lmref_index, mapped>>

PassNext == LMRefMappingEntry \/ codeGen

PassSpec == PassInit /\ [][PassNext]_passVars

PassDone == generated = NumFunctions
-----------------------------------------------------------------------------
PassTypeOK ==
    /\ calls \in CallGraphs
    /\ block_size \in [Names -> BlockSizes]
    /\ lmref_index \in [Names -> 0..(num_lmref_entries - 1)]
    /\ mapped \in 0..NumFunctions
    /\ generated \in 0..NumFunctions
    /\ room \in 0..lmstorage_size
    /\ bypass \subseteq Names

\* A function never gets the entry of a function that it calls or that calls
\* it (LMRefMappingEntry looks only at the entries given so far, function by
\* function), unless there is none left and it gets that of the globals.
NeighboursDiffer ==
    \A f, g \in Names :
        f # g /\ <<f, g>> \in calls =>
            lmref_index[f] # lmref_index[g] \/ lmref_index[f] = 0
=============================================================================
