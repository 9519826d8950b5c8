------------------------------ MODULE LMStore ------------------------------
(***************************************************************************)
(* The tables of one LMStore (src/memory/LMStore.cc): the LMRef table, the *)
(* LMDir table it points into, and the pointer LMBIndex to the first free  *)
(* byte of the storage.  The operations are the member functions that the  *)
(* event chains of src/memory/SystemEvents.cc call.                        *)
(*                                                                         *)
(* A virtual address of the LMStore segments is modelled by the fields     *)
(* DecodeAddress extracts from its hexadecimal digits; PhyToVirt is the    *)
(* identity on them, because Mmu::TranslateVirtualAddress records the      *)
(* virtual address of every physical address of those segments.            *)
(***************************************************************************)
EXTENDS Integers

CONSTANTS
    LMRefSize,  \* entries of the LMRef table
    LMDirSize,  \* entries of the LMDir table
    Word        \* number of values of an unsigned (2^32 in the code)

ASSUME TableAssumption ==
    /\ LMRefSize \in Nat \ {0}
    /\ LMDirSize \in Nat \ {0}
    /\ LMRefSize <= LMDirSize
    /\ Word \in Nat \ {0}

VARIABLES
    LMDir,      \* the directory: one entry per block held in the store
    LMBIndex    \* "a starting address to free space in the LMStorage"

tables == <<LMDir, LMBIndex>>
-----------------------------------------------------------------------------
OpCodes == {"NoReadAlloc", "Access", "NoWriteDealloc", "ReadAlloc", "WriteDealloc"}
AllocOps == {"NoReadAlloc", "ReadAlloc"}
DeallocOps == {"NoWriteDealloc", "WriteDealloc"}
BlockStates == {"I", "M", "E", "S"}
Unsigned == 0..(Word - 1)

\* The operators below take an address as DecodeAddress returns it: a record
\* with the fields op, ref (LMRefIndex), id (BlockID) and size (BlockSize).

DirEntry == [LMBIndex : Unsigned, BlockID : Nat, BlockSize : Unsigned,
             state : BlockStates]

\* initLMRef: entry i refers to directory entry i, and nothing changes it.
LMRef == [i \in 0..(LMRefSize - 1) |-> i]

\* The member LMDirIndex: the constructor sets it to 0, nothing changes it.
LMDirIndex == 0

Slot(a) == LMRef[a.ref]

TablesInit ==
    /\ LMDir = [i \in 0..(LMDirSize - 1) |->
                  [LMBIndex |-> 0, BlockID |-> 0, BlockSize |-> 0, state |-> "I"]]
    /\ LMBIndex = 0

FindBlock(a) == LMDir[Slot(a)].state # "I"

setBlockState(a, state) ==
    /\ LMDir' = [LMDir EXCEPT ![Slot(a)].state = state]
    /\ UNCHANGED LMBIndex

\* Variants of allocateBlock with a bug, which the properties must notice: the
\* free pointer does not wrap; it does not move; the entry keeps the BlockID of
\* the block that had it before.
allocateBlockNoWrap(a) ==
    IF a.op \in AllocOps
    THEN /\ LMDir' = [LMDir EXCEPT ![Slot(a)] =
                        [LMBIndex |-> LMBIndex, BlockID |-> a.id,
                         BlockSize |-> a.size, state |-> "E"]]
         /\ LMBIndex' = LMBIndex + a.size
    ELSE UNCHANGED tables

allocateBlockInPlace(a) ==
    IF a.op \in AllocOps
    THEN /\ LMDir' = [LMDir EXCEPT ![Slot(a)] =
                        [LMBIndex |-> LMBIndex, BlockID |-> a.id,
                         BlockSize |-> a.size, state |-> "E"]]
         /\ UNCHANGED LMBIndex
    ELSE UNCHANGED tables

allocateBlockOldID(a) ==
    IF a.op \in AllocOps
    THEN /\ LMDir' = [LMDir EXCEPT ![Slot(a)] =
                        [LMBIndex |-> LMBIndex, BlockID |-> @.BlockID,
                         BlockSize |-> a.size, state |-> "E"]]
         /\ LMBIndex' = (LMBIndex + a.size) % Word
    ELSE UNCHANGED tables

\* The test against LMStoreSize is commented out in the code: allocation
\* never fails, and the free pointer is an unsigned that wraps.
allocateBlock(a) ==
    IF a.op \in AllocOps
    THEN /\ LMDir' = [LMDir EXCEPT ![Slot(a)] =
                        [LMBIndex |-> LMBIndex, BlockID |-> a.id,
                         BlockSize |-> a.size, state |-> "E"]]
         /\ LMBIndex' = (LMBIndex + a.size) % Word
    ELSE UNCHANGED tables

\* A variant with a bug: deallocateBlock keeps the space.
deallocateBlockNoSpace(a) ==
    /\ LMDir' = [LMDir EXCEPT ![Slot(a)].state = "I"]
    /\ UNCHANGED LMBIndex

\* The size given back is that of the entry the member LMDirIndex names, not
\* that of the block being deallocated (the local LMDirIndx).
deallocateBlock(a) ==
    /\ LMDir' = [LMDir EXCEPT ![Slot(a)].state = "I"]
    /\ LMBIndex' = (LMBIndex - LMDir[LMDirIndex].BlockSize) % Word

TablesTypeOK ==
    /\ LMDir \in [0..(LMDirSize - 1) -> DirEntry]
    /\ LMBIndex \in Unsigned
=============================================================================
