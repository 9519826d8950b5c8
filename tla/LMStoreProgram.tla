--------------------------- MODULE LMStoreProgram ---------------------------
(***************************************************************************)
(* A program compiled by the LMStore pass, running against the tables with *)
(* each access completing before the next one starts.  codeGen in          *)
(* src/src/LMStoreLLVM.cpp makes a function allocate its block on entry    *)
(* and deallocate it before every return.  The block M of the global       *)
(* variables has LMRef entry 0; main allocates it before its own block and *)
(* deallocates it, before its own, when it returns.                        *)
(***************************************************************************)
EXTENDS LMStore, Sequences

CONSTANTS
    Globals,    \* the block M: a record [ref, id, size]
    Main,       \* the block of main
    Functions   \* the blocks of the other functions

Blocks == Functions \cup {Globals, Main}

ASSUME BlocksAssumption ==
    /\ Blocks \subseteq [ref : 0..(LMRefSize - 1), id : Nat, size : Unsigned]
    /\ Globals.ref = 0
    /\ \A b \in Blocks \ {Globals} : b.ref # 0
    /\ \A f \in Functions : f.ref # Main.ref

VARIABLES
    stack,      \* the blocks in use, in the order of their allocation
    returned    \* main has reached its return instruction

pvars == <<LMDir, LMBIndex, stack, returned>>

\* The address the pass gives to operation op on block b.
AddressOf(b, op) == [op |-> op, ref |-> b.ref, id |-> b.id, size |-> b.size]

InUse(b) == \E i \in 1..Len(stack) : stack[i] = b

Init == TablesInit /\ stack = <<>> /\ returned = FALSE

\* A function starts: codeGen puts the allocation of its block, and in main that
\* of the globals before it, in front of its first instruction.
Start(b) ==
    /\ ~returned
    /\ CASE Len(stack) = 0 -> b = Globals
         [] Len(stack) = 1 -> b = Main
         [] OTHER          -> b \in Functions
    /\ allocateBlock(AddressOf(b, "NoReadAlloc"))
    /\ stack' = Append(stack, b)
    /\ UNCHANGED returned

\* The programs of this module are those in which no two active functions have
\* one LMRef entry.  CompiledProgram shows which ones these are.
Enter(b) ==
    /\ \A i \in 1..Len(stack) : stack[i].ref # b.ref
    /\ Start(b)

\* The innermost active function, other than main, returns.
Leave ==
    /\ Len(stack) > 2
    /\ deallocateBlock(AddressOf(stack[Len(stack)], "NoWriteDealloc"))
    /\ stack' = SubSeq(stack, 1, Len(stack) - 1)
    /\ UNCHANGED returned

\* main returns: first the block of the globals goes, then its own.
LeaveMain ==
    /\ Len(stack) = 2 \/ (returned /\ Len(stack) = 1)
    /\ deallocateBlock(AddressOf(stack[1], "NoWriteDealloc"))
    /\ stack' = Tail(stack)
    /\ returned' = TRUE

\* A store to a variable of a block in use; loads leave the tables alone.
Store(b) ==
    /\ InUse(b)
    /\ FindBlock(AddressOf(b, "Access"))
    /\ setBlockState(AddressOf(b, "Access"), "M")
    /\ UNCHANGED <<stack, returned>>

Next ==
    \/ \E b \in Blocks : Enter(b)
    \/ Leave
    \/ LeaveMain
    \/ \E b \in Blocks : Store(b)

Spec == Init /\ [][Next]_pvars
-----------------------------------------------------------------------------
TypeOK ==
    /\ TablesTypeOK
    /\ stack \in Seq(Blocks)
    /\ returned \in BOOLEAN

\* The directory describes exactly the blocks the program holds: an entry is
\* valid if and only if an active function owns it, and then it holds that
\* function's block identifier and size (allocateBlock and deallocateBlock of
\* LMStore.cc, over any history of calls of functions that share entries).
DirectoryMatchesProgram ==
    /\ \A i \in 1..Len(stack) :
          LET e == LMDir[Slot(stack[i])]
          IN  /\ e.state \in {"E", "M"}
              /\ e.BlockID = stack[i].id
              /\ e.BlockSize = stack[i].size
    /\ \A r \in 0..(LMDirSize - 1) :
          LMDir[r].state # "I" => \E i \in 1..Len(stack) : Slot(stack[i]) = r

\* The bytes of the storage that the directory gives to block b.
Extent(b) == LET e == LMDir[Slot(b)]
             IN  e.LMBIndex .. (e.LMBIndex + e.BlockSize - 1)

\* No byte of the storage belongs to two blocks in use: LMBIndex really is "a
\* starting address to free space in the LMStorage" (LMStore.h:105) whenever
\* allocateBlock takes space from it.
NoOverlap ==
    \A i, j \in 1..Len(stack) :
        i # j => Extent(stack[i]) \cap Extent(stack[j]) = {}

\* What the blocks of a program took, deallocateBlock has given back when main
\* has returned: the free pointer is at the start of the storage again.
AllSpaceReturned == returned /\ stack = <<>> => LMBIndex = 0
=============================================================================
