-------------------------- MODULE CompiledProgram --------------------------
(***************************************************************************)
(* The LMStore pass compiles a program, and the program then runs against  *)
(* the tables of the LMStore.  The call graph decides what is active       *)
(* together; the entries are those the pass has chosen; the operations     *)
(* reach the tables by the addresses that the pass has generated.          *)
(*                                                                         *)
(* The program implements LMStoreProgram, whose functions never share an   *)
(* entry while they are active, if the pass has kept its chains of calls   *)
(* apart.                                                                  *)
(***************************************************************************)
EXTENDS LMStoreProgram, LMStorePass, LMStoreAddress

CONSTANT
    OnlyApart   \* run only the programs whose chains of calls are apart

ASSUME CompiledAssumption ==
    /\ OnlyApart \in BOOLEAN
    /\ num_lmref_entries <= LMRefSize
    /\ Globals.size = GlobalsSize /\ Globals.id = 100

VARIABLE
    active      \* the active functions, from main to the innermost one

cvars == <<tables, stack, returned, passVars, active>>

\* The name of main comes first.
main == 1

\* f may call g, directly or by others: g is in every set of functions that has
\* the callees of f and those of its members.
Reaches(f, g) ==
    \A S \in SUBSET Names :
        (\A h, k \in Names : h \in S \cup {f} /\ <<h, k>> \in calls => k \in S) => g \in S

\* The functions with a block that may run.
Users == {f \in Names \ bypass : f = main \/ Reaches(main, f)}

\* No function has the entry of the globals or of another function that is
\* active with it, and none that has a block calls itself.
Apart ==
    /\ main \in Users
    /\ \A f \in Users : lmref_index[f] # 0
    /\ \A f, g \in Users : Reaches(f, g) => lmref_index[f] # lmref_index[g]

\* The identifier of a block: codeGen counts the functions for which it calls
\* blockDescriptorGen, which are those without a block too.
blockSID(f) == Cardinality({g \in 1..f : g \notin bypass \/ block_size[g] = 0})

\* The linker takes addresses of eight digits.
Linkable ==
    /\ GlobalsSize < 256
    /\ \A f \in Names \ bypass :
          lmref_index[f] < 256 /\ blockSID(f) < 256 /\ block_size[f] < 256

Runs == PassDone /\ Linkable /\ (OnlyApart => Apart)

BlockOf(f) == [ref |-> lmref_index[f], id |-> blockSID(f), size |-> block_size[f]]

\* A variant with a bug: the size is written where the identifier belongs.
ArrivesSwapped(b, op) == DecodeAddress(blockDescriptorGen(op, b.ref, b.size, b.id))

\* The address of an operation, as it arrives at the LMStore.
Arrives(b, op) == DecodeAddress(blockDescriptorGen(op, b.ref, b.id, b.size))
-----------------------------------------------------------------------------
CompiledInit == PassInit /\ Init /\ active = <<>>

Allocate(b) ==
    /\ allocateBlock(Arrives(b, "NoReadAlloc"))
    /\ stack' = Append(stack, b)

Deallocate(i) ==
    /\ deallocateBlock(Arrives(stack[i], "NoWriteDealloc"))
    /\ stack' = SubSeq(stack, 1, i - 1) \o SubSeq(stack, i + 1, Len(stack))

\* The program starts in main, and there with the block of the globals.
StartMain ==
    /\ active = <<>> /\ stack = <<>> /\ ~returned
    /\ Runs
    /\ Allocate(Globals)
    /\ UNCHANGED <<returned, passVars, active>>

\* A function starts, and allocates its block if it has one.
Call(f) ==
    /\ stack # <<>> /\ ~returned
    /\ IF active = <<>> THEN f = main ELSE <<active[Len(active)], f>> \in calls
    /\ Len(active) < NumFunctions   \* a bound on recursion
    /\ active' = Append(active, f)
    /\ IF f \in bypass THEN UNCHANGED <<tables, stack>> ELSE Allocate(BlockOf(f))
    /\ UNCHANGED <<returned, passVars>>

\* The innermost active function returns to its caller.
Return ==
    /\ Len(active) > 1
    /\ active' = SubSeq(active, 1, Len(active) - 1)
    /\ IF active[Len(active)] \in bypass
       THEN UNCHANGED <<tables, stack>>
       ELSE Deallocate(Len(stack))
    /\ UNCHANGED <<returned, passVars>>

\* main returns: the block of the globals goes first.
ReturnMain ==
    /\ Len(active) = 1
    /\ stack # <<>>
    /\ Deallocate(1)
    /\ returned' = TRUE
    /\ UNCHANGED <<passVars, active>>

\* A store to a variable of a block in use.
StoreTo(i) ==
    /\ i \in 1..Len(stack)
    /\ FindBlock(Arrives(stack[i], "Access"))
    /\ setBlockState(Arrives(stack[i], "Access"), "M")
    /\ UNCHANGED <<stack, returned, passVars, active>>

CompiledNext ==
    \/ PassNext /\ UNCHANGED <<tables, stack, returned, active>>
    \/ StartMain
    \/ \E f \in Names : Call(f)
    \/ Return
    \/ ReturnMain
    \/ \E i \in 1..(NumFunctions + 1) : StoreTo(i)

CompiledSpec == CompiledInit /\ [][CompiledNext]_cvars
-----------------------------------------------------------------------------
CompiledTypeOK ==
    /\ TypeOK
    /\ PassTypeOK
    /\ active \in Seq(Names)

\* A program whose chains of calls are apart behaves as LMStoreProgram says,
\* through the addresses that blockDescriptorGen writes and DecodeAddress reads.
ImplementsProgram == Spec

\* allocateBlock does not test for free space.  What a program allocates fits
\* nevertheless, since codeGen leaves out the blocks for which there is no room.
StorageSuffices ==
    \A i \in 1..Len(stack) :
        LET e == LMDir[Slot(stack[i])]
        IN  e.LMBIndex + e.BlockSize <= lmstorage_size

\* "Should always result in hit" (SystemEvents.cc:4463 and 4687): until main
\* returns, an access to a variable of an active function finds its block.
EveryAccessHits ==
    ~returned => \A i \in 1..Len(stack) : FindBlock(Arrives(stack[i], "Access"))
=============================================================================
