# A verification project for MMLMStore

MMLMStore is an LLVM pass and a simulator of a memory hierarchy. The pass
(`src/src`) moves the variables of a program into blocks of a scratchpad, the
*LMStore*, and makes every function allocate its block when it starts and
deallocate it when it returns. The simulator (`src/memory`) serves the accesses
of the program: those to LMStore addresses by an LMStore module, those of a
local memory by that memory, and all others by a hierarchy of caches with the
NMOESI protocol. The engine that runs the events (`esim`), the network and the
processors are not in this repository.

These TLA+ modules say what the accesses, their event chains and the tables do,
TLC checks their properties on small instances, and TLAPS proves the ones that
hold for every instance.

## The system

| Component | State | Operations | Talks to |
| --- | --- | --- | --- |
| LMStore tables (`LMStore.cc`) | LMRef (never changes), LMDir, `LMBIndex` | `FindBlock`, `allocateBlock`, `deallocateBlock`, `setBlockState`, `DecodeAddress` | called by the LMStore chains |
| LMStore chains (`SystemEvents.cc` 4309-5551) | frames, the queues of `Module` | load, store, alloc, dealloc, find_and_lock | `Module`, the tables, main memory by read requests |
| NMOESI chains (`SystemEvents.cc` 145-3798) | frames, a tree of calls for each access | load, store, nc_store, find_and_lock, evict, write_request, read_request, invalidate, message | `Module`, `Cache`, `Directory`, each other over the network |
| Flush chains (3801-3866) | frames | flush | caches |
| Local memory chains (3869-4307) | frames | load, store, find_and_lock | `Module` |
| `Module` | access lists, ports and their queue, coalescing, counters | `Access`, `StartAccess`, `FinishAccess`, `LockPort`, `UnlockPort`, `getInFlight...`, `FindBlock` | all chains |
| `Directory`, `Cache` | owner, sharers and lock of every entry; tag, state and transient tag of every block | `LockEntry`, `UnlockEntry`, `setOwner`, `setSharer`, `clearSharer`, `setBlock`, `ReplaceBlock` | NMOESI chains |
| LMStore pass (`LMStoreLLVM.cpp`) | call graph, blocks, their LMRef entries, room in the storage | `graphGen`, `LMRefMappingEntry`, `codeGen`, `blockDescriptorGen` | writes the program and `link.ld`, whose addresses the tables decode |
| `Manager` | chunks: pointers and holes | `Allocate`, `Free` | `Memory`; called by the CPU models |
| `Memory` | pages and their contents | map, unmap, read, write, protect, clone, save | `Manager`, `SpecMem` |
| `SpecMem` | copies of pages | read, write, clear | `Memory` |
| `Mmu` | address spaces, pages, `mem_map` | `TranslateVirtualAddress`, `TranslatePhysicalAddress` | leaves `mem_map` to the LMStore |
| `System`, `SystemConfig` | the modules and their wiring | reading of the configuration, reports, `SanityCheck` | all |

**How they interact.** A handler runs to its end in one go; the engine then runs
the next event of any frame. All interleaving is therefore between *events*: a
chain leaves its state in its frame and in shared tables, schedules an event
after a latency, calls another chain (whose last event resumes it), or is put in
the queue of a port, of a directory entry or of another access and is resumed
when that one is released. Messages travel over a network that may have no room.
The build defines `NDEBUG` (`src/memory/Makefile`), so no assertion stops a run.

**What is hard.** Accesses in flight overtake each other; state read by one event
is used by a later one; requests go down and up the hierarchy at the same time
and lock directory entries in opposite orders; an error in one of several
requests unwinds a chain that holds locks; waiters may be forgotten. Nothing is
persistent and no message is lost, so there is no recovery to look at. The
hazards are listed one by one, with their lines, in `PROJECT.json`. Two parts are
not concurrent and hard all the same: the pass writes a program whose addresses
another program decodes, and the allocator merges holes over histories of calls
that no test goes through.

**What makes each component correct.**
- Tables: the directory describes the blocks that active functions hold; no two
  of them share storage; the free pointer returns what it gave.
- LMStore chains: accesses that conflict run one after the other in the order of
  issue; each ends, completes once for its caller, and gives its port back;
  an allocation waits for all its reads and has their data.
- NMOESI chains, caches, directories: one writer or several readers; a directory
  knows the copies above; the lower cache has what the higher ones have; modified
  data is not dropped; locks are released by those who took them, and no circle
  of accesses waits.
- Local memory: coalesced accesses keep the order of conflicting ones, end with
  their master, and are signalled once.
- Allocator: blocks are apart and aligned, nothing but the owner changes what is in
  them, and pages come back. Speculation: a read sees the last speculative write.
  Translation: what the LMStore looks up later is the address that was translated.
- Pass: functions that may be active together have different LMRef entries, blocks
  fit the storage, and an operation arrives at the tables as it was meant.

## Modules

| Module | Models | Extends |
| --- | --- | --- |
| `LMStore` | the LMStore tables | - |
| `LMStoreProgram` | what a compiled program does to the tables (abstract for the pass) | `LMStore` |
| `LMStorePass` | call graph, LMRef entries, room for the blocks | - |
| `LMStoreAddress` | the addresses the pass writes and `DecodeAddress` reads | - |
| `CompiledProgram` | a program, compiled by the pass and run on the tables | the four above |
| `AccessOrder` | what the lock events promise: the order in which conflicting accesses run (abstract), and its theorem | - |
| `LMStoreAccess` | the LMStore event chains and the part of `Module` they use | `LMStore`, instance of `AccessOrder` |
| `LocalMemory` | the local memory chains, coalescing, ports | - |
| `CacheDirectory` | caches and directories of a hierarchy | - |
| `Coherence` | the NMOESI event chains | `CacheDirectory` |
| `Allocator` | what a guest expects of its memory (abstract) | - |
| `Memory`, `Manager`, `SpecMem`, `Mmu` | the classes of these names | `Manager` and `SpecMem`: `Memory` |
| `MemorySystem` | these four with a guest and a speculating context | `Manager`, `SpecMem`, `Mmu`, instance of `Allocator` |
| `CoherenceCopies` | what is known of the copies of a block while requests are on their way (an invariant), and proofs that events keep it | `Coherence_proofs` |
| `*_proofs` | the proofs about the module of that name; `CompiledProgram_proofs` has those about its parts too | it |
| `MC*` | instances for TLC | the above |

Operators whose comment begins "A variant with a bug" are not part of the
specifications: each is a plausible mistake in the code of the definition below
it, and `PROJECT.json` names the property that notices it.

### The pass and the tables: LMStore to CompiledProgram

`LMDir` and `LMBIndex` are the members of the same names; `LMBIndex` is an unsigned,
so it wraps at `Word`, and `LMDirIndex` is the member that stays 0. `LMStoreProgram`
has one action for each thing compiled code does: a function starts (`Enter`) and
returns (`Leave`), `main` returns in two steps (`LeaveMain`), and a block is written
(`Store`). Active functions have different LMRef entries there by assumption.

`LMStorePass` is where the entries come from. A function is its position in the
alphabetical order of names, in which `std::map` iterates; the functions of the
module are taken in the same order, `main` first. `LMRefMappingEntry` and `codeGen`
each deal with one function in a step, with the whole program as input: any call
graph and any sizes. `LMStoreAddress` has the arithmetic of the eight hexadecimal
digits in both directions, so that a digit in the wrong place shows.

`CompiledProgram` puts these together. The initial states are the inputs of the
pass; once the pass is done, functions call each other along the call graph
(`Call`, `Return`, `ReturnMain`, `StoreTo`), and every operation reaches the tables
through `DecodeAddress(blockDescriptorGen(...))`. `ImplementsProgram` says that
this is `LMStoreProgram`, for all programs that are `Apart` (no two functions on a
chain of calls have one entry) and `Linkable` (entries, identifiers and sizes below 256).
`Reaches` is the transitive closure of the call graph, and `blockSID` the counter from
which `codeGen` takes the identifier of a block. So the assumption of
`LMStoreProgram` is turned into a condition on the pass, and `program_shared_entry`
shows that the pass does not ensure it.

### LMStoreAccess

An access is the number of its frame, and so older accesses have smaller
numbers. `pc[a]` is the next event of the chain; `waiting[a]` is the access in
whose queue it is suspended; `find[a]` is the frame of its find-and-lock chain;
`reads[a]` are the read requests of an allocation. One action is one event:

| Event | Action |
| --- | --- |
| `Module::Access`, then `lmstore_load`, `_store`, `_alloc`, `_dealloc` | `Issue` |
| `lmstore_load_lock`, `_store_lock`, `_alloc_lock`, `_dealloc_lock` | `LoadLock`, `StoreLock`, `AllocLock`, `DeallocLock`: suspend, or call find-and-lock |
| `lmstore_find_and_lock`, `_port`, `_action`, `_finish` | `FindAndLock` (`LockPort`), `FindAndLockPort` (lookup), `FindAndLockAction` (`UnlockPort`), `FindAndLockFinish` |
| `lmstore_load_action`, `_store_action`, `_alloc_action`, `_dealloc_action` | `LoadAction`, `StoreAction`, `AllocAction`, `DeallocAction` |
| `read_request` and its reply, as an allocation sees them | `ReadRequest`, `ServeRead`, `RefuseRead` |
| `lmstore_alloc_process` | `AllocProcessRead`, once for each reply, or `AllocProcessNoRead` |
| `lmstore_*_unlock`, `lmstore_*_finish` with `FinishAccess` | `Unlock`, `Finish` |

`AccessOrder` says the same without chains: an access is queued, starts when
nothing older in flight conflicts with it, may go back to the queue, and ends.
Conflicting are a store and anything, two accesses to one block, and a load and an
allocation. In the refinement, `Status(a)` is "queued" as long as the next event is
the lock event, and "running" from there to the finish event.

### LocalMemory

As in `LMStoreAccess`, an access is the number of its frame, `pc[a]` its next event
and `waiting[a]` the access it is suspended behind. `master[a]` is
`Frame::master_frame` and `portLocked[a]` the flag that `canCoalesce` reads.

| Event | Action |
| --- | --- |
| `Module::Access`, `local_load`, `local_store` with `canCoalesce`, `Coalesce` | `Issue` |
| `local_load_lock`, `local_store_lock` | `LockWait`, `Lock` |
| `local_find_and_lock`, `_port`, `_action`, `_finish` | `FindAndLock`, `FindAndLockPort`, `FindAndLockAction`, `FindAndLockFinish` |
| `local_load_finish`, `local_store_finish` with `FinishAccess` | `Finish` |

### MemorySystem

`Memory` follows the contents of a few `Watched` addresses, because what is at one
address does not depend on what is at another; its pages are all there. `Manager` is
a set of chunks; each of `Allocate` and `Free` is one action, with the search for a
hole, the cut, the merges and the calls of `Memory`. `Allocator` does not know of
chunks: a block comes, at some address apart from the others, and goes, and only
stores of the guest change what is in it. In the refinement the blocks are the pointers.

Two places of this code may fail, and the model follows it there. After a merge with the
hole before, `MergeHoles` reads the address of the merged hole from a `Chunk` that
`Merge2Holes` has just freed (`Manager.cc:324`). It is the right one if the heap has
given that memory to the `Chunk` that `CreateHole` made since, as an allocator that
reuses the last block first does; if not, it is anything, and by it the code then
chooses the chunk it looks at and the page it unmaps and removes (331-336). So
`MergedAddresses` is every address after such a merge, and `GiveBackPage` does what
these lines do with it. If the merged hole is not a page, a wrong address does no harm:
no other hole is as long as a page. If it is one, the page is missed: it leaks, or another page is
unmapped. `misread` records that. The model does not follow the guest any
further then, `PagesAreUsed` says nothing of such a state, and `Allocator`, whose
variable `broken` is `misread` in the refinement, has broken its promise. What is
shown is thus that the Manager fails by this read only, and not that it does not fail.
The other place is the last page of the address space: the loops of `Map` and `Unmap`
never end there, because the tag wraps to 0 (`Memory.cc:347`, 366), so that neither
call has a step for a range that ends in it (`LoopEnds`). No property says that each
call returns.

`SpecMem` reads and writes copies of pages; `last_write` and `moments` are history
variables that say what a read may return. In `Mmu` a page is its number, in the order of
physical addresses, and `mem_map` the table that the LMStore reads some
events after the translation. The Mmu shares no variable with the rest, so in
`MemorySystem` a behaviour is one or the other, and their steps are not mixed.

### CacheDirectory and Coherence

`cache[m][w]` is the block in way `w` of module `m`, `dir[m][w]` its directory
entry with the lock. A frame is named by the path of calls that led to it, so
the parent of frame `p` is `Front(p)`, its access is `Head(p)`, and a chain that
returns removes its frame. The pseudo-event `"call"` is a frame that waits for
the chain it called; `"wait"` is one in the queue of a directory lock. Each
action stands for one event, or for a run of events between which no other frame
can see a difference: the events that send, receive and forward a message are
taken with the one before them, and the arbitrary delay until the find-and-lock
chain of the receiver looks at the directory is the time the message takes.
`unsaved` records the blocks that were written and whose data has not reached
main memory. It has no counterpart in the simulator, which moves no data, only
messages of a size that says whether they carry a block.

## Runs

| Run | Instance | Shows |
| --- | --- | --- |
| `program` | every call graph of `main` and 3 functions, with and without variables | the tables match the program; blocks apart, in the storage, all returned; entries of neighbours differ; implements `LMStoreProgram` |
| `program_overlap` | globals larger than a function's block | **violation**: blocks overlap |
| `program_shared_entry` | as `program`, chains of calls not apart | **violation**: the block of an active function is gone |
| `access` | 4 accesses, 2 blocks, an allocation of 2 reads, 1 port, 1 refusal | all safety properties of the chains, implements `AccessOrder`, every access finishes |
| `access_load_miss` | 2 ports | **violation**: a deallocation overtakes an older load |
| `access_lost_error` | 2 ports, several reads for one allocation | **violation**: a failed read is forgotten |
| `local` | 4 accesses, 2 blocks, 1 port | order, masters, counter, completion; every access finishes |
| `coherence` | A above LA; LA and LB above Mem; 2 blocks, 2 accesses | coherence, directory and lock properties; no deadlock |
| `coherence_nc` | A, B, LA above Mem; 2 blocks, 2 accesses, stores of both kinds | one writer with non-coherent stores; no data is lost |
| `coherence_nc_wait` | A, B above Mem | **violation**: an access waits for its own lock |
| `coherence_data_lost` | as `coherence`, 1 block | **violation**: modified data is dropped |
| `memory` | 5 pages of 4 units, 2 blocks at a time, 3 watched addresses | implements `Allocator` and pages do not leak, until `MergeHoles` misses one; speculative reads; recorded translations |

**Bounds.** `MaxAccesses` bounds the accesses issued to the LMStore or the local
memory: a race of these chains is between two or three accesses (one, the one it waits
for, and the one that one waits for; or a master, its slave and an access
between), and four show that with a fourth as bystander. `MaxReads` 2 lets the
requests of one allocation return in either order. `MaxRefusals` bounds how often main
memory refuses: one refusal reaches each error path. `Word` 24 and 32 let the free
pointer wrap. In the coherence runs accesses are reused, so there is no bound on
the length of a run, only on how many are in flight (`MaxInFlight`). One way for
each module makes every miss evict, also in main memory and at the level in
between; two blocks make blocks compete for it; the nested hierarchy has a module
that serves requests from above and from below at the same time. One set and one
sub-block are enough because blocks in different sets and sub-blocks of equal size
share no state.

In `program`, five entries are as many as the globals and the longest chain of calls
need, and a storage of four blocks is too small for all five, so that one may stay in
main memory; three functions are enough for an entry to be shared over one function
in between. A chain of calls has at most as many
functions as the program (`NumFunctions` in `Call`): with more, one of them is active
twice, which is possible for functions without a block and changes nothing. In
`memory`, sizes of 1, 2, 4 (a page) and 5 (more than a page) reach each branch
of `Allocate` and `Free`; two pointers at a time already leave a hole in front of,
behind and between blocks; three pages from `MapBaseAddress` up, the last of which can
only be searched and not mapped, and a large block that
needs one of them let `MapSpace` and `MapSpaceDown` meet; one speculative copy (`MaxPages` 1) lets writes be dropped. The memory is not safe
there, so that stores outside all blocks make pages that `MapSpace` has to avoid.

**Symmetry.** Blocks are interchangeable, and so are caches at the same place of a
hierarchy: no action treats one specially. Symmetry is used in runs of invariants
only.

**Deadlock.** It is checked in `coherence` and `memory`. The LMStore and local runs
stop at the bound on accesses, the program ends when `main` has returned, and in
`coherence_nc` the system really can stop, as `coherence_nc_wait` shows.

**Fairness.** The engine runs every event that is scheduled; that is the weak fairness
of `Step(a)` for every access in `LocalMemory`. In `LMStoreAccess`, `Fairness` is
weak fairness of `Progress`, all that is not a new access: every behaviour of `Progress`
alone is finite there, so that this one condition lets all of them end. The network
has room at some time, and main memory answers what it has received. It refuses only
`MaxRefusals` times: in the code, nothing bounds the refusals that contention with
caches can cause, so `EveryAccessFinishes` is about accesses that main memory does
not refuse for ever.

## What is proved

### The event chains of the LMStore

In `LMStoreAccess_proofs`, for all constants that satisfy `TableAssumption` and
`AccessAssumption` (any tables, program, number of accesses, ports, reads,
refusals):

- `TypeCorrect`: `TypeOK`.
- `Invariant`: `IInv`, the conjunction of `TypeOK`, `AllocTypesMatch` (the access
  type of an allocation is the operation of its address), `IssuedInOrder` (accesses
  not yet issued are the ones above `issued`, with nothing set), `PendingCountsReads`,
  `PortsWellUsed` and `WaitersWillBeWoken`. The last three are properties of
  the `access` run. They are inductive together with the first three, and not alone: that
  a counter is a cardinality says nothing of the next step unless the reads are of
  the type that is counted; that ports are used well needs the type of the queue;
  and that waiters wait for *older* accesses needs that an access not yet issued
  is older than none.
- `PendingExact`, `PortsExact`, `NoLostWakeup`: those three, from `IInv`.
- `Implementation`: `Spec => Order!Spec`. A step of a chain is `Issue`, `Start`,
  `Retry` or `End` of the abstract specification, or leaves it alone. The step that
  matters is `Start`: a lock event looks for *one* older access (the youngest
  allocation, the youngest store, one to the block), and the lemmas `YoungestExists`
  and `NoBlockersMayStart` show that finding none means there is none that conflicts.
- `AccessOrder!Serialized`: `ConflictsAreSerialized`, which is inductive as it stands,
  in the abstract specification; through `Implementation`, `Serialized` of the
  chains, and from it `StoreAlone`, `LoadsAfterAllocations` and `SameBlocksInOrder`:
  a store has the module to itself, a load waits for older allocations, and accesses
  to one block run in the order of issue.
- `CompletedOnce`: `CompletionSignalledOnce`, by `Counted`, which adds that an access
  not yet issued has counted nothing, to be inductive relative to `IInv`.
- `StoresFindTheirBlocks`: `StoreFindsBlock`, for programs that allocate an entry of
  the LMRef table once (`~Reuse`; without this, a hazard that has no property is in
  the way: an allocation does not wait for the older deallocation of its entry).
  Relative to `IInv` and `StoreAlone`, `StoresServed` is inductive: the program issues
  an allocation before the accesses to its block and the deallocation after them
  (`ProgramOrder`); nothing passes the lock event before an older store
  (`NothingOvertakesStores`), so that neither can the deallocation; and a block whose
  allocation is past its action, with no deallocation past its own, is in the directory
  (`BlocksPresent`). `access_load_miss` shows that the same is not true of loads.

### The tables under a compiled program

In `CompiledProgram_proofs`, for all tables and programs that satisfy
`TableAssumption` and `BlocksAssumption`:

- `TypeCorrect` and `DirectoryMatches`. The inductive invariant adds `EntriesDiffer`
  (active functions have different LMRef entries) to `DirectoryMatchesProgram`:
  without it, giving back one block could invalidate another. `RemoveKeeps` is one
  argument for both orders in which blocks go, the last one (`Leave`) and the first one
  (`LeaveMain`).
- `BlocksApart` and `SpaceReturned`: `NoOverlap` and `AllSpaceReturned` under
  `EqualSizes`, which says that all blocks have one size and that `LMRefSize` of them fit in
  an unsigned. This is exactly where the code is right: `deallocateBlock` gives
  back the size of entry 0, which is the size of the block then, and `program_overlap`
  shows what happens when it is not. The inductive invariant `Stacked` puts block
  `i` of the stack at `(i - 1) * Size` until `main` returns; the pigeonhole principle
  (`StackFits`) bounds the stack by the LMRef entries, so that the free pointer wraps to 0
  only when they are all in use.

### The pass

In `CompiledProgram_proofs`, for any number of functions, call graphs, sizes and entries
that satisfy `PassAssumption`:

- `NeighboursApart`: `NeighboursDiffer`. `isSafe` compares a new entry with those given
  so far, and the functions that come later compare with it; the inductive invariant
  `PassInv` adds that functions not yet mapped have entry 0 (`Uncoloured`).
- `EntriesAreFound`: a function with calls is left with entry 0 only if its neighbours
  have all others.
- `PassTypeCorrect`: among others, the room that `codeGen` counts down, an unsigned in
  the code, never goes below zero.

- `AllocationArrives` and `EntryArrives`: `DecodeAddress` inverts `blockDescriptorGen`
  for sizes, identifiers and entries below 256. The argument is that of the digits of a
  number, by `TwoDigits` and `EightDigits`.

### Compiled programs on the tables

In `CompiledProgram_proofs`, for any program, sizes and number of entries that satisfy
the assumptions of the parts and `CompiledAssumption`:

- `CompiledImplementsProgram`: `ImplementsProgram`. The hypotheses say that the
  constant `Functions` of `LMStoreProgram` holds every block that the pass may
  give to a function (`AllBlocks`), that only programs are run whose chains of calls are
  `Apart` (`OnlyApart`; `program_shared_entry` runs the others), and that `main` has the
  size that `Main` names (`MainSize`). The invariant `CInv` has the active functions
  as a chain in the call graph (`Chain`), and the stack of blocks as the blocks of those
  of them that have one, in the same order: `Frames` says so by a `position` of
  each block among the active functions. `Call` is then `Enter` or a stutter because
  the function that starts is reachable from all active ones, and so has none of their
  entries; and the address arrives by the theorems about the pass.
- `CompiledTypeCorrect`, and `CompiledAccessesHit`: until `main` returns, every access
  of an active function leads to the function's own block, "should always result
  in hit" (`SystemEvents.cc:4463`).
- `CompiledStorageSuffices` and `CompiledBlocksApart`: `StorageSuffices` and `NoOverlap`,
  for blocks of one size. The blocks in use belong to different functions, for each of
  which `codeGen` has taken the size off the room that it had (`RoomLeft`); the pigeonhole
  principle does the rest.

### The local memory

In `LocalMemory_proofs`, for any number of accesses, blocks and ports that satisfy
`LocalAssumption`, all invariants of the `local` run: `TypeCorrect`,
`ConflictsOrdered`, `MastersAlive`, `CoalescedExact`, `WaitsAreAnswered` and
`CallersSignalledOnce`, by `InductiveInvariant`. `IInv` adds to them

- `InOrderOfIssue` and `Shape`: accesses not issued are the ones above `issued`, and an
  access that is coalesced has only its finish event left;
- `QueueWaits`: those in the queue of a port wait for it, once each, so that its head
  may go on;
- `CallersTold`: where in its chain an access has been signalled;
- `SameMaster`: an access in flight between an access and its master, if it conflicts
  with it, has the same master. It is what makes coalescing keep the order, since all
  accesses that a master wakes up when it finishes run at once.

The lemmas `CanCoalesceFacts` and `NoBlockersNoConflict` say what the two searches in
the access lists find; then there is one lemma for each event.

### The memory of a guest

In `MemorySystem_proofs`, for pages, address spaces, sizes and alignments of any size, any
number of blocks, and any number of speculative copies. What does not satisfy
`ManagerAssumption` is alignments that do not divide a page; `NoneAssumption` says that
`None` is no contents of memory.

- `ManagerImplementsAllocator`: `ImplementsAllocator`, every step of the guest, the
  speculating context and the Mmu is a step of `Allocator` or a stutter, and `Allocator`
  breaks only in a release by which `MergeHoles` misses a page (`misread`, see
  MemorySystem above); how often the heap makes it do so is not known. The
  pointers are the blocks. `ChunksInv` says that pointers and holes lie apart, each
  within a page or filling its pages, and that together they cover exactly the pages
  that the Manager has mapped (`Layout`: the pages that a store of the guest to an
  address that is not its own has made are `stray`); and that no two holes of a page
  touch and none fills its page (`Merged`). `Layout` is needed for a block to be apart from
  the others: a new page is free only because what is not mapped has no chunk, and a
  hole may be cut only because nothing else is in it. `Merged` is what lets `Free`
  find at most one hole on either side (`MergeHoles`), and give back the page
  when it is empty. It also shows that a wrong address does no harm as long as the
  merged hole is not a page (`ReleaseStep`). Once a page is missed, `ChunksInv` is
  lost, and what remains are the types (`TypesInv`), which the speculation needs.
- `AllPagesAreUsed`: `PagesAreUsed`, from `Layout` and `Merged`.
- `MemorySystemTypeCorrect`, `ReadsOfSpeculation` (`SpeculativeReads`, by `SpecInv`, which
  relates what was copied to what memory held) and `SystemRecordsAddresses`.

`Min` and `Max`, by which `MapSpace` and `MapSpaceDown` choose addresses, are
`CHOOSE`s; `LeastNumber` and `GreatestNumber` show that there is something to choose, by
the well-ordering of finite subsets.

### The coherence protocol

In `Coherence_proofs`, `CoherenceCopies` and `CoherenceCopies_proofs`, for any hierarchy
of modules, numbers of ways, blocks and accesses in flight, and for loads and stores
(`AccessTypes \subseteq {"load", "store"}`; a non-coherent store does not release its
lock, see finding 5):

- `CoherenceTypes`: `TypeOK`;
- `UnlocksAreOwn`: `UnlocksOwnLock`, the assertion of `Directory::UnlockEntry`;
- `LocksReleased`: `LocksAreReleased`;
- `WaitersAreWoken`: `NoLostWakeup`;
- `EvictionsFindBlocks`: `EvictFindsBlock`, without which `evict_process`, which does not
  look at `block_not_found`, would write to another block's entry and unlock it;
- `BlocksAreBelow`: `LowerModuleHasBlock`, the first rule of `SanityCheck`;
- `CopiesKnownBelow` and `OwnersKnownBelow`: `CopiesAreKnown` and `OwnerIsKnown`, the second
  rule, for blocks at rest;
- `WritersAreAlone`: `SingleWriter`.

A hierarchy has finitely many modules, and none is below itself (`HierarchyAssumption`):
with a cycle, `ConfigSetModuleLevel` (`SystemConfig.cc:1476`) would not end.

The inductive invariant is `CopiesInv`, in two parts that need each other. The first,
`Inv`, is about frames and locks, and is kept by every step from a state in which
evictions find their blocks. The second, `Copies`, is about blocks, and gives just that.

`Inv` is a conjunction of three.

- `Sys` is about frames and locks. `Tree`: every frame but the access itself has a caller,
  which is at the event that waits for a chain of that kind (`CallOK`), and has no
  other child unless it is sending invalidations; `FrameOK` says for each kind at which
  events it can be, when it has a way, and when an error or `notFound` is set. `Locks`:
  a locked entry is locked for exactly one frame that `Holds` it, one of the access that
  the entry names, and a frame in a queue waits for an entry that is locked. `Holds`
  is a function of a frame's kind, event and way; that each event hands the lock on
  to its caller, keeps it or gives it back in step with the directory is the content of
  the proof. The call tree is needed because a lock is taken by a find-and-lock chain
  and released by the chain that called it, which has to be there, at the right event, and
  to work on the same module.
- `Storage`: the types of caches and directories; main memory's blocks are invalid,
  exclusive or modified, and no entry has main memory as a sharer or owner.
- `Lists`: the types of the lists of accesses and of `unsaved`.

`ChainStepInv` has one lemma for each event. Those that return to a caller use that it
waits (`CallOK`); those that call prove the same of the new frame; those that lock
or unlock use that there is one holder. `HoldersRelease` and `HoldersUnlock` draw the
conclusions.

`Copies` says what the caches and the directories below have to do with each other *while*
requests, replies, invalidations and evictions are between them.

- `Covered` is inclusion. A module *needs* a block in some right (to have it, or to write
  it) if it `Has` it or is `Due` to have it; then some way of the lower module has the
  block valid, and the entry has the module as a sharer, or, for the right to write, as the
  owner and only sharer. There are three exceptions, and each is a message on its way.
  A block is `Lost` when the lower module has processed its eviction and the reply has
  not come back: the cache still has the tag, and nobody counts on it. A module is
  `Asked` when an invalidation has taken it off the sharers and its request has
  not been answered: it still has a block that the directory does not know of. And a right is
  `Granted` when the lower module has replied and the block is not yet written
  into the cache: the directory knows a sharer that has nothing.
- `Single`: of the modules above one, if one needs a block to write it, no other needs it
  at all. `Quiet` is the same for a read request that has made the caches above give up the
  right to write, until it has set its block to shared.
- `Alone`: a write request that has invalidated the other sharers stays the only one while
  it goes down the hierarchy for the right to write.
- `Leaning`: what a frame has read of a block and entry is still true while it holds the
  lock: between two of its events others run, but not on the same entry. This is where
  "state read by one event and used by a later one" is shown to be harmless.
- `OneWayEach`: no block is in two ways of a module, counting what a locked way has been
  claimed for (the transient tag). `Above`: sharers and owners are modules above.
- `Calls`: what a frame and its caller agree on (the block, the way, errors).

That an eviction finds its block is part of `Calls`, and comes from `Covered`: until the
eviction is processed its block is not lost, so the lower module has the block in some
way, valid. If that way is not locked the lookup finds it; if it is, because the lower
module works on the block or is itself evicting it, the lookup ends with an error, which
the eviction expects.

The step lemmas have a common frame. `Fits` says of a frame that has changed what it
takes for the other frames not to notice; `EntryStep`, that a step which changes one entry and
some frames that fit keeps `Copies`; `HolderStep`, `FramesStep` and others are its special
cases for a frame with the lock, or for no change of entries. Each event then has a
lemma that says which frames it changes and why they fit. That an eviction or an
invalidation is the only one on its entry is `LoneEvict` and `LoneInvalidate`, from the
tree of calls and the one holder of a lock. `CopiesHold` and `WriterAlone` draw the
conclusions.

### The Mmu

In `MemorySystem_proofs`: `MmuTypeCorrect` and `AddressesAreRecorded`,
`RecordedAddresses` for any address spaces, pages and offsets. With the types it is
inductive: because the physical address of each recorded translation leads back to its
space and virtual address, a new translation to that address can only record the same
again (`RecordStep`).

**Only model-checked.** Liveness under fairness, which the prover does not reach;
`FreeSpaceReported`, which is about the sum of a set of sizes, a fold: that a sum grows by
what is added to the set needs induction over the set, for which the library's theorems
take an operator as a parameter, and the prover cannot instantiate one; and of
`Coherence`, `NeverPanics`, which takes the converse of `Covered` (a sharer has the block, or
is about to have it or to lose it), `NoCircularWait`, which is about paths in the
graph of waiting frames, and `ModifiedDataIsKept`, which is true only of some
hierarchies (finding 6). No module declares a `RECURSIVE` operator.

## Findings

Six statements of the repository about itself do not hold in the code; a run shows
each by a counterexample.

1. `program_overlap`: `deallocateBlock` (`LMStore.cc:472`) moves the free pointer
   back by the size of entry 0, because it uses the member `LMDirIndex`, not the local
   `LMDirIndx`. With blocks of equal size this cannot be seen (`program` passes).
2. `program_shared_entry`: `LMRefMappingEntry` (`LMStoreLLVM.cpp:804`) compares the
   entries of direct callers and callees only. A function may have the entry of its
   caller's caller, whose block its return makes invalid.
3. `access_load_miss`: a deallocation does not wait for older loads of the block
   (`SystemEvents.cc:5317`), whose lookup "should always result in hit".
4. `access_lost_error`: a read request that the network held back resets the error
   another request of the allocation has set (`SystemEvents.cc:2610`).
5. `coherence_nc_wait`: a non-coherent store whose eviction fails is retried without
   unlocking its directory entry (`SystemEvents.cc:899`), for which it then waits.
6. `coherence_data_lost`: a write request from below chooses its reply by the state
   that it read before it invalidated the caches above (`SystemEvents.cc:2382`); data
   that they sent meanwhile is dropped.

Number 5 takes a non-coherent store, and number 6 two levels of caches; the other
coherence properties hold in the presence of both.

A deallocation also decides on the write to memory by a field that nothing sets
(`SystemEvents.cc:5381`), so that no deallocation writes. The model does as the code
does, and the hazard is listed without a run.

## Not modelled, and why

- In the LMStore chains, coalescing: an access that could be coalesced waits for the
  older one instead, which is what the code does when `CanCoalesce` finds none.
  `LocalMemory` models it.
- Ports in the coherence model: they are taken and given back as in the LMStore and local
  chains, where they are modelled; here a free port is one of the arbitrary delays.
- The network: a message arrives after any time, and is neither lost nor duplicated.
- The counters that processors pass (`witness`), in the coherence model. In the LMStore
  model a store's counter is left out of `CompletionSignalledOnce`: two events
  increment it (lines 4850 and 4895).
- Flush chains, `FlushCache`, `RecursiveFlush`: they use a frame that nothing has set
  (`Module.cc:1363`), so there is no behaviour to model.
- `System` and `SystemConfig`: they create modules and event types, read the
  configuration and print reports, and have no state that changes afterwards. The
  rules that `SanityCheck` tests are properties of the coherence model.
- `src/benchmark`: inputs of the pass.
- In the pass, the rewriting of LLVM instructions and the layout of variables in a block;
  linking of blocks of 256 bytes and more, whose addresses have nine digits
  (`Linkable`). `src/link.ld` holds two such addresses (lines 89 and 90), so programs
  with them are written; what the linker makes of them is not in this repository.
- Two caches above one second-level cache. The chains are modelled for any tree, but no
  run has one in which a second-level cache gets modified data from one of its caches
  for another (`SystemEvents.cc:2922`); the state space is out of TLC's reach.
- In `Memory`, permissions, `Copy`, `Clone`, `Save`, `Load` and the heap break: each
  is a loop over pages or bytes without a decision that later steps depend on.
- In `Manager`, freeing what is not a pointer, which its callers do not do, and
  alignments that do not divide the size of a page, for which `Allocate` returns an
  address other than that of the pointer it made (`Manager.cc:101`).
- Several Mmus: `mem_map` is one table for all of them, though each numbers its pages
  from 0. The model is of a program with one.
- Several sub-blocks for a directory entry, statistics, reports.
- `BlkDescriptor` and `LMStorage`: no event reads them.

## What could follow

1. Progress of the coherence chains, with the strong fairness that the retry latencies
   justify; an abstract one-writer specification that `Coherence` implements.
2. The converse of inclusion in `Coherence`: what a sharer in a directory has, or is
   about to have. `NeverPanics` follows from it; and with the order in which requests lock
   entries down and up the hierarchy, `NoCircularWait`.
