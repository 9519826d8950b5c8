---------------------------- MODULE MemorySystem ----------------------------
(***************************************************************************)
(* The memory of a guest program with all that works on it: the Manager    *)
(* gives out blocks, a context speculates on the same memory, other        *)
(* contexts store to it meanwhile, and an Mmu translates addresses.  The   *)
(* guest stores to its blocks, and, if the memory is not safe, also to     *)
(* addresses that belong to no block.  A speculating context goes anywhere.*)
(*                                                                         *)
(* Once MergeHoles has missed a page (misread) nothing is known of what    *)
(* the Manager does next, and the model does not follow the guest further. *)
(***************************************************************************)
EXTENDS Manager, SpecMem, Mmu

CONSTANT None

ASSUME NoneAssumption == None \notin Values

VARIABLES
    last_write,   \* history: the last speculative write to every address, or None
    moments,      \* history: what was there during this speculation
    stray         \* history: the pages that a store outside all blocks has made

history == <<last_write, moments, stray>>
sysVars == <<memoryVars, managerVars, specVars, mmuVars, history>>

MemorySystemTypeOK ==
    /\ MemoryTypeOK /\ ManagerTypeOK /\ SpecTypeOK /\ MmuTypeOK
    /\ last_write \in [Watched -> Values \cup {None}]
    /\ moments \in [Watched -> SUBSET Values]
    /\ stray \subseteq Tags
    /\ misread \in BOOLEAN

MemorySystemInit ==
    /\ MemoryInit /\ chunks = {} /\ misread = FALSE /\ SpecInit /\ MmuInit
    /\ last_write = [a \in Watched |-> None]
    /\ moments = [a \in Watched |-> {0}]
    /\ stray = {}

\* What is at the addresses now is part of what was there; a new speculation
\* begins with nothing else.
Remember ==
    moments' = [a \in Watched |->
                   (IF copied' = {} THEN {} ELSE moments[a]) \cup {data'[a]}]

Covers(c, a) == a \in c.address..(c.address + c.size - 1)

Alloc(size, alignment) == Allocate(size, alignment) /\ UNCHANGED stray

Release(p) == Free(p) /\ UNCHANGED stray

\* A store to a block.
StoreInBlock(a, v) ==
    /\ \E p \in Pointers : Covers(p, a)
    /\ Write(a, v)
    /\ UNCHANGED <<managerVars, stray>>

\* A store elsewhere.
StoreOutside(a, v) ==
    /\ ~Safe
    /\ \A p \in Pointers : ~Covers(p, a)
    /\ Write(a, v)
    /\ stray' = IF PageOf(a) \in pages THEN stray ELSE stray \cup {PageOf(a)}
    /\ UNCHANGED managerVars

GuestNext ==
    /\ ~misread
    /\ \/ \E size \in Sizes, alignment \in Alignments : Alloc(size, alignment)
       \/ \E p \in Pointers : Release(p)
       \/ \E a \in Watched, v \in Values : StoreInBlock(a, v) \/ StoreOutside(a, v)
    /\ UNCHANGED <<specVars, last_write>>
    /\ Remember

Speculate(a, v) ==
    /\ SpecWrite(a, v)
    /\ last_write' = [last_write EXCEPT ![a] = v]

EndSpeculation ==
    /\ copied # {}
    /\ Clear
    /\ last_write' = [a \in Watched |-> None]

ContextNext ==
    /\ EndSpeculation \/ \E a \in Watched, v \in Values : Speculate(a, v)
    /\ UNCHANGED <<memoryVars, managerVars, stray>>
    /\ Remember

\* The Mmu shares no variable with the rest, so that it does not matter in which
\* order their steps are mixed: the Mmu runs alone, and the rest without it.
MemorySystemNext ==
    \/ (GuestNext \/ ContextNext) /\ mmu_pages = <<>> /\ UNCHANGED mmuVars
    \/ MmuNext /\ pages = {} /\ copied = {} /\ UNCHANGED <<memoryVars, managerVars, specVars, history>>

MemorySystemSpec == MemorySystemInit /\ [][MemorySystemNext]_sysVars
-----------------------------------------------------------------------------
\* Until MergeHoles misses a page, by the address it reads from a Chunk that is freed
\* (Manager.cc:324): outside of the pages made by stores of the guest, there are the
\* pages of the blocks in use and no other ones (Manager.cc:334, a page without a block
\* is given back); their chunks fill them without gap or overlap; and no hole is next
\* to another one of its page (MergeHoles, Manager.cc:291).
PagesAreUsed ==
    ~misread =>
        /\ pages \ stray = UNION {PagesOf(p.address, p.size) : p \in Pointers}
        /\ UNION {PagesOf(h.address, h.size) : h \in Holes} \subseteq pages \ stray
        /\ \A a \in Addresses :
              Cardinality({c \in chunks : Covers(c, a)}) =
                  IF PageOf(a) \in pages \ stray THEN 1 ELSE 0
        /\ \A h \in Holes : HoleAfter(chunks, h) = {}

\* The Manager, over this memory, implements Allocator: blocks are apart and
\* aligned (Manager.cc:64), and neither the allocation or release of another
\* block nor speculation changes what is in one (SpecMem.h:29).  It breaks when
\* MergeHoles misses a page, and on no other occasion.
Abstract == INSTANCE Allocator
    WITH Space    <- Addresses,
         broken   <- misread,
         blocks   <- {[address |-> p.address, size |-> p.size] : p \in Pointers},
         contents <- [a \in {w \in Watched : \E p \in Pointers : Covers(p, w)} |-> data[a]]

ImplementsAllocator == Abstract!AllocatorSpec

\* "A subsequent load during speculative execution will read its value from this
\* memory if it exists, and will load from the actual complete Memory object
\* otherwise" (SpecMem.h:30).  A read gives the last write of this speculation;
\* without one, what was there at some moment of it; and what is there now, once
\* there are MaxPages copies and the page is not one of them (SpecMem.h:45).
SpeculativeReads ==
    \A a \in Watched :
        \/ SpecRead(a) = last_write[a]
        \/ last_write[a] = None /\ SpecRead(a) \in moments[a]
        \/ /\ Cardinality(copied) = MaxPages /\ SpecPageOf(a) \notin copied
           /\ SpecRead(a) = Read(a)
=============================================================================
