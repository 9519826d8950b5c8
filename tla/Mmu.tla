-------------------------------- MODULE Mmu --------------------------------
(***************************************************************************)
(* The memory management unit (src/memory/Mmu.cc), and the record that it  *)
(* keeps for the LMStore: mem_map, the virtual address of every physical   *)
(* one that belongs to the LMStore.  The LMStore decodes an operation from *)
(* that record, some events after the translation.                         *)
(*                                                                         *)
(* An address is a page and an offset.                                     *)
(***************************************************************************)
EXTENDS Integers, Sequences, FiniteSets

CONSTANTS
    Spaces,         \* virtual address spaces
    VirtualPages,   \* virtual tags
    LMStorePages,   \* those with a prefix from 71 to 76
    Offsets

ASSUME MmuAssumption == LMStorePages \subseteq VirtualPages

VARIABLES
    mmu_pages,   \* the pages, in the order of their physical addresses
    mem_map,     \* virtual addresses by physical ones
    translated   \* history: the translations that were asked for

mmuVars == <<mmu_pages, mem_map, translated>>

VirtualAddresses == [tag : VirtualPages, offset : Offsets]
PhysicalAddresses == [tag : Nat, offset : Offsets]

MmuTypeOK ==
    /\ mmu_pages \in Seq([space : Spaces, tag : VirtualPages])
    /\ DOMAIN mem_map \subseteq PhysicalAddresses
    /\ \A p \in DOMAIN mem_map : mem_map[p] \in VirtualAddresses
    /\ translated \subseteq [space : Spaces, virtual : VirtualAddresses,
                             physical : PhysicalAddresses]

MmuInit == mmu_pages = <<>> /\ mem_map = [p \in {} |-> p] /\ translated = {}
-----------------------------------------------------------------------------
\* A variant with a bug: a page of another space is found.
getPageAnySpace(space, tag) == {n \in 1..Len(mmu_pages) : mmu_pages[n].tag = tag}

\* Space::getPage: the number of the page, if there is one; the page of number n is
\* the n-th of the physical address space.
getPage(space, tag) ==
    {n \in 1..Len(mmu_pages) : mmu_pages[n] = [space |-> space, tag |-> tag]}

\* A translation puts the virtual address on record if it is one of the LMStore.
Translated(space, virtual, physical) ==
    /\ translated' = translated \cup
           {[space |-> space, virtual |-> virtual, physical |-> physical]}
    /\ mem_map' = IF virtual.tag \in LMStorePages
                  THEN [p \in DOMAIN mem_map \cup {physical} |->
                           IF p = physical THEN virtual ELSE mem_map[p]]
                  ELSE mem_map

\* TranslateVirtualAddress, of a page that is there and of a new one.
TranslateVirtualAddress(space, virtual) ==
    \/ \E n \in getPage(space, virtual.tag) :
          /\ Translated(space, virtual, [tag |-> n, offset |-> virtual.offset])
          /\ UNCHANGED mmu_pages
    \/ /\ getPage(space, virtual.tag) = {}
       /\ mmu_pages' = Append(mmu_pages, [space |-> space, tag |-> virtual.tag])
       /\ Translated(space, virtual,
                     [tag |-> Len(mmu_pages) + 1, offset |-> virtual.offset])

\* TranslatePhysicalAddress, of a page that is there.
TranslatePhysicalAddress(physical) ==
    [space   |-> mmu_pages[physical.tag].space,
     virtual |-> [tag |-> mmu_pages[physical.tag].tag, offset |-> physical.offset]]

\* LMStore::PhyToVirt, of an address on record.
PhyToVirt(physical) == mem_map[physical]

MmuNext ==
    \E space \in Spaces, virtual \in VirtualAddresses :
        TranslateVirtualAddress(space, virtual)

MmuSpec == MmuInit /\ [][MmuNext]_mmuVars
-----------------------------------------------------------------------------
\* Whenever the LMStore looks up the address of an access that was translated
\* before, it finds the virtual address of that access (LMStore.cc:98, where
\* mem_map is read), and the physical address leads back to its space
\* (Mmu.cc:244).
RecordedAddresses ==
    \A t \in translated :
        /\ t.physical.tag \in 1..Len(mmu_pages)
        /\ TranslatePhysicalAddress(t.physical) = [space |-> t.space, virtual |-> t.virtual]
        /\ t.virtual.tag \in LMStorePages =>
              t.physical \in DOMAIN mem_map /\ PhyToVirt(t.physical) = t.virtual
=============================================================================
