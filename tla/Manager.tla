------------------------------ MODULE Manager ------------------------------
(***************************************************************************)
(* The allocator of guest memory (src/memory/Manager.cc).  It cuts pages   *)
(* into chunks, which are pointers (allocated) or holes (free).  A block   *)
(* of more than a page has pages of its own.                               *)
(*                                                                         *)
(* The table holes lists the holes of the table chunks by size; holes of   *)
(* one size are in the order of their creation there, and in any order     *)
(* here.                                                                   *)
(***************************************************************************)
EXTENDS Memory

CONSTANTS
    MapBaseAddress,
    Sizes,        \* the sizes that are asked for
    Alignments,   \* the alignments that are asked for
    MaxPointers   \* a bound on the number of pointers

ASSUME ManagerAssumption ==
    /\ MapBaseAddress \in Tags
    /\ Sizes \subseteq Nat \ {0}
    /\ \A n \in Alignments : n \in 1..PageSize /\ PageSize % n = 0
    /\ MaxPointers \in Nat

VARIABLES
    chunks,
    misread   \* history: has MergeHoles missed a page that is one hole

managerVars == <<chunks, misread>>

Hole(address, size) == [address |-> address, size |-> size, allocated |-> FALSE]
Pointer(address, size) == [address |-> address, size |-> size, allocated |-> TRUE]

Pointers == {c \in chunks : c.allocated}
Holes == {c \in chunks : ~c.allocated}

ManagerTypeOK ==
    chunks \subseteq [address : Addresses, size : 1..(NumPages * PageSize), allocated : BOOLEAN]
-----------------------------------------------------------------------------
getNextAlignedAddress(address, alignment) ==
    ((address + alignment - 1) \div alignment) * alignment

canHoleContain(hole, size, alignment) ==
    hole.size >= size + (getNextAlignedAddress(hole.address, alignment) - hole.address)

\* A variant with a bug: the space before the pointer is counted twice.
AllocateInOverlap(table, hole, size, alignment) ==
    LET aligned == getNextAlignedAddress(hole.address, alignment)
        gap     == aligned - hole.address
        sides   == {Hole(hole.address, gap), Hole(aligned + size, hole.size - size)}
    IN  (table \ {hole}) \cup {h \in sides : h.size > 0} \cup {Pointer(aligned, size)}

\* AllocateIn: the chunks after a pointer has been cut out of a hole.
AllocateIn(table, hole, size, alignment) ==
    LET aligned == getNextAlignedAddress(hole.address, alignment)
        gap     == aligned - hole.address
        sides   == {Hole(hole.address, gap), Hole(aligned + size, hole.size - size - gap)}
    IN  (table \ {hole}) \cup {h \in sides : h.size > 0} \cup {Pointer(aligned, size)}

\* Whole pages, below the base address.  Without space the program ends.
AllocateLarge(size) ==
    LET whole   == getNextAlignedAddress(size, PageSize)
        address == MapSpaceDown(MapBaseAddress, whole)
    IN  /\ address # -1
        /\ Map(address, size)
        /\ chunks' = chunks \cup {Pointer(address, whole)}
        /\ UNCHANGED misread

\* The holes that can take the block, and the smallest of them.
Fitting(size, alignment) == {h \in Holes : h.size >= size /\ canHoleContain(h, size, alignment)}

\* A new page, above the base address.  Without space the program ends.
AllocateInNewPage(size, alignment) ==
    LET address == MapSpace(MapBaseAddress, PageSize)
        page    == Hole(address, PageSize)
    IN  /\ address # -1
        /\ Map(address, PageSize)
        /\ chunks' = AllocateIn(chunks \cup {page}, page, size, alignment)
        /\ UNCHANGED misread

Allocate(size, alignment) ==
    /\ Cardinality(Pointers) < MaxPointers
    /\ \/ /\ size > PageSize
          /\ AllocateLarge(size)
       \/ /\ size <= PageSize
          /\ \E h \in Fitting(size, alignment) :
                /\ \A other \in Fitting(size, alignment) : h.size <= other.size
                /\ chunks' = AllocateIn(chunks, h, size, alignment)
          /\ UNCHANGED <<misread, memoryVars>>
       \/ /\ size <= PageSize
          /\ Fitting(size, alignment) = {}
          /\ AllocateInNewPage(size, alignment)
-----------------------------------------------------------------------------
isInSamePage(c, d) == PageOf(c.address) = PageOf(d.address)

Merge2Holes(table, h1, h2) ==
    (table \ {h1, h2}) \cup {Hole(h1.address, h1.size + h2.size)}

\* The chunk after c, if it is a hole of the same page, and the chunk before c.
HoleAfter(table, c) ==
    {d \in table : /\ d.address > c.address /\ isInSamePage(c, d) /\ ~d.allocated
                   /\ \A e \in table : e.address > c.address => d.address <= e.address}

HoleBefore(table, c) ==
    {d \in table : /\ d.address < c.address /\ isInSamePage(c, d) /\ ~d.allocated
                   /\ \A e \in table : e.address < c.address => e.address <= d.address}

\* A variant with a bug: a hole is merged with the one after it only.
MergeHolesForward(table, hole) ==
    IF HoleAfter(table, hole) = {} THEN table
    ELSE Merge2Holes(table, hole, CHOOSE d \in HoleAfter(table, hole) : TRUE)

\* MergeHoles, of the table: first with the hole after it, then with the hole before it.
MergeHoles(table, hole) ==
    LET forward == IF HoleAfter(table, hole) = {} THEN table
                   ELSE Merge2Holes(table, hole, CHOOSE d \in HoleAfter(table, hole) : TRUE)
        merged  == CHOOSE c \in forward : c.address = hole.address
    IN  IF HoleBefore(forward, merged) = {} THEN forward
        ELSE Merge2Holes(forward, CHOOSE d \in HoleBefore(forward, merged) : TRUE, merged)

\* The address that MergeHoles goes on with.  A merge with the hole before it frees
\* the Chunk that the address is read from: the address is that of the merged hole if
\* the heap has given the same memory to its Chunk, and otherwise anything.
MergedAddresses(table, hole) ==
    IF HoleBefore(table, hole) = {} THEN {hole.address} ELSE Addresses

lower_bound(table, address) ==
    {c \in table : /\ address <= c.address
                   /\ \A d \in table : address <= d.address => c.address <= d.address}

\* The end of MergeHoles: the chunk from the address on is given back if it is as
\* long as a page.  If it is a pointer, RemoveHole ends the program; if there is none,
\* the program ends or goes on.
GiveBackPage(table, address) ==
    \/ /\ \A c \in lower_bound(table, address) : c.size # PageSize
       /\ chunks' = table
       /\ UNCHANGED memoryVars
    \/ \E c \in lower_bound(table, address) :
          /\ c.size = PageSize /\ ~c.allocated
          /\ Unmap(address, PageSize)
          /\ chunks' = table \ {c}

FreeLarge(pointer) ==
    /\ Unmap(pointer.address, pointer.size)
    /\ chunks' = chunks \ {pointer}
    /\ UNCHANGED misread

\* Free, of a pointer.  A page that has become one hole is given back, unless it is
\* looked for elsewhere.
Free(pointer) ==
    \/ /\ pointer.size > PageSize
       /\ FreeLarge(pointer)
    \/ /\ pointer.size <= PageSize
       /\ LET hole  == Hole(pointer.address, pointer.size)
              freed == (chunks \ {pointer}) \cup {hole}
              table == MergeHoles(freed, hole)
              page  == Hole(PageOf(pointer.address), PageSize)
          IN  \E address \in MergedAddresses(freed, hole) :
                 /\ GiveBackPage(table, address)
                 /\ misread' = (page \in table /\ address # page.address)
=============================================================================
