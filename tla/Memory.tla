------------------------------- MODULE Memory -------------------------------
(***************************************************************************)
(* The memory image of a guest program (src/memory/Memory.cc): a table of  *)
(* pages.  What is at one address does not depend on what is at another,   *)
(* so the model follows the contents of a few addresses, Watched.          *)
(***************************************************************************)
EXTENDS Integers, FiniteSetsExt

CONSTANTS
    PageSize,
    NumPages,   \* the address space has NumPages pages, and no address after it
    Values,     \* what can be at an address
    Watched,    \* the addresses whose contents the model follows
    Safe        \* Memory::safe

Tags == {n * PageSize : n \in 0..(NumPages - 1)}
LastTag == (NumPages - 1) * PageSize
Addresses == 0..(NumPages * PageSize - 1)

ASSUME MemoryAssumption ==
    /\ PageSize \in Nat \ {0} /\ NumPages \in Nat \ {0}
    /\ Watched \subseteq Addresses
    /\ 0 \in Values
    /\ Safe \in BOOLEAN

VARIABLES
    pages,   \* the tags of the pages there are
    data     \* the contents of the pages; 0 where there is no page

memoryVars == <<pages, data>>

MemoryTypeOK ==
    /\ pages \subseteq Tags
    /\ data \in [Watched -> Values]
    /\ \A a \in Watched : a - (a % PageSize) \notin pages => data[a] = 0

MemoryInit == pages = {} /\ data = [a \in Watched |-> 0]
-----------------------------------------------------------------------------
PageOf(address) == address - (address % PageSize)

\* The page of the last byte of a range; the address wraps.
LastPageOf(address, size) == PageOf((address + size - 1) % (NumPages * PageSize))

\* The pages that [address, address + size) touches.
PagesOf(address, size) ==
    {tag \in Tags : PageOf(address) <= tag /\ tag <= LastPageOf(address, size)}

\* MapSpace: the first free pages from the address on, or -1.
MapSpace(address, size) ==
    LET free == {tag \in Tags :
                    /\ address <= tag
                    /\ tag + size <= NumPages * PageSize
                    /\ PagesOf(tag, size) \cap pages = {}}
    IN  IF free = {} THEN -1 ELSE Min(free)

\* MapSpaceDown: the first free pages from the address down, or -1.  Page 0 ends
\* the search.
MapSpaceDown(address, size) ==
    LET free == {tag \in Tags \ {0} :
                    /\ tag + size <= address + PageSize
                    /\ PagesOf(tag, size) \cap pages = {}}
    IN  IF free = {} THEN -1 ELSE Max(free)

\* The loops of Map and Unmap end when the tag exceeds that of the last page of the
\* range.  For the last page of the address space it never does: the tag wraps.
LoopEnds(address, size) == LastPageOf(address, size) # LastTag

\* Map: a new page has no data, and reads as 0.
Map(address, size) ==
    /\ LoopEnds(address, size)
    /\ pages' = pages \cup PagesOf(address, size)
    /\ UNCHANGED data

\* Unmap: the pages go, and their contents with them.
Unmap(address, size) ==
    /\ LoopEnds(address, size)
    /\ pages' = pages \ PagesOf(address, size)
    /\ data' = [a \in Watched |-> IF PageOf(a) \in PagesOf(address, size) THEN 0 ELSE data[a]]

\* A read without a check of the page, which gives 0 where there is none.
Read(address) == IF PageOf(address) \in pages THEN data[address] ELSE 0

\* A write: where there is no page it ends the program in safe mode, and
\* otherwise makes one.
Write(address, value) ==
    /\ Safe => PageOf(address) \in pages
    /\ pages' = pages \cup {PageOf(address)}
    /\ data' = [data EXCEPT ![address] = value]
=============================================================================
