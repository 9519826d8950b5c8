------------------------------ MODULE SpecMem ------------------------------
(***************************************************************************)
(* The speculative memory of a context (src/memory/SpecMem.cc), in front   *)
(* of a Memory.  The first write to a page copies it; reads of pages that  *)
(* are not copied go to the Memory, in unsafe mode; the end of speculation *)
(* throws the copies away.                                                 *)
(***************************************************************************)
EXTENDS Memory

CONSTANTS
    SpecPageSize,   \* SpecMem::PageSize
    MaxPages        \* SpecMem::MaxPages

ASSUME SpecMemAssumption ==
    /\ SpecPageSize \in Nat \ {0} /\ MaxPages \in Nat
    /\ PageSize % SpecPageSize = 0

VARIABLES
    copied,    \* the tags of the pages that are copied
    spec_data  \* the contents of the copies; 0 where there is none

specVars == <<copied, spec_data>>

SpecPageOf(address) == address - (address % SpecPageSize)

SpecTypeOK ==
    /\ copied \subseteq {SpecPageOf(a) : a \in Watched}
    /\ Cardinality(copied) <= MaxPages
    /\ spec_data \in [Watched -> Values]

SpecInit == copied = {} /\ spec_data = [a \in Watched |-> 0]
-----------------------------------------------------------------------------
SpecRead(address) ==
    IF SpecPageOf(address) \in copied THEN spec_data[address] ELSE Read(address)

\* A variant with a bug: a new page is empty.
newPageEmpty(tag) == spec_data

\* newPage: the contents of the copies with that of one more page.
newPage(tag) ==
    [a \in Watched |-> IF SpecPageOf(a) = tag THEN Read(a) ELSE spec_data[a]]

\* A variant with a bug: the limit is noticed one page too late.
SpecWriteOneMore(address, value) ==
    LET tag == SpecPageOf(address)
    IN  \/ /\ tag \in copied
           /\ spec_data' = [spec_data EXCEPT ![address] = value]
           /\ UNCHANGED copied
        \/ /\ tag \notin copied /\ Cardinality(copied) <= MaxPages
           /\ copied' = copied \cup {tag}
           /\ spec_data' = [newPage(tag) EXCEPT ![address] = value]
        \/ /\ tag \notin copied /\ Cardinality(copied) > MaxPages
           /\ UNCHANGED specVars

SpecWrite(address, value) ==
    LET tag == SpecPageOf(address)
    IN  \/ /\ tag \in copied
           /\ spec_data' = [spec_data EXCEPT ![address] = value]
           /\ UNCHANGED copied
        \/ /\ tag \notin copied /\ Cardinality(copied) < MaxPages
           /\ copied' = copied \cup {tag}
           /\ spec_data' = [newPage(tag) EXCEPT ![address] = value]
        \/ /\ tag \notin copied /\ Cardinality(copied) >= MaxPages
           /\ UNCHANGED specVars   \* the write is ignored

Clear == copied' = {} /\ spec_data' = [a \in Watched |-> 0]
=============================================================================
