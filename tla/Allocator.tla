----------------------------- MODULE Allocator -----------------------------
(***************************************************************************)
(* What a guest program expects of its memory: blocks that are apart and   *)
(* aligned, and whose contents nothing but its own stores changes for as   *)
(* long as they are allocated.  It may break when a block is deleted, and  *)
(* promises nothing from then on.                                          *)
(***************************************************************************)
EXTENDS Integers, FiniteSets

CONSTANTS Space, Sizes, Alignments, Values, Watched

VARIABLES
    blocks,    \* the blocks in use, as [address, size]
    contents,  \* the contents of the watched addresses in them
    broken

allocatorVars == <<blocks, contents, broken>>

Extent(b) == b.address..(b.address + b.size - 1)

InUse(bs) == {a \in Watched : \E b \in bs : a \in Extent(b)}

AllocatorInit == blocks = {} /\ contents = [a \in {} |-> 0] /\ broken = FALSE

\* A block of at least this size; what is in it is not said.
New(size, alignment) ==
    \E b \in blocks' :
        /\ blocks' = blocks \cup {b}
        /\ b.size >= size /\ b.address % alignment = 0
        /\ Extent(b) \subseteq Space
        /\ \A c \in blocks : Extent(b) \cap Extent(c) = {}
        /\ DOMAIN contents' = InUse(blocks')
        /\ \A a \in DOMAIN contents : contents'[a] = contents[a]

Delete(b) ==
    /\ blocks' = blocks \ {b}
    /\ contents' = [a \in InUse(blocks') |-> contents[a]]

Store(a, v) ==
    /\ contents' = [contents EXCEPT ![a] = v]
    /\ UNCHANGED blocks

Break == blocks # {} /\ broken' = TRUE

Promised ==
    \/ \E size \in Sizes, alignment \in Alignments : New(size, alignment)
    \/ \E b \in blocks : Delete(b)
    \/ \E a \in InUse(blocks), v \in Values : Store(a, v)

AllocatorNext == (~broken /\ UNCHANGED broken /\ Promised) \/ Break \/ (broken /\ UNCHANGED broken)

AllocatorSpec == AllocatorInit /\ [][AllocatorNext]_allocatorVars
=============================================================================
