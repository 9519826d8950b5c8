--------------------------- MODULE CacheDirectory ---------------------------
(***************************************************************************)
(* The caches and the directories of the modules of a memory hierarchy     *)
(* (src/memory/Cache.cc, src/memory/Directory.cc, Module::FindBlock).      *)
(*                                                                         *)
(* One set of each cache is modelled, since blocks of different sets share *)
(* nothing.  All caches have the same block size, so a directory entry has *)
(* one sub-block.  The address of a block is its tag.                      *)
(***************************************************************************)
EXTENDS Integers, FiniteSets, FiniteSetsExt

CONSTANTS
    Modules,     \* the caches and main memory
    MainMemory,  \* the module below all others
    Low,         \* the low module of every other module
    NumWays,     \* the number of ways of every module
    Tags,        \* the blocks
    NoTag,       \* the tag of a way that never held a block
    NoModule,    \* Directory::NoOwner
    MaxInFlight  \* bound on the accesses in flight, whose identifiers are 1..MaxInFlight

\* No module is below itself, directly or by others: ConfigSetModuleLevel
\* (SystemConfig.cc:1476), which walks down from the entries, would not end.
ASSUME HierarchyAssumption ==
    /\ MainMemory \in Modules /\ NoModule \notin Modules
    /\ Low \in [Modules \ {MainMemory} -> Modules]
    /\ NumWays \in [Modules -> Nat \ {0}]
    /\ NoTag \notin Tags
    /\ IsFiniteSet(Modules)
    /\ \A S \in SUBSET (Modules \ {MainMemory}) : S # {} => \E m \in S : Low[m] \notin S
    /\ MaxInFlight \in Nat \ {0}

VARIABLES
    cache,  \* Cache::Block of every module and way
    dir     \* Directory::Entry and Directory::Lock of every module and way

BlockStates == {"N", "M", "O", "E", "S", "I"}
Accesses == 1..MaxInFlight
Ways(m) == 1..NumWays[m]

Block == [tag : Tags \cup {NoTag}, state : BlockStates, transient : Tags \cup {NoTag}]

\* lock is the identifier of the access that locked the entry, or 0.
Entry == [owner : Modules \cup {NoModule}, sharers : SUBSET Modules,
          lock : Accesses \cup {0}]

CachesInit ==
    /\ cache = [m \in Modules |-> [w \in Ways(m) |->
                  [tag |-> NoTag, state |-> "I", transient |-> NoTag]]]
    /\ dir = [m \in Modules |-> [w \in Ways(m) |->
                [owner |-> NoModule, sharers |-> {}, lock |-> 0]]]

isEntryLocked(m, w) == dir[m][w].lock # 0

\* Module::FindBlock: the ways that hold block t, or are about to hold it.
Matches(m, t) ==
    {w \in Ways(m) :
        \/ cache[m][w].tag = t /\ cache[m][w].state # "I"
        \/ cache[m][w].transient = t /\ isEntryLocked(m, w)}

\* The ways that find-and-lock may work on: the first one that matches, or, for
\* a miss, the victim of ReplaceBlock.  The policy may choose any way (Random).
FindWays(m, t) ==
    IF Matches(m, t) # {} THEN {Min(Matches(m, t))} ELSE Ways(m)

setBlock(m, w, t, s) ==
    cache' = [cache EXCEPT ![m][w] = [@ EXCEPT !.tag = t, !.state = s]]

\* The entry e after setSharer and setOwner, after clearSharer and setOwner for
\* module i, and after UnlockEntry.
WithOwner(e, i) == [e EXCEPT !.sharers = @ \cup {i}, !.owner = i]
Without(e, S) ==
    [e EXCEPT !.sharers = @ \ S, !.owner = IF @ \in S THEN NoModule ELSE @]
Unlocked(e) == [e EXCEPT !.lock = 0]

CachesTypeOK ==
    /\ DOMAIN cache = Modules /\ DOMAIN dir = Modules
    /\ \A m \in Modules : cache[m] \in [Ways(m) -> Block] /\ dir[m] \in [Ways(m) -> Entry]
=============================================================================
