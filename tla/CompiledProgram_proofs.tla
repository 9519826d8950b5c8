----------------------- MODULE CompiledProgram_proofs -----------------------
(***************************************************************************)
(* The LMStore tables under any program with blocks, the LMStore pass, for *)
(* every call graph and any sizes, and what follows for the two together:  *)
(* a program that the pass has compiled and whose chains of calls are      *)
(* apart implements LMStoreProgram.  What is shown of LMStoreProgram first *)
(* is then true of compiled programs.                                      *)
(***************************************************************************)
EXTENDS CompiledProgram, FiniteSetTheorems, TLAPS
-----------------------------------------------------------------------------
(* LMStoreProgram: the tables, for every number of LMRef entries, every word *)
(* size, and every set of blocks.                                            *)

\* No two blocks in use have the same LMRef entry, so that what happens to the
\* entry of one leaves the others alone.
EntriesDiffer ==
    \A i, j \in 1..Len(stack) : i # j => stack[i].ref # stack[j].ref

\* DirectoryMatchesProgram is inductive only together with EntriesDiffer.
IInv == TypeOK /\ EntriesDiffer /\ DirectoryMatchesProgram

\* A block names an entry of both tables, the same one.
LEMMA BlockType ==
    ASSUME NEW b \in Blocks, NEW op
    PROVE  /\ b.ref \in 0..(LMDirSize - 1) /\ b.id \in Nat /\ b.size \in Unsigned
           /\ Slot(b) = b.ref /\ Slot(AddressOf(b, op)) = b.ref
<1>1. b \in [ref : 0..(LMRefSize - 1), id : Nat, size : Unsigned]
    BY BlocksAssumption
<1> QED
    BY <1>1, TableAssumption DEF Slot, LMRef, AddressOf

\* The free pointer wraps.
LEMMA UnsignedWraps ==
    ASSUME NEW i \in Unsigned, NEW j \in Unsigned
    PROVE  (i + j) % Word \in Unsigned /\ (i - j) % Word \in Unsigned
    BY TableAssumption DEF Unsigned

\* allocateBlock for a block of the program.
LEMMA AllocateEffect ==
    ASSUME TypeOK, NEW b \in Blocks, allocateBlock(AddressOf(b, "NoReadAlloc"))
    PROVE  /\ TablesTypeOK'
           /\ LMDir'[b.ref].state = "E"
           /\ LMDir'[b.ref].BlockID = b.id /\ LMDir'[b.ref].BlockSize = b.size
           /\ \A r \in 0..(LMDirSize - 1) : r # b.ref => LMDir'[r] = LMDir[r]
<1>1. LMDir \in [0..(LMDirSize - 1) -> DirEntry] /\ LMBIndex \in Unsigned
    BY DEF TypeOK, TablesTypeOK
<1>2. /\ LMDir' = [LMDir EXCEPT ![b.ref] = [LMBIndex |-> LMBIndex, BlockID |-> b.id,
                                            BlockSize |-> b.size, state |-> "E"]]
      /\ LMBIndex' = (LMBIndex + b.size) % Word
    BY BlockType DEF allocateBlock, AddressOf, AllocOps
<1>3. b.ref \in 0..(LMDirSize - 1) /\ b.id \in Nat /\ b.size \in Unsigned
    BY BlockType
<1>4. LMBIndex' \in Unsigned
    BY <1>1, <1>2, <1>3, UnsignedWraps
<1>5. LMDir' \in [0..(LMDirSize - 1) -> DirEntry]
    BY <1>1, <1>2, <1>3 DEF DirEntry, BlockStates
<1> QED
    BY <1>1, <1>2, <1>3, <1>4, <1>5 DEF TablesTypeOK

\* deallocateBlock for a block of the program.
LEMMA DeallocateEffect ==
    ASSUME TypeOK, NEW b \in Blocks, deallocateBlock(AddressOf(b, "NoWriteDealloc"))
    PROVE  /\ TablesTypeOK'
           /\ LMDir'[b.ref].state = "I"
           /\ \A r \in 0..(LMDirSize - 1) : r # b.ref => LMDir'[r] = LMDir[r]
<1>1. LMDir \in [0..(LMDirSize - 1) -> DirEntry] /\ LMBIndex \in Unsigned
    BY DEF TypeOK, TablesTypeOK
<1>2. /\ LMDir' = [LMDir EXCEPT ![b.ref].state = "I"]
      /\ LMBIndex' = (LMBIndex - LMDir[LMDirIndex].BlockSize) % Word
    BY BlockType DEF deallocateBlock
<1>3. b.ref \in 0..(LMDirSize - 1)
    BY BlockType
<1>4. LMDir[LMDirIndex].BlockSize \in Unsigned
    BY <1>1, TableAssumption DEF DirEntry, LMDirIndex
<1>5. LMBIndex' \in Unsigned
    BY <1>1, <1>2, <1>4, UnsignedWraps
<1>6. LMDir' \in [0..(LMDirSize - 1) -> DirEntry]
    BY <1>1, <1>2, <1>3 DEF DirEntry, BlockStates
<1> QED
    BY <1>1, <1>2, <1>3, <1>5, <1>6 DEF TablesTypeOK, DirEntry

LEMMA IInvInit == Init => IInv
<1> SUFFICES ASSUME Init PROVE IInv
    OBVIOUS
<1>1. TablesTypeOK
    BY TableAssumption DEF Init, TablesInit, TablesTypeOK, DirEntry, BlockStates, Unsigned
<1>2. stack = <<>> /\ returned = FALSE
    BY DEF Init
<1>3. \A r \in 0..(LMDirSize - 1) : LMDir[r].state = "I"
    BY DEF Init, TablesInit
<1>4. stack \in Seq(Blocks) /\ 1..Len(stack) = {}
    BY <1>2
<1>5. TypeOK
    BY <1>1, <1>2, <1>4 DEF TypeOK
<1> QED
    BY <1>3, <1>4, <1>5 DEF IInv, EntriesDiffer, DirectoryMatchesProgram

\* A function starts: its entry is new, since no active function has it.
LEMMA EnterKeeps ==
    ASSUME IInv, NEW b \in Blocks, Enter(b)
    PROVE  IInv'
<1> DEFINE n == Len(stack)
<1>1. stack \in Seq(Blocks) /\ n \in Nat
    BY DEF IInv, TypeOK
<1>2. /\ stack' = Append(stack, b) /\ returned' = returned
      /\ \A i \in 1..n : stack[i].ref # b.ref
      /\ allocateBlock(AddressOf(b, "NoReadAlloc"))
    BY DEF Enter, Start
<1>3. /\ stack' \in Seq(Blocks) /\ Len(stack') = n + 1 /\ stack'[n + 1] = b
      /\ \A i \in 1..n : stack'[i] = stack[i]
    BY <1>1, <1>2
<1>4. \A i \in 1..n : stack[i] \in Blocks
    BY <1>1
<1>5. /\ TablesTypeOK' /\ LMDir'[b.ref].state = "E"
      /\ LMDir'[b.ref].BlockID = b.id /\ LMDir'[b.ref].BlockSize = b.size
      /\ \A r \in 0..(LMDirSize - 1) : r # b.ref => LMDir'[r] = LMDir[r]
    BY <1>2, AllocateEffect DEF IInv
<1>6. TypeOK'
    BY <1>2, <1>3, <1>5 DEF IInv, TypeOK
<1>7. EntriesDiffer'
    BY <1>1, <1>2, <1>3 DEF IInv, EntriesDiffer
<1>8. ASSUME NEW i \in 1..Len(stack')
      PROVE  LET e == LMDir'[Slot(stack'[i])]
             IN  e.state \in {"E", "M"} /\ e.BlockID = stack'[i].id
                 /\ e.BlockSize = stack'[i].size
  <2>1. CASE i = n + 1
      BY <2>1, <1>3, <1>5, BlockType
  <2>2. CASE i \in 1..n
    <3>1. /\ stack'[i] = stack[i] /\ stack[i] \in Blocks /\ stack[i].ref # b.ref
          /\ Slot(stack[i]) = stack[i].ref /\ stack[i].ref \in 0..(LMDirSize - 1)
        BY <2>2, <1>2, <1>3, <1>4, BlockType
    <3> QED
        BY <3>1, <2>2, <1>5 DEF IInv, DirectoryMatchesProgram
  <2> QED
      BY <2>1, <2>2, <1>1, <1>3
<1>9. ASSUME NEW r \in 0..(LMDirSize - 1), LMDir'[r].state # "I"
      PROVE  \E i \in 1..Len(stack') : Slot(stack'[i]) = r
  <2>1. CASE r = b.ref
      BY <2>1, <1>1, <1>3, BlockType
  <2>2. CASE r # b.ref
    <3>1. PICK i \in 1..n : Slot(stack[i]) = r
        BY <2>2, <1>5, <1>9 DEF IInv, DirectoryMatchesProgram
    <3> QED
        BY <3>1, <1>1, <1>3
  <2> QED
      BY <2>1, <2>2
<1>10. DirectoryMatchesProgram'
    BY <1>8, <1>9 DEF DirectoryMatchesProgram, Slot, LMRef
<1> QED
    BY <1>6, <1>7, <1>10 DEF IInv

\* A block goes whose place in the stack is k: the others keep their entries.
LEMMA RemoveKeeps ==
    ASSUME IInv, NEW k \in 1..Len(stack),
           deallocateBlock(AddressOf(stack[k], "NoWriteDealloc")),
           returned' \in BOOLEAN,
           stack' \in Seq(Blocks),
           NEW f \in [1..Len(stack') -> (1..Len(stack)) \ {k}],
           \A i \in 1..Len(stack') : stack'[i] = stack[f[i]],
           \A i, j \in 1..Len(stack') : i # j => f[i] # f[j],
           \A j \in (1..Len(stack)) \ {k} : \E i \in 1..Len(stack') : f[i] = j
    PROVE  IInv'
<1> DEFINE b == stack[k]
<1>1. stack \in Seq(Blocks) /\ \A i \in 1..Len(stack) : stack[i] \in Blocks
    BY DEF IInv, TypeOK
<1>2. b \in Blocks
    BY <1>1
<1>3. /\ TablesTypeOK' /\ LMDir'[b.ref].state = "I"
      /\ \A r \in 0..(LMDirSize - 1) : r # b.ref => LMDir'[r] = LMDir[r]
    BY <1>2, DeallocateEffect DEF IInv
<1>4. TypeOK'
    BY <1>3 DEF TypeOK
<1>5. EntriesDiffer'
    BY DEF IInv, EntriesDiffer
<1>6. ASSUME NEW i \in 1..Len(stack')
      PROVE  LET e == LMDir'[Slot(stack'[i])]
             IN  e.state \in {"E", "M"} /\ e.BlockID = stack'[i].id
                 /\ e.BlockSize = stack'[i].size
  <2>1. f[i] \in 1..Len(stack) /\ f[i] # k /\ stack'[i] = stack[f[i]]
      OBVIOUS
  <2>2. stack[f[i]].ref # b.ref
      BY <2>1 DEF IInv, EntriesDiffer
  <2>3. /\ Slot(stack[f[i]]) = stack[f[i]].ref
        /\ stack[f[i]].ref \in 0..(LMDirSize - 1)
      BY <2>1, <1>1, BlockType
  <2> QED
      BY <2>1, <2>2, <2>3, <1>3 DEF IInv, DirectoryMatchesProgram
<1>7. ASSUME NEW r \in 0..(LMDirSize - 1), LMDir'[r].state # "I"
      PROVE  \E i \in 1..Len(stack') : Slot(stack'[i]) = r
  <2>1. r # b.ref
      BY <1>3, <1>7
  <2>2. PICK j \in 1..Len(stack) : Slot(stack[j]) = r
      BY <2>1, <1>3, <1>7 DEF IInv, DirectoryMatchesProgram
  <2>3. j # k
      BY <2>1, <2>2, <1>2, BlockType
  <2>4. PICK i \in 1..Len(stack') : f[i] = j
      BY <2>3
  <2> QED
      BY <2>2, <2>4
<1>8. DirectoryMatchesProgram'
    BY <1>6, <1>7 DEF DirectoryMatchesProgram, Slot, LMRef
<1> QED
    BY <1>4, <1>5, <1>8 DEF IInv

LEMMA LeaveKeeps == IInv /\ Leave => IInv'
<1> SUFFICES ASSUME IInv, Leave PROVE IInv'
    OBVIOUS
<1> DEFINE n == Len(stack)
<1>1. stack \in Seq(Blocks) /\ n \in Nat /\ n > 2
    BY DEF IInv, TypeOK, Leave
<1>2. /\ stack' = SubSeq(stack, 1, n - 1) /\ returned' = returned
      /\ deallocateBlock(AddressOf(stack[n], "NoWriteDealloc"))
    BY DEF Leave
<1>3. /\ stack' \in Seq(Blocks) /\ Len(stack') = n - 1
      /\ \A i \in 1..(n - 1) : stack'[i] = stack[i]
    BY <1>1, <1>2
<1> DEFINE f == [i \in 1..Len(stack') |-> i]
<1>4. /\ f \in [1..Len(stack') -> (1..n) \ {n}]
      /\ \A i \in 1..Len(stack') : stack'[i] = stack[f[i]]
      /\ \A i, j \in 1..Len(stack') : i # j => f[i] # f[j]
      /\ \A j \in (1..n) \ {n} : \E i \in 1..Len(stack') : f[i] = j
    BY <1>1, <1>3
<1>5. returned' \in BOOLEAN /\ n \in 1..n
    BY <1>1, <1>2 DEF IInv, TypeOK
<1> HIDE DEF f
<1> QED
    BY ZenonT(40), <1>2, <1>3, <1>4, <1>5, RemoveKeeps

LEMMA LeaveMainKeeps == IInv /\ LeaveMain => IInv'
<1> SUFFICES ASSUME IInv, LeaveMain PROVE IInv'
    OBVIOUS
<1> DEFINE n == Len(stack)
<1>1. stack \in Seq(Blocks) /\ n \in Nat /\ n > 0
    BY DEF IInv, TypeOK, LeaveMain
<1>2. /\ stack' = Tail(stack) /\ returned' = TRUE
      /\ deallocateBlock(AddressOf(stack[1], "NoWriteDealloc"))
    BY DEF LeaveMain
<1>3. /\ stack' \in Seq(Blocks) /\ Len(stack') = n - 1
      /\ \A i \in 1..(n - 1) : stack'[i] = stack[i + 1]
    BY <1>1, <1>2
<1> DEFINE f == [i \in 1..Len(stack') |-> i + 1]
<1>4. /\ f \in [1..Len(stack') -> (1..n) \ {1}]
      /\ \A i \in 1..Len(stack') : stack'[i] = stack[f[i]]
      /\ \A i, j \in 1..Len(stack') : i # j => f[i] # f[j]
    BY <1>1, <1>3
<1>5. ASSUME NEW j \in (1..n) \ {1}
      PROVE  \E i \in 1..Len(stack') : f[i] = j
  <2>1. j - 1 \in 1..Len(stack') /\ f[j - 1] = j
      BY <1>1, <1>3
  <2> QED
      BY <2>1
<1>6. returned' \in BOOLEAN /\ 1 \in 1..n
    BY <1>1, <1>2
<1> HIDE DEF f
<1> QED
    BY ZenonT(40), <1>2, <1>3, <1>4, <1>5, <1>6, RemoveKeeps

\* A store changes the state of one entry, that of a block in use.
LEMMA StoreKeeps ==
    ASSUME IInv, NEW b \in Blocks, Store(b)
    PROVE  IInv'
<1>1. /\ LMDir \in [0..(LMDirSize - 1) -> DirEntry] /\ LMBIndex \in Unsigned
      /\ stack \in Seq(Blocks)
    BY DEF IInv, TypeOK, TablesTypeOK
<1>2. b.ref \in 0..(LMDirSize - 1) /\ Slot(AddressOf(b, "Access")) = b.ref
    BY BlockType
<1>3. /\ LMDir' = [LMDir EXCEPT ![b.ref].state = "M"]
      /\ UNCHANGED <<LMBIndex, stack, returned>>
      /\ LMDir[b.ref].state # "I"
    BY <1>2 DEF Store, setBlockState, FindBlock
<1>4. TypeOK'
    BY <1>1, <1>2, <1>3 DEF IInv, TypeOK, TablesTypeOK, DirEntry, BlockStates
<1>5. EntriesDiffer'
    BY <1>3 DEF IInv, EntriesDiffer
<1>6. \A i \in 1..Len(stack) : Slot(stack[i]) \in 0..(LMDirSize - 1)
    BY <1>1, BlockType
<1>7. \A r \in 0..(LMDirSize - 1) :
         /\ LMDir'[r].BlockID = LMDir[r].BlockID /\ LMDir'[r].BlockSize = LMDir[r].BlockSize
         /\ LMDir'[r].state = IF r = b.ref THEN "M" ELSE LMDir[r].state
    BY <1>1, <1>2, <1>3 DEF DirEntry
<1>8. DirectoryMatchesProgram'
    BY <1>3, <1>6, <1>7 DEF IInv, DirectoryMatchesProgram, Slot, LMRef
<1> QED
    BY <1>4, <1>5, <1>8 DEF IInv

LEMMA IInvStep == IInv /\ [Next]_pvars => IInv'
<1> SUFFICES ASSUME IInv, [Next]_pvars PROVE IInv'
    OBVIOUS
<1>1. ASSUME NEW b \in Blocks, Enter(b) PROVE IInv'
    BY <1>1, EnterKeeps
<1>2. CASE Leave
    BY <1>2, LeaveKeeps
<1>3. CASE LeaveMain
    BY <1>3, LeaveMainKeeps
<1>4. ASSUME NEW b \in Blocks, Store(b) PROVE IInv'
    BY <1>4, StoreKeeps
<1>5. CASE UNCHANGED pvars
    BY <1>5 DEF pvars, IInv, TypeOK, TablesTypeOK, EntriesDiffer, DirectoryMatchesProgram,
                Slot, LMRef
<1> QED
    BY <1>1, <1>2, <1>3, <1>4, <1>5 DEF Next

\* IInv holds throughout, for every compiled program.
THEOREM Invariant == Spec => []IInv
    BY IInvInit, IInvStep, PTL DEF Spec

\* Every entry of the directory, the free pointer and the stack of active
\* functions are well typed, however the free pointer wraps.
THEOREM TypeCorrect == Spec => []TypeOK
<1>1. IInv => TypeOK
    BY DEF IInv
<1> QED
    BY <1>1, Invariant, PTL

\* allocateBlock and deallocateBlock keep the directory equal to the blocks of
\* the active functions, over every history of calls and returns.
THEOREM DirectoryMatches == Spec => []DirectoryMatchesProgram
<1>1. IInv => DirectoryMatchesProgram
    BY DEF IInv
<1> QED
    BY <1>1, Invariant, PTL
-----------------------------------------------------------------------------
(* Blocks of one size.  deallocateBlock gives back the size of entry 0, which *)
(* is right if all blocks have that size; and LMBIndex wraps only when every  *)
(* LMRef entry is in use, if the storage of all of them fits in an unsigned.  *)

Size == Globals.size

EqualSizes ==
    /\ \A b \in Blocks : b.size = Size
    /\ LMRefSize * Size <= Word

\* The free pointer is above the blocks in use, which lie one on the other in the
\* order of the stack until main returns.
Stacked ==
    /\ LMBIndex = (Len(stack) * Size) % Word
    /\ ~returned => \A i \in 1..Len(stack) :
                        LMDir[stack[i].ref].LMBIndex = (i - 1) * Size
    /\ returned => Len(stack) <= 1
    /\ stack # <<>> \/ returned => LMDir[0].BlockSize = Size

SInv == IInv /\ Stacked

\* No more functions are active than there are LMRef entries.
LEMMA StackFits ==
    ASSUME NEW s \in Seq(Blocks),
           \A i, j \in 1..Len(s) : i # j => s[i].ref # s[j].ref
    PROVE  Len(s) <= LMRefSize
<1> SUFFICES ASSUME ~(Len(s) <= LMRefSize) PROVE FALSE
    OBVIOUS
<1> DEFINE n == Len(s)
           T == 0..(LMRefSize - 1)
           f == [i \in 1..n |-> s[i].ref]
<1>1. n \in Nat /\ n > LMRefSize /\ LMRefSize \in Nat \ {0}
    BY TableAssumption
<1>2. IsFiniteSet(1..n) /\ Cardinality(1..n) = n
    BY <1>1, FS_Interval
<1>3. IsFiniteSet(T) /\ Cardinality(T) = LMRefSize
  <2>1. LMRefSize - 1 \in Int /\ 0 \in Int /\ ~(0 > LMRefSize - 1)
      BY <1>1
  <2>2. IsFiniteSet(T) /\ Cardinality(T) = (LMRefSize - 1) - 0 + 1
      BY <2>1, FS_Interval
  <2> QED
      BY <2>2, <1>1
<1>4. \A i \in 1..n : s[i].ref \in T
  <2>1. \A i \in 1..n : s[i] \in Blocks
      OBVIOUS
  <2> QED
      BY <2>1, BlocksAssumption
<1>5. f \in [1..n -> T]
    BY <1>4
<1>6. Cardinality(T) < Cardinality(1..n)
    BY <1>1, <1>2, <1>3
<1> HIDE DEF f, n, T
<1>7. PICK i, j \in 1..n : i # j /\ f[i] = f[j]
    BY ZenonT(40), <1>2, <1>3, <1>5, <1>6, FS_PigeonHole
<1> QED
    BY <1>7 DEF f, n

\* Products of a size.
LEMMA Products ==
    ASSUME NEW k \in Nat, NEW c \in Nat
    PROVE  k * c \in Nat /\ (k + 1) * c = k * c + c
    OBVIOUS

LEMMA ProductsMonotonic ==
    ASSUME NEW j \in Nat, NEW k \in Nat, NEW c \in Nat, j <= k
    PROVE  j * c <= k * c
<1>1. k - j \in Nat
    OBVIOUS
<1>2. (k - j) * c \in Nat
    BY <1>1, Products
<1>3. k * c = j * c + (k - j) * c
    OBVIOUS
<1>4. j * c \in Nat /\ k * c \in Nat
    BY Products
<1> QED
    BY <1>2, <1>3, <1>4

\* A block on top of k others, and the top one of k + 1 blocks taken away.
LEMMA SizesAdd ==
    ASSUME NEW k \in Nat, NEW c \in Unsigned, (k + 1) * c <= Word
    PROVE  /\ (k * c) % Word = k * c
           /\ (((k * c) % Word) + c) % Word = ((k + 1) * c) % Word
           /\ ((((k + 1) * c) % Word) - c) % Word = (k * c) % Word
<1> DEFINE p == k * c
<1>1. Word \in Nat \ {0} /\ c \in Nat /\ c < Word
    BY TableAssumption DEF Unsigned
<1>2. p \in Nat /\ (k + 1) * c = p + c
    BY <1>1, Products
<1>3. c = 0 => p = 0
    OBVIOUS
<1> HIDE DEF p
<1>4. p < Word
    BY <1>1, <1>2, <1>3
<1>5. p % Word = p
    BY <1>1, <1>2, <1>4
<1>6. ((p + c) % Word) = IF p + c = Word THEN 0 ELSE p + c
    BY <1>1, <1>2, <1>4
<1>7. (((p + c) % Word) - c) % Word = p
  <2>1. CASE p + c = Word
    <3>1. 0 - c = -1 * Word + p
        BY <2>1, <1>1, <1>2
    <3> QED
        BY <3>1, <2>1, <1>1, <1>2, <1>4, <1>6
  <2>2. CASE p + c # Word
      BY <2>2, <1>1, <1>2, <1>5, <1>6
  <2> QED
      BY <2>1, <2>2
<1> QED
    BY <1>2, <1>5, <1>7 DEF p

LEMMA SInvInit == Init => SInv
<1> SUFFICES ASSUME Init PROVE SInv
    OBVIOUS
<1>1. stack = <<>> /\ ~returned /\ LMBIndex = 0 /\ LMDir[0].BlockSize = 0
    BY TableAssumption DEF Init, TablesInit
<1>2. Len(stack) = 0 /\ 1..Len(stack) = {}
    BY <1>1
<1>3. Size \in Nat
    BY BlocksAssumption DEF Size, Blocks, Unsigned
<1>4. (Len(stack) * Size) % Word = 0
    BY <1>2, <1>3, TableAssumption
<1> QED
    BY <1>1, <1>2, <1>4, IInvInit DEF SInv, Stacked

LEMMA SizeType == EqualSizes => Size \in Unsigned /\ Size \in Nat
    BY BlocksAssumption, TableAssumption DEF Size, Blocks, Unsigned

\* Products up to the size of the storage.
LEMMA SizeFits ==
    ASSUME EqualSizes, NEW k \in Nat, k <= LMRefSize
    PROVE  k * Size <= Word
<1>1. k * Size <= LMRefSize * Size
    BY SizeType, TableAssumption, ProductsMonotonic
<1>2. k * Size \in Nat /\ LMRefSize * Size \in Nat /\ Word \in Nat
    BY SizeType, TableAssumption, Products
<1> QED
    BY <1>1, <1>2 DEF EqualSizes

LEMMA EnterStacks ==
    ASSUME EqualSizes, SInv, NEW b \in Blocks, Enter(b)
    PROVE  SInv'
<1> DEFINE n == Len(stack)
<1>1. IInv'
    BY EnterKeeps DEF SInv
<1>2. /\ stack \in Seq(Blocks) /\ n \in Nat /\ LMDir \in [0..(LMDirSize - 1) -> DirEntry]
      /\ LMBIndex \in Unsigned
    BY DEF SInv, IInv, TypeOK, TablesTypeOK
<1>3. /\ stack' = Append(stack, b) /\ returned' = returned /\ ~returned
      /\ \A i \in 1..n : stack[i].ref # b.ref
    BY DEF Enter, Start
<1>4. /\ stack' \in Seq(Blocks) /\ Len(stack') = n + 1 /\ stack'[n + 1] = b
      /\ \A i \in 1..n : stack'[i] = stack[i]
    BY <1>2, <1>3
<1>5. n + 1 <= LMRefSize
    BY <1>1, <1>4, StackFits DEF IInv, EntriesDiffer
<1>6. (n + 1) * Size <= Word
    BY <1>2, <1>5, SizeFits
<1>7. /\ LMDir' = [LMDir EXCEPT ![b.ref] = [LMBIndex |-> LMBIndex, BlockID |-> b.id,
                                            BlockSize |-> b.size, state |-> "E"]]
      /\ LMBIndex' = (LMBIndex + b.size) % Word
    BY BlockType DEF Enter, Start, allocateBlock, AddressOf, AllocOps
<1>8. b.size = Size /\ Size \in Unsigned
    BY SizeType DEF EqualSizes
<1>9. LMBIndex = n * Size /\ LMBIndex' = ((n + 1) * Size) % Word
    BY <1>2, <1>6, <1>7, <1>8, SizesAdd DEF SInv, Stacked
<1>10. b.ref \in 0..(LMDirSize - 1) /\ 0 \in 0..(LMDirSize - 1)
    BY BlockType, TableAssumption
<1>11. ASSUME NEW i \in 1..Len(stack')
       PROVE  LMDir'[stack'[i].ref].LMBIndex = (i - 1) * Size
  <2>1. CASE i = n + 1
    <3>1. LMDir'[b.ref].LMBIndex = LMBIndex
        BY <1>2, <1>7, <1>10
    <3> QED
        BY <3>1, <2>1, <1>2, <1>4, <1>9
  <2>2. CASE i \in 1..n
    <3>1. stack[i] \in Blocks /\ stack'[i] = stack[i] /\ stack[i].ref # b.ref
        BY <2>2, <1>2, <1>3, <1>4
    <3>2. stack[i].ref \in 0..(LMDirSize - 1)
        BY <3>1, BlockType
    <3>3. LMDir'[stack[i].ref] = LMDir[stack[i].ref]
        BY <3>1, <3>2, <1>2, <1>7
    <3> QED
        BY <3>1, <3>3, <2>2, <1>3 DEF SInv, Stacked
  <2> QED
      BY <2>1, <2>2, <1>2, <1>4
<1>12. LMDir'[0].BlockSize = Size
  <2>1. CASE n = 0
    <3>1. b.ref = 0
        BY <2>1, BlocksAssumption DEF Enter, Start
    <3> QED
        BY <3>1, <1>2, <1>7, <1>8, <1>10
  <2>2. CASE n # 0
    <3>1. LMDir[0].BlockSize = Size
        BY <2>2, <1>2 DEF SInv, Stacked
    <3> QED
        BY <3>1, <1>2, <1>7, <1>8, <1>10
  <2> QED
      BY <2>1, <2>2
<1>13. Stacked'
    BY <1>3, <1>4, <1>9, <1>11, <1>12 DEF Stacked, Size
<1> QED
    BY <1>1, <1>13 DEF SInv

\* A block goes: the free pointer moves down by its size, and no entry changes
\* its place or its size.
LEMMA RemoveUnstacks ==
    ASSUME EqualSizes, SInv, NEW k \in 1..Len(stack),
           deallocateBlock(AddressOf(stack[k], "NoWriteDealloc"))
    PROVE  /\ LMBIndex' = ((Len(stack) - 1) * Size) % Word
           /\ LMDir'[0].BlockSize = Size
           /\ \A r \in 0..(LMDirSize - 1) : LMDir'[r].LMBIndex = LMDir[r].LMBIndex
<1> DEFINE n == Len(stack)
           b == stack[k]
<1>1. /\ stack \in Seq(Blocks) /\ n \in Nat /\ n - 1 \in Nat
      /\ LMDir \in [0..(LMDirSize - 1) -> DirEntry]
    BY DEF SInv, IInv, TypeOK, TablesTypeOK
<1>2. b \in Blocks
    BY <1>1
<1>3. b.ref \in 0..(LMDirSize - 1) /\ 0 \in 0..(LMDirSize - 1)
    BY <1>2, BlockType, TableAssumption
<1>4. LMDir[0].BlockSize = Size
    BY <1>1 DEF SInv, Stacked
<1>5. /\ LMDir' = [LMDir EXCEPT ![b.ref].state = "I"]
      /\ LMBIndex' = (LMBIndex - Size) % Word
    BY <1>2, <1>4, BlockType DEF deallocateBlock, LMDirIndex
<1>6. n <= LMRefSize
    BY <1>1, StackFits DEF SInv, IInv, EntriesDiffer
<1>7. ((n - 1) + 1) * Size <= Word /\ (n - 1) + 1 = n
    BY <1>1, <1>6, SizeFits
<1>8. LMBIndex = (n * Size) % Word
    BY DEF SInv, Stacked
<1>9. LMBIndex' = ((n - 1) * Size) % Word
    BY <1>1, <1>5, <1>7, <1>8, SizesAdd, SizeType
<1>10. \A r \in 0..(LMDirSize - 1) :
          LMDir'[r].LMBIndex = LMDir[r].LMBIndex /\ LMDir'[r].BlockSize = LMDir[r].BlockSize
    BY <1>1, <1>3, <1>5 DEF DirEntry
<1> QED
    BY <1>3, <1>4, <1>9, <1>10

LEMMA LeaveUnstacks == EqualSizes /\ SInv /\ Leave => SInv'
<1> SUFFICES ASSUME EqualSizes, SInv, Leave PROVE SInv'
    OBVIOUS
<1> DEFINE n == Len(stack)
<1>1. IInv'
    BY LeaveKeeps DEF SInv
<1>2. stack \in Seq(Blocks) /\ n \in Nat /\ n > 2
    BY DEF SInv, IInv, TypeOK, Leave
<1>3. /\ stack' = SubSeq(stack, 1, n - 1) /\ returned' = returned
      /\ deallocateBlock(AddressOf(stack[n], "NoWriteDealloc"))
    BY DEF Leave
<1>4. /\ Len(stack') = n - 1 /\ \A i \in 1..(n - 1) : stack'[i] = stack[i]
    BY <1>2, <1>3
<1>5. ~returned
    BY <1>2 DEF SInv, Stacked
<1>6. /\ LMBIndex' = ((n - 1) * Size) % Word /\ LMDir'[0].BlockSize = Size
      /\ \A r \in 0..(LMDirSize - 1) : LMDir'[r].LMBIndex = LMDir[r].LMBIndex
    BY <1>2, <1>3, RemoveUnstacks
<1>7. ASSUME NEW i \in 1..Len(stack')
      PROVE  LMDir'[stack'[i].ref].LMBIndex = (i - 1) * Size
  <2>1. i \in 1..n /\ stack'[i] = stack[i] /\ stack[i] \in Blocks
      BY <1>2, <1>4
  <2>2. stack[i].ref \in 0..(LMDirSize - 1)
      BY <2>1, BlockType
  <2> QED
      BY <2>1, <2>2, <1>5, <1>6 DEF SInv, Stacked
<1>8. Stacked'
    BY <1>3, <1>4, <1>5, <1>6, <1>7 DEF Stacked, Size
<1> QED
    BY <1>1, <1>8 DEF SInv

LEMMA LeaveMainUnstacks == EqualSizes /\ SInv /\ LeaveMain => SInv'
<1> SUFFICES ASSUME EqualSizes, SInv, LeaveMain PROVE SInv'
    OBVIOUS
<1> DEFINE n == Len(stack)
<1>1. IInv'
    BY LeaveMainKeeps DEF SInv
<1>2. stack \in Seq(Blocks) /\ n \in {1, 2}
    BY DEF SInv, IInv, TypeOK, LeaveMain
<1>3. /\ stack' = Tail(stack) /\ returned' = TRUE
      /\ deallocateBlock(AddressOf(stack[1], "NoWriteDealloc"))
    BY DEF LeaveMain
<1>4. Len(stack') = n - 1
    BY <1>2, <1>3
<1>5. LMBIndex' = ((n - 1) * Size) % Word /\ LMDir'[0].BlockSize = Size
    BY <1>2, <1>3, RemoveUnstacks
<1>6. Stacked'
    BY <1>2, <1>3, <1>4, <1>5 DEF Stacked, Size
<1> QED
    BY <1>1, <1>6 DEF SInv

LEMMA StoreStacked ==
    ASSUME SInv, NEW b \in Blocks, Store(b)
    PROVE  SInv'
<1>1. IInv'
    BY StoreKeeps DEF SInv
<1>2. LMDir \in [0..(LMDirSize - 1) -> DirEntry] /\ stack \in Seq(Blocks)
    BY DEF SInv, IInv, TypeOK, TablesTypeOK
<1>3. /\ b.ref \in 0..(LMDirSize - 1) /\ 0 \in 0..(LMDirSize - 1)
      /\ Slot(AddressOf(b, "Access")) = b.ref
    BY BlockType, TableAssumption
<1>4. /\ LMDir' = [LMDir EXCEPT ![b.ref].state = "M"]
      /\ UNCHANGED <<LMBIndex, stack, returned>>
    BY <1>3 DEF Store, setBlockState
<1>5. \A r \in 0..(LMDirSize - 1) :
         LMDir'[r].LMBIndex = LMDir[r].LMBIndex /\ LMDir'[r].BlockSize = LMDir[r].BlockSize
    BY <1>2, <1>3, <1>4 DEF DirEntry
<1>6. \A i \in 1..Len(stack) : stack[i].ref \in 0..(LMDirSize - 1)
    BY <1>2, BlockType
<1>7. Stacked'
    BY <1>3, <1>4, <1>5, <1>6 DEF SInv, Stacked, Size
<1> QED
    BY <1>1, <1>7 DEF SInv

LEMMA SInvStep == EqualSizes /\ SInv /\ [Next]_pvars => SInv'
<1> SUFFICES ASSUME EqualSizes, SInv, [Next]_pvars PROVE SInv'
    OBVIOUS
<1>1. ASSUME NEW b \in Blocks, Enter(b) PROVE SInv'
    BY <1>1, EnterStacks
<1>2. CASE Leave
    BY <1>2, LeaveUnstacks
<1>3. CASE LeaveMain
    BY <1>3, LeaveMainUnstacks
<1>4. ASSUME NEW b \in Blocks, Store(b) PROVE SInv'
    BY <1>4, StoreStacked
<1>5. CASE UNCHANGED pvars
  <2>1. IInv'
      BY <1>5, IInvStep DEF SInv
  <2> QED
      BY <2>1, <1>5 DEF pvars, SInv, Stacked, Size
<1> QED
    BY <1>1, <1>2, <1>3, <1>4, <1>5 DEF Next

LEMMA SInvHolds ==
    ASSUME EqualSizes
    PROVE  Spec => []SInv
    BY SInvInit, SInvStep, PTL DEF Spec

\* Blocks that lie one on the other have no byte in common.
LEMMA StackedApart == EqualSizes /\ SInv => NoOverlap
<1> SUFFICES ASSUME EqualSizes, SInv, NEW i \in 1..Len(stack), NEW j \in 1..Len(stack), i < j
             PROVE  Extent(stack[i]) \cap Extent(stack[j]) = {}
  <2>1. Len(stack) \in Nat
      BY DEF SInv, IInv, TypeOK
  <2> QED
      BY <2>1 DEF NoOverlap
<1>1. stack \in Seq(Blocks) /\ Len(stack) \in Nat
    BY DEF SInv, IInv, TypeOK
<1>2. ~returned
    BY <1>1 DEF SInv, Stacked
<1>3. \A k \in {i, j} :
         /\ LMDir[Slot(stack[k])].LMBIndex = (k - 1) * Size
         /\ LMDir[Slot(stack[k])].BlockSize = Size
  <2> SUFFICES ASSUME NEW k \in {i, j}
               PROVE  /\ LMDir[Slot(stack[k])].LMBIndex = (k - 1) * Size
                      /\ LMDir[Slot(stack[k])].BlockSize = Size
      OBVIOUS
  <2>1. k \in 1..Len(stack) /\ stack[k] \in Blocks
      BY <1>1
  <2>2. Slot(stack[k]) = stack[k].ref /\ stack[k].size = Size
      BY <2>1, BlockType DEF EqualSizes
  <2> QED
      BY <2>1, <2>2, <1>2 DEF SInv, Stacked, IInv, DirectoryMatchesProgram
<1> DEFINE p == (i - 1) * Size
           q == (j - 1) * Size
<1>4. Size \in Nat
    BY SizeType
<1>5. p \in Nat /\ q \in Nat /\ i * Size = p + Size /\ i * Size <= q
  <2>1. i - 1 \in Nat /\ j - 1 \in Nat /\ i \in Nat /\ i <= j - 1 /\ (i - 1) + 1 = i
      BY <1>1
  <2> QED
      BY <2>1, <1>4, Products, ProductsMonotonic
<1>6. Extent(stack[i]) = p .. (p + Size - 1) /\ Extent(stack[j]) = q .. (q + Size - 1)
    BY <1>3 DEF Extent
<1> HIDE DEF p, q
<1> QED
    BY <1>4, <1>5, <1>6

\* With blocks of one size whose storage fits in an unsigned, no two active
\* functions ever share storage; allocateBlock itself tests nothing.
THEOREM BlocksApart ==
    ASSUME EqualSizes
    PROVE  Spec => []NoOverlap
    BY SInvHolds, StackedApart, PTL

\* With blocks of one size, the free pointer is back at the start when main has
\* returned, though main gives its blocks back in the order it took them.
THEOREM SpaceReturned ==
    ASSUME EqualSizes
    PROVE  Spec => []AllSpaceReturned
<1>1. SInv => AllSpaceReturned
  <2> SUFFICES ASSUME SInv, stack = <<>> PROVE LMBIndex = 0
      BY DEF AllSpaceReturned
  <2>1. Len(stack) = 0 /\ LMBIndex = (Len(stack) * Size) % Word
      BY DEF SInv, Stacked
  <2>2. Size \in Nat
      BY BlocksAssumption DEF Size, Blocks, Unsigned
  <2> QED
      BY <2>1, <2>2, TableAssumption
<1> QED
    BY <1>1, SInvHolds, PTL
-----------------------------------------------------------------------------
(* LMStorePass: the entries, the room, and the addresses that the pass       *)
(* writes and LMStore::DecodeAddress reads.                                  *)

\* A function that has had its turn and has calls keeps the entry of the globals
\* only if its neighbours have all the other ones (LMRefMappingEntry).
EntryUnlessFull ==
    \A f \in Names : f <= mapped /\ Edges(f) # {} /\ lmref_index[f] = 0 =>
        \A index \in 1..(num_lmref_entries - 1) : ~isSafe(f, index)

\* No function has an entry before its turn: what is given stays.
Uncoloured == \A f \in Names : f > mapped => lmref_index[f] = 0

PassInv == PassTypeOK /\ Uncoloured /\ NeighboursDiffer /\ EntryUnlessFull
-----------------------------------------------------------------------------
LEMMA InitPassInv == PassInit => PassInv
  BY PassAssumption DEF PassInit, PassInv, PassTypeOK, Uncoloured, NeighboursDiffer, EntryUnlessFull, Names

\* The next function keeps 0, or gets an entry that no neighbour has.
LEMMA MappingStep ==
  ASSUME PassInv, LMRefMappingEntry
  PROVE  PassInv'
<1> DEFINE f == mapped + 1
<1> USE PassAssumption
<1>1. f \in Names /\ mapped' = f
  BY DEF PassInv, PassTypeOK, LMRefMappingEntry, Names
<1>2. UNCHANGED <<calls, block_size, generated, room, bypass>>
  BY DEF LMRefMappingEntry
<1>3. CASE UNCHANGED lmref_index
  <2>1. PassTypeOK'
    BY <1>1, <1>2, <1>3 DEF PassInv, PassTypeOK, Names
  <2>2. Uncoloured' /\ NeighboursDiffer'
    BY <1>1, <1>2, <1>3 DEF PassInv, Uncoloured, NeighboursDiffer, PassTypeOK, Names
  <2>3. Edges(f) # {} => Candidates(f) = {}
    <3> SUFFICES ASSUME Edges(f) # {}, Candidates(f) # {} PROVE FALSE
      OBVIOUS
    <3>1. PICK index \in Candidates(f) : lmref_index' = [lmref_index EXCEPT ![f] = index]
      BY DEF LMRefMappingEntry
    <3>2. index \in 1..(num_lmref_entries - 1) /\ lmref_index[f] = index
      BY <3>1, <1>1, <1>3 DEF Candidates, PassInv, PassTypeOK
    <3> QED BY <3>2, <1>1 DEF PassInv, PassTypeOK, Uncoloured
  <2>4. EntryUnlessFull'
    <3> SUFFICES ASSUME NEW g \in Names, g <= mapped', Edges(g)' # {}, lmref_index'[g] = 0,
                        NEW index \in 1..(num_lmref_entries - 1)
                 PROVE  ~isSafe(g, index)'
      BY DEF EntryUnlessFull
    <3>1. Edges(g)' = Edges(g) /\ (isSafe(g, index)' <=> isSafe(g, index))
      BY <1>2, <1>3 DEF Edges, isSafe
    <3>2. CASE g = f
      BY <3>1, <3>2, <2>3 DEF Candidates
    <3>3. CASE g # f
      BY <3>1, <3>3, <1>1, <1>3 DEF PassInv, PassTypeOK, EntryUnlessFull, Names
    <3> QED BY <3>2, <3>3
  <2> QED BY <2>1, <2>2, <2>4 DEF PassInv
<1>4. CASE \E index \in Candidates(f) : lmref_index' = [lmref_index EXCEPT ![f] = index]
  <2>1. PICK index \in Candidates(f) : lmref_index' = [lmref_index EXCEPT ![f] = index]
    BY <1>4
  <2>2. index \in 1..(num_lmref_entries - 1) /\ isSafe(f, index)
    BY <2>1 DEF Candidates
  <2>3. lmref_index \in [Names -> 0..(num_lmref_entries - 1)]
    BY DEF PassInv, PassTypeOK
  <2>4. PassTypeOK'
    BY <1>1, <1>2, <2>1, <2>2 DEF PassInv, PassTypeOK, Names
  <2>5. Uncoloured'
    BY <1>1, <2>1, <2>3 DEF PassInv, PassTypeOK, Uncoloured, Names
  <2>6. NeighboursDiffer'
    <3> SUFFICES ASSUME NEW g \in Names, NEW h \in Names, g # h, <<g, h>> \in calls,
                        lmref_index'[g] # 0
                 PROVE  lmref_index'[g] # lmref_index'[h]
      BY <1>2 DEF NeighboursDiffer
    <3>1. CASE g = f
      <4>1. h \in Edges(f)
        BY <3>1 DEF Edges
      <4> QED BY <3>1, <4>1, <2>1, <2>2, <2>3 DEF isSafe
    <3>2. CASE h = f
      <4>1. g \in Edges(f)
        BY <3>2 DEF Edges
      <4> QED BY <3>2, <4>1, <2>1, <2>2, <2>3 DEF isSafe
    <3>3. CASE g # f /\ h # f
      BY <3>3, <2>1, <2>3 DEF PassInv, NeighboursDiffer
    <3> QED BY <3>1, <3>2, <3>3
  <2>7. EntryUnlessFull'
    <3> SUFFICES ASSUME NEW g \in Names, g <= mapped', Edges(g)' # {}, lmref_index'[g] = 0,
                        NEW other \in 1..(num_lmref_entries - 1)
                 PROVE  ~isSafe(g, other)'
      BY DEF EntryUnlessFull
    <3>1. g # f /\ g <= mapped
      BY <1>1, <2>1, <2>2, <2>3 DEF PassInv, PassTypeOK, Names
    <3>2. Edges(g)' = Edges(g) /\ lmref_index[g] = 0
      BY <3>1, <1>1, <1>2, <2>1, <2>3 DEF Edges
    <3>3. PICK h \in Edges(g) : lmref_index[h] = other
      BY <3>1, <3>2 DEF PassInv, EntryUnlessFull, isSafe
    <3>4. h \in Names /\ h # f
      BY <3>3, <1>1 DEF Edges, PassInv, PassTypeOK, Uncoloured
    <3>5. lmref_index'[h] = other
      BY <3>3, <3>4, <2>1, <2>3
    <3> QED BY <3>2, <3>3, <3>5 DEF isSafe
  <2> QED BY <2>4, <2>5, <2>6, <2>7 DEF PassInv
<1> QED BY <1>3, <1>4 DEF LMRefMappingEntry

LEMMA codeGenStep ==
  ASSUME PassInv, codeGen
  PROVE  PassInv'
<1>1. UNCHANGED <<calls, block_size, lmref_index, mapped>>
  BY DEF codeGen
<1>2. generated + 1 \in Names /\ generated' = generated + 1
  BY PassAssumption DEF PassInv, PassTypeOK, codeGen, Names
<1>3. block_size[generated + 1] \in Nat
  BY <1>2, PassAssumption DEF PassInv, PassTypeOK
<1>4. room' \in 0..lmstorage_size /\ bypass' \subseteq Names
  BY <1>2, <1>3, PassAssumption DEF PassInv, PassTypeOK, codeGen
<1>5. PassTypeOK'
  BY <1>1, <1>2, <1>4 DEF PassInv, PassTypeOK, Names
<1>6. Uncoloured' /\ NeighboursDiffer'
  BY <1>1 DEF PassInv, Uncoloured, NeighboursDiffer
<1>7. EntryUnlessFull'
  BY <1>1 DEF PassInv, EntryUnlessFull, Edges, isSafe
<1> QED BY <1>5, <1>6, <1>7 DEF PassInv

LEMMA PassInductive == PassSpec => []PassInv
<1>1. PassInv /\ [PassNext]_passVars => PassInv'
  <2> SUFFICES ASSUME PassInv, [PassNext]_passVars PROVE PassInv'
    OBVIOUS
  <2>1. CASE LMRefMappingEntry
    BY <2>1, MappingStep
  <2>2. CASE codeGen
    BY <2>2, codeGenStep
  <2>3. CASE UNCHANGED passVars
    BY <2>3 
       DEF passVars, PassInv, PassTypeOK, Uncoloured, NeighboursDiffer, EntryUnlessFull, Edges, isSafe
  <2> QED BY <2>1, <2>2, <2>3 DEF PassNext
<1> QED BY <1>1, InitPassInv, PTL DEF PassSpec

\* LMRefMappingEntry and codeGen keep every variable in its range; the room that
\* codeGen counts down never becomes negative.
THEOREM PassTypeCorrect == PassSpec => []PassTypeOK
  BY PassInductive, PTL DEF PassInv

\* Whatever the call graph is, a function and its callee get different entries,
\* or the caller has none of its own (LMRefMappingEntry and isSafe).
THEOREM NeighboursApart == PassSpec => []NeighboursDiffer
  BY PassInductive, PTL DEF PassInv

\* The pass gives a function the entry of the globals only when there is nothing
\* else for it: it has no calls, or its neighbours have all the other entries
\* (LMRefMappingEntry, which searches from entry 1 on).
THEOREM EntriesAreFound == PassSpec => []EntryUnlessFull
  BY PassInductive, PTL DEF PassInv
-----------------------------------------------------------------------------
(* What a program that is compiled relies on. *)

\* Blocks are generated after all entries are given.
MappedFirst == generated > 0 => mapped = NumFunctions

\* The first function has the first entry, if it has one.
FirstEntry == lmref_index[1] \in {0, 1}

\* codeGen has left out the functions without variables, and none whose turn has
\* not come.
LeftOut ==
    /\ bypass \subseteq 1..generated
    /\ \A f \in 1..generated : block_size[f] = 0 => f \in bypass

PassFacts == PassInv /\ MappedFirst /\ FirstEntry /\ LeftOut

LEMMA PassFactsInit == PassInit => PassFacts
<1> SUFFICES ASSUME PassInit PROVE PassFacts
  OBVIOUS
<1>1. PassInv
  BY InitPassInv
<1>2. 1 \in Names /\ mapped = 0 /\ generated = 0 /\ bypass = {} /\ lmref_index = [f \in Names |-> 0]
  BY PassAssumption DEF PassInit, Names
<1> QED BY <1>1, <1>2 DEF PassFacts, MappedFirst, FirstEntry, LeftOut

LEMMA PassFactsStep == PassFacts /\ [PassNext]_passVars => PassFacts'
<1> SUFFICES ASSUME PassFacts, [PassNext]_passVars PROVE PassFacts'
  OBVIOUS
<1>1. PassInv /\ mapped \in 0..NumFunctions /\ generated \in 0..NumFunctions /\ 1 \in Names
      /\ lmref_index \in [Names -> 0..(num_lmref_entries - 1)]
  BY PassAssumption DEF PassFacts, PassInv, PassTypeOK, Names
<1>2. CASE LMRefMappingEntry
  <2>1. PassInv'
    BY <1>1, <1>2, MappingStep
  <2>2. /\ mapped < NumFunctions /\ mapped' = mapped + 1
        /\ UNCHANGED <<calls, block_size, generated, room, bypass>>
    BY <1>2 DEF LMRefMappingEntry
  <2>3. MappedFirst' /\ LeftOut'
    BY <1>1, <2>2 DEF PassFacts, MappedFirst, LeftOut
  <2>4. FirstEntry'
    <3>1. CASE UNCHANGED lmref_index
      BY <3>1 DEF PassFacts, FirstEntry
    <3>2. CASE lmref_index' # lmref_index
      <4> DEFINE f == mapped + 1
      <4>1. PICK index \in Candidates(f) :
                    /\ \A other \in Candidates(f) : index <= other
                    /\ lmref_index' = [lmref_index EXCEPT ![f] = index]
        BY <1>2, <3>2 DEF LMRefMappingEntry
      <4>2. f \in Names /\ index \in 1..(num_lmref_entries - 1)
        BY <4>1, <1>1, <2>2, PassAssumption DEF Candidates, Names
      <4>3. CASE f = 1
        <5>1. \A g \in Edges(f) : lmref_index[g] = 0
          BY <4>3, <1>1, PassAssumption DEF Edges, PassInv, PassTypeOK, Uncoloured, Names
        <5>2. 1 \in Candidates(f)
          BY <5>1, <4>2, PassAssumption DEF Candidates, isSafe
        <5>3. index = 1
          BY <4>1, <4>2, <5>2, PassAssumption
        <5> QED BY <4>1, <4>3, <5>3, <1>1 DEF FirstEntry
      <4>4. CASE f # 1
        BY <4>1, <4>4, <1>1 DEF PassFacts, FirstEntry
      <4> QED BY <4>3, <4>4
    <3> QED BY <3>1, <3>2
  <2> QED BY <2>1, <2>3, <2>4 DEF PassFacts
<1>3. CASE codeGen
  <2>1. PassInv'
    BY <1>1, <1>3, codeGenStep
  <2>2. UNCHANGED <<calls, block_size, lmref_index, mapped>> /\ mapped = NumFunctions
        /\ generated' = generated + 1
    BY <1>3 DEF codeGen
  <2>3. MappedFirst' /\ FirstEntry'
    BY <2>2 DEF PassFacts, MappedFirst, FirstEntry
  <2>4. /\ bypass' \subseteq bypass \cup {generated + 1}
        /\ bypass \subseteq bypass'
        /\ block_size[generated + 1] = 0 => generated + 1 \in bypass'
    <3>1. block_size[generated + 1] = 0 => ~(block_size[generated + 1] > room)
      BY <1>1, PassAssumption DEF PassInv, PassTypeOK
    <3> QED BY <3>1, <1>3 DEF codeGen
  <2>5. LeftOut'
    BY <2>2, <2>4, <1>1 DEF PassFacts, LeftOut
  <2> QED BY <2>1, <2>3, <2>5 DEF PassFacts
<1>4. CASE UNCHANGED passVars
  <2>1. PassInv'
    BY <1>4, <1>1 DEF passVars, PassInv, PassTypeOK, Uncoloured, NeighboursDiffer,
        EntryUnlessFull, Edges, isSafe
  <2>2. MappedFirst' /\ FirstEntry' /\ LeftOut'
    BY <1>4 DEF passVars, PassFacts, MappedFirst, FirstEntry, LeftOut
  <2> QED BY <2>1, <2>2 DEF PassFacts
<1> QED BY <1>2, <1>3, <1>4 DEF PassNext

LEMMA PassFactsHold == PassSpec => []PassFacts
  BY PassFactsInit, PassFactsStep, PTL DEF PassSpec

\* Blocks of one size: what is left of the storage is what the globals and the
\* blocks that are not left out do not take.
RoomLeft ==
    LET taken == Cardinality(1..generated \ bypass)
    IN  room = lmstorage_size - (taken + 1) * GlobalsSize

LEMMA RoomStep ==
  ASSUME BlockSizes \subseteq {0, GlobalsSize}, PassFacts, RoomLeft, [PassNext]_passVars
  PROVE  RoomLeft'
<1>1. CASE codeGen
  <2> DEFINE S == 1..generated \ bypass
             f == generated + 1
  <2>1. generated \in Nat /\ f \in Names /\ bypass \subseteq 1..generated /\ f \in Nat
    BY <1>1, PassAssumption DEF codeGen, PassFacts, PassInv, PassTypeOK, LeftOut, Names
  <2>2. IsFiniteSet(1..generated)
    BY <2>1, FS_Interval
  <2>3. IsFiniteSet(S) /\ f \notin S
    BY <2>1, <2>2, FS_Subset
  <2>4. Cardinality(S) \in Nat /\ Cardinality(S \cup {f}) = Cardinality(S) + 1
    BY <2>3, FS_CardinalityType, FS_AddElement
  <2>5. block_size[f] \in {0, GlobalsSize} /\ GlobalsSize \in Nat
        /\ lmstorage_size \in Nat /\ room \in Nat
    <3>1. block_size \in [Names -> BlockSizes] /\ room \in 0..lmstorage_size
      BY DEF PassFacts, PassInv, PassTypeOK
    <3>2. block_size[f] \in BlockSizes
      BY <3>1, <2>1
    <3>3. lmstorage_size \in Nat /\ GlobalsSize \in Nat /\ room \in Nat
      BY <3>1, PassAssumption
    <3> QED BY <3>2, <3>3
  <2>6. generated' = f
    BY <1>1 DEF codeGen
  <2>7. CASE block_size[f] = 0 \/ block_size[f] > room
    <3>1. bypass' = bypass \cup {f} /\ room' = room
      BY <1>1, <2>5, <2>7 DEF codeGen
    <3>2. 1..generated' \ bypass' = S
      BY <3>1, <2>1, <2>6
    <3> QED BY <3>1, <3>2 DEF RoomLeft
  <2>8. CASE block_size[f] # 0 /\ ~(block_size[f] > room)
    <3>1. bypass' = bypass /\ room' = room - GlobalsSize
      BY <1>1, <2>5, <2>8 DEF codeGen
    <3>2. 1..generated' \ bypass' = S \cup {f}
      BY <3>1, <2>1, <2>6
    <3>3. room = lmstorage_size - (Cardinality(S) + 1) * GlobalsSize
      BY DEF RoomLeft
    <3>4. ((Cardinality(S) + 1) + 1) * GlobalsSize = (Cardinality(S) + 1) * GlobalsSize + GlobalsSize
      BY <2>4, <2>5
    <3>5. (Cardinality(S) + 1) * GlobalsSize \in Nat
      BY <2>4, <2>5
    <3> HIDE DEF S
    <3>6. room' = lmstorage_size - ((Cardinality(S) + 1) + 1) * GlobalsSize
      BY <3>1, <3>3, <3>4, <3>5, <2>5
    <3> QED BY <3>2, <3>6, <2>4 DEF RoomLeft
  <2> QED BY <2>7, <2>8
<1>2. CASE UNCHANGED <<room, generated, bypass>>
  BY <1>2 DEF RoomLeft
<1> QED BY <1>1, <1>2 DEF PassNext, LMRefMappingEntry, passVars

LEMMA RoomHolds ==
  ASSUME BlockSizes \subseteq {0, GlobalsSize}
  PROVE  PassSpec => []RoomLeft
<1>1. PassInit => RoomLeft
  <2> SUFFICES ASSUME PassInit PROVE RoomLeft
    OBVIOUS
  <2>1. generated = 0 /\ room = lmstorage_size - GlobalsSize
    BY DEF PassInit
  <2>2. 1..generated \ bypass = {} /\ Cardinality({}) = 0
    BY <2>1, FS_EmptySet
  <2> QED BY <2>1, <2>2, PassAssumption DEF RoomLeft
<1>2. RoomLeft /\ PassFacts /\ [PassNext]_passVars => RoomLeft'
  BY RoomStep
<1> QED BY <1>1, <1>2, PassFactsHold, PTL DEF PassSpec
-----------------------------------------------------------------------------
(* The addresses. *)

Bytes == 0..255

LEMMA TwoDigits ==
  ASSUME NEW n \in Bytes
  PROVE  /\ Hex(n) = <<n \div 16, n % 16>>
         /\ n \div 16 \in Digits /\ n % 16 \in Digits
         /\ 16 * (n \div 16) + (n % 16) = n
  BY DEF Bytes, Digits, Hex

LEMMA Opcode ==
  ASSUME NEW v, NEW op \in {"NoReadAlloc", "Access", "NoWriteDealloc", "ReadAlloc", "WriteDealloc"},
         v[2] = Code(op)
  PROVE  getOpCode(v) = op
<1> DEFINE Ops == {"NoReadAlloc", "Access", "NoWriteDealloc", "ReadAlloc", "WriteDealloc"}
<1>1. \A p, q \in Ops : Code(p) = Code(q) => p = q
  BY DEF Code
<1> HIDE DEF Ops
<1>2. op \in Ops
  BY DEF Ops
<1>3. getOpCode(v) = CHOOSE p \in Ops : Code(p) = v[2]
  BY DEF getOpCode, Ops
<1> QED BY <1>1, <1>2, <1>3

Eight(a, b, c, d, e, f, g, h) == <<a, b>> \o <<c, d>> \o (<<e, f>> \o <<g, h>>)

LEMMA EightDigits ==
  ASSUME NEW a, NEW b, NEW c, NEW d, NEW e, NEW f, NEW g, NEW h
  PROVE  /\ Eight(a, b, c, d, e, f, g, h)[2] = b
         /\ Eight(a, b, c, d, e, f, g, h)[3] = c
         /\ Eight(a, b, c, d, e, f, g, h)[4] = d
         /\ Eight(a, b, c, d, e, f, g, h)[5] = e
         /\ Eight(a, b, c, d, e, f, g, h)[6] = f
         /\ Eight(a, b, c, d, e, f, g, h)[7] = g
         /\ Eight(a, b, c, d, e, f, g, h)[8] = h
  BY DEF Eight

\* An allocation arrives as it was generated, if every number in it has two
\* digits: the entry, the identifier and the size (LMStore.cc:154,
\* LMStoreLLVM.cpp:38).
THEOREM AllocationArrives ==
  ASSUME NEW op \in {"NoReadAlloc", "ReadAlloc"},
         NEW ref \in Bytes, NEW id \in Bytes, NEW size \in Bytes
  PROVE  DecodeAddress(blockDescriptorGen(op, ref, id, size)) =
            [op |-> op, ref |-> ref, id |-> id, size |-> size]
<1> DEFINE v == blockDescriptorGen(op, ref, id, size)
<1>1. v = Eight(7, Code(op), ref \div 16, ref % 16, id \div 16, id % 16, size \div 16, size % 16)
  BY TwoDigits DEF blockDescriptorGen, Eight
<1>2. /\ v[2] = Code(op)
      /\ v[3] = ref \div 16 /\ v[4] = ref % 16
      /\ v[5] = id \div 16 /\ v[6] = id % 16
      /\ v[7] = size \div 16 /\ v[8] = size % 16
  <2> HIDE DEF v
  <2> QED BY <1>1, EightDigits, SMT
<1>3. getOpCode(v) = op
  <2> HIDE DEF v
  <2> QED BY <1>2, Opcode
<1>4. 16 * v[3] + v[4] = ref /\ 16 * v[5] + v[6] = id /\ 16 * v[7] + v[8] = size
  <2> HIDE DEF v
  <2> QED BY <1>2, TwoDigits
<1> HIDE DEF v
<1>5. DecodeAddress(v) = [op |-> op, ref |-> ref, id |-> id, size |-> size]
  BY <1>3, <1>4 DEF DecodeAddress
<1> QED BY <1>5 DEF v

\* Any operation on a block arrives with its operation code and its LMRef entry:
\* it finds the block that it is meant for, though the identifier of a block
\* that is deallocated loses its second digit (LMStore.cc:154).
THEOREM EntryArrives ==
  ASSUME NEW op \in {"NoReadAlloc", "Access", "NoWriteDealloc", "ReadAlloc", "WriteDealloc"},
         NEW ref \in Bytes, NEW id \in Bytes, NEW size \in Bytes
  PROVE  /\ DecodeAddress(blockDescriptorGen(op, ref, id, size)).op = op
         /\ DecodeAddress(blockDescriptorGen(op, ref, id, size)).ref = ref
<1> DEFINE v == blockDescriptorGen(op, ref, id, size)
<1>1. \E e, f, g, h : v = Eight(7, Code(op), ref \div 16, ref % 16, e, f, g, h)
  <2>1. CASE op = "Access"
    <3>1. <<0, 0, 0, 0>> = <<0, 0>> \o <<0, 0>>
      OBVIOUS
    <3>2. v = Eight(7, Code(op), ref \div 16, ref % 16, 0, 0, 0, 0)
      BY <2>1, <3>1, TwoDigits DEF blockDescriptorGen, Eight
    <3> QED BY <3>2
  <2>2. CASE op = "WriteDealloc"
    <3>1. v = Eight(7, Code(op), ref \div 16, ref % 16, id \div 16, id % 16, 0, 0)
      BY <2>2, TwoDigits DEF blockDescriptorGen, Eight
    <3> QED BY <3>1
  <2>3. CASE op \notin {"Access", "WriteDealloc"}
    <3>1. v = Eight(7, Code(op), ref \div 16, ref % 16, id \div 16, id % 16,
                    size \div 16, size % 16)
      BY <2>3, TwoDigits DEF blockDescriptorGen, Eight
    <3> QED BY <3>1
  <2> QED BY <2>1, <2>2, <2>3
<1>2. v[2] = Code(op) /\ v[3] = ref \div 16 /\ v[4] = ref % 16
  <2> HIDE DEF v
  <2> QED BY <1>1, EightDigits, SMT
<1>3. getOpCode(v) = op /\ 16 * v[3] + v[4] = ref
  <2> HIDE DEF v
  <2> QED BY <1>2, Opcode, TwoDigits
<1> HIDE DEF v
<1>4. DecodeAddress(v).op = op /\ DecodeAddress(v).ref = ref
  BY <1>3 DEF DecodeAddress
<1> QED BY <1>4 DEF v
-----------------------------------------------------------------------------
(* CompiledProgram.                                                          *)

\* LMStoreProgram is about given blocks: they are those that the pass may give
\* to main and to the other functions.
AllBlocks ==
    /\ Main.ref = 1 /\ Main.id = 1
    /\ [ref : 2..(num_lmref_entries - 1), id : 2..NumFunctions, size : BlockSizes \ {0}]
          \subseteq Functions

MainSize == block_size[main] \in {0, Main.size}

\* A program runs only when the pass is done, and the pass does nothing then.
Compiled == stack # <<>> \/ active # <<>> \/ returned => Runs

\* Who may call whom, directly or by others, and the block of every function.
Below == {p \in Names \X Names : Reaches(p[1], p[2])}
BlocksOf == [f \in Names |-> BlockOf(f)]

\* The active functions are a chain of calls from main.
Chain ==
    /\ active \in Seq(Names)
    /\ active # <<>> => stack # <<>> \/ returned
    /\ active # <<>> => active[1] = main
    /\ \A i, j \in 1..Len(active) : i < j => <<active[i], active[j]>> \in Below

\* The positions of the active functions that have a block.
Holders == {j \in 1..Len(active) : active[j] \notin bypass}

\* Above the block of the globals, the stack has those of the active functions
\* that have one, in the order of the calls.
Follows(position) ==
    /\ \A i \in 2..Len(stack) : stack[i] = BlocksOf[active[position[i]]]
    /\ \A i, k \in 2..Len(stack) : i < k => position[i] < position[k]
    /\ \A j \in Holders : \E i \in 2..Len(stack) : position[i] = j

Frames ==
    /\ stack \in Seq(Blocks)
    /\ returned \in BOOLEAN
    /\ ~returned /\ stack # <<>> =>
          /\ stack[1] = Globals
          /\ \E position \in [2..Len(stack) -> Holders] : Follows(position)
    /\ ~returned /\ stack = <<>> => active = <<>>
    /\ returned => Len(active) = 1 /\ stack \in {<<>>, <<Main>>}

CInv == MainSize /\ Compiled /\ Chain /\ Frames
-----------------------------------------------------------------------------
(* The call graph. *)

LEMMA BelowReaches ==
  ASSUME NEW f, NEW g, <<f, g>> \in Below
  PROVE  Reaches(f, g)
<1>1. PICK p \in Names \X Names : p = <<f, g>> /\ Reaches(p[1], p[2])
  BY DEF Below
<1>2. p[1] = f /\ p[2] = g
  BY <1>1
<1> QED BY <1>1, <1>2

LEMMA CallReaches ==
  ASSUME NEW f \in Names, NEW g \in Names, <<f, g>> \in calls
  PROVE  Reaches(f, g)
  BY DEF Reaches

LEMMA CallReachesOn ==
  ASSUME NEW f \in Names, NEW g \in Names, NEW h \in Names, Reaches(f, g), <<g, h>> \in calls
  PROVE  Reaches(f, h)
  BY DEF Reaches

LEMMA MainIsAName == main \in Names
  BY PassAssumption DEF main, Names

\* A function that starts can be reached from all active ones.
LEMMA CallExtendsChain ==
  ASSUME Chain, NEW f \in Names, active # <<>>, <<active[Len(active)], f>> \in calls,
         NEW i \in 1..Len(active)
  PROVE  Reaches(active[i], f)
<1>1. active \in Seq(Names) /\ Len(active) \in 1..Len(active)
  BY DEF Chain
<1>2. active[i] \in Names /\ active[Len(active)] \in Names
  BY <1>1
<1>3. CASE i = Len(active)
  BY <1>2, <1>3, CallReaches
<1>4. CASE i # Len(active)
  <2>1. <<active[i], active[Len(active)]>> \in Below
    BY <1>1, <1>4 DEF Chain
  <2>2. Reaches(active[i], active[Len(active)])
    BY <2>1, BelowReaches
  <2> QED BY <2>2, <1>2, CallReachesOn
<1> QED BY <1>3, <1>4

\* An active function that has a block is one that Apart is about.
LEMMA HoldersAreUsers ==
  ASSUME Chain, NEW j \in Holders
  PROVE  active[j] \in Users
<1>1. active \in Seq(Names) /\ j \in 1..Len(active) /\ active[j] \notin bypass
  BY DEF Chain, Holders
<1>2. active[j] \in Names /\ active # <<>> /\ 1 \in 1..Len(active)
  BY <1>1
<1>3. CASE j = 1
  BY <1>1, <1>2, <1>3 DEF Chain, Users
<1>4. CASE j # 1
  <2>1. <<main, active[j]>> \in Below
    BY <1>1, <1>2, <1>4 DEF Chain
  <2>2. Reaches(main, active[j])
    BY <2>1, BelowReaches
  <2> QED BY <2>2, <1>1, <1>2 DEF Users
<1> QED BY <1>3, <1>4
-----------------------------------------------------------------------------
(* The blocks. *)

LEMMA blockSIDRange ==
  ASSUME NEW f \in Names
  PROVE  /\ blockSID(f) \in Nat
         /\ f \notin bypass => blockSID(f) \in 1..NumFunctions
         /\ f \notin bypass /\ main \notin bypass /\ f # main => blockSID(f) \in 2..NumFunctions
         /\ f = main /\ main \notin bypass => blockSID(f) = 1
<1> DEFINE S == {g \in 1..f : g \notin bypass \/ block_size[g] = 0}
<1>1. f \in 1..NumFunctions /\ NumFunctions \in Nat /\ main = 1 /\ f \in Nat
  BY PassAssumption DEF Names, main
<1>2. IsFiniteSet(1..f) /\ Cardinality(1..f) = f
  BY <1>1, FS_Interval
<1>3. IsFiniteSet(S) /\ Cardinality(S) \in Nat /\ Cardinality(S) <= f
  BY <1>2, FS_Subset, FS_CardinalityType
<1>4. blockSID(f) = Cardinality(S)
  BY DEF blockSID
<1>5. ASSUME f \notin bypass PROVE Cardinality(S) >= 1
  <2>1. f \in S
    BY <1>1, <1>5
  <2>2. Cardinality(S) # 0
    BY <2>1, <1>3, FS_EmptySet
  <2> QED BY <2>2, <1>3
<1>6. ASSUME f \notin bypass, main \notin bypass, f # main PROVE Cardinality(S) >= 2
  <2>1. {main} \subseteq S /\ f \in S /\ f \notin {main}
    BY <1>1, <1>6
  <2>2. Cardinality({main}) = 1 /\ IsFiniteSet({main})
    BY FS_Singleton
  <2>3. {main} \cup {f} \subseteq S
    BY <2>1
  <2>4. Cardinality({main} \cup {f}) = 2
    <3> DEFINE T == {main}
    <3>1. IsFiniteSet(T) /\ f \notin T /\ Cardinality(T) = 1
      BY <2>1, <2>2
    <3> HIDE DEF T
    <3>2. Cardinality(T \cup {f}) = Cardinality(T) + 1
      BY <3>1, FS_AddElement
    <3>3. Cardinality(T \cup {f}) = 2
      BY <3>1, <3>2
    <3> QED BY <3>3 DEF T
  <2>5. Cardinality({main} \cup {f}) <= Cardinality(S)
    BY <2>3, <1>3, FS_Subset
  <2> QED BY <2>4, <2>5, <1>3
<1>7. f = main /\ main \notin bypass => Cardinality(S) = 1
  BY <1>1, <1>3, <1>5
<1> HIDE DEF S
<1> QED BY <1>1, <1>3, <1>4, <1>5, <1>6, <1>7

\* Every number in the address of a block has two digits.
LEMMA BlocksAreBytes ==
  ASSUME PassFacts, Runs, NEW f \in Names \ bypass
  PROVE  /\ BlockOf(f).ref \in Bytes /\ BlockOf(f).id \in Bytes /\ BlockOf(f).size \in Bytes
         /\ BlockOf(f) = [ref |-> BlockOf(f).ref, id |-> BlockOf(f).id, size |-> BlockOf(f).size]
<1>1. block_size[f] \in Nat /\ lmref_index[f] \in Nat
  <2>1. block_size \in [Names -> BlockSizes] /\ lmref_index \in [Names -> 0..(num_lmref_entries - 1)]
    BY DEF PassFacts, PassInv, PassTypeOK
  <2>2. block_size[f] \in BlockSizes /\ lmref_index[f] \in 0..(num_lmref_entries - 1)
    BY <2>1
  <2>3. BlockSizes \subseteq Nat
    BY PassAssumption
  <2>4. num_lmref_entries \in Nat
    BY PassAssumption
  <2>5. block_size[f] \in Nat
    BY <2>2, <2>3
  <2>6. lmref_index[f] \in Nat
    BY <2>2, <2>4
  <2> QED BY <2>5, <2>6
<1>2. blockSID(f) \in Nat
  BY blockSIDRange
<1>3. block_size[f] < 256 /\ lmref_index[f] < 256 /\ blockSID(f) < 256
  BY DEF Runs, Linkable
<1> QED BY <1>1, <1>2, <1>3 DEF BlockOf, Bytes

LEMMA GlobalsAreBytes ==
  ASSUME Runs
  PROVE  /\ Globals.ref \in Bytes /\ Globals.id \in Bytes /\ Globals.size \in Bytes
         /\ Globals = [ref |-> Globals.ref, id |-> Globals.id, size |-> Globals.size]
<1>1. Globals \in [ref : 0..(LMRefSize - 1), id : Nat, size : Unsigned] /\ Globals.ref = 0
  BY BlocksAssumption DEF Blocks
<1>2. Globals.size \in Nat /\ Globals.size < 256 /\ Globals.id = 100
  BY <1>1, PassAssumption, CompiledAssumption DEF Runs, Linkable
<1> QED BY <1>1, <1>2 DEF Bytes

\* Users have blocks of LMStoreProgram.
LEMMA UsersHaveBlocks ==
  ASSUME AllBlocks, PassFacts, MainSize, Runs, Apart, NEW f \in Users
  PROVE  /\ BlockOf(f) \in Blocks
         /\ BlockOf(f).ref = lmref_index[f] /\ lmref_index[f] # 0
         /\ f = main => BlockOf(f) = Main
         /\ f # main => BlockOf(f) \in Functions
<1>1. f \in Names \ bypass /\ main \in Users /\ main \in Names \ bypass /\ f \in Nat
  BY MainIsAName DEF Apart, Users, Names
<1>2. /\ block_size[f] \in BlockSizes /\ lmref_index[f] \in 0..(num_lmref_entries - 1)
      /\ lmref_index[f] # 0 /\ generated = NumFunctions
  BY <1>1 DEF Runs, PassDone, Apart, PassFacts, PassInv, PassTypeOK
<1>3. block_size[f] # 0 /\ block_size[main] # 0
  BY <1>1, <1>2 DEF PassFacts, LeftOut, Names
<1>4. lmref_index[main] = 1
  BY <1>1 DEF Apart, PassFacts, FirstEntry, main
<1>5. CASE f = main
  <2>1. BlockOf(f) = [ref |-> 1, id |-> 1, size |-> Main.size]
    BY <1>1, <1>3, <1>4, <1>5, blockSIDRange DEF BlockOf, MainSize
  <2>2. Main \in Blocks /\ Main = [ref |-> Main.ref, id |-> Main.id, size |-> Main.size]
    BY BlocksAssumption DEF Blocks
  <2>3. BlockOf(f) = Main
    BY <2>1, <2>2 DEF AllBlocks
  <2> QED BY <2>2, <2>3, <1>2, <1>5 DEF BlockOf
<1>6. CASE f # main
  <2>1. Reaches(main, f)
    BY <1>6 DEF Users
  <2>2. lmref_index[f] # 1
    BY <2>1, <1>1, <1>4 DEF Apart
  <2>3. blockSID(f) \in 2..NumFunctions
    BY <1>1, <1>6, blockSIDRange
  <2>4. lmref_index[f] \in 2..(num_lmref_entries - 1)
    BY <1>2, <2>2, PassAssumption
  <2>5. BlockOf(f) \in Functions
    BY <2>3, <2>4, <1>2, <1>3 DEF BlockOf, AllBlocks
  <2> QED BY <2>5, <1>2, <1>6 DEF BlockOf, Blocks
<1> QED BY <1>5, <1>6

\* No function calls itself if it has a block; main is the first only.
LEMMA UsersDiffer ==
  ASSUME Apart, NEW f \in Users, NEW g \in Users, Reaches(f, g)
  PROVE  f # g /\ lmref_index[f] # lmref_index[g]
  BY DEF Apart
-----------------------------------------------------------------------------
(* The operations.  An address that blockDescriptorGen has written has the     *)
(* effect of the address that LMStoreProgram takes for it.                     *)

Generated(b) ==
    /\ b.ref \in Bytes /\ b.id \in Bytes /\ b.size \in Bytes
    /\ b = [ref |-> b.ref, id |-> b.id, size |-> b.size]

LEMMA AllocationEffect ==
  ASSUME NEW b, Generated(b), allocateBlock(Arrives(b, "NoReadAlloc"))
  PROVE  allocateBlock(AddressOf(b, "NoReadAlloc"))
<1>1. Arrives(b, "NoReadAlloc") = AddressOf(b, "NoReadAlloc")
  BY AllocationArrives DEF Generated, Arrives, AddressOf
<1> QED BY <1>1

LEMMA SlotArrives ==
  ASSUME NEW b, Generated(b), NEW op \in {"Access", "NoWriteDealloc"}
  PROVE  Slot(Arrives(b, op)) = Slot(AddressOf(b, op))
<1>1. Arrives(b, op).ref = b.ref
  BY EntryArrives DEF Generated, Arrives
<1> QED BY <1>1 DEF Slot, AddressOf

LEMMA DeallocationEffect ==
  ASSUME NEW b, Generated(b), deallocateBlock(Arrives(b, "NoWriteDealloc"))
  PROVE  deallocateBlock(AddressOf(b, "NoWriteDealloc"))
  BY SlotArrives DEF deallocateBlock

\* What the stack holds was generated.
LEMMA StackGenerated ==
  ASSUME AllBlocks, PassFacts, CInv, Apart, Runs, NEW i \in 1..Len(stack)
  PROVE  Generated(stack[i])
<1>1. stack \in Seq(Blocks)
  BY DEF CInv, Frames
<1>2. CASE returned
  <2>1. stack[i] = Main
    BY <1>2 DEF CInv, Frames
  <2>2. main \in Users /\ main \in Names \ bypass
    BY DEF Apart, Users
  <2>3. BlockOf(main) = Main
    BY <2>2, UsersHaveBlocks DEF CInv
  <2> QED BY <2>1, <2>2, <2>3, BlocksAreBytes DEF Generated
<1>3. CASE ~returned /\ i = 1
  <2>1. stack # <<>>
    BY <1>1
  <2> QED BY <2>1, <1>3, GlobalsAreBytes DEF CInv, Frames, Generated
<1>4. CASE ~returned /\ i # 1
  <2>1. stack # <<>> /\ i \in 2..Len(stack)
    BY <1>1, <1>4
  <2>2. PICK position \in [2..Len(stack) -> Holders] : Follows(position)
    BY <2>1, <1>4 DEF CInv, Frames
  <2>3. stack[i] = BlocksOf[active[position[i]]] /\ position[i] \in Holders
    BY <2>1, <2>2 DEF Follows
  <2>4. active[position[i]] \in Names \ bypass
    BY <2>3, HoldersAreUsers DEF CInv, Users
  <2>5. stack[i] = BlockOf(active[position[i]])
    BY <2>3, <2>4 DEF BlocksOf
  <2> QED BY <2>4, <2>5, BlocksAreBytes DEF Generated
<1> QED BY <1>2, <1>3, <1>4
-----------------------------------------------------------------------------
(* The steps.  Each keeps the invariant and is a step of LMStoreProgram, or    *)
(* leaves its variables alone.                                                 *)

Good == AllBlocks /\ OnlyApart /\ PassFacts /\ CInv

\* What a step of the program leaves alone.
LEMMA PassUnchanged ==
  ASSUME UNCHANGED passVars
  PROVE  /\ Runs' = Runs /\ bypass' = bypass /\ (MainSize' <=> MainSize)
         /\ BlocksOf' = BlocksOf /\ Below' = Below
  BY DEF passVars, Runs, PassDone, Linkable, Apart, Users, Reaches, blockSID, MainSize, BlockOf,
         BlocksOf, Below
\* The pass works before the program does.
LEMMA PassStep ==
  ASSUME Good, PassNext, UNCHANGED <<tables, stack, returned, active>>
  PROVE  CInv' /\ UNCHANGED pvars
<1>1. ~PassDone
  BY DEF PassNext, LMRefMappingEntry, codeGen, PassDone, Good, PassFacts, MappedFirst,
         PassInv, PassTypeOK, Names
<1>2. stack = <<>> /\ active = <<>> /\ ~returned
  BY <1>1 DEF Good, CInv, Compiled, Runs
<1>3. stack' = <<>> /\ active' = <<>> /\ ~returned' /\ returned' = returned
  BY <1>2
<1>4. MainSize'
  BY DEF PassNext, LMRefMappingEntry, codeGen, Good, CInv, MainSize
<1>5. Compiled'
  BY <1>3 DEF Compiled
<1>6. Chain'
  BY <1>3 DEF Chain
<1>7. Frames'
  BY <1>2, <1>3 DEF Frames, Good, CInv
<1> QED BY <1>4, <1>5, <1>6, <1>7 DEF CInv, pvars, tables

LEMMA StartMainStep ==
  ASSUME Good, StartMain
  PROVE  CInv' /\ Next
<1>1. /\ active = <<>> /\ stack = <<>> /\ ~returned /\ Runs
      /\ UNCHANGED <<returned, passVars, active>>
      /\ allocateBlock(Arrives(Globals, "NoReadAlloc")) /\ stack' = Append(stack, Globals)
  BY DEF StartMain, Allocate
<1>2. allocateBlock(AddressOf(Globals, "NoReadAlloc"))
  BY <1>1, GlobalsAreBytes, AllocationEffect DEF Generated
<1>3. Globals \in Blocks /\ Len(stack) = 0 /\ stack' = <<Globals>>
  BY <1>1 DEF Blocks
<1>4. Enter(Globals)
  BY <1>1, <1>2, <1>3 DEF Enter, Start
<1>5. MainSize' /\ Compiled' /\ Chain'
  <2>1. UNCHANGED passVars
    BY <1>1
  <2>2. Runs' /\ MainSize'
    BY <1>1, <2>1, PassUnchanged DEF Good, CInv
  <2>3. active' = <<>> /\ <<>> \in Seq(Names) /\ Len(<<>>) = 0
    BY <1>1
  <2>4. Chain'
    BY <2>3 DEF Chain
  <2> QED BY <2>2, <2>4 DEF Compiled
<1>6. Frames'
  <2>1. stack' \in Seq(Blocks) /\ Len(stack') = 1 /\ stack'[1] = Globals /\ stack' # <<>>
    BY <1>3
  <2>2. 2..Len(stack') = {} /\ Holders' = {}
    BY <1>1, <2>1 DEF Holders
  <2> DEFINE empty == [i \in {} |-> 0]
  <2>3. empty \in [2..Len(stack') -> Holders']
    BY <2>2
  <2> HIDE DEF empty
  <2>4. Follows(empty)'
    BY <2>2 DEF Follows
  <2>5. \E position \in [2..Len(stack') -> Holders'] : Follows(position)'
    BY <2>3, <2>4
  <2>6. returned' \in BOOLEAN /\ ~returned'
    BY <1>1 DEF Good, CInv, Frames
  <2> QED BY <2>1, <2>5, <2>6 DEF Frames
<1> QED BY <1>3, <1>4, <1>5, <1>6 DEF CInv, Next

\* A function that starts has a new entry, and its block comes on top.
LEMMA CallStep ==
  ASSUME Good, NEW f \in Names, Call(f)
  PROVE  CInv' /\ [Next]_pvars
<1> DEFINE n == Len(active)
           m == Len(stack)
<1>1. /\ stack # <<>> /\ ~returned /\ returned' = returned /\ UNCHANGED passVars
      /\ active' = Append(active, f)
      /\ active = <<>> => f = main
      /\ active # <<>> => <<active[n], f>> \in calls
  BY DEF Call
<1>2. Runs /\ Apart /\ MainSize /\ Chain /\ Frames /\ PassFacts /\ AllBlocks
  BY <1>1 DEF Good, CInv, Compiled, Runs
<1>3. active \in Seq(Names) /\ stack \in Seq(Blocks) /\ n \in Nat /\ m \in Nat /\ m >= 1
  BY <1>1, <1>2 DEF Chain, Frames
<1>4. /\ active' \in Seq(Names) /\ Len(active') = n + 1 /\ active'[n + 1] = f
      /\ \A i \in 1..n : active'[i] = active[i]
  BY <1>1, <1>3
<1>5. /\ bypass' = bypass /\ Runs' /\ MainSize'
      /\ BlocksOf' = BlocksOf /\ Below' = Below
  BY <1>1, <1>2, PassUnchanged
<1>6. \A i \in 1..n : Reaches(active[i], f)
  <2>1. ASSUME NEW i \in 1..n PROVE Reaches(active[i], f)
    <3>1. active # <<>>
      BY <1>3
    <3> QED BY <3>1, <1>1, <1>2, CallExtendsChain
  <2> QED BY <2>1
<1>7. Chain'
  <2>1. active'[1] = main
    <3>1. CASE n = 0
      BY <3>1, <1>1, <1>3, <1>4
    <3>2. CASE n # 0
      BY <3>2, <1>2, <1>3, <1>4 DEF Chain
    <3> QED BY <3>1, <3>2
  <2>2. ASSUME NEW i \in 1..(n + 1), NEW j \in 1..(n + 1), i < j
        PROVE  <<active'[i], active'[j]>> \in Below
    <3>1. i \in 1..n
      BY <1>3, <2>2
    <3>2. CASE j = n + 1
      <4>1. active[i] \in Names /\ Reaches(active[i], f)
        BY <3>1, <1>3, <1>6
      <4> QED BY <4>1, <3>1, <3>2, <1>4 DEF Below
    <3>3. CASE j # n + 1
      <4>1. j \in 1..n
        BY <3>3, <1>3
      <4> QED BY <3>1, <4>1, <2>2, <1>2, <1>4 DEF Chain
    <3> QED BY <3>2, <3>3
  <2>3. \A i, j \in 1..Len(active') : i < j => <<active'[i], active'[j]>> \in Below'
    BY <2>2, <1>4, <1>5
  <2>4. stack' # <<>>
    <3>1. stack' = stack \/ \E b : stack' = Append(stack, b)
      BY DEF Call, Allocate
    <3> QED BY <3>1, <1>1, <1>3
  <2> QED BY <2>1, <2>3, <2>4, <1>4 DEF Chain
<1>8. Compiled' /\ returned' \in BOOLEAN /\ ~returned'
  BY <1>1, <1>2, <1>5 DEF Compiled, Frames
<1>9. PICK position \in [2..m -> Holders] : Follows(position)
  BY <1>1, <1>2 DEF Frames
<1>10. stack[1] = Globals
  BY <1>1, <1>2 DEF Frames
<1>11. CASE f \in bypass
  <2>1. UNCHANGED <<tables, stack>>
    BY <1>11 DEF Call
  <2>2. Holders' = Holders
    BY <1>3, <1>4, <1>5, <1>11 DEF Holders
  <2>3. Follows(position)'
    <3>1. \A i \in 2..m : position[i] \in 1..n
      BY <1>9 DEF Holders
    <3> QED BY <3>1, <2>1, <2>2, <1>4, <1>5, <1>9 DEF Follows
  <2>4. Frames'
    BY <1>8, <1>9, <1>10, <2>1, <2>2, <2>3, <1>1, <1>3 DEF Frames
  <2> QED BY <2>1, <2>4, <1>1, <1>5, <1>7, <1>8 DEF CInv, pvars, tables
<1>12. CASE f \notin bypass
  <2>1. allocateBlock(Arrives(BlockOf(f), "NoReadAlloc")) /\ stack' = Append(stack, BlockOf(f))
    BY <1>12 DEF Call, Allocate
  <2>2. f \in Users
    <3>1. CASE n = 0
      BY <3>1, <1>1, <1>3, <1>12 DEF Users
    <3>2. CASE n # 0
      <4>1. 1 \in 1..n /\ active[1] = main
        BY <3>2, <1>2, <1>3 DEF Chain
      <4> QED BY <4>1, <1>6, <1>12 DEF Users
    <3> QED BY <3>1, <3>2
  <2>3. /\ BlockOf(f) \in Blocks /\ BlockOf(f).ref = lmref_index[f] /\ lmref_index[f] # 0
        /\ f = main => BlockOf(f) = Main
        /\ f # main => BlockOf(f) \in Functions
    BY <2>2, <1>2, UsersHaveBlocks
  <2>4. allocateBlock(AddressOf(BlockOf(f), "NoReadAlloc"))
    <3>1. Generated(BlockOf(f))
      BY <1>2, <1>12, BlocksAreBytes DEF Generated
    <3> QED BY <3>1, <2>1, AllocationEffect
  <2>5. \A i \in 1..m : stack[i].ref # BlockOf(f).ref
    <3> SUFFICES ASSUME NEW i \in 1..m PROVE stack[i].ref # BlockOf(f).ref
      OBVIOUS
    <3>1. CASE i = 1
      BY <3>1, <1>10, <2>3, BlocksAssumption
    <3>2. CASE i # 1
      <4>1. i \in 2..m
        BY <3>2, <1>3
      <4> DEFINE j == position[i]
      <4>2. j \in Holders /\ stack[i] = BlocksOf[active[j]]
        BY <4>1, <1>9 DEF Follows
      <4>3. active[j] \in Users /\ Reaches(active[j], f)
        BY <4>2, <1>2, <1>6, HoldersAreUsers DEF Holders
      <4>4. lmref_index[active[j]] # lmref_index[f] /\ stack[i].ref = lmref_index[active[j]]
        BY <4>2, <4>3, <2>2, <1>2, UsersDiffer DEF BlockOf, BlocksOf, Users
      <4> QED BY <4>4, <2>3
    <3> QED BY <3>1, <3>2
  <2>6. (m = 1) <=> (f = main)
    <3>1. CASE n = 0
      <4>1. Holders = {} /\ f = main
        BY <3>1, <1>1, <1>3 DEF Holders
      <4>2. 2..m = {}
        BY <4>1, <1>9
      <4>3. m = 1
        <5> HIDE DEF m
        <5>1. m # 1 => m >= 2
          BY <1>3
        <5>2. m >= 2 => 2 \in 2..m
          BY <1>3
        <5> QED BY <5>1, <5>2, <4>2
      <4> QED BY <4>1, <4>3
    <3>2. CASE n # 0
      <4>1. 1 \in 1..n /\ active[1] = main /\ main \in Users
        BY <3>2, <1>2, <1>3 DEF Chain, Apart
      <4>2. f # main
        BY <4>1, <1>6, <1>2, UsersDiffer
      <4>3. 1 \in Holders
        BY <4>1 DEF Holders, Users
      <4>4. \E i \in 2..m : position[i] = 1
        BY <4>3, <1>9 DEF Follows
      <4>5. m # 1
        <5>1. PICK i \in 2..m : position[i] = 1
          BY <4>4
        <5> HIDE DEF m
        <5> QED BY <5>1, <1>3
      <4> QED BY <4>2, <4>5
    <3> QED BY <3>1, <3>2
  <2>7. Start(BlockOf(f))
    <3>1. CASE m = 1
      BY <3>1, <2>1, <2>3, <2>4, <2>6, <1>1 DEF Start
    <3>2. CASE m # 1
      <4>1. m # 0 /\ BlockOf(f) \in Functions
        BY <3>2, <2>3, <2>6, <1>3
      <4> QED BY <3>2, <4>1, <2>1, <2>4, <1>1 DEF Start
    <3> QED BY <3>1, <3>2
  <2>8. Next
    BY <2>3, <2>5, <2>7 DEF Enter, Next
  <2>9. /\ stack' \in Seq(Blocks) /\ Len(stack') = m + 1 /\ stack'[m + 1] = BlockOf(f)
        /\ \A i \in 1..m : stack'[i] = stack[i]
    BY <2>1, <2>3, <1>3
  <2>10. Holders' = Holders \cup {n + 1}
    <3>1. ASSUME NEW j PROVE j \in Holders' <=> j \in Holders \cup {n + 1}
      <4>1. CASE j = n + 1
        BY <4>1, <1>3, <1>4, <1>5, <1>12 DEF Holders
      <4>2. CASE j # n + 1
        <5>1. j \in 1..(n + 1) <=> j \in 1..n
          BY <4>2, <1>3
        <5> QED BY <5>1, <4>2, <1>4, <1>5 DEF Holders
      <4> QED BY <4>1, <4>2
    <3> QED BY <3>1
  <2>11. PICK p : p = [i \in 2..(m + 1) |-> IF i = m + 1 THEN n + 1 ELSE position[i]]
    OBVIOUS
  <2>12. p \in [2..Len(stack') -> Holders']
    <3>1. ASSUME NEW i \in 2..(m + 1), i # m + 1 PROVE position[i] \in Holders
      <4>1. i \in 2..m
        BY <3>1, <1>3
      <4> QED BY <4>1, <1>9
    <3> QED BY <3>1, <2>9, <2>10, <2>11
  <2>13. Follows(p)'
    <3>1. p[m + 1] = n + 1 /\ \A i \in 2..m : p[i] = position[i] /\ position[i] \in 1..n
      BY <2>11, <1>3, <1>9 DEF Holders
    <3>2. ASSUME NEW i \in 2..(m + 1) PROVE stack'[i] = BlocksOf[active'[p[i]]]
      <4>1. CASE i = m + 1
        BY <4>1, <3>1, <2>9, <1>4 DEF BlocksOf
      <4>2. CASE i # m + 1
        <5>1. i \in 2..m /\ i \in 1..m
          BY <4>2, <1>3
        <5>2. stack'[i] = BlocksOf[active[position[i]]] /\ p[i] = position[i] /\ position[i] \in 1..n
          BY <5>1, <3>1, <2>9, <1>9 DEF Follows
        <5> QED BY <5>2, <1>4
      <4> QED BY <4>1, <4>2
    <3>3. ASSUME NEW i \in 2..(m + 1), NEW k \in 2..(m + 1), i < k PROVE p[i] < p[k]
      <4>1. i \in 2..m
        BY <3>3, <1>3
      <4>2. CASE k = m + 1
        BY <4>1, <4>2, <3>1, <1>3
      <4>3. CASE k # m + 1
        <5>1. k \in 2..m
          BY <4>3, <1>3
        <5> QED BY <4>1, <5>1, <3>1, <3>3, <1>9 DEF Follows
      <4> QED BY <4>2, <4>3
    <3>4. ASSUME NEW j \in Holders' PROVE \E i \in 2..(m + 1) : p[i] = j
      <4>1. CASE j = n + 1
        BY <4>1, <3>1, <1>3
      <4>2. CASE j # n + 1
        <5>1. j \in Holders
          BY <4>2, <3>4, <2>10
        <5>2. PICK i \in 2..m : position[i] = j
          BY <5>1, <1>9 DEF Follows
        <5> QED BY <5>2, <3>1, <1>3
      <4> QED BY <4>1, <4>2
    <3>5. \A i \in 2..(m + 1) : stack'[i] = BlocksOf'[active'[p[i]]]
      BY <3>2, <1>5
    <3> QED BY <3>3, <3>4, <3>5, <2>9 DEF Follows
  <2>14. stack'[1] = Globals /\ stack' # <<>>
    BY <2>9, <1>3, <1>10
  <2>15. Frames'
    <3>1. \E q \in [2..Len(stack') -> Holders'] : Follows(q)'
      BY <2>12, <2>13
    <3> QED BY <3>1, <2>9, <2>14, <1>8 DEF Frames
  <2> QED BY <2>8, <2>15, <1>5, <1>7, <1>8 DEF CInv
<1> QED BY <1>11, <1>12

\* The innermost function returns: its block, if it has one, is the top one, and
\* that of main is still there.
LEMMA ReturnStep ==
  ASSUME Good, Return
  PROVE  CInv' /\ [Next]_pvars
<1> DEFINE n == Len(active)
           m == Len(stack)
<1>1. /\ n > 1 /\ returned' = returned /\ UNCHANGED passVars
      /\ active' = SubSeq(active, 1, n - 1)
  BY DEF Return
<1>2. active \in Seq(Names) /\ n \in Nat /\ active # <<>>
  BY <1>1 DEF Good, CInv, Chain
<1>3. ~returned /\ returned' \in BOOLEAN
  BY <1>1, <1>2 DEF Good, CInv, Frames
<1>4. Runs /\ Apart /\ MainSize /\ Chain /\ Frames /\ PassFacts /\ AllBlocks /\ stack # <<>>
  BY <1>2, <1>3 DEF Good, CInv, Compiled, Runs, Frames
<1>5. stack \in Seq(Blocks) /\ m \in Nat /\ m >= 1 /\ stack[1] = Globals
  BY <1>3, <1>4 DEF Frames
<1>6. /\ active' \in Seq(Names) /\ Len(active') = n - 1 /\ active' # <<>>
      /\ \A i \in 1..(n - 1) : active'[i] = active[i]
  <2>1. n - 1 \in 1..n /\ n - 1 >= 1
    BY <1>1, <1>2
  <2>2. active' \in Seq(Names) /\ Len(active') = n - 1
    BY <2>1, <1>1, <1>2
  <2>3. \A i \in 1..(n - 1) : active'[i] = active[i]
    BY <2>1, <1>1, <1>2
  <2> QED BY <2>1, <2>2, <2>3
<1>7. bypass' = bypass /\ Runs' /\ MainSize' /\ BlocksOf' = BlocksOf /\ Below' = Below
  BY <1>1, <1>4, PassUnchanged
<1>8. Compiled'
  BY <1>7 DEF Compiled
<1>9. PICK position \in [2..m -> Holders] : Follows(position)
  BY <1>3, <1>4 DEF Frames
<1>10. active'[1] = main /\ \A i, j \in 1..(n - 1) : i < j => <<active'[i], active'[j]>> \in Below
  <2>1. active[1] = main /\ 1 \in 1..(n - 1)
    BY <1>1, <1>2, <1>4 DEF Chain
  <2>2. \A i \in 1..(n - 1) : i \in 1..n
    BY <1>2
  <2> QED BY <2>1, <2>2, <1>4, <1>6 DEF Chain
<1>11. CASE active[n] \in bypass
  <2>1. UNCHANGED <<tables, stack>>
    BY <1>11 DEF Return
  <2>2. Holders' = Holders
    <3>1. ASSUME NEW j PROVE j \in Holders' <=> j \in Holders
      <4>1. j \in 1..(n - 1) <=> j \in 1..n /\ j # n
        BY <1>1, <1>2
      <4> QED BY <4>1, <1>6, <1>7, <1>11 DEF Holders
    <3> QED BY <3>1
  <2>3. Follows(position)'
    <3>1. \A i \in 2..m : position[i] \in 1..(n - 1)
      BY <1>6, <1>9, <2>2 DEF Holders
    <3> QED BY <3>1, <2>1, <2>2, <1>6, <1>7, <1>9 DEF Follows
  <2>4. Frames'
    BY <1>3, <1>1, <1>4, <1>5, <1>9, <2>1, <2>2, <2>3 DEF Frames
  <2>5. Chain'
    BY <1>6, <1>7, <1>10, <2>1, <1>4 DEF Chain
  <2> QED BY <2>1, <2>4, <2>5, <1>1, <1>7, <1>8 DEF CInv, pvars, tables
<1>12. CASE active[n] \notin bypass
  <2>1. /\ deallocateBlock(Arrives(stack[m], "NoWriteDealloc"))
        /\ stack' = SubSeq(stack, 1, m - 1) \o SubSeq(stack, m + 1, m)
    BY <1>12 DEF Return, Deallocate
  <2>2. /\ 1 \in Holders /\ n \in Holders
    <3>1. active[1] = main /\ main \in Users /\ 1 \in 1..n
      BY <1>2, <1>4 DEF Chain, Apart
    <3> QED BY <3>1, <1>2, <1>12 DEF Holders, Users
  <2>3. PICK i1 \in 2..m : position[i1] = 1
    BY <2>2, <1>9 DEF Follows
  <2>4. PICK i2 \in 2..m : position[i2] = n
    BY <2>2, <1>9 DEF Follows
  <2>5. \A i \in 2..m : position[i] \in 1..n
    BY <1>9 DEF Holders
  <2>6. m > 2 /\ m \in 2..m
    <3>1. i1 # i2
      BY <2>3, <2>4, <1>1
    <3> HIDE DEF m
    <3> QED BY <3>1, <2>3, <2>4, <1>5
  <2>7. i2 = m
    <3>1. ~(i2 < m)
      <4>1. i2 < m => position[i2] < position[m]
        BY <2>4, <2>6, <1>9 DEF Follows
      <4> QED BY <4>1, <2>4, <2>5, <2>6, <1>2
    <3> HIDE DEF m
    <3> QED BY <3>1, <2>4, <1>5
  <2>8. /\ stack' = SubSeq(stack, 1, m - 1)
        /\ stack' \in Seq(Blocks) /\ Len(stack') = m - 1
        /\ \A i \in 1..(m - 1) : stack'[i] = stack[i]
    <3>1. SubSeq(stack, m + 1, m) = <<>> /\ SubSeq(stack, 1, m - 1) \in Seq(Blocks)
      BY <1>5
    <3>2. stack' = SubSeq(stack, 1, m - 1)
      BY <2>1, <3>1
    <3> QED BY <3>1, <3>2, <2>6, <1>5
  <2>9. Leave
    <3>1. Generated(stack[m])
      BY <2>6, <1>4, <1>5, StackGenerated DEF Good
    <3>2. deallocateBlock(AddressOf(stack[m], "NoWriteDealloc"))
      BY <3>1, <2>1, DeallocationEffect
    <3> QED BY <3>2, <2>6, <2>8, <1>1 DEF Leave
  <2>10. Holders' = Holders \ {n}
    <3>1. ASSUME NEW j PROVE j \in Holders' <=> j \in Holders \ {n}
      <4>1. j \in 1..(n - 1) <=> j \in 1..n /\ j # n
        BY <1>1, <1>2
      <4> QED BY <4>1, <1>6, <1>7 DEF Holders
    <3> QED BY <3>1
  <2>11. PICK p : p = [i \in 2..(m - 1) |-> position[i]]
    OBVIOUS
  <2>12. \A i \in 2..(m - 1) :
            /\ i \in 2..m /\ i \in 1..(m - 1) /\ i < m
            /\ p[i] = position[i] /\ position[i] \in Holders /\ position[i] # n
    <3> SUFFICES ASSUME NEW i \in 2..(m - 1)
                 PROVE  /\ i \in 2..m /\ i \in 1..(m - 1) /\ i < m
                        /\ p[i] = position[i] /\ position[i] \in Holders /\ position[i] # n
      OBVIOUS
    <3>1. i \in 2..m /\ i \in 1..(m - 1) /\ i < m
      BY <1>5
    <3>2. position[i] < position[m]
      BY <3>1, <2>6, <1>9 DEF Follows
    <3>3. position[i] # n
      BY <3>1, <3>2, <2>4, <2>5, <2>7, <1>2
    <3> QED BY <3>1, <3>3, <2>11, <1>9
  <2>13. p \in [2..Len(stack') -> Holders']
    BY <2>8, <2>10, <2>11, <2>12
  <2>14. Follows(p)'
    <3>1. ASSUME NEW i \in 2..(m - 1) PROVE stack'[i] = BlocksOf'[active'[p[i]]]
      <4>1. position[i] \in 1..(n - 1)
        BY <2>5, <2>12, <1>2
      <4>2. stack[i] = BlocksOf[active[position[i]]]
        BY <2>12, <1>9 DEF Follows
      <4>3. active'[position[i]] = active[position[i]] /\ stack'[i] = stack[i]
        BY <4>1, <2>8, <2>12, <1>6
      <4> QED BY <4>2, <4>3, <2>12, <1>7
    <3>2. ASSUME NEW i \in 2..(m - 1), NEW k \in 2..(m - 1), i < k PROVE p[i] < p[k]
      BY <3>2, <2>12, <1>9 DEF Follows
    <3>3. ASSUME NEW j \in Holders' PROVE \E i \in 2..(m - 1) : p[i] = j
      <4>1. j \in Holders /\ j # n
        BY <3>3, <2>10
      <4>2. PICK i \in 2..m : position[i] = j
        BY <4>1, <1>9 DEF Follows
      <4>3. i # m
        BY <4>1, <4>2, <2>4, <2>7
      <4>4. i \in 2..(m - 1)
        BY <4>3, <1>5
      <4> QED BY <4>2, <4>4, <2>12
    <3> QED BY <3>1, <3>2, <3>3, <2>8 DEF Follows
  <2>15. stack'[1] = Globals /\ stack' # <<>>
    BY <2>6, <2>8, <1>5
  <2>16. Frames'
    <3>1. \E q \in [2..Len(stack') -> Holders'] : Follows(q)'
      BY <2>13, <2>14
    <3> QED BY <3>1, <2>8, <2>15, <1>1, <1>3 DEF Frames
  <2>17. Chain'
    BY <1>6, <1>7, <1>10, <2>15 DEF Chain
  <2> QED BY <2>9, <2>16, <2>17, <1>7, <1>8 DEF CInv, Next
<1> QED BY <1>11, <1>12

\* main returns, in two steps: with the block of the globals, then with its own.
LEMMA ReturnMainStep ==
  ASSUME Good, ReturnMain
  PROVE  CInv' /\ Next
<1> DEFINE m == Len(stack)
<1>1. /\ Len(active) = 1 /\ stack # <<>> /\ returned' = TRUE /\ UNCHANGED <<passVars, active>>
      /\ deallocateBlock(Arrives(stack[1], "NoWriteDealloc"))
      /\ stack' = SubSeq(stack, 1, 0) \o SubSeq(stack, 2, m)
  BY DEF ReturnMain, Deallocate
<1>2. Runs /\ Apart /\ MainSize /\ Chain /\ Frames /\ PassFacts /\ AllBlocks /\ returned \in BOOLEAN
  BY <1>1 DEF Good, CInv, Compiled, Runs, Frames
<1>3. stack \in Seq(Blocks) /\ m \in Nat /\ m >= 1 /\ active \in Seq(Names)
  BY <1>1, <1>2 DEF Frames, Chain
<1>4. active[1] = main /\ main \in Users
  <2>1. active # <<>>
    <3>1. Len(<<>>) = 0
      OBVIOUS
    <3>2. Len(active) = 1
      BY <1>1
    <3> QED BY <3>1, <3>2
  <2> QED BY <2>1, <1>2 DEF Chain, Apart
<1>5. \/ returned /\ stack = <<Main>>
      \/ ~returned /\ stack = <<Globals, Main>>
  <2>1. CASE returned
    BY <2>1, <1>1, <1>2 DEF Frames
  <2>2. CASE ~returned
    <3>1. PICK position \in [2..m -> Holders] : Follows(position)
      BY <2>2, <1>1, <1>2 DEF Frames
    <3>2. Holders = {1}
      BY <1>1, <1>4 DEF Holders, Users
    <3>3. PICK i \in 2..m : position[i] = 1
      BY <3>1, <3>2 DEF Follows
    <3>4. ~(2 < m)
      <4> SUFFICES ASSUME 2 < m PROVE FALSE
        OBVIOUS
      <4>1. 2 \in 2..m /\ 3 \in 2..m
        BY <1>3
      <4>2. position[2] < position[3]
        BY <4>1, <3>1 DEF Follows
      <4>3. position[2] = 1 /\ position[3] = 1
        BY <4>1, <3>1, <3>2
      <4> QED BY <4>2, <4>3
    <3>5. m = 2
      <4> HIDE DEF m
      <4> QED BY <3>3, <3>4, <1>3
    <3>6. i = 2
      BY <3>3, <3>5
    <3>7. stack[2] = BlocksOf[main]
      BY <3>1, <3>3, <3>5, <3>6, <1>4 DEF Follows
    <3>8. stack[2] = Main
      BY <3>7, <1>2, <1>4, UsersHaveBlocks DEF BlocksOf, Users
    <3>9. stack[1] = Globals
      BY <2>2, <1>1, <1>2 DEF Frames
    <3> QED BY <3>5, <3>8, <3>9, <2>2, <1>3
  <2> QED BY <2>1, <2>2
<1>6. stack' = Tail(stack) /\ stack' \in {<<>>, <<Main>>}
  <2>1. CASE returned /\ stack = <<Main>>
    <3>1. m = 1 /\ SubSeq(stack, 1, 0) = <<>> /\ SubSeq(stack, 2, m) = <<>> /\ Tail(stack) = <<>>
      BY <2>1
    <3> QED BY <3>1, <1>1
  <2>2. CASE ~returned /\ stack = <<Globals, Main>>
    <3>1. m = 2 /\ SubSeq(stack, 1, 0) = <<>>
      BY <2>2
    <3>2. SubSeq(stack, 2, 2) = <<Main>>
      <4> DEFINE t == SubSeq(stack, 2, 2)
      <4>1. t \in Seq(Blocks) /\ Len(t) = 1 /\ t[1] = Main
        BY <2>2, <1>3
      <4>2. <<Main>> \in Seq(Blocks) /\ Len(<<Main>>) = 1 /\ <<Main>>[1] = Main
        BY DEF Blocks
      <4> HIDE DEF t
      <4>3. t = <<Main>>
        BY <4>1, <4>2
      <4> QED BY <4>3 DEF t
    <3>3. Tail(stack) = <<Main>>
      BY <2>2
    <3>4. <<>> \o <<Main>> = <<Main>>
      OBVIOUS
    <3>5. stack' = SubSeq(stack, 1, 0) \o SubSeq(stack, 2, m)
      BY <1>1
    <3> QED BY <3>1, <3>2, <3>3, <3>4, <3>5
  <2> QED BY <2>1, <2>2, <1>5
<1>7. LeaveMain
  <2>1. Generated(stack[1])
    BY <1>2, <1>3, StackGenerated DEF Good
  <2>2. deallocateBlock(AddressOf(stack[1], "NoWriteDealloc"))
    BY <2>1, <1>1, DeallocationEffect
  <2>3. m = 2 \/ (returned /\ m = 1)
    BY <1>5
  <2> QED BY <2>2, <2>3, <1>1, <1>6 DEF LeaveMain
<1>8. bypass' = bypass /\ Runs' /\ MainSize' /\ BlocksOf' = BlocksOf /\ Below' = Below
  BY <1>1, <1>2, PassUnchanged
<1>9. Compiled' /\ Chain'
  BY <1>1, <1>2, <1>8 DEF Compiled, Chain
<1>10. Frames'
  <2>1. Main \in Blocks
    BY DEF Blocks
  <2>2. <<>> \in Seq(Blocks) /\ <<Main>> \in Seq(Blocks)
    BY <2>1
  <2>3. stack' \in Seq(Blocks)
    BY <2>2, <1>6
  <2> QED BY <2>3, <1>1, <1>6 DEF Frames
<1> QED BY <1>7, <1>8, <1>9, <1>10 DEF CInv, Next

LEMMA StoreToStep ==
  ASSUME Good, NEW i \in 1..(NumFunctions + 1), StoreTo(i)
  PROVE  CInv' /\ Next
<1>1. /\ i \in 1..Len(stack) /\ UNCHANGED <<stack, returned, passVars, active>>
      /\ FindBlock(Arrives(stack[i], "Access"))
      /\ setBlockState(Arrives(stack[i], "Access"), "M")
  BY DEF StoreTo
<1>2. stack \in Seq(Blocks) /\ stack # <<>>
  BY <1>1 DEF Good, CInv, Frames
<1>3. Runs /\ Apart /\ MainSize /\ Chain /\ Frames /\ PassFacts /\ AllBlocks
  BY <1>2 DEF Good, CInv, Compiled, Runs
<1>4. Store(stack[i])
  <2>1. Slot(Arrives(stack[i], "Access")) = Slot(AddressOf(stack[i], "Access"))
    BY <1>1, <1>3, StackGenerated, SlotArrives DEF Good
  <2> QED BY <2>1, <1>1 DEF Store, InUse, FindBlock, setBlockState
<1>5. bypass' = bypass /\ Runs' /\ MainSize' /\ BlocksOf' = BlocksOf /\ Below' = Below
  BY <1>1, <1>3, PassUnchanged
<1>6. Compiled' /\ Chain'
  BY <1>1, <1>3, <1>5 DEF Compiled, Chain
<1>7. Frames'
  <2>1. Holders' = Holders
    BY <1>1, <1>5 DEF Holders
  <2>2. \A position : Follows(position) => Follows(position)'
    BY <2>1, <1>1, <1>5 DEF Follows
  <2> QED BY <2>1, <2>2, <1>1, <1>3 DEF Frames
<1>8. stack[i] \in Blocks
  BY <1>1, <1>2
<1> QED BY <1>4, <1>5, <1>6, <1>7, <1>8 DEF CInv, Next
-----------------------------------------------------------------------------
LEMMA CompiledStep ==
  ASSUME Good, [CompiledNext]_cvars
  PROVE  CInv' /\ [Next]_pvars
<1>1. CASE PassNext /\ UNCHANGED <<tables, stack, returned, active>>
  BY <1>1, PassStep
<1>2. CASE StartMain
  BY <1>2, StartMainStep
<1>3. ASSUME NEW f \in Names, Call(f) PROVE CInv' /\ [Next]_pvars
  BY <1>3, CallStep
<1>4. CASE Return
  BY <1>4, ReturnStep
<1>5. CASE ReturnMain
  BY <1>5, ReturnMainStep
<1>6. ASSUME NEW i \in 1..(NumFunctions + 1), StoreTo(i) PROVE CInv' /\ [Next]_pvars
  BY <1>6, StoreToStep
<1>7. CASE UNCHANGED cvars
  <2>1. UNCHANGED <<stack, returned, passVars, active, LMDir, LMBIndex>>
    BY <1>7 DEF cvars, tables
  <2>2. bypass' = bypass /\ Runs' = Runs /\ (MainSize' <=> MainSize) /\ BlocksOf' = BlocksOf /\ Below' = Below
    BY <2>1, PassUnchanged
  <2>3. Compiled' /\ Chain' /\ MainSize'
    BY <2>1, <2>2 DEF Good, CInv, Compiled, Chain
  <2>4. Holders' = Holders
    BY <2>1, <2>2 DEF Holders
  <2>5. \A position : Follows(position) => Follows(position)'
    BY <2>1, <2>2, <2>4 DEF Follows
  <2>6. Frames'
    BY <2>1, <2>4, <2>5 DEF Good, CInv, Frames
  <2> QED BY <2>1, <2>3, <2>6 DEF CInv, pvars
<1> QED BY <1>1, <1>2, <1>3, <1>4, <1>5, <1>6, <1>7 DEF CompiledNext

LEMMA CompiledInitial == CompiledInit /\ MainSize => CInv
<1> SUFFICES ASSUME CompiledInit, MainSize PROVE CInv
  OBVIOUS
<1>1. active = <<>> /\ stack = <<>> /\ returned = FALSE
  BY DEF CompiledInit, Init
<1>2. Len(active) = 0 /\ active \in Seq(Names) /\ stack \in Seq(Blocks)
  BY <1>1
<1>3. Compiled /\ Frames
  BY <1>1, <1>2 DEF Compiled, Frames
<1>4. 1..Len(active) = {}
  BY <1>2
<1>5. Chain
  BY <1>1, <1>2, <1>4 DEF Chain
<1> QED BY <1>3, <1>5 DEF CInv

\* The pass that is part of the compiled program is the pass.
LEMMA CompiledPass == CompiledSpec => PassSpec
<1>1. CompiledInit => PassInit
  BY DEF CompiledInit
<1>2. [CompiledNext]_cvars => [PassNext]_passVars
  BY DEF CompiledNext, cvars, passVars, StartMain, Call, Return, ReturnMain, StoreTo
<1> QED BY <1>1, <1>2, PTL DEF CompiledSpec, PassSpec

LEMMA CompiledHolds ==
  ASSUME AllBlocks, OnlyApart
  PROVE  CompiledSpec /\ MainSize => []Good /\ Spec
<1>1. CompiledSpec => []PassFacts
  BY CompiledPass, PassFactsHold, PTL
<1>2. CInv /\ PassFacts /\ [CompiledNext]_cvars => CInv' /\ [Next]_pvars
  BY CompiledStep DEF Good
<1>3. CInv /\ PassFacts => Good
  BY DEF Good
<1>4. CompiledInit => Init
  BY DEF CompiledInit
<1> QED BY <1>1, <1>2, <1>3, <1>4, CompiledInitial, PTL DEF CompiledSpec, Spec

\* A compiled program whose chains of calls are apart does to the tables what
\* LMStoreProgram says, for every call graph: no two active functions have one
\* entry, blocks come and go like a stack, and every address arrives.  So what is
\* proved of LMStoreProgram is true of what the pass (codeGen) generates.
THEOREM CompiledImplementsProgram ==
  ASSUME AllBlocks, OnlyApart
  PROVE  CompiledSpec /\ MainSize => ImplementsProgram
  BY CompiledHolds, PTL DEF ImplementsProgram

\* The types of a compiled program: those of the tables follow from the ones of
\* LMStoreProgram, those of the pass do not depend on the program.
THEOREM CompiledTypeCorrect ==
  ASSUME AllBlocks, OnlyApart
  PROVE  CompiledSpec /\ MainSize => []CompiledTypeOK
<1>1. Good /\ TypeOK => CompiledTypeOK
  BY DEF Good, PassFacts, PassInv, CInv, Chain, CompiledTypeOK
<1> QED BY <1>1, CompiledHolds, TypeCorrect, PTL

\* "Should always result in hit" (SystemEvents.cc:4463 and 4687) is true of the
\* programs whose chains of calls are apart: until main returns, the address of
\* every access of an active function leads to the function's own block.
THEOREM CompiledAccessesHit ==
  ASSUME AllBlocks, OnlyApart
  PROVE  CompiledSpec /\ MainSize => [](EveryAccessHits /\ DirectoryMatchesProgram)
<1>1. Good /\ TypeOK /\ DirectoryMatchesProgram => EveryAccessHits
  <2> SUFFICES ASSUME Good, DirectoryMatchesProgram, NEW i \in 1..Len(stack)
               PROVE  FindBlock(Arrives(stack[i], "Access"))
    BY DEF EveryAccessHits
  <2>1. stack \in Seq(Blocks)
    BY DEF Good, CInv, Frames
  <2>2. stack # <<>> /\ stack[i] \in Blocks
    BY <2>1
  <2>3. Runs /\ Apart
    BY <2>2 DEF Good, CInv, Compiled, Runs
  <2>4. Slot(Arrives(stack[i], "Access")) = Slot(AddressOf(stack[i], "Access"))
    BY <2>3, StackGenerated, SlotArrives DEF Good
  <2>5. Slot(AddressOf(stack[i], "Access")) = Slot(stack[i])
    BY <2>2, BlockType
  <2>6. LMDir[Slot(stack[i])].state \in {"E", "M"}
    BY DEF DirectoryMatchesProgram
  <2> QED BY <2>4, <2>5, <2>6 DEF FindBlock
<1> QED BY <1>1, CompiledHolds, TypeCorrect, DirectoryMatches, PTL
-----------------------------------------------------------------------------
(* Blocks of one size.                                                         *)

OneSize == AllBlocks /\ OnlyApart /\ EqualSizes /\ BlockSizes \subseteq {0, GlobalsSize}

\* The blocks in use have room, because they are of different functions, each of
\* which codeGen has taken off the room.
StackInStorage == ~returned => Len(stack) * Size <= lmstorage_size

LEMMA StackInStorageHolds ==
  ASSUME OneSize, Good, RoomLeft
  PROVE  StackInStorage
<1> SUFFICES ASSUME ~returned PROVE Len(stack) * Size <= lmstorage_size
  BY DEF StackInStorage
<1> DEFINE m == Len(stack)
           S == Names \ bypass
<1>1. stack \in Seq(Blocks) /\ m \in Nat
  BY DEF Good, CInv, Frames
<1>2. Size \in Nat /\ Size = GlobalsSize /\ lmstorage_size \in Nat
  BY PassAssumption, CompiledAssumption DEF Size
<1>3. CASE stack = <<>>
  <2>1. m = 0
    BY <1>3
  <2> QED BY <2>1, <1>2
<1>4. CASE stack # <<>>
  <2>1. Runs /\ Apart /\ generated = NumFunctions /\ Chain
    BY <1>4 DEF Good, CInv, Compiled, Runs, PassDone
  <2>2. NumFunctions \in Nat /\ IsFiniteSet(1..NumFunctions)
    BY PassAssumption, FS_Interval
  <2>3. IsFiniteSet(S) /\ Cardinality(S) \in Nat
    BY <2>2, FS_Subset, FS_CardinalityType DEF Names
  <2>4. (Cardinality(S) + 1) * Size <= lmstorage_size
    <3>1. S = 1..generated \ bypass
      BY <2>1 DEF Names
    <3>2. room \in 0..lmstorage_size /\ room = lmstorage_size - (Cardinality(S) + 1) * Size
      BY <3>1, <1>2 DEF Good, PassFacts, PassInv, PassTypeOK, RoomLeft
    <3>3. (Cardinality(S) + 1) * Size \in Nat
      BY <2>3, <1>2
    <3> HIDE DEF S
    <3> QED BY <3>2, <3>3, <1>2
  <2>5. PICK position \in [2..m -> Holders] : Follows(position)
    BY <1>4 DEF Good, CInv, Frames
  <2> DEFINE T == 2..m
             owner == [i \in T |-> active[position[i]]]
  <2>6. owner \in [T -> S]
    <3>1. \A i \in T : active[position[i]] \in S
      BY <2>1, <2>5, HoldersAreUsers DEF Users
    <3> QED BY <3>1
  <2>7. ASSUME NEW i \in T, NEW k \in T, i < k PROVE owner[i] # owner[k]
    <3>1. position[i] < position[k] /\ position[i] \in Holders /\ position[k] \in Holders
      BY <2>5, <2>7 DEF Follows
    <3>2. <<owner[i], owner[k]>> \in Below
      BY <3>1, <2>1 DEF Chain, Holders
    <3>3. owner[i] \in Users /\ owner[k] \in Users
      BY <3>1, <2>1, HoldersAreUsers
    <3> HIDE DEF owner
    <3> QED BY <3>2, <3>3, <2>1, BelowReaches, UsersDiffer
  <2>8. m <= Cardinality(S) + 1
    <3> SUFFICES ASSUME ~(m <= Cardinality(S) + 1) PROVE FALSE
      OBVIOUS
    <3>1. IsFiniteSet(T) /\ Cardinality(T) = m - 1
      <4>1. 2 \in Int /\ m \in Int /\ ~(2 > m)
        BY <1>1, <2>3
      <4>2. IsFiniteSet(2..m) /\ Cardinality(2..m) = m - 2 + 1
        BY <4>1, FS_Interval
      <4> QED BY <4>2, <1>1
    <3>2. Cardinality(S) < Cardinality(T)
      BY <3>1, <2>3, <1>1
    <3> HIDE DEF owner, T, S, m
    <3>3. PICK i, k \in T : i # k /\ owner[i] = owner[k]
      BY <3>1, <3>2, <2>3, <2>6, FS_PigeonHole
    <3>4. i < k \/ k < i
      BY <3>3, <1>1 DEF T
    <3> QED BY <3>3, <3>4, <2>7
  <2>9. m * Size <= (Cardinality(S) + 1) * Size
    <3> HIDE DEF m, S
    <3>1. Cardinality(S) + 1 \in Nat
      BY <2>3
    <3> QED BY <3>1, <2>8, <1>1, <1>2, ProductsMonotonic
  <2>10. m * Size \in Nat /\ (Cardinality(S) + 1) * Size \in Nat
    BY <1>1, <1>2, <2>3
  <2> HIDE DEF m, S
  <2>11. m * Size <= lmstorage_size
    BY <2>4, <2>9, <2>10, <1>2
  <2> QED BY <2>11 DEF m
<1> QED BY <1>3, <1>4

\* Until main returns, block i of the stack is the i-th of the storage.
LEMMA StackedSuffices ==
  ASSUME EqualSizes, SInv, StackInStorage, ~returned
  PROVE  StorageSuffices
<1> SUFFICES ASSUME NEW i \in 1..Len(stack)
             PROVE  LMDir[Slot(stack[i])].LMBIndex + LMDir[Slot(stack[i])].BlockSize <= lmstorage_size
  BY DEF StorageSuffices
<1>1. stack \in Seq(Blocks) /\ Len(stack) \in Nat /\ stack[i] \in Blocks /\ Size \in Nat
  BY SizeType DEF SInv, IInv, TypeOK
<1>2. Slot(stack[i]) = stack[i].ref /\ stack[i].size = Size
  BY <1>1, BlockType DEF EqualSizes
<1>3. /\ LMDir[Slot(stack[i])].LMBIndex = (i - 1) * Size
      /\ LMDir[Slot(stack[i])].BlockSize = Size
  BY <1>2 DEF SInv, Stacked, IInv, DirectoryMatchesProgram
<1>4. (i - 1) * Size \in Nat /\ ((i - 1) + 1) * Size = (i - 1) * Size + Size
  BY <1>1, Products
<1>5. i * Size <= Len(stack) * Size
  BY <1>1, ProductsMonotonic
<1>6. i * Size \in Nat /\ Len(stack) * Size \in Nat /\ (i - 1) + 1 = i
  BY <1>1
<1>7. Len(stack) * Size <= lmstorage_size /\ lmstorage_size \in Nat
  BY PassAssumption DEF StackInStorage
<1> QED BY <1>1, <1>3, <1>4, <1>5, <1>6, <1>7

\* When main returns, the blocks that are left stay where they are.
LEMMA ReturnSuffices ==
  ASSUME SInv, StorageSuffices, [Next]_pvars, returned'
  PROVE  StorageSuffices'
<1>1. /\ stack \in Seq(Blocks) /\ Len(stack) \in Nat
      /\ LMDir \in [0..(LMDirSize - 1) -> DirEntry]
  BY DEF SInv, IInv, TypeOK, TablesTypeOK
<1>2. \A i \in 1..Len(stack) : Slot(stack[i]) \in 0..(LMDirSize - 1)
  <2>1. \A i \in 1..Len(stack) : stack[i] \in Blocks
    BY <1>1
  <2> QED BY <2>1, BlockType
<1>3. ASSUME NEW s \in 0..(LMDirSize - 1), NEW state, LMDir' = [LMDir EXCEPT ![s].state = state]
      PROVE  \A r \in 0..(LMDirSize - 1) : LMDir'[r].LMBIndex = LMDir[r].LMBIndex
                                           /\ LMDir'[r].BlockSize = LMDir[r].BlockSize
  BY <1>1, <1>3 DEF DirEntry
<1>4. CASE LeaveMain
  <2>1. stack' = Tail(stack) /\ stack # <<>>
        /\ LMDir' = [LMDir EXCEPT ![Slot(AddressOf(stack[1], "NoWriteDealloc"))].state = "I"]
    BY <1>1, <1>4 DEF LeaveMain, deallocateBlock
  <2>2. stack[1] \in Blocks
    BY <1>1, <2>1
  <2>3. Slot(AddressOf(stack[1], "NoWriteDealloc")) \in 0..(LMDirSize - 1)
    BY <2>2, BlockType
  <2>4. Len(stack') = Len(stack) - 1 /\ \A i \in 1..Len(stack') : stack'[i] = stack[i + 1]
    BY <1>1, <2>1
  <2>5. ASSUME NEW i \in 1..Len(stack')
        PROVE  LMDir'[Slot(stack'[i])].LMBIndex + LMDir'[Slot(stack'[i])].BlockSize <= lmstorage_size
    <3>1. i + 1 \in 1..Len(stack) /\ stack'[i] = stack[i + 1]
      BY <1>1, <2>4
    <3> QED BY <3>1, <2>1, <2>3, <1>2, <1>3 DEF StorageSuffices
  <2> QED BY <2>5 DEF StorageSuffices, Slot, LMRef
<1>5. ASSUME NEW b \in Blocks, Store(b) PROVE StorageSuffices'
  <2>1. UNCHANGED stack /\ LMDir' = [LMDir EXCEPT ![Slot(AddressOf(b, "Access"))].state = "M"]
    BY <1>5 DEF Store, setBlockState
  <2>2. Slot(AddressOf(b, "Access")) \in 0..(LMDirSize - 1)
    BY BlockType
  <2>3. ASSUME NEW i \in 1..Len(stack')
        PROVE  LMDir'[Slot(stack'[i])].LMBIndex + LMDir'[Slot(stack'[i])].BlockSize <= lmstorage_size
    BY <2>1, <2>2, <1>2, <1>3 DEF StorageSuffices
  <2> QED BY <2>3 DEF StorageSuffices, Slot, LMRef
<1>6. ~Leave /\ \A b \in Blocks : ~Enter(b)
  <2>1. returned => Len(stack) <= 1
    BY DEF SInv, Stacked
  <2>2. Leave => FALSE
    BY <2>1, <1>1 DEF Leave
  <2>3. ASSUME NEW b \in Blocks, Enter(b) PROVE FALSE
    <3>1. ~returned /\ returned' = returned
      BY <2>3 DEF Enter, Start
    <3> QED BY <3>1
  <2> QED BY <2>2, <2>3
<1>7. CASE UNCHANGED pvars
  BY <1>7 DEF pvars, StorageSuffices, Slot, LMRef
<1> QED BY <1>4, <1>5, <1>6, <1>7 DEF Next

LEMMA OneSizeFacts ==
  ASSUME OneSize
  PROVE  CompiledSpec => []Good /\ []RoomLeft /\ []SInv /\ Spec
<1>1. CompiledInit => MainSize
  <2> SUFFICES ASSUME CompiledInit PROVE MainSize
    OBVIOUS
  <2>1. block_size[main] \in BlockSizes
    BY MainIsAName DEF CompiledInit, PassInit
  <2>2. Main.size = GlobalsSize
    BY CompiledAssumption DEF OneSize, EqualSizes, Blocks, Size
  <2> QED BY <2>1, <2>2 DEF OneSize, MainSize
<1>2. CompiledSpec => []RoomLeft
  BY CompiledPass, RoomHolds, PTL DEF OneSize
<1>3. CompiledSpec /\ MainSize => []Good /\ Spec
  BY CompiledHolds DEF OneSize
<1>4. Spec => []SInv
  BY SInvHolds DEF OneSize
<1> QED BY <1>1, <1>2, <1>3, <1>4, PTL DEF CompiledSpec

\* With blocks of one size, what a compiled program allocates fits in the storage,
\* though allocateBlock (LMStore.cc) tests nothing: codeGen has left out the
\* blocks for which there is no room.
THEOREM CompiledStorageSuffices ==
  ASSUME OneSize
  PROVE  CompiledSpec => []StorageSuffices
<1>1. EqualSizes
  BY DEF OneSize
<1>2. Init => StorageSuffices
  <2> SUFFICES ASSUME Init PROVE StorageSuffices
    OBVIOUS
  <2>1. 1..Len(stack) = {}
    BY DEF Init
  <2> QED BY <2>1 DEF StorageSuffices
<1>3. Good /\ RoomLeft => StackInStorage
  BY StackInStorageHolds
<1>4. SInv /\ StackInStorage /\ ~returned => StorageSuffices
  BY <1>1, StackedSuffices
<1>5. SInv /\ StorageSuffices /\ [Next]_pvars /\ returned' => StorageSuffices'
  BY ReturnSuffices
<1> QED BY <1>2, <1>3, <1>4, <1>5, OneSizeFacts, PTL DEF Spec

\* With blocks of one size, no byte of the storage belongs to two active functions
\* of a compiled program, and all space is returned with main.
THEOREM CompiledBlocksApart ==
  ASSUME OneSize
  PROVE  CompiledSpec => [](NoOverlap /\ AllSpaceReturned)
<1>1. Spec => []NoOverlap /\ []AllSpaceReturned
  BY BlocksApart, SpaceReturned DEF OneSize
<1> QED BY <1>1, OneSizeFacts, PTL
=============================================================================
