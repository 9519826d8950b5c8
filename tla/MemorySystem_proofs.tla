------------------------ MODULE MemorySystem_proofs ------------------------
(***************************************************************************)
(* The memory of a guest program, for pages and address spaces of any      *)
(* size, any sizes and alignments of blocks, and any number of copies of a *)
(* speculating context.                                                    *)
(***************************************************************************)
EXTENDS MemorySystem, FiniteSetTheorems, SequenceTheorems, TLAPS

-----------------------------------------------------------------------------
(* The record of LMStore addresses that the Mmu keeps.                     *)

MmuInv == MmuTypeOK /\ RecordedAddresses

LEMMA InitMmuInv == MmuInit => MmuInv
  BY DEF MmuInit, MmuInv, MmuTypeOK, RecordedAddresses

\* What Translated puts on record agrees with what is there: the same physical
\* address comes from the same page, and thus the same virtual address.
LEMMA RecordStep ==
  ASSUME MmuInv,
         NEW space \in Spaces, NEW virtual \in VirtualAddresses, NEW n \in Nat,
         mmu_pages' \in Seq([space : Spaces, tag : VirtualPages]),
         n \in 1..Len(mmu_pages'),
         mmu_pages'[n] = [space |-> space, tag |-> virtual.tag],
         \A i \in 1..Len(mmu_pages) : i \in 1..Len(mmu_pages') /\ mmu_pages'[i] = mmu_pages[i],
         Translated(space, virtual, [tag |-> n, offset |-> virtual.offset])
  PROVE  MmuInv'
<1> DEFINE p == [tag |-> n, offset |-> virtual.offset]
           new == [space |-> space, virtual |-> virtual, physical |-> p]
<1>1. /\ p \in PhysicalAddresses /\ p.tag = n /\ p.offset = virtual.offset
      /\ virtual.tag \in VirtualPages /\ virtual.offset \in Offsets
      /\ virtual = [tag |-> virtual.tag, offset |-> virtual.offset]
  BY DEF PhysicalAddresses, VirtualAddresses
<1>2. translated' = translated \cup {new}
  BY DEF Translated
<1>3. IF virtual.tag \in LMStorePages
      THEN /\ DOMAIN mem_map' = DOMAIN mem_map \cup {p}
           /\ \A q \in DOMAIN mem_map \cup {p} :
                 mem_map'[q] = IF q = p THEN virtual ELSE mem_map[q]
      ELSE mem_map' = mem_map
  BY DEF Translated
<1>4. MmuTypeOK'
  <2>1. DOMAIN mem_map' \subseteq PhysicalAddresses
    BY <1>1, <1>3 DEF MmuInv, MmuTypeOK
  <2>2. \A q \in DOMAIN mem_map' : mem_map'[q] \in VirtualAddresses
    BY <1>3 DEF MmuInv, MmuTypeOK
  <2>3. translated' \subseteq [space : Spaces, virtual : VirtualAddresses,
                               physical : PhysicalAddresses]
    BY <1>1, <1>2 DEF MmuInv, MmuTypeOK
  <2> QED BY <2>1, <2>2, <2>3 DEF MmuTypeOK
<1>5. TranslatePhysicalAddress(p)' = [space |-> space, virtual |-> virtual]
  BY <1>1 DEF TranslatePhysicalAddress
<1>6. RecordedAddresses'
  <2> SUFFICES ASSUME NEW t \in translated'
               PROVE  /\ t.physical.tag \in 1..Len(mmu_pages')
                      /\ TranslatePhysicalAddress(t.physical)'
                            = [space |-> t.space, virtual |-> t.virtual]
                      /\ t.virtual.tag \in LMStorePages =>
                            t.physical \in DOMAIN mem_map' /\ mem_map'[t.physical] = t.virtual
    BY DEF RecordedAddresses, PhyToVirt
  <2>1. CASE t = new
    <3>1. t.physical = p /\ t.virtual = virtual /\ t.space = space
      BY <2>1
    <3> QED BY <3>1, <1>1, <1>3, <1>5
  <2>2. CASE t \in translated
    <3>1. /\ t.physical.tag \in 1..Len(mmu_pages)
          /\ TranslatePhysicalAddress(t.physical) = [space |-> t.space, virtual |-> t.virtual]
          /\ t.virtual.tag \in LMStorePages =>
                t.physical \in DOMAIN mem_map /\ mem_map[t.physical] = t.virtual
      BY <2>2 DEF MmuInv, RecordedAddresses, PhyToVirt
    <3>2. TranslatePhysicalAddress(t.physical)' = TranslatePhysicalAddress(t.physical)
      BY <3>1 DEF TranslatePhysicalAddress
    <3>3. t.physical = p => t.virtual = virtual
      BY <3>1, <3>2, <1>5
    <3>4. t.virtual.tag \in LMStorePages =>
             t.physical \in DOMAIN mem_map' /\ mem_map'[t.physical] = t.virtual
      BY <3>1, <3>3, <1>3
    <3> QED BY <3>1, <3>2, <3>4
  <2> QED BY <2>1, <2>2, <1>2
<1> QED BY <1>4, <1>6 DEF MmuInv

LEMMA TranslateStep ==
  ASSUME MmuInv, NEW space \in Spaces, NEW virtual \in VirtualAddresses,
         TranslateVirtualAddress(space, virtual)
  PROVE  MmuInv'
<1>1. mmu_pages \in Seq([space : Spaces, tag : VirtualPages])
  BY DEF MmuInv, MmuTypeOK
<1>2. CASE getPage(space, virtual.tag) = {}
  <2> DEFINE page == [space |-> space, tag |-> virtual.tag]
             n == Len(mmu_pages) + 1
  <2>1. /\ mmu_pages' = Append(mmu_pages, page)
        /\ Translated(space, virtual, [tag |-> n, offset |-> virtual.offset])
    BY <1>2 DEF TranslateVirtualAddress
  <2>2. page \in [space : Spaces, tag : VirtualPages]
    BY DEF VirtualAddresses
  <2>3. /\ mmu_pages' \in Seq([space : Spaces, tag : VirtualPages])
        /\ n \in Nat /\ n \in 1..Len(mmu_pages')
        /\ mmu_pages'[n] = page
        /\ \A i \in 1..Len(mmu_pages) :
              i \in 1..Len(mmu_pages') /\ mmu_pages'[i] = mmu_pages[i]
    BY <1>1, <2>1, <2>2
  <2> QED BY <2>1, <2>3, RecordStep
<1>3. CASE \E n \in getPage(space, virtual.tag) :
              /\ Translated(space, virtual, [tag |-> n, offset |-> virtual.offset])
              /\ UNCHANGED mmu_pages
  <2>1. PICK n \in getPage(space, virtual.tag) :
              /\ Translated(space, virtual, [tag |-> n, offset |-> virtual.offset])
              /\ UNCHANGED mmu_pages
    BY <1>3
  <2>2. /\ n \in Nat /\ n \in 1..Len(mmu_pages')
        /\ mmu_pages'[n] = [space |-> space, tag |-> virtual.tag]
    BY <1>1, <2>1 DEF getPage
  <2> QED BY <1>1, <2>1, <2>2, RecordStep
<1> QED BY <1>2, <1>3 DEF TranslateVirtualAddress

LEMMA MmuInductive == MmuSpec => []MmuInv
<1>1. MmuInv /\ [MmuNext]_mmuVars => MmuInv'
  <2> SUFFICES ASSUME MmuInv, [MmuNext]_mmuVars PROVE MmuInv'
    OBVIOUS
  <2>1. CASE MmuNext
    BY <2>1, TranslateStep DEF MmuNext
  <2>2. CASE UNCHANGED mmuVars
    BY <2>2 DEF mmuVars, MmuInv, MmuTypeOK, RecordedAddresses, TranslatePhysicalAddress, PhyToVirt
  <2> QED BY <2>1, <2>2
<1> QED BY <1>1, InitMmuInv, PTL DEF MmuSpec

\* TranslateVirtualAddress keeps the tables of the Mmu well formed.
THEOREM MmuTypeCorrect == MmuSpec => []MmuTypeOK
  BY MmuInductive, PTL DEF MmuInv

\* However many translations come between that of an access and the event of the
\* LMStore that looks its address up, the LMStore finds the virtual address of the
\* access in mem_map, and the physical one leads back to its space.
THEOREM AddressesAreRecorded == MmuSpec => []RecordedAddresses
  BY MmuInductive, PTL DEF MmuInv

-----------------------------------------------------------------------------
(* Numbers.                                                                *)

\* A set of numbers has a least one: what Min returns in MapSpace.
LEMMA LeastNumber ==
    ASSUME NEW S, S \subseteq Nat, S # {}
    PROVE  \E x \in S : \A y \in S : x <= y
<1> DEFINE Below == {0..n : n \in S}
<1>1. Below \subseteq FiniteSubsetsOf(Nat)
  <2> SUFFICES ASSUME NEW n \in S PROVE 0..n \in FiniteSubsetsOf(Nat)
    OBVIOUS
  <2>1. n \in Int /\ 0 \in Int /\ 0..n \subseteq Nat
    OBVIOUS
  <2> QED BY <2>1, FS_Interval DEF FiniteSubsetsOf
<1>2. Below # {}
  OBVIOUS
<1>3. PICK t \in Below : \A u \in Below : ~(<<u, t>> \in StrictSubsetOrdering(Nat))
  <2> HIDE DEF Below
  <2> QED BY <1>1, <1>2, FS_StrictSubsetOrderingWellFounded, WFMin
<1>4. PICK x \in S : t = 0..x
  OBVIOUS
<1>5. ASSUME NEW y \in S, ~(x <= y) PROVE FALSE
  <2>1. 0..y \in Below
    OBVIOUS
  <2>2. 0..y \subseteq 0..x /\ x \in 0..x /\ x \notin 0..y
    BY <1>5
  <2>3. <<0..y, 0..x>> \in StrictSubsetOrdering(Nat)
    BY <2>2 DEF StrictSubsetOrdering
  <2> QED BY <1>3, <1>4, <2>1, <2>3
<1> QED BY <1>5

\* A bounded one has a greatest: what Max returns in MapSpaceDown.
LEMMA GreatestNumber ==
    ASSUME NEW S, S \subseteq Nat, S # {}, NEW bound \in Nat, \A x \in S : x <= bound
    PROVE  \E x \in S : \A y \in S : x >= y
<1> DEFINE T == {bound - x : x \in S}
<1>1. T \subseteq Nat /\ T # {}
  <2>1. ASSUME NEW x \in S PROVE bound - x \in Nat
    <3>1. x \in Nat /\ x <= bound
      OBVIOUS
    <3> QED BY <3>1
  <2> QED BY <2>1
<1>2. PICK t \in T : \A u \in T : t <= u
  <2> HIDE DEF T
  <2> QED BY <1>1, LeastNumber
<1>3. PICK x \in S : t = bound - x
  OBVIOUS
<1>4. ASSUME NEW y \in S PROVE x >= y
  <2>1. bound - y \in T
    OBVIOUS
  <2> QED BY <1>2, <1>3, <2>1
<1> QED BY <1>4

LEMMA Division ==
    ASSUME NEW a \in Nat, NEW n \in Nat \ {0}
    PROVE  a \div n \in Nat /\ a % n \in 0..(n - 1) /\ a = (a \div n) * n + (a % n)
  OBVIOUS

LEMMA MultiplesInOrder ==
    ASSUME NEW n \in Nat \ {0}, NEW i \in Int, NEW j \in Int
    PROVE  (i * n < j * n => i + 1 <= j /\ i * n + n <= j * n) /\ (i <= j => i * n <= j * n)
<1>1. ASSUME i <= j PROVE i * n <= j * n
  <2>1. j - i \in Nat /\ j * n = i * n + (j - i) * n
    BY <1>1
  <2>2. (j - i) * n >= 0
    BY <2>1
  <2> QED BY <2>1, <2>2
<1>2. ASSUME j <= i PROVE j * n <= i * n
  <2>1. i - j \in Nat /\ i * n = j * n + (i - j) * n
    BY <1>2
  <2>2. (i - j) * n >= 0
    BY <2>1
  <2> QED BY <2>1, <2>2
<1>3. ASSUME i + 1 <= j PROVE i * n + n <= j * n
  <2>1. j - (i + 1) \in Nat /\ j * n = i * n + n + (j - (i + 1)) * n
    BY <1>3
  <2>2. (j - (i + 1)) * n >= 0
    BY <2>1
  <2> QED BY <2>1, <2>2
<1> QED BY <1>1, <1>2, <1>3

\* A number is what one division says it is.
LEMMA DivisionIsUnique ==
    ASSUME NEW a \in Nat, NEW n \in Nat \ {0}, NEW q \in Int, q * n <= a, a < q * n + n
    PROVE  a - (a % n) = q * n
<1>1. a \div n \in Nat /\ a % n \in 0..(n - 1) /\ a = (a \div n) * n + (a % n)
  BY Division
<1>2. q < (a \div n) => q * n + n <= (a \div n) * n
  BY <1>1, MultiplesInOrder
<1>3. (a \div n) < q => (a \div n) * n + n <= q * n
  BY <1>1, MultiplesInOrder
<1> QED BY <1>1, <1>2, <1>3

LEMMA MultiplesDivide ==
    ASSUME NEW n \in Nat \ {0}, NEW q \in Nat
    PROVE  (q * n) % n = 0
<1>1. q * n \in Nat
  OBVIOUS
<1> QED BY <1>1, DivisionIsUnique
-----------------------------------------------------------------------------
(* Pages.                                                                  *)

SpaceSize == NumPages * PageSize

\* Where a page begins or ends.
PageEnds == {n * PageSize : n \in 0..NumPages}

LEMMA PagesInOrder ==
    /\ PageSize \in Nat \ {0} /\ SpaceSize \in Nat /\ Addresses = 0..(SpaceSize - 1)
    /\ Tags \subseteq PageEnds /\ Tags \subseteq Addresses /\ Tags \subseteq Nat
    /\ PageEnds \subseteq Nat /\ SpaceSize \in PageEnds /\ 0 \in Tags
    /\ \A t \in Tags : t + PageSize \in PageEnds /\ t + PageSize <= SpaceSize
    /\ \A t, u \in PageEnds : t < u => t \in Tags /\ t + PageSize <= u
<1>1. PageSize \in Nat \ {0} /\ NumPages \in Nat \ {0}
  BY MemoryAssumption
<1>2. ASSUME NEW n \in Nat PROVE n * PageSize \in Nat
  BY <1>1
<1>3. SpaceSize \in Nat /\ SpaceSize \in PageEnds /\ Addresses = 0..(SpaceSize - 1)
  BY <1>1, <1>2 DEF SpaceSize, PageEnds, Addresses
<1>4. PageEnds \subseteq Nat /\ Tags \subseteq PageEnds
  BY <1>1, <1>2 DEF PageEnds, Tags
<1>5. 0 \in Tags
  <2>1. 0 * PageSize = 0 /\ 0 \in 0..(NumPages - 1)
    BY <1>1
  <2> QED BY <2>1 DEF Tags
<1>6. ASSUME NEW t \in Tags
      PROVE  t + PageSize \in PageEnds /\ t + PageSize <= SpaceSize
  <2>1. PICK n \in 0..(NumPages - 1) : t = n * PageSize
    BY DEF Tags
  <2>2. n + 1 \in 0..NumPages /\ t + PageSize = (n + 1) * PageSize
    BY <1>1, <2>1
  <2>3. (n + 1) * PageSize <= SpaceSize
    BY <1>1, <2>2, MultiplesInOrder DEF SpaceSize
  <2> QED BY <2>2, <2>3 DEF PageEnds
<1>7. ASSUME NEW t \in PageEnds, NEW u \in PageEnds, t < u
      PROVE  t \in Tags /\ t + PageSize <= u
  <2>1. PICK n \in 0..NumPages : t = n * PageSize
    BY DEF PageEnds
  <2>2. PICK m \in 0..NumPages : u = m * PageSize
    BY DEF PageEnds
  <2>3. n + 1 <= m /\ n * PageSize + PageSize <= m * PageSize
    BY <1>1, <1>7, <2>1, <2>2, MultiplesInOrder
  <2>4. n \in 0..(NumPages - 1)
    BY <1>1, <2>3
  <2> QED BY <2>1, <2>2, <2>3, <2>4 DEF Tags
<1>8. Tags \subseteq Addresses
  <2>1. ASSUME NEW t \in Tags PROVE t \in Addresses
    BY <1>1, <1>3, <1>4, <1>6
  <2> QED BY <2>1
<1> QED BY <1>1, <1>3, <1>4, <1>5, <1>6, <1>7, <1>8

\* The page of an address is the one with that address in it.
LEMMA PageOfAddress ==
    ASSUME NEW a \in Addresses
    PROVE  /\ PageOf(a) \in Tags /\ PageOf(a) <= a /\ a < PageOf(a) + PageSize
           /\ \A t \in Tags : t <= a /\ a < t + PageSize => PageOf(a) = t
<1> USE PagesInOrder
<1>1. a \in Nat /\ a < SpaceSize
  OBVIOUS
<1> DEFINE q == a \div PageSize
<1>2. q \in Nat /\ a = q * PageSize + (a % PageSize) /\ a % PageSize \in 0..(PageSize - 1)
  BY <1>1, Division
<1>3. PageOf(a) = q * PageSize /\ PageOf(a) <= a /\ a < PageOf(a) + PageSize
  <2>1. q * PageSize \in Nat
    BY <1>2
  <2> QED BY <1>1, <1>2, <2>1 DEF PageOf
<1>4. q \in 0..(NumPages - 1)
  <2> HIDE DEF q
  <2>1. NumPages \in Nat
    BY MemoryAssumption
  <2>2. q * PageSize \in Nat /\ q * PageSize < SpaceSize
    BY <1>1, <1>2, <1>3
  <2>3. q * PageSize < NumPages * PageSize
    BY <2>2 DEF SpaceSize
  <2> QED BY <1>2, <2>1, <2>3, MultiplesInOrder
<1>5. PageOf(a) \in Tags
  BY <1>3, <1>4 DEF Tags
<1>6. ASSUME NEW t \in Tags, t <= a, a < t + PageSize PROVE PageOf(a) = t
  BY <1>1, <1>3, <1>5, <1>6
<1> QED BY <1>3, <1>5, <1>6

\* The pages of an interval are those that begin before its end and end after its
\* beginning.
LEMMA PagesOfInterval ==
    ASSUME NEW a \in Addresses, NEW n \in Nat \ {0}, a + n <= SpaceSize, NEW t \in Tags
    PROVE  t \in PagesOf(a, n) <=> (t < a + n /\ a < t + PageSize)
<1> USE PagesInOrder
<1>1. a + n - 1 \in Addresses /\ a \in Nat /\ t \in Nat
  OBVIOUS
<1>2. /\ PageOf(a) \in Tags /\ PageOf(a) <= a /\ a < PageOf(a) + PageSize
      /\ PageOf(a + n - 1) \in Tags /\ PageOf(a + n - 1) <= a + n - 1
      /\ a + n - 1 < PageOf(a + n - 1) + PageSize
  BY <1>1, PageOfAddress
<1>3. t < PageOf(a) => t + PageSize <= PageOf(a)
  BY <1>2
<1>4. PageOf(a + n - 1) < t => PageOf(a + n - 1) + PageSize <= t
  BY <1>2
<1>5. t \in PagesOf(a, n) <=> (PageOf(a) <= t /\ t <= PageOf(a + n - 1))
  <2>1. a + n - 1 \in 0..(SpaceSize - 1) /\ SpaceSize \in Nat \ {0}
    BY <1>1
  <2>2. (a + n - 1) % SpaceSize = a + n - 1
    <3> DEFINE x == a + n - 1
    <3>1. x \in Nat /\ SpaceSize \in Nat \ {0} /\ x < SpaceSize
      BY <2>1
    <3> HIDE DEF x
    <3>2. x % SpaceSize = x
      BY ONLY <3>1, SMTT(20)
    <3> QED BY <3>2 DEF x
  <2>3. LastPageOf(a, n) = PageOf(a + n - 1)
    BY <2>2 DEF LastPageOf, SpaceSize
  <2> QED BY <2>3 DEF PagesOf
<1> HIDE DEF PageOf
<1> DEFINE first == PageOf(a)
           last == PageOf(a + n - 1)
<1>6. first \in Nat /\ last \in Nat
  BY <1>2
<1> HIDE DEF first, last
<1> QED BY <1>1, <1>2, <1>3, <1>4, <1>5, <1>6 DEF first, last
\* getNextAlignedAddress is the next aligned address.
LEMMA NextAligned ==
    ASSUME NEW a \in Nat, NEW n \in Nat \ {0}
    PROVE  /\ getNextAlignedAddress(a, n) \in Nat /\ getNextAlignedAddress(a, n) % n = 0
           /\ a <= getNextAlignedAddress(a, n) /\ getNextAlignedAddress(a, n) < a + n
           /\ \E q \in Nat : getNextAlignedAddress(a, n) = q * n
<1> DEFINE q == (a + n - 1) \div n
<1>1. a + n - 1 \in Nat
  OBVIOUS
<1>2. q \in Nat /\ (a + n - 1) % n \in 0..(n - 1) /\ a + n - 1 = q * n + ((a + n - 1) % n)
  BY <1>1, Division
<1>3. getNextAlignedAddress(a, n) = q * n
  BY DEF getNextAlignedAddress
<1> HIDE DEF q
<1>4. q * n \in Nat /\ a <= q * n /\ q * n < a + n
  BY <1>2
<1>5. (q * n) % n = 0
  BY <1>2, MultiplesDivide
<1> QED BY <1>2, <1>3, <1>4, <1>5
-----------------------------------------------------------------------------
(* The chunks of a table.                                                  *)

End(c) == c.address + c.size

\* A chunk lies in a page, or is a pointer with pages of its own.
WellPlaced(c) ==
    /\ c \in [address : Addresses, size : Nat \ {0}, allocated : BOOLEAN]
    /\ End(c) <= SpaceSize
    /\ IF c.size <= PageSize
       THEN \E t \in Tags : t <= c.address /\ End(c) <= t + PageSize
       ELSE c.allocated /\ c.address \in Tags /\ End(c) \in PageEnds

Separate(c, d) == End(c) <= d.address \/ End(d) <= c.address

\* The chunks of a table fill the pages of a set, and are apart.
Layout(table, owned) ==
    /\ owned \subseteq Tags
    /\ \A c \in table : WellPlaced(c)
    /\ \A c, d \in table : c # d => Separate(c, d)
    /\ \A a \in Addresses : (\E c \in table : Covers(c, a)) <=> PageOf(a) \in owned

Follows(h, d) == ~h.allocated /\ ~d.allocated /\ isInSamePage(h, d) /\ End(h) = d.address

\* No hole follows another one of its page, and none is as long as a page.
Merged(table) ==
    /\ \A h, d \in table : ~Follows(h, d)
    /\ \A h \in table : ~h.allocated => h.size < PageSize

\* In a page, a chunk keeps to the bounds of the page.
LEMMA ChunkInPage ==
    ASSUME NEW c, WellPlaced(c)
    PROVE  /\ c.address \in Nat /\ c.size \in Nat /\ c.size > 0 /\ End(c) \in Nat
           /\ c.allocated \in BOOLEAN /\ c.address \in Addresses
           /\ End(c) = c.address + c.size /\ End(c) <= SpaceSize
           /\ PageOf(c.address) \in Tags /\ PageOf(c.address) \in Nat
           /\ PageOf(c.address) <= c.address /\ c.address < PageOf(c.address) + PageSize
           /\ c.size <= PageSize => End(c) <= PageOf(c.address) + PageSize
           /\ ~c.allocated => c.size <= PageSize
<1> USE PagesInOrder
<1>1. /\ c.address \in Nat /\ c.size \in Nat /\ c.size > 0 /\ End(c) \in Nat
      /\ c.allocated \in BOOLEAN /\ c.address \in Addresses
      /\ End(c) = c.address + c.size /\ End(c) <= SpaceSize
  BY DEF WellPlaced, End
<1>2. /\ PageOf(c.address) \in Tags /\ PageOf(c.address) <= c.address
      /\ c.address < PageOf(c.address) + PageSize
  BY <1>1, PageOfAddress
<1>3. c.size <= PageSize => End(c) <= PageOf(c.address) + PageSize
  <2> SUFFICES ASSUME c.size <= PageSize PROVE End(c) <= PageOf(c.address) + PageSize
    OBVIOUS
  <2>1. PICK t \in Tags : t <= c.address /\ End(c) <= t + PageSize
    BY DEF WellPlaced
  <2>2. PageOf(c.address) = t
    BY <1>1, <2>1, PageOfAddress
  <2> QED BY <2>1, <2>2
<1>4. ~c.allocated => c.size <= PageSize
  BY DEF WellPlaced
<1> QED BY <1>1, <1>2, <1>3, <1>4

LEMMA CoveredAddresses ==
    ASSUME NEW c, WellPlaced(c), NEW a \in Addresses
    PROVE  Covers(c, a) <=> c.address <= a /\ a < End(c)
<1>1. a \in Nat
  BY PagesInOrder
<1> QED BY <1>1, ChunkInPage DEF Covers

\* No address is in two chunks.
LEMMA OneChunk ==
    ASSUME NEW table, NEW owned, Layout(table, owned),
           NEW c \in table, NEW d \in table, NEW a, Covers(c, a), Covers(d, a)
    PROVE  c = d
<1>1. WellPlaced(c) /\ WellPlaced(d) /\ (c # d => Separate(c, d))
  BY DEF Layout
<1> QED BY <1>1, ChunkInPage DEF Covers, Separate, End

\* A hole has its neighbours where it ends and where it begins.
LEMMA NextChunk ==
    ASSUME NEW table, NEW owned, Layout(table, owned), NEW c \in table, ~c.allocated
    PROVE  HoleAfter(table, c) = {d \in table : Follows(c, d)}
<1>1. ASSUME NEW e \in table
      PROVE  WellPlaced(e) /\ (e # c => Separate(c, e))
  BY DEF Layout
<1>2. ASSUME NEW d \in table, Follows(c, d) PROVE d \in HoleAfter(table, c)
  <2>1. WellPlaced(c) /\ WellPlaced(d)
    BY <1>1
  <2>2. d.address > c.address /\ isInSamePage(c, d) /\ ~d.allocated
    BY <1>2, <2>1, ChunkInPage DEF Follows
  <2>3. ASSUME NEW e \in table, e.address > c.address PROVE d.address <= e.address
    <3>1. WellPlaced(e) /\ Separate(c, e)
      BY <1>1, <2>1, <2>3, ChunkInPage
    <3> QED BY <1>2, <2>1, <2>3, <3>1, ChunkInPage DEF Follows, Separate
  <2> QED BY <2>2, <2>3 DEF HoleAfter
<1>3. ASSUME NEW d \in HoleAfter(table, c) PROVE d \in table /\ Follows(c, d)
  <2>1. /\ d \in table /\ d.address > c.address /\ isInSamePage(c, d) /\ ~d.allocated
        /\ \A e \in table : e.address > c.address => d.address <= e.address
    BY <1>3 DEF HoleAfter
  <2>2. WellPlaced(c) /\ WellPlaced(d) /\ Separate(c, d)
    BY <1>1, <2>1, ChunkInPage
  <2>3. End(c) <= d.address
    BY <2>1, <2>2, ChunkInPage DEF Separate
  <2>4. CASE End(c) < d.address
    <3>1. End(c) \in Addresses /\ PageOf(End(c)) = PageOf(c.address)
      <4>1. /\ End(c) \in Nat /\ c.address <= End(c) /\ PageOf(c.address) \in Tags
            /\ PageOf(c.address) <= End(c) /\ End(c) < PageOf(c.address) + PageSize
            /\ End(c) < SpaceSize
        <5>1. /\ c.address \in Nat /\ c.size \in Nat /\ End(c) = c.address + c.size
              /\ PageOf(c.address) \in Tags /\ PageOf(c.address) \in Nat
              /\ PageOf(c.address) <= c.address
          BY <2>2, ChunkInPage
        <5>2. /\ d.address \in Nat /\ d.address < PageOf(d.address) + PageSize
              /\ d.address < SpaceSize
          BY <2>2, ChunkInPage, PagesInOrder
        <5>3. PageOf(d.address) = PageOf(c.address) /\ PageSize \in Nat /\ SpaceSize \in Nat
          BY <2>1, PagesInOrder DEF isInSamePage
        <5> HIDE DEF PageOf, End
        <5> QED BY <2>4, <5>1, <5>2, <5>3
      <4>2. End(c) \in Addresses
        BY <4>1, PagesInOrder
      <4> QED BY <4>1, <4>2, PageOfAddress
    <3>2. PageOf(c.address) \in owned
      <4>1. c.address \in Addresses /\ Covers(c, c.address)
        BY <2>2, ChunkInPage DEF Covers
      <4> QED BY <4>1 DEF Layout
    <3>3. PICK e \in table : Covers(e, End(c))
      BY <3>1, <3>2 DEF Layout
    <3>4. WellPlaced(e) /\ e # c
      BY <1>1, <2>2, <3>3, ChunkInPage DEF Covers
    <3>5. Separate(c, e)
      BY <1>1, <3>4
    <3>6. e.address = End(c)
      BY <2>2, <3>3, <3>4, <3>5, ChunkInPage DEF Covers, Separate
    <3> QED BY <2>1, <2>2, <2>4, <3>4, <3>6, ChunkInPage
  <2>5. CASE End(c) = d.address
    BY <2>1, <2>5 DEF Follows
  <2> QED BY <2>2, <2>3, <2>4, <2>5, ChunkInPage
<1> QED BY <1>2, <1>3

LEMMA PreviousChunk ==
    ASSUME NEW table, NEW owned, Layout(table, owned), NEW c \in table, ~c.allocated
    PROVE  HoleBefore(table, c) = {d \in table : Follows(d, c)}
<1>1. ASSUME NEW d \in table, NEW e \in table
      PROVE  WellPlaced(e) /\ (e # d => Separate(d, e))
  BY DEF Layout
<1>2. ASSUME NEW d \in table, Follows(d, c) PROVE d \in HoleBefore(table, c)
  <2>1. WellPlaced(c) /\ WellPlaced(d)
    BY <1>1
  <2>2. d.address < c.address /\ isInSamePage(c, d) /\ ~d.allocated
    BY <1>2, <2>1, ChunkInPage DEF Follows, isInSamePage
  <2>3. ASSUME NEW e \in table, e.address < c.address PROVE e.address <= d.address
    <3>1. WellPlaced(e) /\ (e # d => Separate(d, e))
      BY <1>1
    <3> QED BY <1>2, <2>1, <2>3, <3>1, ChunkInPage DEF Follows, Separate
  <2> QED BY <2>2, <2>3 DEF HoleBefore
<1>3. ASSUME NEW d \in HoleBefore(table, c) PROVE d \in table /\ Follows(d, c)
  <2>1. /\ d \in table /\ d.address < c.address /\ isInSamePage(c, d) /\ ~d.allocated
        /\ \A e \in table : e.address < c.address => e.address <= d.address
    BY <1>3 DEF HoleBefore
  <2>2. WellPlaced(c) /\ WellPlaced(d) /\ Separate(c, d)
    BY <1>1, <2>1, ChunkInPage
  <2>3. End(d) <= c.address
    BY <2>1, <2>2, ChunkInPage DEF Separate
  <2>4. CASE End(d) < c.address
    <3>1. End(d) \in Addresses /\ PageOf(End(d)) = PageOf(d.address)
      <4>1. /\ End(d) \in Nat /\ d.address <= End(d) /\ PageOf(d.address) \in Tags
            /\ PageOf(d.address) <= End(d) /\ End(d) < PageOf(d.address) + PageSize
            /\ End(d) < SpaceSize
        <5>1. /\ d.address \in Nat /\ d.size \in Nat /\ End(d) = d.address + d.size
              /\ PageOf(d.address) \in Tags /\ PageOf(d.address) \in Nat
              /\ PageOf(d.address) <= d.address
          BY <2>2, ChunkInPage
        <5>2. /\ c.address \in Nat /\ c.address < PageOf(c.address) + PageSize
              /\ c.address < SpaceSize
          BY <2>2, ChunkInPage, PagesInOrder
        <5>3. PageOf(c.address) = PageOf(d.address) /\ PageSize \in Nat /\ SpaceSize \in Nat
          BY <2>1, PagesInOrder DEF isInSamePage
        <5> HIDE DEF PageOf, End
        <5> QED BY <2>4, <5>1, <5>2, <5>3
      <4>2. End(d) \in Addresses
        BY <4>1, PagesInOrder
      <4> QED BY <4>1, <4>2, PageOfAddress
    <3>2. PageOf(d.address) \in owned
      <4>1. d.address \in Addresses /\ Covers(d, d.address)
        BY <2>2, ChunkInPage DEF Covers
      <4> QED BY <2>1, <4>1 DEF Layout
    <3>3. PICK e \in table : Covers(e, End(d))
      BY <3>1, <3>2 DEF Layout
    <3>4. WellPlaced(e) /\ e # d
      BY <1>1, <2>1, <2>2, <3>3, ChunkInPage DEF Covers
    <3>5. Separate(d, e)
      BY <1>1, <2>1, <3>4
    <3>6. e.address = End(d)
      BY <2>2, <3>3, <3>4, <3>5, ChunkInPage DEF Covers, Separate
    <3> QED BY <2>1, <2>2, <2>4, <3>4, <3>6, ChunkInPage
  <2>5. CASE End(d) = c.address
    BY <2>1, <2>5 DEF Follows, isInSamePage
  <2> QED BY <2>2, <2>3, <2>4, <2>5, ChunkInPage
<1> QED BY <1>2, <1>3

LEMMA SharedAddress ==
    ASSUME NEW c, NEW d, WellPlaced(c), WellPlaced(d), ~Separate(c, d)
    PROVE  \E a \in Addresses : Covers(c, a) /\ Covers(d, a)
<1>1. CASE c.address <= d.address
  <2>1. Covers(c, d.address) /\ Covers(d, d.address) /\ d.address \in Addresses
    BY <1>1, ChunkInPage DEF Covers, Separate
  <2> QED BY <2>1
<1>2. CASE ~(c.address <= d.address)
  <2>1. Covers(c, c.address) /\ Covers(d, c.address) /\ c.address \in Addresses
    BY <1>2, ChunkInPage DEF Covers, Separate
  <2> QED BY <2>1
<1> QED BY <1>1, <1>2

\* Chunks can be exchanged for others that have the same addresses.
LEMMA Exchange ==
    ASSUME NEW table, NEW owned, Layout(table, owned), NEW old, old \subseteq table,
           NEW new, \A c \in new : WellPlaced(c),
           \A c, d \in new : c # d => Separate(c, d),
           \A a \in Addresses : (\E c \in new : Covers(c, a)) <=> (\E c \in old : Covers(c, a))
    PROVE  Layout((table \ old) \cup new, owned)
<1> DEFINE T == (table \ old) \cup new
<1>1. \A c \in T : WellPlaced(c)
  BY DEF Layout
<1>2. ASSUME NEW c \in table \ old, NEW d \in new PROVE Separate(c, d)
  <2>1. ASSUME ~Separate(c, d) PROVE FALSE
    <3>1. PICK a \in Addresses : Covers(c, a) /\ Covers(d, a)
      BY <1>1, <2>1, SharedAddress
    <3>2. PICK e \in old : Covers(e, a)
      BY <3>1
    <3>3. c = e
      BY <3>1, <3>2, OneChunk
    <3> QED BY <3>3
  <2> QED BY <2>1
<1>3. ASSUME NEW c \in T, NEW d \in T, c # d PROVE Separate(c, d)
  BY <1>2, <1>3 DEF Layout, Separate
<1>4. ASSUME NEW a \in Addresses
      PROVE  (\E c \in T : Covers(c, a)) <=> PageOf(a) \in owned
  <2>1. (\E c \in T : Covers(c, a)) <=> (\E c \in table : Covers(c, a))
    OBVIOUS
  <2> QED BY <2>1 DEF Layout
<1> HIDE DEF T
<1>5. Layout(T, owned)
  BY <1>1, <1>3, <1>4 DEF Layout
<1> QED BY <1>5 DEF T

LEMMA MergeKeepsLayout ==
    ASSUME NEW table, NEW owned, Layout(table, owned),
           NEW h \in table, NEW d \in table, Follows(h, d)
    PROVE  /\ Layout(Merge2Holes(table, h, d), owned)
           /\ \A e \in Merge2Holes(table, h, d) :
                 \/ e \in table /\ e # h /\ e # d
                 \/ e = Hole(h.address, h.size + d.size)
           /\ \A e \in table : e = h \/ e = d \/ e \in Merge2Holes(table, h, d)
           /\ Hole(h.address, h.size + d.size) \in Merge2Holes(table, h, d)
<1> DEFINE m == Hole(h.address, h.size + d.size)
<1>1. m.address = h.address /\ m.size = h.size + d.size /\ ~m.allocated /\ m.allocated = FALSE
  BY DEF Hole
<1>2. WellPlaced(h) /\ WellPlaced(d)
  BY DEF Layout
<1>3. h.size <= PageSize /\ d.size <= PageSize /\ End(m) = End(d) /\ h.address + h.size = d.address
  <2>1. h.address \in Nat /\ h.size \in Nat /\ d.size \in Nat /\ h.address + h.size = d.address
    BY <1>2, ChunkInPage DEF Follows, End
  <2> HIDE DEF m
  <2> QED BY <1>1, <1>2, <2>1, ChunkInPage DEF Follows, End
<1>4. WellPlaced(m)
  <2>1. m \in [address : Addresses, size : Nat \ {0}, allocated : BOOLEAN]
    BY <1>2, ChunkInPage DEF Hole
  <2>2. /\ PageOf(h.address) \in Tags /\ PageOf(h.address) <= m.address
        /\ End(m) <= PageOf(h.address) + PageSize /\ End(m) <= SpaceSize
    BY <1>1, <1>2, <1>3, ChunkInPage DEF Follows, isInSamePage
  <2>3. m.size <= PageSize
    <3> HIDE DEF m
    <3> QED BY <1>1, <1>2, <2>2, ChunkInPage, PagesInOrder DEF End
  <2> HIDE DEF m
  <2> QED BY <2>1, <2>2, <2>3 DEF WellPlaced
<1>5. \A a \in Addresses : Covers(m, a) <=> Covers(h, a) \/ Covers(d, a)
  <2> HIDE DEF m
  <2> TAKE a \in Addresses
  <2>1. a \in Nat /\ End(h) = d.address
    BY PagesInOrder DEF Follows
  <2>2. /\ Covers(m, a) <=> m.address <= a /\ a < End(m)
        /\ Covers(h, a) <=> h.address <= a /\ a < End(h)
        /\ Covers(d, a) <=> d.address <= a /\ a < End(d)
    BY <1>2, <1>4, CoveredAddresses
  <2> QED BY <1>1, <1>2, <1>3, <2>1, <2>2, ChunkInPage
<1>6. Layout((table \ {h, d}) \cup {m}, owned)
  <2> HIDE DEF m
  <2> DEFINE old == {h, d}
             new == {m}
  <2>1. \A c \in new : WellPlaced(c)
    BY <1>4
  <2>2. \A a \in Addresses : (\E c \in new : Covers(c, a)) <=> (\E c \in old : Covers(c, a))
    BY <1>5
  <2>3. old \subseteq table
    OBVIOUS
  <2>4. \A c, e \in new : c # e => Separate(c, e)
    OBVIOUS
  <2> HIDE DEF old, new
  <2>5. Layout((table \ old) \cup new, owned)
    BY <2>1, <2>2, <2>3, <2>4, Exchange
  <2> QED BY <2>5 DEF old, new
<1> QED BY <1>6 DEF Merge2Holes

\* A hole that a merge makes has the neighbours that the two merged ones had.
LEMMA MergeKeepsNeighbours ==
    ASSUME NEW h, NEW d, NEW x, WellPlaced(h), WellPlaced(d), Follows(h, d)
    PROVE  /\ Follows(Hole(h.address, h.size + d.size), x) => Follows(d, x)
           /\ Follows(x, Hole(h.address, h.size + d.size)) => Follows(x, h)
           /\ Hole(h.address, h.size + d.size).address = h.address
           /\ ~Hole(h.address, h.size + d.size).allocated
           /\ End(Hole(h.address, h.size + d.size)) = End(d)
           /\ h.address < d.address /\ End(h) < End(d)
<1> DEFINE m == Hole(h.address, h.size + d.size)
<1>1. /\ m.address = h.address /\ ~m.allocated
      /\ End(m) = h.address + (h.size + d.size)
  BY DEF Hole, End
<1>2. End(m) = End(d) /\ h.address < d.address /\ End(h) < End(d)
  <2> HIDE DEF m
  <2> QED BY <1>1, ChunkInPage DEF Follows, End
<1>3. isInSamePage(m, x) => isInSamePage(d, x)
  BY <1>1 DEF isInSamePage, Follows
<1>4. isInSamePage(x, m) => isInSamePage(x, h)
  BY <1>1 DEF isInSamePage
<1> HIDE DEF m
<1>5. ~h.allocated /\ ~d.allocated
  BY DEF Follows
<1>6. Follows(m, x) => Follows(d, x)
  BY <1>2, <1>3, <1>5 DEF Follows
<1>7. Follows(x, m) => Follows(x, h)
  BY <1>1, <1>4, <1>5 DEF Follows
<1> QED BY <1>1, <1>2, <1>6, <1>7 DEF m

\* MergeHoles, when no holes but the given one have a hole next to them.
LEMMA MergeHolesFacts ==
    ASSUME NEW table, NEW owned, Layout(table, owned), NEW hole \in table, ~hole.allocated,
           \A h, d \in table : Follows(h, d) => h = hole \/ d = hole
    PROVE  /\ Layout(MergeHoles(table, hole), owned)
           /\ \A h, d \in MergeHoles(table, hole) : ~Follows(h, d)
           /\ \A c \in table : c.allocated => c \in MergeHoles(table, hole)
           /\ \A c \in MergeHoles(table, hole) :
                 \/ c \in table /\ c # hole
                 \/ ~c.allocated /\ c.address <= hole.address /\ End(hole) <= End(c)
           /\ \E c \in MergeHoles(table, hole) :
                 ~c.allocated /\ c.address <= hole.address /\ End(hole) <= End(c)
<1> DEFINE forward == IF HoleAfter(table, hole) = {} THEN table
                      ELSE Merge2Holes(table, hole, CHOOSE d \in HoleAfter(table, hole) : TRUE)
           merged == CHOOSE c \in forward : c.address = hole.address
           before == CHOOSE d \in HoleBefore(forward, merged) : TRUE
<1>1. MergeHoles(table, hole) =
         IF HoleBefore(forward, merged) = {} THEN forward
         ELSE Merge2Holes(forward, before, merged)
  BY DEF MergeHoles
<1>2. \A c \in table : WellPlaced(c)
  BY DEF Layout
<1>3. /\ Layout(forward, owned)
      /\ \E c \in forward :
            /\ c.address = hole.address /\ ~c.allocated /\ End(hole) <= End(c)
            /\ \A e \in forward : e = c \/ (e \in table /\ e # hole)
            /\ \A h, d \in forward : Follows(h, d) => d = c
      /\ \A c \in table : c.allocated => c \in forward
  <2>1. CASE HoleAfter(table, hole) = {}
    <3>1. forward = table
      BY <2>1
    <3>2. \A h, d \in table : Follows(h, d) => d = hole
      <4>1. \A d \in table : ~Follows(hole, d)
        BY <2>1, NextChunk
      <4> QED BY <4>1
    <3>3. End(hole) <= End(hole)
      BY <1>2, ChunkInPage
    <3> HIDE DEF forward
    <3> QED BY <3>1, <3>2, <3>3
  <2>2. CASE HoleAfter(table, hole) # {}
    <3> DEFINE d == CHOOSE d \in HoleAfter(table, hole) : TRUE
               m == Hole(hole.address, hole.size + d.size)
    <3>1. d \in table /\ Follows(hole, d)
      BY <2>2, NextChunk
    <3>2. forward = Merge2Holes(table, hole, d)
      BY <2>2
    <3> HIDE DEF d, m, forward
    <3>3. /\ Layout(forward, owned)
          /\ \A e \in forward : (e \in table /\ e # hole /\ e # d) \/ e = m
          /\ \A e \in table : e = hole \/ e = d \/ e \in forward
          /\ m \in forward
      BY <3>1, <3>2, MergeKeepsLayout DEF m
    <3>4. WellPlaced(hole) /\ WellPlaced(d)
      BY <1>2, <3>1
    <3>5. /\ m.address = hole.address /\ ~m.allocated /\ End(m) = End(d)
          /\ hole.address < d.address /\ End(hole) < End(d)
          /\ \A x : Follows(m, x) => Follows(d, x)
      BY <3>1, <3>4, MergeKeepsNeighbours DEF m
    <3>6. End(hole) <= End(m)
      BY <3>4, <3>5, ChunkInPage
    <3>7. hole # d
      BY <3>4, <3>5, ChunkInPage
    <3>8. ASSUME NEW h \in forward, NEW x \in forward, Follows(h, x), x # m PROVE FALSE
      <4>1. x \in table /\ x # hole /\ x # d
        BY <3>3, <3>8
      <4>2. CASE h = m
        BY <3>1, <3>5, <3>7, <3>8, <4>1, <4>2
      <4>3. CASE h \in table /\ h # hole /\ h # d
        BY <3>8, <4>1, <4>3
      <4> QED BY <3>3, <4>2, <4>3
    <3>9. \A c \in table : c.allocated => c \in forward
      BY <3>1, <3>3 DEF Follows
    <3> QED BY <3>3, <3>5, <3>6, <3>8, <3>9
  <2> QED BY <2>1, <2>2
<1> HIDE DEF forward
<1>4. PICK c \in forward :
         /\ c.address = hole.address /\ ~c.allocated /\ End(hole) <= End(c)
         /\ \A e \in forward : e = c \/ (e \in table /\ e # hole)
         /\ \A h, d \in forward : Follows(h, d) => d = c
  BY <1>3
<1>5. \A e \in forward : WellPlaced(e)
  BY <1>3 DEF Layout
<1>6. merged = c
  <2>1. ASSUME NEW e \in forward, e.address = hole.address PROVE e = c
    <3>1. WellPlaced(e) /\ WellPlaced(c)
      BY <1>5
    <3>2. Covers(e, c.address) /\ Covers(c, c.address)
      BY <2>1, <1>4, <3>1, ChunkInPage DEF Covers
    <3> QED BY <1>3, <3>2, OneChunk
  <2> QED BY <1>4, <2>1
<1> HIDE DEF merged
<1>7. CASE HoleBefore(forward, merged) = {}
  <2>1. MergeHoles(table, hole) = forward
    BY <1>1, <1>7
  <2>2. \A h, d \in forward : ~Follows(h, d)
    BY <1>3, <1>4, <1>6, <1>7, PreviousChunk
  <2>3. c.address <= hole.address
    BY <1>4, <1>5, ChunkInPage
  <2> QED BY <1>3, <1>4, <2>1, <2>2, <2>3
<1>8. CASE HoleBefore(forward, merged) # {}
  <2>1. before \in forward /\ Follows(before, c)
    BY <1>3, <1>4, <1>6, <1>8, PreviousChunk
  <2> HIDE DEF before
  <2> DEFINE T == MergeHoles(table, hole)
             m == Hole(before.address, before.size + c.size)
  <2>2. T = Merge2Holes(forward, before, c)
    BY <1>1, <1>6, <1>8
  <2> HIDE DEF T, m
  <2>3. /\ Layout(T, owned)
        /\ \A e \in T : (e \in forward /\ e # before /\ e # c) \/ e = m
        /\ \A e \in forward : e = before \/ e = c \/ e \in T
        /\ m \in T
    BY <1>3, <1>4, <2>1, <2>2, MergeKeepsLayout DEF m
  <2>4. WellPlaced(before) /\ WellPlaced(c)
    BY <1>4, <1>5, <2>1
  <2>5. /\ m.address = before.address /\ ~m.allocated /\ End(m) = End(c)
        /\ before.address < c.address /\ End(before) < End(c)
        /\ \A x : (Follows(m, x) => Follows(c, x)) /\ (Follows(x, m) => Follows(x, before))
    BY <2>1, <2>4, MergeKeepsNeighbours DEF m
  <2>6. m.address <= hole.address /\ End(hole) <= End(m)
    <3>1. before.address <= hole.address
      BY <1>4, <2>4, <2>5, ChunkInPage
    <3> QED BY <1>4, <2>5, <3>1
  <2>7. before # c
    BY <2>4, <2>5, ChunkInPage
  <2>8. m # c
    BY <2>4, <2>5, ChunkInPage
  <2>9. ASSUME NEW h \in T, NEW x \in T, Follows(h, x) PROVE FALSE
    <3>1. CASE x = m
      <4>1. Follows(h, before) /\ (Follows(h, m) => h = m \/ h \in forward)
        BY <2>3, <2>5, <2>9, <3>1
      <4>2. CASE h = m
        <5>1. Follows(c, before)
          BY <2>5, <4>2, <4>1
        <5> QED BY <2>4, <2>5, <5>1, ChunkInPage DEF Follows
      <4>3. CASE h \in forward
        BY <1>4, <2>1, <2>7, <4>1, <4>3
      <4> QED BY <2>9, <3>1, <4>1, <4>2, <4>3
    <3>2. CASE x \in forward /\ x # c
      <4>1. CASE h = m
        BY <1>4, <2>5, <2>9, <3>2, <4>1
      <4>2. CASE h \in forward
        BY <1>4, <2>9, <3>2, <4>2
      <4> QED BY <2>3, <4>1, <4>2
    <3> QED BY <2>3, <3>1, <3>2
  <2>10. \A e \in table : e.allocated => e \in T
    BY <1>3, <1>4, <2>1, <2>3 DEF Follows
  <2>11. \A e \in T :
            \/ e \in table /\ e # hole
            \/ ~e.allocated /\ e.address <= hole.address /\ End(hole) <= End(e)
    BY <1>4, <2>3, <2>5, <2>6
  <2> QED BY <2>3, <2>5, <2>6, <2>9, <2>10, <2>11 DEF T
<1> QED BY <1>7, <1>8

\* AllocateIn, in a hole that can contain the block: the block is in the hole, and
\* what is left of the hole is smaller and next to no other hole.
LEMMA AllocateInFacts ==
    ASSUME NEW table, NEW owned, Layout(table, owned), NEW hole \in table, ~hole.allocated,
           \A h, d \in table : ~Follows(h, d),
           NEW size \in Nat \ {0}, NEW alignment \in Nat \ {0},
           canHoleContain(hole, size, alignment)
    PROVE  LET T == AllocateIn(table, hole, size, alignment)
               p == Pointer(getNextAlignedAddress(hole.address, alignment), size)
           IN  /\ Layout(T, owned)
               /\ \A h, d \in T : ~Follows(h, d)
               /\ p \in T /\ p \notin table /\ p.allocated
               /\ p.address % alignment = 0 /\ p.address \in Nat /\ p.size = size
               /\ size <= PageSize
               /\ \A c \in table : c.allocated => c \in T
               /\ \A c \in T : c = p \/ (c \in table /\ c # hole) \/ (~c.allocated /\ c.size < hole.size)
<1> DEFINE aligned == getNextAlignedAddress(hole.address, alignment)
           gap == aligned - hole.address
           left == Hole(hole.address, gap)
           right == Hole(aligned + size, hole.size - size - gap)
           p == Pointer(aligned, size)
           new == {h \in {left, right} : h.size > 0} \cup {p}
           T == AllocateIn(table, hole, size, alignment)
<1>1. T = (table \ {hole}) \cup new
  BY DEF AllocateIn
<1>2. /\ left.address = hole.address /\ left.size = gap /\ left.allocated = FALSE
      /\ right.address = aligned + size /\ right.size = hole.size - size - gap
      /\ right.allocated = FALSE
      /\ p.address = aligned /\ p.size = size /\ p.allocated = TRUE
      /\ End(left) = hole.address + gap /\ End(p) = aligned + size
      /\ End(right) = aligned + size + (hole.size - size - gap)
  BY DEF Hole, Pointer, End
<1>3. WellPlaced(hole)
  BY DEF Layout
<1>4. /\ hole.address \in Nat /\ hole.size \in Nat /\ End(hole) = hole.address + hole.size
      /\ hole.size <= PageSize /\ End(hole) <= SpaceSize /\ PageOf(hole.address) \in Tags
      /\ PageOf(hole.address) <= hole.address /\ PageOf(hole.address) \in Nat
      /\ End(hole) <= PageOf(hole.address) + PageSize /\ End(hole) \in Nat /\ hole.size > 0
  BY <1>3, ChunkInPage
<1>5. aligned \in Nat /\ aligned % alignment = 0 /\ hole.address <= aligned
  BY <1>4, NextAligned
<1>6. hole.size >= size + gap
  BY DEF canHoleContain
<1>7. /\ gap \in Nat /\ hole.size - size - gap \in Nat
      /\ End(left) = aligned /\ End(right) = End(hole) /\ End(p) = right.address
      /\ left.address \in Nat /\ right.address \in Nat /\ gap < hole.size
      /\ hole.size - size - gap < hole.size
      /\ hole.address <= aligned /\ aligned < aligned + size /\ aligned + size <= End(hole)
      /\ size <= PageSize
  <2> HIDE DEF left, right, p, aligned
  <2>1. gap \in Nat /\ hole.size - size - gap \in Nat /\ gap < hole.size
    BY <1>4, <1>5, <1>6
  <2>2. hole.size - size - gap < hole.size /\ size <= PageSize
    BY SMTT(30), <1>4, <1>6, <2>1, PagesInOrder
  <2>3. aligned < aligned + size /\ aligned + size <= End(hole)
    BY <1>4, <1>5, <1>6
  <2>4. End(left) = aligned /\ End(right) = End(hole) /\ End(p) = right.address
    BY <1>2, <1>4, <1>5
  <2>5. left.address \in Nat /\ right.address \in Nat
    BY <1>2, <1>4, <1>5
  <2> QED BY <1>5, <2>1, <2>2, <2>3, <2>4, <2>5
<1> HIDE DEF T, left, right, p, aligned, gap
<1>8. ASSUME NEW c, c.address \in Nat, c.size \in Nat \ {0}, c.allocated \in BOOLEAN,
             c = [address |-> c.address, size |-> c.size, allocated |-> c.allocated],
             hole.address <= c.address, c.address + c.size <= End(hole)
      PROVE  WellPlaced(c) /\ PageOf(c.address) = PageOf(hole.address)
  <2>1. c.address \in Addresses
    BY <1>4, <1>8, PagesInOrder
  <2>2. c.size <= PageSize
    BY <1>4, <1>8, PagesInOrder
  <2>3. /\ PageOf(hole.address) <= c.address /\ End(c) <= PageOf(hole.address) + PageSize
        /\ c.address < PageOf(hole.address) + PageSize /\ End(c) <= SpaceSize
    <3>1. End(c) = c.address + c.size
      BY DEF End
    <3>2. PageOf(hole.address) <= c.address
      BY <1>4, <1>8
    <3>3. SpaceSize \in Nat /\ PageSize \in Nat
      BY PagesInOrder
    <3>4. End(c) <= PageOf(hole.address) + PageSize /\ End(c) <= SpaceSize
      BY <1>4, <1>8, <3>1, <3>3
    <3>5. c.address < PageOf(hole.address) + PageSize
      BY <1>4, <1>8, <3>1, <3>3, <3>4
    <3> QED BY <3>2, <3>4, <3>5
  <2>4. PageOf(c.address) = PageOf(hole.address)
    BY <1>4, <2>1, <2>3, PageOfAddress
  <2> QED BY <1>4, <1>8, <2>1, <2>2, <2>3, <2>4 DEF WellPlaced
<1>9. ASSUME NEW c \in new
      PROVE  WellPlaced(c) /\ PageOf(c.address) = PageOf(hole.address)
  <2>1. CASE c = p
    <3>1. c = [address |-> c.address, size |-> c.size, allocated |-> c.allocated]
      BY <2>1 DEF p, Pointer
    <3> QED BY <1>2, <1>4, <1>5, <1>7, <1>8, <2>1, <3>1
  <2>2. CASE c = left /\ c.size > 0
    <3>1. c = [address |-> c.address, size |-> c.size, allocated |-> c.allocated]
      BY <2>2 DEF left, Hole
    <3>2. /\ c.address \in Nat /\ c.size \in Nat \ {0} /\ c.allocated \in BOOLEAN
          /\ hole.address <= c.address /\ c.address + c.size <= End(hole)
      <4>1. c.address \in Nat /\ hole.address <= c.address
        BY <1>2, <1>4, <1>5, <1>7, <2>2
      <4>4. c.allocated \in BOOLEAN
        BY <2>2 DEF left, Hole
      <4>2. c.size \in Nat \ {0}
        BY <1>2, <1>7, <2>2
      <4>3. c.address + c.size = End(c) /\ End(c) <= End(hole)
        BY <1>4, <1>5, <1>7, <2>2 DEF End
      <4> QED BY <4>1, <4>2, <4>3, <4>4
    <3> QED BY <1>8, <3>1, <3>2
  <2>3. CASE c = right /\ c.size > 0
    <3>1. c = [address |-> c.address, size |-> c.size, allocated |-> c.allocated]
      BY <2>3 DEF right, Hole
    <3>2. /\ c.address \in Nat /\ c.size \in Nat \ {0} /\ c.allocated \in BOOLEAN
          /\ hole.address <= c.address /\ c.address + c.size <= End(hole)
      <4>1. c.address \in Nat /\ hole.address <= c.address
        BY <1>2, <1>4, <1>5, <1>7, <2>3
      <4>4. c.allocated \in BOOLEAN
        BY <2>3 DEF right, Hole
      <4>2. c.size \in Nat \ {0}
        BY <1>2, <1>7, <2>3
      <4>3. c.address + c.size = End(c) /\ End(c) <= End(hole)
        BY <1>4, <1>5, <1>7, <2>3 DEF End
      <4> QED BY <4>1, <4>2, <4>3, <4>4
    <3> QED BY <1>8, <3>1, <3>2
  <2> QED BY <2>1, <2>2, <2>3
<1>10. ASSUME NEW c \in new, NEW d \in new, c # d PROVE Separate(c, d)
  <2>1. aligned <= right.address /\ aligned <= aligned /\ End(left) <= right.address
        /\ End(left) <= p.address /\ End(p) <= right.address
    BY <1>2, <1>5, <1>7
  <2> QED BY <1>10, <2>1 DEF Separate
<1>11. ASSUME NEW a \in Addresses
       PROVE  (\E c \in new : Covers(c, a)) <=> (\E c \in {hole} : Covers(c, a))
  <2>1. a \in Nat
    BY PagesInOrder
  <2>2. Covers(hole, a) <=> hole.address <= a /\ a < End(hole)
    BY <1>3, CoveredAddresses
  <2>3. \A c \in new : Covers(c, a) <=> c.address <= a /\ a < End(c)
    BY <1>9, CoveredAddresses
  <2>4. (\E c \in new : Covers(c, a)) => Covers(hole, a)
    BY <1>2, <1>4, <1>5, <1>7, <2>1, <2>2, <2>3
  <2>5. ASSUME Covers(hole, a) PROVE \E c \in new : Covers(c, a)
    <3>1. CASE a < aligned
      <4>1. left.size > 0 /\ left \in new
        BY <1>2, <1>4, <1>5, <1>7, <2>1, <2>2, <2>5, <3>1 DEF gap
      <4> QED BY <1>2, <1>7, <2>2, <2>3, <2>5, <3>1, <4>1
    <3>2. CASE aligned <= a /\ a < aligned + size
      BY <1>2, <1>7, <2>3, <3>2
    <3>3. CASE aligned + size <= a
      <4>1. right.size > 0 /\ right \in new
        BY <1>2, <1>4, <1>5, <1>7, <2>1, <2>2, <2>5, <3>3
      <4> QED BY <1>2, <1>7, <2>2, <2>3, <2>5, <3>3, <4>1
    <3> QED BY <1>5, <2>1, <3>1, <3>2, <3>3
  <2> QED BY <2>4, <2>5
<1>12. Layout(T, owned)
  <2> DEFINE old == {hole}
  <2>1. old \subseteq table /\ T = (table \ old) \cup new
    BY <1>1
  <2>2. \A a \in Addresses : (\E c \in new : Covers(c, a)) <=> (\E c \in old : Covers(c, a))
    BY <1>11
  <2> HIDE DEF old, new
  <2> QED BY <1>9, <1>10, <2>1, <2>2, Exchange
<1>13. p \in T /\ p \notin table
  <2>1. p \in T
    BY <1>1
  <2>2. ASSUME p \in table PROVE FALSE
    <3>1. WellPlaced(p)
      BY <1>9
    <3>2. Covers(p, aligned) /\ Covers(hole, aligned)
      BY <1>2, <1>3, <1>4, <1>5, <1>7 DEF Covers, End
    <3>3. p = hole
      BY <2>2, <3>2, OneChunk
    <3> QED BY <1>2, <3>3
  <2> QED BY <2>1, <2>2
<1>14. ASSUME NEW c \in T
       PROVE  \/ c = p \/ (c \in table /\ c # hole)
              \/ c.size < hole.size /\ ~c.allocated /\ c = left /\ left \in T
              \/ c.size < hole.size /\ ~c.allocated /\ c = right /\ right \in T
  BY <1>1, <1>2, <1>7
<1>15. ASSUME NEW h \in T, NEW d \in T, Follows(h, d) PROVE FALSE
  <2>1. WellPlaced(h) /\ WellPlaced(d) /\ h # p /\ d # p
    BY <1>2, <1>12, <1>15 DEF Layout, Follows
  <2>2. ~h.allocated /\ ~d.allocated /\ End(h) = d.address
        /\ PageOf(h.address) = PageOf(d.address)
    BY <1>15 DEF Follows, isInSamePage
  <2>3. d # right
    <3>1. ASSUME d = right PROVE FALSE
      <4>1. Covers(p, right.address - 1) /\ Covers(h, right.address - 1)
        BY <1>2, <1>5, <1>7, <2>1, <2>2, <3>1, ChunkInPage DEF Covers, End
      <4> QED BY <1>12, <1>13, <2>1, <4>1, OneChunk
    <3> QED BY <3>1
  <2>4. h # left
    <3>1. ASSUME h = left PROVE FALSE
      <4>1. Covers(p, aligned) /\ Covers(d, aligned)
        BY <1>2, <1>5, <1>7, <2>1, <2>2, <3>1, ChunkInPage DEF Covers, End
      <4> QED BY <1>12, <1>13, <2>1, <4>1, OneChunk
    <3> QED BY <3>1
  <2>5. ASSUME h \in table, d = left PROVE FALSE
    <3>1. Follows(h, hole)
      BY <1>2, <2>2, <2>5 DEF Follows, isInSamePage
    <3> QED BY <2>5, <3>1
  <2>6. ASSUME h = right, d \in table PROVE FALSE
    <3>1. PageOf(h.address) = PageOf(hole.address)
      BY <1>1, <1>9, <1>13, <1>14, <2>1, <2>6, <1>3, <1>15, <1>2
    <3>2. Follows(hole, d)
      BY <1>7, <2>2, <2>6, <3>1 DEF Follows, isInSamePage
    <3> QED BY <2>6, <3>2
  <2>7. ASSUME h = right, d = left PROVE FALSE
    BY <1>2, <1>4, <1>7, <2>2, <2>7
  <2> QED BY <1>14, <1>15, <2>1, <2>3, <2>4, <2>5, <2>6, <2>7
<1>16. \A c \in table : c.allocated => c \in T
  BY <1>1
<1> QED BY <1>2, <1>5, <1>7, <1>12, <1>13, <1>14, <1>15, <1>16 DEF T, p, aligned

\* A chunk that begins and ends with pages has all addresses of its pages.
LEMMA WholePages ==
    ASSUME NEW c, WellPlaced(c), c.address \in Tags, End(c) \in PageEnds
    PROVE  /\ PagesOf(c.address, c.size) \subseteq Tags
           /\ \A a \in Addresses : Covers(c, a) <=> PageOf(a) \in PagesOf(c.address, c.size)
<1>1. PagesOf(c.address, c.size) \subseteq Tags
  BY DEF PagesOf
<1>2. ASSUME NEW a \in Addresses
      PROVE  Covers(c, a) <=> PageOf(a) \in PagesOf(c.address, c.size)
  <2>1. PageOf(a) \in Tags /\ PageOf(a) <= a /\ a < PageOf(a) + PageSize
    BY PageOfAddress
  <2>2. PageOf(a) \in PagesOf(c.address, c.size)
           <=> (PageOf(a) < End(c) /\ c.address < PageOf(a) + PageSize)
    BY <2>1, ChunkInPage, PagesOfInterval
  <2>3. Covers(c, a) <=> c.address <= a /\ a < End(c)
    BY CoveredAddresses
  <2>4. PageOf(a) < End(c) => PageOf(a) + PageSize <= End(c)
    BY <2>1, PagesInOrder
  <2>5. PageOf(a) < c.address => PageOf(a) + PageSize <= c.address
    BY <2>1, PagesInOrder
  <2>6. a \in Nat /\ PageOf(a) \in Nat /\ PageSize \in Nat /\ c.address \in Nat /\ End(c) \in Nat
    <3>1. a \in Nat /\ PageSize \in Nat
      BY PagesInOrder
    <3>2. PageOf(a) \in Nat
      BY <2>1, PagesInOrder
    <3> QED BY <3>1, <3>2, ChunkInPage
  <2> QED BY <2>1, <2>2, <2>3, <2>4, <2>5, <2>6
<1> QED BY <1>1, <1>2

LEMMA AddChunk ==
    ASSUME NEW table, NEW owned, Layout(table, owned), NEW c, WellPlaced(c),
           NEW new \in SUBSET Tags, new \cap owned = {},
           \A a \in Addresses : Covers(c, a) <=> PageOf(a) \in new
    PROVE  Layout(table \cup {c}, owned \cup new) /\ c \notin table
<1> DEFINE T == table \cup {c}
<1>1. ASSUME NEW d \in table PROVE Separate(c, d)
  <2>1. ASSUME ~Separate(c, d) PROVE FALSE
    <3>1. PICK a \in Addresses : Covers(c, a) /\ Covers(d, a)
      BY <2>1, SharedAddress DEF Layout
    <3>2. PageOf(a) \in owned
      BY <3>1 DEF Layout
    <3> QED BY <3>1, <3>2
  <2> QED BY <2>1
<1>2. \A d, e \in T : d # e => Separate(d, e)
  BY <1>1 DEF Layout, Separate
<1>3. c \notin table
  <2>1. Covers(c, c.address) /\ c.address \in Addresses
    BY ChunkInPage DEF Covers
  <2>2. PageOf(c.address) \in new
    BY <2>1
  <2> QED BY <2>1, <2>2 DEF Layout
<1>4. \A d \in T : WellPlaced(d)
  BY DEF Layout
<1>5. owned \cup new \subseteq Tags
  BY DEF Layout
<1>6. \A a \in Addresses : (\E d \in T : Covers(d, a)) <=> PageOf(a) \in owned \cup new
  BY DEF Layout
<1> HIDE DEF T
<1>7. Layout(T, owned \cup new)
  BY <1>2, <1>4, <1>5, <1>6 DEF Layout
<1> QED BY <1>3, <1>7 DEF T

LEMMA RemoveChunk ==
    ASSUME NEW table, NEW owned, Layout(table, owned), NEW c \in table, NEW gone,
           \A a \in Addresses : Covers(c, a) <=> PageOf(a) \in gone
    PROVE  Layout(table \ {c}, owned \ gone)
<1> DEFINE T == table \ {c}
<1>1. \A d \in T : WellPlaced(d)
  BY DEF Layout
<1>2. \A d, e \in T : d # e => Separate(d, e)
  BY DEF Layout
<1>3. ASSUME NEW a \in Addresses
      PROVE  (\E d \in T : Covers(d, a)) <=> PageOf(a) \in owned \ gone
  <2>1. (\E d \in table : Covers(d, a)) <=> PageOf(a) \in owned
    BY DEF Layout
  <2>2. \A d \in table : Covers(d, a) /\ Covers(c, a) => d = c
    BY OneChunk
  <2> QED BY <2>1, <2>2
<1> HIDE DEF T
<1>4. Layout(T, owned \ gone)
  BY <1>1, <1>2, <1>3 DEF Layout
<1> QED BY <1>4 DEF T

\* The places that MapSpace and MapSpaceDown find.
LEMMA MapSpaceFacts ==
    ASSUME NEW from, NEW size, MapSpace(from, size) # -1
    PROVE  /\ MapSpace(from, size) \in Tags
           /\ MapSpace(from, size) + size <= SpaceSize
           /\ PagesOf(MapSpace(from, size), size) \cap pages = {}
<1> DEFINE free == {tag \in Tags : /\ from <= tag
                                  /\ tag + size <= NumPages * PageSize
                                  /\ PagesOf(tag, size) \cap pages = {}}
<1>1. free # {} /\ MapSpace(from, size) = Min(free)
  BY DEF MapSpace
<1>2. free \subseteq Nat
  BY PagesInOrder
<1>3. Min(free) \in free
  <2> HIDE DEF free
  <2>1. \E x \in free : \A y \in free : x <= y
    BY <1>1, <1>2, LeastNumber
  <2> QED BY <2>1 DEF Min
<1> QED BY <1>1, <1>3 DEF SpaceSize

LEMMA MapSpaceDownFacts ==
    ASSUME NEW size, MapSpaceDown(MapBaseAddress, size) # -1
    PROVE  /\ MapSpaceDown(MapBaseAddress, size) \in Tags
           /\ MapSpaceDown(MapBaseAddress, size) + size <= MapBaseAddress + PageSize
           /\ PagesOf(MapSpaceDown(MapBaseAddress, size), size) \cap pages = {}
<1> DEFINE free == {tag \in Tags \ {0} : /\ tag + size <= MapBaseAddress + PageSize
                                        /\ PagesOf(tag, size) \cap pages = {}}
<1>1. free # {} /\ MapSpaceDown(MapBaseAddress, size) = Max(free)
  BY DEF MapSpaceDown
<1>2. free \subseteq Nat /\ SpaceSize \in Nat /\ \A t \in free : t <= SpaceSize
  <2>1. \A t \in free : t \in Tags
    OBVIOUS
  <2>2. \A t \in Tags : t \in Nat /\ t <= SpaceSize
    BY PagesInOrder
  <2> HIDE DEF free
  <2> QED BY <2>1, <2>2, PagesInOrder
<1>3. Max(free) \in free
  <2> HIDE DEF free
  <2>1. \E x \in free : \A y \in free : x >= y
    BY <1>1, <1>2, GreatestNumber
  <2> QED BY <2>1 DEF Max
<1> QED BY <1>1, <1>3
-----------------------------------------------------------------------------
(* The Manager.                                                            *)

\* The chunks lie in the pages that no stray store has made, and holes are merged.
ChunksInv ==
    /\ MemoryTypeOK
    /\ stray \subseteq pages
    /\ Layout(chunks, pages \ stray)
    /\ Merged(chunks)

LEMMA MemoryType ==
    MemoryTypeOK <=> /\ pages \subseteq Tags
                     /\ data \in [Watched -> Values]
                     /\ \A a \in Watched : PageOf(a) \notin pages => data[a] = 0
  BY DEF MemoryTypeOK, PageOf

\* What holds of the pages and chunks also after a page has been missed.
TypesInv ==
    /\ MemoryTypeOK /\ ManagerTypeOK
    /\ stray \subseteq Tags /\ misread \in BOOLEAN

LEMMA ChunkTypes ==
    ASSUME NEW table, NEW owned, Layout(table, owned)
    PROVE  table \subseteq [address : Addresses, size : 1..(NumPages * PageSize),
                            allocated : BOOLEAN]
<1> SUFFICES ASSUME NEW c \in table
             PROVE  c \in [address : Addresses, size : 1..(NumPages * PageSize),
                            allocated : BOOLEAN]
  OBVIOUS
<1>1. WellPlaced(c)
  BY DEF Layout
<1>2. c.size \in 1..SpaceSize
  BY <1>1, ChunkInPage, PagesInOrder
<1>3. c.size \in 1..(NumPages * PageSize)
  BY <1>2 DEF SpaceSize
<1> QED BY <1>1, <1>3 DEF WellPlaced

LEMMA NextTypes ==
    ASSUME ChunksInv', misread' \in BOOLEAN
    PROVE  TypesInv'
<1>1. ManagerTypeOK'
  BY ChunkTypes DEF ChunksInv, ManagerTypeOK
<1>2. stray' \subseteq Tags
  BY DEF ChunksInv, MemoryTypeOK
<1> QED BY <1>1, <1>2 DEF ChunksInv, TypesInv

\* A new block, which takes nothing away from the others.
NewBlock(size, alignment) ==
    /\ data' = data
    /\ \E p \in Pointers' :
          /\ p \notin chunks /\ Pointers' = Pointers \cup {p}
          /\ p.size >= size /\ p.address % alignment = 0

LEMMA PageEndAhead ==
    ASSUME NEW t \in Tags, NEW q \in Nat, t + q * PageSize <= SpaceSize
    PROVE  t + q * PageSize \in PageEnds
<1>1. PICK n \in 0..(NumPages - 1) : t = n * PageSize
  BY DEF Tags
<1>2. PageSize \in Nat \ {0} /\ NumPages \in Nat
  BY MemoryAssumption
<1>3. t + q * PageSize = (n + q) * PageSize
  BY <1>1, <1>2
<1>4. n + q <= NumPages
  <2>1. ASSUME NumPages < n + q PROVE FALSE
    <3>1. NumPages + 1 <= n + q
      BY <1>2, <2>1
    <3>2. (NumPages + 1) * PageSize <= (n + q) * PageSize
      BY <1>2, <3>1, MultiplesInOrder
    <3>3. (NumPages + 1) * PageSize = SpaceSize + PageSize
      BY <1>2 DEF SpaceSize
    <3> QED BY <1>2, <1>3, <3>2, <3>3, PagesInOrder
  <2> QED BY <1>2, <2>1
<1>5. n + q \in 0..NumPages
  BY <1>2, <1>4
<1> QED BY <1>3, <1>5 DEF PageEnds

\* AllocateLarge maps the pages of the block, though it maps by the size asked for.
LEMMA LargeBlock ==
    ASSUME NEW size \in Nat, size > PageSize, NEW address \in Tags,
           address + getNextAlignedAddress(size, PageSize) <= SpaceSize
    PROVE  LET whole == getNextAlignedAddress(size, PageSize)
               c == Pointer(address, whole)
           IN  /\ WellPlaced(c) /\ End(c) \in PageEnds /\ c.address = address
               /\ c.size = whole /\ whole >= size /\ c.allocated
               /\ PagesOf(address, size) = PagesOf(address, whole)
<1> DEFINE whole == getNextAlignedAddress(size, PageSize)
           c == Pointer(address, whole)
<1>1. PageSize \in Nat \ {0} /\ address \in Nat /\ address \in Addresses
  BY PagesInOrder
<1>2. whole \in Nat /\ size <= whole /\ whole < size + PageSize
  BY <1>1, NextAligned
<1>3. PICK q \in Nat : whole = q * PageSize
  BY <1>1, NextAligned
<1>4. c.address = address /\ c.size = whole /\ c.allocated = TRUE /\ End(c) = address + whole
  BY DEF Pointer, End
<1>5. End(c) \in PageEnds
  <2>1. address + q * PageSize <= SpaceSize
    BY <1>3
  <2>2. address + q * PageSize \in PageEnds
    BY <2>1, PageEndAhead
  <2> QED BY <1>3, <1>4, <2>2
<1>6. WellPlaced(c)
  <2>1. c \in [address : Addresses, size : Nat \ {0}, allocated : BOOLEAN]
    BY <1>1, <1>2 DEF Pointer
  <2>2. ~(c.size <= PageSize) /\ End(c) <= SpaceSize
    BY <1>1, <1>2, <1>4
  <2> QED BY <1>4, <1>5, <2>1, <2>2 DEF WellPlaced
<1>7. ASSUME NEW t \in Tags
      PROVE  t \in PagesOf(address, size) <=> t \in PagesOf(address, whole)
  <2>1. t \in PagesOf(address, size) <=> (t < address + size /\ address < t + PageSize)
    <3>1. address + size <= SpaceSize
      BY <1>1, <1>2, PagesInOrder
    <3> QED BY <1>1, <3>1, PagesOfInterval
  <2>2. t \in PagesOf(address, whole) <=> (t < address + whole /\ address < t + PageSize)
    <3>1. whole \in Nat \ {0}
      BY <1>1, <1>2
    <3> QED BY <1>1, <3>1, PagesOfInterval
  <2>3. t \in Nat
    BY PagesInOrder
  <2>4. t < address + whole => t + PageSize <= address + whole
    BY <1>4, <1>5, PagesInOrder
  <2> HIDE DEF whole
  <2> QED BY <1>1, <1>2, <2>1, <2>2, <2>3, <2>4
<1>8. PagesOf(address, size) = PagesOf(address, whole)
  BY <1>7 DEF PagesOf
<1> QED BY <1>2, <1>4, <1>5, <1>6, <1>8

\* A new block in a hole of a table of chunks that are well laid out.
LEMMA BlockInHole ==
    ASSUME NEW table, NEW owned, Layout(table, owned), NEW hole \in table, ~hole.allocated,
           \A h, d \in table : ~Follows(h, d),
           \A h \in table : ~h.allocated => h = hole \/ h.size < PageSize,
           NEW size \in Nat \ {0}, NEW alignment \in Nat \ {0},
           canHoleContain(hole, size, alignment),
           {c \in table : c.allocated} = Pointers,
           chunks' = AllocateIn(table, hole, size, alignment),
           chunks \subseteq table
    PROVE  /\ Layout(chunks', owned) /\ Merged(chunks')
           /\ \E p \in Pointers' :
                 /\ p \notin chunks /\ Pointers' = Pointers \cup {p}
                 /\ p.size >= size /\ p.address % alignment = 0
<1> DEFINE p == Pointer(getNextAlignedAddress(hole.address, alignment), size)
<1>1. /\ Layout(chunks', owned)
      /\ \A h, d \in chunks' : ~Follows(h, d)
      /\ p \in chunks' /\ p \notin table /\ p.allocated
      /\ p.address % alignment = 0 /\ p.size = size
      /\ \A c \in table : c.allocated => c \in chunks'
      /\ \A c \in chunks' : c = p \/ (c \in table /\ c # hole) \/ (~c.allocated /\ c.size < hole.size)
  BY AllocateInFacts
<1> HIDE DEF p
<1>2. Merged(chunks')
  <2> SUFFICES ASSUME NEW h \in chunks', ~h.allocated PROVE h.size < PageSize
    BY <1>1 DEF Merged
  <2>1. CASE h \in table /\ h # hole
    BY <2>1
  <2>2. CASE h.size < hole.size
    <3>1. WellPlaced(h) /\ WellPlaced(hole)
      BY <1>1 DEF Layout
    <3> QED BY <2>2, <3>1, ChunkInPage, PagesInOrder
  <2> QED BY <1>1, <2>1, <2>2
<1>3. Pointers' = Pointers \cup {p} /\ p \in Pointers'
  BY <1>1 DEF Pointers
<1>4. p \notin chunks /\ p.size >= size
  BY <1>1
<1> QED BY <1>1, <1>2, <1>3, <1>4

LEMMA AllocStep ==
    ASSUME ChunksInv, NEW size \in Sizes, NEW alignment \in Alignments, Alloc(size, alignment)
    PROVE  ChunksInv' /\ NewBlock(size, alignment) /\ misread' = misread
<1> DEFINE owned == pages \ stray
<1>1. /\ pages \subseteq Tags /\ data \in [Watched -> Values] /\ stray \subseteq pages
      /\ \A a \in Watched : PageOf(a) \notin pages => data[a] = 0
      /\ Layout(chunks, owned) /\ Merged(chunks)
  BY MemoryType DEF ChunksInv
<1>2. /\ PageSize \in Nat \ {0} /\ size \in Nat \ {0}
      /\ alignment \in Nat \ {0} /\ PageSize % alignment = 0 /\ MapBaseAddress \in Tags
  BY ManagerAssumption, PagesInOrder
<1>3. stray' = stray
  BY DEF Alloc
<1>4. \A c \in chunks : WellPlaced(c)
  BY <1>1 DEF Layout
<1>5. ASSUME NEW new \in SUBSET Tags, pages' = pages \cup new, data' = data
      PROVE  MemoryTypeOK' /\ stray' \subseteq pages'
  <2>1. /\ pages' \subseteq Tags /\ data' \in [Watched -> Values]
        /\ \A a \in Watched : PageOf(a) \notin pages' => data'[a] = 0
    BY <1>1, <1>5
  <2>2. MemoryTypeOK'
    BY <2>1 DEF MemoryTypeOK, PageOf
  <2> QED BY <1>1, <1>3, <1>5, <2>2
<1>6. ASSUME NEW t \in Tags PROVE t % alignment = 0
  <2>1. PICK n \in 0..(NumPages - 1) : t = n * PageSize
    BY DEF Tags
  <2>2. PageSize = (PageSize \div alignment) * alignment /\ PageSize \div alignment \in Nat
    <3>1. PageSize = (PageSize \div alignment) * alignment + (PageSize % alignment)
          /\ PageSize \div alignment \in Nat
      BY <1>2, Division
    <3>2. (PageSize \div alignment) * alignment \in Nat
      BY <1>2, <3>1
    <3> QED BY <1>2, <3>1, <3>2
  <2> DEFINE q == PageSize \div alignment
  <2>3. q \in Nat /\ PageSize = q * alignment
    BY <2>2
  <2> HIDE DEF q
  <2>4. n * q \in Nat /\ t = (n * q) * alignment
    BY <1>2, <2>1, <2>3
  <2> QED BY <1>2, <2>4, MultiplesDivide
<1>7. CASE size > PageSize /\ AllocateLarge(size)
  <2> DEFINE whole == getNextAlignedAddress(size, PageSize)
             address == MapSpaceDown(MapBaseAddress, whole)
             c == Pointer(address, whole)
             new == PagesOf(address, whole)
  <2>1. /\ address # -1 /\ Map(address, size) /\ chunks' = chunks \cup {c}
        /\ misread' = misread
    BY <1>7 DEF AllocateLarge
  <2>2. /\ address \in Tags /\ address + whole <= MapBaseAddress + PageSize
        /\ new \cap pages = {}
    BY <2>1, MapSpaceDownFacts
  <2>3. address + whole <= SpaceSize
    <3>1. whole \in Nat /\ address \in Nat
      BY <1>2, <2>2, NextAligned, PagesInOrder
    <3>2. MapBaseAddress + PageSize <= SpaceSize /\ MapBaseAddress \in Nat /\ SpaceSize \in Nat
      BY <1>2, PagesInOrder
    <3> HIDE DEF whole, address
    <3> QED BY <1>2, <2>2, <3>1, <3>2
  <2>4. /\ WellPlaced(c) /\ End(c) \in PageEnds /\ c.address = address /\ c.size = whole
        /\ whole >= size /\ c.allocated /\ PagesOf(address, size) = new
    BY <1>2, <1>7, <2>2, <2>3, LargeBlock
  <2> HIDE DEF address, whole, c, new
  <2>5. new \subseteq Tags /\ \A a \in Addresses : Covers(c, a) <=> PageOf(a) \in new
    BY <2>2, <2>4, WholePages DEF new
  <2>6. Layout(chunks \cup {c}, owned \cup new) /\ c \notin chunks
    <3>1. new \in SUBSET Tags /\ new \cap owned = {}
      BY <2>2, <2>5
    <3>2. Layout(chunks, owned) /\ WellPlaced(c)
      BY <1>1, <2>4
    <3>3. \A a \in Addresses : Covers(c, a) <=> PageOf(a) \in new
      BY <2>5
    <3> HIDE DEF owned
    <3> QED BY <3>1, <3>2, <3>3, AddChunk
  <2>7. pages' = pages \cup new /\ data' = data
    BY <2>1, <2>4 DEF Map
  <2>8. pages' \ stray' = owned \cup new
    BY <1>1, <1>3, <2>2, <2>7
  <2>9. Merged(chunks')
    BY <1>1, <2>1, <2>4 DEF Merged, Follows
  <2>10. ChunksInv'
    BY <1>5, <2>1, <2>5, <2>6, <2>7, <2>8, <2>9 DEF ChunksInv
  <2>11. Pointers' = Pointers \cup {c} /\ c \in Pointers'
    BY <2>1, <2>4 DEF Pointers
  <2>12. c.address % alignment = 0
    BY <1>6, <2>2, <2>4
  <2> QED BY <2>1, <2>4, <2>6, <2>7, <2>10, <2>11, <2>12 DEF NewBlock
<1>8. CASE /\ size <= PageSize
           /\ \E h \in Fitting(size, alignment) :
                 /\ \A other \in Fitting(size, alignment) : h.size <= other.size
                 /\ chunks' = AllocateIn(chunks, h, size, alignment)
           /\ UNCHANGED <<misread, memoryVars>>
  <2>1. PICK h \in Fitting(size, alignment) : chunks' = AllocateIn(chunks, h, size, alignment)
    BY <1>8
  <2>2. h \in chunks /\ ~h.allocated /\ canHoleContain(h, size, alignment)
    BY DEF Fitting, Holes
  <2>3. /\ Layout(chunks', owned) /\ Merged(chunks')
        /\ \E p \in Pointers' :
              /\ p \notin chunks /\ Pointers' = Pointers \cup {p}
              /\ p.size >= size /\ p.address % alignment = 0
    <3>1. {c \in chunks : c.allocated} = Pointers
      BY DEF Pointers
    <3> QED BY <1>1, <1>2, <2>1, <2>2, <3>1, BlockInHole DEF Merged
  <2>4. pages' = pages /\ data' = data /\ misread' = misread
    BY <1>8 DEF memoryVars
  <2>5. MemoryTypeOK' /\ stray' \subseteq pages'
    <3>1. {} \in SUBSET Tags /\ pages' = pages \cup {}
      BY <2>4
    <3> QED BY <1>5, <2>4, <3>1
  <2> QED BY <1>3, <2>3, <2>4, <2>5 DEF ChunksInv, NewBlock
<1>9. CASE size <= PageSize /\ AllocateInNewPage(size, alignment)
  <2> DEFINE address == MapSpace(MapBaseAddress, PageSize)
             page == Hole(address, PageSize)
             table == chunks \cup {page}
             new == PagesOf(address, PageSize)
  <2>1. /\ address # -1 /\ Map(address, PageSize)
        /\ chunks' = AllocateIn(table, page, size, alignment)
        /\ misread' = misread
    BY <1>9 DEF AllocateInNewPage
  <2>2. address \in Tags /\ address + PageSize <= SpaceSize /\ new \cap pages = {}
    BY <2>1, MapSpaceFacts
  <2>3. page.address = address /\ page.size = PageSize /\ page.allocated = FALSE
        /\ End(page) = address + PageSize
    BY DEF Hole, End
  <2> HIDE DEF address
  <2>4. address \in Nat /\ address \in Addresses /\ End(page) \in PageEnds
    BY <2>2, <2>3, PagesInOrder
  <2>5. WellPlaced(page)
    <3>1. page \in [address : Addresses, size : Nat \ {0}, allocated : BOOLEAN]
      BY <1>2, <2>4 DEF Hole
    <3> HIDE DEF page
    <3> QED BY <1>2, <2>2, <2>3, <2>4, <3>1 DEF WellPlaced
  <2> HIDE DEF page, new
  <2>6. new \subseteq Tags /\ \A a \in Addresses : Covers(page, a) <=> PageOf(a) \in new
    BY <2>2, <2>3, <2>4, <2>5, WholePages DEF new
  <2>7. Layout(table, owned \cup new) /\ page \notin chunks
    <3>1. new \in SUBSET Tags /\ new \cap owned = {}
      BY <2>2, <2>6 DEF new
    <3> HIDE DEF owned
    <3> QED BY <1>1, <2>5, <2>6, <3>1, AddChunk
  <2>8. pages' = pages \cup new /\ data' = data
    BY <2>1 DEF Map, new
  <2>9. pages' \ stray' = owned \cup new
    BY <1>1, <1>3, <2>2, <2>8
  <2>10. ASSUME NEW h \in table, NEW d \in table, Follows(h, d) PROVE FALSE
    <3>1. PageOf(address) = address
      BY <1>2, <2>2, <2>4, PageOfAddress
    <3>2. WellPlaced(h) /\ WellPlaced(d)
      BY <1>4, <2>5
    <3>3. CASE h = page
      BY <1>2, <2>3, <2>4, <2>10, <3>1, <3>2, <3>3, ChunkInPage DEF Follows, isInSamePage
    <3>4. CASE d = page
      BY <1>2, <2>3, <2>4, <2>10, <3>1, <3>2, <3>4, ChunkInPage DEF Follows, isInSamePage
    <3>5. CASE h \in chunks /\ d \in chunks
      BY <1>1, <2>10, <3>5 DEF Merged
    <3> QED BY <3>3, <3>4, <3>5
  <2>11. canHoleContain(page, size, alignment)
    <3>1. getNextAlignedAddress(address, alignment) = address
      <4>1. /\ getNextAlignedAddress(address, alignment) \in Nat
            /\ address <= getNextAlignedAddress(address, alignment)
            /\ getNextAlignedAddress(address, alignment) < address + alignment
            /\ \E q \in Nat : getNextAlignedAddress(address, alignment) = q * alignment
        BY <1>2, <2>4, NextAligned
      <4>2. PICK q \in Nat : getNextAlignedAddress(address, alignment) = q * alignment
        BY <4>1
      <4>3. address % alignment = 0
        BY <1>6, <2>2
      <4>4. address \div alignment \in Nat /\ address = (address \div alignment) * alignment
        <5>1. address \div alignment \in Nat
              /\ address = (address \div alignment) * alignment + (address % alignment)
          BY <1>2, <2>4, Division
        <5>2. (address \div alignment) * alignment \in Nat
          BY <1>2, <5>1
        <5> QED BY <4>3, <5>1, <5>2
      <4>5. PICK r \in Nat : address = r * alignment
        BY <4>4
      <4>6. r * alignment < q * alignment => r * alignment + alignment <= q * alignment
        BY <1>2, MultiplesInOrder
      <4> QED BY <1>2, <2>4, <4>1, <4>2, <4>5, <4>6
    <3> QED BY <1>2, <1>9, <2>3, <2>4, <3>1 DEF canHoleContain
  <2>12. {c \in table : c.allocated} = Pointers
    BY <2>3 DEF Pointers
  <2>13. \A h \in table : ~h.allocated => h = page \/ h.size < PageSize
    BY <1>1 DEF Merged
  <2>14. /\ Layout(chunks', owned \cup new) /\ Merged(chunks')
         /\ \E p \in Pointers' :
               /\ p \notin chunks /\ Pointers' = Pointers \cup {p}
               /\ p.size >= size /\ p.address % alignment = 0
    <3>1. page \in table /\ ~page.allocated /\ chunks \subseteq table
      BY <2>3
    <3> HIDE DEF table
    <3> QED BY <1>2, <2>1, <2>7, <2>10, <2>11, <2>12, <2>13, <3>1, BlockInHole
  <2>15. MemoryTypeOK' /\ stray' \subseteq pages'
    BY <1>5, <2>6, <2>8
  <2> QED BY <2>1, <2>8, <2>9, <2>14, <2>15 DEF ChunksInv, NewBlock
<1> QED BY <1>7, <1>8, <1>9 DEF Alloc, Allocate

\* The contents of the blocks stay.
BlocksKept == \A a \in Watched : (\E q \in Pointers' : Covers(q, a)) => data'[a] = data[a]

\* Unmap takes pages of chunks only, and with them no address of another chunk.
LEMMA UnmapStep ==
    ASSUME ChunksInv, NEW table, Layout(table, pages \ stray), NEW c \in table,
           c.address \in Tags, End(c) \in PageEnds,
           Unmap(c.address, c.size), chunks' = table \ {c}, stray' = stray
    PROVE  /\ MemoryTypeOK' /\ stray' \subseteq pages'
           /\ Layout(chunks', pages' \ stray')
           /\ BlocksKept
<1> DEFINE owned == pages \ stray
           gone == PagesOf(c.address, c.size)
<1>1. /\ pages \subseteq Tags /\ data \in [Watched -> Values] /\ stray \subseteq pages
      /\ \A a \in Watched : PageOf(a) \notin pages => data[a] = 0
  BY MemoryType DEF ChunksInv
<1>2. /\ pages' = pages \ gone
      /\ data' = [a \in Watched |-> IF PageOf(a) \in gone THEN 0 ELSE data[a]]
  BY DEF Unmap
<1>3. WellPlaced(c)
  BY DEF Layout
<1>4. gone \subseteq Tags /\ \A a \in Addresses : Covers(c, a) <=> PageOf(a) \in gone
  BY <1>3, WholePages
<1> HIDE DEF gone
<1>5. Layout(chunks', owned \ gone)
  <2> HIDE DEF owned
  <2>1. Layout(table, owned)
    BY DEF owned
  <2> QED BY <1>4, <2>1, RemoveChunk
<1>6. gone \cap stray = {}
  <2> SUFFICES ASSUME NEW t \in gone PROVE t \notin stray
    OBVIOUS
  <2>1. t \in Tags /\ t \in Addresses /\ t \in Nat /\ t < t + PageSize /\ t <= t
    BY <1>4, PagesInOrder
  <2>2. PageOf(t) = t
    BY <2>1, PageOfAddress
  <2>3. Covers(c, t)
    BY <1>4, <2>1, <2>2
  <2> QED BY <2>1, <2>2, <2>3 DEF Layout
<1>7. pages' \ stray' = owned \ gone /\ stray' \subseteq pages'
  BY <1>1, <1>2, <1>6
<1>8. 0 \in Values /\ Watched \subseteq Addresses
  BY MemoryAssumption
<1>9. MemoryTypeOK'
  <2>1. data' \in [Watched -> Values] /\ pages' \subseteq Tags
    BY <1>1, <1>2, <1>8
  <2>2. \A a \in Watched : PageOf(a) \notin pages' => data'[a] = 0
    BY <1>1, <1>2
  <2> QED BY <2>1, <2>2 DEF MemoryTypeOK, PageOf
<1>10. ASSUME NEW a \in Watched, NEW q \in Pointers', Covers(q, a) PROVE data'[a] = data[a]
  <2>1. q \in chunks' /\ a \in Addresses
    BY <1>8 DEF Pointers
  <2>2. PageOf(a) \in owned \ gone
    BY <1>5, <1>10, <2>1 DEF Layout
  <2> QED BY <1>2, <2>2
<1> QED BY <1>5, <1>7, <1>9, <1>10 DEF BlocksKept

\* A range unmapped by mistake still leaves the Memory well formed.
LEMMA UnmapTypes ==
    ASSUME MemoryTypeOK, NEW address, NEW size, Unmap(address, size)
    PROVE  MemoryTypeOK'
<1>1. /\ pages \subseteq Tags /\ data \in [Watched -> Values]
      /\ \A a \in Watched : PageOf(a) \notin pages => data[a] = 0
  BY MemoryType
<1> DEFINE gone == PagesOf(address, size)
<1>2. /\ pages' = pages \ gone
      /\ data' = [a \in Watched |-> IF PageOf(a) \in gone THEN 0 ELSE data[a]]
  BY DEF Unmap
<1> HIDE DEF gone
<1>3. data' \in [Watched -> Values] /\ pages' \subseteq Tags
  BY <1>1, <1>2, MemoryAssumption
<1>4. \A a \in Watched : PageOf(a) \notin pages' => data'[a] = 0
  BY <1>1, <1>2
<1> QED BY <1>3, <1>4 DEF MemoryTypeOK, PageOf

\* What the release of a block promises, unless a page is missed.
Released(p) == ChunksInv' /\ Pointers' = Pointers \ {p} /\ BlocksKept

LEMMA ReleaseStep ==
    ASSUME ChunksInv, misread = FALSE, NEW p \in Pointers, Release(p)
    PROVE  TypesInv' /\ (misread' \/ Released(p))
<1> DEFINE owned == pages \ stray
<1>1. MemoryTypeOK /\ stray \subseteq pages /\ Layout(chunks, owned) /\ Merged(chunks)
  BY DEF ChunksInv
<1>2. p \in chunks /\ p.allocated /\ WellPlaced(p) /\ stray' = stray
  BY <1>1 DEF Pointers, Layout, Release
<1>3. PageSize \in Nat \ {0}
  BY PagesInOrder
<1>4. CASE p.size > PageSize /\ FreeLarge(p)
  <2>1. p.address \in Tags /\ End(p) \in PageEnds
    BY <1>2, <1>3, <1>4, ChunkInPage DEF WellPlaced
  <2>2. Unmap(p.address, p.size) /\ chunks' = chunks \ {p} /\ misread' = misread
    BY <1>4 DEF FreeLarge
  <2>3. /\ MemoryTypeOK' /\ stray' \subseteq pages' /\ Layout(chunks', pages' \ stray')
        /\ BlocksKept
    BY <1>1, <1>2, <2>1, <2>2, UnmapStep
  <2>4. Merged(chunks') /\ Pointers' = Pointers \ {p}
    BY <1>1, <2>2 DEF Merged, Pointers
  <2>5. ChunksInv'
    BY <2>3, <2>4 DEF ChunksInv
  <2>6. misread' \in BOOLEAN
    BY <2>2
  <2>7. TypesInv'
    BY <2>5, <2>6, NextTypes
  <2> QED BY <2>3, <2>4, <2>5, <2>7 DEF Released
<1>5. CASE /\ p.size <= PageSize
           /\ LET hole  == Hole(p.address, p.size)
                  freed == (chunks \ {p}) \cup {hole}
                  table == MergeHoles(freed, hole)
                  page  == Hole(PageOf(p.address), PageSize)
              IN  \E address \in MergedAddresses(freed, hole) :
                     /\ GiveBackPage(table, address)
                     /\ misread' = (page \in table /\ address # page.address)
  <2> DEFINE hole == Hole(p.address, p.size)
             before == (chunks \ {p}) \cup {hole}
             T == MergeHoles(before, hole)
             page == Hole(PageOf(p.address), PageSize)
  <2>0. PICK address \in MergedAddresses(before, hole) :
           /\ GiveBackPage(T, address)
           /\ misread' = (page \in T /\ address # page.address)
    BY <1>5
  <2>1. /\ hole.address = p.address /\ hole.size = p.size /\ ~hole.allocated
        /\ End(hole) = End(p) /\ hole # p
        /\ page.address = PageOf(p.address) /\ page.size = PageSize /\ ~page.allocated
    BY <1>2 DEF Hole, End
  <2>2. /\ p.address \in Nat /\ p.size \in Nat /\ p.size > 0 /\ p.address \in Addresses
        /\ PageOf(p.address) \in Tags /\ PageOf(p.address) <= p.address
        /\ p.address < PageOf(p.address) + PageSize /\ End(p) <= PageOf(p.address) + PageSize
        /\ End(p) <= SpaceSize /\ End(p) = p.address + p.size
    BY <1>2, <1>5, ChunkInPage
  <2>3. WellPlaced(hole)
    <3>1. hole \in [address : Addresses, size : Nat \ {0}, allocated : BOOLEAN]
      BY <2>2 DEF Hole
    <3> HIDE DEF hole
    <3> QED BY <1>5, <2>1, <2>2, <3>1 DEF WellPlaced
  <2> HIDE DEF hole, page
  <2>4. Layout(before, owned)
    <3> DEFINE old == {p}
               new == {hole}
    <3>1. old \subseteq chunks /\ \A c \in new : WellPlaced(c)
      BY <1>2, <2>3
    <3>2. \A c, d \in new : c # d => Separate(c, d)
      OBVIOUS
    <3>3. \A a \in Addresses : (\E c \in new : Covers(c, a)) <=> (\E c \in old : Covers(c, a))
      BY <2>1 DEF Covers
    <3>4. Layout((chunks \ old) \cup new, owned)
      <4> HIDE DEF old, new, owned
      <4> QED BY <1>1, <3>1, <3>2, <3>3, Exchange
    <3> QED BY <3>4
  <2>5. \A h, d \in before : Follows(h, d) => h = hole \/ d = hole
    BY <1>1 DEF Merged
  <2>6. /\ Layout(T, owned) /\ \A h, d \in T : ~Follows(h, d)
        /\ \A c \in before : c.allocated => c \in T
        /\ \A c \in T :
              \/ c \in before /\ c # hole
              \/ ~c.allocated /\ c.address <= hole.address /\ End(hole) <= End(c)
    <3>1. hole \in before
      OBVIOUS
    <3> HIDE DEF before
    <3> QED BY <2>1, <2>4, <2>5, <3>1, MergeHolesFacts
  <2> HIDE DEF T
  <2>7. ASSUME NEW c \in T, ~c.allocated, c.size >= PageSize
        PROVE  c = page
    <3>1. ~(c \in before /\ c # hole)
      <4>1. c \in chunks => c.size < PageSize
        BY <1>1, <2>7 DEF Merged
      <4>2. WellPlaced(c)
        BY <2>6 DEF Layout
      <4> QED BY <1>3, <2>7, <4>1, <4>2, ChunkInPage
    <3>2. c.address <= p.address /\ End(p) <= End(c) /\ WellPlaced(c)
      BY <2>1, <2>6, <2>7, <3>1 DEF Layout
    <3>3. c.size = PageSize /\ End(c) <= PageOf(c.address) + PageSize /\ PageOf(c.address) <= c.address
          /\ End(c) = c.address + c.size /\ c.address \in Nat /\ PageOf(c.address) \in Tags
          /\ PageOf(c.address) \in Nat
      BY <1>3, <2>7, <3>2, ChunkInPage
    <3>4. c.address = PageOf(c.address) /\ c.address \in Tags
      BY <1>3, <3>3
    <3>5. p.address < c.address + PageSize
      BY <1>3, <2>2, <3>2, <3>3
    <3>6. PageOf(p.address) = c.address
      BY <2>2, <3>2, <3>4, <3>5, PageOfAddress
    <3>7. c = [address |-> c.address, size |-> c.size, allocated |-> FALSE]
      BY <2>7, <3>2 DEF WellPlaced
    <3> QED BY <3>3, <3>6, <3>7 DEF page, Hole
  <2>8. Pointers \ {p} = {c \in T : c.allocated}
    <3>1. \A c \in T : c.allocated => c \in chunks /\ c # p
      BY <2>1, <2>6
    <3>2. \A c \in chunks : c.allocated /\ c # p => c \in T
      BY <2>6
    <3> QED BY <3>1, <3>2 DEF Pointers
  <2>9. \/ /\ \A c \in lower_bound(T, address) : c.size # PageSize
           /\ chunks' = T /\ UNCHANGED memoryVars
        \/ \E c \in lower_bound(T, address) :
              /\ c.size = PageSize /\ ~c.allocated
              /\ Unmap(address, PageSize) /\ chunks' = T \ {c}
    BY <2>0 DEF GiveBackPage
  <2>10. lower_bound(T, address) \subseteq T
    BY DEF lower_bound
  <2>11. TypesInv'
    <3>1. MemoryTypeOK'
      <4>1. CASE UNCHANGED memoryVars
        BY <1>1, <4>1 DEF memoryVars, MemoryTypeOK
      <4>2. CASE Unmap(address, PageSize)
        BY <1>1, <4>2, UnmapTypes
      <4> QED BY <2>9, <4>1, <4>2
    <3>2. chunks' \subseteq T
      BY <2>9
    <3>3. ManagerTypeOK'
      BY <2>6, <3>2, ChunkTypes DEF ManagerTypeOK
    <3>4. stray' \subseteq Tags /\ misread' \in BOOLEAN
      BY <1>1, <1>2, <2>0 DEF MemoryTypeOK
    <3> QED BY <3>1, <3>3, <3>4 DEF TypesInv
  <2>12. CASE page \in T /\ address = page.address
    <3>1. \A c \in T : WellPlaced(c) /\ c.address \in Nat /\ c.size > 0
      BY <2>6, ChunkInPage DEF Layout
    <3>2. lower_bound(T, address) = {page}
      <4>1. page \in lower_bound(T, address)
        BY <2>12, <3>1 DEF lower_bound
      <4>2. ASSUME NEW c \in lower_bound(T, address) PROVE c = page
        <5>1. c \in T /\ c.address = page.address
          BY <2>12, <3>1 DEF lower_bound
        <5> QED BY <2>6, <2>12, <3>1, <5>1, ChunkInPage DEF Layout, Separate
      <4> QED BY <4>1, <4>2
    <3>3. Unmap(page.address, PageSize) /\ chunks' = T \ {page}
      BY <2>1, <2>9, <2>12, <3>2
    <3>4. page.address \in Tags /\ End(page) \in PageEnds /\ page.size = PageSize
      BY <2>1, <2>2, PagesInOrder DEF End
    <3>5. /\ MemoryTypeOK' /\ stray' \subseteq pages' /\ Layout(chunks', pages' \ stray')
          /\ BlocksKept
      BY <1>2, <2>6, <2>12, <3>3, <3>4, UnmapStep
    <3>6. \A d \in chunks' : ~d.allocated => d.size < PageSize
      <4> SUFFICES ASSUME NEW d \in chunks', ~d.allocated PROVE d.size < PageSize
        OBVIOUS
      <4>1. d \in T /\ d # page /\ WellPlaced(d)
        BY <2>6, <3>3 DEF Layout
      <4> QED BY <1>3, <2>7, <4>1, ChunkInPage
    <3>7. Merged(chunks')
      BY <2>6, <3>3, <3>6 DEF Merged
    <3>8. Pointers' = Pointers \ {p}
      BY <2>1, <2>8, <3>3 DEF Pointers
    <3> QED BY <2>11, <3>5, <3>7, <3>8 DEF ChunksInv, Released
  <2>13. CASE page \notin T
    <3>1. \A d \in T : ~d.allocated => d.size < PageSize
      <4> SUFFICES ASSUME NEW d \in T, ~d.allocated PROVE d.size < PageSize
        OBVIOUS
      <4>1. WellPlaced(d)
        BY <2>6 DEF Layout
      <4> QED BY <1>3, <2>7, <2>13, <4>1, ChunkInPage
    <3>2. chunks' = T /\ UNCHANGED memoryVars
      BY <1>3, <2>9, <2>10, <3>1
    <3>3. pages' = pages /\ data' = data
      BY <3>2 DEF memoryVars
    <3>4. Merged(chunks') /\ Layout(chunks', pages' \ stray')
      BY <1>2, <2>6, <3>1, <3>2, <3>3 DEF Merged
    <3>5. Pointers' = Pointers \ {p}
      BY <2>8, <3>2 DEF Pointers
    <3>6. MemoryTypeOK'
      BY <1>1, <3>3 DEF MemoryTypeOK
    <3> QED BY <1>1, <1>2, <2>11, <3>3, <3>4, <3>5, <3>6 DEF ChunksInv, BlocksKept, Released
  <2>14. CASE page \in T /\ address # page.address
    BY <2>0, <2>11, <2>14
  <2> QED BY <2>12, <2>13, <2>14
<1> QED BY <1>4, <1>5 DEF Release, Free

LEMMA StoreStep ==
    ASSUME ChunksInv, NEW a \in Watched, NEW v \in Values,
           StoreInBlock(a, v) \/ StoreOutside(a, v)
    PROVE  ChunksInv' /\ chunks' = chunks /\ data' = [data EXCEPT ![a] = v] /\ misread' = misread
<1>1. /\ pages \subseteq Tags /\ data \in [Watched -> Values] /\ stray \subseteq pages
      /\ \A w \in Watched : PageOf(w) \notin pages => data[w] = 0
      /\ Layout(chunks, pages \ stray) /\ Merged(chunks)
  BY MemoryType DEF ChunksInv
<1>2. /\ pages' = pages \cup {PageOf(a)} /\ data' = [data EXCEPT ![a] = v] /\ chunks' = chunks
      /\ misread' = misread
  BY DEF StoreInBlock, StoreOutside, Write, managerVars
<1>3. a \in Addresses /\ PageOf(a) \in Tags
  BY MemoryAssumption, PageOfAddress
<1>4. MemoryTypeOK'
  <2>1. pages' \subseteq Tags /\ data' \in [Watched -> Values]
    BY <1>1, <1>2, <1>3
  <2>2. \A w \in Watched : PageOf(w) \notin pages' => data'[w] = 0
    BY <1>1, <1>2
  <2> QED BY <2>1, <2>2 DEF MemoryTypeOK, PageOf
<1>5. pages' \ stray' = pages \ stray /\ stray' \subseteq pages'
  <2>1. CASE StoreInBlock(a, v)
    <3>1. PageOf(a) \in pages \ stray
      BY <1>1, <1>3, <2>1 DEF StoreInBlock, Layout, Pointers
    <3> QED BY <1>1, <1>2, <2>1, <3>1 DEF StoreInBlock
  <2>2. CASE StoreOutside(a, v)
    BY <1>1, <1>2, <2>2 DEF StoreOutside
  <2> QED BY <2>1, <2>2
<1> QED BY <1>1, <1>2, <1>4, <1>5 DEF ChunksInv
-----------------------------------------------------------------------------
(* Speculation.                                                            *)

\* What is in a copy is the last write, or was there during this speculation; and
\* a write without a copy was ignored because there were MaxPages copies.
SpecInv ==
    /\ SpecTypeOK /\ IsFiniteSet(copied)
    /\ last_write \in [Watched -> Values \cup {None}]
    /\ moments \in [Watched -> SUBSET Values]
    /\ \A a \in Watched :
          /\ data[a] \in moments[a]
          /\ SpecPageOf(a) \in copied =>
                \/ spec_data[a] = last_write[a]
                \/ last_write[a] = None /\ spec_data[a] \in moments[a]
          /\ SpecPageOf(a) \notin copied =>
                last_write[a] = None \/ Cardinality(copied) = MaxPages

LEMMA RememberStep ==
    ASSUME moments \in [Watched -> SUBSET Values], data' \in [Watched -> Values], Remember
    PROVE  /\ moments' \in [Watched -> SUBSET Values]
           /\ \A a \in Watched :
                 /\ data'[a] \in moments'[a]
                 /\ copied' # {} => moments[a] \subseteq moments'[a]
  BY DEF Remember

LEMMA OthersKeepSpecInv ==
    ASSUME SpecInv, data' \in [Watched -> Values], UNCHANGED <<specVars, last_write>>, Remember
    PROVE  SpecInv'
<1>1. copied' = copied /\ spec_data' = spec_data /\ last_write' = last_write
  BY DEF specVars
<1>2. /\ moments' \in [Watched -> SUBSET Values]
      /\ \A a \in Watched :
            /\ data'[a] \in moments'[a]
            /\ copied' # {} => moments[a] \subseteq moments'[a]
  BY RememberStep DEF SpecInv
<1> QED BY <1>1, <1>2 DEF SpecInv, SpecTypeOK

LEMMA ReadIsData ==
    ASSUME MemoryTypeOK, NEW a \in Watched
    PROVE  Read(a) = data[a]
  BY MemoryType DEF Read

LEMMA SpeculateStep ==
    ASSUME SpecInv, MemoryTypeOK, NEW a \in Watched, NEW v \in Values,
           Speculate(a, v), UNCHANGED memoryVars, Remember
    PROVE  SpecInv'
<1> DEFINE tag == SpecPageOf(a)
<1>1. /\ copied \subseteq {SpecPageOf(w) : w \in Watched} /\ IsFiniteSet(copied)
      /\ Cardinality(copied) <= MaxPages /\ spec_data \in [Watched -> Values]
      /\ last_write \in [Watched -> Values \cup {None}]
      /\ moments \in [Watched -> SUBSET Values]
      /\ Cardinality(copied) \in Nat /\ MaxPages \in Nat
  BY SpecMemAssumption, FS_CardinalityType DEF SpecInv, SpecTypeOK
<1>2. data' = data /\ data \in [Watched -> Values]
  BY MemoryType DEF memoryVars
<1>3. /\ moments' \in [Watched -> SUBSET Values]
      /\ \A w \in Watched :
            /\ data'[w] \in moments'[w]
            /\ copied' # {} => moments[w] \subseteq moments'[w]
  BY <1>1, <1>2, RememberStep
<1>4. /\ last_write' = [last_write EXCEPT ![a] = v]
      /\ last_write' \in [Watched -> Values \cup {None}]
  BY <1>1 DEF Speculate
<1>5. CASE /\ tag \in copied
           /\ spec_data' = [spec_data EXCEPT ![a] = v] /\ UNCHANGED copied
  <2>1. SpecTypeOK' /\ IsFiniteSet(copied')
    BY <1>1, <1>5 DEF SpecTypeOK
  <2>2. ASSUME NEW w \in Watched, SpecPageOf(w) \in copied'
        PROVE  \/ spec_data'[w] = last_write'[w]
               \/ last_write'[w] = None /\ spec_data'[w] \in moments'[w]
    <3>1. CASE w = a
      BY <1>1, <1>4, <1>5, <3>1
    <3>2. CASE w # a
      BY <1>1, <1>3, <1>4, <1>5, <2>2, <3>2 DEF SpecInv
    <3> QED BY <3>1, <3>2
  <2>3. ASSUME NEW w \in Watched, SpecPageOf(w) \notin copied'
        PROVE  last_write'[w] = None \/ Cardinality(copied') = MaxPages
    <3>1. w # a
      BY <1>5, <2>3
    <3> QED BY <1>1, <1>4, <1>5, <2>3, <3>1 DEF SpecInv
  <2> QED BY <1>3, <1>4, <2>1, <2>2, <2>3 DEF SpecInv
<1>6. CASE /\ tag \notin copied /\ Cardinality(copied) < MaxPages
           /\ copied' = copied \cup {tag}
           /\ spec_data' = [newPage(tag) EXCEPT ![a] = v]
  <2>1. IsFiniteSet(copied') /\ Cardinality(copied') = Cardinality(copied) + 1
    BY <1>1, <1>6, FS_AddElement
  <2>2. \A w \in Watched : newPage(tag)[w] = IF SpecPageOf(w) = tag THEN data[w] ELSE spec_data[w]
    BY ReadIsData DEF newPage
  <2>3. newPage(tag) \in [Watched -> Values]
    <3>1. \A w \in Watched : newPage(tag)[w] \in Values
      BY <1>1, <1>2, <2>2
    <3> QED BY <3>1 DEF newPage
  <2>4. SpecTypeOK'
    <3>1. spec_data' \in [Watched -> Values] /\ copied' \subseteq {SpecPageOf(w) : w \in Watched}
      BY <1>1, <1>6, <2>3
    <3>2. Cardinality(copied') <= MaxPages
      BY <1>1, <1>6, <2>1
    <3> QED BY <3>1, <3>2 DEF SpecTypeOK
  <2>5. \A w \in Watched : SpecPageOf(w) \notin copied => last_write[w] = None
    BY <1>1, <1>6 DEF SpecInv
  <2>6. ASSUME NEW w \in Watched, SpecPageOf(w) \in copied'
        PROVE  \/ spec_data'[w] = last_write'[w]
               \/ last_write'[w] = None /\ spec_data'[w] \in moments'[w]
    <3>1. CASE w = a
      BY <1>1, <1>4, <1>6, <2>3, <3>1
    <3>2. CASE w # a /\ SpecPageOf(w) \in copied
      <4>1. spec_data'[w] = spec_data[w] /\ last_write'[w] = last_write[w]
        BY <1>1, <1>4, <1>6, <2>2, <2>3, <3>2
      <4> QED BY <1>3, <1>6, <3>2, <4>1 DEF SpecInv
    <3>3. CASE w # a /\ SpecPageOf(w) \notin copied
      <4>1. spec_data'[w] = data[w] /\ last_write'[w] = None
        BY <1>1, <1>4, <1>6, <2>2, <2>3, <2>5, <2>6, <3>3
      <4> QED BY <1>2, <1>3, <4>1
    <3> QED BY <3>1, <3>2, <3>3
  <2>7. ASSUME NEW w \in Watched, SpecPageOf(w) \notin copied'
        PROVE  last_write'[w] = None
    BY <1>1, <1>4, <1>6, <2>5, <2>7
  <2> QED BY <1>3, <1>4, <2>1, <2>4, <2>6, <2>7 DEF SpecInv
<1>7. CASE tag \notin copied /\ Cardinality(copied) >= MaxPages /\ UNCHANGED specVars
  <2>1. copied' = copied /\ spec_data' = spec_data /\ Cardinality(copied) = MaxPages
    BY <1>1, <1>7 DEF specVars
  <2>2. SpecTypeOK' /\ IsFiniteSet(copied')
    BY <1>1, <2>1 DEF SpecTypeOK
  <2>3. ASSUME NEW w \in Watched, SpecPageOf(w) \in copied'
        PROVE  \/ spec_data'[w] = last_write'[w]
               \/ last_write'[w] = None /\ spec_data'[w] \in moments'[w]
    <3>1. w # a /\ last_write'[w] = last_write[w]
      BY <1>1, <1>4, <1>7, <2>1, <2>3
    <3> QED BY <1>3, <2>1, <2>3, <3>1 DEF SpecInv
  <2> QED BY <1>3, <1>4, <2>1, <2>2, <2>3 DEF SpecInv
<1> QED BY <1>5, <1>6, <1>7 DEF Speculate, SpecWrite

LEMMA EndSpeculationStep ==
    ASSUME SpecInv, MemoryTypeOK, EndSpeculation, UNCHANGED memoryVars, Remember
    PROVE  SpecInv'
<1>1. /\ copied' = {} /\ spec_data' = [a \in Watched |-> 0]
      /\ last_write' = [a \in Watched |-> None]
  BY DEF EndSpeculation, Clear
<1>2. data' = data /\ data \in [Watched -> Values]
  BY MemoryType DEF memoryVars
<1>3. /\ moments' \in [Watched -> SUBSET Values]
      /\ \A a \in Watched : data'[a] \in moments'[a]
  BY <1>2, RememberStep DEF SpecInv
<1>4. SpecTypeOK' /\ IsFiniteSet(copied')
  BY <1>1, FS_EmptySet, MemoryAssumption, SpecMemAssumption DEF SpecTypeOK
<1>5. last_write' \in [Watched -> Values \cup {None}]
  BY <1>1
<1>6. \A a \in Watched : SpecPageOf(a) \notin copied' /\ last_write'[a] = None
  BY <1>1
<1> QED BY <1>3, <1>4, <1>5, <1>6 DEF SpecInv
-----------------------------------------------------------------------------
(* The system.                                                             *)

SysInv == TypesInv /\ (misread \/ ChunksInv) /\ SpecInv /\ MmuInv

LEMMA InitSysInv == MemorySystemInit => SysInv
<1> SUFFICES ASSUME MemorySystemInit PROVE SysInv
  OBVIOUS
<1>1. /\ pages = {} /\ data = [a \in Watched |-> 0] /\ chunks = {} /\ stray = {}
      /\ misread = FALSE /\ copied = {} /\ spec_data = [a \in Watched |-> 0]
      /\ last_write = [a \in Watched |-> None] /\ moments = [a \in Watched |-> {0}]
  BY DEF MemorySystemInit, MemoryInit, SpecInit
<1>2. 0 \in Values /\ MaxPages \in Nat
  BY MemoryAssumption, SpecMemAssumption
<1>3. ChunksInv
  <2>1. MemoryTypeOK
    BY <1>1, <1>2 DEF MemoryTypeOK
  <2>2. Layout(chunks, pages \ stray) /\ Merged(chunks)
    BY <1>1 DEF Layout, Merged
  <2> QED BY <1>1, <2>1, <2>2 DEF ChunksInv
<1>4. SpecInv
  <2>1. SpecTypeOK /\ IsFiniteSet(copied)
    BY <1>1, <1>2, FS_EmptySet DEF SpecTypeOK
  <2>2. /\ last_write \in [Watched -> Values \cup {None}]
        /\ moments \in [Watched -> SUBSET Values]
    BY <1>1, <1>2
  <2>3. \A a \in Watched : data[a] \in moments[a] /\ SpecPageOf(a) \notin copied /\ last_write[a] = None
    BY <1>1
  <2> QED BY <2>1, <2>2, <2>3 DEF SpecInv
<1>5. MmuInv
  BY InitMmuInv DEF MemorySystemInit
<1>6. TypesInv
  BY <1>1, <1>3 DEF ChunksInv, TypesInv, ManagerTypeOK
<1> QED BY <1>3, <1>4, <1>5, <1>6 DEF SysInv

LEMMA MmuKeeps ==
    ASSUME MmuInv, UNCHANGED mmuVars
    PROVE  MmuInv'
  BY DEF mmuVars, MmuInv, MmuTypeOK, RecordedAddresses, TranslatePhysicalAddress, PhyToVirt

LEMMA GuestStep ==
    ASSUME ChunksInv, misread \in BOOLEAN, GuestNext
    PROVE  TypesInv' /\ (misread' \/ ChunksInv')
<1>1. CASE \E size \in Sizes, alignment \in Alignments : Alloc(size, alignment)
  <2>1. ChunksInv' /\ misread' \in BOOLEAN
    BY <1>1, AllocStep
  <2> QED BY <2>1, NextTypes
<1>2. CASE \E p \in Pointers : Release(p)
  BY <1>2, ReleaseStep DEF GuestNext, Released
<1>3. CASE \E a \in Watched, v \in Values : StoreInBlock(a, v) \/ StoreOutside(a, v)
  <2>1. ChunksInv' /\ misread' \in BOOLEAN
    BY <1>3, StoreStep
  <2> QED BY <2>1, NextTypes
<1> QED BY <1>1, <1>2, <1>3 DEF GuestNext

LEMMA ChunksStay ==
    ASSUME TypesInv, misread \/ ChunksInv, UNCHANGED <<memoryVars, managerVars, stray>>
    PROVE  TypesInv' /\ (misread' \/ ChunksInv')
<1>1. pages' = pages /\ data' = data /\ chunks' = chunks /\ misread' = misread /\ stray' = stray
  BY DEF memoryVars, managerVars
<1>2. TypesInv'
  BY <1>1 DEF TypesInv, MemoryTypeOK, ManagerTypeOK
<1>3. ChunksInv => ChunksInv'
  BY <1>1 DEF ChunksInv, MemoryTypeOK
<1> QED BY <1>1, <1>2, <1>3

LEMMA NextSysInv == SysInv /\ [MemorySystemNext]_sysVars => SysInv'
<1> SUFFICES ASSUME SysInv, [MemorySystemNext]_sysVars PROVE SysInv'
  OBVIOUS
<1>0. /\ TypesInv /\ (misread \/ ChunksInv) /\ SpecInv /\ MmuInv
      /\ MemoryTypeOK /\ misread \in BOOLEAN
  BY DEF SysInv, TypesInv
<1>1. CASE GuestNext /\ UNCHANGED mmuVars
  <2>1. TypesInv' /\ (misread' \/ ChunksInv')
    <3>1. ChunksInv
      BY <1>0, <1>1 DEF GuestNext
    <3> QED BY <1>0, <1>1, <3>1, GuestStep
  <2>2. data' \in [Watched -> Values]
    BY <2>1 DEF TypesInv, MemoryTypeOK
  <2>3. SpecInv'
    BY <1>0, <1>1, <2>2, OthersKeepSpecInv DEF GuestNext
  <2> QED BY <1>0, <1>1, <2>1, <2>3, MmuKeeps DEF SysInv
<1>2. CASE ContextNext /\ UNCHANGED mmuVars
  <2>1. UNCHANGED memoryVars /\ UNCHANGED <<memoryVars, managerVars, stray>> /\ Remember
    BY <1>2 DEF ContextNext
  <2>2. TypesInv' /\ (misread' \/ ChunksInv')
    BY <1>0, <2>1, ChunksStay
  <2>3. SpecInv'
    <3>1. CASE EndSpeculation
      BY <1>0, <2>1, <3>1, EndSpeculationStep
    <3>2. CASE \E a \in Watched, v \in Values : Speculate(a, v)
      BY <1>0, <2>1, <3>2, SpeculateStep
    <3> QED BY <1>2, <3>1, <3>2 DEF ContextNext
  <2> QED BY <1>0, <1>2, <2>2, <2>3, MmuKeeps DEF SysInv
<1>3. CASE MmuNext /\ UNCHANGED <<memoryVars, managerVars, specVars, history>>
  <2>1. TypesInv' /\ (misread' \/ ChunksInv')
    BY <1>0, <1>3, ChunksStay DEF history
  <2>2. SpecInv'
    BY <1>0, <1>3 DEF SpecInv, SpecTypeOK, specVars, memoryVars, history
  <2>3. MmuInv'
    BY <1>0, <1>3, TranslateStep DEF MmuNext
  <2> QED BY <2>1, <2>2, <2>3 DEF SysInv
<1>4. CASE UNCHANGED sysVars
  <2>1. TypesInv' /\ (misread' \/ ChunksInv')
    BY <1>0, <1>4, ChunksStay DEF sysVars, history
  <2>2. SpecInv'
    BY <1>0, <1>4 DEF sysVars, SpecInv, SpecTypeOK, specVars, memoryVars, history
  <2>3. MmuInv'
    BY <1>0, <1>4, MmuKeeps DEF sysVars
  <2> QED BY <2>1, <2>2, <2>3 DEF SysInv
<1> QED BY <1>1, <1>2, <1>3, <1>4 DEF MemorySystemNext

LEMMA SysInductive == MemorySystemSpec => []SysInv
  BY InitSysInv, NextSysInv, PTL DEF MemorySystemSpec

LEMMA ChunkPages ==
    ASSUME NEW table, NEW owned, Layout(table, owned), NEW c \in table,
           NEW t \in PagesOf(c.address, c.size)
    PROVE  t \in owned
<1>1. WellPlaced(c) /\ t \in Tags
  BY DEF Layout, PagesOf
<1>2. t < End(c) /\ c.address < t + PageSize
  BY <1>1, ChunkInPage, PagesOfInterval
<1>3. t \in Addresses /\ t \in Nat /\ PageSize \in Nat \ {0} /\ t < t + PageSize
  BY <1>1, PagesInOrder
<1>4. CASE t <= c.address
  <2>1. PageOf(c.address) = t /\ Covers(c, c.address) /\ c.address \in Addresses
    BY <1>1, <1>2, <1>3, <1>4, ChunkInPage, PageOfAddress DEF Covers
  <2> QED BY <2>1 DEF Layout
<1>5. CASE c.address < t
  <2>1. Covers(c, t)
    BY <1>1, <1>2, <1>3, <1>5, CoveredAddresses, ChunkInPage
  <2>2. PageOf(t) = t
    BY <1>1, <1>3, PageOfAddress
  <2> QED BY <1>3, <2>1, <2>2 DEF Layout
<1> QED BY <1>1, <1>3, <1>4, <1>5, ChunkInPage

LEMMA CoveredPage ==
    ASSUME NEW c, WellPlaced(c), NEW a \in Addresses, Covers(c, a)
    PROVE  PageOf(a) \in PagesOf(c.address, c.size)
<1>1. PageOf(a) \in Tags /\ PageOf(a) <= a /\ a < PageOf(a) + PageSize /\ PageOf(a) \in Nat
  BY PageOfAddress, PagesInOrder
<1>2. c.address <= a /\ a < End(c)
  BY CoveredAddresses
<1>3. a \in Nat /\ PageSize \in Nat
  BY PagesInOrder
<1>4. PageOf(a) < End(c) /\ c.address < PageOf(a) + PageSize
  BY <1>1, <1>2, <1>3, ChunkInPage
<1> QED BY <1>1, <1>4, ChunkInPage, PagesOfInterval

\* A page with chunks has a pointer.
LEMMA PointerInPage ==
    ASSUME NEW table, NEW owned, Layout(table, owned), Merged(table), NEW t \in owned
    PROVE  \E p \in table : p.allocated /\ t \in PagesOf(p.address, p.size)
<1>1. t \in Tags /\ t \in Addresses /\ t \in Nat /\ PageSize \in Nat \ {0} /\ t < t + PageSize
  BY PagesInOrder DEF Layout
<1>2. PageOf(t) = t
  BY <1>1, PageOfAddress
<1>3. PICK c \in table : Covers(c, t)
  BY <1>1, <1>2 DEF Layout
<1>4. WellPlaced(c)
  BY DEF Layout
<1>5. CASE c.allocated
  BY <1>1, <1>2, <1>3, <1>4, <1>5, CoveredPage
<1>6. CASE ~c.allocated
  <2>1. /\ c.size < PageSize /\ c.size \in Nat /\ c.address \in Nat /\ c.address <= t /\ t < End(c)
        /\ End(c) = c.address + c.size /\ End(c) <= SpaceSize /\ End(c) \in Nat
        /\ PageOf(c.address) \in Tags /\ PageOf(c.address) <= c.address
        /\ End(c) <= PageOf(c.address) + PageSize /\ PageOf(c.address) \in Nat
    BY <1>1, <1>3, <1>4, <1>6, ChunkInPage, CoveredAddresses DEF Merged
  <2>2. PageOf(t) = PageOf(c.address)
    BY <1>1, <2>1, PageOfAddress
  <2>3. c.address = t
    BY <1>2, <2>1, <2>2
  <2>4. End(c) < t + PageSize /\ t <= End(c)
    BY <1>1, <2>1, <2>3
  <2>5. End(c) \in Addresses /\ PageOf(End(c)) = t
    <3>1. t + PageSize <= SpaceSize /\ SpaceSize \in Nat
      BY <1>1, PagesInOrder
    <3>2. End(c) \in Addresses
      BY <1>1, <2>1, <2>4, <3>1, PagesInOrder
    <3> QED BY <1>1, <2>4, <3>2, PageOfAddress
  <2>6. PICK e \in table : Covers(e, End(c))
    BY <2>5 DEF Layout
  <2>7. WellPlaced(e) /\ e # c /\ e.address <= End(c) /\ End(c) < End(e)
    <3>1. WellPlaced(e)
      BY DEF Layout
    <3> QED BY <2>1, <2>5, <2>6, <3>1, CoveredAddresses
  <2>8. Separate(c, e)
    BY <2>7 DEF Layout
  <2>9. e.address = End(c)
    BY <1>4, <2>1, <2>7, <2>8, ChunkInPage DEF Separate
  <2>10. e.allocated
    BY <1>2, <1>6, <2>2, <2>5, <2>9 DEF Merged, Follows, isInSamePage
  <2> QED BY <2>5, <2>6, <2>7, <2>10, CoveredPage
<1> QED BY <1>5, <1>6

LEMMA PagesUsed == ChunksInv \/ misread => PagesAreUsed
<1> SUFFICES ASSUME ChunksInv, ~misread PROVE PagesAreUsed
  BY DEF PagesAreUsed
<1> DEFINE owned == pages \ stray
<1>1. Layout(chunks, owned) /\ Merged(chunks)
  BY DEF ChunksInv
<1>2. \A c \in chunks : WellPlaced(c)
  BY <1>1 DEF Layout
<1> HIDE DEF owned
<1>3. \A c \in chunks : PagesOf(c.address, c.size) \subseteq owned
  BY <1>1, ChunkPages
<1>4. \A t \in owned : \E p \in chunks : p.allocated /\ t \in PagesOf(p.address, p.size)
  BY <1>1, PointerInPage
<1>5. owned = UNION {PagesOf(p.address, p.size) : p \in Pointers}
  BY <1>3, <1>4 DEF Pointers
<1>6. UNION {PagesOf(h.address, h.size) : h \in Holes} \subseteq owned
  BY <1>3 DEF Holes
<1>7. ASSUME NEW a \in Addresses
      PROVE  Cardinality({c \in chunks : Covers(c, a)}) = IF PageOf(a) \in owned THEN 1 ELSE 0
  <2>1. CASE PageOf(a) \in owned
    <3>1. PICK c \in chunks : Covers(c, a)
      BY <1>1, <2>1 DEF Layout
    <3>2. {d \in chunks : Covers(d, a)} = {c}
      BY <1>1, <3>1, OneChunk
    <3>3. Cardinality({c}) = 1
      BY FS_Singleton
    <3> QED BY <2>1, <3>2, <3>3
  <2>2. CASE PageOf(a) \notin owned
    <3>1. {c \in chunks : Covers(c, a)} = {}
      BY <1>1, <2>2 DEF Layout
    <3> QED BY <2>2, <3>1, FS_EmptySet
  <2> QED BY <2>1, <2>2
<1>8. \A h \in Holes : HoleAfter(chunks, h) = {}
  <2> SUFFICES ASSUME NEW h \in Holes PROVE HoleAfter(chunks, h) = {}
    OBVIOUS
  <2>1. h \in chunks /\ ~h.allocated
    BY DEF Holes
  <2>2. HoleAfter(chunks, h) = {d \in chunks : Follows(h, d)}
    BY <1>1, <2>1, NextChunk
  <2> QED BY <1>1, <2>1, <2>2 DEF Merged
<1> QED BY <1>5, <1>6, <1>7, <1>8 DEF PagesAreUsed, owned

LEMMA SystemTypes == SysInv => MemorySystemTypeOK
<1> SUFFICES ASSUME SysInv PROVE MemorySystemTypeOK
  OBVIOUS
<1>1. MemoryTypeOK /\ ManagerTypeOK /\ SpecTypeOK /\ MmuTypeOK
  BY DEF SysInv, TypesInv, SpecInv, MmuInv
<1>2. /\ last_write \in [Watched -> Values \cup {None}]
      /\ moments \in [Watched -> SUBSET Values] /\ stray \subseteq Tags /\ misread \in BOOLEAN
  BY DEF SysInv, TypesInv, SpecInv
<1> QED BY <1>1, <1>2 DEF MemorySystemTypeOK

LEMMA SpeculationReads == SysInv => SpeculativeReads
<1> SUFFICES ASSUME SysInv, NEW a \in Watched
             PROVE  \/ SpecRead(a) = last_write[a]
                    \/ last_write[a] = None /\ SpecRead(a) \in moments[a]
                    \/ /\ Cardinality(copied) = MaxPages /\ SpecPageOf(a) \notin copied
                       /\ SpecRead(a) = Read(a)
  BY DEF SpeculativeReads
<1>1. Read(a) = data[a]
  BY ReadIsData DEF SysInv, TypesInv
<1> QED BY <1>1 DEF SysInv, SpecInv, SpecRead

\* Whatever the guest allocates, frees and stores, and whatever a context does
\* meanwhile, the chunks stay in the address space.
THEOREM MemorySystemTypeCorrect == MemorySystemSpec => []MemorySystemTypeOK
  BY SysInductive, SystemTypes, PTL

\* MergeHoles leaves no hole next to another, so that a page without a block is
\* one hole, which Free gives back (Manager.cc:334).  All this holds until a page is
\* missed by the address that MergeHoles reads from a Chunk that is freed.
THEOREM AllPagesAreUsed == MemorySystemSpec => []PagesAreUsed
<1>1. SysInv => PagesAreUsed
  BY PagesUsed DEF SysInv
<1> QED BY <1>1, SysInductive, PTL

\* A speculative read gives the last write of the speculation, or what was there
\* during it, or, for want of copies, what is there now (SpecMem.h:30).
THEOREM ReadsOfSpeculation == MemorySystemSpec => []SpeculativeReads
  BY SysInductive, SpeculationReads, PTL

\* The record of the Mmu, in the system.
THEOREM SystemRecordsAddresses == MemorySystemSpec => []RecordedAddresses
<1>1. SysInv => RecordedAddresses
  BY DEF SysInv, MmuInv
<1> QED BY <1>1, SysInductive, PTL
-----------------------------------------------------------------------------
(* The Manager implements Allocator.                                       *)

BlockOf(p) == [address |-> p.address, size |-> p.size]

InBlocks(ps) == {a \in Watched : \E p \in ps : Covers(p, a)}

\* The two variables of Allocator.
blocks == {[address |-> p.address, size |-> p.size] : p \in Pointers}
contents == [a \in {w \in Watched : \E p \in Pointers : Covers(p, w)} |-> data[a]]

LEMMA BlocksInUse ==
    ASSUME NEW ps
    PROVE  Abstract!InUse({[address |-> p.address, size |-> p.size] : p \in ps}) = InBlocks(ps)
<1>1. ASSUME NEW a, NEW p PROVE a \in Abstract!Extent(BlockOf(p)) <=> Covers(p, a)
  BY DEF Abstract!Extent, BlockOf, Covers
<1>2. {[address |-> p.address, size |-> p.size] : p \in ps} = {BlockOf(p) : p \in ps}
  BY DEF BlockOf
<1>3. Abstract!InUse({BlockOf(p) : p \in ps}) = InBlocks(ps)
  BY <1>1 DEF Abstract!InUse, InBlocks
<1> QED BY <1>2, <1>3

LEMMA PointersApart ==
    ASSUME NEW table, NEW owned, Layout(table, owned), NEW p \in table, p.allocated
    PROVE  /\ WellPlaced(p) /\ p = Pointer(p.address, p.size)
           /\ \A q \in table : q # p => Separate(p, q)
<1>1. WellPlaced(p)
  BY DEF Layout
<1>2. p = [address |-> p.address, size |-> p.size, allocated |-> TRUE]
  BY <1>1 DEF WellPlaced
<1> QED BY <1>1, <1>2 DEF Layout, Pointer

LEMMA InitAbstract == MemorySystemInit => Abstract!AllocatorInit
<1> SUFFICES ASSUME MemorySystemInit PROVE Abstract!AllocatorInit
  OBVIOUS
<1>1. Pointers = {}
  BY DEF MemorySystemInit, Pointers
<1>2. blocks = {} /\ contents = [a \in {} |-> 0]
  BY <1>1 DEF blocks, contents
<1> QED BY <1>2 DEF Abstract!AllocatorInit, blocks, contents, MemorySystemInit

LEMMA NewIsAbstract ==
    ASSUME ChunksInv, ChunksInv', NEW size, NEW alignment, NewBlock(size, alignment)
    PROVE  Abstract!New(size, alignment)
<1>1. data' = data
  BY DEF NewBlock
<1>2. PICK p \in Pointers' :
         /\ p \notin chunks /\ Pointers' = Pointers \cup {p}
         /\ p.size >= size /\ p.address % alignment = 0
  BY DEF NewBlock
<1> DEFINE b == BlockOf(p)
<1>3. WellPlaced(p) /\ \A q \in Pointers' : WellPlaced(q) /\ (q # p => Separate(p, q))
  BY <1>2 DEF ChunksInv, Layout, Pointers
<1>4. b.address = p.address /\ b.size = p.size
  BY DEF BlockOf
<1>5. blocks' = blocks \cup {b} /\ b \in blocks'
  BY <1>2 DEF blocks, BlockOf
<1>6. Abstract!Extent(b) \subseteq Addresses
  BY <1>3, <1>4, ChunkInPage, PagesInOrder DEF Abstract!Extent
<1>7. ASSUME NEW c \in blocks PROVE Abstract!Extent(b) \cap Abstract!Extent(c) = {}
  <2>1. PICK q \in Pointers : c = BlockOf(q)
    BY DEF blocks, BlockOf
  <2>2. q # p /\ q \in Pointers'
    BY <1>2 DEF Pointers
  <2>3. WellPlaced(q) /\ Separate(p, q)
    BY <1>3, <2>2
  <2>4. c.address = q.address /\ c.size = q.size
    BY <2>1 DEF BlockOf
  <2> QED BY <1>3, <1>4, <2>3, <2>4, ChunkInPage DEF Abstract!Extent, Separate
<1>8. DOMAIN contents' = Abstract!InUse(blocks')
  <2>1. Abstract!InUse(blocks') = InBlocks(Pointers')
    BY BlocksInUse DEF blocks
  <2> QED BY <2>1 DEF contents, InBlocks
<1>9. ASSUME NEW a \in DOMAIN contents PROVE contents'[a] = contents[a]
  BY <1>1, <1>2, <1>9 DEF contents
<1> QED BY <1>2, <1>4, <1>5, <1>6, <1>7, <1>8, <1>9 DEF Abstract!New, blocks, contents

LEMMA DeleteIsAbstract ==
    ASSUME ChunksInv, NEW p \in Pointers, Pointers' = Pointers \ {p}, BlocksKept
    PROVE  Abstract!Delete(BlockOf(p)) /\ BlockOf(p) \in blocks
<1>1. \A q \in Pointers : q = Pointer(q.address, q.size)
  BY PointersApart DEF ChunksInv, Pointers
<1>2. \A q \in Pointers : BlockOf(q) = BlockOf(p) => q = p
  BY <1>1 DEF BlockOf
<1>3. blocks = {BlockOf(q) : q \in Pointers} /\ blocks' = {BlockOf(q) : q \in Pointers'}
  BY DEF blocks, BlockOf
<1>4. blocks' = blocks \ {BlockOf(p)}
  BY <1>2, <1>3
<1>5. Abstract!InUse(blocks') = InBlocks(Pointers')
  BY BlocksInUse DEF blocks
<1>6. \A a \in InBlocks(Pointers') : data'[a] = data[a] /\ contents[a] = data[a]
  BY DEF BlocksKept, InBlocks, contents
<1>7. contents' = [a \in InBlocks(Pointers') |-> data'[a]]
  BY DEF contents, InBlocks
<1>8. contents' = [a \in Abstract!InUse(blocks') |-> contents[a]]
  BY <1>5, <1>6, <1>7
<1> QED BY <1>3, <1>4, <1>8 DEF Abstract!Delete, blocks, contents

LEMMA StoreIsAbstract ==
    ASSUME NEW a \in Watched, NEW v \in Values, MemoryTypeOK, chunks' = chunks,
           data' = [data EXCEPT ![a] = v]
    PROVE  \/ a \in Abstract!InUse(blocks) /\ Abstract!Store(a, v)
           \/ blocks' = blocks /\ contents' = contents
<1>1. Pointers' = Pointers /\ blocks' = blocks
  BY DEF Pointers, blocks
<1>2. contents = [w \in InBlocks(Pointers) |-> data[w]] /\ contents' = [w \in InBlocks(Pointers) |-> data'[w]]
  BY <1>1 DEF contents, InBlocks
<1>3. data \in [Watched -> Values] /\ InBlocks(Pointers) \subseteq Watched
  BY MemoryType DEF InBlocks
<1>4. CASE a \in InBlocks(Pointers)
  <2>1. contents' = [contents EXCEPT ![a] = v]
    BY <1>2, <1>3, <1>4
  <2>2. a \in Abstract!InUse(blocks)
    BY <1>4, BlocksInUse DEF blocks
  <2> QED BY <1>1, <2>1, <2>2 DEF Abstract!Store, blocks, contents
<1>5. CASE a \notin InBlocks(Pointers)
  <2>1. contents' = contents
    BY <1>2, <1>3, <1>5
  <2> QED BY <1>1, <2>1
<1> QED BY <1>4, <1>5

LEMMA NextAbstract ==
    ASSUME SysInv, SysInv', [MemorySystemNext]_sysVars
    PROVE  \/ Abstract!AllocatorNext
           \/ blocks' = blocks /\ contents' = contents /\ misread' = misread
<1>1. MemoryTypeOK /\ (misread \/ ChunksInv) /\ (misread' \/ ChunksInv')
  BY DEF SysInv, TypesInv
<1>2. ASSUME UNCHANGED <<memoryVars, managerVars>>
      PROVE  blocks' = blocks /\ contents' = contents /\ misread' = misread
  BY <1>2 DEF memoryVars, managerVars, blocks, contents, Pointers
<1>3. CASE GuestNext
  <2>0. ~misread /\ misread = FALSE /\ ChunksInv
    BY <1>1, <1>3 DEF GuestNext, SysInv, TypesInv
  <2>1. ASSUME NEW size \in Sizes, NEW alignment \in Alignments, Alloc(size, alignment)
        PROVE  Abstract!AllocatorNext
    <3>1. ChunksInv' /\ NewBlock(size, alignment) /\ misread' = misread
      BY <2>0, <2>1, AllocStep
    <3>2. Abstract!New(size, alignment)
      BY <2>0, <3>1, NewIsAbstract
    <3> QED BY <2>0, <3>1, <3>2 DEF Abstract!AllocatorNext, Abstract!Promised
  <2>2. ASSUME NEW p \in Pointers, Release(p) PROVE Abstract!AllocatorNext
    <3>1. misread' \in BOOLEAN /\ (misread' \/ Released(p))
      BY <2>0, <2>2, ReleaseStep DEF TypesInv
    <3>2. CASE misread'
      <4>1. blocks # {} /\ misread' = TRUE
        BY <2>2, <3>1, <3>2 DEF blocks
      <4> QED BY <4>1 DEF Abstract!AllocatorNext, Abstract!Break, blocks
    <3>3. CASE ~misread'
      <4>1. Abstract!Delete(BlockOf(p)) /\ BlockOf(p) \in blocks
        BY <2>0, <3>1, <3>3, DeleteIsAbstract DEF Released
      <4>2. misread' = misread
        BY <2>0, <3>1, <3>3 DEF SysInv, TypesInv
      <4> QED BY <2>0, <4>1, <4>2 DEF Abstract!AllocatorNext, Abstract!Promised, blocks
    <3> QED BY <3>2, <3>3
  <2>3. ASSUME NEW a \in Watched, NEW v \in Values, StoreInBlock(a, v) \/ StoreOutside(a, v)
        PROVE  \/ Abstract!AllocatorNext
               \/ blocks' = blocks /\ contents' = contents /\ misread' = misread
    <3>1. chunks' = chunks /\ data' = [data EXCEPT ![a] = v] /\ misread' = misread
      BY <2>0, <2>3, StoreStep
    <3>2. \/ a \in Abstract!InUse(blocks) /\ Abstract!Store(a, v)
          \/ blocks' = blocks /\ contents' = contents
      BY <1>1, <3>1, StoreIsAbstract
    <3> QED BY <2>0, <3>1, <3>2 DEF Abstract!AllocatorNext, Abstract!Promised, blocks
  <2> QED BY <1>3, <2>1, <2>2, <2>3 DEF GuestNext
<1>4. CASE ContextNext
  BY <1>2, <1>4 DEF ContextNext
<1>5. CASE UNCHANGED <<memoryVars, managerVars, specVars, history>>
  BY <1>2, <1>5
<1>6. CASE UNCHANGED sysVars
  BY <1>2, <1>6 DEF sysVars
<1> QED BY <1>3, <1>4, <1>5, <1>6 DEF MemorySystemNext

\* The Manager implements Allocator over the pages of a Memory: every step of the
\* guest, of a speculating context and of the Mmu is an allocation, a release or a
\* store of Allocator, or leaves its blocks and their contents alone.  Allocator
\* breaks in one case: when MergeHoles misses a page.
THEOREM ManagerImplementsAllocator == MemorySystemSpec => ImplementsAllocator
<1>1. SysInv /\ SysInv' /\ [MemorySystemNext]_sysVars
         => [Abstract!AllocatorNext]_<<blocks, contents, misread>>
  BY NextAbstract
<1>2. SysInv /\ SysInv' /\ [MemorySystemNext]_sysVars
         => [Abstract!AllocatorNext]_(Abstract!allocatorVars)
  BY <1>1 DEF blocks, contents, Abstract!allocatorVars
<1> QED
  BY <1>2, InitAbstract, SysInductive, PTL
     DEF MemorySystemSpec, ImplementsAllocator, Abstract!AllocatorSpec
=============================================================================
