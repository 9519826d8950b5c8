-------------------------- MODULE CoherenceCopies --------------------------
(***************************************************************************)
(* Which caches have a copy of a block in the NMOESI protocol, and which   *)
(* of them may write it, for loads and stores on any hierarchy of modules, *)
(* with any number of ways, blocks and accesses.                           *)
(***************************************************************************)
EXTENDS Coherence_proofs

IsUpDown(f) == IsRequest(f) /\ f.dir = "updown"
Revokes(f) == f.kind = "write_request" /\ f.dir = "downup"

\* What is true of a frame by itself: of a request, whose way holds the block that
\* it asks for; of find_and_lock, which evicts a block only after a miss; and of an
\* eviction, which has found its block once it works on the lower module.
RequestFlow(f) ==
    /\ f.way # 0 => f.tag = f.addr
    /\ f.dir = "updown" => f.target = Low[f.mod] /\ ~f.notFound
    /\ f.dir = "downup" => f.mod = Low[f.target] /\ ~f.error /\ (f.way # 0 => f.state # "I")

FindFlow(f) ==
    /\ f.pc \in {"find", "wait"} => ~f.hit
    /\ f.pc \in {"find", "wait", "action"} => ~f.error /\ ~f.eviction
    /\ f.pc = "call" => f.eviction
    /\ f.error => f.eviction
    /\ f.eviction => ~f.hit
    /\ f.dir = "downup" /\ f.pc \in {"call", "action", "finish"} => f.hit

EvictFlow(f) ==
    /\ ~f.notFound
    /\ f.pc # "evict" => f.srcWay \in Ways(f.mod)
    /\ f.reply # "None" => f.mod # MainMemory /\ f.target = Low[f.mod]
    /\ Processing(f) \/ f.pc = "reply" => f.reply # "None"
    /\ f.pc \in {"evict", "invalid"} => f.reply = "None"
    /\ f.pc = "invalid" => f.way = f.srcWay
    /\ Processing(f) /\ ~f.error => f.tag = f.srcTag /\ f.state # "I"

FlowOK(f) ==
    /\ IsRequest(f) => RequestFlow(f)
    /\ f.kind = "find_and_lock" => FindFlow(f)
    /\ f.kind = "evict" => EvictFlow(f)
    /\ f.pc \in {"miss", "updown_miss"} => f.state = "I"

\* What frame f and its caller g agree on: the block, the way, and errors.
FindLink(f, g) ==
    /\ IsRequest(g) => f.addr = g.addr /\ (g.dir = "downup" => f.blocking)
    /\ g.kind = "evict" => g.reply # "None" /\ f.addr = g.srcTag /\ f.dir = "downup"

EvictLink(f, g) ==
    /\ g.way = IF f.pc = "evict" THEN f.way ELSE f.srcWay
    /\ g.error <=> f.pc = "reply" /\ f.error

InvalidateLink(f, g) ==
    /\ g.kind = "evict" => g.reply = "None" /\ f.way = g.srcWay /\ f.except = NoModule
    /\ g.kind = "write_request" => f.mod = g.target /\ f.way = g.way /\ f.except = g.mod

RequestLink(f, g) ==
    /\ f.addr = g.tag
    /\ f.mod = IF Revokes(f) THEN g.mod ELSE Where(g)
    /\ f.kind = "read_request" => (f.dir = "updown" <=> g.state = "I")

LinkOK(f, g) ==
    /\ f.kind = "find_and_lock" => FindLink(f, g)
    /\ f.kind = "evict" => EvictLink(f, g)
    /\ f.kind = "invalidate" => InvalidateLink(f, g)
    /\ IsRequest(f) => RequestLink(f, g)

Calls(F) ==
    /\ \A p \in DOMAIN F : FlowOK(F[p])
    /\ \A p, q \in DOMAIN F : Child(q, p) => LinkOK(F[q], F[p])

\* The states of a valid block, and of one that may be written.
Valid == BlockStates \ {"I"}
Exclusive == {"E", "M"}
Rights == {Valid, Exclusive}

\* What a frame knows of block b and entry e: one that holds the lock, after
\* find_and_lock or in it; an eviction; and an invalidation.
HeldOK(f, b) ==
    /\ b.transient = f.tag
    /\ b.state # "I" => b.tag = f.tag
    /\ f.state # "I" => b.state # "I"
    /\ f.state \in Exclusive => b.state \in Exclusive
    /\ f.kind = "read_request" =>
          /\ f.pc = "updown_finish" => b.state # "I"
          /\ f.pc # "updown_finish" /\ f.state = "I" => b.state = "I"

FoundOK(f, b) ==
    /\ b.transient = f.tag
    /\ f.hit => b.state = f.state /\ b.state # "I" /\ b.tag = f.tag
    /\ ~f.hit /\ f.pc = "action" => b.state = f.state
    /\ ~f.hit /\ f.pc = "finish" /\ ~f.error => b.state = "I"
    /\ ~f.hit /\ f.pc = "finish" /\ ~f.eviction => f.state = "I"

EvictedOK(f, b, e) ==
    /\ b.tag = f.srcTag
    /\ f.reply # "None" => b.state # "I"
    /\ f.reply # "None" \/ f.pc = "invalid" => e.sharers = {}

InvalidatedOK(f, b, e) ==
    /\ b.tag = f.tag
    /\ f.state = "I" <=> b.state = "I"
    /\ f.state \in Exclusive <=> b.state \in Exclusive
    /\ e.sharers \subseteq {f.except}

\* Frame f works on, or has called the chains that work on, way w of module m.
Leans(f, m, w) ==
    \/ Holds(f) /\ Where(f) = m /\ f.way = w
    \/ f.kind = "evict" /\ f.pc # "evict" /\ f.mod = m /\ f.srcWay = w
    \/ f.kind = "invalidate" /\ f.mod = m /\ f.way = w

LeanOK(f, c, d) ==
    /\ Holds(f) /\ f.kind # "find_and_lock" => HeldOK(f, c[Where(f)][f.way])
    /\ Holds(f) /\ f.kind = "find_and_lock" => FoundOK(f, c[f.mod][f.way])
    /\ f.kind = "evict" /\ f.pc # "evict" =>
          EvictedOK(f, c[f.mod][f.srcWay], d[f.mod][f.srcWay])
    /\ f.kind = "invalidate" /\ f.pc = "finish" =>
          InvalidatedOK(f, c[f.mod][f.way], d[f.mod][f.way])

Leaning(F, c, d) == \A p \in DOMAIN F : LeanOK(F[p], c, d)

\* A write request that has invalidated the other sharers of its block.
Cleared(F, p) ==
    /\ F[p].kind = "write_request"
    /\ \/ F[p].pc \in {"exclusive", "updown_finish"}
       \/ F[p].pc = "call" /\ \E q \in DOMAIN F : Child(q, p) /\ IsUpDown(F[q])

Alone(F, d) ==
    \A p \in DOMAIN F :
        Cleared(F, p) => d[F[p].target][F[p].way].sharers \subseteq {F[p].mod}

\* Module::FindBlock finds a block in one way at most.
InMatches(c, d, m, t, w) ==
    \/ c[m][w].tag = t /\ c[m][w].state # "I"
    \/ c[m][w].transient = t /\ d[m][w].lock # 0

OneWayEach(c, d) ==
    \A m \in Modules, t \in Tag : \A v, w \in Ways(m) :
        InMatches(c, d, m, t, v) /\ InMatches(c, d, m, t, w) => v = w

\* The sharers and the owner of an entry are modules above.
Above(d) ==
    \A m \in Modules : \A w \in Ways(m) :
        /\ \A i \in d[m][w].sharers : Low[i] = m
        /\ d[m][w].owner # NoModule => Low[d[m][w].owner] = m

\* Way w of module m is given back to the lower module: the reply is on its way.
IsLost(f) == f.kind = "evict" /\ f.pc = "reply" /\ ~f.error
Lost(F, m, w) == \E p \in DOMAIN F : IsLost(F[p]) /\ F[p].mod = m /\ F[p].srcWay = w

\* Module m has been asked to give up the block in way v of module l.
Revoking(f) == Revokes(f) /\ f.pc # "reply" /\ ~f.notFound
Asked(F, l, v, m) ==
    \E p, q \in DOMAIN F :
        /\ Child(p, q) /\ Revoking(F[p]) /\ F[p].target = m
        /\ F[q].kind = "invalidate" /\ F[q].mod = l /\ F[q].way = v

\* The module of frame p has got the block that p asked for, or may write it.
Ready(f) ==
    \/ f.pc \in {"miss", "updown_miss"}
    \/ f.kind = "store" /\ f.pc = "unlock"
    \/ f.kind = "write_request" /\ f.pc = "updown_finish"
Answered(F, p) ==
    \/ Ready(F[p])
    \/ F[p].pc = "call" /\ \E q \in DOMAIN F : Child(q, p) /\ IsUpDown(F[q]) /\ F[q].pc = "reply"

Granted(F, p, K) ==
    /\ Holds(F[p]) /\ ~F[p].error /\ Answered(F, p)
    /\ K = Exclusive => F[p].kind \in {"store", "write_request"} \/ ~F[p].shared

\* Module m has block t in a state of K, or is about to have it.
Has(F, c, m, t, K) == \E w \in Ways(m) : c[m][w].tag = t /\ c[m][w].state \in K /\ ~Lost(F, m, w)
Due(F, m, t, K) == \E p \in DOMAIN F : Granted(F, p, K) /\ Where(F[p]) = m /\ F[p].tag = t
Needs(F, c, m, t, K) == Has(F, c, m, t, K) \/ Due(F, m, t, K)

\* Way v of module l, with entry e and block b, is where module m has block t from.
Serves(F, b, e, l, v, m, t, K) ==
    /\ b.tag = t /\ b.state # "I"
    /\ \/ Asked(F, l, v, m)
       \/ m \in e.sharers /\ (K = Exclusive => e.sharers = {m} /\ e.owner = m)

Covered(F, c, d) ==
    \A K \in Rights, m \in Modules \ {MainMemory}, t \in Tag :
        Needs(F, c, m, t, K) =>
            \E v \in Ways(Low[m]) : Serves(F, c[Low[m]][v], d[Low[m]][v], Low[m], v, m, t, K)

\* A block that a cache may write is in no other cache above the same module.
Single(F, c) ==
    \A m, n \in Modules \ {MainMemory}, t \in Tag :
        Low[m] = Low[n] /\ Needs(F, c, m, t, Exclusive) /\ Needs(F, c, n, t, Valid) => m = n

\* No module above l but those of S may write block t.
NoneBut(F, c, l, t, S) ==
    \A n \in Modules \ {MainMemory} : Low[n] = l /\ n \notin S => ~Needs(F, c, n, t, Exclusive)

\* A read request has taken the right to write from the caches above its module.
ReadQuiet(f, F, c) ==
    f.kind = "read_request" =>
        /\ f.pc = "updown_finish" => NoneBut(F, c, f.target, f.tag, {f.mod})
        /\ f.pc = "downup_finish" => NoneBut(F, c, f.target, f.tag, {})
        /\ f.dir = "downup" =>
              NoneBut(F, c, f.mod, f.addr,
                      IF f.pc = "reply" \/ f.notFound THEN {} ELSE {f.target})

Quiet(F, c) == \A p \in DOMAIN F : ReadQuiet(F[p], F, c)

Copies(F, c, d) ==
    /\ Calls(F) /\ Leaning(F, c, d) /\ Alone(F, d)
    /\ OneWayEach(c, d) /\ Above(d)
    /\ Covered(F, c, d) /\ Single(F, c) /\ Quiet(F, c)
-----------------------------------------------------------------------------
(* Who works on an entry. *)

\* No module is below itself, or below the module below it.
LEMMA LowFacts ==
    ASSUME NEW m \in Modules, m # MainMemory
    PROVE  Low[m] \in Modules /\ Low[m] # m /\ (Low[m] # MainMemory => Low[Low[m]] # m)
<1>1. Low[m] \in Modules
  BY HierarchyAssumption
<1>2. Low[m] # m
  <2>1. {m} \in SUBSET (Modules \ {MainMemory}) /\ {m} # {}
    OBVIOUS
  <2>2. \E n \in {m} : Low[n] \notin {m}
    BY <2>1, HierarchyAssumption
  <2> QED BY <2>2
<1>3. ASSUME Low[m] # MainMemory PROVE Low[Low[m]] # m
  <2>1. {m, Low[m]} \in SUBSET (Modules \ {MainMemory}) /\ {m, Low[m]} # {}
    BY <1>1, <1>3
  <2>2. \E n \in {m, Low[m]} : Low[n] \notin {m, Low[m]}
    BY <2>1, HierarchyAssumption
  <2> QED BY <2>2
<1> QED BY <1>1, <1>2, <1>3

\* The rights to a block.
LEMMA RightsFacts ==
    ASSUME NEW K \in Rights
    PROVE  /\ K \subseteq Valid /\ "I" \notin K /\ Valid \in Rights /\ Exclusive \in Rights
           /\ Exclusive \subseteq Valid /\ Exclusive # Valid /\ (K = Valid \/ K = Exclusive)
           /\ Exclusive \subseteq K
           /\ \A s \in BlockStates : s # "I" <=> s \in Valid
  BY DEF Rights, Valid, Exclusive, BlockStates

\* What is known of a frame and of its caller.
LEMMA FrameOf ==
    ASSUME NEW F, NEW d, Sys(F, d), NEW p \in DOMAIN F
    PROVE  /\ F[p] \in Frame /\ FrameOK(F[p]) /\ IsPath(p)
           /\ ~IsAccess(F[p]) =>
                 /\ Len(p) > 1 /\ Front(p) \in DOMAIN F /\ Front(p) # p
                 /\ Child(p, Front(p)) /\ CallOK(F[p], F[Front(p)])
           /\ Holds(F[p]) =>
                 /\ F[p].way \in Ways(Where(F[p])) /\ F[p].way # 0
                 /\ d[Where(F[p])][F[p].way].lock # 0
           /\ Where(F[p]) \in Modules /\ F[p].mod \in Modules /\ F[p].target \in Modules
           /\ F[p].tag \in Tag /\ F[p].addr \in Tag /\ F[p].state \in BlockStates
<1>1. F[p] \in Frame /\ FrameOK(F[p]) /\ IsPath(p) /\ (Len(p) = 1 <=> IsAccess(F[p]))
  BY DEF Sys, Tree
<1>2. ~IsAccess(F[p]) => Len(p) > 1
  <2>1. PICK n : n = Len(p)
    OBVIOUS
  <2>2. n \in Nat /\ n > 0
    BY <1>1, <2>1, PathFacts
  <2>3. n # 1 => n > 1
    BY ONLY <2>2
  <2>4. ~IsAccess(F[p]) => n # 1
    BY <1>1, <2>1
  <2> QED BY ONLY <2>1, <2>3, <2>4
<1>3. Len(p) > 1 => /\ Front(p) \in DOMAIN F /\ Front(p) # p /\ Child(p, Front(p))
                    /\ CallOK(F[p], F[Front(p)])
  BY ChildFacts DEF Sys
<1>4. /\ Where(F[p]) \in Modules /\ F[p].mod \in Modules /\ F[p].target \in Modules
      /\ Head(p) # 0
  BY WherePlaces DEF Sys
<1>5. Holds(F[p]) => /\ F[p].way \in Ways(Where(F[p])) /\ F[p].way # 0
                     /\ d[Where(F[p])][F[p].way].lock # 0
  BY <1>4, HierarchyAssumption DEF Sys, Locks, Ways
<1>6. F[p].tag \in Tag /\ F[p].addr \in Tag /\ F[p].state \in BlockStates
  BY <1>1 DEF Frame
<1> QED BY <1>1, <1>2, <1>3, <1>4, <1>5, <1>6

\* A frame and its caller agree.
LEMMA LinkOf ==
    ASSUME NEW F, NEW d, Sys(F, d), Calls(F), NEW p \in DOMAIN F, ~IsAccess(F[p])
    PROVE  LinkOK(F[p], F[Front(p)])
  BY FrameOf DEF Calls

\* One frame holds the lock of the entry that a frame leans on, and the two are
\* the same, or the second one is called by the first one for an eviction.
CalledFor(F, q, h) ==
    \/ q = h
    \/ Child(q, h) /\ F[q].kind = "evict" /\ F[h].kind = "find_and_lock"
    \/ Child(q, h) /\ F[q].kind = "invalidate" /\ F[h].kind = "write_request"
    \/ \E e \in DOMAIN F :
          /\ Child(q, e) /\ F[q].kind = "invalidate" /\ F[e].kind = "evict" /\ F[e].pc = "call"
          /\ Child(e, h) /\ F[h].kind = "find_and_lock"

\* A find-and-lock chain that evicts a block holds the lock of its way.
LEMMA EvictHolder ==
    ASSUME NEW F, NEW d, Sys(F, d), Calls(F), NEW q \in DOMAIN F,
           F[q].kind = "evict", F[q].pc # "evict", NEW h, h = Front(q)
    PROVE  /\ h \in DOMAIN F /\ Holds(F[h]) /\ Where(F[h]) = F[q].mod /\ F[h].way = F[q].srcWay
           /\ Child(q, h) /\ F[h].kind = "find_and_lock" /\ F[h].pc = "call"
<1>1. /\ h \in DOMAIN F /\ Child(q, h) /\ CallOK(F[q], F[h]) /\ LinkOK(F[q], F[h])
  BY FrameOf, LinkOf DEF IsAccess
<1>2. F[h].kind = "find_and_lock" /\ F[h].pc = "call" /\ F[h].mod = F[q].mod
  BY <1>1 DEF CallOK
<1>3. F[h].way = F[q].srcWay
  BY <1>1 DEF LinkOK, EvictLink
<1> QED BY <1>1, <1>2, <1>3 DEF Holds, Where

\* Whoever works on an entry, somebody holds its lock.
LEMMA LeanerFacts ==
    ASSUME NEW F, NEW d, Sys(F, d), Calls(F), NEW q \in DOMAIN F, NEW m, NEW w,
           Leans(F[q], m, w)
    PROVE  \E h \in DOMAIN F :
              Holds(F[h]) /\ Where(F[h]) = m /\ F[h].way = w /\ CalledFor(F, q, h)
<1>1. CASE Holds(F[q]) /\ Where(F[q]) = m /\ F[q].way = w
  BY <1>1 DEF CalledFor
<1>2. CASE F[q].kind = "evict" /\ F[q].pc # "evict" /\ F[q].mod = m /\ F[q].srcWay = w
  BY <1>2, EvictHolder DEF CalledFor
<1>3. CASE F[q].kind = "invalidate" /\ F[q].mod = m /\ F[q].way = w
  <2>1. PICK e \in DOMAIN F : e = Front(q) /\ Child(q, e) /\ CallOK(F[q], F[e])
                              /\ LinkOK(F[q], F[e])
    BY <1>3, FrameOf, LinkOf DEF IsAccess
  <2>2. CASE F[e].kind = "evict"
    <3>1. F[e].pc = "call" /\ F[e].mod = m /\ F[e].srcWay = w
      BY <1>3, <2>1, <2>2 DEF CallOK, LinkOK, InvalidateLink
    <3> QED BY <1>3, <2>1, <2>2, <3>1, EvictHolder DEF CalledFor
  <2>3. CASE F[e].kind # "evict"
    <3>1. F[e].kind = "write_request" /\ F[e].pc = "call" /\ F[e].way # 0
      BY <1>3, <2>1, <2>3 DEF CallOK
    <3>2. F[e].target = m /\ F[e].way = w
      BY <1>3, <2>1, <3>1 DEF LinkOK, InvalidateLink
    <3>3. Holds(F[e]) /\ Where(F[e]) = m
      BY <3>1, <3>2 DEF Holds, Where, IsRequest
    <3> QED BY <1>3, <2>1, <3>1, <3>2, <3>3 DEF CalledFor
  <2> QED BY <2>2, <2>3
<1> QED BY <1>1, <1>2, <1>3 DEF Leans

\* Two frames do not hold the lock of an entry.
LEMMA OneHolder ==
    ASSUME NEW F, NEW d, Sys(F, d), NEW p \in DOMAIN F, NEW q \in DOMAIN F,
           Holds(F[p]), Holds(F[q]), Where(F[p]) = Where(F[q]), F[p].way = F[q].way
    PROVE  p = q
  BY DEF Sys, Locks, SameLock

\* A frame that holds a lock, and has called nobody, works alone on the entry.
LEMMA Lone ==
    ASSUME NEW F, NEW d, Sys(F, d), Calls(F), NEW p \in DOMAIN F, Childless(F, p),
           Holds(F[p]), NEW q \in DOMAIN F, Leans(F[q], Where(F[p]), F[p].way)
    PROVE  q = p
<1>1. PICK h \in DOMAIN F :
         Holds(F[h]) /\ Where(F[h]) = Where(F[p]) /\ F[h].way = F[p].way /\ CalledFor(F, q, h)
  BY LeanerFacts
<1>2. h = p
  BY <1>1, OneHolder
<1> QED BY <1>1, <1>2 DEF CalledFor, Childless

\* Nobody works on an entry that is not locked.
LEMMA FreeEntry ==
    ASSUME NEW F, NEW d, Sys(F, d), Calls(F), NEW q \in DOMAIN F, NEW m, NEW w,
           d[m][w].lock = 0
    PROVE  ~Leans(F[q], m, w)
<1>1. ASSUME Leans(F[q], m, w) PROVE FALSE
  <2>1. PICK h \in DOMAIN F : Holds(F[h]) /\ Where(F[h]) = m /\ F[h].way = w
    BY <1>1, LeanerFacts
  <2> QED BY <2>1, FrameOf
<1> QED BY <1>1

\* A frame other than an invalidation has called one chain at most.
LEMMA OnlyCall ==
    ASSUME NEW F, NEW d, Sys(F, d), NEW h \in DOMAIN F, F[h].kind # "invalidate",
           NEW p \in DOMAIN F, NEW q \in DOMAIN F, Child(p, h), Child(q, h)
    PROVE  p = q
  BY DEF Sys, Tree

\* An eviction that has called nobody, and its caller, work alone on the victim.
LEMMA LoneEvict ==
    ASSUME NEW F, NEW d, Sys(F, d), Calls(F), NEW p \in DOMAIN F, Childless(F, p),
           F[p].kind = "evict", F[p].pc # "evict",
           NEW q \in DOMAIN F, Leans(F[q], F[p].mod, F[p].srcWay)
    PROVE  \/ q = p
           \/ (q = Front(p) /\ F[q].kind = "find_and_lock" /\ F[q].pc = "call")
<1>1. PICK h \in DOMAIN F :
         /\ Holds(F[h]) /\ Where(F[h]) = F[p].mod /\ F[h].way = F[p].srcWay
         /\ CalledFor(F, q, h)
  BY LeanerFacts
<1>2. PICK g \in DOMAIN F :
         /\ g = Front(p) /\ Holds(F[g]) /\ Where(F[g]) = F[p].mod /\ F[g].way = F[p].srcWay
         /\ Child(p, g) /\ F[g].kind = "find_and_lock" /\ F[g].pc = "call"
  BY EvictHolder
<1>3. h = g
  BY <1>1, <1>2, OneHolder
<1>4. ASSUME NEW r \in DOMAIN F, Child(r, g) PROVE r = p
  BY <1>2, <1>4, OnlyCall
<1> QED BY <1>1, <1>2, <1>3, <1>4 DEF CalledFor, Childless

\* Those who work on the entry of an invalidation.
LEMMA LoneInvalidate ==
    ASSUME NEW F, NEW d, Sys(F, d), Calls(F), NEW p \in DOMAIN F, F[p].kind = "invalidate",
           NEW q \in DOMAIN F, Leans(F[q], F[p].mod, F[p].way)
    PROVE  \/ q = p
           \/ /\ q = Front(p) /\ F[q].pc = "call"
              /\ F[q].kind = "evict" \/ (F[q].kind = "write_request" /\ Holds(F[q]))
           \/ F[q].kind = "find_and_lock" /\ F[q].pc = "call"
<1>1. PICK h \in DOMAIN F :
         /\ Holds(F[h]) /\ Where(F[h]) = F[p].mod /\ F[h].way = F[p].way
         /\ CalledFor(F, q, h)
  BY LeanerFacts
<1>2. Leans(F[p], F[p].mod, F[p].way)
  BY DEF Leans
<1>3. PICK g \in DOMAIN F :
         /\ Holds(F[g]) /\ Where(F[g]) = F[p].mod /\ F[g].way = F[p].way
         /\ CalledFor(F, p, g)
  BY <1>2, LeanerFacts
<1>4. h = g
  BY <1>1, <1>3, OneHolder
<1>5. p # h
  BY <1>1 DEF Holds, IsAccess, IsRequest
<1>6. ASSUME NEW r \in DOMAIN F, NEW s \in DOMAIN F, Child(r, s),
             F[s].kind # "invalidate", Child(p, s)
      PROVE  r = p
  BY <1>6, OnlyCall
<1>7. ASSUME NEW r \in DOMAIN F, NEW s \in DOMAIN F, Child(r, s)
      PROVE  s = Front(r) /\ CallOK(F[r], F[s])
  BY <1>7 DEF Child, Sys, Tree
<1>8. CASE Child(p, h) /\ F[h].kind = "write_request"
  <2>1. F[h].pc = "call" /\ h = Front(p)
    BY <1>8, <1>7 DEF CallOK
  <2>2. \A r \in DOMAIN F : Child(r, h) => r = p
    BY <1>6, <1>8
  <2>3. q = h \/ q = p
    BY <1>1, <1>8, <2>2 DEF CalledFor
  <2> QED BY ONLY <1>1, <1>8, <2>1, <2>3
<1>9. ASSUME NEW e \in DOMAIN F, Child(p, e), F[e].kind = "evict", F[e].pc = "call",
             Child(e, h), F[h].kind = "find_and_lock"
      PROVE  \/ q = p
             \/ (q = Front(p) /\ F[q].pc = "call" /\ F[q].kind = "evict")
             \/ (F[q].kind = "find_and_lock" /\ F[q].pc = "call")
  <2>1. F[h].pc = "call" /\ e = Front(p)
    BY <1>9, <1>7 DEF CallOK
  <2>2. \A r \in DOMAIN F : Child(r, h) => r = e
    BY <1>9, OnlyCall
  <2>3. \A r \in DOMAIN F : Child(r, e) => r = p
    BY <1>6, <1>9
  <2>4. q = h \/ q = e \/ q = p
    BY <1>1, <2>2, <2>3 DEF CalledFor
  <2> QED BY <1>9, <2>1, <2>4
<1>10. F[p].kind # "evict"
  OBVIOUS
<1> QED BY <1>3, <1>4, <1>5, <1>8, <1>9, <1>10 DEF CalledFor
-----------------------------------------------------------------------------
(* Who has a block. *)

\* A frame with a lock has claimed the way for the block that it works on.
LEMMA Claims ==
    ASSUME NEW F, NEW c, NEW d, Sys(F, d), Leaning(F, c, d), NEW p \in DOMAIN F, Holds(F[p])
    PROVE  /\ F[p].way \in Ways(Where(F[p]))
           /\ InMatches(c, d, Where(F[p]), F[p].tag, F[p].way)
           /\ c[Where(F[p])][F[p].way].transient = F[p].tag
<1>1. F[p].way \in Ways(Where(F[p])) /\ d[Where(F[p])][F[p].way].lock # 0
  BY FrameOf
<1>2. LeanOK(F[p], c, d)
  BY DEF Leaning
<1>3. CASE F[p].kind = "find_and_lock"
  <2>1. Where(F[p]) = F[p].mod
    BY <1>3 DEF Where
  <2>2. FoundOK(F[p], c[F[p].mod][F[p].way])
    BY <1>2, <1>3 DEF LeanOK
  <2> QED BY <1>1, <2>1, <2>2 DEF FoundOK, InMatches
<1>4. CASE F[p].kind # "find_and_lock"
  <2>1. HeldOK(F[p], c[Where(F[p])][F[p].way])
    BY <1>2, <1>4 DEF LeanOK
  <2> QED BY <1>1, <2>1 DEF HeldOK, InMatches
<1> QED BY <1>3, <1>4

\* Two frames do not hold locks for the same block of a module.
LEMMA OneClaim ==
    ASSUME NEW F, NEW c, NEW d, Sys(F, d), Leaning(F, c, d), OneWayEach(c, d),
           NEW p \in DOMAIN F, NEW q \in DOMAIN F, Holds(F[p]), Holds(F[q]),
           Where(F[p]) = Where(F[q]), F[p].tag = F[q].tag
    PROVE  p = q
<1>1. /\ F[p].way \in Ways(Where(F[p])) /\ InMatches(c, d, Where(F[p]), F[p].tag, F[p].way)
      /\ F[q].way \in Ways(Where(F[p])) /\ InMatches(c, d, Where(F[p]), F[p].tag, F[q].way)
  BY Claims
<1>2. Where(F[p]) \in Modules /\ F[p].tag \in Tag
  BY FrameOf
<1>3. F[p].way = F[q].way
  BY <1>1, <1>2 DEF OneWayEach
<1> QED BY <1>3, OneHolder

\* A block that a module needs is found there.
LEMMA NeedsMatch ==
    ASSUME NEW F, NEW c, NEW d, Sys(F, d), Leaning(F, c, d),
           NEW K \in Rights, NEW m, NEW t, Needs(F, c, m, t, K)
    PROVE  \E w \in Ways(m) : InMatches(c, d, m, t, w)
<1>1. CASE Has(F, c, m, t, K)
  BY <1>1, RightsFacts DEF Has, InMatches
<1>2. CASE Due(F, m, t, K)
  <2>1. PICK p \in DOMAIN F : Granted(F, p, K) /\ Where(F[p]) = m /\ F[p].tag = t
    BY <1>2 DEF Due
  <2>2. Holds(F[p])
    BY <2>1 DEF Granted
  <2> QED BY <2>1, <2>2, Claims
<1> QED BY <1>1, <1>2 DEF Needs

\* A block is not given back while another chain than find_and_lock has its lock.
LEMMA HeldNotLost ==
    ASSUME NEW F, NEW d, Sys(F, d), Calls(F), NEW p \in DOMAIN F, Holds(F[p]),
           F[p].kind # "find_and_lock"
    PROVE  ~Lost(F, Where(F[p]), F[p].way)
<1>1. ASSUME NEW q \in DOMAIN F, IsLost(F[q]), F[q].mod = Where(F[p]), F[q].srcWay = F[p].way
      PROVE  FALSE
  <2>1. PICK h \in DOMAIN F :
           /\ Holds(F[h]) /\ Where(F[h]) = F[q].mod /\ F[h].way = F[q].srcWay
           /\ F[h].kind = "find_and_lock"
    BY <1>1, EvictHolder DEF IsLost
  <2>2. h = p
    BY <1>1, <2>1, OneHolder
  <2> QED BY <2>1, <2>2
<1> QED BY <1>1 DEF Lost

\* The block of a frame with a lock counts as one that its module has.
LEMMA HolderHas ==
    ASSUME NEW F, NEW c, NEW d, Sys(F, d), Calls(F), NEW p \in DOMAIN F, Holds(F[p]),
           F[p].kind # "find_and_lock", NEW K,
           c[Where(F[p])][F[p].way].tag = F[p].tag, c[Where(F[p])][F[p].way].state \in K
    PROVE  Needs(F, c, Where(F[p]), F[p].tag, K)
<1>1. F[p].way \in Ways(Where(F[p])) /\ ~Lost(F, Where(F[p]), F[p].way)
  BY FrameOf, HeldNotLost
<1> QED BY <1>1 DEF Needs, Has

\* Nobody is asked to give the block of an entry up while no invalidation works there.
LEMMA NotAsked ==
    ASSUME NEW F, NEW l, NEW v, NEW m, Asked(F, l, v, m)
    PROVE  \E q \in DOMAIN F : F[q].kind = "invalidate" /\ Leans(F[q], l, v)
  BY DEF Asked, Leans

\* The holder of a lock that has called nobody has asked for nothing.
LEMMA HeldNotAsked ==
    ASSUME NEW F, NEW d, Sys(F, d), Calls(F), NEW p \in DOMAIN F, Childless(F, p),
           Holds(F[p]), NEW m
    PROVE  ~Asked(F, Where(F[p]), F[p].way, m)
<1>1. ASSUME NEW q \in DOMAIN F, F[q].kind = "invalidate", Leans(F[q], Where(F[p]), F[p].way)
      PROVE  FALSE
  <2>1. q = p
    BY <1>1, Lone
  <2> QED BY <1>1, <2>1 DEF Holds, IsAccess, IsRequest
<1> QED BY <1>1, NotAsked

\* The same for an eviction and its victim.
LEMMA VictimNotAsked ==
    ASSUME NEW F, NEW d, Sys(F, d), Calls(F), NEW p \in DOMAIN F, Childless(F, p),
           F[p].kind = "evict", F[p].pc # "evict", NEW m
    PROVE  ~Asked(F, F[p].mod, F[p].srcWay, m)
<1>1. ASSUME NEW q \in DOMAIN F, F[q].kind = "invalidate",
             Leans(F[q], F[p].mod, F[p].srcWay)
      PROVE  FALSE
  BY <1>1, LoneEvict
<1> QED BY <1>1, NotAsked

\* The way of a module that serves a cache is the one that a frame has claimed.
LEMMA ServedByHeld ==
    ASSUME NEW F, NEW c, NEW d, Sys(F, d), Copies(F, c, d),
           NEW p \in DOMAIN F, Holds(F[p]), NEW n \in Modules, n # MainMemory,
           Low[n] = Where(F[p]), NEW K \in Rights, Needs(F, c, n, F[p].tag, K)
    PROVE  Serves(F, c[Low[n]][F[p].way], d[Low[n]][F[p].way], Low[n], F[p].way, n, F[p].tag, K)
<1>1. F[p].tag \in Tag /\ Low[n] \in Modules /\ F[p].way \in Ways(Low[n])
  BY FrameOf
<1>2. PICK v \in Ways(Low[n]) : Serves(F, c[Low[n]][v], d[Low[n]][v], Low[n], v, n, F[p].tag, K)
  BY <1>1 DEF Copies, Covered
<1>3. InMatches(c, d, Low[n], F[p].tag, v)
  BY <1>2 DEF Serves, InMatches
<1>4. InMatches(c, d, Low[n], F[p].tag, F[p].way)
  BY Claims DEF Copies
<1>5. v = F[p].way
  BY <1>1, <1>3, <1>4 DEF Copies, OneWayEach
<1> QED BY <1>2, <1>5
-----------------------------------------------------------------------------
(* A step of the protocol changes the frames of X, from those of F to those of G, *)
(* and the entry of way w0 of module m0.                                          *)

Rest(F, G, X) ==
    \A q \in (DOMAIN F \cup DOMAIN G) \ X : q \in DOMAIN F /\ q \in DOMAIN G /\ G[q] = F[q]

OffEntry(c, d, c1, d1, m0, w0) ==
    \A m \in Modules : \A w \in Ways(m) :
        m # m0 \/ w # w0 => c1[m][w] = c[m][w] /\ d1[m][w] = d[m][w]

\* A changed frame agrees with its caller and those it has called.
Linked(G, X) ==
    \A x \in X \cap DOMAIN G, q \in DOMAIN G :
        /\ Child(q, x) => LinkOK(G[q], G[x])
        /\ Child(x, q) => LinkOK(G[x], G[q])

\* A request in a changed frame shows nothing new to a caller that does not change.
Shows(F, G, X, x) ==
    \/ Front(x) \in X
    \/ ~IsUpDown(G[x])
    \/ x \in DOMAIN F /\ IsUpDown(F[x]) /\ (G[x].pc = "reply" => F[x].pc = "reply")

\* What a changed frame may write, its module has already.
Backed(F, c, G, x) ==
    \A K \in Rights : Granted(G, x, K) => Needs(F, c, Where(G[x]), G[x].tag, K)

\* The new state of a frame leaves the evictions and the invalidations as they are.
Leaves(F, G, x) ==
    /\ ~IsLost(F[x])
    /\ Revoking(F[x]) => x \in DOMAIN G /\ Revoking(G[x]) /\ G[x].target = F[x].target
    /\ F[x].kind = "invalidate" =>
          \/ x \in DOMAIN G /\ G[x].kind = "invalidate" /\ G[x].mod = F[x].mod /\ G[x].way = F[x].way
          \/ \A q \in DOMAIN F : Child(q, x) => ~Revoking(F[q])

\* The frames that a step leaves alone.
LEMMA RestFacts ==
    ASSUME NEW F, NEW G, NEW X, Rest(F, G, X), NEW q, q \notin X
    PROVE  /\ q \in DOMAIN F <=> q \in DOMAIN G
           /\ q \in DOMAIN F => G[q] = F[q]
  BY DEF Rest

\* The first part: frames and those they have called.
LEMMA CallsKept ==
    ASSUME NEW F, Calls(F), NEW G, NEW X, Rest(F, G, X),
           \A x \in X \cap DOMAIN G : FlowOK(G[x]), Linked(G, X)
    PROVE  Calls(G)
<1>1. ASSUME NEW q \in DOMAIN G PROVE FlowOK(G[q])
  BY RestFacts DEF Calls
<1>2. ASSUME NEW p \in DOMAIN G, NEW q \in DOMAIN G, Child(q, p) PROVE LinkOK(G[q], G[p])
  <2>1. CASE p \in X \/ q \in X
    BY <1>2, <2>1 DEF Linked
  <2>2. CASE p \notin X /\ q \notin X
    BY <1>2, <2>2, RestFacts DEF Calls
  <2> QED BY <2>1, <2>2
<1> QED BY <1>1, <1>2 DEF Calls

\* What a frame knows of an entry does not change with another entry.
LEMMA LeanStays ==
    ASSUME NEW F, NEW d, Sys(F, d), Calls(F), NEW q \in DOMAIN F, NEW c, LeanOK(F[q], c, d),
           NEW c1, NEW d1, NEW m0, NEW w0, OffEntry(c, d, c1, d1, m0, w0),
           ~Leans(F[q], m0, w0)
    PROVE  LeanOK(F[q], c1, d1)
<1>1. /\ F[q].mod \in Modules /\ Where(F[q]) \in Modules
      /\ Holds(F[q]) => F[q].way \in Ways(Where(F[q]))
      /\ F[q].kind = "evict" /\ F[q].pc # "evict" => F[q].srcWay \in Ways(F[q].mod)
      /\ F[q].kind = "invalidate" => F[q].way \in Ways(F[q].mod)
  BY FrameOf DEF Calls, FlowOK, EvictFlow, FrameOK, InvalidateOK
<1>2. ASSUME Holds(F[q]) PROVE c1[Where(F[q])][F[q].way] = c[Where(F[q])][F[q].way]
  BY <1>1, <1>2 DEF Leans, OffEntry
<1>3. ASSUME F[q].kind = "evict", F[q].pc # "evict"
      PROVE  /\ c1[F[q].mod][F[q].srcWay] = c[F[q].mod][F[q].srcWay]
             /\ d1[F[q].mod][F[q].srcWay] = d[F[q].mod][F[q].srcWay]
  BY <1>1, <1>3 DEF Leans, OffEntry
<1>4. ASSUME F[q].kind = "invalidate"
      PROVE  /\ c1[F[q].mod][F[q].way] = c[F[q].mod][F[q].way]
             /\ d1[F[q].mod][F[q].way] = d[F[q].mod][F[q].way]
  BY <1>1, <1>4 DEF Leans, OffEntry
<1>5. F[q].kind = "find_and_lock" => F[q].mod = Where(F[q])
  BY DEF Where
<1> QED BY <1>2, <1>3, <1>4, <1>5 DEF LeanOK

\* The second part: frames and the entries that they work on.
LEMMA LeaningKept ==
    ASSUME NEW F, NEW c, NEW d, Sys(F, d), Calls(F), Leaning(F, c, d),
           NEW G, NEW X, Rest(F, G, X), NEW c1, NEW d1, NEW m0, NEW w0,
           OffEntry(c, d, c1, d1, m0, w0),
           \A x \in X \cap DOMAIN G : LeanOK(G[x], c1, d1),
           \A q \in DOMAIN F \ X : Leans(F[q], m0, w0) => LeanOK(F[q], c1, d1)
    PROVE  Leaning(G, c1, d1)
<1> SUFFICES ASSUME NEW q \in DOMAIN G, q \notin X PROVE LeanOK(G[q], c1, d1)
  BY DEF Leaning
<1>1. q \in DOMAIN F /\ G[q] = F[q] /\ LeanOK(F[q], c, d)
  BY RestFacts DEF Leaning
<1>2. CASE Leans(F[q], m0, w0)
  BY <1>1, <1>2
<1>3. CASE ~Leans(F[q], m0, w0)
  BY <1>1, <1>3, LeanStays
<1> QED BY <1>2, <1>3

\* A write request that has invalidated the other sharers holds a lock.
LEMMA ClearedHolds ==
    ASSUME NEW F, NEW d, Sys(F, d), NEW p \in DOMAIN F, Cleared(F, p)
    PROVE  Holds(F[p]) /\ Where(F[p]) = F[p].target
<1>1. F[p].kind = "write_request" /\ FrameOK(F[p])
  BY FrameOf DEF Cleared
<1>2. CASE F[p].pc \in {"exclusive", "updown_finish"}
  BY <1>1, <1>2 DEF FrameOK, RequestOK, IsRequest, Holds, Where
<1>3. ASSUME F[p].pc = "call", NEW q \in DOMAIN F, Child(q, p), IsUpDown(F[q])
      PROVE  Holds(F[p]) /\ Where(F[p]) = F[p].target
  <2>1. CallOK(F[q], F[p])
    BY <1>3 DEF Sys, Tree
  <2>2. F[p].way # 0
    BY <1>1, <1>3, <2>1 DEF CallOK, IsUpDown, IsRequest
  <2> QED BY <1>1, <1>3, <2>2 DEF Holds, IsRequest, Where
<1> QED BY <1>2, <1>3 DEF Cleared

\* The third part: write requests and the sharers of their blocks.
LEMMA AloneKept ==
    ASSUME NEW F, NEW c, NEW d, Sys(F, d), Alone(F, d),
           NEW G, NEW X, Rest(F, G, X), NEW c1, NEW d1, NEW m0, NEW w0,
           OffEntry(c, d, c1, d1, m0, w0),
           \A x \in X \cap DOMAIN G : Shows(F, G, X, x),
           \A x \in X \cap DOMAIN G :
              Cleared(G, x) => d1[G[x].target][G[x].way].sharers \subseteq {G[x].mod},
           \/ d1[m0][w0].sharers \subseteq d[m0][w0].sharers
           \/ \A q \in DOMAIN F \ X : ~(Holds(F[q]) /\ Where(F[q]) = m0 /\ F[q].way = w0)
    PROVE  Alone(G, d1)
<1> SUFFICES ASSUME NEW q \in DOMAIN G, Cleared(G, q), q \notin X
             PROVE  d1[G[q].target][G[q].way].sharers \subseteq {G[q].mod}
  BY DEF Alone
<1>1. q \in DOMAIN F /\ G[q] = F[q]
  BY RestFacts
<1>2. Cleared(F, q)
  <2>1. ASSUME NEW r \in DOMAIN G, Child(r, q), IsUpDown(G[r])
        PROVE  r \in DOMAIN F /\ IsUpDown(F[r])
    <3>1. CASE r \notin X
      BY <2>1, <3>1, RestFacts
    <3>2. CASE r \in X
      BY <2>1, <3>2 DEF Shows, Child
    <3> QED BY <3>1, <3>2
  <2> QED BY <1>1, <2>1 DEF Cleared
<1>3. Holds(F[q]) /\ Where(F[q]) = F[q].target
  BY <1>1, <1>2, ClearedHolds
<1>4. F[q].target \in Modules /\ F[q].way \in Ways(F[q].target)
  BY <1>1, <1>3, FrameOf
<1>5. d[F[q].target][F[q].way].sharers \subseteq {F[q].mod}
  BY <1>1, <1>2 DEF Alone
<1>6. CASE F[q].target = m0 /\ F[q].way = w0
  BY <1>1, <1>3, <1>5, <1>6
<1>7. CASE ~(F[q].target = m0 /\ F[q].way = w0)
  BY <1>1, <1>4, <1>5, <1>7 DEF OffEntry
<1> QED BY <1>6, <1>7

\* No module needs a block that it did not need before.
Shrinks(F, c, G, c1) ==
    \A K \in Rights, m \in Modules \ {MainMemory}, t \in Tag :
        Needs(G, c1, m, t, K) => Needs(F, c, m, t, K)

\* No module needs more after a step whose frames need nothing new, and whose changed
\* block, if it has one, was needed before.
LEMMA ShrinksFacts ==
    ASSUME NEW F, NEW d, Sys(F, d), NEW G, NEW X, Rest(F, G, X), NEW c, NEW c1, NEW m0, NEW w0,
           \A m \in Modules : \A w \in Ways(m) : m # m0 \/ w # w0 => c1[m][w] = c[m][w],
           \A x \in X \cap DOMAIN G : Shows(F, G, X, x) /\ Backed(F, c, G, x),
           \A m \in Modules : \A w \in Ways(m) :
              Lost(F, m, w) => Lost(G, m, w) \/ (m = m0 /\ w = w0),
           \A K \in Rights :
              m0 # MainMemory /\ w0 \in Ways(m0) /\ c1[m0][w0].state \in K /\ ~Lost(G, m0, w0) =>
                 Needs(F, c, m0, c1[m0][w0].tag, K)
    PROVE  Shrinks(F, c, G, c1)
<1> SUFFICES ASSUME NEW K \in Rights, NEW m \in Modules \ {MainMemory}, NEW t \in Tag,
                    Needs(G, c1, m, t, K)
             PROVE  Needs(F, c, m, t, K)
  BY DEF Shrinks
<1>1. CASE Has(G, c1, m, t, K)
  <2>1. PICK w \in Ways(m) : c1[m][w].tag = t /\ c1[m][w].state \in K /\ ~Lost(G, m, w)
    BY <1>1 DEF Has
  <2>2. CASE m = m0 /\ w = w0
    BY <2>1, <2>2
  <2>3. CASE ~(m = m0 /\ w = w0)
    BY <2>1, <2>3 DEF Needs, Has
  <2> QED BY <2>2, <2>3
<1>2. CASE Due(G, m, t, K)
  <2>1. PICK q \in DOMAIN G : Granted(G, q, K) /\ Where(G[q]) = m /\ G[q].tag = t
    BY <1>2 DEF Due
  <2>2. CASE q \in X
    BY <2>1, <2>2 DEF Backed
  <2>3. CASE q \notin X
    <3>1. q \in DOMAIN F /\ G[q] = F[q]
      BY <2>3, RestFacts
    <3>2. Answered(G, q) => Answered(F, q)
      <4>1. ASSUME NEW r \in DOMAIN G, Child(r, q), IsUpDown(G[r]), G[r].pc = "reply"
            PROVE  r \in DOMAIN F /\ IsUpDown(F[r]) /\ F[r].pc = "reply"
        <5>1. CASE r \notin X
          BY <4>1, <5>1, RestFacts
        <5>2. CASE r \in X
          BY <2>3, <4>1, <5>2 DEF Shows, Child
        <5> QED BY <5>1, <5>2
      <4> QED BY <3>1, <4>1 DEF Answered
    <3>3. Granted(F, q, K)
      BY <2>1, <3>1, <3>2 DEF Granted
    <3> QED BY <2>1, <3>1, <3>3 DEF Needs, Due
  <2> QED BY <2>2, <2>3
<1> QED BY <1>1, <1>2 DEF Needs

\* An eviction, or a request to give a block up, goes on.
LEMMA LostKept ==
    ASSUME NEW F, NEW G, NEW X, Rest(F, G, X), \A x \in X \cap DOMAIN F : ~IsLost(F[x]),
           NEW m, NEW w, Lost(F, m, w)
    PROVE  Lost(G, m, w)
  BY RestFacts DEF Lost

\* A request to give a block up goes on.
LEMMA AskedKept ==
    ASSUME NEW F, NEW G, NEW X, Rest(F, G, X), \A x \in X \cap DOMAIN F : Leaves(F, G, x),
           NEW l, NEW v, NEW m, Asked(F, l, v, m)
    PROVE  Asked(G, l, v, m)
<1>1. PICK p \in DOMAIN F, q \in DOMAIN F :
         /\ Child(p, q) /\ Revoking(F[p]) /\ F[p].target = m
         /\ F[q].kind = "invalidate" /\ F[q].mod = l /\ F[q].way = v
  BY DEF Asked
<1>2. p \in DOMAIN G /\ Revoking(G[p]) /\ G[p].target = m
  BY <1>1, RestFacts DEF Leaves
<1>3. q \in DOMAIN G /\ G[q].kind = "invalidate" /\ G[q].mod = l /\ G[q].way = v
  BY <1>1, RestFacts DEF Leaves
<1> QED BY <1>1, <1>2, <1>3 DEF Asked

\* The other parts: the caches above a module and its directory.
LEMMA CoveredKept ==
    ASSUME NEW F, NEW c, NEW d, Covered(F, c, d), NEW G, NEW c1, NEW d1, Shrinks(F, c, G, c1),
           \A K \in Rights, m \in Modules \ {MainMemory}, t \in Tag : \A v \in Ways(Low[m]) :
              Needs(G, c1, m, t, K) /\ Serves(F, c[Low[m]][v], d[Low[m]][v], Low[m], v, m, t, K) =>
                 Serves(G, c1[Low[m]][v], d1[Low[m]][v], Low[m], v, m, t, K)
    PROVE  Covered(G, c1, d1)
<1> SUFFICES ASSUME NEW K \in Rights, NEW m \in Modules \ {MainMemory}, NEW t \in Tag,
                    Needs(G, c1, m, t, K)
             PROVE  \E v \in Ways(Low[m]) :
                       Serves(G, c1[Low[m]][v], d1[Low[m]][v], Low[m], v, m, t, K)
  BY DEF Covered
<1>1. Needs(F, c, m, t, K)
  BY DEF Shrinks
<1>2. PICK v \in Ways(Low[m]) : Serves(F, c[Low[m]][v], d[Low[m]][v], Low[m], v, m, t, K)
  BY <1>1 DEF Covered
<1> QED BY <1>2

\* When no module needs more, what is said of writers stays true: that they are alone,
LEMMA SingleKept ==
    ASSUME NEW F, NEW c, Single(F, c), NEW G, NEW c1, Shrinks(F, c, G, c1)
    PROVE  Single(G, c1)
<1>1. Valid \in Rights /\ Exclusive \in Rights
  BY DEF Rights
<1> QED BY <1>1 DEF Single, Shrinks

\* that only those of S may write a block,
LEMMA NoneButKept ==
    ASSUME NEW F, NEW c, NEW G, NEW c1, Shrinks(F, c, G, c1), NEW l, NEW t \in Tag, NEW S,
           NoneBut(F, c, l, t, S)
    PROVE  NoneBut(G, c1, l, t, S)
<1>1. Exclusive \in Rights
  BY DEF Rights
<1> QED BY <1>1 DEF NoneBut, Shrinks

\* and that a read request has silenced the caches above, for one frame
LEMMA ReadQuietKept ==
    ASSUME NEW F, NEW c, NEW G, NEW c1, Shrinks(F, c, G, c1), NEW f, f.tag \in Tag, f.addr \in Tag,
           ReadQuiet(f, F, c)
    PROVE  ReadQuiet(f, G, c1)
  BY NoneButKept DEF ReadQuiet

\* and for all frames.
LEMMA QuietKept ==
    ASSUME NEW F, NEW c, NEW d, Sys(F, d), Quiet(F, c), NEW G, NEW X, Rest(F, G, X),
           NEW c1, Shrinks(F, c, G, c1),
           \A x \in X \cap DOMAIN G : ReadQuiet(G[x], G, c1)
    PROVE  Quiet(G, c1)
<1> SUFFICES ASSUME NEW q \in DOMAIN G, q \notin X PROVE ReadQuiet(G[q], G, c1)
  BY DEF Quiet
<1>1. q \in DOMAIN F /\ G[q] = F[q]
  BY RestFacts
<1>2. F[q].tag \in Tag /\ F[q].addr \in Tag
  BY <1>1, FrameOf
<1> QED BY <1>1, <1>2, ReadQuietKept DEF Quiet

\* A changed frame fits into the invariant.
Fits(F, c, G, c1, d1, X, x) ==
    /\ G[x] \in Frame /\ FlowOK(G[x]) /\ LeanOK(G[x], c1, d1)
    /\ Cleared(G, x) => d1[G[x].target][G[x].way].sharers \subseteq {G[x].mod}
    /\ Shows(F, G, X, x) /\ Backed(F, c, G, x)
    /\ ReadQuiet(G[x], F, c) \/ (Shrinks(F, c, G, c1) => ReadQuiet(G[x], G, c1))

\* Requests to give a block up end when the block is not needed any more.
AskedEnds(F, G, c, c1) ==
    \A l \in Modules, m \in Modules \ {MainMemory}, t \in Tag, K \in Rights : \A v \in Ways(l) :
        Asked(F, l, v, m) /\ Low[m] = l /\ c[l][v].tag = t /\ Needs(G, c1, m, t, K) =>
            Asked(G, l, v, m)

\* A step that ends no request to give a block up.
LEMMA AllAskedKept ==
    ASSUME NEW F, NEW G, NEW X, Rest(F, G, X), \A x \in X \cap DOMAIN F : Leaves(F, G, x),
           NEW c, NEW c1
    PROVE  AskedEnds(F, G, c, c1)
  BY AskedKept DEF AskedEnds

\* A step keeps the invariant, if the changed frames fit, and if the changed
\* entry still is what the other frames and the caches above take it for.
LEMMA EntryStep ==
    ASSUME NEW F, NEW c, NEW d, Sys(F, d), Copies(F, c, d),
           NEW G, NEW X, Rest(F, G, X), NEW c1, NEW d1, NEW m0 \in Modules, NEW w0,
           OffEntry(c, d, c1, d1, m0, w0),
           \A x \in X \cap DOMAIN G : Fits(F, c, G, c1, d1, X, x), Linked(G, X),
           \A q \in DOMAIN F \ X : Leans(F[q], m0, w0) => LeanOK(F[q], c1, d1),
           \/ d1[m0][w0].sharers \subseteq d[m0][w0].sharers
           \/ \A q \in DOMAIN F \ X : ~(Holds(F[q]) /\ Where(F[q]) = m0 /\ F[q].way = w0),
           OneWayEach(c1, d1), Above(d1),
           \A m \in Modules : \A w \in Ways(m) :
              Lost(F, m, w) => Lost(G, m, w) \/ (m = m0 /\ w = w0),
           AskedEnds(F, G, c, c1),
           \A K \in Rights :
              m0 # MainMemory /\ w0 \in Ways(m0) /\ c1[m0][w0].state \in K /\ ~Lost(G, m0, w0) =>
                 Needs(F, c, m0, c1[m0][w0].tag, K),
           \A K \in Rights, n \in Modules \ {MainMemory}, t \in Tag :
              /\ Low[n] = m0 /\ w0 \in Ways(m0) /\ Needs(F, c, n, t, K) /\ Needs(G, c1, n, t, K)
              /\ Serves(F, c[m0][w0], d[m0][w0], m0, w0, n, t, K)
              => Serves(G, c1[m0][w0], d1[m0][w0], m0, w0, n, t, K)
    PROVE  Copies(G, c1, d1)
<1>1. Calls(F) /\ Leaning(F, c, d) /\ Alone(F, d) /\ Covered(F, c, d) /\ Single(F, c) /\ Quiet(F, c)
  BY DEF Copies
<1>2. \A x \in X \cap DOMAIN G :
         /\ FlowOK(G[x]) /\ LeanOK(G[x], c1, d1)
         /\ Cleared(G, x) => d1[G[x].target][G[x].way].sharers \subseteq {G[x].mod}
         /\ Shows(F, G, X, x) /\ Backed(F, c, G, x)
         /\ ReadQuiet(G[x], F, c) \/ (Shrinks(F, c, G, c1) => ReadQuiet(G[x], G, c1))
         /\ G[x].tag \in Tag /\ G[x].addr \in Tag
  BY DEF Fits, Frame
<1>3. Calls(G)
  BY <1>1, <1>2, CallsKept
<1>4. Leaning(G, c1, d1)
  BY <1>1, <1>2, LeaningKept
<1>5. Alone(G, d1)
  BY <1>1, <1>2, AloneKept
<1>6. Shrinks(F, c, G, c1)
  <2>1. \A m \in Modules : \A w \in Ways(m) : m # m0 \/ w # w0 => c1[m][w] = c[m][w]
    BY DEF OffEntry
  <2> QED BY <1>2, <2>1, ShrinksFacts
<1>7. Covered(G, c1, d1)
  <2> SUFFICES ASSUME NEW K \in Rights, NEW m \in Modules \ {MainMemory}, NEW t \in Tag,
                      NEW v \in Ways(Low[m]), Needs(G, c1, m, t, K),
                      Serves(F, c[Low[m]][v], d[Low[m]][v], Low[m], v, m, t, K)
               PROVE  Serves(G, c1[Low[m]][v], d1[Low[m]][v], Low[m], v, m, t, K)
    BY <1>1, <1>6, CoveredKept
  <2>1. Low[m] \in Modules
    BY LowFacts
  <2>2. CASE Low[m] = m0 /\ v = w0
    <3>1. Needs(F, c, m, t, K)
      BY <1>6 DEF Shrinks
    <3> QED BY <2>2, <3>1
  <2>3. CASE Low[m] # m0 \/ v # w0
    <3>1. c1[Low[m]][v] = c[Low[m]][v] /\ d1[Low[m]][v] = d[Low[m]][v]
      BY <2>1, <2>3 DEF OffEntry
    <3>2. Asked(F, Low[m], v, m) => Asked(G, Low[m], v, m)
      BY <2>1 DEF AskedEnds, Serves
    <3> QED BY <3>1, <3>2 DEF Serves
  <2> QED BY <2>2, <2>3
<1>8. Single(G, c1)
  BY <1>1, <1>6, SingleKept
<1>9. \A x \in X \cap DOMAIN G : ReadQuiet(G[x], G, c1)
  BY <1>2, <1>6, ReadQuietKept
<1>10. Quiet(G, c1)
  BY <1>1, <1>6, <1>9, QuietKept
<1> QED BY <1>3, <1>4, <1>5, <1>7, <1>8, <1>10 DEF Copies

\* A step that changes frames only.
LEMMA FramesEnd ==
    ASSUME NEW F, NEW c, NEW d, Sys(F, d), Copies(F, c, d),
           NEW G, NEW X, Rest(F, G, X),
           \A x \in X \cap DOMAIN G : Fits(F, c, G, c, d, X, x), Linked(G, X),
           \A x \in X \cap DOMAIN F : ~IsLost(F[x]), AskedEnds(F, G, c, c)
    PROVE  Copies(G, c, d)
<1>1. OffEntry(c, d, c, d, MainMemory, 0) /\ MainMemory \in Modules /\ 0 \notin Ways(MainMemory)
  BY HierarchyAssumption DEF OffEntry, Ways
<1>2. \A q \in DOMAIN F \ X : Leans(F[q], MainMemory, 0) => LeanOK(F[q], c, d)
  BY DEF Copies, Leaning
<1>3. \A m \in Modules : \A w \in Ways(m) :
         Lost(F, m, w) => Lost(G, m, w) \/ (m = MainMemory /\ w = 0)
  BY LostKept
<1>4. OneWayEach(c, d) /\ Above(d)
  BY DEF Copies
<1>5. \A K \in Rights : MainMemory # MainMemory /\ 0 \in Ways(MainMemory)
                        /\ c[MainMemory][0].state \in K /\ ~Lost(G, MainMemory, 0) =>
                           Needs(F, c, MainMemory, c[MainMemory][0].tag, K)
  OBVIOUS
<1>6. \A K \in Rights, n \in Modules \ {MainMemory}, t \in Tag :
         /\ Low[n] = MainMemory /\ 0 \in Ways(MainMemory)
         /\ Needs(F, c, n, t, K) /\ Needs(G, c, n, t, K)
         /\ Serves(F, c[MainMemory][0], d[MainMemory][0], MainMemory, 0, n, t, K)
         => Serves(G, c[MainMemory][0], d[MainMemory][0], MainMemory, 0, n, t, K)
  BY <1>1
<1>7. d[MainMemory][0].sharers \subseteq d[MainMemory][0].sharers
  OBVIOUS
<1> DEFINE z == 0
<1> HIDE DEF z
<1> QED BY <1>1, <1>2, <1>3, <1>4, <1>5, <1>6, <1>7, EntryStep

\* The same for a step that changes frames only.
LEMMA FramesStep ==
    ASSUME NEW F, NEW c, NEW d, Sys(F, d), Copies(F, c, d),
           NEW G, NEW X, Rest(F, G, X),
           \A x \in X \cap DOMAIN G : Fits(F, c, G, c, d, X, x), Linked(G, X),
           \A x \in X \cap DOMAIN F : Leaves(F, G, x)
    PROVE  Copies(G, c, d)
<1>1. AskedEnds(F, G, c, c)
  BY AllAskedKept
<1>2. \A x \in X \cap DOMAIN F : ~IsLost(F[x])
  BY DEF Leaves
<1> QED BY <1>1, <1>2, FramesEnd

\* The frames that wait for an entry may be woken up at any time.
LEMMA Woken ==
    ASSUME NEW F, NEW c, NEW d, Sys(F, d), Copies(F, c, d), NEW m, NEW w,
           NEW W, W = WakeupAll(F, m, w)
    PROVE  /\ Sys(W, d) /\ Copies(W, c, d) /\ DOMAIN W = DOMAIN F
           /\ \A q \in DOMAIN F : F[q].pc # "wait" => W[q] = F[q]
<1>1. DOMAIN W = DOMAIN F
  BY DEF WakeupAll
<1>2. ASSUME NEW q \in DOMAIN F
      PROVE  \/ W[q] = F[q]
             \/ F[q].pc = "wait" /\ W[q] = [F[q] EXCEPT !.pc = "find", !.way = 0]
  BY DEF WakeupAll
<1>3. Tree(W)
  BY TreeWake DEF Sys
<1> DEFINE X == {q \in DOMAIN F : W[q] # F[q]}
<1>4. ASSUME NEW q \in X
      PROVE  /\ q \in DOMAIN F /\ q \in DOMAIN W /\ F[q].kind = "find_and_lock"
             /\ F[q].pc = "wait" /\ W[q].kind = "find_and_lock" /\ W[q].pc = "find"
             /\ W[q] = [F[q] EXCEPT !.pc = "find", !.way = 0] /\ F[q] \in Frame /\ W[q] \in Frame
             /\ FlowOK(F[q])
  <2>1. F[q].pc = "wait" /\ W[q] = [F[q] EXCEPT !.pc = "find", !.way = 0]
    BY <1>2
  <2>2. F[q] \in Frame /\ FrameOK(F[q])
    BY FrameOf
  <2>3. W[q] \in Frame /\ W[q].pc = "find" /\ W[q].kind = F[q].kind
    BY <2>1, <2>2, WokenFrame
  <2>4. F[q].kind = "find_and_lock"
    BY <2>1, <2>2 DEF Frame, Kinds, FrameOK, AccessOK, RequestOK, EvictOK, InvalidateOK,
                      IsAccess, IsRequest
  <2> QED BY <1>1, <2>1, <2>2, <2>3, <2>4 DEF Copies, Calls
<1> HIDE DEF X
<1>5. \A q \in DOMAIN F : q \notin X => W[q] = F[q]
  BY DEF X
<1>6. Rest(F, W, X)
  BY <1>1, <1>5 DEF Rest
<1>7. ASSUME NEW q \in X
      PROVE  /\ W[q].addr = F[q].addr /\ W[q].dir = F[q].dir /\ W[q].blocking = F[q].blocking
             /\ W[q].hit = F[q].hit /\ W[q].error = F[q].error
             /\ W[q].eviction = F[q].eviction /\ ~Holds(W[q]) /\ FlowOK(W[q])
  <2>1. /\ W[q].addr = F[q].addr /\ W[q].dir = F[q].dir /\ W[q].blocking = F[q].blocking
        /\ W[q].hit = F[q].hit /\ W[q].error = F[q].error /\ W[q].eviction = F[q].eviction
    <3>1. PICK f : f = F[q]
      OBVIOUS
    <3>2. f \in Frame /\ W[q] = [f EXCEPT !.pc = "find", !.way = 0]
      BY <1>4, <3>1
    <3> QED BY ONLY <3>1, <3>2 DEF Frame
  <2>2. FindFlow(F[q])
    BY <1>4 DEF FlowOK
  <2>3. FindFlow(W[q])
    BY <1>4, <2>1, <2>2 DEF FindFlow
  <2> QED BY <1>4, <2>1, <2>3 DEF FlowOK, IsRequest, IsAccess, Holds
<1>8. ASSUME NEW x \in X \cap DOMAIN W PROVE Fits(F, c, W, c, d, X, x)
  <2>1. /\ W[x] \in Frame /\ FlowOK(W[x]) /\ ~Holds(W[x]) /\ W[x].kind = "find_and_lock"
        /\ W[x].pc = "find"
    BY <1>4, <1>7
  <2>2. LeanOK(W[x], c, d) /\ ~Cleared(W, x) /\ ~IsUpDown(W[x])
        /\ (\A K \in Rights : ~Granted(W, x, K)) /\ ReadQuiet(W[x], F, c)
    BY <2>1 DEF LeanOK, Cleared, IsUpDown, IsRequest, Granted, ReadQuiet
  <2> QED BY <2>1, <2>2 DEF Fits, Shows, Backed
<1>9. Linked(W, X)
  <2> SUFFICES ASSUME NEW x \in X, NEW q \in DOMAIN W
               PROVE  /\ Child(q, x) => LinkOK(W[q], W[x])
                      /\ Child(x, q) => LinkOK(W[x], W[q])
    BY DEF Linked
  <2>1. x \in DOMAIN W
    BY <1>4
  <2>2. ASSUME NEW y \in X, NEW r \in DOMAIN W, Child(r, y) PROVE FALSE
    <3>1. y \in DOMAIN W /\ W[y].pc = "find"
      BY <2>2, <1>4
    <3>2. CallOK(W[r], W[y])
      BY <1>3, <2>2, <3>1 DEF Tree
    <3> QED BY <3>1, <3>2 DEF CallOK
  <2>3. ASSUME Child(x, q) PROVE LinkOK(W[x], W[q])
    <3>1. q \notin X
      BY <2>1, <2>2, <2>3
    <3>2. q \in DOMAIN F /\ W[q] = F[q] /\ x \in DOMAIN F
      BY <1>1, <1>4, <1>5, <3>1
    <3>3. LinkOK(F[x], F[q])
      BY <2>3, <3>2 DEF Copies, Calls
    <3>4. FindLink(F[x], F[q])
      BY <1>4, <3>3 DEF LinkOK
    <3>5. FindLink(W[x], W[q])
      BY <1>7, <3>2, <3>4 DEF FindLink
    <3> QED BY <1>4, <3>5 DEF LinkOK, IsRequest
  <2> QED BY <2>2, <2>3
<1>10. ASSUME NEW x \in X \cap DOMAIN F PROVE Leaves(F, W, x)
  BY <1>4 DEF Leaves, IsLost, Revoking, Revokes
<1>11. Copies(W, c, d)
  BY <1>6, <1>8, <1>9, <1>10, FramesStep
<1>12. Locks(W, d)
  <2>1. ASSUME NEW q \in DOMAIN F
        PROVE  /\ Holds(W[q]) <=> Holds(F[q])
               /\ Holds(W[q]) => Where(W[q]) = Where(F[q]) /\ W[q].way = F[q].way
               /\ W[q].pc = "wait" => W[q] = F[q]
    <3>1. CASE q \in X
      BY <1>4, <1>7, <3>1 DEF Holds, IsAccess, IsRequest
    <3>2. CASE q \notin X
      BY <1>5, <3>2
    <3> QED BY <3>1, <3>2
  <2>2. Locks(F, d)
    BY DEF Sys
  <2> QED BY <1>1, <2>1, <2>2 DEF Locks, SameLock
<1> QED BY <1>1, <1>2, <1>3, <1>11, <1>12 DEF Sys

\* Frames X change in a step that wakes frames up: it is as if they were woken up
\* before.
LEMMA WokenRest ==
    ASSUME NEW F, NEW m, NEW w, NEW W, W = WakeupAll(F, m, w),
           NEW E, NEW G, G = WakeupAll(E, m, w), NEW X, Rest(F, E, X),
           \A x \in X \cap DOMAIN E : E[x].pc # "wait"
    PROVE  Rest(W, G, X) /\ DOMAIN G = DOMAIN E /\ \A x \in X \cap DOMAIN E : G[x] = E[x]
<1>1. DOMAIN W = DOMAIN F /\ DOMAIN G = DOMAIN E
  BY DEF WakeupAll
<1>2. \A q \in DOMAIN F \cap DOMAIN E : E[q] = F[q] => G[q] = W[q]
  BY DEF WakeupAll
<1>3. \A q \in DOMAIN E : E[q].pc # "wait" => G[q] = E[q]
  BY DEF WakeupAll
<1> QED BY <1>1, <1>2, <1>3 DEF Rest

\* A changed entry matches no other blocks than before.
LEMMA OneWayKept ==
    ASSUME NEW c, NEW d, OneWayEach(c, d), NEW c1, NEW d1, NEW m0 \in Modules, NEW w0 \in Ways(m0),
           OffEntry(c, d, c1, d1, m0, w0),
           \A t \in Tag : InMatches(c1, d1, m0, t, w0) => InMatches(c, d, m0, t, w0)
    PROVE  OneWayEach(c1, d1)
<1>1. ASSUME NEW m \in Modules, NEW t \in Tag, NEW w \in Ways(m), InMatches(c1, d1, m, t, w)
      PROVE  InMatches(c, d, m, t, w)
  <2>1. CASE m = m0 /\ w = w0
    BY <1>1, <2>1
  <2>2. CASE m # m0 \/ w # w0
    BY <1>1, <2>2 DEF OffEntry, InMatches
  <2> QED BY <2>1, <2>2
<1> QED BY <1>1 DEF OneWayEach

\* The sharers of a changed entry are modules above it.
LEMMA AboveKept ==
    ASSUME NEW c, NEW d, Above(d), NEW c1, NEW d1, NEW m0, NEW w0,
           OffEntry(c, d, c1, d1, m0, w0),
           \A i \in d1[m0][w0].sharers : Low[i] = m0,
           d1[m0][w0].owner # NoModule => Low[d1[m0][w0].owner] = m0
    PROVE  Above(d1)
<1> SUFFICES ASSUME NEW m \in Modules, NEW w \in Ways(m)
             PROVE  /\ \A i \in d1[m][w].sharers : Low[i] = m
                    /\ d1[m][w].owner # NoModule => Low[d1[m][w].owner] = m
  BY DEF Above
<1>1. CASE m = m0 /\ w = w0
  BY <1>1
<1>2. CASE m # m0 \/ w # w0
  BY <1>2 DEF OffEntry, Above
<1> QED BY <1>1, <1>2

\* A frame that has the lock of an entry, and has called nobody, changes the entry.
LEMMA HolderStep ==
    ASSUME NEW F, NEW c, NEW d, Sys(F, d), Copies(F, c, d),
           NEW p \in DOMAIN F, Childless(F, p), Holds(F[p]),
           NEW m0, m0 = Where(F[p]), NEW w0, w0 = F[p].way,
           NEW G, NEW X, p \in X, Rest(F, G, X), NEW c1, NEW d1,
           OffEntry(c, d, c1, d1, m0, w0),
           \A x \in X \cap DOMAIN G : Fits(F, c, G, c1, d1, X, x), Linked(G, X),
           \A x \in X \cap DOMAIN F : ~IsLost(F[x]), AskedEnds(F, G, c, c1),
           c1[m0][w0].transient = c[m0][w0].transient,
           c1[m0][w0].state # "I" =>
              \/ c1[m0][w0].tag = F[p].tag
              \/ c1[m0][w0].tag = c[m0][w0].tag /\ c[m0][w0].state # "I",
           d1[m0][w0].sharers \subseteq d[m0][w0].sharers,
           d1[m0][w0].owner \in {d[m0][w0].owner, NoModule},
           \A K \in Rights :
              m0 # MainMemory /\ c1[m0][w0].state \in K =>
                 \/ c1[m0][w0].tag = c[m0][w0].tag /\ c[m0][w0].state \in K
                 \/ Needs(F, c, m0, c1[m0][w0].tag, K),
           \A K \in Rights, n \in Modules \ {MainMemory}, t \in Tag :
              /\ Low[n] = m0 /\ Needs(F, c, n, t, K) /\ Needs(G, c1, n, t, K)
              /\ Serves(F, c[m0][w0], d[m0][w0], m0, w0, n, t, K)
              => Serves(G, c1[m0][w0], d1[m0][w0], m0, w0, n, t, K)
    PROVE  Copies(G, c1, d1)
<1>1. m0 \in Modules /\ w0 \in Ways(m0) /\ d[m0][w0].lock # 0
  BY FrameOf
<1>2. \A q \in DOMAIN F \ X : ~Leans(F[q], m0, w0)
  BY Lone DEF Copies
<1>3. \A m \in Modules : \A w \in Ways(m) :
         Lost(F, m, w) => Lost(G, m, w) \/ (m = m0 /\ w = w0)
  BY LostKept
<1>4. OneWayEach(c1, d1)
  <2>1. InMatches(c, d, m0, F[p].tag, w0) /\ c[m0][w0].transient = F[p].tag
    BY Claims DEF Copies
  <2>2. ASSUME NEW t \in Tag, InMatches(c1, d1, m0, t, w0) PROVE InMatches(c, d, m0, t, w0)
    BY <2>1, <2>2 DEF InMatches
  <2> QED BY <1>1, <2>2, OneWayKept DEF Copies
<1>5. Above(d1)
  <2>1. /\ \A i \in d1[m0][w0].sharers : Low[i] = m0
        /\ d1[m0][w0].owner # NoModule => Low[d1[m0][w0].owner] = m0
    BY <1>1 DEF Copies, Above
  <2> QED BY <2>1, AboveKept DEF Copies
<1>6. ASSUME NEW K \in Rights, m0 # MainMemory, c1[m0][w0].state \in K, ~Lost(G, m0, w0)
      PROVE  Needs(F, c, m0, c1[m0][w0].tag, K)
  <2>1. ~Lost(F, m0, w0)
    BY <1>6, LostKept
  <2> QED BY <1>1, <1>6, <2>1 DEF Needs, Has
<1>7. /\ \A q \in DOMAIN F \ X : Leans(F[q], m0, w0) => LeanOK(F[q], c1, d1)
      /\ \A K \in Rights :
            m0 # MainMemory /\ w0 \in Ways(m0) /\ c1[m0][w0].state \in K /\ ~Lost(G, m0, w0) =>
               Needs(F, c, m0, c1[m0][w0].tag, K)
  BY <1>2, <1>6
<1>8. \A K \in Rights, n \in Modules \ {MainMemory}, t \in Tag :
         /\ Low[n] = m0 /\ w0 \in Ways(m0) /\ Needs(F, c, n, t, K) /\ Needs(G, c1, n, t, K)
         /\ Serves(F, c[m0][w0], d[m0][w0], m0, w0, n, t, K)
         => Serves(G, c1[m0][w0], d1[m0][w0], m0, w0, n, t, K)
  OBVIOUS
<1>9. /\ Sys(F, d) /\ Copies(F, c, d) /\ Rest(F, G, X) /\ OffEntry(c, d, c1, d1, m0, w0)
      /\ \A x \in X \cap DOMAIN G : Fits(F, c, G, c1, d1, X, x)
      /\ Linked(G, X) /\ AskedEnds(F, G, c, c1)
      /\ d1[m0][w0].sharers \subseteq d[m0][w0].sharers
  OBVIOUS
<1> QED BY ONLY <1>1, <1>3, <1>4, <1>5, <1>7, <1>8, <1>9, EntryStep, ZenonT(40)

\* The frame leaves the sharers and the owner alone, and a valid block stays one.
LEMMA HolderKeeps ==
    ASSUME NEW F, NEW c, NEW d, Sys(F, d), Copies(F, c, d),
           NEW p \in DOMAIN F, Childless(F, p), Holds(F[p]),
           NEW m0, m0 = Where(F[p]), NEW w0, w0 = F[p].way,
           NEW G, NEW X, p \in X, Rest(F, G, X), NEW c1, NEW d1,
           OffEntry(c, d, c1, d1, m0, w0),
           \A x \in X \cap DOMAIN G : Fits(F, c, G, c1, d1, X, x), Linked(G, X),
           \A x \in X \cap DOMAIN F : Leaves(F, G, x),
           \/ c1[m0][w0] = c[m0][w0]
           \/ /\ c1[m0][w0].transient = c[m0][w0].transient /\ c1[m0][w0].tag = F[p].tag
              /\ c[m0][w0].state # "I" => c[m0][w0].tag = F[p].tag
              /\ c1[m0][w0].state # "I"
              /\ \A K \in Rights :
                    m0 # MainMemory /\ c1[m0][w0].state \in K => Needs(F, c, m0, F[p].tag, K),
           d1[m0][w0].sharers = d[m0][w0].sharers, d1[m0][w0].owner = d[m0][w0].owner
    PROVE  Copies(G, c1, d1)
<1>1. AskedEnds(F, G, c, c1) /\ \A x \in X \cap DOMAIN F : ~IsLost(F[x])
  BY AllAskedKept DEF Leaves
<1>2. \A K \in Rights, n \in Modules \ {MainMemory}, t \in Tag :
         /\ Low[n] = m0 /\ Needs(F, c, n, t, K) /\ Needs(G, c1, n, t, K)
         /\ Serves(F, c[m0][w0], d[m0][w0], m0, w0, n, t, K)
         => Serves(G, c1[m0][w0], d1[m0][w0], m0, w0, n, t, K)
  <2>1. \A n : Asked(F, m0, w0, n) => Asked(G, m0, w0, n)
    BY AskedKept
  <2> QED BY <2>1 DEF Serves
<1>3. \A K \in Rights :
         m0 # MainMemory /\ c1[m0][w0].state \in K =>
            \/ c1[m0][w0].tag = c[m0][w0].tag /\ c[m0][w0].state \in K
            \/ Needs(F, c, m0, c1[m0][w0].tag, K)
  OBVIOUS
<1>4. /\ c1[m0][w0].transient = c[m0][w0].transient
      /\ c1[m0][w0].state # "I" =>
            \/ c1[m0][w0].tag = F[p].tag
            \/ c1[m0][w0].tag = c[m0][w0].tag /\ c[m0][w0].state # "I"
      /\ d1[m0][w0].sharers \subseteq d[m0][w0].sharers
      /\ d1[m0][w0].owner \in {d[m0][w0].owner, NoModule}
  OBVIOUS
<1> QED BY <1>1, <1>2, <1>3, <1>4, HolderStep, SMTT(30)

\* What setBlock and a new directory entry leave alone.
BlockTo(c, m, w, t, s) == [c EXCEPT ![m][w] = [@ EXCEPT !.tag = t, !.state = s]]

\* setBlock changes the tag and the state of one block.
LEMMA BlockSet ==
    ASSUME NEW c, NEW d, Storage(c, d), NEW m \in Modules, NEW w \in Ways(m), NEW t, NEW s,
           NEW c1, c1 = BlockTo(c, m, w, t, s)
    PROVE  /\ c1[m][w].tag = t /\ c1[m][w].state = s
           /\ c1[m][w].transient = c[m][w].transient
           /\ \A n \in Modules : \A v \in Ways(n) : n # m \/ v # w => c1[n][v] = c[n][v]
<1>1. DOMAIN c = Modules /\ \A n \in Modules : c[n] \in [Ways(n) -> Block]
  BY DEF Storage
<1>2. ASSUME NEW n \in Modules, NEW v \in Ways(n), n # m \/ v # w PROVE c1[n][v] = c[n][v]
  BY <1>1, <1>2 DEF BlockTo
<1>3. c1[m][w] = [c[m][w] EXCEPT !.tag = t, !.state = s]
  BY <1>1 DEF BlockTo
<1>4. PICK b : b = c[m][w]
  OBVIOUS
<1>5. b \in Block /\ c1[m][w] = [b EXCEPT !.tag = t, !.state = s]
  BY <1>1, <1>3, <1>4
<1>6. c1[m][w].tag = t /\ c1[m][w].state = s /\ c1[m][w].transient = b.transient
  BY ONLY <1>5 DEF Block
<1> QED BY <1>2, <1>4, <1>6

\* A change of one directory entry.
LEMMA EntrySet ==
    ASSUME NEW c, NEW d, Storage(c, d), NEW m \in Modules, NEW w \in Ways(m), NEW e,
           NEW d1, d1 = [d EXCEPT ![m][w] = e]
    PROVE  /\ d1[m][w] = e
           /\ \A n \in Modules : \A v \in Ways(n) : n # m \/ v # w => d1[n][v] = d[n][v]
<1>1. DOMAIN d = Modules /\ \A n \in Modules : d[n] \in [Ways(n) -> Entry]
  BY DEF Storage
<1>2. ASSUME NEW n \in Modules, NEW v \in Ways(n), n # m \/ v # w PROVE d1[n][v] = d[n][v]
  BY <1>1, <1>2
<1> QED BY <1>1, <1>2

\* UnlockEntry keeps the sharers and the owner.
LEMMA UnlockedEntry ==
    ASSUME NEW e \in Entry
    PROVE  /\ Unlocked(e).sharers = e.sharers /\ Unlocked(e).owner = e.owner
           /\ Unlocked(e).lock = 0
  BY DEF Unlocked, Entry
-----------------------------------------------------------------------------
(* The shapes of the steps. *)

\* The fields by which a frame and its caller agree, of most frames.
SameLink(f, g) ==
    /\ g.kind = f.kind /\ g.addr = f.addr /\ g.blocking = f.blocking /\ g.dir = f.dir
    /\ g.mod = f.mod /\ g.except = f.except
    /\ f.kind \in {"evict", "invalidate"} => g.way = f.way
    /\ f.kind = "evict" =>
          g.srcWay = f.srcWay /\ (g.pc = "evict" <=> f.pc = "evict")
          /\ (g.pc = "reply" /\ g.error <=> f.pc = "reply" /\ f.error)

\* A frame that changes in its other fields still agrees with its caller.
LEMMA SameLinkOK ==
    ASSUME NEW f, NEW f1, NEW g, SameLink(f, f1), LinkOK(f, g)
    PROVE  LinkOK(f1, g)
<1>1. IsRequest(f1) <=> IsRequest(f)
  BY DEF SameLink, IsRequest
<1>2. f.kind = "find_and_lock" => FindLink(f1, g)
  BY DEF SameLink, LinkOK, FindLink
<1>3. f.kind = "evict" => EvictLink(f1, g)
  BY DEF SameLink, LinkOK, EvictLink
<1>4. f.kind = "invalidate" => InvalidateLink(f1, g)
  BY DEF SameLink, LinkOK, InvalidateLink
<1>5. IsRequest(f) => RequestLink(f1, g)
  BY DEF SameLink, LinkOK, RequestLink, Revokes, IsRequest
<1> QED BY <1>1, <1>2, <1>3, <1>4, <1>5 DEF SameLink, LinkOK

\* One frame changes.
LEMMA LinkedOne ==
    ASSUME NEW F, NEW d, Sys(F, d), NEW p \in DOMAIN F, Childless(F, p),
           NEW G, DOMAIN G = DOMAIN F, \A q \in DOMAIN F : q # p => G[q] = F[q],
           ~IsAccess(F[p]) => LinkOK(G[p], F[Front(p)])
    PROVE  Rest(F, G, {p}) /\ Linked(G, {p}) /\ Childless(G, p)
<1>1. Rest(F, G, {p}) /\ Childless(G, p)
  BY DEF Rest, Childless
<1>2. ASSUME NEW q \in DOMAIN G, Child(p, q) PROVE LinkOK(G[p], G[q])
  <2>1. q = Front(p) /\ q # p /\ ~IsAccess(F[p])
    BY <1>2, ChildFacts DEF Child, Sys
  <2> QED BY <1>2, <2>1
<1> QED BY <1>1, <1>2 DEF Linked, Childless

\* Frame p returns to s.
LEMMA LinkedReturn ==
    ASSUME NEW F, NEW d, Sys(F, d), NEW p \in DOMAIN F, Childless(F, p), ~IsAccess(F[p]),
           NEW s, s = Front(p), F[s].kind # "invalidate",
           NEW G, DOMAIN G = DOMAIN F \ {p}, \A q \in DOMAIN G : q # s => G[q] = F[q],
           ~IsAccess(F[s]) => LinkOK(G[s], F[Front(s)])
    PROVE  /\ Rest(F, G, {p, s}) /\ Linked(G, {p, s}) /\ Childless(G, s)
           /\ p \notin DOMAIN G /\ s \in DOMAIN G /\ s \in DOMAIN F /\ s # p /\ Child(p, s)
<1>1. s \in DOMAIN F /\ s # p /\ Child(p, s)
  BY FrameOf
<1>2. Rest(F, G, {p, s}) /\ p \notin DOMAIN G /\ s \in DOMAIN G
  BY <1>1 DEF Rest
<1>3. Childless(G, s)
  <2>1. \A q \in DOMAIN F : Child(q, s) => q = p
    BY <1>1, OnlyCall
  <2> QED BY <2>1 DEF Childless
<1>4. ASSUME NEW q \in DOMAIN G, Child(s, q) PROVE LinkOK(G[s], G[q])
  <2>1. q = Front(s) /\ q # s /\ ~IsAccess(F[s])
    BY <1>1, <1>4, ChildFacts DEF Child, Sys
  <2>2. G[q] = F[q]
    BY <2>1
  <2> QED BY <2>1, <2>2
<1> QED BY <1>1, <1>2, <1>3, <1>4 DEF Linked, Childless

\* Frame p replies to s, and both stay.
LEMMA LinkedTell ==
    ASSUME NEW F, NEW d, Sys(F, d), NEW p \in DOMAIN F, Childless(F, p), ~IsAccess(F[p]),
           NEW s, s = Front(p),
           NEW G, DOMAIN G = DOMAIN F, \A q \in DOMAIN F : q # p /\ q # s => G[q] = F[q],
           LinkOK(G[p], G[s]),
           \A r \in DOMAIN F : Child(r, s) /\ r # p => LinkOK(F[r], G[s]),
           ~IsAccess(F[s]) => LinkOK(G[s], F[Front(s)])
    PROVE  /\ Rest(F, G, {p, s}) /\ Linked(G, {p, s}) /\ Childless(G, p)
           /\ p \in DOMAIN G /\ s \in DOMAIN G /\ s \in DOMAIN F /\ s # p /\ Child(p, s)
<1>1. s \in DOMAIN F /\ s # p /\ Child(p, s)
  BY FrameOf
<1>2. Rest(F, G, {p, s}) /\ p \in DOMAIN G /\ s \in DOMAIN G
  BY <1>1 DEF Rest
<1>3. Childless(G, p)
  BY DEF Childless
<1>4. ASSUME NEW q \in DOMAIN G, Child(s, q) PROVE LinkOK(G[s], G[q])
  <2>1. q = Front(s) /\ q # s /\ ~IsAccess(F[s]) /\ q # p
    <3>1. q = Front(s) /\ q # s /\ ~IsAccess(F[s])
      BY <1>1, <1>4, ChildFacts DEF Child, Sys
    <3>2. q # p
      BY <1>1, <1>4 DEF Childless
    <3> QED BY <3>1, <3>2
  <2>2. G[q] = F[q]
    BY <2>1
  <2> QED BY <2>1, <2>2
<1>5. ASSUME NEW q \in DOMAIN G, Child(q, s) PROVE LinkOK(G[q], G[s])
  <2>1. q # s
    BY <1>5, ChildFacts DEF Sys, Child
  <2> QED BY <1>5, <2>1
<1>6. ASSUME NEW q \in DOMAIN G, Child(p, q) PROVE q = s
  BY <1>6 DEF Child
<1> QED BY <1>1, <1>2, <1>3, <1>4, <1>5, <1>6 DEF Linked, Childless

\* A new frame q below p, and no other change but that of p.
Calling(F, G, p, q) ==
    /\ q \notin DOMAIN F /\ Childless(F, q) /\ Child(q, p) /\ Front(q) = p /\ q # p
    /\ DOMAIN G = DOMAIN F \cup {q}
    /\ \A r \in DOMAIN F : r # p => G[r] = F[r]

\* The same with a new frame r below q.
CallingTwo(F, G, p, q, r) ==
    /\ q \notin DOMAIN F /\ Childless(F, q) /\ Child(q, p) /\ Front(q) = p /\ q # p
    /\ r \notin DOMAIN F /\ Childless(F, r) /\ Child(r, q) /\ Front(r) = q /\ r # q /\ r # p
    /\ DOMAIN G = DOMAIN F \cup {q, r}
    /\ \A z \in DOMAIN F : z # p => G[z] = F[z]

\* The path of a new frame below p.
Below(q, p) == \E x \in PathNames : q = Append(p, x)

\* The path of a new frame is new, and has no frames below it.
LEMMA BelowFacts ==
    ASSUME NEW F, Tree(F), NEW p \in DOMAIN F, Childless(F, p), NEW q, Below(q, p)
    PROVE  /\ q \notin DOMAIN F /\ Childless(F, q) /\ Child(q, p) /\ Front(q) = p
           /\ q # p /\ IsPath(q) /\ Len(q) = Len(p) + 1 /\ Len(p) \in Nat
<1>1. PICK x \in PathNames : q = Append(p, x)
  BY DEF Below
<1>2. IsPath(p)
  BY DEF Tree
<1>3. Append(p, x) \notin DOMAIN F /\ Childless(F, Append(p, x))
  BY AppendNew
<1>4. /\ IsPath(Append(p, x)) /\ Len(Append(p, x)) = Len(p) + 1 /\ Front(Append(p, x)) = p
      /\ Append(p, x) # p /\ Child(Append(p, x), p)
  BY <1>2, AppendFacts
<1>5. Len(p) \in Nat
  BY <1>2, PathFacts
<1> QED BY <1>1, <1>3, <1>4, <1>5

\* A path of two new frames.
LEMMA BelowPath ==
    ASSUME NEW q, IsPath(q), NEW r, Below(r, q)
    PROVE  Child(r, q) /\ Front(r) = q /\ r # q /\ Len(r) = Len(q) + 1 /\ IsPath(r)
  BY AppendFacts, PathFacts DEF Below

\* Call adds one frame.
LEMMA CallingOne ==
    ASSUME Tree(frames), NEW p \in DOMAIN frames, Childless(frames, p), NEW f,
           NEW q, Below(q, p), NEW g, NEW G, G = Call(With(p, f), q, g)
    PROVE  Calling(frames, G, p, q) /\ G[p] = f /\ G[q] = g
<1>1. /\ q \notin DOMAIN frames /\ Childless(frames, q) /\ Child(q, p) /\ Front(q) = p
      /\ q # p
  BY BelowFacts
<1>2. /\ DOMAIN G = DOMAIN frames \cup {q} /\ G[p] = f /\ G[q] = g
      /\ \A r \in DOMAIN frames : r # p => G[r] = frames[r]
  BY <1>1 DEF Call, With
<1> QED BY <1>1, <1>2 DEF Calling

\* Two calls add two frames.
LEMMA CallingBoth ==
    ASSUME Tree(frames), NEW p \in DOMAIN frames, Childless(frames, p), NEW f,
           NEW q, Below(q, p), NEW g, NEW r, Below(r, q), NEW h,
           NEW G, G = Call(Call(With(p, f), q, g), r, h)
    PROVE  CallingTwo(frames, G, p, q, r) /\ G[p] = f /\ G[q] = g /\ G[r] = h
<1>1. /\ q \notin DOMAIN frames /\ Childless(frames, q) /\ Child(q, p) /\ Front(q) = p
      /\ q # p /\ IsPath(q) /\ Len(q) = Len(p) + 1 /\ Len(p) \in Nat
  BY BelowFacts
<1>2. /\ Child(r, q) /\ Front(r) = q /\ r # q /\ Len(r) = Len(q) + 1
  BY <1>1, BelowPath
<1>3. r # p /\ r \notin DOMAIN frames /\ Childless(frames, r)
  <2>1. r # p
    BY <1>1, <1>2
  <2>2. r \notin DOMAIN frames
    BY <1>1, <1>2 DEF Childless
  <2>3. ASSUME NEW z \in DOMAIN frames, Child(z, r) PROVE FALSE
    BY <2>2, <2>3, ChildFacts DEF Child
  <2> QED BY <2>1, <2>2, <2>3 DEF Childless
<1> DEFINE H == Call(With(p, f), q, g)
<1>5. /\ DOMAIN H = DOMAIN frames \cup {q} /\ H[p] = f /\ H[q] = g
      /\ \A z \in DOMAIN frames : z # p => H[z] = frames[z]
  BY <1>1 DEF Call, With
<1>6. G = Call(H, r, h)
  OBVIOUS
<1> HIDE DEF H
<1>7. /\ DOMAIN G = DOMAIN frames \cup {q, r} /\ G[p] = f /\ G[q] = g /\ G[r] = h
      /\ \A z \in DOMAIN frames : z # p => G[z] = frames[z]
  BY <1>1, <1>2, <1>3, <1>5, <1>6 DEF Call
<1> QED BY <1>1, <1>2, <1>3, <1>7 DEF CallingTwo

\* Frame p changes, and calls a chain.
LEMMA LinkedCall ==
    ASSUME NEW F, NEW d, Sys(F, d), NEW p \in DOMAIN F, Childless(F, p),
           NEW q, NEW G, Calling(F, G, p, q),
           LinkOK(G[q], G[p]), ~IsAccess(F[p]) => LinkOK(G[p], F[Front(p)])
    PROVE  /\ Rest(F, G, {p, q}) /\ Linked(G, {p, q}) /\ Childless(G, q)
           /\ \A r \in DOMAIN G : Child(r, p) => r = q
           /\ p \in DOMAIN G /\ q \in DOMAIN G /\ q \notin DOMAIN F
<1>1. q \notin DOMAIN F /\ Childless(F, q) /\ Child(q, p) /\ Front(q) = p /\ q # p
  BY DEF Calling
<1>4. DOMAIN G = DOMAIN F \cup {q} /\ \A r \in DOMAIN F : r # p => G[r] = F[r]
  BY DEF Calling
<1>5. Rest(F, G, {p, q}) /\ p \in DOMAIN G /\ q \in DOMAIN G /\ q \notin DOMAIN F
  BY <1>1, <1>4 DEF Rest
<1>6. ASSUME NEW r \in DOMAIN G PROVE ~Child(r, q) /\ (Child(r, p) => r = q)
  <2>1. ~Child(q, q)
    BY <1>1 DEF Child
  <2> QED BY <1>1, <1>4, <2>1 DEF Childless
<1>7. ASSUME NEW r \in DOMAIN G, Child(p, r) PROVE LinkOK(G[p], G[r])
  <2>1. r \in DOMAIN F /\ r = Front(p) /\ r # p /\ ~IsAccess(F[p])
    BY <1>7, ChildFacts DEF Child, Sys
  <2> QED BY <1>4, <2>1
<1>8. ASSUME NEW r \in DOMAIN G PROVE (Child(q, r) => r = p) /\ (Child(p, r) => r # q /\ r # p)
  <2>1. Child(p, r) => r \in DOMAIN F /\ r # p
    BY <1>8, ChildFacts DEF Child, Sys
  <2> QED BY <1>1, <2>1 DEF Child
<1>9. Linked(G, {p, q})
  <2> SUFFICES ASSUME NEW a \in {p, q}, NEW r \in DOMAIN G
               PROVE  /\ Child(r, a) => LinkOK(G[r], G[a])
                      /\ Child(a, r) => LinkOK(G[a], G[r])
    BY DEF Linked
  <2>1. CASE a = p
    BY <1>4, <1>6, <1>7, <2>1
  <2>2. CASE a = q
    BY <1>4, <1>6, <1>8, <2>2
  <2> QED BY <2>1, <2>2
<1> QED BY <1>5, <1>6, <1>9 DEF Childless

\* Frame p changes, and calls a chain that has called another one.
LEMMA LinkedCalls ==
    ASSUME NEW F, NEW d, Sys(F, d), NEW p \in DOMAIN F, Childless(F, p),
           NEW q, NEW r, NEW G, CallingTwo(F, G, p, q, r),
           LinkOK(G[r], G[q]), LinkOK(G[q], G[p]),
           ~IsAccess(F[p]) => LinkOK(G[p], F[Front(p)])
    PROVE  /\ Rest(F, G, {p, q, r}) /\ Linked(G, {p, q, r}) /\ Childless(G, r)
           /\ \A z \in DOMAIN G : (Child(z, p) => z = q) /\ (Child(z, q) => z = r)
           /\ p \in DOMAIN G /\ q \in DOMAIN G /\ r \in DOMAIN G
           /\ q \notin DOMAIN F /\ r \notin DOMAIN F
<1>1. q \notin DOMAIN F /\ Childless(F, q) /\ Child(q, p) /\ Front(q) = p /\ q # p
  BY DEF CallingTwo
<1>2. Child(r, q) /\ Front(r) = q /\ r # q
  BY DEF CallingTwo
<1>3. r # p /\ r \notin DOMAIN F /\ Childless(F, r)
  BY DEF CallingTwo
<1>7. DOMAIN G = DOMAIN F \cup {q, r} /\ \A z \in DOMAIN F : z # p => G[z] = F[z]
  BY DEF CallingTwo
<1>8. /\ Rest(F, G, {p, q, r}) /\ p \in DOMAIN G /\ q \in DOMAIN G /\ r \in DOMAIN G
      /\ q \notin DOMAIN F /\ r \notin DOMAIN F
  BY <1>1, <1>3, <1>7 DEF Rest
<1>9. ASSUME NEW z \in DOMAIN G
      PROVE  ~Child(z, r) /\ (Child(z, p) => z = q) /\ (Child(z, q) => z = r)
  <2>1. Front(q) = p /\ Front(r) = q /\ p # q /\ q # r /\ p # r
    BY <1>1, <1>2, <1>3
  <2>2. z \in DOMAIN F => ~Child(z, p) /\ ~Child(z, q) /\ ~Child(z, r)
    BY <1>1, <1>3 DEF Childless
  <2> QED BY <1>7, <2>1, <2>2 DEF Child
<1>10. ASSUME NEW z \in DOMAIN G, Child(p, z) PROVE LinkOK(G[p], G[z])
  <2>1. z \in DOMAIN F /\ z = Front(p) /\ z # p /\ ~IsAccess(F[p])
    BY <1>10, ChildFacts DEF Child, Sys
  <2> QED BY <1>7, <2>1
<1>11. \A z \in DOMAIN G : (Child(q, z) => z = p) /\ (Child(r, z) => z = q)
  BY <1>1, <1>2 DEF Child
<1>12. Linked(G, {p, q, r})
  <2> SUFFICES ASSUME NEW a \in {p, q, r}, NEW z \in DOMAIN G
               PROVE  /\ Child(z, a) => LinkOK(G[z], G[a])
                      /\ Child(a, z) => LinkOK(G[a], G[z])
    BY DEF Linked
  <2>1. CASE a = p
    BY <1>7, <1>9, <1>10, <2>1
  <2>2. CASE a = q
    BY <1>7, <1>9, <1>11, <2>2
  <2>3. CASE a = r
    BY <1>7, <1>9, <1>11, <2>3
  <2> QED BY <2>1, <2>2, <2>3
<1> QED BY <1>8, <1>9, <1>12 DEF Childless
-----------------------------------------------------------------------------
(* The frames of a step. *)

\* The fields of a frame that most steps leave alone.
Alike(f, g) ==
    /\ g.kind = f.kind /\ g.mod = f.mod /\ g.addr = f.addr /\ g.target = f.target
    /\ g.dir = f.dir /\ g.blocking = f.blocking /\ g.way = f.way /\ g.tag = f.tag
    /\ g.state = f.state /\ g.hit = f.hit /\ g.notFound = f.notFound
    /\ g.eviction = f.eviction /\ g.except = f.except
    /\ g.srcWay = f.srcWay /\ g.srcTag = f.srcTag

\* Frames that are alike hold the same lock, if any.
LEMMA AlikeFacts ==
    ASSUME NEW f, NEW g, Alike(f, g)
    PROVE  /\ Where(g) = Where(f) /\ (IsAccess(g) <=> IsAccess(f))
           /\ (IsRequest(g) <=> IsRequest(f)) /\ (IsUpDown(g) <=> IsUpDown(f))
           /\ (Revokes(g) <=> Revokes(f))
  BY DEF Alike, Where, IsAccess, IsRequest, IsUpDown, Revokes

\* A frame that goes to another event.
LEMMA NextAlike ==
    ASSUME NEW f \in Frame, NEW e \in Events, NEW g, g = [f EXCEPT !.pc = e]
    PROVE  /\ g \in Frame /\ g.pc = e /\ Alike(f, g) /\ g.error = f.error
           /\ g.reply = f.reply /\ g.shared = f.shared
  BY DEF Frame, Alike

\* A frame that calls a chain.
LEMMA CallAlike ==
    ASSUME NEW f \in Frame, NEW b \in BOOLEAN,
           NEW g, \/ g = [f EXCEPT !.pc = "call", !.error = FALSE, !.shared = b]
                  \/ g = [f EXCEPT !.pc = "call", !.error = FALSE]
    PROVE  g \in Frame /\ g.pc = "call" /\ Alike(f, g) /\ g.error = FALSE /\ g.reply = f.reply
<1>1. CASE g = [f EXCEPT !.pc = "call", !.error = FALSE, !.shared = b]
  BY <1>1 DEF Frame, Alike, Events
<1>2. CASE g = [f EXCEPT !.pc = "call", !.error = FALSE]
  BY <1>2 DEF Frame, Alike, Events
<1> QED BY <1>1, <1>2

\* A frame that waits for replies, or whose request has not replied, needs nothing.
LEMMA NotAnswered ==
    ASSUME NEW F, NEW c, NEW G, NEW x, ~Ready(G[x]),
           \A q \in DOMAIN G : Child(q, x) => ~IsUpDown(G[q]) \/ G[q].pc # "reply"
    PROVE  Backed(F, c, G, x)
  BY DEF Backed, Granted, Answered

\* The frames of accesses.
LEMMA AccessLeaves ==
    ASSUME NEW F, NEW G, NEW x, IsAccess(F[x])
    PROVE  Leaves(F, G, x)
  BY DEF Leaves, IsLost, Revoking, Revokes, IsAccess

\* The changed frame of an access fits, if the access backs what it needs.
LEMMA AccessFits ==
    ASSUME NEW F, NEW c, NEW G, NEW c1, NEW d1, NEW X, NEW x, G[x] \in Frame, IsAccess(G[x]),
           Holds(G[x]) => HeldOK(G[x], c1[Where(G[x])][G[x].way]), Backed(F, c, G, x),
           G[x].pc = "miss" => G[x].state = "I", G[x].pc # "updown_miss"
    PROVE  Fits(F, c, G, c1, d1, X, x)
<1>1. FlowOK(G[x])
  BY DEF FlowOK, IsAccess, IsRequest
<1>2. LeanOK(G[x], c1, d1)
  BY DEF LeanOK, IsAccess
<1>3. ~Cleared(G, x) /\ ~IsUpDown(G[x]) /\ ReadQuiet(G[x], F, c)
  BY DEF Cleared, IsUpDown, IsAccess, IsRequest, ReadQuiet
<1> QED BY <1>1, <1>2, <1>3 DEF Fits, Shows

\* The frame of a find-and-lock chain that is called.
FindFrame(ret, m, t, direction, b) ==
    [NewFrame("find_and_lock", ret, m, t) EXCEPT !.dir = direction, !.blocking = b]

\* A new frame of find_and_lock.
LEMMA NewFind ==
    ASSUME NEW ret \in Events, NEW m \in Modules, NEW t \in Tag,
           NEW direction \in {"updown", "downup"}, NEW b \in BOOLEAN,
           NEW g, g = FindFrame(ret, m, t, direction, b)
    PROVE  /\ g \in Frame /\ g.kind = "find_and_lock" /\ g.pc = "find" /\ g.mod = m
           /\ g.addr = t /\ g.dir = direction /\ g.blocking = b /\ g.ret = ret
           /\ FindFlow(g) /\ FlowOK(g)
<1>1. PICK n : n = NewFrame("find_and_lock", ret, m, t)
  OBVIOUS
<1>2. /\ n \in Frame /\ n.kind = "find_and_lock" /\ n.pc = "find" /\ n.mod = m /\ n.addr = t
      /\ n.hit = FALSE /\ n.error = FALSE /\ n.eviction = FALSE /\ n.ret = ret
  BY <1>1, HierarchyAssumption DEF NewFrame, Frame, Events, Tag, BlockStates, Kinds
<1>3. g = [n EXCEPT !.dir = direction, !.blocking = b]
  BY <1>1 DEF FindFrame
<1>4. /\ g \in Frame /\ g.kind = "find_and_lock" /\ g.pc = "find" /\ g.mod = m /\ g.addr = t
      /\ g.hit = FALSE /\ g.error = FALSE /\ g.eviction = FALSE /\ g.ret = ret
      /\ g.dir = direction /\ g.blocking = b
  BY ONLY <1>2, <1>3, direction \in {"updown", "downup"}, b \in BOOLEAN DEF Frame
<1>5. FindFlow(g)
  BY <1>4 DEF FindFlow
<1> QED BY <1>4, <1>5 DEF FlowOK, IsRequest

\* The new frame of find_and_lock fits.
LEMMA FindFits ==
    ASSUME NEW F, NEW c, NEW G, NEW c1, NEW d1, NEW X, NEW x, G[x] \in Frame,
           G[x].kind = "find_and_lock", FlowOK(G[x]),
           Holds(G[x]) => FoundOK(G[x], c1[G[x].mod][G[x].way]),
           \A q \in DOMAIN G : Child(q, x) => ~IsUpDown(G[q])
    PROVE  Fits(F, c, G, c1, d1, X, x)
<1>1. LeanOK(G[x], c1, d1)
  BY DEF LeanOK
<1>2. ~Cleared(G, x) /\ ~IsUpDown(G[x]) /\ ReadQuiet(G[x], F, c)
  BY DEF Cleared, IsUpDown, IsRequest, ReadQuiet
<1>3. ASSUME NEW K \in Rights, Granted(G, x, K) PROVE FALSE
  <2>1. Holds(G[x]) /\ Answered(G, x)
    BY <1>3 DEF Granted
  <2>2. G[x].pc \in {"call", "action", "finish"}
    BY <2>1 DEF Holds, IsAccess, IsRequest
  <2>3. ~Ready(G[x])
    BY <2>2 DEF Ready
  <2> QED BY <2>1, <2>3 DEF Answered
<1> QED BY <1>1, <1>2, <1>3 DEF Fits, Shows, Backed
-----------------------------------------------------------------------------
(* Accesses. *)

\* The frame of an access goes on.
LEMMA AccessGoes ==
    ASSUME NEW F, NEW c, NEW d, Sys(F, d), Copies(F, c, d), NEW p \in DOMAIN F, Childless(F, p),
           IsAccess(F[p]), NEW f \in Frame, IsAccess(f),
           NEW G, DOMAIN G = DOMAIN F, G[p] = f, \A q \in DOMAIN F : q # p => G[q] = F[q],
           Holds(f) => HeldOK(f, c[Where(f)][f.way]), f.pc \notin {"miss", "updown_miss"},
           \A K \in Rights : Granted(G, p, K) => Needs(F, c, Where(f), f.tag, K)
    PROVE  Copies(G, c, d)
<1>1. Rest(F, G, {p}) /\ Linked(G, {p})
  BY LinkedOne
<1>2. \A x \in {p} \cap DOMAIN G : Fits(F, c, G, c, d, {p}, x)
  <2>1. Backed(F, c, G, p)
    BY DEF Backed
  <2>2. Fits(F, c, G, c, d, {p}, p)
    BY <2>1, AccessFits
  <2> QED BY <2>2
<1>3. \A x \in {p} \cap DOMAIN F : Leaves(F, G, x)
  BY AccessLeaves
<1> QED BY <1>1, <1>2, <1>3, FramesStep

\* A processor issues an access.
LEMMA IssueCopies ==
    ASSUME Inv, Inv', Copies(frames, cache, dir),
           NEW kind \in {"load", "store"}, NEW m \in TopModules, NEW t \in Tags, Issue(kind, m, t)
    PROVE  Copies(frames, cache, dir)'
<1>1. PICK p, g : /\ Len(p) = 1 /\ g = NewAccess(kind, m, t) /\ p \notin DOMAIN frames
                  /\ frames' = Call(frames, p, g) /\ UNCHANGED <<cache, dir>>
  <2> DEFINE free == {a \in Accesses : <<a>> \notin DOMAIN frames}
             a == Min(free)
  <2>1. /\ free # {} /\ UNCHANGED <<cache, dir>>
        /\ frames' = Call(frames, <<a>>, NewAccess(kind, m, t))
    BY DEF Issue
  <2>2. a \in free
    <3>1. free \subseteq Nat
      BY DEF Accesses
    <3>2. \E x \in free : \A y \in free : x <= y
      <4> HIDE DEF free
      <4> QED BY <2>1, <3>1, LeastNumber
    <3> HIDE DEF free
    <3> QED BY <3>2 DEF Min
  <2> HIDE DEF a
  <2>3. Len(<<a>>) = 1 /\ <<a>> \notin DOMAIN frames
    BY <2>2
  <2> QED BY <2>1, <2>3
<1>2. PICK G : G = frames'
  OBVIOUS
<1>3. /\ DOMAIN G = DOMAIN frames \cup {p} /\ G[p] = g /\ \A q \in DOMAIN frames : G[q] = frames[q]
  BY <1>1, <1>2 DEF Call
<1>4. Sys(frames, dir) /\ Sys(G, dir)
  BY <1>1, <1>2 DEF Inv
<1>5. g \in Frame /\ FrameOK(g) /\ IsAccess(g) /\ g.pc = "lock"
  <2>1. g \in Frame /\ FrameOK(g)
    BY <1>3, <1>4, FrameOf
  <2>2. g.kind = kind /\ g.pc = "lock"
    BY <1>1 DEF NewAccess, NewFrame
  <2> QED BY <2>1, <2>2 DEF IsAccess
<1>6. ~Holds(g)
  BY <1>5 DEF FrameOK, AccessOK, Holds, IsAccess, IsRequest
<1>7. \A q \in DOMAIN G : ~Child(q, p) /\ ~Child(p, q)
  <2>1. ASSUME NEW q \in DOMAIN G, Child(q, p) PROVE FALSE
    <3>1. CallOK(G[q], G[p])
      BY <1>3, <1>4, <2>1 DEF Sys, Tree
    <3> QED BY <1>3, <1>5, <3>1 DEF CallOK, IsAccess
  <2> QED BY <1>1, <2>1 DEF Child
<1>8. Rest(frames, G, {p}) /\ Linked(G, {p})
  BY <1>3, <1>7 DEF Rest, Linked
<1>9. Backed(frames, cache, G, p)
  BY <1>3, <1>6 DEF Backed, Granted
<1>10. Fits(frames, cache, G, cache, dir, {p}, p)
  BY <1>3, <1>5, <1>6, <1>9, AccessFits
<1>11. Copies(G, cache, dir)
  BY <1>1, <1>4, <1>8, <1>10, FramesStep
<1> QED BY <1>1, <1>2, <1>11

\* An access finishes.
LEMMA FinishCopies ==
    ASSUME Inv, Inv', Copies(frames, cache, dir),
           NEW a \in Accesses, <<a>> \in DOMAIN frames, Finish(a)
    PROVE  Copies(frames, cache, dir)'
<1>1. PICK p : p = <<a>> /\ p \in DOMAIN frames /\ Len(p) = 1
  OBVIOUS
<1>2. UNCHANGED <<cache, dir>> /\ frames' = [q \in DOMAIN frames \ {p} |-> frames[q]]
  BY <1>1 DEF Finish
<1>3. Sys(frames, dir) /\ IsAccess(frames[p])
  BY <1>1 DEF Inv, Sys, Tree
<1>4. PICK G : G = frames'
  OBVIOUS
<1>5. Rest(frames, G, {p}) /\ Linked(G, {p}) /\ {p} \cap DOMAIN G = {}
  BY <1>2, <1>4 DEF Rest, Linked
<1>6. \A x \in {p} \cap DOMAIN frames : Leaves(frames, G, x)
  BY <1>3, AccessLeaves
<1>7. Copies(G, cache, dir)
  BY <1>3, <1>5, <1>6, FramesStep
<1> QED BY <1>2, <1>4, <1>7

\* An access calls a find-and-lock chain.
LEMMA AccessCalls ==
    ASSUME NEW F, NEW c, NEW d, Sys(F, d), Copies(F, c, d), NEW p \in DOMAIN F, Childless(F, p),
           IsAccess(F[p]), F[p].way = 0, NEW q, NEW G, Calling(F, G, p, q),
           G[p] \in Frame, Alike(F[p], G[p]), G[p].pc = "call",
           G[q] \in Frame, G[q].kind = "find_and_lock", G[q].pc = "find", FlowOK(G[q])
    PROVE  Copies(G, c, d)
<1>1. IsAccess(G[p]) /\ ~Holds(G[p])
  <2>1. IsAccess(G[p]) /\ G[p].way = 0
    BY AlikeFacts DEF Alike
  <2> QED BY <2>1 DEF Holds, IsAccess, IsRequest
<1>2. LinkOK(G[q], G[p])
  BY <1>1 DEF LinkOK, FindLink, IsAccess, IsRequest
<1>3. /\ Rest(F, G, {p, q}) /\ Linked(G, {p, q}) /\ Childless(G, q)
      /\ p \in DOMAIN G /\ q \in DOMAIN G /\ q \notin DOMAIN F
  BY <1>2, LinkedCall
<1>4. Fits(F, c, G, c, d, {p, q}, p)
  BY <1>1, AccessFits DEF Backed, Granted
<1>5. Fits(F, c, G, c, d, {p, q}, q)
  <2>1. ~Holds(G[q])
    BY DEF Holds, IsAccess, IsRequest
  <2> QED BY <1>3, <2>1, FindFits DEF Childless
<1>6. \A x \in {p, q} \cap DOMAIN F : Leaves(F, G, x)
  BY <1>3, AccessLeaves
<1> QED BY <1>3, <1>4, <1>5, <1>6, FramesStep

\* load_lock and store_lock.
LEMMA AccessLockCopies ==
    ASSUME Inv, Inv', Copies(frames, cache, dir), NEW a \in Accesses, <<a>> \in DOMAIN frames,
           NEW kind \in {"load", "store"}, AccessLock(a, kind, "action")
    PROVE  Copies(frames, cache, dir)'
<1>1. PICK p : p = <<a>> /\ p \in DOMAIN frames
  OBVIOUS
<1>2. PICK fr : fr = frames[p]
  OBVIOUS
<1>3. /\ fr.kind = kind /\ fr.pc = "lock"
      /\ frames' = CallFindAndLock(p, fr, "action", fr.mod, fr.addr, "updown", TRUE)
      /\ UNCHANGED <<cache, dir>>
  BY <1>1, <1>2 DEF AccessLock
<1>4. /\ fr \in Frame /\ FrameOK(fr) /\ IsAccess(fr) /\ Sys(frames, dir) /\ fr.way = 0
      /\ fr.mod \in Modules /\ fr.addr \in Tag
  <2>1. Sys(frames, dir) /\ IsAccess(fr)
    BY <1>3 DEF Inv, IsAccess
  <2>2. fr \in Frame /\ FrameOK(fr) /\ fr.mod \in Modules /\ fr.addr \in Tag
    BY <1>1, <1>2, <2>1, FrameOf
  <2> QED BY <1>3, <2>1, <2>2 DEF FrameOK, AccessOK
<1>5. Childless(frames, p)
  BY <1>1, <1>2, <1>3, <1>4, NoChildren DEF Sys, IsAccess
<1>6. PICK f : f = [fr EXCEPT !.pc = "call", !.error = FALSE]
  OBVIOUS
<1>7. PICK g : g = [NewFrame("find_and_lock", "action", fr.mod, fr.addr) EXCEPT
                       !.dir = "updown", !.blocking = TRUE]
  OBVIOUS
<1>8. PICK q, x : x = "find" /\ q = Append(p, x)
  OBVIOUS
<1>9. PICK G : G = frames'
  OBVIOUS
<1>10. Calling(frames, G, p, q) /\ G[p] = f /\ G[q] = g
  <2>1. G = Call(With(p, f), q, g)
    BY <1>3, <1>6, <1>7, <1>8, <1>9 DEF CallFindAndLock
  <2>2. Below(q, p)
    <3>1. x \in PathNames
      BY <1>8 DEF PathNames
    <3> QED BY <1>8, <3>1 DEF Below
  <2>3. Tree(frames) /\ p \in DOMAIN frames /\ Childless(frames, p)
    BY <1>1, <1>4, <1>5 DEF Sys
  <2> QED BY ONLY <2>1, <2>2, <2>3, CallingOne
<1>11. f \in Frame /\ f.pc = "call" /\ Alike(fr, f)
  <2>1. TRUE \in BOOLEAN
    OBVIOUS
  <2> QED BY <1>4, <1>6, <2>1, CallAlike
<1>12. /\ g \in Frame /\ g.kind = "find_and_lock" /\ g.pc = "find" /\ FlowOK(g)
  <2>1. PICK e : e = "action"
    OBVIOUS
  <2>2. PICK u : u = "updown"
    OBVIOUS
  <2>3. e \in Events /\ u \in {"updown", "downup"} /\ fr.mod \in Modules /\ fr.addr \in Tag
    BY <1>4, <2>1, <2>2 DEF Events
  <2>4. g = FindFrame(e, fr.mod, fr.addr, u, TRUE)
    BY <1>7, <2>1, <2>2 DEF FindFrame
  <2>5. PICK b \in BOOLEAN : g = FindFrame(e, fr.mod, fr.addr, u, b)
    BY <2>4
  <2> QED BY ONLY <2>3, <2>5, NewFind
<1>13. Copies(G, cache, dir)
  BY <1>1, <1>2, <1>4, <1>5, <1>10, <1>11, <1>12, AccessCalls
<1> QED BY <1>3, <1>9, <1>13

\* A step that wakes frames up is one of the frames woken up.
LEMMA WokenStep ==
    ASSUME NEW F, NEW c, NEW d, Sys(F, d), Copies(F, c, d), NEW m, NEW w,
           NEW E, NEW X, Rest(F, E, X),
           \A x \in X : /\ x \in DOMAIN F => F[x].pc # "wait"
                        /\ x \in DOMAIN E => E[x].pc # "wait",
           NEW G, G = WakeupAll(E, m, w)
    PROVE  \E W : /\ Sys(W, d) /\ Copies(W, c, d) /\ DOMAIN W = DOMAIN F /\ DOMAIN G = DOMAIN E
                  /\ \A x \in X : /\ x \in DOMAIN F => W[x] = F[x]
                                  /\ x \in DOMAIN E => G[x] = E[x]
                  /\ \A q \in DOMAIN F : q \notin X => G[q] = W[q]
<1>1. PICK W : W = WakeupAll(F, m, w)
  OBVIOUS
<1>2. /\ Sys(W, d) /\ Copies(W, c, d) /\ DOMAIN W = DOMAIN F
      /\ \A q \in DOMAIN F : F[q].pc # "wait" => W[q] = F[q]
  BY <1>1, Woken
<1>3. Rest(W, G, X) /\ DOMAIN G = DOMAIN E /\ \A x \in X \cap DOMAIN E : G[x] = E[x]
  <2>1. \A x \in X \cap DOMAIN E : E[x].pc # "wait"
    OBVIOUS
  <2> QED BY <1>1, <2>1, WokenRest
<1>4. \A q \in DOMAIN F : q \notin X => G[q] = W[q]
  BY <1>2, <1>3 DEF Rest
<1> QED BY <1>2, <1>3, <1>4

\* Frame p becomes f.
LEMMA WithFacts ==
    ASSUME NEW p \in DOMAIN frames, NEW f, NEW G, G = With(p, f)
    PROVE  DOMAIN G = DOMAIN frames /\ G[p] = f /\ \A q \in DOMAIN frames : q # p => G[q] = frames[q]
  BY DEF With

\* An access that has its entry locked changes its block or gives the lock back.
LEMMA AccessChanges ==
    ASSUME NEW F, NEW c, NEW d, Sys(F, d), Copies(F, c, d),
           NEW p \in DOMAIN F, Childless(F, p), IsAccess(F[p]), Holds(F[p]),
           NEW m0, m0 = F[p].mod, NEW w0, w0 = F[p].way,
           NEW G, DOMAIN G = DOMAIN F, G[p] \in Frame, IsAccess(G[p]), G[p].mod = m0,
           \A q \in DOMAIN F : q # p => G[q] = F[q],
           G[p].pc \notin {"miss", "updown_miss"},
           NEW c1, NEW d1, OffEntry(c, d, c1, d1, m0, w0),
           Holds(G[p]) => G[p].way = w0 /\ HeldOK(G[p], c1[m0][w0]), Backed(F, c, G, p),
           \/ c1[m0][w0] = c[m0][w0]
           \/ /\ c1[m0][w0].transient = c[m0][w0].transient /\ c1[m0][w0].tag = F[p].tag
              /\ c1[m0][w0].state # "I" /\ ~F[p].error
              /\ \/ F[p].pc = "miss" /\ (c1[m0][w0].state \in Exclusive => ~F[p].shared)
                 \/ F[p].kind = "store" /\ F[p].pc = "unlock",
           d1[m0][w0].sharers = d[m0][w0].sharers, d1[m0][w0].owner = d[m0][w0].owner
    PROVE  Copies(G, c1, d1)
<1>1. Where(F[p]) = m0 /\ Where(G[p]) = m0 /\ F[p].kind # "find_and_lock"
  BY DEF Where, IsAccess
<1>2. Rest(F, G, {p}) /\ Linked(G, {p})
  BY LinkedOne
<1>3. Fits(F, c, G, c1, d1, {p}, p)
  BY <1>1, AccessFits
<1>4. Leaves(F, G, p)
  BY AccessLeaves
<1>5. HeldOK(F[p], c[m0][w0])
  BY <1>1 DEF Copies, Leaning, LeanOK
<1>6. \/ c1[m0][w0] = c[m0][w0]
      \/ /\ c1[m0][w0].transient = c[m0][w0].transient /\ c1[m0][w0].tag = F[p].tag
         /\ c[m0][w0].state # "I" => c[m0][w0].tag = F[p].tag
         /\ c1[m0][w0].state # "I"
         /\ \A K \in Rights :
               m0 # MainMemory /\ c1[m0][w0].state \in K => Needs(F, c, m0, F[p].tag, K)
  <2>1. CASE c1[m0][w0] # c[m0][w0]
    <3>1. ASSUME NEW K \in Rights, c1[m0][w0].state \in K PROVE Needs(F, c, m0, F[p].tag, K)
      <4>1. Ready(F[p])
        BY <2>1 DEF Ready
      <4>2. K = Exclusive => F[p].kind \in {"store", "write_request"} \/ ~F[p].shared
        BY <2>1, <3>1
      <4>3. Granted(F, p, K)
        BY <2>1, <4>1, <4>2 DEF Granted, Answered
      <4> QED BY <1>1, <4>3 DEF Needs, Due
    <3> QED BY <1>5, <2>1, <3>1 DEF HeldOK
  <2> QED BY <2>1
<1>7. /\ \A x \in {p} \cap DOMAIN G : Fits(F, c, G, c1, d1, {p}, x)
      /\ \A x \in {p} \cap DOMAIN F : Leaves(F, G, x)
      /\ p \in {p}
  BY <1>3, <1>4
<1>8. m0 = Where(F[p])
  BY <1>1
<1> QED BY ONLY <1>2, <1>6, <1>7, <1>8, HolderKeeps, Sys(F, d), Copies(F, c, d), p \in DOMAIN F,
           Childless(F, p), Holds(F[p]), w0 = F[p].way, OffEntry(c, d, c1, d1, m0, w0),
           d1[m0][w0].sharers = d[m0][w0].sharers, d1[m0][w0].owner = d[m0][w0].owner

\* An access unlocks its entry, and finishes or starts anew; a store has written
\* its block then.
LEMMA AccessReleases ==
    ASSUME Inv, Copies(frames, cache, dir), NEW p \in DOMAIN frames,
           Childless(frames, p), NEW fr, fr = frames[p], IsAccess(fr), Holds(fr),
           NEW f, f = Retry(fr) \/ f = [fr EXCEPT !.pc = "finish"],
           UnlockEntry(fr.mod, fr.way, dir[fr.mod][fr.way], With(p, f)),
           NEW c1, \/ c1 = cache
                   \/ /\ c1 = BlockTo(cache, fr.mod, fr.way, fr.tag, "M")
                      /\ fr.kind = "store" /\ fr.pc = "unlock" /\ ~fr.error
    PROVE  Copies(frames', c1, dir')
<1>1. /\ Sys(frames, dir) /\ Storage(cache, dir) /\ fr \in Frame /\ FrameOK(fr)
      /\ Where(fr) = fr.mod
  BY FrameOf DEF Inv, Where, IsAccess
<1>2. /\ f \in Frame /\ IsAccess(f) /\ ~Holds(f) /\ f.pc \in {"lock", "finish"} /\ f.mod = fr.mod
  <2>1. CASE f = Retry(fr)
    <3>1. f \in Frame /\ SameCall(fr, f) /\ ~Holds(f) /\ f.pc = "lock"
      BY <1>1, <2>1, RetryFacts
    <3>2. f.kind = fr.kind /\ f.mod = fr.mod
      BY <2>1 DEF Retry, NewAccess, NewFrame
    <3> QED BY <3>1, <3>2 DEF IsAccess
  <2>2. CASE f = [fr EXCEPT !.pc = "finish"]
    <3>1. f \in Frame /\ SameCall(fr, f) /\ ~Holds(f) /\ f.pc = "finish"
      BY <1>1, <2>2, FinishedFacts
    <3>2. f.kind = fr.kind /\ f.mod = fr.mod
      BY <1>1, <2>2 DEF Frame
    <3> QED BY <3>1, <3>2 DEF IsAccess
  <2> QED BY <2>1, <2>2
<1>3. PICK m, w : m = fr.mod /\ w = fr.way
  OBVIOUS
<1>4. PICK G, d1 : G = frames' /\ d1 = dir'
  OBVIOUS
<1>5. m \in Modules /\ w \in Ways(m) /\ dir[m][w] \in Entry
  BY <1>1, <1>3, FrameOf, HeldEntry
<1>6. PICK e : e = Unlocked(dir[m][w])
  OBVIOUS
<1>7. d1 = [dir EXCEPT ![m][w] = e] /\ G = WakeupAll(With(p, f), m, w)
  BY <1>3, <1>4, <1>6 DEF UnlockEntry
<1>8. /\ d1[m][w].sharers = dir[m][w].sharers /\ d1[m][w].owner = dir[m][w].owner
      /\ \A n \in Modules : \A v \in Ways(n) : n # m \/ v # w => d1[n][v] = dir[n][v]
  BY <1>1, <1>5, <1>6, <1>7, UnlockedEntry, EntrySet
<1>9. PICK E : E = With(p, f)
  OBVIOUS
<1>10. DOMAIN E = DOMAIN frames /\ E[p] = f /\ \A q \in DOMAIN frames : q # p => E[q] = frames[q]
  BY <1>9, WithFacts
<1>11. fr.pc # "wait" /\ f.pc # "wait"
  BY <1>1, <1>2 DEF FrameOK, AccessOK
<1>12. PICK W : /\ Sys(W, dir) /\ Copies(W, cache, dir) /\ DOMAIN W = DOMAIN frames
                /\ DOMAIN G = DOMAIN frames /\ W[p] = fr /\ G[p] = f
                /\ \A q \in DOMAIN frames : q # p => G[q] = W[q]
  <2>1. Rest(frames, E, {p})
    BY <1>10 DEF Rest
  <2>2. \A x \in {p} : /\ x \in DOMAIN frames => frames[x].pc # "wait"
                       /\ x \in DOMAIN E => E[x].pc # "wait"
    BY <1>10, <1>11
  <2>3. G = WakeupAll(E, m, w)
    BY <1>7, <1>9
  <2>4. \E W : /\ Sys(W, dir) /\ Copies(W, cache, dir) /\ DOMAIN W = DOMAIN frames
               /\ DOMAIN G = DOMAIN E
               /\ \A x \in {p} : /\ x \in DOMAIN frames => W[x] = frames[x]
                                 /\ x \in DOMAIN E => G[x] = E[x]
               /\ \A q \in DOMAIN frames : q \notin {p} => G[q] = W[q]
    BY ONLY <1>1, <2>1, <2>2, <2>3, WokenStep, Copies(frames, cache, dir)
  <2> QED BY <1>10, <2>4
<1>13. /\ \/ c1[m][w] = cache[m][w]
          \/ /\ c1[m][w].transient = cache[m][w].transient /\ c1[m][w].tag = fr.tag
             /\ c1[m][w].state # "I" /\ ~fr.error /\ fr.kind = "store" /\ fr.pc = "unlock"
       /\ \A n \in Modules : \A v \in Ways(n) : n # m \/ v # w => c1[n][v] = cache[n][v]
  <2>1. CASE c1 = cache
    BY <2>1
  <2>2. CASE c1 # cache
    <3>1. PICK s, t : s = "M" /\ t = fr.tag
      OBVIOUS
    <3>2. c1 = BlockTo(cache, m, w, t, s)
      BY <1>3, <2>2, <3>1
    <3>3. /\ c1[m][w].tag = t /\ c1[m][w].state = s
          /\ c1[m][w].transient = cache[m][w].transient
          /\ \A n \in Modules : \A v \in Ways(n) : n # m \/ v # w => c1[n][v] = cache[n][v]
      BY ONLY <1>1, <1>5, <3>2, BlockSet
    <3> QED BY <2>2, <3>1, <3>3
  <2> QED BY <2>1, <2>2
<1>14. OffEntry(cache, dir, c1, d1, m, w)
  BY <1>8, <1>13 DEF OffEntry
<1>15. Backed(W, cache, G, p)
  BY <1>2, <1>12 DEF Backed, Granted
<1>16. Childless(W, p) /\ IsAccess(W[p]) /\ Holds(W[p])
  BY <1>12 DEF Childless
<1>17. Copies(G, c1, d1)
  BY <1>2, <1>3, <1>8, <1>12, <1>13, <1>14, <1>15, <1>16, AccessChanges
<1> QED BY <1>4, <1>17

\* A frame that has a lock calls a request, whose receiver looks the block up.
LEMMA RequestCalls ==
    ASSUME NEW F, NEW c, NEW d, Sys(F, d), Copies(F, c, d),
           NEW p \in DOMAIN F, Childless(F, p), Holds(F[p]), IsAccess(F[p]) \/ IsRequest(F[p]),
           F[p].pc # "updown_finish", F[p].kind = "write_request" => F[p].pc = "exclusive",
           NEW q, NEW r, NEW G, CallingTwo(F, G, p, q, r),
           G[p] \in Frame, G[p].pc = "call", Alike(F[p], G[p]), ~G[p].error,
           G[q] \in Frame, IsRequest(G[q]), G[q].pc = "call", G[q].way = 0, ~G[q].error,
           ~G[q].notFound, G[q].mod = Where(F[p]), G[q].addr = F[p].tag,
           \/ G[q].dir = "updown" /\ G[q].target = Low[G[q].mod]
           \/ /\ G[q].dir = "downup" /\ G[q].kind = "read_request"
              /\ G[q].mod = Low[G[q].target]
              /\ NoneBut(F, c, G[q].mod, G[q].addr, {G[q].target}),
           G[q].kind = "read_request" => (G[q].dir = "updown" <=> F[p].state = "I"),
           G[r] \in Frame, G[r].kind = "find_and_lock", G[r].pc = "find", FlowOK(G[r]),
           G[r].addr = G[q].addr, G[q].dir = "downup" => G[r].blocking
    PROVE  Copies(G, c, d)
<1> DEFINE X == {p, q, r}
<1>1. /\ Where(G[p]) = Where(F[p]) /\ (IsAccess(G[p]) <=> IsAccess(F[p]))
      /\ (IsRequest(G[p]) <=> IsRequest(F[p])) /\ (IsUpDown(G[p]) <=> IsUpDown(F[p]))
      /\ (Revokes(G[p]) <=> Revokes(F[p]))
  BY AlikeFacts
<1>2. /\ FlowOK(F[p]) /\ LeanOK(F[p], c, d) /\ ReadQuiet(F[p], F, c)
      /\ (Cleared(F, p) => d[F[p].target][F[p].way].sharers \subseteq {F[p].mod})
  BY DEF Copies, Calls, Leaning, Quiet, Alone
<1>3. LinkOK(G[q], G[p])
  <2>1. RequestLink(G[q], G[p])
    BY <1>1 DEF RequestLink, Revokes, Alike
  <2> QED BY <2>1 DEF LinkOK, IsRequest
<1>4. LinkOK(G[r], G[q])
  <2>1. FindLink(G[r], G[q])
    BY DEF FindLink, IsRequest
  <2> QED BY <2>1 DEF LinkOK, IsRequest
<1>5. ~IsAccess(F[p]) => LinkOK(G[p], F[Front(p)])
  <2>1. ASSUME ~IsAccess(F[p]) PROVE LinkOK(F[p], F[Front(p)])
    BY <2>1, LinkOf DEF Copies
  <2>2. SameLink(F[p], G[p])
    BY DEF SameLink, Alike, IsAccess, IsRequest
  <2> QED BY <2>1, <2>2, SameLinkOK
<1>6. /\ Rest(F, G, X) /\ Linked(G, X) /\ Childless(G, r)
      /\ p \in DOMAIN G /\ q \in DOMAIN G /\ r \in DOMAIN G
      /\ q \notin DOMAIN F /\ r \notin DOMAIN F
      /\ \A z \in DOMAIN G : (Child(z, p) => z = q) /\ (Child(z, q) => z = r)
  BY <1>3, <1>4, <1>5, LinkedCalls
<1>7. Fits(F, c, G, c, d, X, p)
  <2>1. FlowOK(G[p])
    BY <1>1, <1>2 DEF FlowOK, RequestFlow, Alike, IsAccess, IsRequest
  <2>2. LeanOK(G[p], c, d)
    <3>1. F[p].kind # "find_and_lock" /\ G[p].kind = F[p].kind /\ G[p].way = F[p].way
          /\ G[p].tag = F[p].tag /\ G[p].state = F[p].state
      BY DEF Alike, IsAccess, IsRequest
    <3>2. HeldOK(F[p], c[Where(F[p])][F[p].way])
      BY <1>2, <3>1 DEF LeanOK
    <3>3. HeldOK(G[p], c[Where(F[p])][F[p].way])
      BY <3>1, <3>2 DEF HeldOK
    <3> QED BY <1>1, <3>1, <3>3 DEF LeanOK, IsAccess, IsRequest
  <2>3. Cleared(G, p) => d[G[p].target][G[p].way].sharers \subseteq {G[p].mod}
    BY <1>2 DEF Cleared, Alike
  <2>4. Shows(F, G, X, p)
    BY <1>1 DEF Shows
  <2>5. Backed(F, c, G, p)
    <3>1. ~Ready(G[p])
      BY DEF Ready
    <3>2. \A z \in DOMAIN G : Child(z, p) => ~IsUpDown(G[z]) \/ G[z].pc # "reply"
      BY <1>6
    <3> QED BY <3>1, <3>2, NotAnswered
  <2>6. ReadQuiet(G[p], F, c)
    <3>1. F[p].kind = "read_request" => F[p].pc # "reply"
      BY DEF Holds, IsAccess, IsRequest
    <3> QED BY <1>2, <3>1 DEF ReadQuiet, Alike
  <2> QED BY <2>1, <2>2, <2>3, <2>4, <2>5, <2>6 DEF Fits
<1>8. Fits(F, c, G, c, d, X, q)
  <2>1. FlowOK(G[q])
    BY DEF FlowOK, RequestFlow, IsRequest
  <2>2. ~Holds(G[q])
    BY DEF Holds, IsRequest, IsAccess
  <2>3. LeanOK(G[q], c, d)
    BY <2>2 DEF LeanOK, IsRequest
  <2>4. ~Cleared(G, q)
    BY <1>6 DEF Cleared, IsUpDown, IsRequest
  <2>5. Shows(F, G, X, q) /\ Backed(F, c, G, q)
    <3>1. Front(q) = p
      BY DEF CallingTwo
    <3> QED BY <2>2, <3>1 DEF Shows, Backed, Granted
  <2>6. ReadQuiet(G[q], F, c)
    BY DEF ReadQuiet
  <2> QED BY <2>1, <2>3, <2>4, <2>5, <2>6 DEF Fits
<1>9. Fits(F, c, G, c, d, X, r)
  <2>1. ~Holds(G[r])
    BY DEF Holds, IsAccess, IsRequest
  <2> QED BY <1>6, <2>1, FindFits DEF Childless
<1>10. Leaves(F, G, p)
  <2>1. F[p].kind # "evict" /\ F[p].kind # "invalidate"
    BY DEF IsAccess, IsRequest
  <2>2. Revoking(F[p]) => Revoking(G[p]) /\ G[p].target = F[p].target
    BY <1>1 DEF Revoking, Alike
  <2> QED BY <1>6, <2>1, <2>2 DEF Leaves, IsLost
<1>11. /\ \A x \in X \cap DOMAIN G : Fits(F, c, G, c, d, X, x)
       /\ \A x \in X \cap DOMAIN F : Leaves(F, G, x)
  BY <1>6, <1>7, <1>8, <1>9, <1>10
<1> HIDE DEF X
<1> QED BY <1>6, <1>11, FramesStep

\* An access or a request calls a request.
LEMMA CallRequestCopies ==
    ASSUME Inv, Inv', Copies(frames, cache, dir), UNCHANGED <<cache, dir>>,
           NEW p \in DOMAIN frames, Childless(frames, p),
           NEW fr, fr = frames[p], Holds(fr), IsAccess(fr) \/ IsRequest(fr),
           fr.pc # "updown_finish", fr.kind = "write_request" => fr.pc = "exclusive",
           NEW kind \in {"read_request", "write_request"}, NEW ret \in Events,
           NEW direction \in {"updown", "downup"}, NEW m, m = Where(fr), NEW t, t = fr.tag,
           NEW target \in Modules,
           NEW request, request = [NewFrame(kind, ret, m, t) EXCEPT !.dir = direction],
           frames' = CallRequest(p, fr, "request", request, target),
           \/ direction = "updown" /\ target = Low[m]
           \/ /\ direction = "downup" /\ kind = "read_request" /\ m = Low[target]
              /\ NoneBut(frames, cache, m, t, {target}),
           kind = "read_request" => (direction = "updown" <=> fr.state = "I")
    PROVE  Copies(frames, cache, dir)'
<1>1. Sys(frames, dir) /\ fr \in Frame /\ FrameOK(fr) /\ m \in Modules /\ t \in Tag
  BY FrameOf DEF Inv
<1>2. PICK b : b = IF request.kind = "read_request" THEN FALSE ELSE fr.shared
  OBVIOUS
<1>3. PICK n : n = NewFrame(kind, ret, m, t)
  OBVIOUS
<1>4. /\ n \in Frame /\ n.kind = kind /\ n.mod = m /\ n.addr = t /\ n.way = 0
      /\ n.error = FALSE /\ n.notFound = FALSE
  BY <1>1, <1>3, HierarchyAssumption DEF NewFrame, Frame, Events, Tag, BlockStates, Kinds
<1>5. /\ request \in Frame /\ request.kind = kind /\ request.mod = m /\ request.addr = t
      /\ request.way = 0 /\ request.error = FALSE /\ request.notFound = FALSE
      /\ request.dir = direction
  <2>1. request = [n EXCEPT !.dir = direction]
    BY <1>3
  <2> QED BY ONLY <1>4, <2>1, direction \in {"updown", "downup"} DEF Frame
<1>6. b \in BOOLEAN
  BY <1>1, <1>2 DEF Frame
<1>7. PICK f : f = [fr EXCEPT !.pc = "call", !.error = FALSE, !.shared = b]
  OBVIOUS
<1>8. f \in Frame /\ f.pc = "call" /\ Alike(fr, f) /\ f.error = FALSE
  BY <1>1, <1>6, <1>7, CallAlike, ZenonT(40)
<1>9. PICK g : g = [request EXCEPT !.pc = "call", !.target = target]
  OBVIOUS
<1>10. /\ g \in Frame /\ g.kind = kind /\ g.mod = m /\ g.addr = t /\ g.way = 0
       /\ g.error = FALSE /\ g.notFound = FALSE /\ g.dir = direction /\ g.pc = "call"
       /\ g.target = target
  BY ONLY <1>5, <1>9, target \in Modules DEF Frame, Events
<1>11. PICK e : e = "action"
  OBVIOUS
<1>12. PICK v \in BOOLEAN : v = Blocks(request.dir)
  BY DEF Blocks
<1>13. PICK h : h = FindFrame(e, target, t, direction, v)
  OBVIOUS
<1>14. /\ h \in Frame /\ h.kind = "find_and_lock" /\ h.pc = "find" /\ h.addr = t
       /\ h.blocking = v /\ FlowOK(h)
  <2>1. e \in Events
    BY <1>11 DEF Events
  <2> QED BY ONLY <1>1, <1>13, <2>1, target \in Modules, direction \in {"updown", "downup"},
             v \in BOOLEAN, NewFind
<1>15. PICK q, r, x, y : x = "request" /\ y = "find" /\ q = Append(p, x) /\ r = Append(q, y)
  OBVIOUS
<1>16. PICK G : G = frames'
  OBVIOUS
<1>17. CallingTwo(frames, G, p, q, r) /\ G[p] = f /\ G[q] = g /\ G[r] = h
  <2>1. h = [NewFrame("find_and_lock", "action", target, request.addr) EXCEPT
                !.dir = request.dir, !.blocking = Blocks(request.dir)]
    BY <1>5, <1>11, <1>12, <1>13 DEF FindFrame
  <2>2. f = [fr EXCEPT !.pc = "call", !.error = FALSE,
                       !.shared = IF request.kind = "read_request" THEN FALSE ELSE @]
    BY <1>1, <1>2, <1>7 DEF Frame
  <2>3. G = Call(Call(With(p, f), q, g), r, h)
    BY <1>9, <1>15, <1>16, <2>1, <2>2 DEF CallRequest
  <2>4. Below(q, p) /\ Below(r, q)
    <3>1. x \in PathNames /\ y \in PathNames
      BY <1>15 DEF PathNames
    <3> QED BY <1>15, <3>1 DEF Below
  <2>5. Tree(frames) /\ p \in DOMAIN frames /\ Childless(frames, p)
    BY <1>1 DEF Sys
  <2> QED BY ONLY <2>3, <2>4, <2>5, CallingBoth
<1>18. Copies(G, cache, dir)
  <2>1. /\ Holds(frames[p]) /\ (IsAccess(frames[p]) \/ IsRequest(frames[p]))
        /\ frames[p].pc # "updown_finish"
        /\ (frames[p].kind = "write_request" => frames[p].pc = "exclusive")
    OBVIOUS
  <2>2. /\ G[p] \in Frame /\ G[p].pc = "call" /\ Alike(frames[p], G[p]) /\ ~G[p].error
    BY <1>8, <1>17
  <2>3. /\ G[q] \in Frame /\ IsRequest(G[q]) /\ G[q].pc = "call" /\ G[q].way = 0 /\ ~G[q].error
        /\ ~G[q].notFound /\ G[q].mod = Where(frames[p]) /\ G[q].addr = frames[p].tag
        /\ (G[q].kind = "read_request" => (G[q].dir = "updown" <=> frames[p].state = "I"))
    BY <1>10, <1>17 DEF IsRequest
  <2>4. \/ G[q].dir = "updown" /\ G[q].target = Low[G[q].mod]
        \/ /\ G[q].dir = "downup" /\ G[q].kind = "read_request"
           /\ G[q].mod = Low[G[q].target]
           /\ NoneBut(frames, cache, G[q].mod, G[q].addr, {G[q].target})
    BY <1>10, <1>17
  <2>5. /\ G[r] \in Frame /\ G[r].kind = "find_and_lock" /\ G[r].pc = "find" /\ FlowOK(G[r])
        /\ G[r].addr = G[q].addr /\ (G[q].dir = "downup" => G[r].blocking)
    BY <1>5, <1>10, <1>12, <1>14, <1>17 DEF Blocks
  <2> QED BY ONLY <1>1, <1>17, <2>1, <2>2, <2>3, <2>4, <2>5, RequestCalls,
             Copies(frames, cache, dir), p \in DOMAIN frames, Childless(frames, p)
<1> QED BY <1>16, <1>18

\* The actions of load and store: hit, miss, or error.
LEMMA AccessActionCopies ==
    ASSUME Inv, Inv', Copies(frames, cache, dir), UNCHANGED <<cache, dir>>,
           NEW p \in DOMAIN frames, NEW fr, fr = frames[p], IsAccess(fr), fr.pc = "action",
           NEW kind \in {"read_request", "write_request"}, NEW ret \in Events, NEW t, t = fr.tag,
           kind = "read_request" => fr.state = "I",
           \/ fr.error /\ frames' = With(p, Retry(fr))
           \/ /\ ~fr.error /\ Goto(p, "unlock")
              /\ fr.kind = "store" => fr.state \in Exclusive
           \/ /\ ~fr.error /\ fr.state \notin {"M", "E"}
              /\ frames' = CallRequest(p, fr, "request", UpDown(kind, ret, fr.mod, t), Low[fr.mod])
    PROVE  Copies(frames, cache, dir)'
<1>1. /\ Sys(frames, dir) /\ fr \in Frame /\ FrameOK(fr) /\ AccessOK(fr) /\ Where(fr) = fr.mod
      /\ fr.mod \in Modules /\ fr.tag \in Tag
  BY FrameOf DEF Inv, Where, IsAccess, FrameOK
<1>2. Childless(frames, p)
  BY <1>1, NoChildren DEF Sys, IsAccess
<1>3. fr.error <=> ~Holds(fr)
  BY <1>1 DEF Holds, AccessOK, IsAccess, IsRequest
<1>4. PICK G : G = frames'
  OBVIOUS
<1>5. CASE fr.error /\ frames' = With(p, Retry(fr))
  <2>1. PICK f : f = Retry(fr)
    OBVIOUS
  <2>2. f \in Frame /\ ~Holds(f) /\ f.pc = "lock"
    BY <1>1, <2>1, RetryFacts
  <2>3. IsAccess(f)
    BY <2>1 DEF Retry, NewAccess, NewFrame, IsAccess
  <2>4. DOMAIN G = DOMAIN frames /\ G[p] = f /\ \A q \in DOMAIN frames : q # p => G[q] = frames[q]
    BY <1>4, <1>5, <2>1, WithFacts
  <2>5. \A K \in Rights : Granted(G, p, K) => Needs(frames, cache, Where(f), f.tag, K)
    BY <2>2, <2>4 DEF Granted
  <2>6. Copies(G, cache, dir)
    BY <1>1, <1>2, <2>2, <2>3, <2>4, <2>5, AccessGoes
  <2> QED BY <1>4, <2>6
<1>6. CASE ~fr.error /\ Goto(p, "unlock") /\ (fr.kind = "store" => fr.state \in Exclusive)
  <2>1. PICK f, e : e = "unlock" /\ f = [fr EXCEPT !.pc = e]
    OBVIOUS
  <2>2. f \in Frame /\ f.pc = e /\ Alike(fr, f) /\ f.error = fr.error
    <3>1. e \in Events
      BY <2>1 DEF Events
    <3> QED BY <1>1, <2>1, <3>1, NextAlike
  <2>3. DOMAIN G = DOMAIN frames /\ G[p] = f /\ \A q \in DOMAIN frames : q # p => G[q] = frames[q]
    <3>1. G = With(p, f)
      BY <1>4, <1>6, <2>1 DEF Goto
    <3> QED BY <3>1, WithFacts
  <2>4. PICK b : b = cache[fr.mod][fr.way]
    OBVIOUS
  <2>5. HeldOK(fr, b) /\ Holds(fr)
    BY <1>1, <1>3, <1>6, <2>4 DEF Copies, Leaning, LeanOK, IsAccess
  <2>6. HeldOK(f, b)
    BY <2>2, <2>5 DEF HeldOK, Alike, IsAccess
  <2>7. IsAccess(f) /\ Where(f) = fr.mod /\ f.way = fr.way /\ f.tag = fr.tag /\ f.kind = fr.kind
    BY <1>1, <2>2, AlikeFacts DEF Alike
  <2>8. ASSUME NEW K \in Rights, Granted(G, p, K) PROVE Needs(frames, cache, Where(f), f.tag, K)
    <3>1. f.kind = "store"
      BY <2>1, <2>2, <2>3, <2>8 DEF Granted, Answered, Ready
    <3>2. b.state \in Exclusive /\ b.tag = fr.tag
      BY <1>6, <2>5, <2>7, <3>1 DEF HeldOK, Exclusive
    <3>3. b.state \in K
      BY <3>2, RightsFacts
    <3> QED BY <1>1, <2>4, <2>5, <2>7, <3>2, <3>3, HolderHas DEF IsAccess, Copies
  <2>9. f.pc \notin {"miss", "updown_miss"}
    BY <2>1, <2>2
  <2>10. Holds(f) => HeldOK(f, cache[Where(f)][f.way])
    BY <2>4, <2>6, <2>7
  <2>11. Copies(G, cache, dir)
    BY <1>1, <1>2, <2>2, <2>3, <2>7, <2>8, <2>9, <2>10, AccessGoes
  <2> QED BY <1>4, <2>11
<1>7. CASE /\ ~fr.error /\ fr.state \notin {"M", "E"}
           /\ frames' = CallRequest(p, fr, "request", UpDown(kind, ret, fr.mod, t), Low[fr.mod])
  <2>1. fr.mod # MainMemory /\ Low[fr.mod] \in Modules
    <3>1. fr.mod # MainMemory
      BY <1>1, <1>3, <1>7 DEF AccessOK, MainState, Holds, IsAccess, IsRequest
    <3> QED BY <1>1, <3>1, HierarchyAssumption
  <2>2. PICK u, m, target, request :
           /\ u = "updown" /\ m = fr.mod /\ target = Low[m]
           /\ request = UpDown(kind, ret, m, t)
    OBVIOUS
  <2>3. request = [NewFrame(kind, ret, m, t) EXCEPT !.dir = u]
    BY <2>2 DEF UpDown
  <2>4. frames' = CallRequest(p, fr, "request", request, target)
    BY <1>7, <2>2
  <2>5. /\ u \in {"updown", "downup"} /\ target \in Modules /\ m = Where(fr)
        /\ u = "updown" /\ target = Low[m]
        /\ (kind = "read_request" => (u = "updown" <=> fr.state = "I"))
        /\ fr.pc # "updown_finish" /\ (fr.kind = "write_request" => fr.pc = "exclusive")
        /\ Holds(fr)
    BY <1>1, <1>3, <1>7, <2>1, <2>2 DEF IsAccess
  <2> QED BY <1>2, <2>3, <2>4, <2>5, CallRequestCopies
<1> QED BY <1>5, <1>6, <1>7

\* LoadAction: a block that is valid stays as it is; for others a read request is sent.
LEMMA LoadActionCopies ==
    ASSUME Inv, Inv', Copies(frames, cache, dir), NEW p \in DOMAIN frames, LoadAction(p)
    PROVE  Copies(frames, cache, dir)'
<1>1. PICK fr, kind, ret : fr = frames[p] /\ kind = "read_request" /\ ret = "miss"
  OBVIOUS
<1>2. IsAccess(fr) /\ fr.pc = "action" /\ UNCHANGED <<cache, dir>> /\ fr.kind = "load"
  BY <1>1 DEF LoadAction, At, IsAccess
<1>3. PICK t, s : t = fr.tag /\ s = IF fr.error THEN "I" ELSE fr.state
  OBVIOUS
<1>4. CASE fr.error /\ frames' = With(p, Retry(fr))
  <2>1. PICK k : k = "write_request"
    OBVIOUS
  <2>2. k \in {"read_request", "write_request"} /\ ret \in Events /\ k # "read_request"
    BY <1>1, <2>1 DEF Events
  <2> QED BY ONLY <1>1, <1>2, <1>3, <1>4, <2>2, AccessActionCopies, Inv, Inv',
             Copies(frames, cache, dir), p \in DOMAIN frames
<1>5. CASE ~fr.error /\ fr.state # "I" /\ Goto(p, "unlock")
  <2>1. PICK k : k = "write_request"
    OBVIOUS
  <2>2. k \in {"read_request", "write_request"} /\ ret \in Events /\ k # "read_request"
    BY <1>1, <2>1 DEF Events
  <2> QED BY ONLY <1>1, <1>2, <1>3, <1>5, <2>2, AccessActionCopies, Inv, Inv',
             Copies(frames, cache, dir), p \in DOMAIN frames
<1>6. CASE /\ ~fr.error /\ fr.state = "I"
           /\ frames' = CallRequest(p, fr, "request",
                            UpDown("read_request", "miss", fr.mod, fr.tag), Low[fr.mod])
  <2>1. /\ kind \in {"read_request", "write_request"} /\ ret \in Events /\ fr.state \notin {"M", "E"}
        /\ frames' = CallRequest(p, fr, "request", UpDown(kind, ret, fr.mod, t), Low[fr.mod])
    BY <1>1, <1>3, <1>6 DEF Events
  <2> QED BY <1>1, <1>2, <1>3, <1>6, <2>1, AccessActionCopies
<1> QED BY <1>1, <1>4, <1>5, <1>6 DEF LoadAction

\* StoreAction: a block that may be written stays as it is until the unlock event; for
\* others a write request is sent.
LEMMA StoreActionCopies ==
    ASSUME Inv, Inv', Copies(frames, cache, dir), NEW p \in DOMAIN frames, StoreAction(p)
    PROVE  Copies(frames, cache, dir)'
<1>1. PICK fr, kind, ret, t : /\ fr = frames[p] /\ kind = "write_request" /\ ret = "unlock"
                              /\ t = fr.tag
  OBVIOUS
<1>2. IsAccess(fr) /\ fr.pc = "action" /\ UNCHANGED <<cache, dir>>
  BY <1>1 DEF StoreAction, At, IsAccess
<1>3. ~fr.error => fr.addr = fr.tag
  <2>1. FrameOK(fr)
    BY <1>1, FrameOf DEF Inv
  <2> QED BY <1>2, <2>1 DEF FrameOK, AccessOK
<1>4. \/ fr.error /\ frames' = With(p, Retry(fr))
      \/ /\ ~fr.error /\ Goto(p, "unlock")
         /\ fr.kind = "store" => fr.state \in Exclusive
      \/ /\ ~fr.error /\ fr.state \notin {"M", "E"}
         /\ frames' = CallRequest(p, fr, "request", UpDown(kind, ret, fr.mod, t), Low[fr.mod])
  BY <1>1, <1>3 DEF StoreAction, Exclusive
<1>5. kind \in {"read_request", "write_request"} /\ ret \in Events /\ kind # "read_request"
  BY <1>1 DEF Events
<1> QED BY ONLY <1>1, <1>2, <1>4, <1>5, AccessActionCopies, Inv, Inv', Copies(frames, cache, dir),
           p \in DOMAIN frames

\* load_unlock
LEMMA LoadUnlockCopies ==
    ASSUME Inv, Inv', Copies(frames, cache, dir), NEW p \in DOMAIN frames, LoadUnlock(p)
    PROVE  Copies(frames, cache, dir)'
<1>1. PICK fr, f, c1 : fr = frames[p] /\ f = [fr EXCEPT !.pc = "finish"] /\ c1 = cache
  OBVIOUS
<1>2. /\ fr.kind = "load" /\ fr.pc = "unlock" /\ cache' = cache
      /\ UnlockEntry(fr.mod, fr.way, dir[fr.mod][fr.way], With(p, f))
  BY <1>1 DEF LoadUnlock, At
<1>3. IsAccess(fr) /\ FrameOK(fr) /\ Sys(frames, dir)
  BY <1>1, <1>2, FrameOf DEF Inv, IsAccess
<1>4. Holds(fr) /\ Childless(frames, p)
  <2>1. Holds(fr)
    BY <1>2, <1>3 DEF FrameOK, AccessOK, Holds
  <2> QED BY <1>1, <1>2, <1>3, <2>1, NoChildren DEF Sys
<1>5. Copies(frames', c1, dir')
  BY <1>1, <1>2, <1>3, <1>4, AccessReleases
<1> QED BY <1>1, <1>2, <1>5

\* store_unlock
LEMMA StoreUnlockCopies ==
    ASSUME Inv, Inv', Copies(frames, cache, dir), NEW p \in DOMAIN frames, StoreUnlock(p)
    PROVE  Copies(frames, cache, dir)'
<1>1. PICK fr, c1 : fr = frames[p] /\ c1 = cache'
  OBVIOUS
<1>2. fr.kind = "store" /\ fr.pc = "unlock"
  BY <1>1 DEF StoreUnlock, At
<1>3. IsAccess(fr) /\ FrameOK(fr) /\ Sys(frames, dir)
  BY <1>1, <1>2, FrameOf DEF Inv, IsAccess
<1>4. Holds(fr) /\ Childless(frames, p)
  <2>1. Holds(fr)
    BY <1>2, <1>3 DEF FrameOK, AccessOK, Holds
  <2> QED BY <1>1, <1>2, <1>3, <2>1, NoChildren DEF Sys
<1>5. PICK f : /\ f = Retry(fr) \/ f = [fr EXCEPT !.pc = "finish"]
               /\ UnlockEntry(fr.mod, fr.way, dir[fr.mod][fr.way], With(p, f))
               /\ \/ c1 = cache
                  \/ /\ c1 = BlockTo(cache, fr.mod, fr.way, fr.tag, "M")
                     /\ fr.kind = "store" /\ fr.pc = "unlock" /\ ~fr.error
  <2>1. CASE fr.error /\ UnlockAndRetry(p) /\ UNCHANGED <<cache, unsaved>>
    BY <1>1, <2>1 DEF UnlockAndRetry
  <2>2. CASE /\ ~fr.error /\ setBlock(fr.mod, fr.way, fr.tag, "M")
             /\ UnlockEntry(fr.mod, fr.way, dir[fr.mod][fr.way],
                            With(p, [fr EXCEPT !.pc = "finish"]))
    <3>1. c1 = BlockTo(cache, fr.mod, fr.way, fr.tag, "M")
      BY <1>1, <2>2 DEF setBlock, BlockTo
    <3> QED BY <1>2, <2>2, <3>1
  <2> QED BY <1>1, <2>1, <2>2 DEF StoreUnlock
<1>6. Copies(frames', c1, dir')
  BY <1>1, <1>3, <1>4, <1>5, AccessReleases
<1> QED BY <1>1, <1>6

\* load_miss
LEMMA LoadMissCopies ==
    ASSUME Inv, Inv', Copies(frames, cache, dir), NEW p \in DOMAIN frames, LoadMiss(p)
    PROVE  Copies(frames, cache, dir)'
<1>1. PICK fr, c1, m, w : fr = frames[p] /\ c1 = cache' /\ m = fr.mod /\ w = fr.way
  OBVIOUS
<1>2. fr.kind = "load" /\ fr.pc = "miss"
  BY <1>1 DEF LoadMiss, At
<1>3. /\ IsAccess(fr) /\ FrameOK(fr) /\ Sys(frames, dir) /\ Storage(cache, dir) /\ fr \in Frame
      /\ Where(fr) = m
  BY <1>1, <1>2, FrameOf DEF Inv, IsAccess, Where
<1>4. Holds(fr) /\ Childless(frames, p) /\ m \in Modules /\ w \in Ways(m) /\ fr.state = "I"
  <2>1. Holds(fr)
    BY <1>2, <1>3 DEF FrameOK, AccessOK, Holds
  <2>2. fr.state = "I"
    BY <1>1, <1>2 DEF Copies, Calls, FlowOK
  <2> QED BY <1>1, <1>2, <1>3, <2>1, <2>2, FrameOf, NoChildren DEF Sys
<1>5. CASE fr.error /\ UnlockAndRetry(p) /\ UNCHANGED cache
  <2>1. PICK f : f = Retry(fr) /\ UnlockEntry(fr.mod, fr.way, dir[fr.mod][fr.way], With(p, f))
    BY <1>1, <1>5 DEF UnlockAndRetry
  <2>2. c1 = cache
    BY <1>1, <1>5
  <2>3. Copies(frames', c1, dir')
    BY <1>1, <1>3, <1>4, <2>1, <2>2, AccessReleases
  <2> QED BY <1>1, <2>3
<1>6. CASE /\ ~fr.error /\ setBlock(m, w, fr.tag, IF fr.shared THEN "S" ELSE "E")
           /\ Goto(p, "unlock") /\ UNCHANGED dir
  <2>1. PICK s, t : s = (IF fr.shared THEN "S" ELSE "E") /\ t = fr.tag
    OBVIOUS
  <2>2. c1 = BlockTo(cache, m, w, t, s)
    BY <1>1, <1>6, <2>1 DEF setBlock, BlockTo
  <2>3. /\ c1[m][w].tag = t /\ c1[m][w].state = s /\ c1[m][w].transient = cache[m][w].transient
        /\ \A n \in Modules : \A v \in Ways(n) : n # m \/ v # w => c1[n][v] = cache[n][v]
    BY ONLY <1>3, <1>4, <2>2, BlockSet
  <2>4. OffEntry(cache, dir, c1, dir, m, w)
    BY <2>3 DEF OffEntry
  <2>5. PICK f, e : e = "unlock" /\ f = [fr EXCEPT !.pc = e]
    OBVIOUS
  <2>6. f \in Frame /\ f.pc = e /\ Alike(fr, f) /\ f.error = fr.error
    <3>1. e \in Events
      BY <2>5 DEF Events
    <3> QED BY <1>3, <2>5, <3>1, NextAlike
  <2>7. PICK G : G = frames'
    OBVIOUS
  <2>8. DOMAIN G = DOMAIN frames /\ G[p] = f /\ \A q \in DOMAIN frames : q # p => G[q] = frames[q]
    <3>1. G = With(p, f)
      BY <1>1, <1>6, <2>5, <2>7 DEF Goto
    <3> QED BY <3>1, WithFacts
  <2>9. HeldOK(f, c1[m][w]) /\ IsAccess(f) /\ f.mod = m /\ f.way = w
    <3>1. HeldOK(fr, cache[m][w])
      BY <1>1, <1>3, <1>4 DEF Copies, Leaning, LeanOK, IsAccess
    <3>2. f.kind = "load" /\ f.state = "I" /\ f.tag = t /\ f.mod = m /\ f.way = w
      BY <1>1, <1>2, <1>4, <2>1, <2>6 DEF Alike
    <3> QED BY <2>1, <2>3, <3>1, <3>2 DEF HeldOK, IsAccess, Exclusive
  <2>10. Backed(frames, cache, G, p)
    <3>1. ~Ready(G[p])
      BY <1>2, <2>5, <2>6, <2>8 DEF Ready, Alike
    <3> QED BY <2>5, <2>6, <2>8, <3>1 DEF Backed, Granted, Answered
  <2>11. /\ c1[m][w].tag = fr.tag /\ c1[m][w].state # "I"
         /\ (c1[m][w].state \in Exclusive => ~fr.shared)
    BY <2>1, <2>3 DEF Exclusive
  <2>12. f.pc \notin {"miss", "updown_miss"}
    BY <2>5, <2>6
  <2>13. Copies(G, c1, dir)
    BY <1>1, <1>2, <1>3, <1>4, <1>6, <2>3, <2>4, <2>6, <2>8, <2>9, <2>10, <2>11, <2>12,
       AccessChanges
  <2> QED BY <1>1, <1>6, <2>7, <2>13
<1> QED BY <1>1, <1>5, <1>6 DEF LoadMiss
-----------------------------------------------------------------------------
(* find_and_lock *)

\* Who has called a find-and-lock chain, and what it has in common with its caller.
LEMMA FindCallerOf ==
    ASSUME NEW F, NEW d, Sys(F, d), Calls(F), NEW p \in DOMAIN F,
           F[p].kind = "find_and_lock", NEW s, s = Front(p)
    PROVE  /\ s \in DOMAIN F /\ s # p /\ Child(p, s) /\ F[s] \in Frame /\ FrameOK(F[s])
           /\ F[s].pc = "call" /\ F[s].kind # "invalidate" /\ ~Holds(F[s])
           /\ IsAccess(F[s]) \/ IsRequest(F[s]) \/ F[s].kind = "evict"
           /\ F[s].way = 0 \/ F[s].kind = "evict"
           /\ Where(F[s]) = F[p].mod /\ F[p].ret \in {"action", "process", "process_noncoherent"}
           /\ FindLink(F[p], F[s]) /\ FindFlow(F[p]) /\ FlowOK(F[s])
           /\ IsAccess(F[s]) => F[p].ret = "action" /\ F[p].addr = F[s].addr /\ F[p].dir = "updown"
           /\ IsRequest(F[s]) => F[p].ret = "action" /\ F[p].dir = F[s].dir
           /\ F[s].kind = "evict" => F[p].ret # "action" /\ F[p].dir = "downup"
           /\ F[p] \in Frame /\ FindAndLockOK(F[p]) /\ ~IsAccess(F[p])
<1>1. ~IsAccess(F[p])
  BY DEF IsAccess
<1>2. /\ F[p] \in Frame /\ FrameOK(F[p]) /\ s \in DOMAIN F /\ s # p /\ Child(p, s)
      /\ CallOK(F[p], F[s])
  BY <1>1, FrameOf
<1>3. F[s] \in Frame /\ FrameOK(F[s])
  BY <1>2, FrameOf
<1>4. /\ FindLink(F[p], F[s]) /\ FlowOK(F[p]) /\ FlowOK(F[s])
  BY <1>1, <1>2, LinkOf DEF LinkOK, Calls
<1>5. /\ F[s].kind # "invalidate" /\ F[s].pc = "call" /\ F[p].mod = Where(F[s])
      /\ \/ IsAccess(F[s]) /\ F[p].ret = "action" /\ F[s].way = 0 /\ F[p].addr = F[s].addr
               /\ F[p].dir = "updown"
         \/ IsRequest(F[s]) /\ F[p].ret = "action" /\ F[s].way = 0 /\ F[p].dir = F[s].dir
         \/ F[s].kind = "evict" /\ F[p].ret \in {"process", "process_noncoherent"}
  BY <1>2 DEF CallOK, IsAccess, IsRequest
<1>6. ~Holds(F[s])
  BY <1>5 DEF Holds, IsAccess, IsRequest, Processing
<1>7. FindFlow(F[p]) /\ FindAndLockOK(F[p])
  BY <1>2, <1>4 DEF FlowOK, FrameOK
<1> QED BY <1>1, <1>2, <1>3, <1>4, <1>5, <1>6, <1>7 DEF FindLink, IsAccess, IsRequest

\* The caller of a find-and-lock chain goes on with an error.
LEMMA FindErrorFits ==
    ASSUME NEW F, NEW c, NEW d, Sys(F, d), Copies(F, c, d), NEW p \in DOMAIN F, Childless(F, p),
           F[p].kind = "find_and_lock", NEW s, s = Front(p),
           NEW G, DOMAIN G = DOMAIN F \ {p}, \A q \in DOMAIN G : q # s => G[q] = F[q],
           G[s] \in Frame, G[s].pc = F[p].ret, Alike(F[s], G[s]), G[s].error,
           G[s].reply = F[s].reply,
           IsRequest(F[s]) => F[s].dir # "downup",
           NEW c1, NEW d1, F[s].kind = "evict" => c1 = c /\ d1 = d, NEW X, X = {p, s}
    PROVE  /\ Rest(F, G, X) /\ Linked(G, X) /\ p \notin DOMAIN G /\ s \in DOMAIN F
           /\ Fits(F, c, G, c1, d1, X, s)
           /\ Leaves(F, G, p) /\ Leaves(F, G, s)
<1>1. /\ s \in DOMAIN F /\ s # p /\ Child(p, s) /\ F[s] \in Frame /\ FrameOK(F[s])
      /\ F[s].pc = "call" /\ F[s].kind # "invalidate" /\ ~Holds(F[s])
      /\ IsAccess(F[s]) \/ IsRequest(F[s]) \/ F[s].kind = "evict"
      /\ F[s].way = 0 \/ F[s].kind = "evict"
      /\ F[p].ret \in {"action", "process", "process_noncoherent"}
      /\ FindLink(F[p], F[s]) /\ FlowOK(F[s])
      /\ IsAccess(F[s]) => F[p].ret = "action"
      /\ IsRequest(F[s]) => F[p].ret = "action"
      /\ ~IsAccess(F[p])
  BY FindCallerOf DEF Copies
<1>2. /\ (IsAccess(G[s]) <=> IsAccess(F[s])) /\ (IsRequest(G[s]) <=> IsRequest(F[s]))
      /\ (IsUpDown(G[s]) <=> IsUpDown(F[s])) /\ (Revokes(G[s]) <=> Revokes(F[s]))
  BY AlikeFacts
<1>3. LeanOK(F[s], c, d)
  BY <1>1 DEF Copies, Leaning
<1>4. PICK f, g : f = F[s] /\ g = G[s]
  OBVIOUS
<1>5. /\ f.pc = "call" /\ Alike(f, g) /\ g.error /\ g.reply = f.reply
      /\ g.pc \in {"action", "process", "process_noncoherent"}
      /\ IsRequest(f) => f.dir # "downup"
      /\ IsAccess(f) \/ IsRequest(f) \/ f.kind = "evict"
      /\ IsAccess(f) => g.pc = "action"
      /\ IsRequest(f) => g.pc = "action"
      /\ f.way = 0 \/ f.kind = "evict"
      /\ f.kind = "evict" => f.reply # "None"
      /\ FlowOK(f) /\ LeanOK(f, c, d)
  BY <1>1, <1>3, <1>4 DEF FindLink
<1>6. FlowOK(g)
  <2>1. IsRequest(g) => RequestFlow(g)
    BY <1>5 DEF FlowOK, RequestFlow, Alike, IsRequest
  <2>2. g.kind = "evict" => EvictFlow(g)
    BY <1>5 DEF FlowOK, EvictFlow, Alike, Processing
  <2> QED BY <1>5, <2>1, <2>2 DEF FlowOK, Alike, IsRequest, IsAccess
<1>7. ~Holds(g)
  BY <1>5 DEF Holds, Alike, IsAccess, IsRequest, Processing
<1>8. LeanOK(g, c1, d1)
  <2>1. f.kind = "evict" => EvictedOK(g, c1[g.mod][g.srcWay], d1[g.mod][g.srcWay])
    BY <1>4, <1>5, SMTT(30) DEF LeanOK, EvictedOK, Alike
  <2> QED BY <1>5, <1>7, <2>1 DEF LeanOK, Alike, IsAccess, IsRequest
<1>9. LinkOK(g, F[Front(s)]) \/ IsAccess(f)
  <2>1. SameLink(f, g)
    BY <1>5 DEF SameLink, Alike
  <2>2. ~IsAccess(f) => LinkOK(f, F[Front(s)])
    BY <1>1, <1>4, LinkOf DEF Copies
  <2> QED BY <2>1, <2>2, SameLinkOK
<1>10. /\ Rest(F, G, X) /\ Linked(G, X) /\ p \notin DOMAIN G /\ s \in DOMAIN F
  BY <1>1, <1>4, <1>9, LinkedReturn
<1>11. ~Cleared(G, s)
  BY <1>4, <1>5 DEF Cleared
<1>12. Shows(F, G, X, s)
  BY <1>1, <1>2, <1>4, <1>5 DEF Shows
<1>13. Backed(F, c, G, s)
  BY <1>4, <1>5 DEF Backed, Granted
<1>14. ReadQuiet(g, F, c)
  BY <1>5 DEF ReadQuiet, Alike, IsAccess, IsRequest
<1>15. Leaves(F, G, p) /\ Leaves(F, G, s)
  BY <1>1, <1>4, <1>5 DEF Leaves, IsLost, Revoking, Revokes, IsAccess, IsRequest
<1> QED BY <1>4, <1>6, <1>8, <1>10, <1>11, <1>12, <1>13, <1>14, <1>15 DEF Fits

\* Frame p returns to s, whose frame is h then, but for the event.
LEMMA ReturnFacts ==
    ASSUME NEW p \in DOMAIN frames, NEW s, s = Front(p), s \in DOMAIN frames, s # p,
           NEW h, NEW G, G = Return(p, h)
    PROVE  /\ DOMAIN G = DOMAIN frames \ {p} /\ G[s] = [h EXCEPT !.pc = frames[p].ret]
           /\ \A q \in DOMAIN frames : q # p /\ q # s => G[q] = frames[q]
BY DEF Return

\* A lock that is taken, in a chain that does not wait.
LEMMA FindAndLockErrorCopies ==
    ASSUME Inv, Inv', Copies(frames, cache, dir), NEW p \in DOMAIN frames,
           NEW w \in Ways(frames[p].mod), FindAndLockError(p, w)
    PROVE  Copies(frames, cache, dir)'
<1>1. PICK F, G, s : F = frames /\ G = frames' /\ s = Front(p)
  OBVIOUS
<1>0. PICK h, X : h = [Parent(p) EXCEPT !.error = TRUE] /\ X = {p, s}
  OBVIOUS
<1>2. /\ F[p].kind = "find_and_lock" /\ F[p].pc = "find" /\ ~F[p].blocking
      /\ G = Return(p, h)
      /\ UNCHANGED <<cache, dir>>
  BY <1>0, <1>1 DEF FindAndLockError, FindsWay, At
<1>3. Sys(F, dir) /\ Calls(F) /\ Childless(F, p) /\ Copies(F, cache, dir) /\ p \in DOMAIN F
  BY <1>1, <1>2, FindsNothingHeld DEF At, Copies
<1>4. /\ s \in DOMAIN F /\ s # p /\ F[s] \in Frame /\ F[p].ret \in Events
      /\ IsRequest(F[s]) => F[s].dir # "downup"
  BY <1>1, <1>2, <1>3, FindCallerOf DEF FindLink, Events
<1>5. /\ DOMAIN G = DOMAIN F \ {p} /\ \A q \in DOMAIN G : q # s => G[q] = F[q]
      /\ G[s] \in Frame /\ G[s].pc = F[p].ret /\ Alike(F[s], G[s]) /\ G[s].error
      /\ G[s].reply = F[s].reply
  <2>1. PICK g, e, f : g = F[s] /\ e = F[p].ret /\ f = [h EXCEPT !.pc = e]
    OBVIOUS
  <2>2. h = [g EXCEPT !.error = TRUE] /\ g \in Frame /\ e \in Events
    BY <1>0, <1>1, <1>4, <2>1 DEF Parent
  <2>3. f \in Frame /\ f.pc = e /\ Alike(g, f) /\ f.error /\ f.reply = g.reply
    BY ONLY <2>1, <2>2, ZenonT(40) DEF Frame, Alike
  <2>4. /\ DOMAIN G = DOMAIN frames \ {p} /\ G[s] = [h EXCEPT !.pc = frames[p].ret]
        /\ \A q \in DOMAIN frames : q # p /\ q # s => G[q] = frames[q]
    BY <1>1, <1>2, <1>4, ReturnFacts
  <2> QED BY <1>1, <2>1, <2>3, <2>4
<1>6. /\ Rest(F, G, X) /\ Linked(G, X) /\ p \notin DOMAIN G
      /\ Fits(F, cache, G, cache, dir, X, s) /\ Leaves(F, G, p) /\ Leaves(F, G, s)
  <2>1. F[p].kind = "find_and_lock" /\ s = Front(p) /\ X = {p, s}
    BY <1>0, <1>1, <1>2
  <2> QED BY ONLY <1>3, <1>4, <1>5, <2>1, FindErrorFits
<1>7. \A x \in X \cap DOMAIN G : Fits(F, cache, G, cache, dir, X, x)
  BY <1>0, <1>6
<1>8. Copies(G, cache, dir)
  BY <1>0, <1>3, <1>6, <1>7, FramesStep
<1> QED BY <1>1, <1>2, <1>8

\* A lock that is taken, in a chain that waits.
LEMMA FindAndLockWaitCopies ==
    ASSUME Inv, Inv', Copies(frames, cache, dir), NEW p \in DOMAIN frames,
           NEW w \in Ways(frames[p].mod), FindAndLockWait(p, w)
    PROVE  Copies(frames, cache, dir)'
<1>1. PICK F, G, f : F = frames /\ G = frames' /\ f = [F[p] EXCEPT !.pc = "wait", !.way = w]
  OBVIOUS
<1>2. /\ F[p].kind = "find_and_lock" /\ F[p].pc = "find" /\ G = With(p, f)
      /\ UNCHANGED <<cache, dir>>
  BY <1>1 DEF FindAndLockWait, FindsWay, At
<1>3. /\ Sys(F, dir) /\ Calls(F) /\ Childless(F, p) /\ Copies(F, cache, dir) /\ p \in DOMAIN F
      /\ F[p] \in Frame /\ Sys(G, dir)
  BY <1>1, <1>2, FindsNothingHeld, FrameOf DEF At, Copies, Inv
<1>4. DOMAIN G = DOMAIN F /\ G[p] = f /\ \A q \in DOMAIN F : q # p => G[q] = F[q]
  BY <1>1, <1>2, WithFacts
<1>5. f \in Frame
  BY <1>3, <1>4, FrameOf
<1>6. /\ f.kind = "find_and_lock" /\ f.pc = "wait" /\ f.hit = F[p].hit /\ f.error = F[p].error
      /\ f.eviction = F[p].eviction /\ SameLink(F[p], f)
  <2>1. F[p] \in Frame /\ f = [F[p] EXCEPT !.pc = "wait", !.way = w] /\ F[p].kind = "find_and_lock"
    BY <1>1, <1>2, <1>3
  <2> QED BY ONLY <2>1 DEF Frame, SameLink
<1>7. FlowOK(f)
  <2>1. FindFlow(F[p])
    BY <1>2, <1>3 DEF Calls, FlowOK
  <2> QED BY <1>2, <1>6, <2>1 DEF FlowOK, FindFlow, IsRequest
<1>8. ~IsAccess(F[p]) /\ LinkOK(F[p], F[Front(p)])
  BY <1>2, <1>3, LinkOf DEF IsAccess
<1>9. LinkOK(G[p], F[Front(p)])
  BY <1>4, <1>6, <1>8, SameLinkOK
<1>10. Rest(F, G, {p}) /\ Linked(G, {p}) /\ Childless(G, p)
  BY <1>3, <1>4, <1>9, LinkedOne
<1>11. Fits(F, cache, G, cache, dir, {p}, p)
  <2>1. \A q \in DOMAIN G : Child(q, p) => ~IsUpDown(G[q])
    BY <1>10 DEF Childless
  <2>2. ~Holds(f)
    BY <1>6 DEF Holds, IsAccess, IsRequest
  <2> QED BY <1>4, <1>5, <1>6, <1>7, <2>1, <2>2, FindFits
<1>12. Leaves(F, G, p)
  BY <1>2 DEF Leaves, IsLost, Revoking, Revokes
<1>13. /\ \A x \in {p} \cap DOMAIN G : Fits(F, cache, G, cache, dir, {p}, x)
       /\ \A x \in {p} \cap DOMAIN F : Leaves(F, G, x)
  BY <1>11, <1>12
<1>14. Copies(G, cache, dir)
  BY <1>3, <1>10, <1>13, FramesStep
<1> QED BY <1>1, <1>2, <1>14

\* UnlockEntry leaves e, without the lock, in the entry, and wakes up those who wait.
LEMMA UnlockFacts ==
    ASSUME Inv, NEW p \in DOMAIN frames, Holds(frames[p]),
           NEW m, m = Where(frames[p]), NEW w, w = frames[p].way,
           NEW e, e \in Entry \/ e = dir[m][w], NEW E, UnlockEntry(m, w, e, E),
           NEW G, G = frames', NEW d1, d1 = dir'
    PROVE  /\ m \in Modules /\ w \in Ways(m) /\ G = WakeupAll(E, m, w)
           /\ d1[m][w].sharers = e.sharers /\ d1[m][w].owner = e.owner /\ d1[m][w].lock = 0
           /\ OffEntry(cache, dir, cache, d1, m, w)
<1>1. Sys(frames, dir) /\ Storage(cache, dir)
  BY DEF Inv
<1>2. m \in Modules /\ w \in Ways(m) /\ e \in Entry
  BY <1>1, HeldEntry
<1>3. PICK f : f = Unlocked(e)
  OBVIOUS
<1>4. d1 = [dir EXCEPT ![m][w] = f] /\ G = WakeupAll(E, m, w)
  BY <1>3 DEF UnlockEntry
<1>5. f.sharers = e.sharers /\ f.owner = e.owner /\ f.lock = 0
  BY <1>2, <1>3, UnlockedEntry
<1>6. /\ d1[m][w] = f
      /\ \A n \in Modules : \A v \in Ways(n) : n # m \/ v # w => d1[n][v] = dir[n][v]
  <2>1. DOMAIN dir = Modules /\ \A n \in Modules : dir[n] \in [Ways(n) -> Entry]
    BY <1>1 DEF Storage
  <2>2. ASSUME NEW n \in Modules, NEW v \in Ways(n), n # m \/ v # w PROVE d1[n][v] = dir[n][v]
    BY <1>2, <1>4, <2>1, <2>2
  <2>3. d1[m][w] = f
    BY <1>2, <1>4, <2>1
  <2> QED BY <2>2, <2>3
<1> QED BY <1>2, <1>4, <1>5, <1>6 DEF OffEntry

\* After a failed eviction the lock goes back.
LEMMA FindAndLockFailedCopies ==
    ASSUME Inv, Inv', Copies(frames, cache, dir), NEW p \in DOMAIN frames, FindAndLockFailed(p)
    PROVE  Copies(frames, cache, dir)'
<1>1. PICK F, G, d1, s, m, w : /\ F = frames /\ G = frames' /\ d1 = dir' /\ s = Front(p)
                               /\ m = F[p].mod /\ w = F[p].way
  OBVIOUS
<1>2. PICK h, E, X : h = [Parent(p) EXCEPT !.error = TRUE] /\ E = Return(p, h) /\ X = {p, s}
  OBVIOUS
<1>3. /\ F[p].kind = "find_and_lock" /\ F[p].pc = "finish" /\ F[p].error
      /\ UnlockEntry(m, w, dir[m][w], E) /\ UNCHANGED cache
  BY <1>1, <1>2 DEF FindAndLockFailed, At
<1>4. Sys(F, dir) /\ Calls(F) /\ Copies(F, cache, dir) /\ p \in DOMAIN F /\ Holds(F[p])
      /\ Where(F[p]) = m
  BY <1>1, <1>3 DEF Copies, Inv, Holds, Where
<1>5. Childless(F, p)
  BY <1>3, <1>4, NoChildren DEF Sys
<1>6. /\ s \in DOMAIN F /\ s # p /\ F[s] \in Frame /\ F[s].pc = "call" /\ F[p].ret \in Events
      /\ F[p].ret # "wait" /\ (IsRequest(F[s]) => F[s].dir # "downup") /\ F[s].kind # "evict"
  BY <1>1, <1>3, <1>4, FindCallerOf DEF FindFlow, Events
<1>7. /\ DOMAIN E = DOMAIN F \ {p} /\ E[s] \in Frame /\ E[s].pc = F[p].ret
      /\ Alike(F[s], E[s]) /\ E[s].error /\ E[s].reply = F[s].reply
      /\ \A q \in DOMAIN F : q # p /\ q # s => E[q] = F[q]
  <2>1. PICK g, e, f : g = F[s] /\ e = F[p].ret /\ f = [h EXCEPT !.pc = e]
    OBVIOUS
  <2>2. h = [g EXCEPT !.error = TRUE] /\ g \in Frame /\ e \in Events
    BY <1>1, <1>2, <1>6, <2>1 DEF Parent
  <2>3. f \in Frame /\ f.pc = e /\ Alike(g, f) /\ f.error /\ f.reply = g.reply
    BY ONLY <2>1, <2>2, ZenonT(40) DEF Frame, Alike
  <2>4. /\ DOMAIN E = DOMAIN frames \ {p} /\ E[s] = [h EXCEPT !.pc = frames[p].ret]
        /\ \A q \in DOMAIN frames : q # p /\ q # s => E[q] = frames[q]
    <3>1. s = Front(p) /\ s \in DOMAIN frames /\ s # p /\ E = Return(p, h) /\ p \in DOMAIN frames
      BY <1>1, <1>2, <1>6
    <3> QED BY ONLY <3>1 DEF Return
  <2> QED BY <1>1, <2>1, <2>3, <2>4
<1>8. /\ m \in Modules /\ w \in Ways(m) /\ G = WakeupAll(E, m, w)
      /\ d1[m][w].sharers = dir[m][w].sharers /\ d1[m][w].owner = dir[m][w].owner
      /\ OffEntry(cache, dir, cache, d1, m, w)
  <2>1. PICK e : e = dir[m][w]
    OBVIOUS
  <2>2. UnlockEntry(m, w, e, E) /\ m = Where(frames[p]) /\ w = frames[p].way /\ Holds(frames[p])
    BY <1>1, <1>3, <1>4, <2>1
  <2> QED BY <1>1, <2>1, <2>2, UnlockFacts
<1>9. PICK W : /\ Sys(W, dir) /\ Copies(W, cache, dir) /\ DOMAIN W = DOMAIN F
               /\ DOMAIN G = DOMAIN E /\ W[p] = F[p] /\ W[s] = F[s] /\ G[s] = E[s]
               /\ \A q \in DOMAIN F : q \notin X => G[q] = W[q]
  <2>1. Rest(F, E, X)
    BY <1>2, <1>7 DEF Rest
  <2>2. \A x \in X : /\ x \in DOMAIN F => F[x].pc # "wait"
                     /\ x \in DOMAIN E => E[x].pc # "wait"
    BY <1>2, <1>3, <1>6, <1>7
  <2>3. \E W : /\ Sys(W, dir) /\ Copies(W, cache, dir) /\ DOMAIN W = DOMAIN F
               /\ DOMAIN G = DOMAIN E
               /\ \A x \in X : /\ x \in DOMAIN F => W[x] = F[x]
                               /\ x \in DOMAIN E => G[x] = E[x]
               /\ \A q \in DOMAIN F : q \notin X => G[q] = W[q]
    BY ONLY <1>4, <1>8, <2>1, <2>2, WokenStep
  <2> QED BY <1>2, <1>4, <1>6, <1>7, <2>3, ZenonT(40)
<1>10. /\ p \in DOMAIN W /\ s \in DOMAIN W /\ Childless(W, p) /\ Holds(W[p])
       /\ m = Where(W[p]) /\ w = W[p].way /\ W[p].kind = "find_and_lock" /\ p \in X
       /\ DOMAIN G = DOMAIN W \ {p} /\ \A q \in DOMAIN G : q # s => G[q] = W[q]
       /\ G[s] \in Frame /\ G[s].pc = W[p].ret /\ Alike(W[s], G[s]) /\ G[s].error
       /\ G[s].reply = W[s].reply
       /\ (IsRequest(W[s]) => W[s].dir # "downup") /\ W[s].kind # "evict"
  BY <1>1, <1>2, <1>3, <1>4, <1>5, <1>6, <1>7, <1>9, ZenonT(40) DEF Childless
<1>11. /\ Rest(W, G, X) /\ Linked(G, X) /\ p \notin DOMAIN G
       /\ Fits(W, cache, G, cache, d1, X, s) /\ Leaves(W, G, p) /\ Leaves(W, G, s)
  <2>1. s = Front(p) /\ X = {p, s}
    BY <1>1, <1>2
  <2> QED BY ONLY <1>9, <1>10, <2>1, FindErrorFits
<1>12. /\ \A x \in X \cap DOMAIN G : Fits(W, cache, G, cache, d1, X, x)
       /\ \A x \in X \cap DOMAIN W : Leaves(W, G, x)
       /\ cache[m][w] = cache[m][w]
  BY <1>2, <1>11
<1>13. Copies(G, cache, d1)
  BY ONLY <1>8, <1>9, <1>10, <1>11, <1>12, HolderKeeps
<1> QED BY <1>1, <1>3, <1>13

\* The block of an eviction is in the lower module.
LEMMA EvictionFinds ==
    ASSUME NEW F, NEW c, NEW d, Sys(F, d), Copies(F, c, d), Storage(c, d), NEW p \in DOMAIN F,
           F[p].kind = "find_and_lock", NEW s, s = Front(p), F[s].kind = "evict"
    PROVE  \E v \in Ways(F[p].mod) :
              c[F[p].mod][v].tag = F[p].addr /\ c[F[p].mod][v].state # "I"
<1>1. Calls(F) /\ Leaning(F, c, d) /\ Covered(F, c, d)
  BY DEF Copies
<1>2. /\ s \in DOMAIN F /\ F[s] \in Frame /\ F[s].pc = "call" /\ F[s].reply # "None"
      /\ F[p].addr = F[s].srcTag /\ F[p].mod = F[s].target /\ FlowOK(F[s])
  BY <1>1, FindCallerOf DEF FindLink, Where
<1>3. PICK m, w, t : m = F[s].mod /\ w = F[s].srcWay /\ t = F[s].srcTag
  OBVIOUS
<1>4. /\ m \in Modules \ {MainMemory} /\ F[p].mod = Low[m] /\ w \in Ways(m) /\ t \in Tag
  BY <1>2, <1>3 DEF FlowOK, EvictFlow, Frame
<1>5. c[m][w].tag = t /\ c[m][w].state # "I"
  BY <1>1, <1>2, <1>3 DEF Leaning, LeanOK, EvictedOK
<1>6. ~Lost(F, m, w)
  <2>1. SUFFICES ASSUME NEW e \in DOMAIN F, IsLost(F[e]), F[e].mod = m, F[e].srcWay = w
                 PROVE  FALSE
    BY DEF Lost
  <2>2. F[e].kind = "evict" /\ F[e].pc # "evict" /\ F[e].pc = "reply"
    BY <2>1 DEF IsLost
  <2>3. PICK h, k : h = Front(s) /\ k = Front(e)
    OBVIOUS
  <2>4. /\ h \in DOMAIN F /\ Holds(F[h]) /\ Where(F[h]) = m /\ F[h].way = w /\ Child(s, h)
        /\ F[h].kind = "find_and_lock"
    BY <1>1, <1>2, <1>3, <2>3, EvictHolder
  <2>5. /\ k \in DOMAIN F /\ Holds(F[k]) /\ Where(F[k]) = m /\ F[k].way = w /\ Child(e, k)
    BY <1>1, <2>1, <2>2, <2>3, EvictHolder
  <2>6. h = k
    BY <2>4, <2>5, OneHolder
  <2>7. s = e
    BY <1>2, <2>4, <2>5, <2>6, OnlyCall
  <2> QED BY <1>2, <2>2, <2>7
<1>7. c[m][w].state \in Valid /\ Valid \in Rights /\ "I" \notin Valid
  BY <1>4, <1>5, StorageFacts DEF Valid, Rights
<1>8. Needs(F, c, m, t, Valid)
  BY <1>4, <1>5, <1>6, <1>7 DEF Needs, Has
<1>9. PICK v \in Ways(Low[m]) : Serves(F, c[Low[m]][v], d[Low[m]][v], Low[m], v, m, t, Valid)
  BY <1>1, <1>4, <1>7, <1>8 DEF Covered
<1> QED BY <1>2, <1>3, <1>4, <1>9 DEF Serves

\* A request from below finds no block, and its caller goes on.
LEMMA RequestFindsNone ==
    ASSUME NEW F, NEW c, NEW d, Sys(F, d), Copies(F, c, d), NEW p \in DOMAIN F, Childless(F, p),
           F[p].kind = "find_and_lock", NEW s, s = Front(p), IsRequest(F[s]), F[s].dir = "downup",
           \A w \in Ways(F[p].mod) : ~InMatches(c, d, F[p].mod, F[p].addr, w),
           NEW G, DOMAIN G = DOMAIN F \ {p}, \A q \in DOMAIN G : q # s => G[q] = F[q],
           G[s] \in Frame, G[s].pc = "action", G[s].notFound, G[s].kind = F[s].kind,
           G[s].mod = F[s].mod, G[s].addr = F[s].addr, G[s].target = F[s].target,
           G[s].dir = F[s].dir, G[s].way = F[s].way, G[s].blocking = F[s].blocking,
           G[s].error = F[s].error, G[s].except = F[s].except
    PROVE  Copies(G, c, d)
<1>1. Calls(F) /\ Leaning(F, c, d) /\ Quiet(F, c)
  BY DEF Copies
<1>2. /\ s \in DOMAIN F /\ s # p /\ Child(p, s) /\ F[s] \in Frame /\ FrameOK(F[s])
      /\ F[s].pc = "call" /\ F[s].kind # "invalidate" /\ F[s].way = 0
      /\ F[p].addr = F[s].addr /\ F[p].mod = F[s].target /\ FlowOK(F[s]) /\ ~IsAccess(F[p])
  BY <1>1, FindCallerOf DEF FindLink, Where, IsRequest
<1>3. PICK l, t : l = F[p].mod /\ t = F[p].addr
  OBVIOUS
<1>4. PICK f, g : f = F[s] /\ g = G[s]
  OBVIOUS
<1>5. PICK X : X = {p, s}
  OBVIOUS
<1>6. /\ f.pc = "call" /\ f.way = 0 /\ f.dir = "downup" /\ IsRequest(f) /\ FlowOK(f) /\ FrameOK(f)
      /\ g \in Frame /\ g.pc = "action" /\ g.notFound /\ g.kind = f.kind /\ g.mod = f.mod
      /\ g.addr = f.addr /\ g.target = f.target /\ g.dir = f.dir /\ g.way = 0
      /\ g.blocking = f.blocking /\ g.error = f.error /\ g.except = f.except
      /\ f.target = l /\ f.addr = t /\ t \in Tag /\ ~f.notFound
  <2>1. ~f.notFound
    BY <1>2, <1>4 DEF FrameOK, RequestOK
  <2>2. f \in Frame
    BY <1>2, <1>4
  <2>3. f.addr \in Tag
    BY <2>2 DEF Frame
  <2> QED BY <1>2, <1>3, <1>4, <2>1, <2>3
<1>7. IsRequest(g) /\ ~IsAccess(g) /\ ~Holds(g) /\ ~IsUpDown(g)
  BY <1>6 DEF IsRequest, IsAccess, Holds, IsUpDown
<1>8. FlowOK(g)
  BY <1>6, <1>7 DEF FlowOK, RequestFlow, IsRequest
<1>9. LeanOK(g, c, d)
  BY <1>6, <1>7 DEF LeanOK, IsRequest
<1>10. Rest(F, G, X) /\ Linked(G, X) /\ p \notin DOMAIN G /\ s \in DOMAIN G
  <2>1. SameLink(f, g)
    BY <1>6 DEF SameLink, IsRequest
  <2>2. ~IsAccess(f) /\ LinkOK(f, F[Front(s)])
    BY <1>1, <1>2, <1>4, <1>6, LinkOf DEF IsRequest, IsAccess
  <2>3. LinkOK(G[s], F[Front(s)])
    BY <1>4, <2>1, <2>2, SameLinkOK
  <2> QED BY <1>2, <1>5, <2>3, LinkedReturn
<1>11. \A K \in Rights : ~Needs(F, c, l, t, K)
  BY <1>1, <1>3, NeedsMatch
<1>12. ReadQuiet(g, F, c)
  <2>1. CASE f.kind = "read_request"
    <3>1. ReadQuiet(f, F, c)
      BY <1>1, <1>2, <1>4 DEF Quiet
    <3>2. NoneBut(F, c, f.mod, f.addr, {f.target})
      BY <1>6, <2>1, <3>1 DEF ReadQuiet
    <3>3. NoneBut(F, c, f.mod, f.addr, {})
      BY <1>6, <1>11, <3>2 DEF NoneBut, Rights
    <3> QED BY <1>6, <3>3 DEF ReadQuiet
  <2> QED BY <1>6, <2>1 DEF ReadQuiet
<1>13. Fits(F, c, G, c, d, X, s)
  <2>1. ~Cleared(G, s)
    BY <1>4, <1>6 DEF Cleared
  <2>2. Backed(F, c, G, s) /\ Shows(F, G, X, s)
    BY <1>4, <1>7 DEF Backed, Granted, Shows
  <2> QED BY <1>4, <1>6, <1>8, <1>9, <1>12, <2>1, <2>2 DEF Fits
<1>14. ASSUME NEW K \in Rights
       PROVE  ~Needs(G, c, l, t, K)
  <2>1. \A w \in Ways(l) : ~InMatches(c, d, l, t, w)
    BY <1>3
  <2>2. ~Has(G, c, l, t, K)
    BY <2>1, RightsFacts DEF Has, InMatches
  <2>3. ASSUME NEW x \in DOMAIN G, Granted(G, x, K), Where(G[x]) = l, G[x].tag = t
        PROVE  FALSE
    <3>1. Holds(G[x])
      BY <2>3 DEF Granted
    <3>2. x # s
      BY <1>4, <1>7, <3>1
    <3>3. x \in DOMAIN F /\ F[x] = G[x]
      BY <3>2
    <3>4. F[x].way \in Ways(Where(F[x])) /\ InMatches(c, d, Where(F[x]), F[x].tag, F[x].way)
      BY <1>1, <3>1, <3>3, Claims
    <3> QED BY <2>1, <2>3, <3>3, <3>4
  <2> QED BY <2>2, <2>3 DEF Needs, Due
<1>15. AskedEnds(F, G, c, c)
  <2>1. SUFFICES ASSUME NEW k \in Modules, NEW m \in Modules \ {MainMemory}, NEW u \in Tag,
                        NEW K \in Rights, NEW v \in Ways(k), Asked(F, k, v, m), Low[m] = k,
                        c[k][v].tag = u, Needs(G, c, m, u, K)
                 PROVE  Asked(G, k, v, m)
    BY DEF AskedEnds
  <2>2. PICK a \in DOMAIN F, b \in DOMAIN F :
           /\ Child(a, b) /\ Revoking(F[a]) /\ F[a].target = m
           /\ F[b].kind = "invalidate" /\ F[b].mod = k /\ F[b].way = v
    BY <2>1 DEF Asked
  <2>3. b # p /\ b # s /\ a # p
    BY <1>2, <2>2 DEF Revoking, Revokes
  <2>4. a # s
    <3>1. SUFFICES ASSUME a = s PROVE FALSE
      OBVIOUS
    <3>2. b = Front(s) /\ ~IsAccess(F[s])
      BY <2>2, <3>1, <1>6, <1>4 DEF Child, IsRequest, IsAccess
    <3>3. CallOK(F[s], F[b]) /\ LinkOK(F[s], F[b])
      BY <1>1, <1>2, <3>2, LinkOf, FrameOf
    <3>4. F[b].pc = "finish" /\ F[s].addr = F[b].tag
      BY <1>4, <1>6, <2>2, <3>3 DEF CallOK, LinkOK, RequestLink
    <3>5. c[k][v].tag = F[b].tag
      BY <1>1, <2>2, <3>4 DEF Leaning, LeanOK, InvalidatedOK
    <3> QED BY <1>4, <1>6, <1>14, <2>1, <2>2, <3>1, <3>4, <3>5
  <2>5. a \in DOMAIN G /\ b \in DOMAIN G /\ G[a] = F[a] /\ G[b] = F[b]
    BY <2>3, <2>4
  <2> QED BY <2>2, <2>5 DEF Asked
<1>16. \A x \in X \cap DOMAIN G : Fits(F, c, G, c, d, X, x)
  BY <1>5, <1>10, <1>13
<1>17. \A x \in X \cap DOMAIN F : ~IsLost(F[x])
  BY <1>2, <1>5 DEF IsLost, IsAccess
<1> QED BY <1>10, <1>15, <1>16, <1>17, FramesEnd

\* A block that is not in the cache, in a request from below; the block of an
\* eviction is there.
LEMMA FindAndLockNotFoundCopies ==
    ASSUME Inv, Inv', Copies(frames, cache, dir), NEW p \in DOMAIN frames, FindAndLockNotFound(p)
    PROVE  Copies(frames, cache, dir)'
<1>1. PICK F, G, s : F = frames /\ G = frames' /\ s = Front(p)
  OBVIOUS
<1>2. PICK h : h = [Parent(p) EXCEPT !.notFound = TRUE]
  OBVIOUS
<1>3. /\ F[p].kind = "find_and_lock" /\ F[p].pc = "find" /\ F[p].dir = "downup"
      /\ G = Return(p, h) /\ UNCHANGED <<cache, dir>>
      /\ \A w \in Ways(F[p].mod) : ~InMatches(cache, dir, F[p].mod, F[p].addr, w)
  BY <1>1, <1>2 DEF FindAndLockNotFound, At, Matches, InMatches, isEntryLocked
<1>4. /\ Sys(F, dir) /\ Storage(cache, dir) /\ Calls(F) /\ Childless(F, p)
      /\ Copies(F, cache, dir) /\ p \in DOMAIN F
  BY <1>1, <1>3, FindsNothingHeld DEF At, Copies, Inv
<1>5. /\ s \in DOMAIN F /\ s # p /\ F[s] \in Frame
      /\ F[s].kind # "evict" => IsRequest(F[s])
      /\ IsRequest(F[s]) => F[p].ret = "action" /\ F[s].dir = "downup"
  BY <1>1, <1>3, <1>4, FindCallerOf
<1>6. F[s].kind # "evict"
  <2>1. SUFFICES ASSUME F[s].kind = "evict" PROVE FALSE
    OBVIOUS
  <2>2. F[p].kind = "find_and_lock" /\ s = Front(p)
    BY <1>1, <1>3
  <2>3. \E v \in Ways(F[p].mod) :
           cache[F[p].mod][v].tag = F[p].addr /\ cache[F[p].mod][v].state # "I"
    BY ONLY <1>4, <2>1, <2>2, EvictionFinds
  <2> QED BY <1>3, <2>3 DEF InMatches
<1>7. IsRequest(F[s]) /\ F[p].ret = "action" /\ F[s].dir = "downup" /\ F[s] \in Frame
  BY <1>5, <1>6
<1>8. /\ DOMAIN G = DOMAIN F \ {p}
      /\ G[s] \in Frame /\ G[s].pc = "action" /\ G[s].notFound /\ G[s].kind = F[s].kind
      /\ G[s].mod = F[s].mod /\ G[s].addr = F[s].addr /\ G[s].target = F[s].target
      /\ G[s].dir = F[s].dir /\ G[s].way = F[s].way /\ G[s].blocking = F[s].blocking
      /\ G[s].error = F[s].error /\ G[s].except = F[s].except
      /\ \A q \in DOMAIN F : q # p /\ q # s => G[q] = F[q]
  <2>1. PICK g, e, f : g = F[s] /\ e = "action" /\ f = [h EXCEPT !.pc = e]
    OBVIOUS
  <2>2. h = [g EXCEPT !.notFound = TRUE] /\ g \in Frame /\ f = [h EXCEPT !.pc = e] /\ e \in Events
    BY <1>1, <1>2, <1>7, <2>1 DEF Parent, Events
  <2>3. /\ f \in Frame /\ f.pc = e /\ f.notFound /\ f.kind = g.kind
        /\ f.mod = g.mod /\ f.addr = g.addr /\ f.target = g.target
        /\ f.dir = g.dir /\ f.way = g.way /\ f.blocking = g.blocking
        /\ f.error = g.error /\ f.except = g.except
    BY ONLY <2>2 DEF Frame
  <2>4. s = Front(p) /\ s \in DOMAIN frames /\ s # p /\ G = Return(p, h) /\ p \in DOMAIN frames
        /\ frames[p].ret = "action"
    BY <1>1, <1>3, <1>5, <1>7, FindCallerOf, <1>4
  <2>5. /\ DOMAIN G = DOMAIN frames \ {p} /\ G[s] = [h EXCEPT !.pc = "action"]
        /\ \A q \in DOMAIN frames : q # p /\ q # s => G[q] = frames[q]
    BY ONLY <2>4 DEF Return
  <2> QED BY <1>1, <2>1, <2>3, <2>5
<1>9. Copies(G, cache, dir)
  <2>1. s = Front(p) /\ F[p].kind = "find_and_lock" /\ \A q \in DOMAIN G : q # s => G[q] = F[q]
    BY <1>1, <1>3, <1>8
  <2>2. \A w \in Ways(F[p].mod) : ~InMatches(cache, dir, F[p].mod, F[p].addr, w)
    BY <1>3
  <2>3. PICK c, d : c = cache /\ d = dir
    OBVIOUS
  <2>4. /\ Sys(F, d) /\ Copies(F, c, d) /\ p \in DOMAIN F /\ Childless(F, p)
        /\ \A w \in Ways(F[p].mod) : ~InMatches(c, d, F[p].mod, F[p].addr, w)
    BY <1>4, <2>2, <2>3
  <2>5. Copies(G, c, d)
    BY ONLY <1>7, <1>8, <2>1, <2>4, RequestFindsNone
  <2> QED BY <2>3, <2>5
<1> QED BY <1>1, <1>3, <1>9

\* A find-and-lock chain locks a free entry, which is a match if there is one.
LEMMA EntryTaken ==
    ASSUME NEW F, NEW c, NEW d, Sys(F, d), Copies(F, c, d), NEW p \in DOMAIN F, Childless(F, p),
           F[p].kind = "find_and_lock", F[p].pc = "find",
           NEW m, m = F[p].mod, NEW t, t = F[p].addr, NEW w \in Ways(m), d[m][w].lock = 0,
           NEW G, DOMAIN G = DOMAIN F, \A q \in DOMAIN F : q # p => G[q] = F[q],
           G[p] \in Frame, SameLink(F[p], G[p]), G[p].pc = "action", G[p].way = w, G[p].tag = t,
           G[p].error = F[p].error, G[p].eviction = F[p].eviction, G[p].state = c[m][w].state,
           NEW c1, NEW d1, OffEntry(c, d, c1, d1, m, w),
           c1[m][w].tag = c[m][w].tag, c1[m][w].state = c[m][w].state, c1[m][w].transient = t,
           d1[m][w].sharers = d[m][w].sharers, d1[m][w].owner = d[m][w].owner,
           d1[m][w].lock # 0,
           \/ G[p].hit /\ InMatches(c, d, m, t, w)
           \/ /\ ~G[p].hit /\ F[p].dir # "downup"
              /\ \A v \in Ways(m) : ~InMatches(c, d, m, t, v)
    PROVE  Copies(G, c1, d1)
<1>1. Calls(F) /\ Leaning(F, c, d) /\ OneWayEach(c, d) /\ Above(d)
  BY DEF Copies
<1>2. /\ FindFlow(F[p]) /\ F[p] \in Frame /\ ~IsAccess(F[p]) /\ LinkOK(F[p], F[Front(p)])
      /\ m \in Modules /\ t \in Tag
  BY <1>1, FindCallerOf, LinkOf, FrameOf
<1>3. PICK X : X = {p}
  OBVIOUS
<1>4. PICK g : g = G[p]
  OBVIOUS
<1>5. g.kind = "find_and_lock" /\ g.mod = m /\ g.dir = F[p].dir /\ ~g.error /\ ~g.eviction
      /\ Where(g) = m /\ g.pc = "action" /\ g.way = w /\ g.tag = t
  BY <1>2, <1>4 DEF SameLink, FindFlow, Where
<1>6. FlowOK(g)
  <2>1. FindFlow(g)
    BY <1>4, <1>5 DEF FindFlow
  <2> QED BY <1>5, <2>1 DEF FlowOK, IsRequest
<1>7. FoundOK(g, c1[m][w])
  BY <1>4, <1>5 DEF FoundOK, InMatches
<1>8. Rest(F, G, X) /\ Linked(G, X) /\ Childless(G, p)
  <2>1. LinkOK(G[p], F[Front(p)])
    BY <1>2, SameLinkOK
  <2> QED BY <1>3, <2>1, LinkedOne
<1>9. Fits(F, c, G, c1, d1, X, p)
  <2>1. \A q \in DOMAIN G : Child(q, p) => ~IsUpDown(G[q])
    BY <1>8 DEF Childless
  <2> QED BY <1>4, <1>5, <1>6, <1>7, <2>1, FindFits
<1>10. Leaves(F, G, p)
  BY DEF Leaves, IsLost, Revoking, Revokes
<1>11. /\ \A x \in X \cap DOMAIN G : Fits(F, c, G, c1, d1, X, x)
       /\ \A x \in X \cap DOMAIN F : Leaves(F, G, x) /\ ~IsLost(F[x])
  BY <1>3, <1>9, <1>10 DEF Leaves
<1>12. \A q \in DOMAIN F \ X : ~Leans(F[q], m, w)
  BY <1>1, FreeEntry
<1>13. OneWayEach(c1, d1)
  <2>1. SUFFICES ASSUME NEW n \in Modules, NEW u \in Tag, NEW v \in Ways(n), NEW z \in Ways(n),
                        InMatches(c1, d1, n, u, v), InMatches(c1, d1, n, u, z)
                 PROVE  v = z
    BY DEF OneWayEach
  <2>2. \A y \in Ways(n) : n # m \/ y # w => (InMatches(c1, d1, n, u, y) <=> InMatches(c, d, n, u, y))
    BY DEF OffEntry, InMatches
  <2>3. n = m /\ InMatches(c1, d1, n, u, w) => u = t \/ InMatches(c, d, n, u, w)
    BY DEF InMatches
  <2>4. InMatches(c, d, n, u, v) /\ InMatches(c, d, n, u, z) => v = z
    BY <1>1 DEF OneWayEach
  <2>5. CASE n = m /\ u = t /\ ~InMatches(c, d, m, t, w)
    BY <2>1, <2>2, <2>5
  <2>6. CASE ~(n = m /\ u = t /\ ~InMatches(c, d, m, t, w))
    BY <2>1, <2>2, <2>3, <2>4, <2>6
  <2> QED BY <2>5, <2>6
<1>14. Above(d1)
  <2>1. /\ \A i \in d1[m][w].sharers : Low[i] = m
        /\ d1[m][w].owner # NoModule => Low[d1[m][w].owner] = m
    BY <1>1, <1>2 DEF Above
  <2> QED BY <1>1, <2>1, AboveKept
<1>15. \A n \in Modules : \A v \in Ways(n) : Lost(F, n, v) => Lost(G, n, v)
  BY <1>8, <1>11, LostKept
<1>16. AskedEnds(F, G, c, c1)
  BY <1>8, <1>11, AllAskedKept
<1>17. \A n : Asked(F, m, w, n) => Asked(G, m, w, n)
  BY <1>8, <1>11, AskedKept
<1>18. ASSUME NEW K \in Rights, m # MainMemory, c1[m][w].state \in K, ~Lost(G, m, w)
       PROVE  Needs(F, c, m, c1[m][w].tag, K)
  BY <1>2, <1>15, <1>18 DEF Needs, Has
<1>19. ASSUME NEW K \in Rights, NEW n \in Modules \ {MainMemory}, NEW u \in Tag,
              Serves(F, c[m][w], d[m][w], m, w, n, u, K)
       PROVE  Serves(G, c1[m][w], d1[m][w], m, w, n, u, K)
  BY <1>17, <1>19 DEF Serves
<1> QED BY <1>2, <1>8, <1>11, <1>12, <1>13, <1>14, <1>15, <1>16, <1>18, <1>19, EntryStep

\* A free lock is taken; after a miss the block in the way may have to go.
LEMMA FindAndLockTakeCopies ==
    ASSUME Inv, Inv', Copies(frames, cache, dir), NEW p \in DOMAIN frames,
           NEW w \in Ways(frames[p].mod), FindAndLockTake(p, w)
    PROVE  Copies(frames, cache, dir)'
<1>1. PICK F, G, c, d, c1, d1 : /\ F = frames /\ G = frames' /\ c = cache /\ d = dir
                                /\ c1 = cache' /\ d1 = dir'
  OBVIOUS
<1>2. PICK m, t, z, h : /\ m = F[p].mod /\ t = F[p].addr /\ z = c[m][w].state
                        /\ h = (Matches(m, t) # {})
  OBVIOUS
<1>3. PICK f : f = [F[p] EXCEPT !.pc = "action", !.way = w, !.tag = t, !.state = z, !.hit = h]
  OBVIOUS
<1>4. PICK b, e : b = [c[m][w] EXCEPT !.transient = t] /\ e = [d[m][w] EXCEPT !.lock = Head(p)]
  OBVIOUS
<1>5. /\ F[p].kind = "find_and_lock" /\ F[p].pc = "find" /\ ~isEntryLocked(m, w)
      /\ Matches(m, t) # {} \/ F[p].dir # "downup"
      /\ w \in FindWays(m, t)
  BY <1>1, <1>2 DEF FindAndLockTake, FindsWay, At
<1>6. G = With(p, f) /\ d1 = [d EXCEPT ![m][w] = e] /\ c1 = [c EXCEPT ![m][w] = b]
  BY <1>1, <1>2, <1>3, <1>4 DEF FindAndLockTake
<1>7. /\ Sys(F, d) /\ Storage(c, d) /\ Calls(F) /\ Childless(F, p) /\ Copies(F, c, d)
      /\ p \in DOMAIN F /\ F[p] \in Frame /\ Sys(G, d1)
  BY <1>1, <1>5, FindsNothingHeld, FrameOf DEF At, Copies, Inv
<1>8. DOMAIN G = DOMAIN F /\ G[p] = f /\ \A q \in DOMAIN F : q # p => G[q] = F[q]
  BY <1>1, <1>6, WithFacts
<1>9. f \in Frame
  BY <1>7, <1>8, FrameOf
<1>10. /\ m \in Modules /\ w \in Ways(m) /\ c[m][w] \in Block /\ d[m][w] \in Entry
       /\ d[m][w].lock = 0 /\ Head(p) \in Accesses /\ Head(p) # 0 /\ h \in BOOLEAN
  BY <1>1, <1>2, <1>5, <1>7, StorageFacts, FrameOf, WherePlaces DEF isEntryLocked, Sys
<1>11. /\ f.pc = "action" /\ f.way = w /\ f.tag = t /\ f.state = z /\ f.hit = h
       /\ f.error = F[p].error /\ f.eviction = F[p].eviction /\ SameLink(F[p], f)
  <2>1. PICK g, x : g = F[p] /\ x = "action"
    OBVIOUS
  <2>2. /\ g \in Frame /\ g.kind = "find_and_lock"
        /\ f = [g EXCEPT !.pc = x, !.way = w, !.tag = t, !.state = z, !.hit = h]
    BY <1>3, <1>5, <1>7, <2>1
  <2>3. /\ f.pc = x /\ f.way = w /\ f.tag = t /\ f.state = z /\ f.hit = h
        /\ f.error = g.error /\ f.eviction = g.eviction /\ SameLink(g, f)
    BY ONLY <2>2 DEF Frame, SameLink
  <2> QED BY <2>1, <2>3
<1>12. /\ b.tag = c[m][w].tag /\ b.state = c[m][w].state /\ b.transient = t
       /\ e.sharers = d[m][w].sharers /\ e.owner = d[m][w].owner /\ e.lock # 0
  BY <1>4, <1>10 DEF Block, Entry
<1>13. /\ OffEntry(c, d, c1, d1, m, w) /\ c1[m][w] = b /\ d1[m][w] = e
  <2>1. /\ DOMAIN d = Modules /\ \A n \in Modules : d[n] \in [Ways(n) -> Entry]
        /\ DOMAIN c = Modules /\ \A n \in Modules : c[n] \in [Ways(n) -> Block]
    BY <1>7 DEF Storage
  <2>2. ASSUME NEW n \in Modules, NEW v \in Ways(n), n # m \/ v # w
        PROVE  d1[n][v] = d[n][v] /\ c1[n][v] = c[n][v]
    BY <1>6, <1>10, <2>1, <2>2
  <2>3. c1[m][w] = b /\ d1[m][w] = e
    BY <1>6, <1>10, <2>1
  <2> QED BY <2>2, <2>3 DEF OffEntry
<1>14. \A v : v \in Matches(m, t) <=> v \in Ways(m) /\ InMatches(c, d, m, t, v)
  BY <1>1 DEF Matches, InMatches, isEntryLocked
<1>15. \/ f.hit /\ InMatches(c, d, m, t, w)
       \/ /\ ~f.hit /\ F[p].dir # "downup"
          /\ \A v \in Ways(m) : ~InMatches(c, d, m, t, v)
  <2>1. CASE Matches(m, t) # {}
    <3>1. PICK S : S = Matches(m, t)
      OBVIOUS
    <3>2. S \subseteq Nat /\ S # {} /\ w = Min(S)
      BY <1>5, <1>14, <2>1, <3>1 DEF FindWays, Ways
    <3>3. w \in S
      BY <3>2, LeastNumber DEF Min
    <3> QED BY <1>2, <1>11, <1>14, <2>1, <3>1, <3>3
  <2>2. CASE Matches(m, t) = {}
    BY <1>2, <1>5, <1>11, <1>14, <2>2
  <2> QED BY <2>1, <2>2
<1>16. /\ G[p] \in Frame /\ SameLink(F[p], G[p]) /\ G[p].pc = "action" /\ G[p].way = w
       /\ G[p].tag = t /\ G[p].error = F[p].error /\ G[p].eviction = F[p].eviction
       /\ G[p].state = c[m][w].state
       /\ c1[m][w].tag = c[m][w].tag /\ c1[m][w].state = c[m][w].state
       /\ c1[m][w].transient = t /\ d1[m][w].sharers = d[m][w].sharers
       /\ d1[m][w].owner = d[m][w].owner /\ d1[m][w].lock # 0
       /\ \/ G[p].hit /\ InMatches(c, d, m, t, w)
          \/ /\ ~G[p].hit /\ F[p].dir # "downup"
             /\ \A v \in Ways(m) : ~InMatches(c, d, m, t, v)
  BY <1>2, <1>8, <1>9, <1>11, <1>12, <1>13, <1>15
<1>17. F[p].kind = "find_and_lock" /\ F[p].pc = "find" /\ m = F[p].mod /\ t = F[p].addr
       /\ w \in Ways(m) /\ d[m][w].lock = 0
  BY <1>2, <1>5, <1>10
<1>18. Copies(G, c1, d1)
  BY ONLY <1>7, <1>8, <1>13, <1>16, <1>17, EntryTaken, SMTT(30)
<1> QED BY <1>1, <1>18

\* A find-and-lock chain has its block, or a free way.
LEMMA FindGoes ==
    ASSUME NEW F, NEW c, NEW d, Sys(F, d), Copies(F, c, d), NEW p \in DOMAIN F, Childless(F, p),
           F[p].kind = "find_and_lock", F[p].pc = "action", F[p].hit \/ F[p].state = "I",
           NEW G, DOMAIN G = DOMAIN F, \A q \in DOMAIN F : q # p => G[q] = F[q],
           G[p] \in Frame, Alike(F[p], G[p]), G[p].pc = "finish", G[p].error = F[p].error
    PROVE  Copies(G, c, d)
<1>1. Calls(F) /\ Leaning(F, c, d)
  BY DEF Copies
<1>2. /\ FindFlow(F[p]) /\ ~IsAccess(F[p]) /\ LinkOK(F[p], F[Front(p)])
      /\ Holds(F[p]) /\ FoundOK(F[p], c[F[p].mod][F[p].way])
  BY <1>1, FindCallerOf, LinkOf DEF Holds, Leaning, LeanOK
<1>3. PICK X, f, g : X = {p} /\ f = F[p] /\ g = G[p]
  OBVIOUS
<1>4. /\ g.kind = "find_and_lock" /\ g.pc = "finish" /\ ~g.error /\ ~g.eviction
      /\ g.mod = f.mod /\ g.way = f.way /\ g.hit = f.hit /\ g.state = f.state /\ g.tag = f.tag
      /\ g.dir = f.dir /\ (g.hit \/ g.state = "I") /\ SameLink(f, g)
  BY <1>2, <1>3 DEF Alike, FindFlow, SameLink
<1>5. FlowOK(g)
  <2>1. FindFlow(g)
    BY <1>2, <1>3, <1>4 DEF FindFlow
  <2> QED BY <1>4, <2>1 DEF FlowOK, IsRequest
<1>6. FoundOK(g, c[g.mod][g.way])
  BY <1>2, <1>3, <1>4 DEF FoundOK
<1>7. LinkOK(G[p], F[Front(p)])
  BY <1>2, <1>3, <1>4, SameLinkOK
<1>8. Rest(F, G, X) /\ Linked(G, X) /\ Childless(G, p)
  BY <1>3, <1>7, LinkedOne
<1>9. Fits(F, c, G, c, d, X, p)
  <2>1. \A q \in DOMAIN G : Child(q, p) => ~IsUpDown(G[q])
    BY <1>8 DEF Childless
  <2> QED BY <1>3, <1>4, <1>5, <1>6, <2>1, FindFits
<1>10. Leaves(F, G, p)
  BY DEF Leaves, IsLost, Revoking, Revokes
<1>11. /\ \A x \in X \cap DOMAIN G : Fits(F, c, G, c, d, X, x)
       /\ \A x \in X \cap DOMAIN F : Leaves(F, G, x)
  BY <1>3, <1>9, <1>10
<1> QED BY <1>8, <1>11, FramesStep

\* A find-and-lock chain has the block in its way evicted.
LEMMA FindEvicts ==
    ASSUME NEW F, NEW c, NEW d, Sys(F, d), Copies(F, c, d), NEW p \in DOMAIN F, Childless(F, p),
           F[p].kind = "find_and_lock", F[p].pc = "action", ~F[p].hit,
           NEW q, NEW G, Calling(F, G, p, q),
           G[p] \in Frame, SameLink(F[p], G[p]), G[p].pc = "call", ~G[p].error, G[p].eviction,
           G[p].hit = F[p].hit, G[p].way = F[p].way, G[p].tag = F[p].tag, G[p].state = F[p].state,
           G[q] \in Frame, G[q].kind = "evict", G[q].pc = "evict", G[q].way = F[p].way,
           ~G[q].notFound, G[q].reply = "None", ~G[q].error
    PROVE  Copies(G, c, d)
<1>1. Calls(F) /\ Leaning(F, c, d)
  BY DEF Copies
<1>2. /\ FindFlow(F[p]) /\ ~IsAccess(F[p]) /\ LinkOK(F[p], F[Front(p)])
      /\ Holds(F[p]) /\ FoundOK(F[p], c[F[p].mod][F[p].way])
  BY <1>1, FindCallerOf, LinkOf DEF Holds, Leaning, LeanOK
<1>3. PICK X, f, g, h : X = {p, q} /\ f = F[p] /\ g = G[p] /\ h = G[q]
  OBVIOUS
<1>4. g.kind = "find_and_lock" /\ g.mod = f.mod /\ g.dir = f.dir
  BY <1>3 DEF SameLink
<1>5. FlowOK(g)
  <2>1. FindFlow(g)
    BY <1>2, <1>3, <1>4 DEF FindFlow
  <2> QED BY <1>3, <1>4, <2>1 DEF FlowOK, IsRequest
<1>6. FoundOK(g, c[g.mod][g.way])
  BY <1>2, <1>3, <1>4 DEF FoundOK
<1>7. LinkOK(G[p], F[Front(p)])
  BY <1>2, <1>3, SameLinkOK
<1>8. LinkOK(G[q], G[p])
  BY <1>3, <1>4 DEF LinkOK, EvictLink, IsRequest
<1>9. /\ Rest(F, G, X) /\ Linked(G, X) /\ Childless(G, q)
      /\ \A r \in DOMAIN G : Child(r, p) => r = q
      /\ p \in DOMAIN G /\ q \in DOMAIN G /\ q \notin DOMAIN F
  BY <1>3, <1>7, <1>8, LinkedCall
<1>10. Fits(F, c, G, c, d, X, p)
  <2>1. \A r \in DOMAIN G : Child(r, p) => ~IsUpDown(G[r])
    BY <1>9 DEF IsUpDown, IsRequest
  <2> QED BY <1>3, <1>4, <1>5, <1>6, <2>1, FindFits
<1>11. Fits(F, c, G, c, d, X, q)
  <2>1. ~Holds(h) /\ h.kind = "evict" /\ h.pc = "evict" /\ h \in Frame
    BY <1>3 DEF Holds, IsAccess, IsRequest, Processing
  <2>2. FlowOK(h)
    BY <1>3, <2>1 DEF FlowOK, EvictFlow, Processing, IsRequest
  <2>3. LeanOK(h, c, d)
    BY <2>1 DEF LeanOK
  <2>4. ~Cleared(G, q) /\ ~IsUpDown(h) /\ Backed(F, c, G, q) /\ ReadQuiet(h, F, c)
    BY <1>3, <2>1 DEF Cleared, IsUpDown, IsRequest, Backed, Granted, ReadQuiet
  <2> QED BY <1>3, <2>1, <2>2, <2>3, <2>4 DEF Fits, Shows
<1>12. Leaves(F, G, p)
  BY DEF Leaves, IsLost, Revoking, Revokes
<1>13. /\ \A x \in X \cap DOMAIN G : Fits(F, c, G, c, d, X, x)
       /\ \A x \in X \cap DOMAIN F : Leaves(F, G, x)
  BY <1>3, <1>9, <1>10, <1>11, <1>12
<1> QED BY <1>9, <1>13, FramesStep

\* The block in the way is evicted, if it is another one.
LEMMA FindAndLockActionCopies ==
    ASSUME Inv, Inv', Copies(frames, cache, dir), NEW p \in DOMAIN frames, FindAndLockAction(p)
    PROVE  Copies(frames, cache, dir)'
<1>1. PICK F, G, c, d, f : F = frames /\ G = frames' /\ c = cache /\ d = dir /\ f = F[p]
  OBVIOUS
<1>2. /\ f.kind = "find_and_lock" /\ f.pc = "action" /\ UNCHANGED <<cache, dir>>
      /\ p \in DOMAIN F /\ F[p].kind = "find_and_lock" /\ F[p].pc = "action"
  BY <1>1 DEF FindAndLockAction, At
<1>3. /\ Sys(F, d) /\ Copies(F, c, d) /\ Tree(frames) /\ Calls(F) /\ f \in Frame
      /\ Childless(F, p) /\ f.way \in Ways(f.mod) /\ f.mod \in Modules
  <2>1. Sys(F, d) /\ Copies(F, c, d) /\ Tree(frames) /\ Calls(F) /\ Holds(f) /\ Where(f) = f.mod
    BY <1>1, <1>2 DEF Inv, Sys, Copies, Holds, Where
  <2>2. Childless(F, p)
    BY <1>1, <1>2, <2>1, NoChildren
  <2> QED BY <1>1, <2>1, <2>2, FrameOf
<1>4. CASE f.hit \/ f.state = "I"
  <2>1. PICK e, g : e = "finish" /\ g = [f EXCEPT !.pc = e]
    OBVIOUS
  <2>2. G = With(p, g)
    BY <1>1, <1>4, <2>1 DEF FindAndLockAction, Goto
  <2>3. DOMAIN G = DOMAIN F /\ G[p] = g /\ \A q \in DOMAIN F : q # p => G[q] = F[q]
    BY <1>1, <2>2, WithFacts
  <2>4. f \in Frame /\ e \in Events /\ g = [f EXCEPT !.pc = e]
    BY <1>3, <2>1 DEF Events
  <2>5. g \in Frame /\ g.pc = e /\ Alike(f, g) /\ g.error = f.error
    BY ONLY <2>4, NextAlike
  <2>6. /\ G[p] \in Frame /\ Alike(F[p], G[p]) /\ G[p].pc = "finish" /\ G[p].error = F[p].error
        /\ (F[p].hit \/ F[p].state = "I")
    BY <1>1, <1>4, <2>1, <2>3, <2>5
  <2>7. Copies(G, c, d)
    BY ONLY <1>2, <1>3, <2>3, <2>6, FindGoes
  <2> QED BY <1>1, <1>2, <2>7
<1>5. CASE ~f.hit /\ f.state # "I"
  <2>1. PICK g, h, q, x : /\ g = [f EXCEPT !.pc = "call", !.error = FALSE, !.eviction = TRUE]
                          /\ h = EvictFrame("finish", f.mod, f.way)
                          /\ x = "evict" /\ q = Append(p, x)
    OBVIOUS
  <2>2. G = Call(With(p, g), q, h)
    BY <1>1, <1>5, <2>1 DEF FindAndLockAction
  <2>3. Below(q, p)
    <3>1. x \in PathNames
      BY <2>1 DEF PathNames
    <3> QED BY <2>1, <3>1 DEF Below
  <2>4. Calling(F, G, p, q) /\ G[p] = g /\ G[q] = h
    <3>1. Tree(frames) /\ p \in DOMAIN frames /\ Childless(frames, p)
      BY <1>1, <1>3
    <3>2. Calling(frames, G, p, q) /\ G[p] = g /\ G[q] = h
      BY ONLY <2>2, <2>3, <3>1, CallingOne
    <3> QED BY <1>1, <3>2
  <2>5. /\ g \in Frame /\ SameLink(f, g) /\ g.pc = "call" /\ ~g.error /\ g.eviction
        /\ g.hit = f.hit /\ g.way = f.way /\ g.tag = f.tag /\ g.state = f.state
    <3>1. PICK e : e = "call"
      OBVIOUS
    <3>2. /\ f \in Frame /\ f.kind = "find_and_lock" /\ e \in Events
          /\ g = [f EXCEPT !.pc = e, !.error = FALSE, !.eviction = TRUE]
      BY <1>2, <1>3, <2>1, <3>1 DEF Events
    <3>3. /\ g \in Frame /\ SameLink(f, g) /\ g.pc = e /\ ~g.error /\ g.eviction
          /\ g.hit = f.hit /\ g.way = f.way /\ g.tag = f.tag /\ g.state = f.state
      BY ONLY <3>2 DEF Frame, SameLink
    <3> QED BY <3>1, <3>3
  <2>6. /\ h \in Frame /\ h.kind = "evict" /\ h.pc = "evict" /\ h.way = f.way
        /\ ~h.notFound /\ h.reply = "None" /\ ~h.error
    <3>1. h \in Frame
      <4>1. PICK e : e = "finish"
        OBVIOUS
      <4>2. e \in Events /\ f.mod \in Modules /\ f.way \in Ways(f.mod)
            /\ h = EvictFrame(e, f.mod, f.way)
        BY <1>3, <2>1, <4>1 DEF Events
      <4> QED BY ONLY <4>2, EvictFrameFacts
    <3> QED BY <2>1, <3>1 DEF EvictFrame, NewFrame
  <2>7. /\ ~F[p].hit /\ G[p] \in Frame /\ SameLink(F[p], G[p]) /\ G[p].pc = "call" /\ ~G[p].error
        /\ G[p].eviction /\ G[p].hit = F[p].hit /\ G[p].way = F[p].way /\ G[p].tag = F[p].tag
        /\ G[p].state = F[p].state
        /\ G[q] \in Frame /\ G[q].kind = "evict" /\ G[q].pc = "evict" /\ G[q].way = F[p].way
        /\ ~G[q].notFound /\ G[q].reply = "None" /\ ~G[q].error
    BY <1>1, <1>5, <2>4, <2>5, <2>6
  <2>8. Copies(G, c, d)
    BY ONLY <1>2, <1>3, <2>4, <2>7, FindEvicts
  <2> QED BY <1>1, <1>2, <2>8
<1> QED BY <1>4, <1>5

\* A find-and-lock chain returns with its lock, and with the block if it is there.
LEMMA FindFinishes ==
    ASSUME NEW F, NEW c, NEW d, Sys(F, d), Copies(F, c, d), NEW p \in DOMAIN F, Childless(F, p),
           F[p].kind = "find_and_lock", F[p].pc = "finish", ~F[p].error,
           NEW s, s = Front(p), NEW m, m = F[p].mod, NEW w, w = F[p].way,
           NEW G, DOMAIN G = DOMAIN F \ {p}, \A q \in DOMAIN G : q # s => G[q] = F[q],
           G[s] \in Frame, G[s].pc = F[p].ret, G[s].kind = F[s].kind, G[s].mod = F[s].mod,
           G[s].addr = F[s].addr, G[s].target = F[s].target, G[s].dir = F[s].dir,
           G[s].notFound = F[s].notFound, G[s].except = F[s].except,
           G[s].srcWay = F[s].srcWay, G[s].srcTag = F[s].srcTag, G[s].reply = F[s].reply,
           G[s].blocking = F[s].blocking,
           ~G[s].error, G[s].way = w, G[s].tag = F[p].tag,
           NEW c1, OffEntry(c, d, c1, d, m, w), G[s].state = c1[m][w].state,
           c1[m][w].transient = c[m][w].transient,
           \/ c1[m][w] = c[m][w]
           \/ c[m][w].state = "I" /\ c1[m][w].state = "I"
           \/ /\ c[m][w].state = "I" /\ m = MainMemory
              /\ c1[m][w].tag = F[p].tag /\ c1[m][w].state # "I"
    PROVE  Copies(G, c1, d)
<1>1. Calls(F) /\ Leaning(F, c, d)
  BY DEF Copies
<1>2. PICK X, f, g, g1, b, b1 : /\ X = {p, s} /\ f = F[p] /\ g = F[s] /\ g1 = G[s]
                                /\ b = c[m][w] /\ b1 = c1[m][w]
  OBVIOUS
<1>3. /\ s \in DOMAIN F /\ s # p /\ Child(p, s) /\ g \in Frame /\ FrameOK(g)
      /\ g.pc = "call" /\ g.kind # "invalidate"
      /\ IsAccess(g) \/ IsRequest(g) \/ g.kind = "evict"
      /\ Where(g) = m /\ f.ret \in {"action", "process", "process_noncoherent"}
      /\ FindLink(f, g) /\ FindFlow(f) /\ FlowOK(g)
      /\ (IsAccess(g) => f.ret = "action")
      /\ (IsRequest(g) => f.ret = "action" /\ f.dir = g.dir)
      /\ (g.kind = "evict" => f.ret # "action" /\ f.dir = "downup")
      /\ f \in Frame /\ FindAndLockOK(f) /\ ~IsAccess(f)
  BY <1>1, <1>2, FindCallerOf
<1>4. Holds(f) /\ Where(f) = m /\ FoundOK(f, b) /\ m \in Modules /\ w \in Ways(m)
  <2>1. Holds(f) /\ Where(f) = m
    BY <1>2 DEF Holds, Where
  <2>2. FoundOK(f, b)
    BY <1>1, <1>2, <2>1 DEF Leaning, LeanOK
  <2> QED BY <1>2, <2>1, <2>2, FrameOf
<1>5. /\ f.tag = f.addr /\ b1.transient = f.tag /\ b1.state = g1.state
      /\ b1.state # "I" => b1.tag = f.tag
      /\ f.dir = "downup" => b1.state # "I"
  BY <1>2, <1>3, <1>4 DEF FoundOK, FindFlow, FindAndLockOK
<1>6. /\ g1.pc = f.ret /\ g1.kind = g.kind /\ g1.mod = g.mod /\ g1.addr = g.addr
      /\ g1.target = g.target /\ g1.dir = g.dir /\ g1.notFound = g.notFound
      /\ g1.except = g.except /\ g1.srcWay = g.srcWay /\ g1.srcTag = g.srcTag
      /\ g1.reply = g.reply /\ g1.blocking = g.blocking
      /\ ~g1.error /\ g1.way = w /\ g1.tag = f.tag /\ g1 \in Frame
  BY <1>2
<1>7. /\ Where(g1) = Where(g) /\ (IsAccess(g1) <=> IsAccess(g))
      /\ (IsRequest(g1) <=> IsRequest(g)) /\ (IsUpDown(g1) <=> IsUpDown(g))
      /\ (Revokes(g1) <=> Revokes(g))
  BY <1>6 DEF Where, IsAccess, IsRequest, IsUpDown, Revokes
<1>8. FlowOK(g1)
  <2>1. IsRequest(g1) => RequestFlow(g1)
    BY <1>3, <1>5, <1>6, <1>7 DEF FlowOK, RequestFlow, FindLink
  <2>2. g1.kind = "evict" => EvictFlow(g1)
    BY <1>3, <1>5, <1>6 DEF FlowOK, EvictFlow, FindLink, Processing
  <2>3. g1.kind # "find_and_lock" /\ g1.pc \notin {"miss", "updown_miss"}
    BY <1>3, <1>6 DEF IsAccess, IsRequest
  <2> QED BY <2>1, <2>2, <2>3 DEF FlowOK
<1>9. LeanOK(g1, c1, d)
  <2>1. HeldOK(g1, b1)
    BY <1>3, <1>5, <1>6 DEF HeldOK
  <2>2. g1.kind = "evict" =>
           EvictedOK(g1, c1[g1.mod][g1.srcWay], d[g1.mod][g1.srcWay])
    <3>1. SUFFICES ASSUME g.kind = "evict"
                   PROVE  EvictedOK(g1, c1[g1.mod][g1.srcWay], d[g1.mod][g1.srcWay])
      BY <1>6
    <3>2. /\ EvictFlow(g) /\ g.reply # "None" /\ g.mod \in Modules /\ g.srcWay \in Ways(g.mod)
          /\ g.mod # MainMemory /\ g.target = Low[g.mod] /\ m = g.target
      BY <1>2, <1>3, <3>1, FrameOf DEF FlowOK, EvictFlow, FindLink, Where
    <3>3. m # g.mod
      BY <3>2, LowFacts
    <3>4. c1[g.mod][g.srcWay] = c[g.mod][g.srcWay]
      BY <3>2, <3>3 DEF OffEntry
    <3>5. EvictedOK(g, c[g.mod][g.srcWay], d[g.mod][g.srcWay])
      BY <1>1, <1>2, <1>3, <3>1 DEF Leaning, LeanOK
    <3> QED BY <1>6, <3>2, <3>4, <3>5, SMTT(30) DEF EvictedOK
  <2>3. Where(g1) = m /\ g1.way = w /\ g1.kind # "find_and_lock" /\ g1.kind # "invalidate"
    BY <1>3, <1>6, <1>7 DEF IsAccess, IsRequest
  <2> QED BY <1>2, <2>1, <2>2, <2>3 DEF LeanOK
<1>10. ~IsAccess(F[s]) => LinkOK(G[s], F[Front(s)])
  <2>1. SUFFICES ASSUME ~IsAccess(g), NEW k, k = F[Front(s)] PROVE LinkOK(g1, k)
    BY <1>2
  <2>2. LinkOK(g, k)
    BY <1>1, <1>2, <1>3, <2>1, LinkOf
  <2>3. IsRequest(g) => LinkOK(g1, k)
    BY <1>6, <1>7, <2>2 DEF LinkOK, RequestLink, IsRequest, Revokes
  <2>4. g.kind = "evict" => LinkOK(g1, k)
    BY <1>3, <1>6, <2>2 DEF LinkOK, EvictLink, IsRequest
  <2> QED BY <1>3, <2>1, <2>3, <2>4
<1>11. /\ Rest(F, G, X) /\ Linked(G, X) /\ Childless(G, s)
       /\ p \notin DOMAIN G /\ s \in DOMAIN G
  BY <1>2, <1>3, <1>10, LinkedReturn
<1>12. Fits(F, c, G, c1, d, X, s)
  <2>1. ~Cleared(G, s)
    BY <1>2, <1>3, <1>6 DEF Cleared
  <2>2. Shows(F, G, X, s)
    BY <1>2, <1>3, <1>6, <1>7 DEF Shows
  <2>3. Backed(F, c, G, s)
    <3>1. ~Ready(G[s])
      BY <1>2, <1>3, <1>6 DEF Ready
    <3>2. \A q \in DOMAIN G : Child(q, s) => ~IsUpDown(G[q]) \/ G[q].pc # "reply"
      BY <1>11 DEF Childless
    <3> QED BY <3>1, <3>2, NotAnswered
  <2>4. ReadQuiet(G[s], F, c)
    <3>1. ReadQuiet(g, F, c)
      BY <1>2, <1>3 DEF Copies, Quiet
    <3> QED BY <1>2, <1>3, <1>6, <3>1 DEF ReadQuiet
  <2> QED BY <1>2, <1>6, <1>8, <1>9, <2>1, <2>2, <2>3, <2>4 DEF Fits
<1>13. /\ \A x \in X \cap DOMAIN G : Fits(F, c, G, c1, d, X, x)
       /\ \A x \in X \cap DOMAIN F : Leaves(F, G, x)
  <2>1. Leaves(F, G, p)
    BY DEF Leaves, IsLost, Revoking, Revokes
  <2>2. Leaves(F, G, s)
    BY <1>2, <1>3, <1>6, <1>7, <1>11 DEF Leaves, IsLost, Revoking
  <2> QED BY <1>2, <1>11, <1>12, <2>1, <2>2
<1>14. p \in X /\ m = Where(F[p]) /\ w = F[p].way /\ Holds(F[p])
  BY <1>2, <1>4
<1>15. CASE c1[m][w] = c[m][w]
  BY <1>11, <1>13, <1>14, <1>15, HolderKeeps
<1>16. CASE /\ c[m][w].state = "I" /\ m = MainMemory
            /\ c1[m][w].tag = F[p].tag /\ c1[m][w].state # "I"
  BY <1>11, <1>13, <1>14, <1>16, HolderKeeps
<1>17. CASE c[m][w].state = "I" /\ c1[m][w].state = "I"
  <2>1. AskedEnds(F, G, c, c1) /\ \A x \in X \cap DOMAIN F : ~IsLost(F[x])
    BY <1>11, <1>13, AllAskedKept DEF Leaves
  <2>2. \A K \in Rights : "I" \notin K
    BY RightsFacts
  <2>3. \A K, n, t : ~Serves(F, c[m][w], d[m][w], m, w, n, t, K)
    BY <1>17 DEF Serves
  <2> QED BY <1>11, <1>13, <1>14, <1>17, <2>1, <2>2, <2>3, HolderStep
<1> QED BY <1>15, <1>16, <1>17

\* The chain returns with its lock.
LEMMA FindAndLockFinishCopies ==
    ASSUME Inv, Inv', Copies(frames, cache, dir), NEW p \in DOMAIN frames, FindAndLockFinish(p)
    PROVE  Copies(frames, cache, dir)'
<1>1. PICK F, G, c, d, c1, f, s, g : /\ F = frames /\ G = frames' /\ c = cache /\ d = dir
                                     /\ c1 = cache' /\ f = F[p] /\ s = Front(p) /\ g = F[s]
  OBVIOUS
<1>2. PICK m, w, z, y : /\ m = f.mod /\ w = f.way
                        /\ z = IF f.eviction THEN c[m][w].state ELSE f.state
                        /\ y = IF m = MainMemory /\ z = "I" THEN "E" ELSE z
  OBVIOUS
<1>3. PICK t, h : t = f.tag /\ h = [g EXCEPT !.error = FALSE, !.way = w, !.state = y, !.tag = t]
  OBVIOUS
<1>4. /\ f.kind = "find_and_lock" /\ f.pc = "finish" /\ ~f.error /\ dir' = dir
      /\ G = Return(p, h)
      /\ IF y # z THEN c1 = BlockTo(c, m, w, t, y)
         ELSE IF f.eviction THEN c1 = BlockTo(c, m, w, NoTag, "I") ELSE c1 = c
  BY <1>1, <1>2, <1>3 DEF FindAndLockFinish, At, setBlock, BlockTo, Parent
<1>5. /\ Sys(F, d) /\ Copies(F, c, d) /\ Storage(c, d) /\ Calls(F) /\ f \in Frame
      /\ p \in DOMAIN F /\ Childless(F, p) /\ w \in Ways(m) /\ m \in Modules
      /\ FoundOK(f, c[m][w]) /\ Sys(G, d)
  <2>1. /\ Sys(F, d) /\ Copies(F, c, d) /\ Storage(c, d) /\ Tree(F) /\ Calls(F) /\ Holds(f)
        /\ Where(f) = f.mod /\ p \in DOMAIN F /\ Sys(G, d)
    BY <1>1, <1>4 DEF Inv, Sys, Copies, Holds, Where
  <2>2. Childless(F, p)
    BY <1>1, <1>4, <2>1, NoChildren
  <2>3. FoundOK(f, c[m][w])
    BY <1>1, <1>2, <1>4, <2>1 DEF Copies, Leaning, LeanOK
  <2> QED BY <1>1, <1>2, <2>1, <2>2, <2>3, FrameOf
<1>6. /\ s \in DOMAIN F /\ s # p /\ g \in Frame /\ FindFlow(f) /\ f.ret \in Events
  BY <1>1, <1>4, <1>5, FindCallerOf DEF Events
<1>7. c[m][w] \in Block /\ c[m][w].state = z
  <2>1. c[m][w] \in Block
    BY <1>5, StorageFacts
  <2> QED BY <1>2, <1>4, <1>6, <1>5, <2>1 DEF FindFlow, FoundOK
<1>8. /\ OffEntry(c, d, c1, d, m, w) /\ c1[m][w].state = y
      /\ c1[m][w].transient = c[m][w].transient
      /\ \/ c1[m][w] = c[m][w]
         \/ c[m][w].state = "I" /\ c1[m][w].state = "I"
         \/ /\ c[m][w].state = "I" /\ m = MainMemory
            /\ c1[m][w].tag = t /\ c1[m][w].state # "I"
  <2>1. CASE y # z
    <3>1. c1 = BlockTo(c, m, w, t, y)
      BY <1>4, <2>1
    <3>2. /\ c1[m][w].tag = t /\ c1[m][w].state = y /\ c1[m][w].transient = c[m][w].transient
          /\ \A n \in Modules : \A v \in Ways(n) : n # m \/ v # w => c1[n][v] = c[n][v]
      BY ONLY <1>5, <3>1, BlockSet
    <3> QED BY <1>2, <1>7, <2>1, <3>2 DEF OffEntry
  <2>2. CASE y = z /\ f.eviction
    <3>1. c1 = BlockTo(c, m, w, NoTag, "I") /\ z = "I"
      BY <1>4, <1>5, <1>6, <1>7, <2>2 DEF FoundOK, FindFlow
    <3>2. PICK u, i : u = NoTag /\ i = "I"
      OBVIOUS
    <3>3. c1 = BlockTo(c, m, w, u, i)
      BY <3>1, <3>2
    <3>4. /\ c1[m][w].tag = u /\ c1[m][w].state = i /\ c1[m][w].transient = c[m][w].transient
          /\ \A n \in Modules : \A v \in Ways(n) : n # m \/ v # w => c1[n][v] = c[n][v]
      BY ONLY <1>5, <3>3, BlockSet
    <3> QED BY <1>7, <2>2, <3>1, <3>2, <3>4 DEF OffEntry
  <2>3. CASE y = z /\ ~f.eviction
    BY <1>4, <1>7, <2>3 DEF OffEntry
  <2> QED BY <2>1, <2>2, <2>3
<1>9. /\ DOMAIN G = DOMAIN F \ {p} /\ G[s] = [h EXCEPT !.pc = f.ret]
      /\ \A q \in DOMAIN F : q # p /\ q # s => G[q] = F[q]
  <2>1. s = Front(p) /\ s \in DOMAIN frames /\ s # p /\ G = Return(p, h) /\ p \in DOMAIN frames
    BY <1>1, <1>4, <1>6
  <2>2. /\ DOMAIN G = DOMAIN frames \ {p} /\ G[s] = [h EXCEPT !.pc = frames[p].ret]
        /\ \A q \in DOMAIN frames : q # p /\ q # s => G[q] = frames[q]
    BY ONLY <2>1 DEF Return
  <2> QED BY <1>1, <2>2
<1>10. PICK k, e : e = f.ret /\ k = [h EXCEPT !.pc = e]
  OBVIOUS
<1>11. /\ k.pc = e /\ k.kind = g.kind /\ k.mod = g.mod /\ k.addr = g.addr
       /\ k.target = g.target /\ k.dir = g.dir /\ k.notFound = g.notFound
       /\ k.except = g.except /\ k.srcWay = g.srcWay /\ k.srcTag = g.srcTag
       /\ k.reply = g.reply /\ k.blocking = g.blocking
       /\ ~k.error /\ k.way = w /\ k.tag = t /\ k.state = y
  <2>1. g \in Frame /\ h = [g EXCEPT !.error = FALSE, !.way = w, !.state = y, !.tag = t]
    BY <1>3, <1>6
  <2> QED BY ONLY <1>10, <2>1 DEF Frame
<1>12. G[s] \in Frame
  BY <1>5, <1>6, <1>9, FrameOf
<1>13. /\ F[p].kind = "find_and_lock" /\ F[p].pc = "finish" /\ ~F[p].error
       /\ s = Front(p) /\ m = F[p].mod /\ w = F[p].way
       /\ DOMAIN G = DOMAIN F \ {p} /\ \A q \in DOMAIN G : q # s => G[q] = F[q]
  BY <1>1, <1>2, <1>4, <1>9
<1>14. /\ G[s] \in Frame /\ G[s].pc = F[p].ret /\ G[s].kind = F[s].kind /\ G[s].mod = F[s].mod
       /\ G[s].addr = F[s].addr /\ G[s].target = F[s].target /\ G[s].dir = F[s].dir
       /\ G[s].notFound = F[s].notFound /\ G[s].except = F[s].except
       /\ G[s].srcWay = F[s].srcWay /\ G[s].srcTag = F[s].srcTag /\ G[s].reply = F[s].reply
       /\ G[s].blocking = F[s].blocking
       /\ ~G[s].error /\ G[s].way = w /\ G[s].tag = F[p].tag
       /\ G[s].state = c1[m][w].state
  BY <1>1, <1>3, <1>8, <1>9, <1>10, <1>11, <1>12
<1>15. \/ c1[m][w] = c[m][w]
       \/ c[m][w].state = "I" /\ c1[m][w].state = "I"
       \/ /\ c[m][w].state = "I" /\ m = MainMemory
          /\ c1[m][w].tag = F[p].tag /\ c1[m][w].state # "I"
  BY <1>1, <1>3, <1>8
<1>16. Sys(F, d) /\ Copies(F, c, d) /\ p \in DOMAIN F /\ Childless(F, p)
       /\ OffEntry(c, d, c1, d, m, w) /\ c1[m][w].transient = c[m][w].transient
  BY <1>5, <1>8
<1>17. Copies(G, c1, d)
  BY ONLY <1>13, <1>14, <1>15, <1>16, FindFinishes, SMTT(30)
<1> QED BY <1>1, <1>4, <1>17
-----------------------------------------------------------------------------
(* Replies to requests. *)

\* Who has called a request, and what it has in common with its caller.
LEMMA RequestCallerOf ==
    ASSUME NEW F, NEW d, Sys(F, d), Calls(F), NEW p \in DOMAIN F, IsRequest(F[p]),
           NEW s, s = Front(p)
    PROVE  /\ s \in DOMAIN F /\ s # p /\ Child(p, s) /\ F[s] \in Frame /\ FrameOK(F[s])
           /\ F[s].pc = IF F[s].kind = "invalidate" THEN "finish" ELSE "call"
           /\ IsAccess(F[s]) \/ IsRequest(F[s]) \/ F[s].kind = "invalidate"
           /\ RequestLink(F[p], F[s]) /\ RequestFlow(F[p]) /\ FlowOK(F[s]) /\ CallOK(F[p], F[s])
           /\ F[s].kind = "invalidate" => Revokes(F[p])
           /\ F[s].kind # "invalidate" => Holds(F[s]) /\ ~Revokes(F[p]) /\ F[p].mod = Where(F[s])
           /\ F[s].kind = "invalidate" => F[p].mod = F[s].mod
           /\ IsRequest(F[s]) /\ F[p].dir = "updown" => F[s].dir = "updown"
           /\ Revokes(F[p]) => F[s].kind = "invalidate"
           /\ F[p].dir \in {"updown", "downup"} /\ RequestOK(F[p]) /\ F[p] \in Frame
           /\ ~IsAccess(F[p]) /\ Where(F[p]) = F[p].target
<1>1. PICK f, g : f = F[p] /\ g = F[s]
  OBVIOUS
<1>2. /\ f \in Frame /\ FrameOK(f) /\ ~IsAccess(f) /\ Len(p) > 1
      /\ s \in DOMAIN F /\ s # p /\ Child(p, s) /\ CallOK(f, g)
  BY <1>1, FrameOf DEF IsAccess, IsRequest
<1>3. g \in Frame /\ FrameOK(g) /\ FlowOK(g) /\ FlowOK(f) /\ LinkOK(f, g)
  BY <1>1, <1>2, FrameOf DEF Calls
<1>4. g.kind = "invalidate" \/ g.way # 0
  BY <1>1, <1>2 DEF CallOK, IsRequest
<1>5. RequestOK(f) /\ f.dir \in {"updown", "downup"}
  BY <1>1, <1>2 DEF FrameOK, RequestOK
<1>6. /\ g.pc = IF g.kind = "invalidate" THEN "finish" ELSE "call"
      /\ IsAccess(g) \/ IsRequest(g) \/ g.kind = "invalidate"
      /\ (g.kind = "invalidate" => Revokes(f))
      /\ (g.kind # "invalidate" => ~Revokes(f))
      /\ (IsRequest(g) /\ f.dir = "updown" => g.dir = "updown")
  BY <1>1, <1>2, <1>5 DEF CallOK, IsRequest, IsAccess, Revokes
<1>7. g.kind # "invalidate" => Holds(g)
  BY <1>4, <1>6 DEF Holds, IsAccess, IsRequest
<1>8. RequestLink(f, g) /\ RequestFlow(f)
  BY <1>1, <1>3 DEF LinkOK, FlowOK
<1>9. Where(f) = f.target
  BY <1>1 DEF Where, IsRequest
<1>10. g.kind = "invalidate" => f.mod = g.mod
  BY <1>6, <1>8 DEF RequestLink
<1>11. g.kind # "invalidate" => f.mod = Where(g)
  BY <1>6, <1>8 DEF RequestLink
<1> QED BY <1>1, <1>2, <1>3, <1>5, <1>6, <1>7, <1>8, <1>9, <1>10, <1>11

\* The caller of a request works on another module than the request.
LEMMA CallerElsewhere ==
    ASSUME NEW F, NEW d, Sys(F, d), Calls(F), NEW p \in DOMAIN F, IsRequest(F[p]),
           NEW s, s = Front(p), NEW w
    PROVE  ~Leans(F[s], F[p].target, w) /\ F[p].mod # F[p].target
<1>1. PICK f, g : f = F[p] /\ g = F[s]
  OBVIOUS
<1>2. /\ RequestFlow(f) /\ RequestOK(f) /\ f \in Frame /\ f.dir \in {"updown", "downup"}
      /\ (g.kind # "invalidate" => f.mod = Where(g)) /\ (g.kind = "invalidate" => f.mod = g.mod)
      /\ (IsAccess(g) \/ IsRequest(g) \/ g.kind = "invalidate")
  BY <1>1, RequestCallerOf
<1>3. f.mod \in Modules /\ f.target \in Modules
  BY <1>1, FrameOf
<1>4. f.mod # f.target
  <2>1. CASE f.dir = "updown"
    <3>1. f.target = Low[f.mod] /\ f.mod # MainMemory
      BY <1>2, <2>1 DEF RequestFlow, RequestOK
    <3> QED BY <1>3, <3>1, LowFacts
  <2>2. CASE f.dir = "downup"
    <3>1. f.mod = Low[f.target] /\ f.target # MainMemory
      BY <1>2, <2>2 DEF RequestFlow, RequestOK
    <3> QED BY <1>3, <3>1, LowFacts
  <2> QED BY <1>2, <2>1, <2>2
<1> QED BY <1>1, <1>2, <1>4 DEF Leans, IsAccess, IsRequest, Holds

\* No module above l may write block t, after a step at least.
NoneAfter(F, c, G, c1, l, t) ==
    NoneBut(F, c, l, t, {}) \/ (Shrinks(F, c, G, c1) => NoneBut(G, c1, l, t, {}))

\* Request p replies, and tells its caller s, which goes on waiting; the entry of
\* way w0 of its module m0 may change.
Telling(F, c, d, G, c1, d1, p, s, X, m0, w0) ==
    /\ Sys(F, d) /\ Copies(F, c, d) /\ p \in DOMAIN F /\ Childless(F, p) /\ IsRequest(F[p])
    /\ s = Front(p) /\ X = {p, s} /\ DOMAIN G = DOMAIN F
    /\ \A q \in DOMAIN F : q # p /\ q # s => G[q] = F[q]
    /\ G[p] \in Frame /\ Alike(F[p], G[p]) /\ G[p].pc = "reply" /\ G[p].error = F[p].error
    /\ G[s] \in Frame /\ Alike(F[s], G[s]) /\ G[s].pc = F[s].pc
    /\ G[s].error => F[s].error \/ F[p].dir = "updown"
    /\ m0 = F[p].target /\ OffEntry(c, d, c1, d1, m0, w0)
    /\ F[p].kind = "read_request" /\ F[p].dir = "downup" =>
           NoneAfter(F, c, G, c1, F[p].mod, F[p].addr)

\* The two frames of a request that tells its caller the result.
LEMMA RequestTells ==
    ASSUME NEW F, NEW c, NEW d, NEW G, NEW c1, NEW d1, NEW p, NEW s, NEW X, NEW m0, NEW w0,
           Telling(F, c, d, G, c1, d1, p, s, X, m0, w0)
    PROVE  /\ Rest(F, G, X) /\ Linked(G, X) /\ Childless(G, p)
           /\ p \in DOMAIN G /\ s \in DOMAIN G /\ s \in DOMAIN F /\ s # p
           /\ Fits(F, c, G, c1, d1, X, p)
           /\ FlowOK(G[s]) /\ LeanOK(G[s], c1, d1) /\ Shows(F, G, X, s)
           /\ Cleared(G, s) => d1[G[s].target][G[s].way].sharers \subseteq {G[s].mod}
           /\ Backed(F, c, G, s) => Fits(F, c, G, c1, d1, X, s)
           /\ G[s].error \/ F[p].dir = "downup" => Backed(F, c, G, s)
           /\ Leaves(F, G, s) /\ (~Revoking(F[p]) => Leaves(F, G, p))
           /\ ~IsLost(F[p]) /\ ~IsLost(F[s])
<1>0. /\ Sys(F, d) /\ Copies(F, c, d) /\ p \in DOMAIN F /\ Childless(F, p) /\ IsRequest(F[p])
      /\ s = Front(p) /\ X = {p, s} /\ DOMAIN G = DOMAIN F
      /\ \A q \in DOMAIN F : q # p /\ q # s => G[q] = F[q]
      /\ G[p] \in Frame /\ Alike(F[p], G[p]) /\ G[p].pc = "reply" /\ G[p].error = F[p].error
      /\ G[s] \in Frame /\ Alike(F[s], G[s]) /\ G[s].pc = F[s].pc
      /\ G[s].error => F[s].error \/ F[p].dir = "updown"
      /\ m0 = F[p].target /\ OffEntry(c, d, c1, d1, m0, w0)
      /\ F[p].kind = "read_request" /\ F[p].dir = "downup" =>
             NoneAfter(F, c, G, c1, F[p].mod, F[p].addr)
  BY DEF Telling
<1> USE <1>0
<1>1. Calls(F) /\ Leaning(F, c, d) /\ Alone(F, d) /\ Quiet(F, c)
  BY DEF Copies
<1>2. PICK f, g, f1, g1 : f = F[p] /\ g = F[s] /\ f1 = G[p] /\ g1 = G[s]
  OBVIOUS
<1>3. /\ s \in DOMAIN F /\ s # p /\ Child(p, s) /\ g \in Frame
      /\ g.pc = IF g.kind = "invalidate" THEN "finish" ELSE "call"
      /\ IsAccess(g) \/ IsRequest(g) \/ g.kind = "invalidate"
      /\ RequestLink(f, g) /\ RequestFlow(f) /\ FlowOK(g)
      /\ (g.kind = "invalidate" => Revokes(f)) /\ (g.kind # "invalidate" => ~Revokes(f))
      /\ (IsRequest(g) /\ f.dir = "updown" => g.dir = "updown")
      /\ ~IsAccess(f) /\ f.dir \in {"updown", "downup"} /\ f \in Frame
  BY <1>1, <1>2, RequestCallerOf
<1>4. /\ Where(f1) = Where(f) /\ (IsRequest(f1) <=> IsRequest(f)) /\ (IsUpDown(f1) <=> IsUpDown(f))
      /\ Where(g1) = Where(g) /\ (IsAccess(g1) <=> IsAccess(g))
      /\ (IsRequest(g1) <=> IsRequest(g)) /\ (IsUpDown(g1) <=> IsUpDown(g))
      /\ (Revokes(g1) <=> Revokes(g)) /\ (Revokes(f1) <=> Revokes(f))
  BY <1>2, AlikeFacts
<1>5. /\ Alike(f, f1) /\ Alike(g, g1) /\ f1.pc = "reply" /\ f1.error = f.error /\ g1.pc = g.pc
      /\ (g1.error => g.error \/ f.dir = "updown")
  BY <1>2
<1>6. LinkOK(f1, g1) /\ \A r \in DOMAIN F : Child(r, s) /\ r # p => LinkOK(F[r], g1)
  <2>1. \A k : IsRequest(k) /\ LinkOK(k, g) => LinkOK(k, g1)
    BY <1>4, <1>5 DEF LinkOK, RequestLink, IsRequest, Alike
  <2>2. LinkOK(f, g)
    BY <1>1, <1>2, <1>3 DEF Calls
  <2>3. SameLink(f, f1)
    BY <1>2, <1>5 DEF SameLink, Alike, IsRequest
  <2>4. LinkOK(f1, g1)
    BY <1>2, <1>4, <2>1, <2>2, <2>3, SameLinkOK
  <2>5. ASSUME NEW r \in DOMAIN F, Child(r, s), r # p PROVE LinkOK(F[r], g1)
    <3>1. g.kind = "invalidate"
      BY <1>2, <1>3, <2>5, OnlyCall
    <3>2. CallOK(F[r], g) /\ F[r].kind \in Kinds /\ LinkOK(F[r], g) /\ ~IsAccess(F[r])
      <4>1. CallOK(F[r], g) /\ LinkOK(F[r], g) /\ Tree(F)
        BY <1>1, <1>2, <1>3, <2>5 DEF Calls, Sys, Tree
      <4>2. ~IsAccess(F[r])
        BY <2>5, <4>1, ChildFacts DEF Child
      <4>3. F[r] \in Frame
        BY FrameOf
      <4> QED BY <4>1, <4>2, <4>3 DEF Frame
    <3>3. F[r].kind = "write_request"
      BY <3>1, <3>2 DEF CallOK, IsRequest, IsAccess, Kinds
    <3> QED BY <2>1, <3>2, <3>3 DEF IsRequest
  <2> QED BY <2>4, <2>5
<1>7. ~IsAccess(F[s]) => LinkOK(G[s], F[Front(s)])
  <2>1. SUFFICES ASSUME ~IsAccess(F[s]) PROVE LinkOK(G[s], F[Front(s)])
    OBVIOUS
  <2>2. LinkOK(F[s], F[Front(s)])
    BY <1>1, <1>3, <2>1, LinkOf
  <2>3. SameLink(F[s], G[s])
    BY <1>2, <1>3, <1>5 DEF SameLink, Alike, IsAccess, IsRequest
  <2> QED BY <2>2, <2>3, SameLinkOK
<1>8. /\ Rest(F, G, X) /\ Linked(G, X) /\ Childless(G, p) /\ p \in DOMAIN G /\ s \in DOMAIN G
  BY <1>2, <1>3, <1>6, <1>7, LinkedTell
<1>9. Fits(F, c, G, c1, d1, X, p)
  <2>1. FlowOK(f1)
    BY <1>2, <1>3, <1>4, <1>5 DEF FlowOK, RequestFlow, Alike, IsRequest
  <2>2. ~Holds(f1) /\ f1.kind \notin {"evict", "invalidate"}
    BY <1>2, <1>4, <1>5 DEF Holds, IsRequest, IsAccess
  <2>3. LeanOK(f1, c1, d1) /\ Backed(F, c, G, p) /\ ~Cleared(G, p)
    BY <1>2, <1>5, <2>2 DEF LeanOK, Backed, Granted, Cleared
  <2>4. Shows(F, G, X, p)
    BY DEF Shows
  <2>5. ReadQuiet(f1, F, c) \/ (Shrinks(F, c, G, c1) => ReadQuiet(f1, G, c1))
    BY <1>2, <1>5 DEF ReadQuiet, Alike, NoneAfter
  <2> QED BY <1>2, <2>1, <2>3, <2>4, <2>5 DEF Fits
<1>10. /\ FlowOK(G[s]) /\ LeanOK(G[s], c1, d1) /\ Shows(F, G, X, s)
       /\ Cleared(G, s) => d1[G[s].target][G[s].way].sharers \subseteq {G[s].mod}
       /\ Backed(F, c, G, s) => Fits(F, c, G, c1, d1, X, s)
  <2>1. FlowOK(g1)
    BY <1>3, <1>4, <1>5 DEF FlowOK, RequestFlow, Alike, IsRequest, IsAccess
  <2>2. LeanOK(g1, c1, d1)
    <3>1. LeanOK(g, c, d) /\ ~Leans(g, m0, w0)
      BY <1>1, <1>2, <1>3, CallerElsewhere DEF Leaning
    <3>2. LeanOK(g, c1, d1)
      BY <1>1, <1>2, <1>3, <3>1, LeanStays
    <3> QED BY <1>3, <1>4, <1>5, <3>2
            DEF LeanOK, Alike, Holds, HeldOK, InvalidatedOK, IsAccess, IsRequest
  <2>3. Cleared(G, s) => d1[G[s].target][G[s].way].sharers \subseteq {G[s].mod}
    <3>1. SUFFICES ASSUME Cleared(G, s)
                   PROVE  d1[g1.target][g1.way].sharers \subseteq {g1.mod}
      BY <1>2
    <3>2. Cleared(F, s)
      <4>1. \A q \in DOMAIN G : Child(q, s) /\ IsUpDown(G[q]) => q \in DOMAIN F /\ IsUpDown(F[q])
        BY <1>2, <1>4, <1>8
      <4> QED BY <1>2, <1>3, <1>5, <3>1, <4>1 DEF Cleared, Alike
    <3>3. Holds(g) /\ Where(g) = g.target /\ d[g.target][g.way].sharers \subseteq {g.mod}
      BY <1>1, <1>2, <1>3, <3>2, ClearedHolds DEF Alone
    <3>4. g.way \in Ways(g.target) /\ g.target \in Modules
      BY <1>2, <1>3, <3>3, FrameOf
    <3>5. g.target # m0
      BY <1>1, <1>2, <1>3, <3>3, CallerElsewhere DEF Leans
    <3>6. d1[g.target][g.way] = d[g.target][g.way]
      BY <3>4, <3>5 DEF OffEntry
    <3> QED BY <1>5, <3>3, <3>6 DEF Alike
  <2>4. Shows(F, G, X, s)
    BY <1>2, <1>3, <1>4, <1>5 DEF Shows
  <2>5. ReadQuiet(g1, F, c)
    <3>1. ReadQuiet(g, F, c)
      BY <1>1, <1>2, <1>3 DEF Quiet
    <3> QED BY <1>5, <3>1 DEF ReadQuiet, Alike
  <2> QED BY <1>2, <2>1, <2>2, <2>3, <2>4, <2>5 DEF Fits
<1>11. G[s].error \/ F[p].dir = "downup" => Backed(F, c, G, s)
  <2>1. CASE g1.error
    BY <1>2, <2>1 DEF Backed, Granted
  <2>2. CASE f.dir = "downup" /\ g.kind # "invalidate"
    <3>1. ~Ready(G[s])
      BY <1>2, <1>3, <1>5, <2>2 DEF Ready
    <3>2. \A q \in DOMAIN G : Child(q, s) => ~IsUpDown(G[q]) \/ G[q].pc # "reply"
      <4>1. \A q \in DOMAIN F : Child(q, s) => q = p
        BY <1>2, <1>3, <2>2, OnlyCall
      <4>2. ~IsUpDown(G[p])
        BY <1>2, <1>4, <2>2 DEF IsUpDown
      <4> QED BY <4>1, <4>2
    <3> QED BY <3>1, <3>2, NotAnswered
  <2>3. CASE g.kind = "invalidate"
    BY <1>2, <1>4, <1>5, <2>3 DEF Backed, Granted, Holds, Alike, IsAccess, IsRequest
  <2> QED BY <1>2, <2>1, <2>2, <2>3
<1>12. ~IsLost(F[p]) /\ ~IsLost(F[s])
  BY <1>2, <1>3 DEF IsLost, IsRequest, IsAccess
<1>13. Leaves(F, G, s)
  BY <1>2, <1>3, <1>4, <1>5, <1>8, <1>12 DEF Leaves, Revoking, Alike
<1>14. ~Revoking(F[p]) => Leaves(F, G, p)
  BY <1>12 DEF Leaves, IsRequest
<1> QED BY <1>3, <1>8, <1>9, <1>10, <1>11, <1>12, <1>13, <1>14

\* A request has replied, and its caller goes on.
LEMMA RequestEnds ==
    ASSUME NEW F, NEW c, NEW d, Sys(F, d), Copies(F, c, d), NEW p \in DOMAIN F, Childless(F, p),
           IsRequest(F[p]), F[p].pc = "reply", ~Revokes(F[p]),
           NEW s, s = Front(p),
           NEW G, DOMAIN G = DOMAIN F \ {p}, \A q \in DOMAIN G : q # s => G[q] = F[q],
           G[s] \in Frame, G[s].pc = F[p].ret, Alike(F[s], G[s]), G[s].error = F[s].error,
           G[s].shared = F[s].shared
    PROVE  Copies(G, c, d)
<1>1. Calls(F) /\ Leaning(F, c, d) /\ Alone(F, d) /\ Quiet(F, c)
  BY DEF Copies
<1>2. PICK X, f, g, g1 : X = {p, s} /\ f = F[p] /\ g = F[s] /\ g1 = G[s]
  OBVIOUS
<1>3. /\ s \in DOMAIN F /\ s # p /\ Child(p, s) /\ g \in Frame /\ g.pc = "call"
      /\ IsAccess(g) \/ IsRequest(g)
      /\ RequestLink(f, g) /\ FlowOK(g) /\ Holds(g) /\ f.mod = Where(g) /\ CallOK(f, g)
      /\ ~IsAccess(f) /\ f.dir \in {"updown", "downup"}
  BY <1>1, <1>2, RequestCallerOf
<1>4. /\ Where(g1) = Where(g) /\ (IsAccess(g1) <=> IsAccess(g))
      /\ (IsRequest(g1) <=> IsRequest(g)) /\ (IsUpDown(g1) <=> IsUpDown(g))
      /\ Alike(g, g1) /\ g1.pc = f.ret /\ g1.error = g.error /\ g1.shared = g.shared
  BY <1>2, AlikeFacts
<1>5. /\ f.kind = "read_request" => f.ret \in {"miss", "updown_miss", "updown_finish", "downup_finish"}
      /\ f.kind = "read_request" => (f.dir = "updown" <=> g.state = "I")
      /\ f.ret \in {"miss", "updown_miss"} => f.kind = "read_request" /\ f.dir = "updown"
      /\ g.kind = "read_request" => f.kind = "read_request"
      /\ g.kind = "read_request" /\ f.ret \in {"updown_finish", "downup_finish"} => f.dir = "downup"
      /\ f.kind = "write_request" => f.ret \in {"unlock", "updown_finish"} /\ f.dir = "updown"
      /\ f.kind = "write_request" => ~Revokes(g)
      /\ f.ret # "reply"
  BY <1>2, <1>3 DEF CallOK, RequestLink, IsRequest, IsAccess, Revokes
<1>6. FlowOK(g1)
  <2>1. g1.pc \in {"miss", "updown_miss"} => g1.state = "I"
    BY <1>4, <1>5 DEF Alike
  <2> QED BY <1>3, <1>4, <2>1 DEF FlowOK, RequestFlow, Alike, IsRequest, IsAccess
<1>7. LeanOK(g1, c, d)
  <2>1. HeldOK(g, c[Where(g)][g.way])
    BY <1>1, <1>2, <1>3 DEF Leaning, LeanOK, IsAccess, IsRequest
  <2>2. HeldOK(g1, c[Where(g)][g.way])
    BY <1>3, <1>4, <1>5, <2>1 DEF HeldOK, Alike, IsRequest, IsAccess
  <2> QED BY <1>3, <1>4, <2>2 DEF LeanOK, Alike, IsAccess, IsRequest
<1>8. ~IsAccess(F[s]) => LinkOK(G[s], F[Front(s)])
  <2>1. SUFFICES ASSUME ~IsAccess(F[s]) PROVE LinkOK(G[s], F[Front(s)])
    OBVIOUS
  <2>2. LinkOK(F[s], F[Front(s)])
    BY <1>1, <1>3, <2>1, LinkOf
  <2>3. SameLink(F[s], G[s])
    BY <1>2, <1>3, <1>4 DEF SameLink, Alike, IsAccess, IsRequest
  <2> QED BY <2>2, <2>3, SameLinkOK
<1>9. /\ Rest(F, G, X) /\ Linked(G, X) /\ Childless(G, s)
      /\ p \notin DOMAIN G /\ s \in DOMAIN G
  <2>1. F[s].kind # "invalidate"
    BY <1>2, <1>3 DEF IsAccess, IsRequest
  <2> QED BY <1>2, <1>3, <1>8, <2>1, LinkedReturn
<1>10. Fits(F, c, G, c, d, X, s)
  <2>1. Cleared(G, s) => d[G[s].target][G[s].way].sharers \subseteq {G[s].mod}
    <3>1. SUFFICES ASSUME Cleared(G, s)
                   PROVE  d[g1.target][g1.way].sharers \subseteq {g1.mod}
      BY <1>2
    <3>2. g1.kind = "write_request"
      BY <1>2, <3>1 DEF Cleared
    <3>3. IsUpDown(f) /\ g.kind = "write_request"
      BY <1>2, <1>3, <1>4, <1>5, <3>2 DEF Alike, CallOK, IsUpDown, IsRequest, IsAccess
    <3>4. Cleared(F, s)
      BY <1>2, <1>3, <3>3 DEF Cleared
    <3> QED BY <1>1, <1>2, <1>3, <1>4, <3>4 DEF Alone, Alike
  <2>2. Shows(F, G, X, s)
    BY <1>2, <1>3, <1>4, <1>5 DEF Shows
  <2>3. Backed(F, c, G, s)
    <3>1. SUFFICES ASSUME NEW K \in Rights, Granted(G, s, K)
                   PROVE  Needs(F, c, Where(g1), g1.tag, K)
      BY <1>2 DEF Backed
    <3>2. Ready(g1)
      <4>1. \A q \in DOMAIN G : ~Child(q, s)
        BY <1>9 DEF Childless
      <4> QED BY <1>2, <3>1, <4>1 DEF Granted, Answered
    <3>3. IsUpDown(f)
      BY <1>2, <1>3, <1>4, <1>5, <3>2 DEF Ready, IsUpDown, Alike, CallOK, IsRequest, IsAccess
    <3>4. Granted(F, s, K)
      <4>1. Answered(F, s)
        BY <1>2, <1>3, <3>3 DEF Answered
      <4> QED BY <1>2, <1>3, <1>4, <3>1, <4>1 DEF Granted, Alike
    <3> QED BY <1>2, <1>3, <1>4, <3>4 DEF Needs, Due, Alike
  <2>4. ReadQuiet(g1, F, c)
    <3>1. ReadQuiet(g, F, c) /\ ReadQuiet(f, F, c)
      BY <1>1, <1>2, <1>3 DEF Quiet
    <3>2. SUFFICES ASSUME g.kind = "read_request" PROVE ReadQuiet(g1, F, c)
      BY <1>4 DEF ReadQuiet, Alike
    <3>3. f.kind = "read_request" /\ Where(g) = g.target /\ f.addr = g.tag
      BY <1>2, <1>3, <1>5, <3>2 DEF RequestLink, Where
    <3>4. g1.pc \in {"updown_finish", "downup_finish"} => NoneBut(F, c, g.target, g.tag, {})
      BY <1>2, <1>3, <1>4, <1>5, <3>1, <3>2, <3>3 DEF ReadQuiet
    <3>5. g1.pc = "updown_finish" => NoneBut(F, c, g.target, g.tag, {g.mod})
      BY <3>4 DEF NoneBut
    <3> QED BY <1>3, <1>4, <1>5, <3>1, <3>4, <3>5 DEF ReadQuiet, Alike
  <2> QED BY <1>2, <1>6, <1>7, <2>1, <2>2, <2>3, <2>4 DEF Fits
<1>11. /\ \A x \in X \cap DOMAIN G : Fits(F, c, G, c, d, X, x)
       /\ \A x \in X \cap DOMAIN F : Leaves(F, G, x)
  <2>1. Leaves(F, G, p)
    BY DEF Leaves, IsLost, Revoking, IsRequest
  <2>2. Leaves(F, G, s)
    <3>1. Revoking(F[s]) => Revoking(G[s]) /\ G[s].target = F[s].target
      BY <1>2, <1>3, <1>4, <1>5 DEF Revoking, Revokes, Alike
    <3> QED BY <1>2, <1>3, <1>9, <3>1 DEF Leaves, IsLost, IsRequest, IsAccess
  <2> QED BY <1>2, <1>9, <1>10, <2>1, <2>2
<1> QED BY <1>9, <1>11, FramesStep

\* A request returns with its reply.
LEMMA RequestFinishCopies ==
    ASSUME Inv, Inv', Copies(frames, cache, dir), NEW p \in DOMAIN frames,
           IsRequest(frames[p]), frames[p].pc = "reply", ~Revokes(frames[p]),
           frames' = Return(p, Parent(p)), UNCHANGED <<cache, dir>>
    PROVE  Copies(frames, cache, dir)'
<1>1. PICK F, G, c, d, f, s, g : /\ F = frames /\ G = frames' /\ c = cache /\ d = dir
                                 /\ f = F[p] /\ s = Front(p) /\ g = F[s]
  OBVIOUS
<1>2. /\ Sys(F, d) /\ Copies(F, c, d) /\ Calls(F) /\ p \in DOMAIN F /\ Childless(F, p) /\ Sys(G, d)
  <2>1. Sys(F, d) /\ Copies(F, c, d) /\ Tree(F) /\ Calls(F) /\ p \in DOMAIN F /\ Sys(G, d)
    BY <1>1 DEF Inv, Sys, Copies
  <2>2. Childless(F, p)
    BY <1>1, <2>1, NoChildren DEF IsRequest
  <2> QED BY <2>1, <2>2
<1>3. s \in DOMAIN F /\ s # p /\ g \in Frame /\ CallOK(f, g) /\ IsRequest(f)
  BY <1>1, <1>2, RequestCallerOf
<1>4. f.ret \in Events
  BY <1>1, <1>3, <1>2, FrameOf DEF CallOK, Events, IsRequest, Revokes
<1>5. /\ DOMAIN G = DOMAIN F \ {p} /\ G[s] = [g EXCEPT !.pc = f.ret]
      /\ \A q \in DOMAIN F : q # p /\ q # s => G[q] = F[q]
  <2>1. s = Front(p) /\ s \in DOMAIN frames /\ s # p /\ G = Return(p, g) /\ p \in DOMAIN frames
    BY <1>1, <1>3 DEF Parent
  <2>2. /\ DOMAIN G = DOMAIN frames \ {p} /\ G[s] = [g EXCEPT !.pc = frames[p].ret]
        /\ \A q \in DOMAIN frames : q # p /\ q # s => G[q] = frames[q]
    BY ONLY <2>1 DEF Return
  <2> QED BY <1>1, <2>2
<1>6. PICK e, k : e = f.ret /\ k = [g EXCEPT !.pc = e]
  OBVIOUS
<1>7. /\ k \in Frame /\ k.pc = e /\ Alike(g, k) /\ k.error = g.error /\ k.shared = g.shared
  <2>1. g \in Frame /\ e \in Events /\ k = [g EXCEPT !.pc = e]
    BY <1>3, <1>4, <1>6
  <2> QED BY ONLY <2>1, NextAlike
<1>8. /\ IsRequest(F[p]) /\ F[p].pc = "reply" /\ ~Revokes(F[p]) /\ s = Front(p)
      /\ DOMAIN G = DOMAIN F \ {p} /\ \A q \in DOMAIN G : q # s => G[q] = F[q]
  BY <1>1, <1>5
<1>9. /\ G[s] \in Frame /\ G[s].pc = F[p].ret /\ Alike(F[s], G[s]) /\ G[s].error = F[s].error
      /\ G[s].shared = F[s].shared
  BY <1>1, <1>5, <1>6, <1>7
<1>10. Copies(G, c, d)
  BY ONLY <1>2, <1>8, <1>9, RequestEnds
<1> QED BY <1>1, <1>10

\* A request replies, and leaves h in its caller.
LEMMA ToldAlike ==
    ASSUME NEW g \in Frame, NEW h, Told(g, h)
    PROVE  /\ h \in Frame /\ Alike(g, h) /\ h.pc = g.pc
           /\ h.error => g.error \/ h = [g EXCEPT !.error = TRUE]
           /\ h = [g EXCEPT !.error = TRUE] => h.error
           /\ (\E b \in BOOLEAN : h = [g EXCEPT !.shared = b]) \/ h.shared = g.shared
<1>1. CASE h = [g EXCEPT !.error = TRUE]
  BY ONLY <1>1, g \in Frame DEF Frame, Alike
<1>2. CASE \E b \in BOOLEAN : h = [g EXCEPT !.shared = b]
  <2>1. PICK b \in BOOLEAN : h = [g EXCEPT !.shared = b]
    BY <1>2
  <2> QED BY ONLY <2>1, g \in Frame, b \in BOOLEAN DEF Frame, Alike
<1>3. CASE \E r \in {"Ack", "AckData"} : h = SetReplyIfHigher(g, r)
  <2>1. PICK r \in {"Ack", "AckData"} : h = SetReplyIfHigher(g, r)
    BY <1>3
  <2>2. PICK x : x = IF g.reply = "AckData" \/ r = "AckData" THEN "AckData" ELSE r
    OBVIOUS
  <2>3. h = [g EXCEPT !.reply = x] /\ x \in {"None", "Ack", "AckData"}
    BY <2>1, <2>2 DEF SetReplyIfHigher
  <2> QED BY ONLY <2>3, g \in Frame DEF Frame, Alike
<1> QED BY <1>1, <1>2, <1>3 DEF Told

\* The frame that replies.
LEMMA RepliesAlike ==
    ASSUME NEW f \in Frame, NEW g, Replies(f, g)
    PROVE  g \in Frame /\ Alike(f, g) /\ g.pc = "reply" /\ g.error = f.error
<1>1. CASE g = [f EXCEPT !.pc = "reply"]
  <2>1. PICK e : e = "reply"
    OBVIOUS
  <2>2. f \in Frame /\ g = [f EXCEPT !.pc = e] /\ e \in Events
    BY <1>1, <2>1 DEF Events
  <2>3. g \in Frame /\ Alike(f, g) /\ g.pc = e /\ g.error = f.error
    BY ONLY <2>2, NextAlike
  <2> QED BY <2>1, <2>3
<1>2. CASE \E b \in BOOLEAN : g = [f EXCEPT !.pc = "reply", !.data = b]
  <2>1. PICK b \in BOOLEAN : g = [f EXCEPT !.pc = "reply", !.data = b]
    BY <1>2
  <2>2. PICK e : e = "reply"
    OBVIOUS
  <2>3. f \in Frame /\ g = [f EXCEPT !.pc = e, !.data = b] /\ e \in Events /\ b \in BOOLEAN
    BY <2>1, <2>2 DEF Events
  <2>4. g \in Frame /\ Alike(f, g) /\ g.pc = e /\ g.error = f.error
    BY ONLY <2>3 DEF Frame, Alike
  <2> QED BY <2>2, <2>4
<1> QED BY <1>1, <1>2 DEF Replies

\* The request has found no block, or could not lock its entry.
LEMMA RequestNoBlockCopies ==
    ASSUME Inv, Inv', Copies(frames, cache, dir), NEW p \in DOMAIN frames, NEW fr, fr = frames[p],
           IsRequest(fr), fr.pc = "action", fr.error \/ fr.notFound,
           NEW s, s = Front(p), NEW f, f = [fr EXCEPT !.pc = "reply"],
           frames' = [With(p, f) EXCEPT ![s] = IF fr.error THEN [@ EXCEPT !.error = TRUE]
                                               ELSE SetReplyIfHigher(@, "Ack")],
           UNCHANGED <<cache, dir>>
    PROVE  Copies(frames, cache, dir)'
<1>1. PICK F, G, c, d, g, X : /\ F = frames /\ G = frames' /\ c = cache /\ d = dir
                              /\ g = F[s] /\ X = {p, s}
  OBVIOUS
<1>2. /\ Sys(F, d) /\ Copies(F, c, d) /\ Calls(F) /\ p \in DOMAIN F /\ Childless(F, p)
  <2>1. Sys(F, d) /\ Copies(F, c, d) /\ Tree(F) /\ Calls(F) /\ p \in DOMAIN F
    BY <1>1 DEF Inv, Sys, Copies
  <2>2. Childless(F, p)
    BY <1>1, <2>1, NoChildren DEF IsRequest
  <2> QED BY <2>1, <2>2
<1>3. /\ s \in DOMAIN F /\ s # p /\ g \in Frame /\ RequestFlow(fr) /\ fr \in Frame
      /\ fr.dir \in {"updown", "downup"}
  BY <1>1, <1>2, RequestCallerOf
<1>4. PICK h : h = IF fr.error THEN [g EXCEPT !.error = TRUE] ELSE SetReplyIfHigher(g, "Ack")
  OBVIOUS
<1>5. Told(g, h)
  BY <1>4 DEF Told
<1>6. DOMAIN G = DOMAIN F /\ G[p] = f /\ G[s] = h
      /\ \A q \in DOMAIN F : q # p /\ q # s => G[q] = F[q]
  <2>1. PICK E : E = With(p, f)
    OBVIOUS
  <2>2. DOMAIN E = DOMAIN F /\ E[p] = f /\ \A q \in DOMAIN F : q # p => E[q] = F[q]
    BY <1>1, <2>1, WithFacts
  <2>3. G = [E EXCEPT ![s] = h]
    BY <1>1, <1>3, <1>4, <2>1, <2>2
  <2> QED BY <1>1, <1>3, <2>2, <2>3
<1>7. h \in Frame /\ Alike(g, h) /\ h.pc = g.pc /\ (h.error => g.error \/ fr.error)
      /\ (fr.error => h.error)
  <2>1. /\ h \in Frame /\ Alike(g, h) /\ h.pc = g.pc
        /\ (h = [g EXCEPT !.error = TRUE] => h.error)
    BY <1>3, <1>5, ToldAlike
  <2>2. ~fr.error => h.error = g.error
    BY <1>4 DEF SetReplyIfHigher
  <2> QED BY <1>4, <2>1, <2>2
<1>8. f \in Frame /\ Alike(fr, f) /\ f.pc = "reply" /\ f.error = fr.error
  <2>1. Replies(fr, f)
    BY DEF Replies
  <2> QED BY <1>3, <2>1, RepliesAlike
<1>9. /\ fr.error => fr.dir = "updown"
      /\ ~fr.error => fr.notFound /\ fr.dir = "downup"
  BY <1>3 DEF RequestFlow
<1>10. /\ IsRequest(F[p]) /\ s = Front(p) /\ X = {p, s} /\ DOMAIN G = DOMAIN F
       /\ \A q \in DOMAIN F : q # p /\ q # s => G[q] = F[q]
       /\ G[p] \in Frame /\ Alike(F[p], G[p]) /\ G[p].pc = "reply" /\ G[p].error = F[p].error
       /\ G[s] \in Frame /\ Alike(F[s], G[s]) /\ G[s].pc = F[s].pc
       /\ (G[s].error => F[s].error \/ F[p].dir = "updown")
       /\ (G[s].error \/ F[p].dir = "downup")
       /\ ~Revoking(F[p])
  BY <1>1, <1>6, <1>7, <1>8, <1>9 DEF Revoking, Revokes
<1>11. F[p].kind = "read_request" /\ F[p].dir = "downup" => NoneBut(F, c, F[p].mod, F[p].addr, {})
  <2>1. ReadQuiet(F[p], F, c)
    BY <1>2 DEF Copies, Quiet
  <2> QED BY <1>1, <1>9, <2>1 DEF ReadQuiet
<1>12. PICK m0, w0 : m0 = F[p].target /\ w0 = 0
  OBVIOUS
<1>13. OffEntry(c, d, c, d, m0, w0)
  BY DEF OffEntry
<1>14. /\ Rest(F, G, X) /\ Linked(G, X)
       /\ Fits(F, c, G, c, d, X, p) /\ (Backed(F, c, G, s) => Fits(F, c, G, c, d, X, s))
       /\ (G[s].error \/ F[p].dir = "downup" => Backed(F, c, G, s))
       /\ Leaves(F, G, s) /\ (~Revoking(F[p]) => Leaves(F, G, p))
  <2>1. m0 = F[p].target
    BY <1>12
  <2>2. F[p].kind = "read_request" /\ F[p].dir = "downup" =>
           NoneAfter(F, c, G, c, F[p].mod, F[p].addr)
    BY <1>11 DEF NoneAfter
  <2>3. Telling(F, c, d, G, c, d, p, s, X, m0, w0)
    BY ONLY <1>2, <1>10, <1>13, <2>1, <2>2 DEF Telling
  <2> QED BY ONLY <2>3, RequestTells
<1>15. /\ \A x \in X \cap DOMAIN G : Fits(F, c, G, c, d, X, x)
       /\ \A x \in X \cap DOMAIN F : Leaves(F, G, x)
  BY <1>10, <1>14
<1>16. Copies(G, c, d)
  BY ONLY <1>2, <1>14, <1>15, FramesStep
<1> QED BY <1>1, <1>16

\* Request p unlocks its entry, which is e now, replies, and tells its caller.
ReplyUnlocks(p, s, f, h, m, w, e, E) ==
    /\ p \in DOMAIN frames /\ IsRequest(frames[p]) /\ Holds(frames[p]) /\ Childless(frames, p)
    /\ Replies(frames[p], f) /\ s = Front(p) /\ (Told(frames[s], h) \/ h = frames[s])
    /\ m = frames[p].target /\ w = frames[p].way /\ (e \in Entry \/ e = dir[m][w])
    /\ DOMAIN E = DOMAIN frames /\ E[p] = f /\ E[s] = h
    /\ \A q \in DOMAIN frames : q # p /\ q # s => E[q] = frames[q]
    /\ UnlockEntry(m, w, e, E)

\* It is as if the frames that wait for the entry had been woken up before.
LEMMA WokenReply ==
    ASSUME Inv, Copies(frames, cache, dir),
           NEW p, NEW s, NEW f, NEW h, NEW m, NEW w, NEW e, NEW E,
           ReplyUnlocks(p, s, f, h, m, w, e, E),
           NEW c1, \A n \in Modules : \A v \in Ways(n) : n # m \/ v # w => c1[n][v] = cache[n][v],
           NEW G, G = frames', NEW d1, d1 = dir'
    PROVE  /\ m \in Modules /\ w \in Ways(m) /\ OffEntry(cache, dir, c1, d1, m, w)
           /\ d1[m][w].sharers = e.sharers /\ d1[m][w].owner = e.owner /\ d1[m][w].lock = 0
           /\ f \in Frame /\ Alike(frames[p], f) /\ f.pc = "reply" /\ f.error = frames[p].error
           /\ h \in Frame /\ Alike(frames[s], h) /\ h.pc = frames[s].pc
           /\ s \in DOMAIN frames /\ s # p
           /\ \E W : /\ Sys(W, dir) /\ Copies(W, cache, dir) /\ p \in DOMAIN W /\ s \in DOMAIN W
                     /\ Childless(W, p) /\ W[p] = frames[p] /\ W[s] = frames[s]
                     /\ DOMAIN G = DOMAIN W /\ G[p] = f /\ G[s] = h
                     /\ \A q \in DOMAIN W : q # p /\ q # s => G[q] = W[q]
<1>0. /\ p \in DOMAIN frames /\ IsRequest(frames[p]) /\ Holds(frames[p]) /\ Childless(frames, p)
      /\ Replies(frames[p], f) /\ s = Front(p) /\ (Told(frames[s], h) \/ h = frames[s])
      /\ m = frames[p].target /\ w = frames[p].way /\ (e \in Entry \/ e = dir[m][w])
      /\ DOMAIN E = DOMAIN frames /\ E[p] = f /\ E[s] = h
      /\ \A q \in DOMAIN frames : q # p /\ q # s => E[q] = frames[q]
      /\ UnlockEntry(m, w, e, E)
  BY DEF ReplyUnlocks
<1> USE <1>0
<1>1. PICK F, c, d, fr, g : F = frames /\ c = cache /\ d = dir /\ fr = F[p] /\ g = F[s]
  OBVIOUS
<1>2. Sys(F, d) /\ Copies(F, c, d) /\ Calls(F) /\ p \in DOMAIN F /\ Childless(F, p)
  BY <1>1 DEF Inv, Copies
<1>3. /\ s \in DOMAIN F /\ s # p /\ g \in Frame /\ fr \in Frame /\ Where(fr) = fr.target
      /\ g.pc # "wait" /\ fr.pc # "wait"
  <2>1. /\ s \in DOMAIN F /\ s # p /\ g \in Frame /\ fr \in Frame /\ Where(fr) = fr.target
        /\ g.pc = (IF g.kind = "invalidate" THEN "finish" ELSE "call") /\ RequestOK(fr)
    BY <1>1, <1>2, RequestCallerOf
  <2> QED BY <2>1 DEF RequestOK
<1>4. f \in Frame /\ Alike(fr, f) /\ f.pc = "reply" /\ f.error = fr.error
  BY <1>1, <1>3, RepliesAlike
<1>5. h \in Frame /\ Alike(g, h) /\ h.pc = g.pc
  <2>1. CASE Told(g, h)
    BY <1>3, <2>1, ToldAlike
  <2>2. CASE h = g
    BY <1>3, <2>2 DEF Alike
  <2> QED BY <1>1, <2>1, <2>2
<1>6. DOMAIN E = DOMAIN F /\ E[p] = f /\ E[s] = h
      /\ \A q \in DOMAIN F : q # p /\ q # s => E[q] = F[q]
  BY <1>1
<1>7. /\ m \in Modules /\ w \in Ways(m) /\ G = WakeupAll(E, m, w)
      /\ d1[m][w].sharers = e.sharers /\ d1[m][w].owner = e.owner /\ d1[m][w].lock = 0
      /\ OffEntry(cache, dir, cache, d1, m, w)
  <2>1. m = Where(frames[p])
    BY <1>1, <1>3
  <2> QED BY <2>1, UnlockFacts
<1>8. OffEntry(cache, dir, c1, d1, m, w)
  BY <1>7 DEF OffEntry
<1>9. /\ DOMAIN E = DOMAIN F \/ DOMAIN E = DOMAIN F \ {p}
      /\ F[p].pc # "wait" /\ F[s].pc # "wait" /\ G = WakeupAll(E, m, w)
      /\ (p \in DOMAIN E => E[p].pc # "wait") /\ (s \in DOMAIN E => E[s].pc # "wait")
  BY <1>1, <1>3, <1>4, <1>5, <1>6, <1>7
<1>10. \E W : /\ Sys(W, d) /\ Copies(W, c, d) /\ DOMAIN W = DOMAIN F /\ DOMAIN G = DOMAIN E
              /\ W[p] = F[p] /\ W[s] = F[s] /\ Childless(W, p)
              /\ (p \in DOMAIN E => G[p] = E[p]) /\ (s \in DOMAIN E => G[s] = E[s])
              /\ \A q \in DOMAIN F : q # p /\ q # s => G[q] = W[q]
  <2>1. /\ Sys(F, d) /\ Copies(F, c, d) /\ p \in DOMAIN F /\ Childless(F, p) /\ s \in DOMAIN F
        /\ \A q \in DOMAIN F : q # p /\ q # s => E[q] = F[q]
    BY <1>2, <1>3, <1>6
  <2>2. PICK X : X = {p, s}
    OBVIOUS
  <2>3. Rest(F, E, X)
    BY <2>1, <2>2, <1>9 DEF Rest
  <2>4. \A x \in X : /\ x \in DOMAIN F => F[x].pc # "wait"
                     /\ x \in DOMAIN E => E[x].pc # "wait"
    BY <2>2, <1>9
  <2>5. G = WakeupAll(E, m, w)
    BY <1>9
  <2>6. PICK W : /\ Sys(W, d) /\ Copies(W, c, d) /\ DOMAIN W = DOMAIN F /\ DOMAIN G = DOMAIN E
                 /\ \A x \in X : /\ x \in DOMAIN F => W[x] = F[x]
                                 /\ x \in DOMAIN E => G[x] = E[x]
                 /\ \A q \in DOMAIN F : q \notin X => G[q] = W[q]
    BY ONLY <2>1, <2>3, <2>4, <2>5, WokenStep
  <2> QED BY ONLY <2>1, <2>2, <2>6 DEF Childless
<1>11. \E W : /\ Sys(W, d) /\ Copies(W, c, d) /\ p \in DOMAIN W /\ s \in DOMAIN W
              /\ Childless(W, p) /\ W[p] = F[p] /\ W[s] = F[s]
              /\ DOMAIN G = DOMAIN W /\ G[p] = f /\ G[s] = h
              /\ \A q \in DOMAIN W : q # p /\ q # s => G[q] = W[q]
  BY <1>2, <1>3, <1>6, <1>10
<1> QED BY <1>1, <1>3, <1>4, <1>5, <1>7, <1>8, <1>11

\* A request whose own request has failed gives its lock back, and fails as well.
LEMMA RequestFailsCopies ==
    ASSUME Inv, Copies(frames, cache, dir), NEW p \in DOMAIN frames, NEW fr, fr = frames[p],
           IsRequest(fr), fr.pc \in {"updown_miss", "updown_finish"}, fr.dir = "updown",
           NEW s, s = Front(p), NEW f, f = [fr EXCEPT !.pc = "reply"],
           NEW h, h = [frames[s] EXCEPT !.error = TRUE],
           UnlockEntry(fr.target, fr.way, dir[fr.target][fr.way], [With(p, f) EXCEPT ![s] = h]),
           cache' = cache
    PROVE  Copies(frames, cache, dir)'
<1>1. PICK F, G, c, d, d1, m, w, g : /\ F = frames /\ G = frames' /\ c = cache /\ d = dir
                                     /\ d1 = dir' /\ m = fr.target /\ w = fr.way /\ g = F[s]
  OBVIOUS
<1>2. Sys(F, d) /\ Copies(F, c, d) /\ p \in DOMAIN F /\ Tree(F) /\ Holds(fr) /\ fr \in Frame
  <2>1. Sys(F, d) /\ Copies(F, c, d) /\ p \in DOMAIN F /\ Tree(F)
    BY <1>1 DEF Inv, Sys
  <2>2. fr \in Frame /\ RequestOK(fr)
    BY <1>1, <2>1, FrameOf DEF FrameOK
  <2> QED BY <2>1, <2>2 DEF Holds, RequestOK
<1>3. Childless(F, p)
  BY <1>1, <1>2, NoChildren DEF IsRequest
<1>4. PICK e, E : e = d[m][w] /\ E = [With(p, f) EXCEPT ![s] = h]
  OBVIOUS
<1>5. /\ Replies(fr, f) /\ Told(g, h) /\ UnlockEntry(m, w, e, E)
  BY <1>1, <1>4 DEF Replies, Told
<1>6. /\ m \in Modules /\ w \in Ways(m) /\ OffEntry(c, d, c, d1, m, w)
      /\ d1[m][w].sharers = e.sharers /\ d1[m][w].owner = e.owner
      /\ f \in Frame /\ Alike(fr, f) /\ f.pc = "reply" /\ f.error = fr.error
      /\ h \in Frame /\ Alike(g, h) /\ h.pc = g.pc
      /\ \E W : /\ Sys(W, d) /\ Copies(W, c, d) /\ p \in DOMAIN W /\ s \in DOMAIN W
                /\ Childless(W, p) /\ W[p] = fr /\ W[s] = g
                /\ DOMAIN G = DOMAIN W /\ G[p] = f /\ G[s] = h
                /\ \A q \in DOMAIN W : q # p /\ q # s => G[q] = W[q]
  <2>1. PICK c1, fp, fs : c1 = cache /\ fp = frames[p] /\ fs = frames[s]
    OBVIOUS
  <2>2. s \in DOMAIN frames /\ s # p
    BY <1>1, <1>2, RequestCallerOf DEF Copies
  <2>3. /\ DOMAIN E = DOMAIN frames /\ E[p] = f /\ E[s] = h
        /\ \A q \in DOMAIN frames : q # p /\ q # s => E[q] = frames[q]
    <3>1. PICK A : A = With(p, f)
      OBVIOUS
    <3>2. DOMAIN A = DOMAIN frames /\ A[p] = f /\ \A q \in DOMAIN frames : q # p => A[q] = frames[q]
      BY <3>1, WithFacts
    <3>3. E = [A EXCEPT ![s] = h]
      BY <1>4, <3>1
    <3> QED BY ONLY <2>2, <3>2, <3>3, p \in DOMAIN frames
  <2>5. ReplyUnlocks(p, s, f, h, m, w, e, E)
    BY <1>1, <1>2, <1>3, <1>4, <1>5, <2>2, <2>3 DEF ReplyUnlocks
  <2>6. /\ \A n \in Modules : \A v \in Ways(n) : n # m \/ v # w => c1[n][v] = cache[n][v]
        /\ G = frames' /\ d1 = dir' /\ Inv /\ Copies(frames, cache, dir)
    BY <1>1, <2>1
  <2>4. /\ m \in Modules /\ w \in Ways(m) /\ OffEntry(cache, dir, c1, d1, m, w)
        /\ d1[m][w].sharers = e.sharers /\ d1[m][w].owner = e.owner /\ d1[m][w].lock = 0
        /\ f \in Frame /\ Alike(frames[p], f) /\ f.pc = "reply" /\ f.error = frames[p].error
        /\ h \in Frame /\ Alike(frames[s], h) /\ h.pc = frames[s].pc
        /\ s \in DOMAIN frames /\ s # p
        /\ \E W : /\ Sys(W, dir) /\ Copies(W, cache, dir) /\ p \in DOMAIN W /\ s \in DOMAIN W
                  /\ Childless(W, p) /\ W[p] = frames[p] /\ W[s] = frames[s]
                  /\ DOMAIN G = DOMAIN W /\ G[p] = f /\ G[s] = h
                  /\ \A q \in DOMAIN W : q # p /\ q # s => G[q] = W[q]
    BY ONLY <2>5, <2>6, WokenReply
  <2> QED BY <1>1, <2>1, <2>4
<1>7. PICK W : /\ Sys(W, d) /\ Copies(W, c, d) /\ p \in DOMAIN W /\ s \in DOMAIN W
               /\ Childless(W, p) /\ W[p] = fr /\ W[s] = g
               /\ DOMAIN G = DOMAIN W /\ G[p] = f /\ G[s] = h
               /\ \A q \in DOMAIN W : q # p /\ q # s => G[q] = W[q]
  BY <1>6
<1>8. PICK X : X = {p, s}
  OBVIOUS
<1>9. h.error
  <2>1. g \in Frame
    BY <1>7, FrameOf
  <2> QED BY <1>1, <2>1 DEF Frame
<1>10. /\ IsRequest(W[p]) /\ s = Front(p) /\ X = {p, s}
       /\ G[p] \in Frame /\ Alike(W[p], G[p]) /\ G[p].pc = "reply" /\ G[p].error = W[p].error
       /\ G[s] \in Frame /\ Alike(W[s], G[s]) /\ G[s].pc = W[s].pc
       /\ (G[s].error => W[s].error \/ W[p].dir = "updown")
       /\ (W[p].kind = "read_request" /\ W[p].dir = "downup" =>
              NoneAfter(W, c, G, c, W[p].mod, W[p].addr))
       /\ m = W[p].target /\ w = W[p].way /\ OffEntry(c, d, c, d1, m, w) /\ G[s].error
       /\ ~Revoking(W[p]) /\ Holds(W[p]) /\ m = Where(W[p])
  BY <1>1, <1>2, <1>6, <1>7, <1>8, <1>9 DEF Revoking, Revokes, Where, IsRequest
<1>11. /\ Rest(W, G, X) /\ Linked(G, X) /\ Fits(W, c, G, c, d1, X, p)
       /\ (Backed(W, c, G, s) => Fits(W, c, G, c, d1, X, s))
       /\ (G[s].error \/ W[p].dir = "downup" => Backed(W, c, G, s))
       /\ Leaves(W, G, s) /\ (~Revoking(W[p]) => Leaves(W, G, p))
  <2>1. Telling(W, c, d, G, c, d1, p, s, X, m, w)
    BY ONLY <1>7, <1>10 DEF Telling
  <2> QED BY ONLY <2>1, RequestTells
<1>12. /\ \A x \in X \cap DOMAIN G : Fits(W, c, G, c, d1, X, x)
       /\ \A x \in X \cap DOMAIN W : Leaves(W, G, x)
       /\ p \in X /\ c[m][w] = c[m][w]
       /\ d1[m][w].sharers = d[m][w].sharers /\ d1[m][w].owner = d[m][w].owner
  BY <1>4, <1>6, <1>8, <1>10, <1>11
<1>13. Copies(G, c, d1)
  BY ONLY <1>7, <1>10, <1>11, <1>12, HolderKeeps
<1> QED BY <1>1, <1>13

\* write_request_updown_finish and read_request_updown_miss, after an error.
LEMMA RequestErrorCopies ==
    ASSUME Inv, Copies(frames, cache, dir), NEW p \in DOMAIN frames, NEW fr, fr = frames[p],
           \/ fr.kind = "write_request" /\ fr.pc = "updown_finish"
           \/ fr.kind = "read_request" /\ fr.pc = "updown_miss",
           NEW f, f = [fr EXCEPT !.pc = "reply"],
           UnlockEntry(fr.target, fr.way, dir[fr.target][fr.way],
                       [With(p, f) EXCEPT ![Front(p)].error = TRUE]),
           cache' = cache
    PROVE  Copies(frames, cache, dir)'
<1>1. PICK s, h : s = Front(p) /\ h = [frames[s] EXCEPT !.error = TRUE]
  OBVIOUS
<1>2. IsRequest(fr) /\ fr.pc \in {"updown_miss", "updown_finish"}
  BY DEF IsRequest
<1>3. fr.dir = "updown" /\ s \in DOMAIN frames /\ s # p
  <2>1. Sys(frames, dir) /\ Calls(frames)
    BY DEF Inv, Copies
  <2>2. s \in DOMAIN frames /\ s # p /\ RequestOK(fr)
    BY <1>1, <1>2, <2>1, RequestCallerOf
  <2> QED BY <1>2, <2>2 DEF RequestOK
<1>4. UnlockEntry(fr.target, fr.way, dir[fr.target][fr.way], [With(p, f) EXCEPT ![s] = h])
  <2>1. [With(p, f) EXCEPT ![s].error = TRUE] = [With(p, f) EXCEPT ![s] = h]
    <3>1. PICK A, E : A = With(p, f) /\ E = [A EXCEPT ![s].error = TRUE]
      OBVIOUS
    <3>2. E = [A EXCEPT ![s] = h]
      <4>1. /\ p \in DOMAIN frames /\ s \in DOMAIN frames /\ s # p
            /\ h = [frames[s] EXCEPT !.error = TRUE]
        BY <1>1, <1>3
      <4>2. A[s] = frames[s]
        BY <3>1, <4>1, WithFacts
      <4>3. h = [A[s] EXCEPT !.error = TRUE]
        BY <4>1, <4>2
      <4>4. [A EXCEPT ![s].error = TRUE] = [A EXCEPT ![s] = h]
        BY ONLY <4>3
      <4> QED BY ONLY <3>1, <4>4
    <3> QED BY ONLY <3>1, <3>2
  <2>2. UnlockEntry(fr.target, fr.way, dir[fr.target][fr.way],
                    [With(p, f) EXCEPT ![s].error = TRUE])
    BY <1>1
  <2> QED BY <2>1, <2>2
<1> QED BY <1>1, <1>2, <1>3, <1>4, RequestFailsCopies

\* A read request has got the block from below.
LEMMA ReadMissGets ==
    ASSUME NEW F, NEW c, NEW d, Sys(F, d), Copies(F, c, d), NEW p \in DOMAIN F,
           F[p].kind = "read_request", F[p].pc = "updown_miss", ~F[p].error,
           NEW G, DOMAIN G = DOMAIN F, \A q \in DOMAIN F : q # p => G[q] = F[q],
           G[p] \in Frame, Alike(F[p], G[p]), G[p].pc = "updown_finish",
           NEW m, m = F[p].target, NEW w, w = F[p].way,
           NEW c1, OffEntry(c, d, c1, d, m, w), c1[m][w].transient = c[m][w].transient,
           c1[m][w].tag = F[p].tag, c1[m][w].state = IF F[p].shared THEN "S" ELSE "E"
    PROVE  Copies(G, c1, d)
<1>1. /\ Calls(F) /\ Leaning(F, c, d) /\ IsRequest(F[p]) /\ Tree(F)
  BY DEF Copies, IsRequest, Sys
<1>2. PICK f, g, s, X : f = F[p] /\ g = G[p] /\ s = Front(p) /\ X = {p}
  OBVIOUS
<1>3. /\ f \in Frame /\ RequestOK(f) /\ FlowOK(f) /\ ~IsAccess(f) /\ LeanOK(f, c, d)
      /\ LinkOK(f, F[s]) /\ Where(f) = m /\ Where(g) = m /\ Holds(f)
  <2>1. f \in Frame /\ RequestOK(f) /\ ~IsAccess(f) /\ Where(f) = m
    BY <1>1, <1>2, RequestCallerOf
  <2>2. LinkOK(f, F[s])
    BY <1>1, <1>2, <2>1, LinkOf
  <2>3. FlowOK(f) /\ LeanOK(f, c, d)
    BY <1>1, <1>2 DEF Calls, Leaning
  <2>4. Where(g) = m
    BY <1>2, <2>1, AlikeFacts
  <2>5. Holds(f)
    BY <1>1, <1>2, <2>1 DEF Holds, RequestOK
  <2> QED BY <2>1, <2>2, <2>3, <2>4, <2>5
<1>4. Childless(F, p)
  BY <1>1, <1>2, NoChildren
<1>5. LinkOK(g, F[s])
  <2>1. SameLink(f, g)
    BY <1>1, <1>2, <1>3 DEF SameLink, Alike, IsRequest
  <2> QED BY <1>3, <2>1, SameLinkOK
<1>6. Rest(F, G, X) /\ Linked(G, X) /\ Childless(G, p)
  BY <1>2, <1>3, <1>4, <1>5, LinkedOne
<1>7. /\ f.state = "I" /\ f.tag \in Tag /\ m \in Modules /\ w \in Ways(m) /\ f.way = w
      /\ c[m][w].state = "I" /\ c[m][w].transient = f.tag
  <2>1. f.state = "I" /\ m \in Modules /\ w \in Ways(m) /\ f.way = w /\ f.tag \in Tag
    BY <1>2, <1>3, FrameOf DEF FlowOK
  <2>2. HeldOK(f, c[m][w])
    BY <1>1, <1>2, <1>3 DEF LeanOK, IsRequest
  <2> QED BY <1>2, <2>1, <2>2 DEF HeldOK
<1>8. \A K \in Rights : c1[m][w].state \in K => Needs(F, c, m, f.tag, K)
  <2>1. SUFFICES ASSUME NEW K \in Rights, c1[m][w].state \in K PROVE Needs(F, c, m, f.tag, K)
    OBVIOUS
  <2>2. K = Exclusive => ~f.shared
    BY <1>2, <2>1 DEF Exclusive
  <2>3. Answered(F, p)
    BY DEF Answered, Ready
  <2>4. Granted(F, p, K)
    BY <1>2, <1>3, <2>2, <2>3 DEF Granted
  <2> QED BY <1>2, <1>3, <2>4 DEF Needs, Due
<1>9. NoneBut(F, c, m, f.tag, {})
  <2>1. SUFFICES ASSUME NEW n \in Modules \ {MainMemory}, Low[n] = m,
                        Needs(F, c, n, f.tag, Exclusive)
                 PROVE  FALSE
    BY DEF NoneBut
  <2>2. Exclusive \in Rights
    BY DEF Rights
  <2>3. Serves(F, c[m][w], d[m][w], m, w, n, f.tag, Exclusive)
    BY <1>2, <1>3, <1>7, <2>1, <2>2, ServedByHeld
  <2> QED BY <1>7, <2>3 DEF Serves
<1>10. Fits(F, c, G, c1, d, X, p)
  <2>1. FlowOK(g)
    <3>1. f.dir = "updown"
      BY <1>2, <1>3 DEF RequestOK
    <3> QED BY <1>1, <1>2, <1>3, <3>1 DEF FlowOK, RequestFlow, Alike, IsRequest
  <2>2. LeanOK(g, c1, d)
    <3>1. HeldOK(g, c1[m][w])
      BY <1>2, <1>7 DEF HeldOK, Alike, Exclusive
    <3> QED BY <1>1, <1>2, <1>3, <1>7, <3>1 DEF LeanOK, Alike, IsRequest
  <2>3. ~Cleared(G, p) /\ Backed(F, c, G, p)
    BY <1>2 DEF Cleared, Backed, Granted, Answered, Ready, Alike
  <2>4. Shows(F, G, X, p)
    BY <1>1, <1>2, AlikeFacts DEF Shows
  <2>5. ReadQuiet(g, F, c)
    <3>1. f.dir = "updown"
      BY <1>2, <1>3 DEF RequestOK
    <3> QED BY <1>2, <1>9, <3>1 DEF ReadQuiet, NoneBut, Alike
  <2> QED BY <1>2, <2>1, <2>2, <2>3, <2>4, <2>5 DEF Fits
<1>11. Leaves(F, G, p)
  BY DEF Leaves, IsLost, Revoking, Revokes
<1>12. /\ \A x \in X \cap DOMAIN G : Fits(F, c, G, c1, d, X, x)
       /\ \A x \in X \cap DOMAIN F : Leaves(F, G, x)
       /\ p \in X
  BY <1>2, <1>10, <1>11
<1>13. /\ c1[m][w].state # "I" /\ c1[m][w].tag = F[p].tag
       /\ (c[m][w].state # "I" => c[m][w].tag = F[p].tag)
       /\ \A K \in Rights : m # MainMemory /\ c1[m][w].state \in K => Needs(F, c, m, F[p].tag, K)
       /\ m = Where(F[p]) /\ Holds(F[p])
  BY <1>2, <1>3, <1>7, <1>8
<1>14. d[m][w].sharers = d[m][w].sharers /\ d[m][w].owner = d[m][w].owner
  OBVIOUS
<1> QED BY <1>4, <1>6, <1>12, <1>13, <1>14, HolderKeeps

\* read_request_updown_miss
LEMMA ReadRequestUpdownMissCopies ==
    ASSUME Inv, Inv', Copies(frames, cache, dir), NEW p \in DOMAIN frames,
           ReadRequestUpdownMiss(p)
    PROVE  Copies(frames, cache, dir)'
<1>1. PICK fr, f : fr = frames[p] /\ f = [fr EXCEPT !.pc = "reply"]
  OBVIOUS
<1>2. /\ fr.kind = "read_request" /\ fr.pc = "updown_miss"
      /\ \/ /\ UnlockEntry(fr.target, fr.way, dir[fr.target][fr.way],
                           [With(p, f) EXCEPT ![Front(p)].error = TRUE])
            /\ UNCHANGED cache
         \/ /\ ~fr.error
            /\ setBlock(fr.target, fr.way, fr.tag, IF fr.shared THEN "S" ELSE "E")
            /\ Goto(p, "updown_finish")
            /\ UNCHANGED dir
  BY <1>1 DEF ReadRequestUpdownMiss, At
<1>3. CASE /\ UnlockEntry(fr.target, fr.way, dir[fr.target][fr.way],
                          [With(p, f) EXCEPT ![Front(p)].error = TRUE])
           /\ UNCHANGED cache
  BY <1>1, <1>2, <1>3, RequestErrorCopies
<1>4. CASE /\ ~fr.error
           /\ setBlock(fr.target, fr.way, fr.tag, IF fr.shared THEN "S" ELSE "E")
           /\ Goto(p, "updown_finish")
           /\ UNCHANGED dir
  <2>1. PICK F, G, c, d, c1, m, w, t, x, e :
           /\ F = frames /\ G = frames' /\ c = cache /\ d = dir /\ c1 = cache'
           /\ m = F[p].target /\ w = F[p].way /\ t = F[p].tag
           /\ x = (IF F[p].shared THEN "S" ELSE "E") /\ e = "updown_finish"
    OBVIOUS
  <2>2. Sys(F, d) /\ Copies(F, c, d) /\ p \in DOMAIN F /\ Storage(c, d)
    BY <2>1 DEF Inv
  <2>3. /\ IsRequest(F[p]) /\ F[p] \in Frame /\ RequestOK(F[p]) /\ Where(F[p]) = m
    BY <1>1, <1>2, <2>1, <2>2, RequestCallerOf DEF Copies, IsRequest
  <2>4. m \in Modules /\ w \in Ways(m)
    <3>1. Holds(F[p])
      BY <1>1, <1>2, <2>1, <2>3 DEF Holds, RequestOK
    <3> QED BY <2>1, <2>2, <2>3, <3>1, FrameOf
  <2>5. c1 = BlockTo(c, m, w, t, x)
    BY <1>1, <1>4, <2>1 DEF setBlock, BlockTo
  <2>6. /\ c1[m][w].tag = t /\ c1[m][w].state = x /\ c1[m][w].transient = c[m][w].transient
        /\ \A n \in Modules : \A v \in Ways(n) : n # m \/ v # w => c1[n][v] = c[n][v]
    BY ONLY <2>2, <2>4, <2>5, BlockSet
  <2>7. PICK g : g = [F[p] EXCEPT !.pc = e]
    OBVIOUS
  <2>8. G = With(p, g)
    BY <1>1, <1>4, <2>1, <2>7 DEF Goto
  <2>9. DOMAIN G = DOMAIN F /\ G[p] = g /\ \A q \in DOMAIN F : q # p => G[q] = F[q]
    BY <2>1, <2>8, WithFacts
  <2>10. g \in Frame /\ g.pc = e /\ Alike(F[p], g)
    <3>1. e \in Events
      BY <2>1 DEF Events
    <3> QED BY <2>3, <2>7, <3>1, NextAlike
  <2>11. /\ F[p].kind = "read_request" /\ F[p].pc = "updown_miss" /\ ~F[p].error
         /\ G[p] \in Frame /\ Alike(F[p], G[p]) /\ G[p].pc = "updown_finish"
         /\ c1[m][w].tag = F[p].tag /\ c1[m][w].state = (IF F[p].shared THEN "S" ELSE "E")
         /\ m = F[p].target /\ w = F[p].way
    BY <1>1, <1>2, <1>4, <2>1, <2>6, <2>9, <2>10
  <2>12. OffEntry(c, d, c1, d, m, w)
    BY <2>6 DEF OffEntry
  <2>13. Copies(G, c1, d)
    BY ONLY <2>2, <2>6, <2>9, <2>11, <2>12, ReadMissGets
  <2> QED BY <1>4, <2>1, <2>13
<1> QED BY <1>2, <1>3, <1>4
=============================================================================
