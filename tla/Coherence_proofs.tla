------------------------- MODULE Coherence_proofs -------------------------
(***************************************************************************)
(* Who holds which lock in the NMOESI protocol, for loads and stores on    *)
(* any hierarchy of modules, with any number of ways, blocks and accesses. *)
(***************************************************************************)
EXTENDS Coherence, FiniteSetTheorems, SequenceTheorems, TLAPS

Kinds == {"load", "store", "find_and_lock", "evict", "invalidate",
          "write_request", "read_request"}
Events == {"lock", "find", "wait", "call", "action", "miss", "unlock", "finish",
           "evict", "invalid", "process", "process_noncoherent", "reply",
           "invalidate", "exclusive", "updown_miss", "updown_finish", "downup_finish"}
Tag == Tags \cup {NoTag}

Frame ==
    [kind : Kinds, pc : Events, ret : Events \cup {""},
     mod : Modules, addr : Tag, target : Modules, dir : {"none", "updown", "downup"},
     blocking : BOOLEAN, nc_write : BOOLEAN,
     way : Nat, tag : Tag, state : BlockStates, hit : BOOLEAN,
     error : BOOLEAN, notFound : BOOLEAN, shared : BOOLEAN, eviction : BOOLEAN,
     reply : {"None", "Ack", "AckData"}, except : Modules \cup {NoModule},
     srcWay : Nat, srcTag : Tag, data : BOOLEAN]

IsAccess(f) == f.kind \in {"load", "store"}
IsRequest(f) == f.kind \in {"read_request", "write_request"}
Processing(f) == f.pc \in {"process", "process_noncoherent"}

\* The module whose directory entry a frame works on.
Where(f) ==
    IF f.kind \in {"read_request", "write_request", "evict"} THEN f.target ELSE f.mod

\* Main memory has every block, once it has looked it up.
MainState(f) == Where(f) = MainMemory => f.state \in {"E", "M"}

\* What is true of the frame of an access, a request, and so on, by itself: at
\* which events it can be, when it has a way, and in which state of the block.
AccessOK(f) ==
    /\ f.addr \in Tags /\ f.ret = "" /\ f.dir = "none"
    /\ f.pc \in {"lock", "call", "action", "miss", "unlock", "finish"}
    /\ f.pc = "lock" => f.way = 0
    /\ f.pc = "action" => (f.error <=> f.way = 0)
    /\ f.pc \in {"miss", "unlock"} => f.way # 0
    /\ f.way # 0 => f.tag = f.addr /\ MainState(f)
    /\ f.pc = "miss" => f.mod # MainMemory

RequestOK(f) ==
    /\ f.pc \in {"call", "action", "exclusive", "updown_miss", "updown_finish",
                 "downup_finish", "reply"}
    /\ f.kind = "read_request" => f.pc # "exclusive"
    /\ f.kind = "write_request" => f.pc \notin {"updown_miss", "downup_finish"}
    /\ f.notFound => f.pc \in {"action", "reply"}
    /\ f.pc = "action" => (f.error \/ f.notFound <=> f.way = 0)
    /\ f.pc \in {"exclusive", "updown_miss", "updown_finish", "downup_finish"} => f.way # 0
    /\ f.way # 0 => MainState(f)
    /\ \/ f.dir = "updown" /\ f.mod # MainMemory /\ f.pc # "downup_finish"
       \/ f.dir = "downup" /\ f.target # MainMemory
             /\ f.pc \notin {"updown_miss", "updown_finish"}
    /\ f.pc = "updown_miss" => f.target # MainMemory

FindAndLockOK(f) ==
    /\ f.pc \in {"find", "wait", "call", "action", "finish"}
    /\ f.pc \in {"call", "action", "finish"} =>
          f.tag = f.addr /\ (f.mod = MainMemory => f.state \in {"I", "E", "M"})

EvictOK(f) ==
    /\ f.pc \in {"evict", "call", "invalid", "process", "process_noncoherent", "reply"}
    /\ f.pc \in {"evict", "invalid"} => f.way \in Ways(f.mod)
    /\ f.notFound => Processing(f) \/ f.pc = "reply"
    /\ Processing(f) /\ ~f.error /\ ~f.notFound => MainState(f)

InvalidateOK(f) ==
    /\ f.pc \in {"invalidate", "finish"}
    /\ f.way \in Ways(f.mod)
    /\ f.pc = "finish" /\ f.mod = MainMemory => f.state \in {"I", "E", "M"}

FrameOK(f) ==
    /\ IsAccess(f) => AccessOK(f)
    /\ IsRequest(f) => RequestOK(f)
    /\ f.kind = "find_and_lock" => FindAndLockOK(f)
    /\ f.kind = "evict" => EvictOK(f)
    /\ f.kind = "invalidate" => InvalidateOK(f)

\* What is true of frame f that frame g has called: which event Return schedules,
\* and what the two have in common.
CallOK(f, g) ==
    /\ g.pc = IF g.kind = "invalidate" THEN "finish" ELSE "call"
    /\ f.kind = "find_and_lock" =>
          /\ f.mod = Where(g)
          /\ \/ IsAccess(g) /\ f.ret = "action" /\ g.way = 0 /\ f.addr = g.addr
                   /\ f.dir = "updown"
             \/ IsRequest(g) /\ f.ret = "action" /\ g.way = 0 /\ f.dir = g.dir
             \/ g.kind = "evict" /\ f.ret \in {"process", "process_noncoherent"}
    /\ f.kind = "evict" => g.kind = "find_and_lock" /\ f.ret = "finish" /\ f.mod = g.mod
    /\ f.kind = "invalidate" =>
          \/ g.kind = "evict" /\ f.ret = "invalid" /\ f.mod = g.mod /\ f.way = g.way
          \/ g.kind = "write_request" /\ f.ret = "exclusive" /\ g.way # 0
    /\ f.kind = "read_request" =>
          /\ g.way # 0 /\ f.mod = Where(g)
          /\ \/ g.kind = "load" /\ f.ret = "miss" /\ f.dir = "updown"
             \/ g.kind = "read_request" /\ g.dir = "updown"
                   /\ f.ret = (IF f.dir = "updown" THEN "updown_miss" ELSE "updown_finish")
             \/ g.kind = "read_request" /\ g.dir = "downup"
                   /\ f.ret = "downup_finish" /\ f.dir = "downup"
    /\ f.kind = "write_request" =>
          \/ g.kind = "invalidate" /\ f.dir = "downup"
          \/ /\ g.way # 0 /\ f.dir = "updown"
             /\ \/ g.kind = "store" /\ f.ret = "unlock"
                \/ g.kind = "write_request" /\ f.ret = "updown_finish" /\ g.dir = "updown"

\* Paths, and the tree of calls.
PathNames == Accesses \cup Modules \cup {"find", "request", "evict", "invalidate"}
IsPath(p) == p \in Seq(PathNames) /\ p # <<>> /\ Head(p) \in Accesses
Child(q, p) == Len(q) > 1 /\ Front(q) = p
Childless(F, p) == \A q \in DOMAIN F : ~Child(q, p)

Tree(F) ==
    /\ \A p \in DOMAIN F :
          /\ IsPath(p) /\ F[p] \in Frame /\ FrameOK(F[p])
          /\ \A k \in 1..Len(p) : SubSeq(p, 1, k) \in DOMAIN F
          /\ Len(p) = 1 <=> IsAccess(F[p])
    /\ \A p, q \in DOMAIN F : Child(q, p) => CallOK(F[q], F[p])
    /\ \A p, q, r \in DOMAIN F :
          Child(q, p) /\ Child(r, p) /\ q # r => F[p].kind = "invalidate"

\* The frames that hold the lock of way f.way of Where(f).
Holds(f) ==
    \/ IsAccess(f) /\ f.way # 0 /\ f.pc # "finish"
    \/ IsRequest(f) /\ f.way # 0 /\ f.pc # "reply"
    \/ f.kind = "find_and_lock" /\ f.pc \in {"call", "action", "finish"}
    \/ f.kind = "evict" /\ Processing(f) /\ ~f.error /\ ~f.notFound

SameLock(f, g) == Where(f) = Where(g) /\ f.way = g.way

\* A lock is held by one frame, of the access that the directory names; those
\* who wait for a lock wait for one that is taken.
Locks(F, d) ==
    /\ \A p \in DOMAIN F :
          Holds(F[p]) => /\ F[p].way \in Ways(Where(F[p]))
                         /\ d[Where(F[p])][F[p].way].lock = Head(p)
    /\ \A p, q \in DOMAIN F :
          Holds(F[p]) /\ Holds(F[q]) /\ SameLock(F[p], F[q]) => p = q
    /\ \A m \in Modules : \A w \in Ways(m) :
          d[m][w].lock # 0 =>
             \E p \in DOMAIN F : Holds(F[p]) /\ Where(F[p]) = m /\ F[p].way = w
    /\ \A p \in DOMAIN F :
          F[p].pc = "wait" => F[p].way \in Ways(F[p].mod) /\ d[F[p].mod][F[p].way].lock # 0

\* Main memory is nobody's sharer or owner, and its blocks are as it has made them.
Storage(c, d) ==
    /\ DOMAIN c = Modules /\ DOMAIN d = Modules
    /\ \A m \in Modules : c[m] \in [Ways(m) -> Block] /\ d[m] \in [Ways(m) -> Entry]
    /\ \A w \in Ways(MainMemory) : c[MainMemory][w].state \in {"I", "E", "M"}
    /\ \A m \in Modules : \A w \in Ways(m) :
          MainMemory \notin d[m][w].sharers /\ d[m][w].owner # MainMemory

Sys(F, d) == Tree(F) /\ Locks(F, d)
-----------------------------------------------------------------------------
(* Paths. *)

\* A frame has a caller, unless it is the access itself.
LEMMA PathFacts ==
    ASSUME NEW p, IsPath(p)
    PROVE  /\ Len(p) \in Nat /\ Len(p) > 0 /\ p = SubSeq(p, 1, Len(p))
           /\ Len(p) > 1 => /\ IsPath(Front(p)) /\ Head(Front(p)) = Head(p)
                            /\ Len(Front(p)) = Len(p) - 1 /\ Front(p) # p
                            /\ Front(p) = SubSeq(p, 1, Len(p) - 1)
           /\ SubSeq(p, 1, 1) = <<Head(p)>>
<1>1. p \in Seq(PathNames) /\ p # <<>> /\ Head(p) \in Accesses
  BY DEF IsPath
<1>2. Len(p) \in Nat /\ Len(p) > 0
  BY <1>1
<1>3. p = SubSeq(p, 1, Len(p)) /\ SubSeq(p, 1, 1) = <<Head(p)>>
  <2>1. p = SubSeq(p, 1, Len(p))
    BY <1>1
  <2>2. Head(p) = p[1] /\ Len(p) >= 1
    BY <1>1, <1>2
  <2>3. SubSeq(p, 1, 1) = <<p[1]>>
    <3>1. SubSeq(p, 1, 1) \in Seq(PathNames) /\ <<p[1]>> \in Seq(PathNames)
      BY <1>1, <1>2
    <3>2. Len(SubSeq(p, 1, 1)) = 1 /\ SubSeq(p, 1, 1)[1] = p[1]
      BY <1>1, <1>2
    <3>3. Len(<<p[1]>>) = 1 /\ <<p[1]>>[1] = p[1]
      OBVIOUS
    <3> DEFINE a == SubSeq(p, 1, 1)
               b == <<p[1]>>
    <3>4. a \in Seq(PathNames) /\ b \in Seq(PathNames) /\ Len(a) = Len(b)
          /\ \A i \in 1..Len(a) : a[i] = b[i]
      BY <3>1, <3>2, <3>3
    <3> HIDE DEF a, b
    <3>5. a = b
      BY <3>4, SeqEqual
    <3> QED BY <3>5 DEF a, b
  <2> QED BY <2>1, <2>2, <2>3
<1>4. ASSUME Len(p) > 1
      PROVE  /\ IsPath(Front(p)) /\ Head(Front(p)) = Head(p)
             /\ Len(Front(p)) = Len(p) - 1 /\ Front(p) # p
  <2> DEFINE q == SubSeq(p, 1, Len(p) - 1)
  <2>1. q \in Seq(PathNames) /\ Len(q) = Len(p) - 1
    BY <1>1, <1>4
  <2>2. q # <<>> /\ q[1] = p[1] /\ Head(q) = q[1] /\ Head(p) = p[1]
    <3>1. q[1] = p[1] /\ Len(q) \in Nat /\ Len(q) > 0
      BY <1>1, <1>2, <1>4, <2>1
    <3>2. q # <<>>
      <4> HIDE DEF q
      <4>1. Len(<<>>) = 0
        OBVIOUS
      <4> QED BY <3>1, <4>1
    <3> HIDE DEF q
    <3> QED BY <1>1, <2>1, <3>1, <3>2
  <2>3. q # p
    BY <1>2, <2>1
  <2> QED BY <1>1, <2>1, <2>2, <2>3 DEF IsPath, Front
<1> QED BY <1>2, <1>3, <1>4 DEF Front

\* The frame of a call is a child of the frame that called.
LEMMA AppendFacts ==
    ASSUME NEW p, IsPath(p), NEW x \in PathNames
    PROVE  /\ IsPath(Append(p, x)) /\ Head(Append(p, x)) = Head(p)
           /\ Len(Append(p, x)) = Len(p) + 1 /\ Front(Append(p, x)) = p
           /\ Len(Append(p, x)) > 1 /\ Append(p, x) # p
           /\ Child(Append(p, x), p)
           /\ \A k \in 1..Len(p) : SubSeq(Append(p, x), 1, k) = SubSeq(p, 1, k)
           /\ SubSeq(Append(p, x), 1, Len(p) + 1) = Append(p, x)
<1>1. /\ IsPath(Append(p, x)) /\ Head(Append(p, x)) = Head(p)
      /\ Len(Append(p, x)) = Len(p) + 1 /\ Front(Append(p, x)) = p
      /\ \A k \in 1..Len(p) : SubSeq(Append(p, x), 1, k) = SubSeq(p, 1, k)
      /\ SubSeq(Append(p, x), 1, Len(p) + 1) = Append(p, x)
  BY DEF IsPath, Front
<1>2. Len(p) \in Nat /\ Len(p) > 0
  BY DEF IsPath
<1> QED BY <1>1, <1>2 DEF Child

\* The caller of a frame is there, and waits for it.
LEMMA ChildFacts ==
    ASSUME NEW F, Tree(F), NEW q \in DOMAIN F, Len(q) > 1
    PROVE  /\ Front(q) \in DOMAIN F /\ Front(q) # q /\ Head(Front(q)) = Head(q)
           /\ Child(q, Front(q)) /\ CallOK(F[q], F[Front(q)]) /\ ~IsAccess(F[q])
           /\ IsPath(q) /\ IsPath(Front(q))
<1>1. IsPath(q) /\ \A k \in 1..Len(q) : SubSeq(q, 1, k) \in DOMAIN F
  BY DEF Tree
<1>2. Len(q) - 1 \in 1..Len(q)
  BY <1>1, PathFacts
<1>3. Front(q) \in DOMAIN F /\ Front(q) # q /\ Head(Front(q)) = Head(q)
  BY <1>1, <1>2, PathFacts, ZenonT(40)
<1> QED BY <1>1, <1>3, PathFacts DEF Tree, Child

\* Only a frame that waits for calls to return has called any.
LEMMA NoChildren ==
    ASSUME NEW F, Tree(F), NEW p \in DOMAIN F, F[p].pc # "call",
           F[p].kind = "invalidate" => F[p].pc # "finish"
    PROVE  Childless(F, p)
  BY DEF Tree, Childless, CallOK

\* A call that is a child of a new one there is none.
LEMMA AppendNew ==
    ASSUME NEW F, Tree(F), NEW p \in DOMAIN F, Childless(F, p), NEW x \in PathNames
    PROVE  Append(p, x) \notin DOMAIN F /\ Childless(F, Append(p, x))
<1>1. IsPath(p)
  BY DEF Tree
<1>2. Append(p, x) \notin DOMAIN F
  BY <1>1, AppendFacts DEF Childless
<1>3. ASSUME NEW q \in DOMAIN F, Child(q, Append(p, x)) PROVE FALSE
  BY <1>2, <1>3, ChildFacts DEF Child
<1> QED BY <1>2, <1>3 DEF Childless
-----------------------------------------------------------------------------
(* The tree of calls changes. *)

\* What CallOK looks at in the frame that was called.
SameCall(f, g) ==
    /\ g.kind = f.kind /\ g.ret = f.ret /\ g.mod = f.mod /\ g.addr = f.addr /\ g.dir = f.dir
    /\ f.kind = "invalidate" => g.way = f.way

\* CallOK stays true when the called frame changes in nothing that it looks at.
LEMMA SameCallOK ==
    ASSUME NEW f, NEW f1, NEW g, SameCall(f, f1), CallOK(f, g)
    PROVE  CallOK(f1, g)
  BY DEF SameCall, CallOK

\* One frame changes.
LEMMA TreeChange ==
    ASSUME NEW F, Tree(F), NEW p \in DOMAIN F, NEW f \in Frame, FrameOK(f),
           SameCall(F[p], f),
           \A q \in DOMAIN F : Child(q, p) => CallOK(F[q], f),
           NEW G, DOMAIN G = DOMAIN F, G[p] = f,
           \A q \in DOMAIN F : q # p => G[q] = F[q]
    PROVE  Tree(G)
<1>1. ASSUME NEW q \in DOMAIN G
      PROVE  /\ IsPath(q) /\ G[q] \in Frame /\ FrameOK(G[q])
             /\ \A k \in 1..Len(q) : SubSeq(q, 1, k) \in DOMAIN G
             /\ Len(q) = 1 <=> IsAccess(G[q])
             /\ G[q].kind = F[q].kind
  BY DEF Tree, SameCall, IsAccess
<1>2. ASSUME NEW q \in DOMAIN G, NEW r \in DOMAIN G, Child(r, q)
      PROVE  CallOK(G[r], G[q])
  <2>1. CallOK(F[r], F[q]) /\ r # q
    BY <1>2, ChildFacts DEF Child
  <2>2. CASE q = p
    BY <1>2, <2>1, <2>2
  <2>3. CASE r = p
    BY <2>1, <2>3, SameCallOK
  <2> QED BY <2>1, <2>2, <2>3
<1>3. ASSUME NEW s \in DOMAIN G, NEW q \in DOMAIN G, NEW r \in DOMAIN G,
             Child(q, s), Child(r, s), q # r
      PROVE  G[s].kind = "invalidate"
  BY <1>1, <1>3 DEF Tree
<1> QED BY <1>1, <1>2, <1>3 DEF Tree

\* A frame calls a chain.
LEMMA TreeAdd ==
    ASSUME NEW F, Tree(F), NEW p \in DOMAIN F, Childless(F, p), NEW x \in PathNames,
           NEW g \in Frame, FrameOK(g), ~IsAccess(g), CallOK(g, F[p])
    PROVE  Tree(Call(F, Append(p, x), g)) /\ Childless(Call(F, Append(p, x), g), Append(p, x))
<1> DEFINE c == Append(p, x)
           G == Call(F, c, g)
<1>1. IsPath(p) /\ c \notin DOMAIN F /\ Childless(F, c)
  BY AppendNew DEF Tree
<1>2. /\ IsPath(c) /\ Len(c) = Len(p) + 1 /\ Len(c) > 1 /\ Front(c) = p /\ c # p
      /\ \A k \in 1..Len(p) : SubSeq(c, 1, k) = SubSeq(p, 1, k)
      /\ SubSeq(c, 1, Len(p) + 1) = c /\ Len(p) \in Nat
  BY <1>1, AppendFacts, PathFacts
<1> HIDE DEF c
<1>3. /\ DOMAIN G = DOMAIN F \cup {c} /\ G[c] = g
      /\ \A q \in DOMAIN F : G[q] = F[q]
  BY <1>1 DEF Call
<1> HIDE DEF G
<1>4. \A k \in 1..Len(c) : SubSeq(c, 1, k) \in DOMAIN G
  <2> SUFFICES ASSUME NEW k \in 1..Len(c) PROVE SubSeq(c, 1, k) \in DOMAIN G
    OBVIOUS
  <2>1. CASE k = Len(p) + 1
    BY <1>2, <1>3, <2>1
  <2>2. CASE k # Len(p) + 1
    <3>1. k \in 1..Len(p)
      BY <1>2, <2>2
    <3> QED BY <1>2, <1>3, <3>1 DEF Tree
  <2> QED BY <2>1, <2>2
<1>5. ASSUME NEW q \in DOMAIN G
      PROVE  /\ IsPath(q) /\ G[q] \in Frame /\ FrameOK(G[q])
             /\ \A k \in 1..Len(q) : SubSeq(q, 1, k) \in DOMAIN G
             /\ Len(q) = 1 <=> IsAccess(G[q])
  <2>1. CASE q = c
    BY <1>2, <1>3, <1>4, <2>1
  <2>2. CASE q # c
    BY <1>3, <2>2 DEF Tree
  <2> QED BY <2>1, <2>2
<1>6. ASSUME NEW q \in DOMAIN G, NEW r \in DOMAIN G, Child(r, q)
      PROVE  /\ q # c /\ CallOK(G[r], G[q])
             /\ r = c => q = p
             /\ r # c => r \in DOMAIN F /\ q \in DOMAIN F /\ q # p
  <2>1. CASE r = c
    BY <1>2, <1>3, <1>6, <2>1 DEF Child
  <2>2. CASE r # c
    <3>1. r \in DOMAIN F /\ q # c /\ q \in DOMAIN F /\ q # p
      BY <1>1, <1>3, <1>6, <2>2 DEF Childless
    <3> QED BY <1>3, <1>6, <2>2, <3>1 DEF Tree
  <2> QED BY <2>1, <2>2
<1>7. ASSUME NEW s \in DOMAIN G, NEW q \in DOMAIN G, NEW r \in DOMAIN G,
             Child(q, s), Child(r, s), q # r
      PROVE  G[s].kind = "invalidate"
  <2>1. q # c /\ r # c
    BY <1>6, <1>7
  <2> QED BY <1>3, <1>6, <1>7, <2>1 DEF Tree
<1>8. Tree(G)
  BY <1>5, <1>6, <1>7 DEF Tree
<1>9. Childless(G, c)
  BY <1>1, <1>2, <1>3 DEF Childless, Child
<1> QED BY <1>8, <1>9 DEF c, G

\* A frame without calls goes.
LEMMA TreeRemove ==
    ASSUME NEW F, Tree(F), NEW p \in DOMAIN F, Childless(F, p),
           NEW G, G = [q \in DOMAIN F \ {p} |-> F[q]]
    PROVE  Tree(G)
<1>1. ASSUME NEW q \in DOMAIN G, NEW k \in 1..Len(q)
      PROVE  SubSeq(q, 1, k) \in DOMAIN G
  <2>1. q \in DOMAIN F /\ q # p /\ IsPath(q) /\ Len(q) \in Nat
    BY PathFacts DEF Tree
  <2>2. SubSeq(q, 1, k) \in DOMAIN F
    BY <2>1 DEF Tree
  <2>3. CASE k = Len(q)
    BY <2>1, <2>2, <2>3, PathFacts
  <2>4. CASE k # Len(q)
    <3> DEFINE r == SubSeq(q, 1, k + 1)
    <3>1. k + 1 \in 1..Len(q)
      BY <2>1, <2>4
    <3>2. r \in DOMAIN F
      BY <2>1, <3>1 DEF Tree
    <3>3. Len(r) = k + 1 /\ Len(r) > 1 /\ Front(r) = SubSeq(q, 1, k)
      BY <2>1, <3>1 DEF Front, IsPath
    <3>4. SubSeq(q, 1, k) # p
      BY <3>2, <3>3 DEF Childless, Child
    <3> QED BY <2>2, <3>4
  <2> QED BY <2>3, <2>4
<1>2. \A q \in DOMAIN G : q \in DOMAIN F /\ G[q] = F[q]
  OBVIOUS
<1> QED BY <1>1, <1>2 DEF Tree

\* Of a frame that waits, UnlockEntry changes the event and the way.
LEMMA WokenFrame ==
    ASSUME NEW f \in Frame, NEW g, g = [f EXCEPT !.pc = "find", !.way = 0]
    PROVE  /\ g \in Frame /\ g.pc = "find" /\ g.kind = f.kind /\ g.ret = f.ret
           /\ g.mod = f.mod /\ g.addr = f.addr /\ g.dir = f.dir
  BY DEF Frame, Events

\* The frames in a queue are woken up.
LEMMA TreeWake ==
    ASSUME NEW F, Tree(F), NEW m, NEW w
    PROVE  Tree(WakeupAll(F, m, w))
<1> DEFINE G == WakeupAll(F, m, w)
<1>1. DOMAIN G = DOMAIN F
  BY DEF WakeupAll
<1>2. ASSUME NEW q \in DOMAIN F
      PROVE  \/ G[q] = F[q]
             \/ F[q].pc = "wait" /\ G[q] = [F[q] EXCEPT !.pc = "find", !.way = 0]
  BY DEF WakeupAll
<1> HIDE DEF G
<1>3. ASSUME NEW q \in DOMAIN F
      PROVE  /\ G[q] \in Frame /\ FrameOK(G[q]) /\ G[q].kind = F[q].kind
             /\ SameCall(F[q], G[q]) /\ (F[q].pc # "wait" => G[q] = F[q])
  <2>1. F[q] \in Frame /\ FrameOK(F[q])
    BY DEF Tree
  <2>2. CASE G[q] = F[q]
    BY <2>1, <2>2 DEF SameCall
  <2>3. CASE F[q].pc = "wait" /\ G[q] = [F[q] EXCEPT !.pc = "find", !.way = 0]
    <3>1. F[q].kind = "find_and_lock"
      BY <2>1, <2>3 DEF Frame, Kinds, FrameOK, IsAccess, IsRequest, AccessOK, RequestOK,
                        EvictOK, InvalidateOK
    <3>2. /\ G[q] \in Frame /\ G[q].pc = "find" /\ G[q].kind = F[q].kind
          /\ G[q].ret = F[q].ret /\ G[q].mod = F[q].mod /\ G[q].addr = F[q].addr
          /\ G[q].dir = F[q].dir
      BY <2>1, <2>3, WokenFrame, ZenonT(40)
    <3>3. FrameOK(G[q])
      BY <3>1, <3>2 DEF FrameOK, FindAndLockOK, IsAccess, IsRequest
    <3> QED BY <2>3, <3>1, <3>2, <3>3 DEF SameCall
  <2> QED BY <1>2, <2>2, <2>3
<1>4. ASSUME NEW q \in DOMAIN F, NEW r \in DOMAIN F, Child(r, q)
      PROVE  CallOK(G[r], G[q])
  <2>1. CallOK(F[r], F[q])
    BY <1>4 DEF Tree
  <2>2. G[q] = F[q]
    BY <1>3, <2>1 DEF CallOK
  <2> QED BY <1>3, <2>1, <2>2, SameCallOK
<1>5. Tree(G)
  BY <1>1, <1>3, <1>4 DEF Tree, IsAccess
<1> QED BY <1>5 DEF G
-----------------------------------------------------------------------------
(* Locks change hands. *)

SameHold(f, g) == (Holds(f) <=> Holds(g)) /\ (Holds(f) => SameLock(f, g))

\* d1 is directory d with lock a at way w of module m.
Relocked(d, d1, m, w, a) ==
    \A n \in Modules : \A v \in Ways(n) :
        d1[n][v].lock = IF n = m /\ v = w THEN a ELSE d[n][v].lock

\* A frame works on the entry of a module.
LEMMA WherePlaces ==
    ASSUME NEW F, Tree(F), NEW p \in DOMAIN F
    PROVE  /\ Where(F[p]) \in Modules /\ F[p].mod \in Modules /\ F[p].target \in Modules
           /\ Head(p) \in Accesses /\ Head(p) # 0
<1>1. F[p] \in Frame /\ Head(p) \in Accesses
  BY DEF Tree, IsPath
<1>2. F[p].mod \in Modules /\ F[p].target \in Modules
  BY <1>1 DEF Frame
<1>3. Head(p) # 0
  BY <1>1, HierarchyAssumption DEF Accesses
<1> QED BY <1>1, <1>2, <1>3 DEF Where

\* A frame changes, but not in the lock that it holds.
LEMMA LocksChange ==
    ASSUME NEW F, NEW d, Locks(F, d), NEW p \in DOMAIN F, NEW f, SameHold(F[p], f),
           f.pc = "wait" => f.way \in Ways(f.mod) /\ d[f.mod][f.way].lock # 0,
           NEW G, DOMAIN G = DOMAIN F, G[p] = f,
           \A q \in DOMAIN F : q # p => G[q] = F[q]
    PROVE  Locks(G, d)
<1>1. \A q \in DOMAIN F : /\ Holds(F[q]) <=> Holds(G[q])
                          /\ Holds(F[q]) => SameLock(F[q], G[q])
  BY DEF SameHold, SameLock
<1>2. \A q \in DOMAIN G :
         Holds(G[q]) => /\ G[q].way \in Ways(Where(G[q]))
                        /\ d[Where(G[q])][G[q].way].lock = Head(q)
  BY <1>1 DEF Locks, SameLock
<1>3. \A q, r \in DOMAIN G :
         Holds(G[q]) /\ Holds(G[r]) /\ SameLock(G[q], G[r]) => q = r
  BY <1>1 DEF Locks, SameLock
<1>4. ASSUME NEW m \in Modules, NEW w \in Ways(m), d[m][w].lock # 0
      PROVE  \E q \in DOMAIN G : Holds(G[q]) /\ Where(G[q]) = m /\ G[q].way = w
  BY <1>1, <1>4 DEF Locks, SameLock
<1>5. \A q \in DOMAIN G :
         G[q].pc = "wait" => G[q].way \in Ways(G[q].mod) /\ d[G[q].mod][G[q].way].lock # 0
  BY DEF Locks
<1> QED BY <1>2, <1>3, <1>4, <1>5 DEF Locks

\* The frame of a new call holds no lock.
LEMMA LocksAdd ==
    ASSUME NEW F, NEW d, Locks(F, d), NEW c, c \notin DOMAIN F,
           NEW g, ~Holds(g), g.pc # "wait"
    PROVE  Locks(Call(F, c, g), d)
<1> DEFINE G == Call(F, c, g)
<1>1. DOMAIN G = DOMAIN F \cup {c} /\ G[c] = g /\ \A q \in DOMAIN F : G[q] = F[q]
  BY DEF Call
<1> HIDE DEF G
<1>2. Locks(G, d)
  BY <1>1 DEF Locks
<1> QED BY <1>2 DEF G

\* A frame without a lock goes.
LEMMA LocksRemove ==
    ASSUME NEW F, NEW d, Locks(F, d), NEW p \in DOMAIN F, ~Holds(F[p]),
           NEW G, G = [q \in DOMAIN F \ {p} |-> F[q]]
    PROVE  Locks(G, d)
<1>1. DOMAIN G = DOMAIN F \ {p} /\ \A q \in DOMAIN G : q \in DOMAIN F /\ G[q] = F[q]
  OBVIOUS
<1>2. ASSUME NEW m \in Modules, NEW w \in Ways(m), d[m][w].lock # 0
      PROVE  \E q \in DOMAIN G : Holds(G[q]) /\ Where(G[q]) = m /\ G[q].way = w
  BY <1>1, <1>2 DEF Locks
<1> QED BY <1>1, <1>2 DEF Locks

\* A frame takes a lock that is free.
LEMMA LocksTake ==
    ASSUME NEW F, NEW d, Tree(F), Locks(F, d), NEW p \in DOMAIN F, ~Holds(F[p]),
           NEW f, Holds(f), f.pc # "wait", Where(f) \in Modules, f.way \in Ways(Where(f)),
           d[Where(f)][f.way].lock = 0,
           NEW G, DOMAIN G = DOMAIN F, G[p] = f,
           \A q \in DOMAIN F : q # p => G[q] = F[q],
           NEW d1, Relocked(d, d1, Where(f), f.way, Head(p))
    PROVE  Locks(G, d1)
<1>1. \A q \in DOMAIN F : /\ Where(F[q]) \in Modules /\ F[q].mod \in Modules
                          /\ Head(q) # 0
  BY WherePlaces
<1>2. d1[Where(f)][f.way].lock = Head(p)
  BY DEF Relocked
<1>3. ASSUME NEW q \in DOMAIN F, q # p, Holds(F[q])
      PROVE  /\ F[q].way \in Ways(Where(F[q])) /\ ~SameLock(F[q], f)
             /\ d1[Where(F[q])][F[q].way].lock = Head(q)
  <2>1. F[q].way \in Ways(Where(F[q])) /\ d[Where(F[q])][F[q].way].lock = Head(q)
    BY <1>3 DEF Locks
  <2>2. ~SameLock(F[q], f)
    BY <1>1, <2>1 DEF SameLock
  <2> QED BY <1>1, <2>1, <2>2 DEF SameLock, Relocked
<1>4. \A q \in DOMAIN G :
         Holds(G[q]) => /\ G[q].way \in Ways(Where(G[q]))
                        /\ d1[Where(G[q])][G[q].way].lock = Head(q)
  BY <1>2, <1>3
<1>5. \A q, r \in DOMAIN G :
         Holds(G[q]) /\ Holds(G[r]) /\ SameLock(G[q], G[r]) => q = r
  BY <1>3 DEF Locks, SameLock
<1>6. ASSUME NEW m \in Modules, NEW w \in Ways(m), d1[m][w].lock # 0
      PROVE  \E q \in DOMAIN G : Holds(G[q]) /\ Where(G[q]) = m /\ G[q].way = w
  <2>1. CASE m = Where(f) /\ w = f.way
    BY <2>1
  <2>2. CASE ~(m = Where(f) /\ w = f.way)
    <3>1. d[m][w].lock # 0
      BY <1>6, <2>2 DEF Relocked
    <3>2. PICK q \in DOMAIN F : Holds(F[q]) /\ Where(F[q]) = m /\ F[q].way = w
      BY <3>1 DEF Locks
    <3> QED BY <3>2
  <2> QED BY <2>1, <2>2
<1>7. ASSUME NEW q \in DOMAIN G, G[q].pc = "wait"
      PROVE  G[q].way \in Ways(G[q].mod) /\ d1[G[q].mod][G[q].way].lock # 0
  <2>1. q # p /\ G[q] = F[q]
    BY <1>7
  <2>2. F[q].way \in Ways(F[q].mod) /\ d[F[q].mod][F[q].way].lock # 0 /\ F[q].mod \in Modules
    BY <1>1, <1>7, <2>1 DEF Locks
  <2>3. d1[F[q].mod][F[q].way].lock # 0
    BY <1>1, <2>2 DEF Relocked
  <2> QED BY <2>1, <2>2, <2>3
<1> QED BY <1>4, <1>5, <1>6, <1>7 DEF Locks

\* UnlockEntry: a frame gives its lock back, and those that wait for it look for
\* their block again.
LEMMA LocksDrop ==
    ASSUME NEW F, NEW d, Tree(F), Locks(F, d), NEW p \in DOMAIN F, Holds(F[p]),
           NEW f, ~Holds(f), f.pc # "wait",
           NEW E, DOMAIN E = DOMAIN F, E[p] = f,
           \A q \in DOMAIN F : q # p => E[q] = F[q],
           NEW d1, Relocked(d, d1, Where(F[p]), F[p].way, 0)
    PROVE  Locks(WakeupAll(E, Where(F[p]), F[p].way), d1)
<1> DEFINE m0 == Where(F[p])
           w0 == F[p].way
           G == WakeupAll(E, m0, w0)
<1>1. \A q \in DOMAIN F : /\ Where(F[q]) \in Modules /\ F[q].mod \in Modules
                          /\ Head(q) # 0 /\ F[q] \in Frame /\ FrameOK(F[q])
  BY WherePlaces DEF Tree
<1>2. DOMAIN G = DOMAIN F /\ G[p] = f
  BY DEF WakeupAll
<1>3. ASSUME NEW q \in DOMAIN F, q # p
      PROVE  /\ Holds(G[q]) <=> Holds(F[q])
             /\ Holds(F[q]) => G[q] = F[q]
             /\ G[q].pc = "wait" =>
                   G[q] = F[q] /\ ~(F[q].mod = m0 /\ F[q].way = w0)
  <2>1. \/ G[q] = F[q] /\ (F[q].pc = "wait" => ~(F[q].mod = m0 /\ F[q].way = w0))
        \/ F[q].pc = "wait" /\ G[q] = [F[q] EXCEPT !.pc = "find", !.way = 0]
    BY <1>3 DEF WakeupAll
  <2>2. CASE F[q].pc = "wait" /\ G[q] = [F[q] EXCEPT !.pc = "find", !.way = 0]
    <3>1. F[q].kind = "find_and_lock"
      BY <1>1, <2>2 DEF Frame, Kinds, FrameOK, IsAccess, IsRequest, AccessOK, RequestOK,
                        EvictOK, InvalidateOK
    <3>2. G[q].kind = "find_and_lock" /\ G[q].pc = "find"
      <4> HIDE DEF G
      <4>1. F[q] \in Frame
        BY <1>1
      <4> QED BY <2>2, <3>1, <4>1, WokenFrame
    <3> QED BY <2>2, <3>1, <3>2 DEF Holds, IsAccess, IsRequest
  <2> QED BY <2>1, <2>2
<1> HIDE DEF G
<1>4. ASSUME NEW q \in DOMAIN F, q # p, Holds(F[q])
      PROVE  /\ F[q].way \in Ways(Where(F[q]))
             /\ d1[Where(F[q])][F[q].way].lock = Head(q)
  <2>1. F[q].way \in Ways(Where(F[q])) /\ d[Where(F[q])][F[q].way].lock = Head(q)
    BY <1>4 DEF Locks
  <2>2. ~SameLock(F[q], F[p])
    BY <1>4 DEF Locks
  <2> QED BY <1>1, <2>1, <2>2 DEF SameLock, Relocked
<1>5. \A q \in DOMAIN G :
         Holds(G[q]) => /\ G[q].way \in Ways(Where(G[q]))
                        /\ d1[Where(G[q])][G[q].way].lock = Head(q)
  BY <1>2, <1>3, <1>4
<1>6. \A q, r \in DOMAIN G :
         Holds(G[q]) /\ Holds(G[r]) /\ SameLock(G[q], G[r]) => q = r
  BY <1>2, <1>3 DEF Locks
<1>7. ASSUME NEW m \in Modules, NEW w \in Ways(m), d1[m][w].lock # 0
      PROVE  \E q \in DOMAIN G : Holds(G[q]) /\ Where(G[q]) = m /\ G[q].way = w
  <2>1. ~(m = m0 /\ w = w0) /\ d[m][w].lock # 0
    BY <1>7 DEF Relocked
  <2>2. PICK q \in DOMAIN F : Holds(F[q]) /\ Where(F[q]) = m /\ F[q].way = w
    BY <2>1 DEF Locks
  <2> QED BY <1>2, <1>3, <2>1, <2>2
<1>8. ASSUME NEW q \in DOMAIN G, G[q].pc = "wait"
      PROVE  G[q].way \in Ways(G[q].mod) /\ d1[G[q].mod][G[q].way].lock # 0
  <2>1. q # p /\ G[q] = F[q] /\ ~(F[q].mod = m0 /\ F[q].way = w0)
    BY <1>2, <1>3, <1>8
  <2>2. F[q].way \in Ways(F[q].mod) /\ d[F[q].mod][F[q].way].lock # 0 /\ F[q].mod \in Modules
    BY <1>1, <1>2, <1>8, <2>1 DEF Locks
  <2>3. d1[F[q].mod][F[q].way].lock # 0
    BY <2>1, <2>2 DEF Relocked
  <2> QED BY <2>1, <2>2, <2>3
<1>9. Locks(G, d1)
  BY <1>5, <1>6, <1>7, <1>8 DEF Locks
<1> QED BY <1>9 DEF G

\* find_and_lock returns: the caller has the lock now.
LEMMA LocksPass ==
    ASSUME NEW F, NEW d, Tree(F), Locks(F, d), NEW p \in DOMAIN F, Holds(F[p]),
           NEW s \in DOMAIN F, s # p, Head(s) = Head(p), ~Holds(F[s]),
           NEW f, Holds(f), SameLock(f, F[p]), f.pc # "wait",
           NEW G, DOMAIN G = DOMAIN F \ {p}, G[s] = f,
           \A q \in DOMAIN G : q # s => G[q] = F[q]
    PROVE  Locks(G, d)
<1>1. \A q \in DOMAIN G :
         Holds(G[q]) => /\ G[q].way \in Ways(Where(G[q]))
                        /\ d[Where(G[q])][G[q].way].lock = Head(q)
  BY DEF Locks, SameLock
<1>2. \A q, r \in DOMAIN G :
         Holds(G[q]) /\ Holds(G[r]) /\ SameLock(G[q], G[r]) => q = r
  BY DEF Locks, SameLock
<1>3. ASSUME NEW m \in Modules, NEW w \in Ways(m), d[m][w].lock # 0
      PROVE  \E q \in DOMAIN G : Holds(G[q]) /\ Where(G[q]) = m /\ G[q].way = w
  <2>1. PICK q \in DOMAIN F : Holds(F[q]) /\ Where(F[q]) = m /\ F[q].way = w
    BY <1>3 DEF Locks
  <2>2. CASE q = p
    BY <2>1, <2>2 DEF SameLock
  <2>3. CASE q # p
    BY <2>1, <2>3
  <2> QED BY <2>2, <2>3
<1>4. \A q \in DOMAIN G :
         G[q].pc = "wait" => G[q].way \in Ways(G[q].mod) /\ d[G[q].mod][G[q].way].lock # 0
  BY DEF Locks
<1> QED BY <1>1, <1>2, <1>3, <1>4 DEF Locks
-----------------------------------------------------------------------------
(* What a handler does to the frames. *)

\* A handler goes on with its own frame.
LEMMA Goes ==
    ASSUME NEW F, NEW d, Sys(F, d), NEW p \in DOMAIN F, Childless(F, p),
           NEW f \in Frame, FrameOK(f), SameCall(F[p], f), SameHold(F[p], f),
           f.pc = "wait" => f.way \in Ways(f.mod) /\ d[f.mod][f.way].lock # 0,
           NEW G, G = [F EXCEPT ![p] = f]
    PROVE  /\ Sys(G, d) /\ DOMAIN G = DOMAIN F /\ G[p] = f /\ Childless(G, p)
           /\ \A q \in DOMAIN F : q # p => G[q] = F[q]
<1>1. /\ DOMAIN G = DOMAIN F /\ G[p] = f
      /\ \A q \in DOMAIN F : q # p => G[q] = F[q]
  OBVIOUS
<1>2. Tree(G)
  BY <1>1, TreeChange DEF Sys, Childless
<1>3. Locks(G, d)
  BY <1>1, LocksChange DEF Sys
<1> QED BY <1>1, <1>2, <1>3 DEF Sys, Childless

\* Frame f as a caller, but for the flags that requests set in their callers.
SameFlags(f, g) ==
    /\ g.kind = f.kind /\ g.pc = f.pc /\ g.ret = f.ret /\ g.mod = f.mod /\ g.addr = f.addr
    /\ g.target = f.target /\ g.dir = f.dir /\ g.way = f.way

\* A handler tells its caller about an error, that the block is shared, or of data.
LEMMA Tells ==
    ASSUME NEW F, NEW d, Sys(F, d), NEW p \in DOMAIN F, ~Childless(F, p),
           NEW f \in Frame, FrameOK(f), SameFlags(F[p], f),
           NEW G, DOMAIN G = DOMAIN F, G[p] = f,
           \A q \in DOMAIN F : q # p => G[q] = F[q]
    PROVE  Sys(G, d)
<1>1. PICK r \in DOMAIN F : Child(r, p)
  BY DEF Childless
<1>2. F[p].pc = IF F[p].kind = "invalidate" THEN "finish" ELSE "call"
  BY <1>1 DEF Sys, Tree, CallOK
<1>3. SameCall(F[p], f)
  BY DEF SameFlags, SameCall
<1>4. \A q \in DOMAIN F : Child(q, p) => CallOK(F[q], f)
  <2> SUFFICES ASSUME NEW q \in DOMAIN F, Child(q, p) PROVE CallOK(F[q], f)
    OBVIOUS
  <2>1. CallOK(F[q], F[p])
    BY DEF Sys, Tree
  <2>2. Where(f) = Where(F[p]) /\ (IsAccess(f) <=> IsAccess(F[p]))
        /\ (IsRequest(f) <=> IsRequest(F[p]))
    BY DEF SameFlags, Where, IsAccess, IsRequest
  <2> QED BY <2>1, <2>2 DEF SameFlags, CallOK
<1>5. SameHold(F[p], f) /\ f.pc # "wait"
  BY <1>2 DEF SameFlags, SameHold, SameLock, Holds, Where, IsAccess, IsRequest, Processing
<1>6. Tree(G)
  BY <1>3, <1>4, TreeChange DEF Sys
<1>7. Locks(G, d)
  BY <1>5, LocksChange DEF Sys
<1> QED BY <1>6, <1>7 DEF Sys

\* A handler calls a chain, or a request.
LEMMA Adds ==
    ASSUME NEW F, NEW d, Sys(F, d), NEW p \in DOMAIN F, Childless(F, p),
           NEW x \in PathNames, NEW g \in Frame, FrameOK(g), ~IsAccess(g), CallOK(g, F[p]),
           ~Holds(g), g.pc # "wait",
           NEW G, G = Call(F, Append(p, x), g)
    PROVE  /\ Sys(G, d) /\ Append(p, x) \in DOMAIN G /\ G[Append(p, x)] = g
           /\ Childless(G, Append(p, x))
<1>1. Append(p, x) \notin DOMAIN F
  BY AppendNew DEF Sys
<1>2. Tree(G) /\ Childless(G, Append(p, x))
  BY TreeAdd DEF Sys
<1>3. Locks(G, d)
  BY <1>1, LocksAdd DEF Sys
<1>4. Append(p, x) \in DOMAIN G /\ G[Append(p, x)] = g
  BY DEF Call
<1> QED BY <1>2, <1>3, <1>4 DEF Sys

\* A chain returns: its frame goes, and its caller, which has called no other,
\* goes on.
LEMMA ReturnsTree ==
    ASSUME NEW F, Tree(F), NEW p \in DOMAIN F, Len(p) > 1, Childless(F, p),
           NEW s, s = Front(p), F[s].kind # "invalidate",
           NEW f \in Frame, FrameOK(f), SameCall(F[s], f),
           NEW G, DOMAIN G = DOMAIN F \ {p}, G[s] = f,
           \A q \in DOMAIN G : q # s => G[q] = F[q]
    PROVE  Tree(G)
<1>1. s \in DOMAIN F /\ s # p /\ Child(p, s)
  BY ChildFacts
<1> DEFINE E == [q \in DOMAIN F \ {p} |-> F[q]]
<1>2. Tree(E)
  BY TreeRemove
<1>3. /\ DOMAIN E = DOMAIN F \ {p} /\ s \in DOMAIN E /\ E[s] = F[s]
      /\ \A q \in DOMAIN E : q \in DOMAIN F /\ q # p /\ E[q] = F[q]
  BY <1>1
<1> HIDE DEF E
<1>4. \A q \in DOMAIN E : ~Child(q, s)
  BY <1>1, <1>3 DEF Tree
<1>5. DOMAIN G = DOMAIN E /\ G[s] = f /\ \A q \in DOMAIN E : q # s => G[q] = E[q]
  BY <1>3
<1> QED BY <1>2, <1>3, <1>4, <1>5, TreeChange

\* A chain without a lock returns.
LEMMA Returns ==
    ASSUME NEW F, NEW d, Sys(F, d), NEW p \in DOMAIN F, Len(p) > 1, Childless(F, p),
           ~Holds(F[p]), NEW s, s = Front(p), F[s].kind # "invalidate",
           NEW f \in Frame, FrameOK(f), SameCall(F[s], f), SameHold(F[s], f), f.pc # "wait",
           NEW G, DOMAIN G = DOMAIN F \ {p}, G[s] = f,
           \A q \in DOMAIN G : q # s => G[q] = F[q]
    PROVE  Sys(G, d)
<1>1. s \in DOMAIN F /\ s # p
  BY ChildFacts DEF Sys
<1>2. Tree(G)
  BY ReturnsTree DEF Sys
<1> DEFINE E == [q \in DOMAIN F \ {p} |-> F[q]]
<1>3. Locks(E, d)
  BY LocksRemove DEF Sys
<1>4. /\ DOMAIN E = DOMAIN F \ {p} /\ s \in DOMAIN E /\ E[s] = F[s]
      /\ DOMAIN G = DOMAIN E /\ G[s] = f /\ \A q \in DOMAIN E : q # s => G[q] = E[q]
  BY <1>1
<1> HIDE DEF E
<1>5. Locks(G, d)
  BY <1>3, <1>4, LocksChange
<1> QED BY <1>2, <1>5 DEF Sys

\* find_and_lock returns, and leaves its lock to its caller.
LEMMA Passes ==
    ASSUME NEW F, NEW d, Sys(F, d), NEW p \in DOMAIN F, Len(p) > 1, Childless(F, p),
           Holds(F[p]), NEW s, s = Front(p), F[s].kind # "invalidate", ~Holds(F[s]),
           NEW f \in Frame, FrameOK(f), SameCall(F[s], f), Holds(f), SameLock(f, F[p]),
           f.pc # "wait",
           NEW G, DOMAIN G = DOMAIN F \ {p}, G[s] = f,
           \A q \in DOMAIN G : q # s => G[q] = F[q]
    PROVE  Sys(G, d)
<1>1. s \in DOMAIN F /\ s # p /\ Head(s) = Head(p)
  BY ChildFacts DEF Sys
<1>2. Tree(G)
  BY ReturnsTree DEF Sys
<1>3. Locks(G, d)
  BY <1>1, LocksPass DEF Sys
<1> QED BY <1>2, <1>3 DEF Sys

\* A handler locks an entry that is free.
LEMMA Takes ==
    ASSUME NEW F, NEW d, Sys(F, d), NEW p \in DOMAIN F, Childless(F, p), ~Holds(F[p]),
           NEW f \in Frame, FrameOK(f), SameCall(F[p], f), Holds(f), f.pc # "wait",
           f.way \in Ways(Where(f)), d[Where(f)][f.way].lock = 0,
           NEW G, G = [F EXCEPT ![p] = f],
           NEW d1, Relocked(d, d1, Where(f), f.way, Head(p))
    PROVE  Sys(G, d1)
<1>1. /\ DOMAIN G = DOMAIN F /\ G[p] = f
      /\ \A q \in DOMAIN F : q # p => G[q] = F[q]
  OBVIOUS
<1>2. Tree(G)
  BY <1>1, TreeChange DEF Sys, Childless
<1>3. Where(f) \in Modules
  BY DEF Frame, Where
<1>4. Locks(G, d1)
  BY <1>1, <1>3, LocksTake DEF Sys
<1> QED BY <1>2, <1>4 DEF Sys

\* A handler unlocks the entry that it works on, and goes on.
LEMMA Unlocks ==
    ASSUME NEW F, NEW d, Sys(F, d), NEW p \in DOMAIN F, Childless(F, p), Holds(F[p]),
           NEW f \in Frame, FrameOK(f), SameCall(F[p], f), ~Holds(f), f.pc # "wait",
           NEW m, m = Where(F[p]), NEW w, w = F[p].way,
           NEW E, DOMAIN E = DOMAIN F, E[p] = f,
           \A q \in DOMAIN F : q # p => E[q] = F[q],
           NEW d1, Relocked(d, d1, m, w, 0)
    PROVE  Sys(WakeupAll(E, m, w), d1)
<1>1. Tree(E)
  BY TreeChange DEF Sys, Childless
<1>2. Tree(WakeupAll(E, m, w))
  BY <1>1, TreeWake
<1>3. Locks(WakeupAll(E, m, w), d1)
  BY LocksDrop DEF Sys
<1> QED BY <1>2, <1>3 DEF Sys

\* It tells its caller, too.
LEMMA UnlocksAndTells ==
    ASSUME NEW F, NEW d, Sys(F, d), NEW p \in DOMAIN F, Childless(F, p), Holds(F[p]),
           NEW f \in Frame, FrameOK(f), SameCall(F[p], f), ~Holds(f), f.pc # "wait",
           NEW m, m = Where(F[p]), NEW w, w = F[p].way,
           Len(p) > 1, NEW s, s = Front(p),
           NEW g \in Frame, FrameOK(g), SameFlags(F[s], g),
           NEW E, DOMAIN E = DOMAIN F, E[p] = f, E[s] = g,
           \A q \in DOMAIN F : q # p /\ q # s => E[q] = F[q],
           NEW d1, Relocked(d, d1, m, w, 0)
    PROVE  Sys(WakeupAll(E, m, w), d1)
<1>1. s \in DOMAIN F /\ s # p /\ ~Childless(F, s)
  BY ChildFacts DEF Sys, Childless
<1> DEFINE D == [F EXCEPT ![s] = g]
<1>2. DOMAIN D = DOMAIN F /\ D[s] = g /\ \A q \in DOMAIN F : q # s => D[q] = F[q]
  BY <1>1
<1> HIDE DEF D
<1>3. Sys(D, d)
  BY <1>1, <1>2, Tells
<1>4. Childless(D, p) /\ D[p] = F[p] /\ p \in DOMAIN D
  BY <1>1, <1>2 DEF Childless
<1>5. DOMAIN E = DOMAIN D /\ \A q \in DOMAIN D : q # p => E[q] = D[q]
  BY <1>2
<1> QED BY <1>3, <1>4, <1>5, Unlocks

\* find_and_lock unlocks its entry and returns.
LEMMA UnlocksAndReturns ==
    ASSUME NEW F, NEW d, Sys(F, d), NEW p \in DOMAIN F, Childless(F, p), Holds(F[p]),
           F[p].kind = "find_and_lock",
           NEW m, m = Where(F[p]), NEW w, w = F[p].way,
           Len(p) > 1, NEW s, s = Front(p), F[s].kind # "invalidate",
           NEW f \in Frame, FrameOK(f), SameCall(F[s], f), SameHold(F[s], f), f.pc # "wait",
           NEW E, DOMAIN E = DOMAIN F \ {p}, E[s] = f,
           \A q \in DOMAIN E : q # s => E[q] = F[q],
           NEW d1, Relocked(d, d1, m, w, 0)
    PROVE  Sys(WakeupAll(E, m, w), d1)
<1>1. s \in DOMAIN F /\ s # p /\ Child(p, s) /\ CallOK(F[p], F[s])
  BY ChildFacts DEF Sys
<1>2. F[s].pc = "call"
  BY <1>1 DEF CallOK
<1> DEFINE e == [F[p] EXCEPT !.pc = "find", !.way = 0]
           D == [F EXCEPT ![p] = e]
           W == WakeupAll(D, m, w)
           G == WakeupAll(E, m, w)
<1>3. e \in Frame /\ FrameOK(e) /\ SameCall(F[p], e) /\ ~Holds(e) /\ e.pc # "wait"
  <2>1. F[p] \in Frame
    BY DEF Sys, Tree
  <2>2. /\ e \in Frame /\ e.pc = "find" /\ e.kind = F[p].kind /\ e.ret = F[p].ret
        /\ e.mod = F[p].mod /\ e.addr = F[p].addr /\ e.dir = F[p].dir
    BY <2>1, WokenFrame
  <2> HIDE DEF e
  <2> QED BY <2>2 DEF FrameOK, IsAccess, IsRequest, FindAndLockOK, SameCall, Holds
<1>4. DOMAIN D = DOMAIN F /\ D[p] = e /\ \A q \in DOMAIN F : q # p => D[q] = F[q]
  OBVIOUS
<1>5. Sys(W, d1)
  <2> HIDE DEF e, D
  <2> QED BY <1>3, <1>4, Unlocks
<1>6. DOMAIN W = DOMAIN F /\ W[p] = e /\ W[s] = F[s]
  <2> HIDE DEF e, D
  <2> QED BY <1>1, <1>2, <1>3, <1>4 DEF WakeupAll
<1>7. /\ DOMAIN G = DOMAIN W \ {p} /\ G[s] = f
      /\ \A q \in DOMAIN G : q # s => G[q] = W[q]
  <2>1. DOMAIN G = DOMAIN W \ {p}
    BY <1>6 DEF WakeupAll
  <2>2. G[s] = f
    BY <1>1 DEF WakeupAll
  <2>3. \A q \in DOMAIN W \ {p} : q # s => G[q] = W[q]
    <3> HIDE DEF e
    <3> QED BY <1>4, <1>6 DEF WakeupAll
  <2> HIDE DEF G, W
  <2> QED BY <2>1, <2>2, <2>3
<1>8. Childless(W, p)
  BY <1>6 DEF Childless
<1> HIDE DEF e, D, W, G
<1>9. /\ ~Holds(W[p]) /\ p \in DOMAIN W /\ W[s].kind # "invalidate"
      /\ SameCall(W[s], f) /\ SameHold(W[s], f)
  BY <1>3, <1>6
<1>10. Sys(G, d1)
  <2> QED
    BY ONLY <1>5, <1>7, <1>8, <1>9, Returns, Len(p) > 1, s = Front(p), f \in Frame,
       FrameOK(f), f.pc # "wait"
<1> QED BY <1>10 DEF G
-----------------------------------------------------------------------------
(* What a handler does to caches and directories. *)

\* What is known of a block and its entry.
LEMMA StorageFacts ==
    ASSUME NEW c, NEW d, Storage(c, d), NEW m \in Modules, NEW w \in Ways(m)
    PROVE  /\ c[m][w] \in Block /\ d[m][w] \in Entry
           /\ c[m][w].state \in BlockStates /\ c[m][w].tag \in Tag
           /\ m = MainMemory => c[m][w].state \in {"I", "E", "M"}
           /\ d[m][w].sharers \subseteq Modules /\ d[m][w].owner \in Modules \cup {NoModule}
           /\ MainMemory \notin d[m][w].sharers /\ d[m][w].owner # MainMemory
<1>1. c[m][w] \in Block /\ d[m][w] \in Entry
  BY DEF Storage
<1>2. /\ m = MainMemory => c[m][w].state \in {"I", "E", "M"}
      /\ MainMemory \notin d[m][w].sharers /\ d[m][w].owner # MainMemory
  BY DEF Storage
<1>3. /\ c[m][w].state \in BlockStates /\ c[m][w].tag \in Tag
      /\ d[m][w].sharers \subseteq Modules /\ d[m][w].owner \in Modules \cup {NoModule}
  BY <1>1 DEF Block, Entry, Tag
<1> QED BY <1>1, <1>2, <1>3

\* An entry of the directory is set.
LEMMA SetEntry ==
    ASSUME NEW c, NEW d, Storage(c, d), NEW m \in Modules, NEW w \in Ways(m),
           NEW e \in Entry, MainMemory \notin e.sharers, e.owner # MainMemory,
           NEW d1, d1 = [d EXCEPT ![m][w] = e]
    PROVE  Storage(c, d1) /\ Relocked(d, d1, m, w, e.lock)
<1>1. DOMAIN d = Modules /\ \A n \in Modules : d[n] \in [Ways(n) -> Entry]
  BY DEF Storage
<1>2. DOMAIN d1 = Modules /\ \A n \in Modules : d1[n] \in [Ways(n) -> Entry]
  BY <1>1
<1>3. ASSUME NEW n \in Modules, NEW v \in Ways(n)
      PROVE  d1[n][v] = IF n = m /\ v = w THEN e ELSE d[n][v]
  <2>1. d[n] \in [Ways(n) -> Entry]
    BY <1>1
  <2>2. CASE n = m
    BY <1>1, <2>1, <2>2
  <2>3. CASE n # m
    BY <1>1, <2>3
  <2> QED BY <2>2, <2>3
<1>4. Storage(c, d1)
  BY <1>2, <1>3 DEF Storage
<1>5. Relocked(d, d1, m, w, e.lock)
  BY <1>3 DEF Relocked
<1> QED BY <1>4, <1>5

\* Cache::setBlock, and the transient tag.
LEMMA SetBlock ==
    ASSUME NEW c, NEW d, Storage(c, d), NEW m \in Modules, NEW w, NEW b,
           w \in Ways(m) => b \in Block /\ (m = MainMemory => b.state \in {"I", "E", "M"}),
           NEW c1, c1 = [c EXCEPT ![m][w] = b]
    PROVE  Storage(c1, d)
<1>1. DOMAIN c = Modules /\ \A n \in Modules : c[n] \in [Ways(n) -> Block]
  BY DEF Storage
<1>2. DOMAIN c1 = Modules
  BY <1>1
<1>3. ASSUME NEW n \in Modules
      PROVE  /\ c1[n] \in [Ways(n) -> Block]
             /\ \A v \in Ways(n) : c1[n][v] = IF n = m /\ v = w THEN b ELSE c[n][v]
  <2>1. c[n] \in [Ways(n) -> Block]
    BY <1>1
  <2>2. CASE n = m
    <3>1. c1[n] = [c[n] EXCEPT ![w] = b]
      BY <1>1, <2>2
    <3>2. DOMAIN c1[n] = Ways(n)
      BY <2>1, <3>1
    <3>3. \A v \in Ways(n) : c1[n][v] = IF v = w THEN b ELSE c[n][v]
      BY <2>1, <3>1
    <3>4. \A v \in Ways(n) : c1[n][v] \in Block
      BY <2>1, <2>2, <3>3
    <3>5. c1[n] = [v \in Ways(n) |-> c1[n][v]]
      BY <2>1, <3>1
    <3> QED BY <2>2, <3>2, <3>3, <3>4, <3>5
  <2>3. CASE n # m
    BY <1>1, <2>1, <2>3
  <2> QED BY <2>2, <2>3
<1>4. \A v \in Ways(MainMemory) : c1[MainMemory][v].state \in {"I", "E", "M"}
  BY <1>3, HierarchyAssumption DEF Storage
<1> QED BY <1>2, <1>3, <1>4 DEF Storage

\* setBlock keeps the types.
LEMMA SetBlockOf ==
    ASSUME Storage(cache, dir), NEW m \in Modules, NEW w, NEW t \in Tag, NEW s \in BlockStates,
           m = MainMemory => s \in {"I", "E", "M"}, setBlock(m, w, t, s)
    PROVE  Storage(cache', dir)
<1> DEFINE b == [cache[m][w] EXCEPT !.tag = t, !.state = s]
<1>1. cache' = [cache EXCEPT ![m][w] = b]
  BY DEF setBlock
<1>2. ASSUME w \in Ways(m) PROVE b \in Block /\ b.state = s
  <2>1. cache[m][w] \in Block
    BY <1>2, StorageFacts
  <2> QED BY <2>1 DEF Block, Tag
<1> HIDE DEF b
<1> QED BY <1>1, <1>2, SetBlock

\* What handlers do to an entry: unlock it, remove sharers, set the owner.
LEMMA EntryUpdates ==
    ASSUME NEW e \in Entry, NEW m \in Modules, NEW S,
           MainMemory \notin e.sharers, e.owner # MainMemory
    PROVE  /\ Unlocked(e) \in Entry /\ Unlocked(e).lock = 0
           /\ MainMemory \notin Unlocked(e).sharers /\ Unlocked(e).owner # MainMemory
           /\ Without(e, S) \in Entry /\ Without(e, S).lock = e.lock
           /\ MainMemory \notin Without(e, S).sharers /\ Without(e, S).owner # MainMemory
           /\ m # MainMemory => /\ WithOwner(e, m) \in Entry
                                /\ MainMemory \notin WithOwner(e, m).sharers
                                /\ WithOwner(e, m).owner # MainMemory
  BY HierarchyAssumption DEF Entry, Unlocked, Without, WithOwner

\* UnlockEntry unlocks.
LEMMA UnlockEntryOf ==
    ASSUME NEW c, Storage(c, dir), NEW m \in Modules, NEW w \in Ways(m), NEW F,
           NEW e \in Entry, MainMemory \notin e.sharers, e.owner # MainMemory,
           UnlockEntry(m, w, e, F)
    PROVE  /\ Storage(c, dir') /\ Relocked(dir, dir', m, w, 0)
           /\ frames' = WakeupAll(F, m, w)
<1>1. dir' = [dir EXCEPT ![m][w] = Unlocked(e)] /\ frames' = WakeupAll(F, m, w)
  BY DEF UnlockEntry
<1>2. /\ Unlocked(e) \in Entry /\ Unlocked(e).lock = 0
      /\ MainMemory \notin Unlocked(e).sharers /\ Unlocked(e).owner # MainMemory
  BY EntryUpdates, HierarchyAssumption
<1>3. Storage(c, dir') /\ Relocked(dir, dir', m, w, Unlocked(e).lock)
  BY <1>1, <1>2, SetEntry
<1> QED BY <1>1, <1>2, <1>3

\* The frames of chains that are called, and of accesses.
LEMMA NewFrameFacts ==
    ASSUME NEW kind \in Kinds, NEW ret \in Events \cup {""}, NEW m \in Modules, NEW t \in Tag,
           NEW g, g = NewFrame(kind, ret, m, t)
    PROVE  /\ g \in Frame
           /\ g.kind = kind /\ g.pc = "find" /\ g.ret = ret /\ g.mod = m /\ g.addr = t
           /\ g.target = m /\ g.dir = "none" /\ g.way = 0 /\ g.error = FALSE
           /\ g.notFound = FALSE /\ g.state = "I"
  BY HierarchyAssumption DEF NewFrame, Frame, Events, Tag, BlockStates
-----------------------------------------------------------------------------
(* The invariant, and the two ways to call other chains. *)

Lists == accesses \in [Modules -> Seq(Accesses)] /\ unsaved \subseteq Tags

Inv == Sys(frames, dir) /\ Storage(cache, dir) /\ Lists

\* What is known of a frame.
LEMMA FrameFacts ==
    ASSUME Sys(frames, dir), NEW p \in DOMAIN frames
    PROVE  /\ frames[p] \in Frame /\ FrameOK(frames[p]) /\ IsPath(p)
           /\ Len(p) = 1 <=> IsAccess(frames[p])
           /\ ~IsAccess(frames[p]) => Len(p) > 1
           /\ Holds(frames[p]) =>
                 /\ frames[p].way \in Ways(Where(frames[p])) /\ frames[p].way # 0
                 /\ dir[Where(frames[p])][frames[p].way].lock = Head(p)
           /\ Where(frames[p]) \in Modules /\ frames[p].mod \in Modules
<1>1. /\ frames[p] \in Frame /\ FrameOK(frames[p]) /\ IsPath(p)
      /\ Len(p) = 1 <=> IsAccess(frames[p])
  BY DEF Sys, Tree
<1>2. ~IsAccess(frames[p]) => Len(p) > 1
  BY <1>1, PathFacts
<1>3. Holds(frames[p]) =>
         /\ frames[p].way \in Ways(Where(frames[p]))
         /\ dir[Where(frames[p])][frames[p].way].lock = Head(p)
  BY DEF Sys, Locks
<1>4. Where(frames[p]) \in Modules /\ frames[p].mod \in Modules
  BY WherePlaces DEF Sys
<1> QED BY <1>1, <1>2, <1>3, <1>4, HierarchyAssumption DEF Ways

\* The fields that most handlers leave alone.
Like(f, g) ==
    /\ g.kind = f.kind /\ g.ret = f.ret /\ g.mod = f.mod /\ g.addr = f.addr
    /\ g.target = f.target /\ g.dir = f.dir /\ g.notFound = f.notFound

\* Frames alike work on the same entry.
LEMMA LikeFacts ==
    ASSUME NEW f, NEW g, Like(f, g)
    PROVE  /\ Where(g) = Where(f)
           /\ (IsAccess(g) <=> IsAccess(f)) /\ (IsRequest(g) <=> IsRequest(f))
           /\ f.kind # "invalidate" => SameCall(f, g)
  BY DEF Like, Where, IsAccess, IsRequest, SameCall

\* A frame that goes on with another event, and one that has called a chain.
LEMMA NextEvent ==
    ASSUME NEW f \in Frame, NEW e \in Events, NEW g, g = [f EXCEPT !.pc = e]
    PROVE  /\ g \in Frame /\ g.pc = e /\ Like(f, g) /\ g.way = f.way /\ g.tag = f.tag
           /\ g.state = f.state /\ g.error = f.error
  BY DEF Frame, Like

\* The fields of a caller that the call of a request sets.
LEMMA CallingFrame ==
    ASSUME NEW f \in Frame, NEW b \in BOOLEAN,
           NEW g, g = [f EXCEPT !.pc = "call", !.error = FALSE, !.shared = b]
    PROVE  /\ g \in Frame /\ g.pc = "call" /\ Like(f, g) /\ g.way = f.way /\ g.tag = f.tag
           /\ g.state = f.state /\ g.error = FALSE
  BY DEF Frame, Like, Events

\* Frame p goes on as f, and calls find_and_lock.
LEMMA CallsFindAndLock ==
    ASSUME Sys(frames, dir), NEW p \in DOMAIN frames, Childless(frames, p),
           NEW fr, NEW f \in Frame, f = [fr EXCEPT !.pc = "call", !.error = FALSE],
           f.pc = "call",
           FrameOK(f), SameCall(frames[p], f), SameHold(frames[p], f),
           NEW ret \in Events, NEW m \in Modules, NEW t \in Tag,
           NEW direction \in {"updown", "downup"}, NEW blocking \in BOOLEAN,
           m = Where(f),
           \/ IsAccess(f) /\ ret = "action" /\ f.way = 0 /\ t = f.addr /\ direction = "updown"
           \/ f.kind = "evict" /\ ret \in {"process", "process_noncoherent"},
           NEW G, G = CallFindAndLock(p, fr, ret, m, t, direction, blocking)
    PROVE  Sys(G, dir)
<1> DEFINE F == [frames EXCEPT ![p] = f]
<1>1. PICK g : g = [NewFrame("find_and_lock", ret, m, t) EXCEPT
                       !.dir = direction, !.blocking = blocking]
  OBVIOUS
<1>2. G = Call(F, Append(p, "find"), g)
  BY <1>1 DEF CallFindAndLock, With
<1>3. /\ g \in Frame /\ FrameOK(g) /\ ~IsAccess(g) /\ ~Holds(g) /\ g.pc # "wait"
      /\ g.kind = "find_and_lock" /\ g.ret = ret /\ g.mod = m /\ g.addr = t
      /\ g.dir = direction
  <2>1. PICK n : n = NewFrame("find_and_lock", ret, m, t)
    OBVIOUS
  <2>2. /\ n \in Frame /\ n.kind = "find_and_lock" /\ n.pc = "find" /\ n.ret = ret
        /\ n.mod = m /\ n.addr = t
    BY <2>1, HierarchyAssumption DEF NewFrame, Frame, Events, Tag, BlockStates, Kinds
  <2>3. g = [n EXCEPT !.dir = direction, !.blocking = blocking]
    BY <1>1, <2>1
  <2>4. /\ g \in Frame /\ g.kind = "find_and_lock" /\ g.pc = "find" /\ g.ret = ret
        /\ g.mod = m /\ g.addr = t /\ g.dir = direction
    BY <2>2, <2>3, ZenonT(40) DEF Frame
  <2> QED BY <2>4 DEF FrameOK, FindAndLockOK, IsAccess, IsRequest, Holds
<1>4. Sys(F, dir) /\ DOMAIN F = DOMAIN frames /\ F[p] = f /\ Childless(F, p)
  BY Goes
<1> HIDE DEF F
<1>5. CallOK(g, f)
  BY <1>3 DEF CallOK, IsAccess
<1>6. "find" \in PathNames
  BY DEF PathNames
<1> QED BY <1>2, <1>3, <1>4, <1>5, <1>6, Adds

\* The fields of a request that its call sets.
LEMMA CalledFrame ==
    ASSUME NEW request \in Frame, NEW target \in Modules,
           NEW r, r = [request EXCEPT !.pc = "call", !.target = target]
    PROVE  r \in Frame
  BY DEF Frame, Events

\* Frame p goes on as f, and calls a request, whose receiver calls find_and_lock.
LEMMA CallsRequest ==
    ASSUME Sys(frames, dir), NEW p \in DOMAIN frames, Childless(frames, p),
           NEW kind \in {"read_request", "write_request"},
           NEW direction \in {"updown", "downup"},
           NEW ret \in Events, NEW m \in Modules, NEW t \in Tag, NEW target \in Modules,
           direction = "updown" => m # MainMemory,
           direction = "downup" => target # MainMemory,
           NEW b \in BOOLEAN,
           NEW f, f = [frames[p] EXCEPT !.pc = "call", !.error = FALSE, !.shared = b],
           FrameOK(f), SameCall(frames[p], f), SameHold(frames[p], f),
           \A g : g.kind = kind /\ g.ret = ret /\ g.mod = m /\ g.dir = direction => CallOK(g, f),
           NEW request, request = [NewFrame(kind, ret, m, t) EXCEPT !.dir = direction],
           b = IF kind = "read_request" THEN FALSE ELSE frames[p].shared,
           NEW G, G = CallRequest(p, frames[p], "request", request, target)
    PROVE  Sys(G, dir)
<1>1. f \in Frame /\ f.pc = "call"
  <2>1. frames[p] \in Frame
    BY FrameFacts
  <2> QED BY <2>1, CallingFrame
<1>2. PICK r : r = [request EXCEPT !.pc = "call", !.target = target]
  OBVIOUS
<1>3. PICK g : g = [NewFrame("find_and_lock", "action", target, t) EXCEPT
                       !.dir = direction, !.blocking = Blocks(direction)]
  OBVIOUS
<1>4. /\ r \in Frame /\ FrameOK(r) /\ ~IsAccess(r) /\ ~Holds(r) /\ r.pc = "call"
      /\ r.kind = kind /\ r.ret = ret /\ r.mod = m /\ r.addr = t
      /\ r.dir = direction /\ r.way = 0 /\ r.target = target
      /\ request.kind = kind /\ request.addr = t /\ request.dir = direction
  <2>1. PICK n : n = NewFrame(kind, ret, m, t)
    OBVIOUS
  <2>2. n \in Frame
    BY <2>1, HierarchyAssumption DEF NewFrame, Frame, Events, Tag, BlockStates, Kinds
  <2>3. /\ n.kind = kind /\ n.ret = ret /\ n.mod = m /\ n.addr = t /\ n.way = 0
        /\ n.notFound = FALSE
    BY <2>1 DEF NewFrame
  <2>4. request = [n EXCEPT !.dir = direction]
    BY <2>1
  <2>5. request \in Frame
    BY <2>2, <2>4 DEF Frame
  <2>6. /\ request.kind = kind /\ request.ret = ret /\ request.mod = m
        /\ request.addr = t /\ request.dir = direction /\ request.way = 0
        /\ request.notFound = FALSE
    BY <2>2, <2>3, <2>4 DEF Frame
  <2>7. r \in Frame
    <3>1. request \in Frame /\ target \in Modules /\ r = [request EXCEPT !.pc = "call", !.target = target]
      BY <1>2, <2>5
    <3> QED BY <3>1, CalledFrame
  <2>8. /\ r.kind = kind /\ r.ret = ret /\ r.mod = m /\ r.addr = t
        /\ r.dir = direction /\ r.way = 0 /\ r.notFound = FALSE /\ r.pc = "call"
        /\ r.target = target
    BY <1>2, <2>5, <2>6 DEF Frame
  <2>9. FrameOK(r) /\ ~IsAccess(r) /\ ~Holds(r)
    BY <2>8 DEF FrameOK, RequestOK, IsAccess, IsRequest, Holds
  <2> QED BY <2>6, <2>7, <2>8, <2>9
<1> DEFINE F == [frames EXCEPT ![p] = f]
           q == Append(p, "request")
           E == Call(F, q, r)
<1>5. G = Call(E, Append(q, "find"), g)
  <2>1. f = [frames[p] EXCEPT !.pc = "call", !.error = FALSE,
                !.shared = IF request.kind = "read_request" THEN FALSE ELSE @]
    BY <1>4
  <2> QED BY <1>2, <1>3, <1>4, <2>1 DEF CallRequest, With
<1>6. /\ g \in Frame /\ FrameOK(g) /\ ~IsAccess(g) /\ ~Holds(g) /\ g.pc # "wait"
      /\ g.kind = "find_and_lock" /\ g.ret = "action" /\ g.mod = target /\ g.addr = t
      /\ g.dir = direction
  <2>1. PICK n : n = NewFrame("find_and_lock", "action", target, t)
    OBVIOUS
  <2>2. /\ n \in Frame /\ n.kind = "find_and_lock" /\ n.pc = "find" /\ n.ret = "action"
        /\ n.mod = target /\ n.addr = t
    BY <2>1, HierarchyAssumption DEF NewFrame, Frame, Events, Tag, BlockStates, Kinds
  <2>3. g = [n EXCEPT !.dir = direction, !.blocking = Blocks(direction)]
    BY <1>3, <2>1
  <2>4. /\ g \in Frame /\ g.kind = "find_and_lock" /\ g.pc = "find" /\ g.ret = "action"
        /\ g.mod = target /\ g.addr = t /\ g.dir = direction
    BY <2>2, <2>3, ZenonT(40) DEF Frame, Blocks
  <2> QED BY <2>4 DEF FrameOK, FindAndLockOK, IsAccess, IsRequest, Holds
<1>7. Sys(F, dir) /\ DOMAIN F = DOMAIN frames /\ F[p] = f /\ Childless(F, p)
  <2>1. F = [frames EXCEPT ![p] = f]
    OBVIOUS
  <2> HIDE DEF F
  <2> QED
    BY ONLY <1>1, <2>1, Goes, Sys(frames, dir), p \in DOMAIN frames, Childless(frames, p),
       FrameOK(f), SameCall(frames[p], f), SameHold(frames[p], f)
<1>8. "find" \in PathNames /\ "request" \in PathNames /\ CallOK(r, f)
  BY <1>4 DEF PathNames
<1> HIDE DEF F
<1>9. Sys(E, dir) /\ q \in DOMAIN E /\ E[q] = r /\ Childless(E, q)
  BY <1>4, <1>7, <1>8, Adds
<1> HIDE DEF E, q
<1>10. CallOK(g, r)
  BY <1>4, <1>6 DEF CallOK, Where, IsRequest
<1> QED BY <1>5, <1>6, <1>8, <1>9, <1>10, Adds
-----------------------------------------------------------------------------
(* Accesses come and go. *)

\* A set of identifiers has a least one: what Min returns in Issue.
LEMMA LeastNumber ==
    ASSUME NEW S, S \subseteq Nat, S # {}
    PROVE  \E x \in S : \A y \in S : x <= y
<1> DEFINE Below == {0..n : n \in S}
<1>1. Below \subseteq FiniteSubsetsOf(Nat)
  <2> SUFFICES ASSUME NEW n \in S PROVE 0..n \in FiniteSubsetsOf(Nat)
    OBVIOUS
  <2>1. n \in Int /\ 0 \in Int /\ 0..n \subseteq Nat
    OBVIOUS
  <2> QED BY <2>1, FS_Interval DEF FiniteSubsetsOf
<1>2. Below # {}
  OBVIOUS
<1>3. PICK t \in Below : \A u \in Below : ~(<<u, t>> \in StrictSubsetOrdering(Nat))
  <2> HIDE DEF Below
  <2> QED BY <1>1, <1>2, FS_StrictSubsetOrderingWellFounded, WFMin
<1>4. PICK x \in S : t = 0..x
  OBVIOUS
<1>5. ASSUME NEW y \in S, ~(x <= y) PROVE FALSE
  <2>1. 0..y \in Below
    OBVIOUS
  <2>2. 0..y \subseteq 0..x /\ x \in 0..x /\ x \notin 0..y
    BY <1>5
  <2>3. <<0..y, 0..x>> \in StrictSubsetOrdering(Nat)
    BY <2>2 DEF StrictSubsetOrdering
  <2> QED BY <1>3, <1>4, <2>1, <2>3
<1> QED BY <1>5

\* A new access, which has no caller.
LEMMA AccessAdded ==
    ASSUME NEW F, NEW d, Sys(F, d), NEW a \in Accesses, NEW c, c = <<a>>, c \notin DOMAIN F,
           NEW g \in Frame, FrameOK(g), IsAccess(g), ~Holds(g), g.pc # "wait"
    PROVE  Sys(Call(F, c, g), d)
<1> DEFINE G == Call(F, c, g)
<1>1. /\ IsPath(c) /\ Len(c) = 1 /\ SubSeq(c, 1, 1) = c
  <2>1. c \in Seq(PathNames) /\ Len(c) = 1 /\ c[1] = a /\ Head(c) = a
    BY DEF PathNames
  <2>2. c # <<>>
    BY <2>1
  <2>3. IsPath(c)
    BY <2>1, <2>2 DEF IsPath
  <2>4. SubSeq(c, 1, 1) = <<Head(c)>>
    BY <2>3, PathFacts
  <2> QED BY <2>1, <2>3, <2>4
<1>2. /\ DOMAIN G = DOMAIN F \cup {c} /\ G[c] = g
      /\ \A q \in DOMAIN F : G[q] = F[q]
  BY DEF Call
<1> HIDE DEF G
<1>3. ASSUME NEW q \in DOMAIN F PROVE ~Child(q, c)
  BY <1>3, ChildFacts DEF Child, Sys
<1>4. \A q \in DOMAIN G : ~Child(c, q)
  BY <1>1 DEF Child
<1>5. ~Child(c, c)
  BY <1>1 DEF Child
<1>6. ASSUME NEW q \in DOMAIN G
      PROVE  /\ IsPath(q) /\ G[q] \in Frame /\ FrameOK(G[q])
             /\ \A k \in 1..Len(q) : SubSeq(q, 1, k) \in DOMAIN G
             /\ Len(q) = 1 <=> IsAccess(G[q])
  <2>1. CASE q = c
    <3>1. \A k \in 1..Len(c) : k = 1
      BY <1>1
    <3> QED BY <1>1, <1>2, <2>1, <3>1
  <2>2. CASE q # c
    BY <1>2, <2>2 DEF Tree, Sys
  <2> QED BY <2>1, <2>2
<1>7. ASSUME NEW q \in DOMAIN G, NEW r \in DOMAIN G, Child(r, q)
      PROVE  q \in DOMAIN F /\ r \in DOMAIN F /\ CallOK(G[r], G[q])
  <2>1. q \in DOMAIN F /\ r \in DOMAIN F
    BY <1>2, <1>3, <1>4, <1>5, <1>7
  <2> QED BY <1>2, <1>7, <2>1 DEF Tree, Sys
<1>8. ASSUME NEW s \in DOMAIN G, NEW q \in DOMAIN G, NEW r \in DOMAIN G,
             Child(q, s), Child(r, s), q # r
      PROVE  G[s].kind = "invalidate"
  <2>1. s \in DOMAIN F /\ q \in DOMAIN F /\ r \in DOMAIN F
    BY <1>7, <1>8
  <2> QED BY <1>2, <1>8, <2>1 DEF Tree, Sys
<1>9. Tree(G)
  BY <1>6, <1>7, <1>8 DEF Tree
<1>10. Locks(G, d)
  BY LocksAdd DEF Sys, G
<1> QED BY <1>9, <1>10 DEF Sys, G

\* A processor issues an access.
LEMMA IssueInv ==
    ASSUME Inv, NEW kind \in {"load", "store"}, NEW m \in TopModules, NEW t \in Tags,
           Issue(kind, m, t)
    PROVE  Inv'
<1> DEFINE free == {a \in Accesses : <<a>> \notin DOMAIN frames}
           a == Min(free)
<1>1. /\ free # {} /\ UNCHANGED <<cache, dir, unsaved>>
      /\ frames' = Call(frames, <<a>>, NewAccess(kind, m, t))
      /\ accesses' = [accesses EXCEPT ![m] = Append(@, a)]
  BY DEF Issue
<1>2. a \in Accesses /\ <<a>> \notin DOMAIN frames
  <2>1. free \subseteq Nat
    BY DEF Accesses
  <2>2. \E x \in free : \A y \in free : x <= y
    <3> HIDE DEF free
    <3> QED BY <1>1, <2>1, LeastNumber
  <2>3. a \in free
    <3> HIDE DEF free
    <3> QED BY <2>2 DEF Min
  <2> HIDE DEF a
  <2> QED BY <2>3
<1> HIDE DEF a
<1>3. m \in Modules
  BY DEF TopModules
<1>4. PICK g : g = NewAccess(kind, m, t)
  OBVIOUS
<1>5. g \in Frame /\ FrameOK(g) /\ IsAccess(g) /\ ~Holds(g) /\ g.pc # "wait"
  <2>1. PICK n : n = NewFrame(kind, "", m, t)
    OBVIOUS
  <2>2. n \in Frame
    BY <1>3, <2>1, HierarchyAssumption DEF NewFrame, Frame, Events, Tag, BlockStates, Kinds
  <2>3. /\ n.kind = kind /\ n.ret = "" /\ n.addr = t /\ n.way = 0 /\ n.dir = "none"
    BY <2>1 DEF NewFrame
  <2>4. g = [n EXCEPT !.pc = "lock"]
    BY <1>4, <2>1 DEF NewAccess
  <2>5. /\ g \in Frame /\ g.kind = kind /\ g.ret = "" /\ g.addr = t /\ g.way = 0
        /\ g.dir = "none" /\ g.pc = "lock"
    BY <2>2, <2>3, <2>4 DEF Frame, Events
  <2> QED BY <2>5 DEF FrameOK, AccessOK, IsAccess, IsRequest, Holds
<1>6. Sys(frames', dir)
  BY <1>1, <1>2, <1>4, <1>5, AccessAdded DEF Inv
<1>7. Lists'
  <2>1. accesses \in [Modules -> Seq(Accesses)] /\ unsaved \subseteq Tags
    BY DEF Inv, Lists
  <2>2. Append(accesses[m], a) \in Seq(Accesses)
    BY <1>2, <1>3, <2>1
  <2> QED BY <1>1, <1>3, <2>1, <2>2 DEF Lists
<1> QED BY <1>1, <1>6, <1>7 DEF Inv

\* An access finishes, and leaves the list of its module.
LEMMA FinishInv ==
    ASSUME Inv, NEW a \in Accesses, <<a>> \in DOMAIN frames, Finish(a)
    PROVE  Inv'
<1> DEFINE p == <<a>>
<1>1. /\ frames[p].pc = "finish" /\ UNCHANGED <<cache, dir, unsaved>>
      /\ frames' = [q \in DOMAIN frames \ {p} |-> frames[q]]
  BY DEF Finish
<1>2. Len(p) = 1
  OBVIOUS
<1>3. p \in DOMAIN frames /\ Sys(frames, dir)
  BY DEF Inv
<1>4. frames[p].mod \in Modules
  <2> HIDE DEF p
  <2> QED BY <1>3, FrameFacts
<1>5. Lists'
  <2> DEFINE m == frames[p].mod
             l == accesses[m]
  <2>1. PICK i \in 1..Len(l) : accesses' = [accesses EXCEPT ![m] = RemoveAt(@, i)]
    BY DEF Finish
  <2>2. accesses \in [Modules -> Seq(Accesses)] /\ unsaved \subseteq Tags
    BY DEF Inv, Lists
  <2>3. m \in Modules
    BY <1>4
  <2> HIDE DEF m
  <2>4. l \in Seq(Accesses)
    BY <2>2, <2>3
  <2>5. RemoveAt(l, i) \in Seq(Accesses)
    <3> HIDE DEF l
    <3>1. SubSeq(l, 1, i - 1) \in Seq(Accesses) /\ SubSeq(l, i + 1, Len(l)) \in Seq(Accesses)
      BY <2>4
    <3> QED BY <3>1 DEF RemoveAt
  <2> QED BY <1>1, <2>1, <2>2, <2>3, <2>5 DEF Lists
<1> HIDE DEF p
<1>6. IsAccess(frames[p]) /\ FrameOK(frames[p])
  BY <1>2, <1>3, FrameFacts
<1>7. Childless(frames, p) /\ ~Holds(frames[p])
  <2>1. ~Holds(frames[p])
    BY <1>1, <1>6 DEF Holds, IsAccess, IsRequest
  <2>2. Childless(frames, p)
    BY <1>1, <1>3, <1>6, NoChildren DEF Sys, IsAccess
  <2> QED BY <2>1, <2>2
<1>8. Sys(frames', dir)
  <2>1. Tree(frames')
    BY <1>1, <1>3, <1>7, TreeRemove DEF Sys
  <2>2. Locks(frames', dir)
    BY <1>1, <1>3, <1>7, LocksRemove DEF Sys
  <2> QED BY <2>1, <2>2 DEF Sys
<1> QED BY <1>1, <1>5, <1>8 DEF Inv

-----------------------------------------------------------------------------
(* Accesses. *)

\* An access starts, or starts anew, and calls find_and_lock.
LEMMA AccessLockInv ==
    ASSUME Inv, NEW a \in Accesses, <<a>> \in DOMAIN frames,
           NEW kind \in {"load", "store"}, AccessLock(a, kind, "action")
    PROVE  Inv'
<1> DEFINE p == <<a>>
           fr == frames[p]
           f == [fr EXCEPT !.pc = "call", !.error = FALSE]
<1>1. /\ fr.kind = kind /\ fr.pc = "lock"
      /\ frames' = CallFindAndLock(p, fr, "action", fr.mod, fr.addr, "updown", TRUE)
      /\ UNCHANGED <<cache, dir, accesses, unsaved>>
  BY DEF AccessLock
<1>2. /\ p \in DOMAIN frames /\ fr \in Frame /\ FrameOK(fr) /\ IsAccess(fr)
      /\ Sys(frames, dir)
  BY <1>1, FrameFacts DEF Inv, IsAccess
<1> HIDE DEF p
<1>3. fr.way = 0 /\ fr.addr \in Tags /\ Childless(frames, p)
  BY <1>1, <1>2, NoChildren DEF FrameOK, AccessOK, Sys, IsAccess
<1>4. /\ f \in Frame /\ f.pc = "call" /\ Like(fr, f) /\ f.way = fr.way
  BY <1>2 DEF Frame, Like, Events
<1> HIDE DEF fr
<1>5. f = [fr EXCEPT !.pc = "call", !.error = FALSE]
  OBVIOUS
<1> HIDE DEF f
<1>6. FrameOK(f) /\ SameCall(fr, f) /\ IsAccess(f) /\ Where(f) = fr.mod /\ fr.mod \in Modules
      /\ f.addr = fr.addr /\ f.way = 0 /\ SameHold(fr, f)
  <2>1. IsAccess(f) /\ ~IsRequest(f) /\ f.kind = kind /\ f.addr = fr.addr /\ f.way = 0 /\ f.mod = fr.mod
    BY <1>1, <1>2, <1>3, <1>4 DEF Like, IsAccess, IsRequest
  <2>2. FrameOK(f)
    BY <1>2, <1>3, <1>4, <2>1 DEF Like, FrameOK, AccessOK, IsAccess, IsRequest
  <2>3. SameCall(fr, f)
    BY <1>1, <1>4, LikeFacts
  <2>4. SameHold(fr, f)
    BY <1>1, <1>3, <2>1 DEF SameHold, Holds, IsAccess, IsRequest
  <2>5. Where(f) = fr.mod /\ fr.mod \in Modules
    BY <1>2, <2>1 DEF Where, IsAccess, Frame
  <2> QED BY <2>1, <2>2, <2>3, <2>4, <2>5
<1>7. Sys(frames', dir)
  <2>1. "action" \in Events /\ "updown" \in {"updown", "downup"} /\ TRUE \in BOOLEAN /\ fr.addr \in Tag
    BY <1>3 DEF Events, Tag
  <2>2. fr = frames[p]
    BY DEF fr
  <2> QED BY <1>1, <1>2, <1>3, <1>4, <1>5, <1>6, <2>1, <2>2, CallsFindAndLock
<1> QED BY <1>1, <1>7 DEF Inv, Lists

\* An access starts anew.
LEMMA RetryFacts ==
    ASSUME NEW f \in Frame, FrameOK(f), IsAccess(f), NEW g, g = Retry(f)
    PROVE  /\ g \in Frame /\ FrameOK(g) /\ SameCall(f, g) /\ ~Holds(g) /\ g.pc = "lock"
<1>1. f.addr \in Tags /\ f.ret = "" /\ f.dir = "none"
  BY DEF FrameOK, AccessOK
<1>2. f.mod \in Modules /\ f.kind \in Kinds
  BY DEF Frame
<1>3. PICK n : n = NewFrame(f.kind, "", f.mod, f.addr)
  OBVIOUS
<1>4. n \in Frame
  BY <1>1, <1>2, <1>3, HierarchyAssumption DEF NewFrame, Frame, Events, Tag, BlockStates
<1>5. /\ n.kind = f.kind /\ n.ret = "" /\ n.mod = f.mod /\ n.addr = f.addr /\ n.way = 0
      /\ n.dir = "none"
  BY <1>3 DEF NewFrame
<1>6. g = [n EXCEPT !.pc = "lock"]
  BY <1>3 DEF Retry, NewAccess
<1>7. /\ g \in Frame /\ g.kind = f.kind /\ g.ret = "" /\ g.mod = f.mod /\ g.addr = f.addr
      /\ g.way = 0 /\ g.dir = "none" /\ g.pc = "lock"
  BY <1>4, <1>5, <1>6, ZenonT(40) DEF Frame, Events
<1>8. FrameOK(g) /\ ~Holds(g)
  BY <1>1, <1>7 DEF FrameOK, AccessOK, IsAccess, IsRequest, Holds
<1>9. SameCall(f, g)
  BY <1>1, <1>7 DEF SameCall, IsAccess
<1> QED BY <1>7, <1>8, <1>9

\* An access without a lock starts anew.
LEMMA Retries ==
    ASSUME Sys(frames, dir), NEW p \in DOMAIN frames, Childless(frames, p),
           IsAccess(frames[p]), ~Holds(frames[p]),
           NEW G, G = With(p, Retry(frames[p]))
    PROVE  Sys(G, dir)
<1>1. PICK g : g = Retry(frames[p])
  OBVIOUS
<1>2. frames[p] \in Frame /\ FrameOK(frames[p])
  BY FrameFacts
<1>3. g \in Frame /\ FrameOK(g) /\ SameCall(frames[p], g) /\ ~Holds(g) /\ g.pc = "lock"
  BY <1>1, <1>2, RetryFacts
<1>4. G = [frames EXCEPT ![p] = g]
  BY <1>1 DEF With
<1>5. SameHold(frames[p], g) /\ g.pc # "wait"
  BY <1>3 DEF SameHold
<1> QED
  BY ONLY <1>3, <1>4, <1>5, Goes, Sys(frames, dir), p \in DOMAIN frames,
     Childless(frames, p)

\* A chain without a lock returns.
LEMMA CallerGoesOn ==
    ASSUME Sys(frames, dir), NEW p \in DOMAIN frames, Len(p) > 1, Childless(frames, p),
           ~Holds(frames[p]), NEW s, s = Front(p), frames[s].kind # "invalidate",
           NEW f \in Frame, FrameOK(f), SameCall(frames[s], f), SameHold(frames[s], f),
           f.pc # "wait",
           frames' = [q \in DOMAIN frames \ {p} |-> IF q = s THEN f ELSE frames[q]]
    PROVE  Sys(frames', dir)
<1>1. s \in DOMAIN frames /\ s # p
  BY ChildFacts DEF Sys
<1>2. /\ DOMAIN frames' = DOMAIN frames \ {p} /\ frames'[s] = f
      /\ \A q \in DOMAIN frames' : q # s => frames'[q] = frames[q]
  BY <1>1
<1> QED BY <1>2, Returns, SMTT(30)

\* The entry of a frame's module or target, as it is in the directory.
LEMMA HeldEntry ==
    ASSUME Sys(frames, dir), NEW c, Storage(c, dir), NEW p \in DOMAIN frames, Holds(frames[p]),
           NEW m, m = Where(frames[p]), NEW w, w = frames[p].way
    PROVE  /\ m \in Modules /\ w \in Ways(m) /\ dir[m][w] \in Entry
           /\ MainMemory \notin dir[m][w].sharers /\ dir[m][w].owner # MainMemory
<1>1. m \in Modules /\ w \in Ways(m)
  BY FrameFacts
<1> QED BY <1>1, StorageFacts

\* An access that has done its work.
LEMMA FinishedFacts ==
    ASSUME NEW f \in Frame, FrameOK(f), IsAccess(f), NEW g, g = [f EXCEPT !.pc = "finish"]
    PROVE  g \in Frame /\ FrameOK(g) /\ SameCall(f, g) /\ ~Holds(g) /\ g.pc = "finish"
<1>1. g \in Frame /\ g.pc = "finish" /\ Like(f, g) /\ g.way = f.way /\ g.tag = f.tag
      /\ g.state = f.state
  BY DEF Frame, Like, Events
<1>2. FrameOK(g)
  BY <1>1 DEF Like, FrameOK, AccessOK, IsAccess, IsRequest, MainState, Where
<1>3. SameCall(f, g) /\ ~Holds(g)
  BY <1>1 DEF Like, IsAccess, IsRequest, SameCall, Holds
<1> QED BY <1>1, <1>2, <1>3

\* An access unlocks its entry, and finishes or starts anew.
LEMMA AccessUnlocks ==
    ASSUME Sys(frames, dir), NEW c, Storage(c, dir), NEW p \in DOMAIN frames,
           Childless(frames, p), NEW fr, fr = frames[p], IsAccess(fr), Holds(fr),
           NEW f, f = Retry(fr) \/ f = [fr EXCEPT !.pc = "finish"],
           UnlockEntry(fr.mod, fr.way, dir[fr.mod][fr.way], With(p, f))
    PROVE  Sys(frames', dir') /\ Storage(c, dir')
<1>1. fr \in Frame /\ FrameOK(fr) /\ AccessOK(fr) /\ Where(fr) = fr.mod
  BY FrameFacts DEF FrameOK, Where, IsAccess
<1>2. f \in Frame /\ FrameOK(f) /\ SameCall(fr, f) /\ ~Holds(f) /\ f.pc # "wait"
  <2>1. CASE f = Retry(fr)
    BY <1>1, <2>1, RetryFacts
  <2>2. CASE f = [fr EXCEPT !.pc = "finish"]
    BY <1>1, <2>2, FinishedFacts
  <2> QED BY <2>1, <2>2
<1> DEFINE m == fr.mod
           w == fr.way
<1>3. /\ m \in Modules /\ w \in Ways(m) /\ dir[m][w] \in Entry
      /\ MainMemory \notin dir[m][w].sharers /\ dir[m][w].owner # MainMemory
  BY <1>1, HeldEntry
<1>4. /\ Storage(c, dir') /\ Relocked(dir, dir', m, w, 0)
      /\ frames' = WakeupAll(With(p, f), m, w)
  <2> DEFINE e == dir[m][w]
  <2>1. UnlockEntry(m, w, e, With(p, f)) /\ e \in Entry /\ MainMemory \notin e.sharers
        /\ e.owner # MainMemory
    BY <1>3
  <2> HIDE DEF e, m, w
  <2> QED BY <1>3, <2>1, UnlockEntryOf
<1> DEFINE E == With(p, f)
<1>5. DOMAIN E = DOMAIN frames /\ E[p] = f /\ \A q \in DOMAIN frames : q # p => E[q] = frames[q]
  BY DEF With
<1> HIDE DEF E
<1>6. Sys(WakeupAll(E, m, w), dir')
  BY <1>1, <1>2, <1>4, <1>5, Unlocks
<1> QED BY <1>4, <1>6 DEF E

\* An access has its block.
LEMMA UnlockEvent ==
    ASSUME NEW f \in Frame, NEW g, g = [f EXCEPT !.pc = "unlock"]
    PROVE  g \in Frame /\ g.pc = "unlock" /\ Like(f, g) /\ g.way = f.way /\ g.tag = f.tag
           /\ g.state = f.state
  BY DEF Frame, Like, Events

\* An access goes on to unlock its entry.
LEMMA GoesToUnlock ==
    ASSUME Sys(frames, dir), NEW p \in DOMAIN frames, Childless(frames, p),
           NEW fr, fr = frames[p], IsAccess(fr), fr.way # 0, fr.pc # "finish",
           NEW G, G = With(p, [fr EXCEPT !.pc = "unlock"])
    PROVE  Sys(G, dir)
<1>1. PICK g : g = [fr EXCEPT !.pc = "unlock"]
  OBVIOUS
<1>2. fr \in Frame /\ FrameOK(fr)
  BY FrameFacts
<1>3. G = [frames EXCEPT ![p] = g]
  BY <1>1 DEF With
<1>4. g \in Frame /\ g.pc = "unlock" /\ Like(fr, g) /\ g.way = fr.way /\ g.tag = fr.tag
      /\ g.state = fr.state
  BY <1>1, <1>2, UnlockEvent
<1>5. FrameOK(g) /\ SameCall(fr, g) /\ SameHold(fr, g) /\ g.pc # "wait"
  BY <1>2, <1>4
     DEF Like, FrameOK, AccessOK, IsAccess, IsRequest, MainState, Where, SameCall,
         SameHold, Holds, SameLock
<1> QED BY <1>3, <1>4, <1>5, Goes

\* Hit, miss, or error of a load.
LEMMA LoadActionInv ==
    ASSUME Inv, NEW p \in DOMAIN frames, LoadAction(p)
    PROVE  Inv'
<1>1. PICK fr : fr = frames[p]
  OBVIOUS
<1>2. /\ fr.kind = "load" /\ fr.pc = "action"
      /\ UNCHANGED <<cache, dir, accesses, unsaved>>
  BY <1>1 DEF LoadAction, At
<1>3. fr \in Frame /\ FrameOK(fr) /\ Sys(frames, dir) /\ IsAccess(fr)
  BY <1>1, <1>2, FrameFacts DEF Inv, IsAccess
<1>4. Childless(frames, p) /\ AccessOK(fr)
  BY <1>1, <1>2, <1>3, NoChildren DEF FrameOK, Sys
<1>5. Sys(frames', dir)
  <2>1. CASE fr.error /\ frames' = With(p, Retry(fr))
    <3>1. ~Holds(fr)
      BY <1>2, <1>4, <2>1 DEF AccessOK, Holds, IsRequest
    <3> QED BY <1>1, <1>3, <1>4, <2>1, <3>1, Retries
  <2>2. CASE ~fr.error /\ Goto(p, "unlock")
    <3>1. fr.way # 0
      BY <1>2, <1>4, <2>2 DEF AccessOK
    <3>2. frames' = With(p, [fr EXCEPT !.pc = "unlock"])
      BY <1>1, <2>2 DEF Goto
    <3> QED BY <1>1, <1>2, <1>3, <1>4, <3>1, <3>2, GoesToUnlock
  <2>3. CASE /\ ~fr.error /\ fr.state = "I"
             /\ frames' = CallRequest(p, fr, "request",
                              UpDown("read_request", "miss", fr.mod, fr.tag), Low[fr.mod])
    <3>1. PICK g : g = [fr EXCEPT !.pc = "call", !.error = FALSE, !.shared = FALSE]
      OBVIOUS
    <3>2. g \in Frame /\ g.pc = "call" /\ Like(fr, g) /\ g.way = fr.way /\ g.tag = fr.tag
          /\ g.state = fr.state
      BY <1>3, <3>1, ZenonT(40) DEF Frame, Like, Events
    <3>3. FrameOK(g) /\ SameCall(fr, g) /\ SameHold(fr, g) /\ fr.mod # MainMemory /\ g.way # 0
      BY <1>2, <1>4, <2>3, <3>2
         DEF Like, FrameOK, AccessOK, IsAccess, IsRequest, MainState, Where, SameCall,
             SameHold, Holds, SameLock
    <3>4. PICK request : request = UpDown("read_request", "miss", fr.mod, fr.tag)
      OBVIOUS
    <3>5. request = [NewFrame("read_request", "miss", fr.mod, fr.tag) EXCEPT !.dir = "updown"]
      BY <3>4 DEF UpDown
    <3>6. /\ fr.mod \in Modules /\ fr.tag \in Tag /\ Low[fr.mod] \in Modules
          /\ "miss" \in Events
      BY <1>3, <3>3, HierarchyAssumption DEF Frame, Events
    <3>7. \A h : h.kind = "read_request" /\ h.ret = "miss" /\ h.mod = fr.mod
                    /\ h.dir = "updown" => CallOK(h, g)
      BY <1>2, <3>2, <3>3 DEF CallOK, Like, Where
    <3>8. frames' = CallRequest(p, frames[p], "request", request, Low[fr.mod])
      BY <1>1, <2>3, <3>4
    <3> QED BY <1>1, <1>3, <1>4, <3>1, <3>3, <3>5, <3>6, <3>7, <3>8, CallsRequest
  <2> QED BY <1>1, <2>1, <2>2, <2>3 DEF LoadAction
<1> QED BY <1>2, <1>5 DEF Inv, Lists

\* Hit, miss, or error of a store.
LEMMA StoreActionInv ==
    ASSUME Inv, NEW p \in DOMAIN frames, StoreAction(p)
    PROVE  Inv'
<1>1. PICK fr : fr = frames[p]
  OBVIOUS
<1>2. /\ fr.kind = "store" /\ fr.pc = "action"
      /\ UNCHANGED <<cache, dir, accesses, unsaved>>
  BY <1>1 DEF StoreAction, At
<1>3. fr \in Frame /\ FrameOK(fr) /\ Sys(frames, dir) /\ IsAccess(fr)
  BY <1>1, <1>2, FrameFacts DEF Inv, IsAccess
<1>4. Childless(frames, p) /\ AccessOK(fr)
  BY <1>1, <1>2, <1>3, NoChildren DEF FrameOK, Sys
<1>5. Sys(frames', dir)
  <2>1. CASE fr.error /\ frames' = With(p, Retry(fr))
    <3>1. ~Holds(fr)
      BY <1>2, <1>4, <2>1 DEF AccessOK, Holds, IsRequest
    <3> QED BY <1>1, <1>3, <1>4, <2>1, <3>1, Retries
  <2>2. CASE ~fr.error /\ Goto(p, "unlock")
    <3>1. fr.way # 0
      BY <1>2, <1>4, <2>2 DEF AccessOK
    <3>2. frames' = With(p, [fr EXCEPT !.pc = "unlock"])
      BY <1>1, <2>2 DEF Goto
    <3> QED BY <1>1, <1>2, <1>3, <1>4, <3>1, <3>2, GoesToUnlock
  <2>3. CASE /\ ~fr.error /\ fr.state \notin {"M", "E"}
             /\ frames' = CallRequest(p, fr, "request",
                              UpDown("write_request", "unlock", fr.mod, fr.addr), Low[fr.mod])
    <3>1. PICK b : b = fr.shared
      OBVIOUS
    <3>2. PICK g : g = [fr EXCEPT !.pc = "call", !.error = FALSE, !.shared = b]
      OBVIOUS
    <3>3. b \in BOOLEAN
      BY <1>3, <3>1 DEF Frame
    <3>4. b = IF "write_request" = "read_request" THEN FALSE ELSE frames[p].shared
      BY <1>1, <3>1
    <3>5. g \in Frame /\ g.pc = "call" /\ Like(fr, g) /\ g.way = fr.way /\ g.tag = fr.tag
          /\ g.state = fr.state
      BY <1>3, <3>2, <3>3, ZenonT(40) DEF Frame, Like, Events
    <3>6. FrameOK(g) /\ SameCall(fr, g) /\ SameHold(fr, g) /\ fr.mod # MainMemory /\ g.way # 0
      BY <1>2, <1>4, <2>3, <3>5
         DEF Like, FrameOK, AccessOK, IsAccess, IsRequest, MainState, Where, SameCall,
             SameHold, Holds, SameLock
    <3>7. PICK request : request = UpDown("write_request", "unlock", fr.mod, fr.addr)
      OBVIOUS
    <3>8. request = [NewFrame("write_request", "unlock", fr.mod, fr.addr) EXCEPT !.dir = "updown"]
      BY <3>7 DEF UpDown
    <3>9. /\ fr.mod \in Modules /\ fr.addr \in Tag /\ Low[fr.mod] \in Modules
          /\ "unlock" \in Events
      BY <1>3, <3>6, HierarchyAssumption DEF Frame, Events
    <3>10. \A h : h.kind = "write_request" /\ h.ret = "unlock" /\ h.mod = fr.mod
                    /\ h.dir = "updown" => CallOK(h, g)
      BY <1>2, <3>5, <3>6 DEF CallOK, Like, Where
    <3>11. frames' = CallRequest(p, frames[p], "request", request, Low[fr.mod])
      BY <1>1, <2>3, <3>7
    <3> QED BY <1>1, <1>3, <1>4, <3>2, <3>6, <3>8, <3>9, <3>10, <3>11, <3>3, <3>4,
            CallsRequest
  <2> QED BY <1>1, <2>1, <2>2, <2>3 DEF StoreAction
<1> QED BY <1>2, <1>5 DEF Inv, Lists

\* The read request of a load has returned.
LEMMA LoadMissInv ==
    ASSUME Inv, NEW p \in DOMAIN frames, LoadMiss(p)
    PROVE  Inv'
<1>1. PICK fr : fr = frames[p]
  OBVIOUS
<1>2. fr.kind = "load" /\ fr.pc = "miss" /\ UNCHANGED <<accesses, unsaved>>
  BY <1>1 DEF LoadMiss, At
<1>3. fr \in Frame /\ FrameOK(fr) /\ Sys(frames, dir) /\ IsAccess(fr) /\ Storage(cache, dir)
  BY <1>1, <1>2, FrameFacts DEF Inv, IsAccess
<1>4. Childless(frames, p) /\ AccessOK(fr)
  BY <1>1, <1>2, <1>3, NoChildren DEF FrameOK, Sys
<1>5. fr.way # 0 /\ Holds(fr)
  BY <1>2, <1>3, <1>4 DEF AccessOK, Holds
<1>6. Sys(frames', dir') /\ Storage(cache', dir')
  <2>1. CASE UnlockAndRetry(p) /\ UNCHANGED cache
    <3>1. UnlockEntry(fr.mod, fr.way, dir[fr.mod][fr.way], With(p, Retry(fr)))
      BY <1>1, <2>1 DEF UnlockAndRetry
    <3> QED BY <1>1, <1>3, <1>4, <1>5, <2>1, <3>1, AccessUnlocks
  <2>2. CASE /\ setBlock(fr.mod, fr.way, fr.tag, IF fr.shared THEN "S" ELSE "E")
             /\ Goto(p, "unlock") /\ UNCHANGED dir
    <3>1. PICK s : s = IF fr.shared THEN "S" ELSE "E"
      OBVIOUS
    <3>2. /\ fr.mod \in Modules /\ fr.tag \in Tag /\ s \in BlockStates
          /\ fr.mod # MainMemory /\ setBlock(fr.mod, fr.way, fr.tag, s)
      BY <1>2, <1>3, <1>4, <2>2, <3>1 DEF AccessOK, BlockStates, Frame
    <3>3. Storage(cache', dir)
      BY <1>3, <3>2, SetBlockOf
    <3>4. frames' = With(p, [fr EXCEPT !.pc = "unlock"])
      BY <1>1, <2>2 DEF Goto
    <3>5. Sys(frames', dir)
      BY <1>1, <1>2, <1>3, <1>4, <1>5, <3>4, GoesToUnlock
    <3> QED BY <2>2, <3>3, <3>5
  <2> QED BY <1>1, <2>1, <2>2 DEF LoadMiss
<1> QED BY <1>2, <1>6 DEF Inv, Lists

\* A load gives its lock back.
LEMMA LoadUnlockInv ==
    ASSUME Inv, NEW p \in DOMAIN frames, LoadUnlock(p)
    PROVE  Inv'
<1>1. PICK fr : fr = frames[p]
  OBVIOUS
<1>2. /\ fr.kind = "load" /\ fr.pc = "unlock" /\ UNCHANGED <<cache, accesses, unsaved>>
      /\ UnlockEntry(fr.mod, fr.way, dir[fr.mod][fr.way], With(p, [fr EXCEPT !.pc = "finish"]))
  BY <1>1 DEF LoadUnlock, At
<1>3. fr \in Frame /\ FrameOK(fr) /\ Sys(frames, dir) /\ IsAccess(fr) /\ Storage(cache, dir)
  BY <1>1, <1>2, FrameFacts DEF Inv, IsAccess
<1>4. Childless(frames, p) /\ AccessOK(fr)
  BY <1>1, <1>2, <1>3, NoChildren DEF FrameOK, Sys
<1>5. fr.way # 0 /\ Holds(fr)
  BY <1>2, <1>3, <1>4 DEF AccessOK, Holds
<1>6. Sys(frames', dir') /\ Storage(cache, dir')
  BY <1>1, <1>2, <1>3, <1>4, <1>5, AccessUnlocks
<1> QED BY <1>2, <1>6 DEF Inv, Lists

\* A store gives its lock back, also when its write request has failed.
LEMMA StoreUnlockInv ==
    ASSUME Inv, NEW p \in DOMAIN frames, StoreUnlock(p)
    PROVE  Inv'
<1>1. PICK fr : fr = frames[p]
  OBVIOUS
<1>2. fr.kind = "store" /\ fr.pc = "unlock" /\ UNCHANGED accesses
  BY <1>1 DEF StoreUnlock, At
<1>3. fr \in Frame /\ FrameOK(fr) /\ Sys(frames, dir) /\ IsAccess(fr) /\ Storage(cache, dir)
  BY <1>1, <1>2, FrameFacts DEF Inv, IsAccess
<1>4. Childless(frames, p) /\ AccessOK(fr)
  BY <1>1, <1>2, <1>3, NoChildren DEF FrameOK, Sys
<1>5. fr.way # 0 /\ Holds(fr) /\ fr.tag \in Tags
  BY <1>2, <1>3, <1>4 DEF AccessOK, Holds
<1>6. Sys(frames', dir') /\ Storage(cache', dir') /\ unsaved' \subseteq Tags
  <2>1. unsaved \subseteq Tags
    BY DEF Inv, Lists
  <2>2. CASE UnlockAndRetry(p) /\ UNCHANGED <<cache, unsaved>>
    <3>1. UnlockEntry(fr.mod, fr.way, dir[fr.mod][fr.way], With(p, Retry(fr)))
      BY <1>1, <2>2 DEF UnlockAndRetry
    <3>2. Sys(frames', dir') /\ Storage(cache, dir')
      BY <1>1, <1>3, <1>4, <1>5, <3>1, AccessUnlocks
    <3> QED BY <2>1, <2>2, <3>2
  <2>3. CASE /\ setBlock(fr.mod, fr.way, fr.tag, "M")
             /\ UnlockEntry(fr.mod, fr.way, dir[fr.mod][fr.way],
                            With(p, [fr EXCEPT !.pc = "finish"]))
             /\ unsaved' = unsaved \cup {fr.tag}
    <3>1. PICK s : s = "M"
      OBVIOUS
    <3>2. /\ fr.mod \in Modules /\ fr.tag \in Tag /\ s \in BlockStates
          /\ fr.mod = MainMemory => s \in {"I", "E", "M"}
          /\ setBlock(fr.mod, fr.way, fr.tag, s)
      BY <1>3, <2>3, <3>1 DEF BlockStates, Frame
    <3>3. Storage(cache', dir)
      BY <1>3, <3>2, SetBlockOf
    <3>4. Sys(frames', dir') /\ Storage(cache', dir')
      BY <1>1, <1>3, <1>4, <1>5, <2>3, <3>3, AccessUnlocks
    <3> QED BY <1>5, <2>1, <2>3, <3>4
  <2> QED BY <1>1, <2>2, <2>3 DEF StoreUnlock
<1> QED BY <1>2, <1>6 DEF Inv, Lists
-----------------------------------------------------------------------------
(* find_and_lock *)

\* Who has called a find-and-lock chain.
LEMMA FindCaller ==
    ASSUME Sys(frames, dir), NEW p \in DOMAIN frames, NEW fr, fr = frames[p],
           fr.kind = "find_and_lock", NEW s, s = Front(p), NEW g, g = frames[s]
    PROVE  /\ Len(p) > 1 /\ s \in DOMAIN frames /\ s # p /\ g \in Frame /\ FrameOK(g)
           /\ CallOK(fr, g) /\ g.pc = "call" /\ g.kind # "invalidate" /\ ~Holds(g)
           /\ IsAccess(g) \/ IsRequest(g) \/ g.kind = "evict"
           /\ g.way = 0 \/ g.kind = "evict"
           /\ Where(g) = fr.mod /\ fr.ret \in {"action", "process", "process_noncoherent"}
           /\ IsAccess(g) => fr.ret = "action" /\ fr.addr = g.addr /\ fr.dir = "updown"
           /\ IsRequest(g) => fr.ret = "action" /\ ~g.notFound
           /\ g.kind = "evict" => fr.ret # "action" /\ ~g.notFound
<1>1. ~IsAccess(fr) /\ Len(p) > 1
  BY FrameFacts DEF IsAccess
<1>2. s \in DOMAIN frames /\ s # p /\ CallOK(fr, g)
  BY <1>1, ChildFacts DEF Sys
<1>3. g \in Frame /\ FrameOK(g)
  BY <1>2, FrameFacts
<1>4. /\ fr.mod = Where(g)
      /\ \/ IsAccess(g) /\ fr.ret = "action" /\ g.way = 0 /\ fr.addr = g.addr /\ fr.dir = "updown"
         \/ IsRequest(g) /\ fr.ret = "action" /\ g.way = 0 /\ fr.dir = g.dir
         \/ g.kind = "evict" /\ fr.ret \in {"process", "process_noncoherent"}
  BY <1>2 DEF CallOK
<1>5. g.kind # "invalidate" /\ g.pc = "call"
  <2>1. g.kind # "invalidate"
    BY <1>4 DEF IsAccess, IsRequest
  <2> QED BY <1>2, <2>1 DEF CallOK
<1>6. ~Holds(g)
  BY <1>4, <1>5 DEF Holds, Processing, IsAccess, IsRequest
<1>7. /\ IsRequest(g) => ~g.notFound
      /\ g.kind = "evict" => ~g.notFound
  BY <1>3, <1>5 DEF FrameOK, RequestOK, EvictOK, Processing
<1>8. g.notFound \in BOOLEAN
  BY <1>3 DEF Frame
<1>9. /\ IsAccess(g) => ~IsRequest(g) /\ g.kind # "evict"
      /\ IsRequest(g) => g.kind # "evict"
  BY DEF IsAccess, IsRequest
<1> QED BY <1>1, <1>2, <1>3, <1>4, <1>5, <1>6, <1>7, <1>8, <1>9

\* The flags that a failed find-and-lock chain sets in its caller.
LEMMA FailedCaller ==
    ASSUME NEW g \in Frame, NEW e \in Events,
           NEW f, \/ f = [[g EXCEPT !.error = TRUE] EXCEPT !.pc = e]
                  \/ f = [[g EXCEPT !.notFound = TRUE] EXCEPT !.pc = e]
    PROVE  /\ f \in Frame /\ f.pc = e /\ f.kind = g.kind /\ f.ret = g.ret /\ f.mod = g.mod
           /\ f.addr = g.addr /\ f.target = g.target /\ f.dir = g.dir /\ f.way = g.way
           /\ f.error \/ f.notFound
           /\ f = [[g EXCEPT !.error = TRUE] EXCEPT !.pc = e] => f.error
  BY SMTT(30), ZenonT(40) DEF Frame

\* The caller goes on after a find-and-lock chain that has failed.
LEMMA FindFails ==
    ASSUME Sys(frames, dir), NEW p \in DOMAIN frames, NEW fr, fr = frames[p],
           fr.kind = "find_and_lock", NEW s, s = Front(p), NEW g, g = frames[s],
           NEW f, \/ f = [[g EXCEPT !.error = TRUE] EXCEPT !.pc = fr.ret]
                  \/ f = [[g EXCEPT !.notFound = TRUE] EXCEPT !.pc = fr.ret],
           f = [[g EXCEPT !.error = TRUE] EXCEPT !.pc = fr.ret] \/ fr.dir = "downup"
    PROVE  f \in Frame /\ FrameOK(f) /\ SameCall(g, f) /\ SameHold(g, f) /\ f.pc # "wait"
<1>1. /\ g \in Frame /\ FrameOK(g) /\ ~Holds(g)
      /\ IsAccess(g) \/ IsRequest(g) \/ g.kind = "evict"
      /\ g.way = 0 \/ g.kind = "evict"
      /\ fr.ret \in {"action", "process", "process_noncoherent"}
      /\ IsAccess(g) => fr.ret = "action" /\ fr.dir = "updown"
      /\ IsRequest(g) => fr.ret = "action"
      /\ g.kind = "evict" => fr.ret # "action"
  <2> QED BY FindCaller
<1>2. fr.ret \in Events
  BY <1>1 DEF Events
<1>3. /\ f \in Frame /\ f.pc = fr.ret /\ f.kind = g.kind /\ f.ret = g.ret /\ f.mod = g.mod
      /\ f.addr = g.addr /\ f.target = g.target /\ f.dir = g.dir /\ f.way = g.way
      /\ f.error \/ f.notFound
      /\ f.error \/ fr.dir = "downup"
  <2> DEFINE e == fr.ret
  <2>1. e \in Events
    BY <1>2
  <2> HIDE DEF e
  <2>2. \/ f = [[g EXCEPT !.error = TRUE] EXCEPT !.pc = e]
        \/ f = [[g EXCEPT !.notFound = TRUE] EXCEPT !.pc = e]
    BY DEF e
  <2>3. /\ f \in Frame /\ f.pc = e /\ f.kind = g.kind /\ f.ret = g.ret /\ f.mod = g.mod
        /\ f.addr = g.addr /\ f.target = g.target /\ f.dir = g.dir /\ f.way = g.way
        /\ f.error \/ f.notFound
        /\ f = [[g EXCEPT !.error = TRUE] EXCEPT !.pc = e] => f.error
    BY <1>1, <2>1, <2>2, FailedCaller
  <2> QED BY <2>3 DEF e
<1>4. SameCall(g, f) /\ f.pc # "wait"
  BY <1>1, <1>3 DEF SameCall, IsAccess, IsRequest
<1>5. FrameOK(f) /\ ~Holds(f)
  <2>1. CASE IsAccess(g)
    <3>1. f.way = 0 /\ f.error /\ f.pc = "action" /\ IsAccess(f) /\ ~IsRequest(f)
          /\ f.kind # "find_and_lock" /\ f.kind # "evict" /\ f.kind # "invalidate"
      BY <1>1, <1>3, <2>1 DEF IsAccess, IsRequest
    <3>2. AccessOK(f)
      BY <1>1, <1>3, <2>1, <3>1, ZenonT(40) DEF FrameOK, AccessOK
    <3> QED BY <3>1, <3>2 DEF FrameOK, Holds
  <2>2. CASE IsRequest(g)
    <3>1. f.way = 0 /\ (f.error \/ f.notFound) /\ f.pc = "action" /\ IsRequest(f) /\ ~IsAccess(f)
          /\ f.kind # "find_and_lock" /\ f.kind # "evict" /\ f.kind # "invalidate"
      BY <1>1, <1>3, <2>2 DEF IsAccess, IsRequest
    <3>2. RequestOK(f)
      BY <1>1, <1>3, <2>2, <3>1 DEF FrameOK, RequestOK
    <3> QED BY <3>1, <3>2 DEF FrameOK, Holds
  <2>3. CASE g.kind = "evict"
    <3>1. (f.error \/ f.notFound) /\ Processing(f) /\ f.kind = "evict" /\ ~IsRequest(f) /\ ~IsAccess(f)
      BY <1>1, <1>3, <2>3 DEF IsAccess, IsRequest, Processing
    <3>2. EvictOK(f)
      BY <3>1 DEF EvictOK, Processing
    <3> QED BY <3>1, <3>2 DEF FrameOK, Holds
  <2> QED BY <1>1, <2>1, <2>2, <2>3
<1> QED BY <1>1, <1>3, <1>4, <1>5 DEF SameHold

\* A find-and-lock chain at the beginning, or when it waits.
LEMMA FindsNothingHeld ==
    ASSUME Inv, NEW p \in DOMAIN frames, At(p, "find_and_lock", "find")
    PROVE  Sys(frames, dir) /\ ~Holds(frames[p]) /\ Childless(frames, p) /\ Len(p) > 1
<1>1. Sys(frames, dir) /\ frames[p].kind = "find_and_lock" /\ frames[p].pc = "find"
  BY DEF Inv, At
<1>2. ~Holds(frames[p])
  BY <1>1 DEF Holds, IsAccess, IsRequest
<1>3. Childless(frames, p)
  BY <1>1, NoChildren DEF Sys
<1>4. Len(p) > 1
  BY <1>1, FrameFacts DEF IsAccess
<1> QED BY <1>1, <1>2, <1>3, <1>4

\* A block that is not in the cache, in a request from below.
LEMMA FindAndLockNotFoundInv ==
    ASSUME Inv, NEW p \in DOMAIN frames, FindAndLockNotFound(p)
    PROVE  Inv'
<1> DEFINE fr == frames[p]
           s == Front(p)
           g == frames[s]
<1>1. /\ At(p, "find_and_lock", "find") /\ fr.dir = "downup"
      /\ frames' = Return(p, [Parent(p) EXCEPT !.notFound = TRUE])
      /\ UNCHANGED <<cache, dir, accesses, unsaved>>
  BY DEF FindAndLockNotFound
<1>2. Sys(frames, dir) /\ ~Holds(fr) /\ Childless(frames, p)
  BY <1>1, FindsNothingHeld
<1>3. PICK f : f = [[g EXCEPT !.notFound = TRUE] EXCEPT !.pc = fr.ret]
  OBVIOUS
<1>4. frames' = [q \in DOMAIN frames \ {p} |-> IF q = s THEN f ELSE frames[q]]
  BY <1>1, <1>3 DEF Return, Parent
<1>5. fr.kind = "find_and_lock"
  BY <1>1 DEF At
<1> HIDE DEF fr, s, g
<1>6. fr = frames[p] /\ s = Front(p) /\ g = frames[s]
  BY DEF fr, s, g
<1>7. f \in Frame /\ FrameOK(f) /\ SameCall(g, f) /\ SameHold(g, f) /\ f.pc # "wait"
  BY <1>1, <1>2, <1>3, <1>5, <1>6, FindFails
<1>8. g.kind # "invalidate" /\ Len(p) > 1
  BY <1>2, <1>5, <1>6, FindCaller
<1>9. Sys(frames', dir)
  <2>1. /\ SameCall(frames[s], f) /\ SameHold(frames[s], f) /\ frames[s].kind # "invalidate"
        /\ ~Holds(frames[p]) /\ s = Front(p)
    BY <1>2, <1>6, <1>7, <1>8
  <2> QED BY <1>2, <1>4, <1>7, <1>8, <2>1, CallerGoesOn
<1> QED BY <1>1, <1>9 DEF Inv, Lists

\* A lock that is taken, in a chain that does not wait.
LEMMA FindAndLockErrorInv ==
    ASSUME Inv, NEW p \in DOMAIN frames, NEW w, FindAndLockError(p, w)
    PROVE  Inv'
<1> DEFINE fr == frames[p]
           s == Front(p)
           g == frames[s]
<1>1. /\ At(p, "find_and_lock", "find")
      /\ frames' = Return(p, [Parent(p) EXCEPT !.error = TRUE])
      /\ UNCHANGED <<cache, dir, accesses, unsaved>>
  BY DEF FindAndLockError, FindsWay
<1>2. Sys(frames, dir) /\ ~Holds(fr) /\ Childless(frames, p)
  BY <1>1, FindsNothingHeld
<1>3. PICK f : f = [[g EXCEPT !.error = TRUE] EXCEPT !.pc = fr.ret]
  OBVIOUS
<1>4. frames' = [q \in DOMAIN frames \ {p} |-> IF q = s THEN f ELSE frames[q]]
  BY <1>1, <1>3 DEF Return, Parent
<1>5. fr.kind = "find_and_lock"
  BY <1>1 DEF At
<1> HIDE DEF fr, s, g
<1>6. fr = frames[p] /\ s = Front(p) /\ g = frames[s]
  BY DEF fr, s, g
<1>7. f \in Frame /\ FrameOK(f) /\ SameCall(g, f) /\ SameHold(g, f) /\ f.pc # "wait"
  BY <1>2, <1>3, <1>5, <1>6, FindFails
<1>8. g.kind # "invalidate" /\ Len(p) > 1
  BY <1>2, <1>5, <1>6, FindCaller
<1>9. Sys(frames', dir)
  <2>1. /\ SameCall(frames[s], f) /\ SameHold(frames[s], f) /\ frames[s].kind # "invalidate"
        /\ ~Holds(frames[p]) /\ s = Front(p)
    BY <1>2, <1>6, <1>7, <1>8
  <2> QED BY <1>2, <1>4, <1>7, <1>8, <2>1, CallerGoesOn
<1> QED BY <1>1, <1>9 DEF Inv, Lists

\* A lock that is taken, in a chain that waits.
LEMMA FindAndLockWaitInv ==
    ASSUME Inv, NEW p \in DOMAIN frames, NEW w \in Ways(frames[p].mod), FindAndLockWait(p, w)
    PROVE  Inv'
<1>1. PICK fr : fr = frames[p]
  OBVIOUS
<1>2. PICK f : f = [fr EXCEPT !.pc = "wait", !.way = w]
  OBVIOUS
<1>3. /\ At(p, "find_and_lock", "find") /\ isEntryLocked(fr.mod, w)
      /\ frames' = [frames EXCEPT ![p] = f]
      /\ UNCHANGED <<cache, dir, accesses, unsaved>>
  BY <1>1, <1>2 DEF FindAndLockWait, FindsWay, With
<1>4. Sys(frames, dir) /\ ~Holds(fr) /\ Childless(frames, p) /\ fr.kind = "find_and_lock"
  BY <1>1, <1>3, FindsNothingHeld DEF At
<1>5. fr \in Frame /\ w \in Nat /\ w \in Ways(fr.mod)
  BY <1>1, <1>4, FrameFacts DEF Ways
<1>6. f \in Frame /\ f.pc = "wait" /\ f.way = w /\ Like(fr, f)
  BY <1>2, <1>5 DEF Frame, Like, Events
<1>7. FrameOK(f) /\ SameCall(fr, f) /\ SameHold(fr, f) /\ f.mod = fr.mod
  <2>1. f.kind = "find_and_lock" /\ f.mod = fr.mod
    BY <1>4, <1>6 DEF Like
  <2>2. FrameOK(f) /\ ~Holds(f)
    BY <1>6, <2>1 DEF FrameOK, FindAndLockOK, IsAccess, IsRequest, Holds
  <2>3. SameCall(fr, f)
    BY <1>4, <1>6, LikeFacts
  <2> QED BY <1>4, <2>1, <2>2, <2>3 DEF SameHold
<1>8. f.pc = "wait" => f.way \in Ways(f.mod) /\ dir[f.mod][f.way].lock # 0
  BY <1>3, <1>5, <1>6, <1>7 DEF isEntryLocked
<1>9. /\ f \in Frame /\ frames' = [frames EXCEPT ![p] = f] /\ FrameOK(f)
      /\ SameCall(frames[p], f) /\ SameHold(frames[p], f)
      /\ Sys(frames, dir) /\ Childless(frames, p)
  BY <1>1, <1>3, <1>4, <1>6, <1>7
<1>10. Sys(frames', dir)
  BY <1>8, <1>9, Goes
<1> QED BY <1>3, <1>10 DEF Inv, Lists

\* A free lock is taken; after a miss the block in the way may have to go.
LEMMA FindAndLockTakeInv ==
    ASSUME Inv, NEW p \in DOMAIN frames, NEW w \in Ways(frames[p].mod), FindAndLockTake(p, w)
    PROVE  Inv'
<1>1. PICK fr : fr = frames[p]
  OBVIOUS
<1> DEFINE m == fr.mod
           s == cache[m][w].state
           h == Matches(m, fr.addr) # {}
<1>2. PICK f : f = [fr EXCEPT !.pc = "action", !.way = w, !.tag = fr.addr,
                              !.state = s, !.hit = h]
  OBVIOUS
<1>3. PICK e : e = [dir[m][w] EXCEPT !.lock = Head(p)]
  OBVIOUS
<1>4. PICK b : b = [cache[m][w] EXCEPT !.transient = fr.addr]
  OBVIOUS
<1>5. /\ At(p, "find_and_lock", "find") /\ ~isEntryLocked(m, w)
      /\ UNCHANGED <<accesses, unsaved>>
  BY <1>1 DEF FindAndLockTake, FindsWay
<1>6. frames' = [frames EXCEPT ![p] = f]
  BY <1>1, <1>2 DEF FindAndLockTake, With
<1>7. dir' = [dir EXCEPT ![m][w] = e]
  BY <1>1, <1>3 DEF FindAndLockTake
<1>8. cache' = [cache EXCEPT ![m][w] = b]
  BY <1>1, <1>4 DEF FindAndLockTake
<1>9. Sys(frames, dir) /\ ~Holds(fr) /\ Childless(frames, p) /\ fr.kind = "find_and_lock"
  BY <1>1, <1>5, FindsNothingHeld DEF At
<1>10. fr \in Frame /\ w \in Nat /\ w \in Ways(m) /\ m \in Modules /\ Storage(cache, dir)
       /\ w # 0
  <2>1. fr \in Frame /\ m \in Modules
    BY <1>1, <1>9, FrameFacts
  <2>2. NumWays[m] \in Nat /\ w \in Ways(m)
    BY <1>1, <2>1, HierarchyAssumption
  <2> QED BY <2>1, <2>2 DEF Ways, Inv
<1>11. /\ cache[m][w] \in Block /\ dir[m][w] \in Entry /\ s \in BlockStates
       /\ m = MainMemory => s \in {"I", "E", "M"}
       /\ MainMemory \notin dir[m][w].sharers /\ dir[m][w].owner # MainMemory
  BY <1>10, StorageFacts
<1>12. dir[m][w].lock = 0 /\ Head(p) \in Accesses /\ h \in BOOLEAN
  BY <1>5, <1>9, WherePlaces DEF isEntryLocked, Sys
<1> HIDE DEF m, s, h
<1>13. f \in Frame
  BY <1>2, <1>10, <1>11, <1>12 DEF Frame, Events
<1>14. f.pc = "action" /\ f.way = w /\ f.tag = fr.addr /\ f.state = s /\ Like(fr, f)
  BY <1>2, <1>10 DEF Frame, Like
<1>15. f.kind = "find_and_lock" /\ f.mod = m /\ f.addr = fr.addr /\ Where(f) = m
  BY <1>9, <1>14 DEF Like, Where, m
<1>16. FrameOK(f) /\ SameCall(fr, f) /\ Holds(f)
  <2>1. FrameOK(f) /\ Holds(f)
    BY <1>11, <1>14, <1>15 DEF FrameOK, FindAndLockOK, IsAccess, IsRequest, Holds
  <2>2. SameCall(fr, f)
    BY <1>9, <1>14, LikeFacts
  <2> QED BY <2>1, <2>2
<1>17. /\ e \in Entry /\ MainMemory \notin e.sharers /\ e.owner # MainMemory
       /\ e.lock = Head(p)
  BY <1>3, <1>11, <1>12 DEF Entry
<1>18. b \in Block /\ (m = MainMemory => b.state \in {"I", "E", "M"})
  <2>1. fr.addr \in Tag
    BY <1>10 DEF Frame
  <2> QED BY <1>4, <1>11, <2>1 DEF Block, Tag, s
<1>19. Storage(cache', dir)
  BY <1>8, <1>10, <1>18, SetBlock
<1>20. Storage(cache', dir') /\ Relocked(dir, dir', m, w, e.lock)
  BY <1>7, <1>10, <1>17, <1>19, SetEntry
<1>21. /\ f.pc # "wait" /\ f.way \in Ways(Where(f)) /\ dir[Where(f)][f.way].lock = 0
       /\ Relocked(dir, dir', Where(f), f.way, Head(p))
  BY <1>10, <1>12, <1>14, <1>15, <1>17, <1>20
<1>22. Sys(frames', dir')
  BY <1>1, <1>6, <1>9, <1>13, <1>16, <1>21, Takes
<1> QED BY <1>5, <1>20, <1>22 DEF Inv, Lists

\* The frame of an eviction that is called.
LEMMA EvictFrameFacts ==
    ASSUME NEW ret \in Events, NEW m \in Modules, NEW w \in Ways(m),
           NEW g, g = EvictFrame(ret, m, w)
    PROVE  /\ g \in Frame /\ FrameOK(g) /\ ~IsAccess(g) /\ ~Holds(g) /\ g.pc = "evict"
           /\ g.kind = "evict" /\ g.ret = ret /\ g.mod = m
<1>1. PICK n : n = NewFrame("evict", ret, m, NoTag)
  OBVIOUS
<1>2. n \in Frame
  BY <1>1, HierarchyAssumption DEF NewFrame, Frame, Events, Tag, BlockStates, Kinds
<1>3. n.kind = "evict" /\ n.ret = ret /\ n.mod = m /\ n.notFound = FALSE
  BY <1>1 DEF NewFrame
<1>4. w \in Nat
  BY HierarchyAssumption DEF Ways
<1>5. g = [n EXCEPT !.pc = "evict", !.way = w]
  BY <1>1 DEF EvictFrame
<1>6. g \in Frame
  BY <1>2, <1>4, <1>5, ZenonT(40) DEF Frame, Events
<1>7. /\ g.kind = "evict" /\ g.ret = ret /\ g.mod = m /\ ~g.notFound /\ g.pc = "evict"
      /\ g.way = w
  BY <1>2, <1>3, <1>5 DEF Frame
<1>8. FrameOK(g) /\ ~IsAccess(g) /\ ~Holds(g)
  BY <1>7 DEF FrameOK, EvictOK, Processing, IsAccess, IsRequest, Holds
<1> QED BY <1>6, <1>7, <1>8

\* The block in the way is evicted, if it is another one.
LEMMA FindAndLockActionInv ==
    ASSUME Inv, NEW p \in DOMAIN frames, FindAndLockAction(p)
    PROVE  Inv'
<1>1. PICK fr : fr = frames[p]
  OBVIOUS
<1>2. /\ fr.kind = "find_and_lock" /\ fr.pc = "action"
      /\ UNCHANGED <<cache, dir, accesses, unsaved>>
  BY <1>1 DEF FindAndLockAction, At
<1>3. fr \in Frame /\ FindAndLockOK(fr) /\ Sys(frames, dir) /\ Holds(fr)
  BY <1>1, <1>2, FrameFacts DEF Inv, FrameOK, Holds
<1>4. Childless(frames, p) /\ fr.mod \in Modules /\ fr.way \in Ways(fr.mod)
  <2>1. Childless(frames, p)
    BY <1>1, <1>2, <1>3, NoChildren DEF Sys
  <2>2. Where(fr) = fr.mod
    BY <1>2 DEF Where
  <2> QED BY <1>1, <1>3, <2>1, <2>2, FrameFacts
<1>5. Sys(frames', dir)
  <2>1. CASE frames' = Call(With(p, [fr EXCEPT !.pc = "call", !.error = FALSE, !.eviction = TRUE]),
                            Append(p, "evict"), EvictFrame("finish", fr.mod, fr.way))
    <3>1. PICK f : f = [fr EXCEPT !.pc = "call", !.error = FALSE, !.eviction = TRUE]
      OBVIOUS
    <3>2. PICK g : g = EvictFrame("finish", fr.mod, fr.way)
      OBVIOUS
    <3> DEFINE F == [frames EXCEPT ![p] = f]
    <3>3. frames' = Call(F, Append(p, "evict"), g)
      BY <2>1, <3>1, <3>2 DEF With
    <3>4. /\ f \in Frame /\ f.pc = "call" /\ Like(fr, f) /\ f.way = fr.way /\ f.tag = fr.tag
          /\ f.state = fr.state
      BY <1>3, <3>1, ZenonT(40) DEF Frame, Like, Events
    <3>5. f.kind = "find_and_lock" /\ f.mod = fr.mod /\ f.addr = fr.addr
      BY <1>2, <3>4 DEF Like
    <3>6. FrameOK(f) /\ SameCall(fr, f) /\ SameHold(fr, f)
      <4>1. FrameOK(f)
        BY <1>2, <1>3, <3>4, <3>5 DEF FrameOK, FindAndLockOK, IsAccess, IsRequest
      <4>2. SameCall(fr, f)
        BY <1>2, <3>4, LikeFacts
      <4>3. SameHold(fr, f)
        BY <1>2, <1>3, <3>4, <3>5 DEF SameHold, SameLock, Holds, Where
      <4> QED BY <4>1, <4>2, <4>3
    <3>7. Sys(F, dir) /\ DOMAIN F = DOMAIN frames /\ F[p] = f /\ Childless(F, p)
      <4>1. F = [frames EXCEPT ![p] = f] /\ f.pc # "wait"
        BY <3>4
      <4> HIDE DEF F
      <4> QED BY <1>1, <1>3, <1>4, <3>4, <3>6, <4>1, Goes
    <3> HIDE DEF F
    <3>8. /\ g \in Frame /\ FrameOK(g) /\ ~IsAccess(g) /\ ~Holds(g) /\ g.pc = "evict"
          /\ g.kind = "evict" /\ g.ret = "finish" /\ g.mod = fr.mod
      <4>1. "finish" \in Events
        BY DEF Events
      <4> QED BY <1>4, <3>2, <4>1, EvictFrameFacts
    <3>9. CallOK(g, f) /\ "evict" \in PathNames /\ g.pc # "wait"
      BY <3>4, <3>5, <3>8 DEF CallOK, PathNames
    <3> QED BY <3>3, <3>7, <3>8, <3>9, Adds
  <2>2. CASE Goto(p, "finish")
    <3>1. PICK f : f = [fr EXCEPT !.pc = "finish"]
      OBVIOUS
    <3>2. frames' = [frames EXCEPT ![p] = f]
      BY <1>1, <2>2, <3>1 DEF Goto, With
    <3>3. /\ f \in Frame /\ f.pc = "finish" /\ Like(fr, f) /\ f.way = fr.way /\ f.tag = fr.tag
          /\ f.state = fr.state
      BY <1>3, <3>1 DEF Frame, Like, Events
    <3>4. f.kind = "find_and_lock" /\ f.mod = fr.mod /\ f.addr = fr.addr
      BY <1>2, <3>3 DEF Like
    <3>5. FrameOK(f) /\ SameCall(fr, f) /\ SameHold(fr, f)
      <4>1. FrameOK(f)
        BY <1>2, <1>3, <3>3, <3>4 DEF FrameOK, FindAndLockOK, IsAccess, IsRequest
      <4>2. SameCall(fr, f)
        BY <1>2, <3>3, LikeFacts
      <4>3. SameHold(fr, f)
        BY <1>2, <1>3, <3>3, <3>4 DEF SameHold, SameLock, Holds, Where
      <4> QED BY <4>1, <4>2, <4>3
    <3> QED BY <1>1, <1>3, <1>4, <3>2, <3>3, <3>5, Goes
  <2> QED BY <1>1, <2>1, <2>2 DEF FindAndLockAction
<1> QED BY <1>2, <1>5 DEF Inv, Lists

\* After a failed eviction the lock goes back.
LEMMA FindAndLockFailedInv ==
    ASSUME Inv, NEW p \in DOMAIN frames, FindAndLockFailed(p)
    PROVE  Inv'
<1> DEFINE fr == frames[p]
           s == Front(p)
           g == frames[s]
           m == fr.mod
           w == fr.way
           e == dir[m][w]
           E == Return(p, [g EXCEPT !.error = TRUE])
<1>1. /\ fr.kind = "find_and_lock" /\ fr.pc = "finish"
      /\ UNCHANGED <<cache, accesses, unsaved>>
      /\ UnlockEntry(m, w, e, E)
  BY DEF FindAndLockFailed, At, Parent
<1>2. PICK f : f = [[g EXCEPT !.error = TRUE] EXCEPT !.pc = fr.ret]
  OBVIOUS
<1>3. E = [q \in DOMAIN frames \ {p} |-> IF q = s THEN f ELSE frames[q]]
  BY <1>2 DEF Return
<1>4. fr = frames[p] /\ s = Front(p) /\ g = frames[s] /\ m = fr.mod /\ w = fr.way /\ e = dir[m][w]
  OBVIOUS
<1> HIDE DEF fr, s, g, m, w, e, E
<1>5. Sys(frames, dir) /\ Storage(cache, dir) /\ Holds(fr)
  BY <1>1 DEF Inv, Holds
<1>6. Childless(frames, p) /\ Where(fr) = m
  BY <1>1, <1>4, <1>5, NoChildren DEF Sys, Where
<1>7. /\ m \in Modules /\ w \in Ways(m) /\ e \in Entry
      /\ MainMemory \notin e.sharers /\ e.owner # MainMemory
  BY <1>4, <1>5, <1>6, HeldEntry
<1>8. Storage(cache, dir') /\ Relocked(dir, dir', m, w, 0) /\ frames' = WakeupAll(E, m, w)
  BY <1>1, <1>5, <1>7, UnlockEntryOf
<1>9. f \in Frame /\ FrameOK(f) /\ SameCall(g, f) /\ SameHold(g, f) /\ f.pc # "wait"
  BY <1>1, <1>2, <1>4, <1>5, FindFails
<1>10. g.kind # "invalidate" /\ Len(p) > 1
  BY <1>1, <1>4, <1>5, FindCaller
<1>11. Sys(frames', dir')
  <2>1. /\ SameCall(frames[s], f) /\ SameHold(frames[s], f) /\ frames[s].kind # "invalidate"
        /\ Holds(frames[p]) /\ frames[p].kind = "find_and_lock" /\ s = Front(p)
        /\ m = Where(frames[p]) /\ w = frames[p].way
    BY <1>1, <1>4, <1>5, <1>6, <1>9, <1>10
  <2>2. s \in DOMAIN frames /\ s # p
    BY <1>1, <1>4, <1>5, FindCaller
  <2>3. /\ DOMAIN E = DOMAIN frames \ {p} /\ E[s] = f
        /\ \A q \in DOMAIN E : q # s => E[q] = frames[q]
    BY <1>3, <2>2
  <2> QED BY <1>5, <1>6, <1>8, <1>9, <1>10, <2>1, <2>3, UnlocksAndReturns
<1> QED BY <1>1, <1>8, <1>11 DEF Inv, Lists

\* find_and_lock leaves its lock to its caller.
LEMMA CallerGetsLock ==
    ASSUME Sys(frames, dir), NEW p \in DOMAIN frames, Len(p) > 1, Childless(frames, p),
           Holds(frames[p]), NEW s, s = Front(p), frames[s].kind # "invalidate",
           ~Holds(frames[s]),
           NEW f \in Frame, FrameOK(f), SameCall(frames[s], f), Holds(f),
           SameLock(f, frames[p]), f.pc # "wait",
           frames' = [q \in DOMAIN frames \ {p} |-> IF q = s THEN f ELSE frames[q]]
    PROVE  Sys(frames', dir)
<1>1. s \in DOMAIN frames /\ s # p
  BY ChildFacts DEF Sys
<1>2. PICK G : G = frames'
  OBVIOUS
<1>3. /\ DOMAIN G = DOMAIN frames \ {p} /\ G[s] = f
      /\ \A q \in DOMAIN G : q # s => G[q] = frames[q]
  BY <1>1, <1>2
<1>4. Sys(G, dir)
  BY <1>3, Passes
<1> QED BY <1>2, <1>4

\* The chain returns with its lock.
LEMMA FindAndLockFinishInv ==
    ASSUME Inv, NEW p \in DOMAIN frames, FindAndLockFinish(p)
    PROVE  Inv'
<1> DEFINE fr == frames[p]
           s == Front(p)
           g == frames[s]
           m == fr.mod
           w == fr.way
           t == fr.tag
           e == fr.ret
           state == IF fr.eviction THEN cache[m][w].state ELSE fr.state
           b == IF m = MainMemory /\ state = "I" THEN "E" ELSE state
<1>1. /\ fr.kind = "find_and_lock" /\ fr.pc = "finish"
      /\ UNCHANGED <<dir, accesses, unsaved>>
  BY DEF FindAndLockFinish, At
<1>2. \/ setBlock(m, w, t, b)
      \/ setBlock(m, w, NoTag, "I")
      \/ UNCHANGED cache
  BY DEF FindAndLockFinish
<1>3. PICK f : f = [[g EXCEPT !.error = FALSE, !.way = w, !.state = b, !.tag = t] EXCEPT !.pc = e]
  OBVIOUS
<1>4. frames' = [q \in DOMAIN frames \ {p} |-> IF q = s THEN f ELSE frames[q]]
  BY <1>3 DEF FindAndLockFinish, Return, Parent
<1>5. /\ fr = frames[p] /\ s = Front(p) /\ g = frames[s] /\ m = fr.mod /\ w = fr.way
      /\ t = fr.tag /\ e = fr.ret
  OBVIOUS
<1>6. fr \in Frame /\ FindAndLockOK(fr) /\ Sys(frames, dir) /\ Holds(fr) /\ Storage(cache, dir)
  BY <1>1, FrameFacts DEF Inv, FrameOK, Holds
<1>7. /\ m \in Modules /\ w \in Ways(m) /\ w \in Nat /\ w # 0 /\ t \in Tag /\ t = fr.addr
      /\ Where(fr) = m
  <2>1. Where(fr) = m
    BY <1>1 DEF Where
  <2>2. m \in Modules /\ w \in Ways(m) /\ w # 0
    BY <1>6, <2>1, FrameFacts
  <2> QED BY <1>1, <1>6, <2>1, <2>2 DEF Frame, FindAndLockOK
<1>8. b \in BlockStates /\ (m = MainMemory => b \in {"E", "M"})
  <2>1. cache[m][w].state \in BlockStates /\ (m = MainMemory => cache[m][w].state \in {"I", "E", "M"})
    BY <1>6, <1>7, StorageFacts
  <2>2. fr.state \in BlockStates /\ (m = MainMemory => fr.state \in {"I", "E", "M"})
    BY <1>1, <1>6 DEF Frame, FindAndLockOK
  <2>3. state \in BlockStates /\ (m = MainMemory => state \in {"I", "E", "M"})
    BY <2>1, <2>2
  <2> HIDE DEF state
  <2> QED BY <2>3 DEF BlockStates
<1> HIDE DEF fr, s, g, m, w, t, e, state, b
<1>9. Storage(cache', dir)
  <2>1. CASE setBlock(m, w, t, b)
    <3>1. m = MainMemory => b \in {"I", "E", "M"}
      BY <1>8
    <3> QED BY <1>6, <1>7, <1>8, <2>1, <3>1, SetBlockOf
  <2>2. CASE setBlock(m, w, NoTag, "I")
    <3>1. PICK u : u = "I"
      OBVIOUS
    <3>2. NoTag \in Tag /\ u \in BlockStates /\ (m = MainMemory => u \in {"I", "E", "M"})
          /\ setBlock(m, w, NoTag, u)
      BY <2>2, <3>1 DEF Tag, BlockStates
    <3> QED BY <1>6, <1>7, <3>2, SetBlockOf
  <2>3. CASE UNCHANGED cache
    BY <1>6, <2>3
  <2> QED BY <1>2, <2>1, <2>2, <2>3
<1>10. /\ Len(p) > 1 /\ g \in Frame /\ FrameOK(g) /\ g.kind # "invalidate" /\ ~Holds(g)
       /\ IsAccess(g) \/ IsRequest(g) \/ g.kind = "evict"
       /\ Where(g) = m /\ e \in {"action", "process", "process_noncoherent"}
       /\ IsAccess(g) => e = "action" /\ t = g.addr
       /\ IsRequest(g) => e = "action" /\ ~g.notFound
       /\ g.kind = "evict" => e # "action" /\ ~g.notFound
  BY <1>1, <1>5, <1>6, <1>7, FindCaller
<1>11. e \in Events /\ g \in Frame /\ w \in Nat /\ b \in BlockStates /\ t \in Tag
  BY <1>7, <1>8, <1>10 DEF Events
<1>12. /\ f \in Frame /\ f.pc = e /\ Like(g, f) /\ f.way = w /\ f.state = b /\ f.tag = t
       /\ ~f.error
  BY <1>3, <1>11 DEF Frame, Like
<1>13. SameCall(g, f) /\ Where(f) = m /\ SameLock(f, fr) /\ f.pc # "wait" /\ MainState(f)
  <2>1. SameCall(g, f) /\ Where(f) = m
    BY <1>10, <1>12, LikeFacts
  <2> QED BY <1>5, <1>7, <1>8, <1>10, <1>12, <2>1 DEF SameLock, MainState
<1>14. FrameOK(f) /\ Holds(f)
  <2>1. CASE IsAccess(g)
    <3>1. /\ f.way # 0 /\ ~f.error /\ f.pc = "action" /\ IsAccess(f) /\ ~IsRequest(f)
          /\ f.kind # "find_and_lock" /\ f.kind # "evict" /\ f.kind # "invalidate"
          /\ f.tag = f.addr /\ f.addr = g.addr /\ f.ret = g.ret /\ f.dir = g.dir
      BY <1>7, <1>10, <1>12, <2>1 DEF IsAccess, IsRequest, Like
    <3>2. AccessOK(f)
      BY <1>10, <1>13, <2>1, <3>1 DEF FrameOK, AccessOK
    <3> QED BY <3>1, <3>2 DEF FrameOK, Holds
  <2>2. CASE IsRequest(g)
    <3>1. /\ f.way # 0 /\ ~f.error /\ f.pc = "action" /\ IsRequest(f) /\ ~IsAccess(f)
          /\ f.kind # "find_and_lock" /\ f.kind # "evict" /\ f.kind # "invalidate"
          /\ ~f.notFound /\ f.dir = g.dir /\ f.mod = g.mod /\ f.target = g.target
          /\ f.kind = g.kind
      BY <1>7, <1>10, <1>12, <2>2 DEF IsAccess, IsRequest, Like
    <3>2. RequestOK(f)
      BY <1>10, <1>13, <2>2, <3>1 DEF FrameOK, RequestOK
    <3> QED BY <3>1, <3>2 DEF FrameOK, Holds
  <2>3. CASE g.kind = "evict"
    <3>1. /\ ~f.error /\ ~f.notFound /\ Processing(f) /\ f.kind = "evict" /\ ~IsRequest(f)
          /\ ~IsAccess(f)
      BY <1>10, <1>12, <2>3 DEF IsAccess, IsRequest, Processing, Like
    <3>2. EvictOK(f)
      BY <1>13, <3>1 DEF EvictOK, Processing
    <3> QED BY <3>1, <3>2 DEF FrameOK, Holds
  <2> QED BY <1>10, <2>1, <2>2, <2>3
<1>15. Sys(frames', dir)
  <2>1. Childless(frames, p)
    BY <1>1, <1>5, <1>6, NoChildren DEF Sys
  <2>2. /\ Holds(frames[p]) /\ frames[s].kind # "invalidate" /\ ~Holds(frames[s]) /\ s = Front(p)
        /\ SameCall(frames[s], f) /\ SameLock(f, frames[p]) /\ Len(p) > 1
    BY <1>5, <1>6, <1>10, <1>13
  <2>3. f \in Frame /\ FrameOK(f) /\ Holds(f) /\ f.pc # "wait" /\ Sys(frames, dir)
    BY <1>6, <1>12, <1>13, <1>14
  <2> QED BY <1>4, <2>1, <2>2, <2>3, CallerGetsLock
<1> QED BY <1>1, <1>9, <1>15 DEF Inv, Lists
-----------------------------------------------------------------------------
(* invalidate *)

\* A directory entry changes, but not its lock.
LEMMA SameLocks ==
    ASSUME NEW F, NEW d, Sys(F, d), NEW m, NEW w, NEW d1, Relocked(d, d1, m, w, d[m][w].lock)
    PROVE  Sys(F, d1)
<1>1. \A n \in Modules : \A v \in Ways(n) : d1[n][v].lock = d[n][v].lock
  BY DEF Relocked
<1>2. \A q \in DOMAIN F : Where(F[q]) \in Modules /\ F[q].mod \in Modules
  BY WherePlaces DEF Sys
<1>3. \A q \in DOMAIN F :
         Holds(F[q]) => /\ F[q].way \in Ways(Where(F[q]))
                        /\ d1[Where(F[q])][F[q].way].lock = Head(q)
  BY <1>1, <1>2 DEF Sys, Locks
<1>4. \A q \in DOMAIN F :
         F[q].pc = "wait" => F[q].way \in Ways(F[q].mod) /\ d1[F[q].mod][F[q].way].lock # 0
  BY <1>1, <1>2 DEF Sys, Locks
<1>5. \A n \in Modules : \A v \in Ways(n) :
         d1[n][v].lock # 0 =>
            \E q \in DOMAIN F : Holds(F[q]) /\ Where(F[q]) = n /\ F[q].way = v
  BY <1>1 DEF Sys, Locks
<1> QED BY <1>3, <1>4, <1>5 DEF Sys, Locks

\* Who has called an invalidation, and how it goes on afterwards.
LEMMA InvalidateCaller ==
    ASSUME Sys(frames, dir), NEW p \in DOMAIN frames, NEW fr, fr = frames[p],
           fr.kind = "invalidate", NEW s, s = Front(p), NEW g, g = frames[s],
           NEW f, f = [g EXCEPT !.pc = fr.ret]
    PROVE  /\ Len(p) > 1 /\ s \in DOMAIN frames /\ s # p /\ g.kind # "invalidate"
           /\ f \in Frame /\ FrameOK(f) /\ SameCall(g, f) /\ SameHold(g, f) /\ f.pc # "wait"
<1>1. ~IsAccess(fr) /\ Len(p) > 1
  BY FrameFacts DEF IsAccess
<1>2. s \in DOMAIN frames /\ s # p /\ CallOK(fr, g)
  BY <1>1, ChildFacts DEF Sys
<1>3. g \in Frame /\ FrameOK(g)
  BY <1>2, FrameFacts
<1>4. \/ g.kind = "evict" /\ fr.ret = "invalid" /\ fr.mod = g.mod /\ fr.way = g.way
      \/ g.kind = "write_request" /\ fr.ret = "exclusive" /\ g.way # 0
  BY <1>2 DEF CallOK
<1>5. fr.way \in Ways(fr.mod) /\ g.pc = "call"
  <2>1. fr.way \in Ways(fr.mod)
    BY FrameFacts DEF FrameOK, InvalidateOK
  <2>2. g.kind # "invalidate"
    BY <1>4
  <2> QED BY <1>2, <2>1, <2>2 DEF CallOK
<1>6. f \in Frame /\ f.pc = fr.ret /\ Like(g, f) /\ f.way = g.way /\ f.state = g.state
  <2> DEFINE e == fr.ret
  <2>1. e \in Events /\ f = [g EXCEPT !.pc = e]
    BY <1>4 DEF Events
  <2> HIDE DEF e
  <2>2. f \in Frame /\ f.pc = e /\ Like(g, f) /\ f.way = g.way /\ f.state = g.state
    <3>1. g \in Frame
      BY <1>3
    <3> QED BY ONLY <2>1, <3>1, NextEvent
  <2> QED BY <2>2 DEF e
<1>7. SameCall(g, f) /\ f.pc # "wait" /\ g.kind # "invalidate"
  <2>1. g.kind # "invalidate" /\ f.pc # "wait"
    BY <1>4, <1>6
  <2> QED BY <1>6, <2>1, LikeFacts
<1>8. FrameOK(f) /\ SameHold(g, f)
  <2>1. CASE g.kind = "evict"
    <3>1. /\ f.kind = "evict" /\ ~IsRequest(f) /\ ~IsAccess(f) /\ f.pc = "invalid"
          /\ f.mod = g.mod /\ f.notFound = g.notFound /\ ~IsRequest(g) /\ ~IsAccess(g)
      BY <1>4, <1>6, <2>1 DEF Like, IsRequest, IsAccess
    <3>2. EvictOK(f)
      BY <1>3, <1>4, <1>5, <1>6, <2>1, <3>1 DEF FrameOK, EvictOK, Processing
    <3>3. ~Holds(g) /\ ~Holds(f)
      BY <1>5, <2>1, <3>1 DEF Holds, Processing
    <3> QED BY <3>1, <3>2, <3>3 DEF FrameOK, SameHold
  <2>2. CASE g.kind = "write_request"
    <3>1. /\ f.kind = "write_request" /\ IsRequest(f) /\ ~IsAccess(f) /\ f.pc = "exclusive"
          /\ f.mod = g.mod /\ f.notFound = g.notFound /\ f.target = g.target
          /\ IsRequest(g) /\ ~IsAccess(g) /\ f.way # 0 /\ g.way # 0 /\ f.dir = g.dir
      BY <1>4, <1>6, <2>2 DEF Like, IsRequest, IsAccess
    <3>2. RequestOK(f)
      BY <1>3, <1>5, <1>6, <2>2, <3>1 DEF FrameOK, RequestOK, MainState, Where
    <3>3. Holds(g) /\ Holds(f) /\ SameLock(g, f)
      BY <1>5, <1>6, <2>2, <3>1 DEF Holds, SameLock, Where
    <3> QED BY <3>1, <3>2, <3>3 DEF FrameOK, SameHold
  <2> QED BY <1>4, <2>1, <2>2
<1> QED BY <1>1, <1>2, <1>6, <1>7, <1>8

\* An invalidation sends a request to each of several sharers.
LEMMA TreeAddMany ==
    ASSUME NEW F, Tree(F), NEW p \in DOMAIN F, Childless(F, p), F[p].kind = "invalidate",
           NEW S, S \subseteq Modules,
           NEW G, DOMAIN G = DOMAIN F \cup {Append(p, i) : i \in S}
                               \cup {Append(Append(p, i), "find") : i \in S},
           \A q \in DOMAIN F : G[q] = F[q],
           \A i \in S :
              /\ G[Append(p, i)] \in Frame /\ FrameOK(G[Append(p, i)])
              /\ ~IsAccess(G[Append(p, i)]) /\ CallOK(G[Append(p, i)], F[p])
              /\ G[Append(Append(p, i), "find")] \in Frame
              /\ FrameOK(G[Append(Append(p, i), "find")])
              /\ ~IsAccess(G[Append(Append(p, i), "find")])
              /\ CallOK(G[Append(Append(p, i), "find")], G[Append(p, i)])
    PROVE  /\ Tree(G)
           /\ \A q \in DOMAIN G \ DOMAIN F :
                 \E i \in S : q = Append(p, i) \/ q = Append(Append(p, i), "find")
<1> DEFINE A(i) == Append(p, i)
           B(i) == Append(A(i), "find")
<1>1. IsPath(p) /\ Len(p) \in Nat /\ \A k \in 1..Len(p) : SubSeq(p, 1, k) \in DOMAIN F
  BY PathFacts DEF Tree
<1>2. ASSUME NEW i \in S
      PROVE  /\ IsPath(A(i)) /\ Len(A(i)) = Len(p) + 1 /\ Len(A(i)) > 1 /\ Front(A(i)) = p
             /\ \A k \in 1..Len(p) : SubSeq(A(i), 1, k) = SubSeq(p, 1, k)
             /\ SubSeq(A(i), 1, Len(p) + 1) = A(i)
             /\ A(i) \notin DOMAIN F
  <2>1. i \in PathNames
    BY DEF PathNames
  <2> QED BY <1>1, <2>1, AppendFacts, AppendNew
<1> HIDE DEF A
<1>3. ASSUME NEW i \in S
      PROVE  /\ IsPath(B(i)) /\ Len(B(i)) = Len(p) + 2 /\ Len(B(i)) > 1 /\ Front(B(i)) = A(i)
             /\ \A k \in 1..Len(A(i)) : SubSeq(B(i), 1, k) = SubSeq(A(i), 1, k)
             /\ SubSeq(B(i), 1, Len(p) + 2) = B(i)
             /\ B(i) \notin DOMAIN F
  <2>1. "find" \in PathNames
    BY DEF PathNames
  <2>2. /\ IsPath(B(i)) /\ Len(B(i)) = Len(A(i)) + 1 /\ Len(B(i)) > 1 /\ Front(B(i)) = A(i)
        /\ \A k \in 1..Len(A(i)) : SubSeq(B(i), 1, k) = SubSeq(A(i), 1, k)
        /\ SubSeq(B(i), 1, Len(A(i)) + 1) = B(i)
    BY <1>2, <2>1, AppendFacts
  <2>3. Len(A(i)) = Len(p) + 1
    BY <1>2
  <2>4. B(i) \notin DOMAIN F
    <3> HIDE DEF B
    <3> QED BY <1>2, <2>2, ChildFacts
  <2>5. Len(A(i)) + 1 = Len(p) + 2
    BY <1>1, <2>3
  <2> HIDE DEF B
  <2> QED BY <2>2, <2>4, <2>5
<1> DEFINE As == {A(i) : i \in S}
           Bs == {B(i) : i \in S}
<1>4. DOMAIN G = DOMAIN F \cup As \cup Bs
  BY DEF A
<1>5. ASSUME NEW i \in S
      PROVE  /\ G[A(i)] \in Frame /\ FrameOK(G[A(i)]) /\ ~IsAccess(G[A(i)]) /\ CallOK(G[A(i)], F[p])
             /\ G[B(i)] \in Frame /\ FrameOK(G[B(i)]) /\ ~IsAccess(G[B(i)])
             /\ CallOK(G[B(i)], G[A(i)])
  BY DEF A
<1> HIDE DEF B
<1>6. ASSUME NEW q \in DOMAIN G
      PROVE  /\ IsPath(q) /\ G[q] \in Frame /\ FrameOK(G[q])
             /\ Len(q) = 1 <=> IsAccess(G[q])
  <2>1. CASE q \in DOMAIN F
    BY <2>1 DEF Tree
  <2>2. ASSUME NEW i \in S, q = A(i)
        PROVE  /\ IsPath(q) /\ G[q] \in Frame /\ FrameOK(G[q])
               /\ Len(q) = 1 <=> IsAccess(G[q])
    <3>1. Len(A(i)) # 1
      BY <1>1, <1>2
    <3> QED BY <1>2, <1>5, <2>2, <3>1
  <2>3. ASSUME NEW i \in S, q = B(i)
        PROVE  /\ IsPath(q) /\ G[q] \in Frame /\ FrameOK(G[q])
               /\ Len(q) = 1 <=> IsAccess(G[q])
    <3>1. Len(B(i)) # 1
      BY <1>1, <1>3
    <3> QED BY <1>3, <1>5, <2>3, <3>1
  <2> QED BY <1>4, <2>1, <2>2, <2>3
<1>7. ASSUME NEW q \in DOMAIN G, NEW k \in 1..Len(q)
      PROVE  SubSeq(q, 1, k) \in DOMAIN G
  <2>1. CASE q \in DOMAIN F
    BY <1>4, <2>1 DEF Tree
  <2>2. ASSUME NEW i \in S, NEW j \in 1..Len(A(i)) PROVE SubSeq(A(i), 1, j) \in DOMAIN G
    <3>1. j \in 1..Len(p) \/ j = Len(p) + 1
      BY <1>1, <1>2
    <3> QED BY <1>1, <1>2, <1>4, <3>1
  <2>3. ASSUME NEW i \in S, NEW j \in 1..Len(B(i)) PROVE SubSeq(B(i), 1, j) \in DOMAIN G
    <3>1. j \in 1..Len(A(i)) \/ j = Len(p) + 2
      BY <1>1, <1>2, <1>3
    <3> QED BY <1>3, <1>4, <2>2, <3>1, ZenonT(40)
  <2> QED BY <1>4, <2>1, <2>2, <2>3
<1>8. ASSUME NEW q \in DOMAIN G, NEW r \in DOMAIN G, Child(r, q)
      PROVE  \/ r \in DOMAIN F /\ q \in DOMAIN F /\ q # p
             \/ q = p /\ \E i \in S : r = A(i)
             \/ \E i \in S : r = B(i) /\ q = A(i)
  <2>1. CASE r \in DOMAIN F
    BY <1>8, <2>1, ChildFacts DEF Child, Childless
  <2>2. ASSUME NEW i \in S, r = A(i) PROVE q = p
    BY <1>2, <1>8, <2>2 DEF Child
  <2>3. ASSUME NEW i \in S, r = B(i) PROVE q = A(i)
    BY <1>3, <1>8, <2>3 DEF Child
  <2> QED BY <1>4, <2>1, <2>2, <2>3
<1>9. ASSUME NEW q \in DOMAIN G, NEW r \in DOMAIN G, Child(r, q)
      PROVE  CallOK(G[r], G[q])
  BY <1>5, <1>8, <1>9 DEF Tree
<1>10. ASSUME NEW s \in DOMAIN G, NEW q \in DOMAIN G, NEW r \in DOMAIN G,
              Child(q, s), Child(r, s), q # r
       PROVE  G[s].kind = "invalidate"
  <2>1. CASE s = p
    BY <2>1
  <2>2. CASE s \in DOMAIN F /\ s # p
    <3>1. q \in DOMAIN F /\ r \in DOMAIN F
      BY <1>2, <1>8, <1>10, <2>2
    <3> QED BY <1>10, <2>2, <3>1 DEF Tree
  <2>3. CASE s \notin DOMAIN F
    <3>1. PICK i \in S : q = B(i) /\ s = A(i)
      BY <1>8, <1>10, <2>3
    <3>2. PICK j \in S : r = B(j) /\ s = A(j)
      BY <1>8, <1>10, <2>3
    <3>3. B(i) = B(j)
      BY <3>1, <3>2 DEF B
    <3> QED BY <1>10, <3>1, <3>2, <3>3
  <2> QED BY <2>1, <2>2, <2>3
<1>11. Tree(G)
  BY <1>6, <1>7, <1>9, <1>10 DEF Tree
<1>12. \A q \in DOMAIN G \ DOMAIN F : \E i \in S : q = A(i) \/ q = B(i)
  BY <1>4
<1> QED BY <1>11, <1>12 DEF A, B

\* Any number of calls at once, none with a lock.
LEMMA LocksAddMany ==
    ASSUME NEW F, NEW d, Locks(F, d), NEW G, DOMAIN F \subseteq DOMAIN G,
           \A q \in DOMAIN F : G[q] = F[q],
           \A q \in DOMAIN G \ DOMAIN F : ~Holds(G[q]) /\ G[q].pc # "wait"
    PROVE  Locks(G, d)
<1>1. \A q \in DOMAIN G : Holds(G[q]) \/ G[q].pc = "wait" => q \in DOMAIN F /\ G[q] = F[q]
  OBVIOUS
<1>2. \A m \in Modules : \A w \in Ways(m) :
         d[m][w].lock # 0 =>
            \E q \in DOMAIN G : Holds(G[q]) /\ Where(G[q]) = m /\ G[q].way = w
  BY DEF Locks
<1> QED BY <1>1, <1>2 DEF Locks

\* The sharers leave the entry.
LEMMA InvalidateEntry ==
    ASSUME Inv, NEW p \in DOMAIN frames, NEW fr, fr = frames[p], fr.kind = "invalidate",
           NEW S, dir' = [dir EXCEPT ![fr.mod][fr.way] = Without(@, S)]
    PROVE  /\ Storage(cache, dir')
           /\ Relocked(dir, dir', fr.mod, fr.way, dir[fr.mod][fr.way].lock)
           /\ fr \in Frame /\ InvalidateOK(fr) /\ fr.mod \in Modules /\ fr.way \in Ways(fr.mod)
<1> DEFINE m == fr.mod
           w == fr.way
           e == dir[m][w]
<1>1. fr \in Frame /\ InvalidateOK(fr) /\ m \in Modules /\ w \in Ways(m)
  BY FrameFacts DEF Inv, FrameOK, InvalidateOK
<1>2. dir' = [dir EXCEPT ![m][w] = Without(e, S)]
  <2>1. dir[m][w] = e
    OBVIOUS
  <2> QED BY <2>1
<1> HIDE DEF m, w
<1>3. e \in Entry /\ MainMemory \notin e.sharers /\ e.owner # MainMemory
  BY <1>1, StorageFacts DEF Inv
<1>4. /\ Without(e, S) \in Entry /\ Without(e, S).lock = e.lock
      /\ MainMemory \notin Without(e, S).sharers /\ Without(e, S).owner # MainMemory
  BY <1>1, <1>3, EntryUpdates
<1>5. Storage(cache, dir') /\ Relocked(dir, dir', m, w, dir[m][w].lock)
  <2>1. PICK x : x = Without(e, S)
    OBVIOUS
  <2>2. x \in Entry /\ MainMemory \notin x.sharers /\ x.owner # MainMemory
        /\ dir' = [dir EXCEPT ![m][w] = x] /\ x.lock = dir[m][w].lock
    BY <1>2, <1>4, <2>1
  <2>3. Storage(cache, dir') /\ Relocked(dir, dir', m, w, x.lock)
    BY <1>1, <2>2, SetEntry DEF Inv
  <2> QED BY <2>2, <2>3
<1> QED BY <1>1, <1>5 DEF m, w

\* The request to a sharer, and the find-and-lock chain of the sharer.
SharerCall(m, t, i) ==
    [DownUp("write_request", "finish", m, t) EXCEPT !.pc = "call", !.target = i]
SharerFind(t, i) == [DownUp("find_and_lock", "action", i, t) EXCEPT !.blocking = TRUE]

\* The request to one sharer, and its find-and-lock chain.
LEMMA SharerRequest ==
    ASSUME NEW m \in Modules, NEW t \in Tag, NEW i \in Modules, i # MainMemory,
           NEW r, r = SharerCall(m, t, i), NEW f, f = SharerFind(t, i)
    PROVE  /\ r \in Frame /\ FrameOK(r) /\ ~IsAccess(r) /\ ~Holds(r) /\ r.pc = "call"
           /\ r.kind = "write_request" /\ r.dir = "downup" /\ CallOK(f, r)
           /\ f \in Frame /\ FrameOK(f) /\ ~IsAccess(f) /\ ~Holds(f) /\ f.pc # "wait"
<1>1. /\ r \in Frame /\ r.pc = "call" /\ r.kind = "write_request" /\ r.dir = "downup"
      /\ r.way = 0 /\ ~r.notFound /\ r.target = i
  <2>1. PICK n : n = NewFrame("write_request", "finish", m, t)
    OBVIOUS
  <2>2. n \in Frame /\ n.kind = "write_request" /\ n.way = 0 /\ n.notFound = FALSE
    BY <2>1, HierarchyAssumption DEF NewFrame, Frame, Events, Tag, BlockStates, Kinds
  <2>3. PICK d : d = [n EXCEPT !.dir = "downup"]
    OBVIOUS
  <2>4. r = [d EXCEPT !.pc = "call", !.target = i]
    BY <2>1, <2>3 DEF SharerCall, DownUp
  <2>5. d \in Frame /\ d.kind = "write_request" /\ d.way = 0 /\ ~d.notFound /\ d.dir = "downup"
    BY <2>2, <2>3 DEF Frame
  <2> QED BY <2>4, <2>5, ZenonT(40) DEF Frame, Events
<1>2. /\ f \in Frame /\ f.pc = "find" /\ f.kind = "find_and_lock" /\ f.dir = "downup"
      /\ f.ret = "action" /\ f.mod = i
  <2>1. PICK n : n = NewFrame("find_and_lock", "action", i, t)
    OBVIOUS
  <2>2. /\ n \in Frame /\ n.kind = "find_and_lock" /\ n.pc = "find" /\ n.ret = "action"
        /\ n.mod = i
    BY <2>1, HierarchyAssumption DEF NewFrame, Frame, Events, Tag, BlockStates, Kinds
  <2>3. f = [[n EXCEPT !.dir = "downup"] EXCEPT !.blocking = TRUE]
    BY <2>1 DEF SharerFind, DownUp
  <2> QED BY <2>2, <2>3, ZenonT(40) DEF Frame
<1>3. FrameOK(r) /\ ~IsAccess(r) /\ ~Holds(r)
  BY <1>1 DEF FrameOK, RequestOK, IsAccess, IsRequest, Holds
<1>4. FrameOK(f) /\ ~IsAccess(f) /\ ~Holds(f) /\ f.pc # "wait"
  BY <1>2 DEF FrameOK, FindAndLockOK, IsAccess, IsRequest, Holds
<1>5. CallOK(f, r)
  BY <1>1, <1>2 DEF CallOK, Where, IsRequest
<1> QED BY <1>1, <1>2, <1>3, <1>4, <1>5

\* There is no sharer, so the chain returns.
LEMMA InvalidateReturns ==
    ASSUME Inv, NEW p \in DOMAIN frames, At(p, "invalidate", "invalidate"),
           frames' = Return(p, Parent(p))
    PROVE  Sys(frames', dir)
<1> DEFINE fr == frames[p]
           s == Front(p)
           g == frames[s]
<1>1. Sys(frames, dir) /\ fr.kind = "invalidate" /\ fr.pc = "invalidate"
  BY DEF Inv, At
<1>2. ~Holds(fr) /\ Childless(frames, p)
  BY <1>1, NoChildren DEF Holds, IsAccess, IsRequest, Sys
<1>3. PICK f : f = [g EXCEPT !.pc = fr.ret]
  OBVIOUS
<1>4. frames' = [q \in DOMAIN frames \ {p} |-> IF q = s THEN f ELSE frames[q]]
  BY <1>3 DEF Return, Parent
<1>5. fr = frames[p] /\ s = Front(p) /\ g = frames[s]
  OBVIOUS
<1> HIDE DEF fr, s, g
<1>6. /\ Len(p) > 1 /\ g.kind # "invalidate"
      /\ f \in Frame /\ FrameOK(f) /\ SameCall(g, f) /\ SameHold(g, f) /\ f.pc # "wait"
  BY <1>1, <1>3, <1>5, InvalidateCaller, ZenonT(40)
<1>7. /\ SameCall(frames[s], f) /\ SameHold(frames[s], f) /\ frames[s].kind # "invalidate"
      /\ ~Holds(frames[p]) /\ s = Front(p)
  BY <1>2, <1>5, <1>6
<1> QED BY <1>1, <1>2, <1>4, <1>6, <1>7, CallerGoesOn

\* The paths of the request to sharer i, and of its find-and-lock chain.
LEMMA ChildNames ==
    ASSUME NEW p, IsPath(p), NEW i \in PathNames, NEW x \in PathNames,
           NEW A, A = Append(p, i), NEW B, B = Append(A, x)
    PROVE  /\ Last(A) = i /\ Len(B) # Len(p) + 1 /\ A # p /\ B # p
           /\ B[Len(p) + 1] = i
<1>1. p \in Seq(PathNames) /\ Len(p) \in Nat
  BY PathFacts DEF IsPath
<1>2. A \in Seq(PathNames) /\ Len(A) = Len(p) + 1 /\ A[Len(p) + 1] = i
  BY <1>1
<1>3. Len(B) = Len(A) + 1 /\ B[Len(p) + 1] = A[Len(p) + 1]
  BY <1>1, <1>2
<1>4. Last(A) = i
  BY <1>2 DEF Last
<1>5. Len(B) = Len(p) + 2 /\ Len(B) # Len(p) + 1 /\ Len(B) # Len(p) /\ Len(A) # Len(p)
  BY <1>1, <1>2, <1>3
<1> QED BY <1>2, <1>3, <1>4, <1>5

\* The frames of the requests to the sharers.
WithSharers(F, p, S, m, t, me) ==
    [q \in DOMAIN F \cup {Append(p, i) : i \in S} \cup {Append(Append(p, i), "find") : i \in S} |->
        IF q = p THEN me
        ELSE IF q \in DOMAIN F THEN F[q]
        ELSE IF Len(q) = Len(p) + 1
        THEN SharerCall(m, t, Last(q))
        ELSE SharerFind(t, q[Len(p) + 1])]

SharersCalled(F, G, p, S, m, t, me) ==
    /\ DOMAIN G = DOMAIN F \cup {Append(p, i) : i \in S}
                     \cup {Append(Append(p, i), "find") : i \in S}
    /\ G[p] = me
    /\ \A q \in DOMAIN F : q # p => G[q] = F[q]
    /\ \A i \in S : /\ G[Append(p, i)] = SharerCall(m, t, i)
                    /\ G[Append(Append(p, i), "find")] = SharerFind(t, i)

\* The frames after the requests to all sharers of S.
LEMMA SharerFrames ==
    ASSUME Inv, NEW p \in DOMAIN frames, Childless(frames, p),
           NEW S, S \subseteq Modules, NEW m, NEW t, NEW me,
           frames' = WithSharers(frames, p, S, m, t, me)
    PROVE  SharersCalled(frames, frames', p, S, m, t, me)
<1>1. DOMAIN frames' = DOMAIN frames \cup {Append(p, i) : i \in S}
                                 \cup {Append(Append(p, i), "find") : i \in S}
  BY DEF WithSharers
<1>2. Sys(frames, dir) /\ IsPath(p)
  BY FrameFacts DEF Inv
<1>3. ASSUME NEW i \in S
      PROVE  /\ frames'[Append(p, i)] = SharerCall(m, t, i)
             /\ frames'[Append(Append(p, i), "find")] = SharerFind(t, i)
  <2>1. PICK A : A = Append(p, i)
    OBVIOUS
  <2>2. PICK B : B = Append(A, "find")
    OBVIOUS
  <2>3. i \in PathNames /\ "find" \in PathNames
    BY DEF PathNames
  <2>4. IsPath(A) /\ Len(A) = Len(p) + 1 /\ A \notin DOMAIN frames /\ Childless(frames, A)
    BY <1>2, <2>1, <2>3, AppendFacts, AppendNew DEF Sys
  <2>5. /\ Last(A) = i /\ Len(B) # Len(p) + 1 /\ A # p /\ B # p
        /\ B[Len(p) + 1] = i
    BY <1>2, <2>1, <2>2, <2>3, ChildNames, ZenonT(40)
  <2>6. B \notin DOMAIN frames
    BY <2>2, <2>3, <2>4, AppendFacts DEF Childless
  <2>7. A \in {Append(p, j) : j \in S} /\ B \in {Append(Append(p, j), "find") : j \in S}
    BY <2>1, <2>2
  <2>8. frames'[A] = SharerCall(m, t, i)
    BY <2>4, <2>5, <2>7 DEF WithSharers
  <2>9. frames'[B] = SharerFind(t, i)
    BY <2>5, <2>6, <2>7 DEF WithSharers
  <2> QED BY <2>1, <2>2, <2>8, <2>9
<1>4. frames'[p] = me /\ \A q \in DOMAIN frames : q # p => frames'[q] = frames[q]
  BY DEF WithSharers
<1> QED BY <1>1, <1>3, <1>4 DEF SharersCalled

\* An invalidation that waits for replies.
LEMMA InvalidatingFrame ==
    ASSUME NEW f \in Frame, InvalidateOK(f), f.kind = "invalidate", NEW b \in Block,
           f.mod = MainMemory => b.state \in {"I", "E", "M"},
           NEW g, g = [f EXCEPT !.pc = "finish", !.tag = b.tag, !.state = b.state]
    PROVE  /\ g \in Frame /\ g.pc = "finish" /\ g.kind = "invalidate"
           /\ FrameOK(g) /\ ~Holds(g) /\ SameCall(f, g)
<1>1. b.tag \in Tag /\ b.state \in BlockStates
  BY DEF Block, Tag
<1>2. /\ g \in Frame /\ g.pc = "finish" /\ Like(f, g) /\ g.way = f.way
      /\ g.state = b.state
  BY <1>1 DEF Frame, Events, Like
<1> QED BY <1>2
     DEF Like, FrameOK, InvalidateOK, Holds, SameCall, IsAccess, IsRequest

\* The new frames, as the children of the invalidation.
LEMMA SharerFacts ==
    ASSUME NEW m \in Modules, NEW t \in Tag, NEW i \in Modules, i # MainMemory,
           NEW me, me.kind = "invalidate", me.pc = "finish",
           NEW r, r = SharerCall(m, t, i), NEW f, f = SharerFind(t, i)
    PROVE  /\ r \in Frame /\ FrameOK(r) /\ ~IsAccess(r) /\ ~Holds(r) /\ r.pc # "wait"
           /\ CallOK(r, me) /\ CallOK(f, r)
           /\ f \in Frame /\ FrameOK(f) /\ ~IsAccess(f) /\ ~Holds(f) /\ f.pc # "wait"
<1>1. /\ r \in Frame /\ FrameOK(r) /\ ~IsAccess(r) /\ ~Holds(r) /\ r.pc = "call"
      /\ r.kind = "write_request" /\ r.dir = "downup" /\ CallOK(f, r)
      /\ f \in Frame /\ FrameOK(f) /\ ~IsAccess(f) /\ ~Holds(f) /\ f.pc # "wait"
  BY SharerRequest
<1>2. CallOK(r, me)
  BY <1>1 DEF CallOK
<1> QED BY <1>1, <1>2

\* Each sharer gets a request.
LEMMA SharersAdded ==
    ASSUME NEW F, NEW d, Sys(F, d), NEW p \in DOMAIN F, Childless(F, p),
           F[p].kind = "invalidate", F[p].pc = "finish",
           NEW m \in Modules, NEW t \in Tag, NEW S, S \subseteq Modules, MainMemory \notin S,
           NEW G, SharersCalled(F, G, p, S, m, t, F[p])
    PROVE  Sys(G, d)
<1>1. ASSUME NEW i \in S
      PROVE  /\ G[Append(p, i)] \in Frame /\ FrameOK(G[Append(p, i)])
             /\ ~IsAccess(G[Append(p, i)]) /\ CallOK(G[Append(p, i)], F[p])
             /\ ~Holds(G[Append(p, i)]) /\ G[Append(p, i)].pc # "wait"
             /\ G[Append(Append(p, i), "find")] \in Frame
             /\ FrameOK(G[Append(Append(p, i), "find")])
             /\ ~IsAccess(G[Append(Append(p, i), "find")])
             /\ CallOK(G[Append(Append(p, i), "find")], G[Append(p, i)])
             /\ ~Holds(G[Append(Append(p, i), "find")])
             /\ G[Append(Append(p, i), "find")].pc # "wait"
  <2>1. PICK r : r = G[Append(p, i)]
    OBVIOUS
  <2>2. PICK f : f = G[Append(Append(p, i), "find")]
    OBVIOUS
  <2>3. r = SharerCall(m, t, i) /\ f = SharerFind(t, i) /\ i \in Modules /\ i # MainMemory
    BY <2>1, <2>2 DEF SharersCalled
  <2>4. /\ r \in Frame /\ FrameOK(r) /\ ~IsAccess(r) /\ ~Holds(r) /\ r.pc # "wait"
        /\ CallOK(r, F[p]) /\ CallOK(f, r)
        /\ f \in Frame /\ FrameOK(f) /\ ~IsAccess(f) /\ ~Holds(f) /\ f.pc # "wait"
    BY <2>3, SharerFacts
  <2> QED BY <2>1, <2>2, <2>4
<1>2. /\ Tree(G)
      /\ \A q \in DOMAIN G \ DOMAIN F :
            \E i \in S : q = Append(p, i) \/ q = Append(Append(p, i), "find")
  <2>1. /\ Tree(F)
        /\ DOMAIN G = DOMAIN F \cup {Append(p, i) : i \in S}
                         \cup {Append(Append(p, i), "find") : i \in S}
        /\ \A q \in DOMAIN F : G[q] = F[q]
    BY DEF Sys, SharersCalled
  <2> QED BY <1>1, <2>1, TreeAddMany
<1>3. Locks(G, d)
  <2>1. \A q \in DOMAIN G \ DOMAIN F : ~Holds(G[q]) /\ G[q].pc # "wait"
    BY <1>1, <1>2
  <2>2. DOMAIN F \subseteq DOMAIN G /\ Locks(F, d) /\ \A q \in DOMAIN F : G[q] = F[q]
    BY DEF Sys, SharersCalled
  <2> QED BY <2>1, <2>2, LocksAddMany
<1> QED BY <1>2, <1>3 DEF Sys

\* The requests to sharers keep the frames and the locks in order.
LEMMA InvalidateSends ==
    ASSUME Inv, NEW p \in DOMAIN frames, At(p, "invalidate", "invalidate"),
           NEW m \in Modules, NEW t \in Tag,
           NEW me \in Frame, FrameOK(me), ~Holds(me), SameCall(frames[p], me),
           me.kind = "invalidate", me.pc = "finish",
           NEW S, S \subseteq Modules, MainMemory \notin S,
           SharersCalled(frames, frames', p, S, m, t, me)
    PROVE  Sys(frames', dir)
<1>1. Sys(frames, dir) /\ frames[p].kind = "invalidate" /\ frames[p].pc = "invalidate"
  BY DEF Inv, At
<1>2. ~Holds(frames[p]) /\ Childless(frames, p)
  BY <1>1, NoChildren DEF Holds, IsAccess, IsRequest, Sys
<1>3. PICK F : F = [frames EXCEPT ![p] = me]
  OBVIOUS
<1>4. SameHold(frames[p], me) /\ me.pc # "wait"
  BY <1>2 DEF SameHold
<1>5. /\ Sys(F, dir) /\ DOMAIN F = DOMAIN frames /\ F[p] = me /\ Childless(F, p)
      /\ \A q \in DOMAIN frames : q # p => F[q] = frames[q]
  BY <1>1, <1>2, <1>3, <1>4, Goes
<1>6. SharersCalled(F, frames', p, S, m, t, F[p])
  BY <1>5 DEF SharersCalled
<1>7. p \in DOMAIN F /\ F[p].kind = "invalidate" /\ F[p].pc = "finish"
  BY <1>5
<1> QED BY <1>5, <1>6, <1>7, SharersAdded

\* An invalidation starts, with as many requests as there are sharers.
LEMMA InvalidateInv ==
    ASSUME Inv, NEW p \in DOMAIN frames, Invalidate(p)
    PROVE  Inv'
<1>1. PICK fr : fr = frames[p]
  OBVIOUS
<1>2. PICK b : b = cache[fr.mod][fr.way]
  OBVIOUS
<1>3. PICK S : S = dir[fr.mod][fr.way].sharers \ {fr.except}
  OBVIOUS
<1>4. PICK me : me = [fr EXCEPT !.pc = "finish", !.tag = b.tag, !.state = b.state]
  OBVIOUS
<1>5. /\ At(p, "invalidate", "invalidate") /\ UNCHANGED <<cache, accesses, unsaved>>
      /\ dir' = [dir EXCEPT ![fr.mod][fr.way] = Without(@, S)]
  BY <1>1, <1>3 DEF Invalidate
<1>6. fr.kind = "invalidate" /\ Sys(frames, dir) /\ Storage(cache, dir)
  BY <1>1, <1>5 DEF At, Inv
<1>7. /\ Storage(cache, dir')
      /\ Relocked(dir, dir', fr.mod, fr.way, dir[fr.mod][fr.way].lock)
      /\ fr \in Frame /\ InvalidateOK(fr) /\ fr.mod \in Modules /\ fr.way \in Ways(fr.mod)
  BY <1>1, <1>5, <1>6, InvalidateEntry
<1>8. /\ b \in Block /\ (fr.mod = MainMemory => b.state \in {"I", "E", "M"})
      /\ S \subseteq Modules /\ MainMemory \notin S /\ b.tag \in Tag
  BY <1>2, <1>3, <1>6, <1>7, StorageFacts
<1>9. Sys(frames', dir)
  <2>1. CASE S = {}
    <3>1. frames' = Return(p, Parent(p))
      BY <1>1, <1>3, <2>1 DEF Invalidate
    <3> QED BY <1>5, <3>1, InvalidateReturns
  <2>2. CASE S # {}
    <3>1. frames' = WithSharers(frames, p, S, fr.mod, b.tag, me)
      BY <1>1, <1>2, <1>3, <1>4, <2>2
         DEF Invalidate, WithSharers, SharerCall, SharerFind
    <3>2. Childless(frames, p)
      BY <1>1, <1>5, <1>6, NoChildren DEF At, Sys
    <3>3. SharersCalled(frames, frames', p, S, fr.mod, b.tag, me)
      BY <1>8, <3>1, <3>2, SharerFrames
    <3>4. /\ me \in Frame /\ me.pc = "finish" /\ me.kind = "invalidate"
          /\ FrameOK(me) /\ ~Holds(me) /\ SameCall(fr, me)
      BY <1>4, <1>6, <1>7, <1>8, InvalidatingFrame
    <3>5. SameCall(frames[p], me)
      BY <1>1, <3>4
    <3> QED BY <1>5, <1>7, <1>8, <3>3, <3>4, <3>5, InvalidateSends
  <2> QED BY <2>1, <2>2
<1>10. Sys(frames', dir')
  BY <1>7, <1>9, SameLocks
<1> QED BY <1>5, <1>7, <1>10 DEF Inv, Lists

\* The reply of a sharer goes.
LEMMA ReplyGoes ==
    ASSUME NEW F, NEW d, Sys(F, d), NEW q \in DOMAIN F, ~Holds(F[q]), F[q].pc = "reply",
           F[q].kind # "invalidate",
           NEW E, E = [r \in DOMAIN F \ {q} |-> F[r]]
    PROVE  Sys(E, d)
<1>1. Childless(F, q)
  BY NoChildren DEF Sys
<1>2. Tree(E)
  BY <1>1, TreeRemove DEF Sys
<1>3. Locks(E, d)
  BY LocksRemove DEF Sys
<1> QED BY <1>2, <1>3 DEF Sys

\* The last reply makes the chain return.
LEMMA LastReply ==
    ASSUME Sys(frames, dir), NEW p \in DOMAIN frames, NEW fr, fr = frames[p],
           fr.kind = "invalidate", NEW q, q \in Children(p), Children(p) = {q},
           frames[q].kind = "write_request", frames[q].pc = "reply",
           NEW s, s = Front(p), frames[s].kind # "invalidate", s # p, Len(p) > 1,
           s \in DOMAIN frames, NEW f \in Frame, FrameOK(f), SameCall(frames[s], f),
           SameHold(frames[s], f), f.pc # "wait",
           NEW G, G = [r \in DOMAIN frames \ {p, q} |-> IF r = s THEN f ELSE frames[r]]
    PROVE  Sys(G, dir)
<1>1. q \in DOMAIN frames /\ Front(q) = p /\ Len(q) = Len(p) + 1 /\ IsPath(p) /\ IsPath(q)
  BY FrameFacts DEF Children
<1>2. p # q /\ s # q
  <2>1. Len(s) = Len(p) - 1 /\ Len(p) \in Nat
    BY <1>1, PathFacts
  <2> QED BY <1>1, <2>1
<1>3. PICK E : E = [r \in DOMAIN frames \ {q} |-> frames[r]]
  OBVIOUS
<1>4. Sys(E, dir)
  <2>1. ~Holds(frames[q]) /\ frames[q].kind # "invalidate"
    BY DEF Holds, IsAccess, IsRequest
  <2> QED BY <1>1, <1>3, <2>1, ReplyGoes
<1>5. /\ p \in DOMAIN E /\ E[p] = fr /\ s \in DOMAIN E /\ E[s] = frames[s]
      /\ DOMAIN E = DOMAIN frames \ {q}
  BY <1>2, <1>3
<1>6. Childless(E, p)
  <2> SUFFICES ASSUME NEW r \in DOMAIN E, Child(r, p) PROVE FALSE
    BY DEF Childless
  <2>1. r \in DOMAIN frames /\ r # q /\ Front(r) = p /\ Len(r) > 1
    BY <1>5 DEF Child
  <2>2. IsPath(r)
    BY <2>1, FrameFacts
  <2>3. Len(r) = Len(p) + 1 /\ r # <<>>
    <3>1. Len(p) = Len(r) - 1 /\ Len(r) \in Nat
      BY <2>1, <2>2, PathFacts
    <3> QED BY <2>2, <3>1 DEF IsPath
  <2> QED BY <2>1, <2>3 DEF Children
<1>7. ~Holds(fr)
  BY DEF Holds, IsAccess, IsRequest
<1>8. /\ DOMAIN G = DOMAIN E \ {p} /\ G[s] = f
       /\ \A r \in DOMAIN G : r # s => G[r] = E[r]
  BY <1>2, <1>3, <1>5
<1>9. /\ SameCall(E[s], f) /\ SameHold(E[s], f) /\ E[s].kind # "invalidate" /\ ~Holds(E[p])
       /\ p \in DOMAIN E
  BY <1>5, <1>7
<1> QED
  BY ONLY <1>4, <1>6, <1>8, <1>9, Returns, Len(p) > 1, s = Front(p), f \in Frame,
     FrameOK(f), f.pc # "wait"

\* A reply to an invalidation, the last of which makes it return.
LEMMA InvalidateFinishInv ==
    ASSUME Inv, NEW p \in DOMAIN frames, NEW q \in Children(p), InvalidateFinish(p, q)
    PROVE  Inv'
<1>1. PICK fr : fr = frames[p]
  OBVIOUS
<1>2. /\ fr.kind = "invalidate" /\ fr.pc = "finish"
      /\ q \in DOMAIN frames /\ Front(q) = p /\ Len(q) = Len(p) + 1
      /\ frames[q].kind = "write_request" /\ frames[q].pc = "reply"
      /\ UNCHANGED <<dir, accesses>>
      /\ unsaved' \subseteq unsaved
      /\ UNCHANGED cache \/ setBlock(fr.mod, fr.way, fr.tag, Written(fr.state))
  BY <1>1 DEF InvalidateFinish, At, Children, Saved
<1>3. /\ fr \in Frame /\ InvalidateOK(fr) /\ Sys(frames, dir) /\ Storage(cache, dir)
      /\ IsPath(p) /\ IsPath(q)
  BY <1>1, <1>2, FrameFacts DEF Inv, FrameOK
<1>4. Storage(cache', dir)
  <2>1. CASE UNCHANGED cache
    BY <1>3, <2>1
  <2>2. CASE setBlock(fr.mod, fr.way, fr.tag, Written(fr.state))
    <3>1. PICK x : x = Written(fr.state)
      OBVIOUS
    <3>2. /\ fr.mod \in Modules /\ fr.tag \in Tag /\ x \in BlockStates
          /\ (fr.mod = MainMemory => x \in {"I", "E", "M"})
          /\ setBlock(fr.mod, fr.way, fr.tag, x)
      BY <1>2, <1>3, <2>2, <3>1 DEF Written, BlockStates, Frame, InvalidateOK
    <3> QED BY <1>3, <3>2, SetBlockOf
  <2> QED BY <1>2, <2>1, <2>2
<1>5. PICK E : E = [r \in DOMAIN frames \ {q} |-> frames[r]]
  OBVIOUS
<1>6. Sys(E, dir)
  <2>1. ~Holds(frames[q]) /\ frames[q].kind # "invalidate"
    BY <1>2 DEF Holds, IsAccess, IsRequest
  <2> QED BY <1>2, <1>3, <1>5, <2>1, ReplyGoes
<1>7. PICK s : s = Front(p)
  OBVIOUS
<1>8. PICK g : g = frames[s]
  OBVIOUS
<1>9. PICK f : f = [g EXCEPT !.pc = fr.ret]
  OBVIOUS
<1>10. fr.kind = "invalidate"
  BY <1>2
<1>11. /\ Len(p) > 1 /\ s \in DOMAIN frames /\ s # p /\ g.kind # "invalidate"
       /\ f \in Frame /\ FrameOK(f) /\ SameCall(g, f) /\ SameHold(g, f) /\ f.pc # "wait"
  BY <1>1, <1>3, <1>7, <1>8, <1>9, <1>10, InvalidateCaller
<1>12. Sys(frames', dir)
  <2>1. CASE frames' = [r \in DOMAIN frames \ {q} |-> frames[r]]
    BY <1>5, <1>6, <2>1
  <2>2. CASE /\ Children(p) = {q}
             /\ frames' = [r \in DOMAIN frames \ {p, q} |->
                             IF r = s THEN [frames[r] EXCEPT !.pc = fr.ret] ELSE frames[r]]
    <3>1. frames' = [r \in DOMAIN frames \ {p, q} |-> IF r = s THEN f ELSE frames[r]]
      BY <1>8, <1>9, <2>2
    <3>2. /\ frames[s].kind # "invalidate" /\ SameCall(frames[s], f) /\ SameHold(frames[s], f)
          /\ Children(p) = {q} /\ q \in Children(p)
      BY <1>8, <1>11, <2>2
    <3>3. fr.kind = "invalidate" /\ frames[q].kind = "write_request" /\ frames[q].pc = "reply"
      BY <1>2
    <3> QED BY <1>1, <1>3, <1>7, <1>11, <3>1, <3>2, <3>3, LastReply
  <2> QED BY <1>1, <1>7, <2>1, <2>2 DEF InvalidateFinish
<1> QED BY <1>2, <1>4, <1>12 DEF Inv, Lists
-----------------------------------------------------------------------------
(* evict *)

\* Who has called an eviction, and how it goes on afterwards.
LEMMA EvictCaller ==
    ASSUME Sys(frames, dir), NEW p \in DOMAIN frames, NEW fr, fr = frames[p],
           fr.kind = "evict", NEW s, s = Front(p), NEW g, g = frames[s],
           NEW f, f = [g EXCEPT !.pc = fr.ret]
    PROVE  /\ Len(p) > 1 /\ s \in DOMAIN frames /\ s # p /\ g.kind # "invalidate"
           /\ f \in Frame /\ FrameOK(f) /\ SameCall(g, f) /\ SameHold(g, f) /\ f.pc # "wait"
<1>1. ~IsAccess(fr) /\ Len(p) > 1
  BY FrameFacts DEF IsAccess
<1>2. s \in DOMAIN frames /\ s # p /\ CallOK(fr, g)
  BY <1>1, ChildFacts DEF Sys
<1>3. g \in Frame /\ FrameOK(g)
  BY <1>2, FrameFacts
<1>4. g.kind = "find_and_lock" /\ g.pc = "call" /\ fr.ret = "finish"
  BY <1>2 DEF CallOK
<1>5. f \in Frame /\ f.pc = "finish" /\ Like(g, f) /\ f.way = g.way /\ f.state = g.state
      /\ f.tag = g.tag
  <2>1. PICK e : e = "finish"
    OBVIOUS
  <2>2. e \in Events /\ f = [g EXCEPT !.pc = e]
    BY <1>4, <2>1 DEF Events
  <2>3. f \in Frame /\ f.pc = e /\ Like(g, f) /\ f.way = g.way /\ f.state = g.state
        /\ f.tag = g.tag
    <3>1. g \in Frame
      BY <1>3
    <3> QED BY ONLY <2>2, <3>1, NextEvent
  <2> QED BY <2>1, <2>3
<1>6. SameCall(g, f) /\ f.pc # "wait" /\ g.kind # "invalidate"
  BY <1>4, <1>5, LikeFacts
<1>7. /\ f.kind = "find_and_lock" /\ ~IsRequest(f) /\ ~IsAccess(f) /\ f.mod = g.mod
      /\ f.addr = g.addr
  BY <1>4, <1>5 DEF Like, IsRequest, IsAccess
<1>8. FrameOK(f)
  BY <1>3, <1>4, <1>5, <1>7 DEF FrameOK, FindAndLockOK
<1>9. SameHold(g, f)
  BY <1>4, <1>5, <1>7 DEF SameHold, SameLock, Holds, Where
<1> QED BY <1>1, <1>2, <1>5, <1>6, <1>8, <1>9

\* An eviction returns to the find-and-lock chain that needs the way.
LEMMA EvictReturns ==
    ASSUME Inv, NEW p \in DOMAIN frames, frames[p].kind = "evict",
           frames[p].pc \in {"invalid", "reply"}, frames' = Return(p, Parent(p))
    PROVE  Sys(frames', dir)
<1> DEFINE fr == frames[p]
           s == Front(p)
           g == frames[s]
<1>1. Sys(frames, dir) /\ fr.kind = "evict" /\ fr.pc \in {"invalid", "reply"}
  BY DEF Inv
<1>2. ~Holds(fr) /\ Childless(frames, p)
  BY <1>1, NoChildren DEF Holds, IsAccess, IsRequest, Processing, Sys
<1>3. PICK f : f = [g EXCEPT !.pc = fr.ret]
  OBVIOUS
<1>4. frames' = [q \in DOMAIN frames \ {p} |-> IF q = s THEN f ELSE frames[q]]
  BY <1>3 DEF Return, Parent
<1>5. fr = frames[p] /\ s = Front(p) /\ g = frames[s]
  OBVIOUS
<1> HIDE DEF fr, s, g
<1>6. /\ Len(p) > 1 /\ g.kind # "invalidate"
      /\ f \in Frame /\ FrameOK(f) /\ SameCall(g, f) /\ SameHold(g, f) /\ f.pc # "wait"
  BY <1>1, <1>3, <1>5, EvictCaller
<1>7. /\ SameCall(frames[s], f) /\ SameHold(frames[s], f) /\ frames[s].kind # "invalidate"
      /\ ~Holds(frames[p]) /\ s = Front(p)
  BY <1>2, <1>5, <1>6
<1> QED BY <1>1, <1>2, <1>4, <1>6, <1>7, CallerGoesOn

\* The invalidation that an eviction or a write request calls.
LEMMA InvalidateFrameFacts ==
    ASSUME NEW g, g.kind = "invalidate", g.pc = "invalidate", g.way \in Ways(g.mod)
    PROVE  FrameOK(g) /\ ~IsAccess(g) /\ ~Holds(g) /\ g.pc # "wait"
  BY DEF FrameOK, InvalidateOK, IsAccess, IsRequest, Holds

\* Frame p goes on as f and calls an invalidation, which is g.
LEMMA CallsInvalidate ==
    ASSUME Sys(frames, dir), NEW p \in DOMAIN frames, Childless(frames, p),
           NEW f \in Frame, FrameOK(f), SameCall(frames[p], f), SameHold(frames[p], f),
           f.pc # "wait",
           NEW g \in Frame, FrameOK(g), ~IsAccess(g), ~Holds(g), g.pc # "wait", CallOK(g, f),
           NEW G, G = Call(With(p, f), Append(p, "invalidate"), g)
    PROVE  Sys(G, dir)
<1>1. PICK F : F = With(p, f)
  OBVIOUS
<1>2. F = [frames EXCEPT ![p] = f]
  BY <1>1 DEF With
<1>3. Sys(F, dir) /\ DOMAIN F = DOMAIN frames /\ F[p] = f /\ Childless(F, p)
  BY <1>2, Goes
<1>4. "invalidate" \in PathNames
  BY DEF PathNames
<1>5. G = Call(F, Append(p, "invalidate"), g)
  BY <1>1
<1> QED BY <1>3, <1>4, <1>5, Adds

\* The evicted block goes.
LEMMA BlockGoes ==
    ASSUME Storage(cache, dir), NEW m \in Modules, NEW w, setBlock(m, w, NoTag, "I")
    PROVE  Storage(cache', dir)
<1>1. PICK x : x = "I"
  OBVIOUS
<1>2. /\ NoTag \in Tag /\ x \in BlockStates /\ (m = MainMemory => x \in {"I", "E", "M"})
      /\ setBlock(m, w, NoTag, x)
  BY <1>1 DEF Tag, BlockStates
<1> QED BY <1>2, SetBlockOf

\* A frame that waits for a chain that it calls.
LEMMA WaitingFrame ==
    ASSUME NEW h \in Frame, NEW f, f = [h EXCEPT !.pc = "call", !.error = FALSE]
    PROVE  /\ f \in Frame /\ f.pc = "call" /\ Like(h, f) /\ f.way = h.way
  BY SMTT(30), ZenonT(40) DEF Frame, Events, Like

\* An eviction looks for its block in the lower module.
LEMMA EvictAsks ==
    ASSUME Sys(frames, dir), NEW p \in DOMAIN frames, Childless(frames, p), ~Holds(frames[p]),
           NEW h \in Frame, h.kind = "evict", ~h.notFound, SameCall(frames[p], h),
           NEW t \in Tag, NEW direction \in {"updown", "downup"},
           NEW ret \in {"process", "process_noncoherent"}, NEW m \in Modules, m = h.target,
           NEW G, G = CallFindAndLock(p, h, ret, m, t, direction, FALSE)
    PROVE  Sys(G, dir)
<1>1. PICK f : f = [h EXCEPT !.pc = "call", !.error = FALSE]
  OBVIOUS
<1>2. f \in Frame /\ f.pc = "call" /\ Like(h, f)
  BY <1>1, WaitingFrame
<1>3. /\ FrameOK(f) /\ ~Holds(f) /\ m = Where(f) /\ f.kind = "evict"
  BY <1>2 DEF FrameOK, EvictOK, IsAccess, IsRequest, Processing, Holds, Where, Like
<1>4. SameCall(frames[p], f) /\ SameHold(frames[p], f)
  BY <1>2, <1>3 DEF SameCall, SameHold, Like
<1>5. /\ ret \in Events /\ FALSE \in BOOLEAN
      /\ \/ IsAccess(f) /\ ret = "action" /\ f.way = 0 /\ t = f.addr /\ direction = "updown"
         \/ f.kind = "evict" /\ ret \in {"process", "process_noncoherent"}
  BY <1>3 DEF Events
<1>6. f \in Frame /\ f.pc = "call" /\ FrameOK(f) /\ m = Where(f)
  BY <1>2, <1>3
<1> QED BY <1>1, <1>4, <1>5, <1>6, CallsFindAndLock

\* An eviction starts by an invalidation.
LEMMA EvictInv ==
    ASSUME Inv, NEW p \in DOMAIN frames, Evict(p)
    PROVE  Inv'
<1>1. PICK fr : fr = frames[p]
  OBVIOUS
<1>2. PICK b : b = cache[fr.mod][fr.way]
  OBVIOUS
<1>3. PICK f : f = [fr EXCEPT !.pc = "call", !.state = b.state, !.tag = b.tag,
                              !.srcTag = b.tag, !.srcWay = fr.way]
  OBVIOUS
<1>4. PICK g : g = [NewFrame("invalidate", "invalid", fr.mod, NoTag) EXCEPT
                       !.pc = "invalidate", !.way = fr.way]
  OBVIOUS
<1>5. /\ fr.kind = "evict" /\ fr.pc = "evict" /\ UNCHANGED <<cache, dir, accesses, unsaved>>
      /\ frames' = Call(With(p, f), Append(p, "invalidate"), g)
  BY <1>1, <1>2, <1>3, <1>4 DEF Evict, At
<1>6. /\ fr \in Frame /\ EvictOK(fr) /\ Sys(frames, dir) /\ Storage(cache, dir)
      /\ fr.mod \in Modules
  BY <1>1, <1>5, FrameFacts DEF Inv, FrameOK
<1>7. fr.way \in Ways(fr.mod) /\ ~fr.notFound /\ ~Holds(fr) /\ Childless(frames, p)
  <2>1. Childless(frames, p)
    BY <1>1, <1>5, <1>6, NoChildren DEF Sys
  <2> QED BY <1>5, <1>6, <2>1 DEF EvictOK, Holds, IsAccess, IsRequest, Processing
<1>8. b.tag \in Tag /\ b.state \in BlockStates
  BY <1>2, <1>6, <1>7, StorageFacts
<1>9. /\ f \in Frame /\ f.pc = "call" /\ Like(fr, f) /\ f.way = fr.way
  BY <1>3, <1>6, <1>8 DEF Frame, Events, Like
<1>10. f.kind = "evict" /\ f.mod = fr.mod /\ ~f.notFound
  BY <1>5, <1>7, <1>9 DEF Like
<1>11. FrameOK(f) /\ ~Holds(f)
  BY <1>9, <1>10 DEF FrameOK, EvictOK, Holds, IsAccess, IsRequest, Processing
<1>12. SameCall(fr, f)
  BY <1>5, <1>9, LikeFacts
<1>13. PICK n : n = NewFrame("invalidate", "invalid", fr.mod, NoTag)
  OBVIOUS
<1>14. /\ g \in Frame /\ g.kind = "invalidate" /\ g.ret = "invalid" /\ g.mod = fr.mod
       /\ g.way = fr.way /\ g.pc = "invalidate"
  <2>1. n \in Frame /\ n.kind = "invalidate" /\ n.ret = "invalid" /\ n.mod = fr.mod
    BY <1>6, <1>13, HierarchyAssumption
    DEF NewFrame, Frame, Events, Tag, BlockStates, Kinds
  <2>2. g = [n EXCEPT !.pc = "invalidate", !.way = fr.way] /\ fr.way \in Nat
    BY <1>4, <1>6, <1>13 DEF Frame
  <2> QED BY <2>1, <2>2 DEF Frame, Events
<1>15. FrameOK(g) /\ ~IsAccess(g) /\ ~Holds(g) /\ g.pc # "wait" /\ g \in Frame
  <2>1. g.kind = "invalidate" /\ g.pc = "invalidate" /\ g.way \in Ways(g.mod)
    BY <1>7, <1>14
  <2> QED BY <1>14, <2>1, InvalidateFrameFacts
<1>16. CallOK(g, f)
  BY <1>9, <1>10, <1>14 DEF CallOK
<1>17. Sys(frames', dir)
  <2>1. SameCall(frames[p], f) /\ SameHold(frames[p], f) /\ f.pc # "wait"
    BY <1>1, <1>7, <1>9, <1>11, <1>12 DEF SameHold
  <2>2. frames' = Call(With(p, f), Append(p, "invalidate"), g)
    BY <1>5
  <2> QED BY <1>6, <1>7, <1>9, <1>11, <1>15, <1>16, <2>1, <2>2, CallsInvalidate
<1> QED BY <1>5, <1>17 DEF Inv, Lists

\* The reply of the lower module has arrived.
LEMMA EvictReplyReceiveInv ==
    ASSUME Inv, NEW p \in DOMAIN frames, EvictReplyReceive(p)
    PROVE  Inv'
<1>1. PICK fr : fr = frames[p]
  OBVIOUS
<1>2. /\ fr.kind = "evict" /\ fr.pc = "reply" /\ UNCHANGED <<dir, accesses, unsaved>>
      /\ frames' = Return(p, Parent(p))
      /\ UNCHANGED cache \/ setBlock(fr.mod, fr.srcWay, NoTag, "I")
  BY <1>1 DEF EvictReplyReceive, At
<1>3. Sys(frames', dir)
  BY <1>1, <1>2, EvictReturns
<1>4. fr.mod \in Modules /\ Storage(cache, dir)
  BY <1>1, FrameFacts DEF Inv
<1>5. Storage(cache', dir)
  <2>1. CASE UNCHANGED cache
    BY <1>4, <2>1
  <2>2. CASE setBlock(fr.mod, fr.srcWay, NoTag, "I")
    BY <1>4, <2>2, BlockGoes
  <2> QED BY <1>2, <2>1, <2>2
<1> QED BY <1>2, <1>3, <1>5 DEF Inv, Lists

\* After the invalidation the block goes to the lower module, or is dropped.
LEMMA EvictInvalidInv ==
    ASSUME Inv, NEW p \in DOMAIN frames, EvictInvalid(p)
    PROVE  Inv'
<1>1. PICK fr : fr = frames[p]
  OBVIOUS
<1>2. PICK state : state = cache[fr.mod][fr.way].state
  OBVIOUS
<1>3. /\ fr.kind = "evict" /\ fr.pc = "invalid" /\ UNCHANGED <<dir, accesses, unsaved>>
  BY <1>1 DEF EvictInvalid, At
<1>4. /\ fr \in Frame /\ EvictOK(fr) /\ Sys(frames, dir) /\ Storage(cache, dir)
      /\ fr.mod \in Modules
  BY <1>1, <1>3, FrameFacts DEF Inv, FrameOK
<1>5. fr.way \in Ways(fr.mod) /\ ~fr.notFound /\ ~Holds(fr) /\ Childless(frames, p)
  <2>1. Childless(frames, p)
    BY <1>1, <1>3, <1>4, NoChildren DEF Sys
  <2> QED BY <1>3, <1>4, <2>1 DEF EvictOK, Holds, IsAccess, IsRequest, Processing
<1>6. state \in BlockStates
  BY <1>2, <1>4, <1>5, StorageFacts
<1>7. CASE fr.mod = MainMemory
  <2>1. setBlock(fr.mod, fr.srcWay, NoTag, "I") /\ frames' = Return(p, Parent(p))
    BY <1>1, <1>7 DEF EvictInvalid
  <2>2. Sys(frames', dir)
    BY <1>1, <1>3, <2>1, EvictReturns
  <2>3. Storage(cache', dir)
    BY <1>4, <2>1, BlockGoes
  <2> QED BY <1>3, <2>2, <2>3 DEF Inv, Lists
<1>8. CASE fr.mod # MainMemory /\ state = "I"
  <2>1. UNCHANGED cache /\ frames' = Return(p, Parent(p))
    BY <1>1, <1>2, <1>8 DEF EvictInvalid
  <2>2. Sys(frames', dir)
    BY <1>1, <1>3, <2>1, EvictReturns
  <2> QED BY <1>3, <2>1, <2>2 DEF Inv, Lists
<1>9. CASE fr.mod # MainMemory /\ state # "I"
  <2>1. PICK h : h = [fr EXCEPT !.state = state, !.data = Dirty(state),
                                !.reply = IF Dirty(state) THEN "AckData" ELSE "Ack",
                                !.target = Low[fr.mod]]
    OBVIOUS
  <2>2. PICK ret : ret = IF state = "N" THEN "process_noncoherent" ELSE "process"
    OBVIOUS
  <2>3. /\ UNCHANGED cache
        /\ frames' = CallFindAndLock(p, h, ret, Low[fr.mod], fr.srcTag, "downup", FALSE)
    BY <1>1, <1>2, <1>9, <2>1, <2>2 DEF EvictInvalid
  <2>4. PICK x : x = Dirty(state)
    OBVIOUS
  <2>5. PICK r : r = IF x THEN "AckData" ELSE "Ack"
    OBVIOUS
  <2>6. PICK m : m = Low[fr.mod]
    OBVIOUS
  <2>7. PICK direction : direction = "downup"
    OBVIOUS
  <2>8. /\ x \in BOOLEAN /\ r \in {"Ack", "AckData"} /\ m \in Modules
        /\ direction \in {"updown", "downup"} /\ ret \in {"process", "process_noncoherent"}
        /\ fr.srcTag \in Tag
    <3>1. fr.srcTag \in Tag
      BY <1>4 DEF Frame
    <3>2. x \in BOOLEAN /\ r \in {"Ack", "AckData"}
      BY <2>4, <2>5 DEF Dirty
    <3>3. m \in Modules
      BY <1>4, <1>9, <2>6, HierarchyAssumption
    <3>4. direction \in {"updown", "downup"} /\ ret \in {"process", "process_noncoherent"}
      BY <2>2, <2>7
    <3> QED BY <3>1, <3>2, <3>3, <3>4
  <2>9. h = [fr EXCEPT !.state = state, !.data = x, !.reply = r, !.target = m]
    BY <2>1, <2>4, <2>5, <2>6
  <2>10. PICK G : G = frames'
    OBVIOUS
  <2>11. G = CallFindAndLock(p, h, ret, m, fr.srcTag, direction, FALSE)
    BY <2>3, <2>6, <2>7, <2>10
  <2>12. /\ h \in Frame /\ h.target = m /\ h.kind = fr.kind /\ h.notFound = fr.notFound
         /\ h.ret = fr.ret /\ h.mod = fr.mod /\ h.addr = fr.addr /\ h.dir = fr.dir
    <3>1. fr \in Frame /\ state \in BlockStates /\ x \in BOOLEAN /\ r \in {"Ack", "AckData"}
          /\ m \in Modules
      BY <1>4, <1>6, <2>8
    <3> QED BY <2>9, <3>1 DEF Frame
  <2>13. /\ h.kind = "evict" /\ ~h.notFound /\ SameCall(frames[p], h) /\ ~Holds(frames[p])
         /\ Childless(frames, p) /\ Sys(frames, dir) /\ h \in Frame /\ m = h.target
    BY <1>1, <1>3, <1>4, <1>5, <2>12 DEF SameCall
  <2>14. Sys(G, dir)
    BY <2>8, <2>11, <2>13, EvictAsks
  <2> QED BY <1>3, <2>3, <2>10, <2>14 DEF Inv, Lists
<1> QED BY <1>7, <1>8, <1>9

-----------------------------------------------------------------------------
(* Replies. *)

\* What a request or an eviction leaves in its caller before it replies.
Told(g, h) ==
    \/ h = [g EXCEPT !.error = TRUE]
    \/ \E b \in BOOLEAN : h = [g EXCEPT !.shared = b]
    \/ \E r \in {"Ack", "AckData"} : h = SetReplyIfHigher(g, r)

\* The frame that replies.
Replies(f, g) ==
    \/ g = [f EXCEPT !.pc = "reply"]
    \/ \E b \in BOOLEAN : g = [f EXCEPT !.pc = "reply", !.data = b]

\* Flags for its caller do not change at which event the caller is.
LEMMA ToldFacts ==
    ASSUME NEW g \in Frame, FrameOK(g), g.pc \in {"call", "finish"}, NEW h, Told(g, h)
    PROVE  h \in Frame /\ FrameOK(h) /\ SameFlags(g, h)
<1> DEFINE Same == /\ h \in Frame /\ SameFlags(g, h) /\ h.tag = g.tag /\ h.state = g.state
                   /\ h.notFound = g.notFound
<1>1. Same
  <2>1. CASE h = [g EXCEPT !.error = TRUE]
    BY <2>1 DEF Frame, SameFlags
  <2>2. ASSUME NEW b \in BOOLEAN, h = [g EXCEPT !.shared = b] PROVE Same
    BY <2>2 DEF Frame, SameFlags
  <2>3. ASSUME NEW r \in {"Ack", "AckData"}, h = SetReplyIfHigher(g, r) PROVE Same
    <3>1. PICK x : x = IF g.reply = "AckData" \/ r = "AckData" THEN "AckData" ELSE r
      OBVIOUS
    <3>2. h = [g EXCEPT !.reply = x] /\ x \in {"None", "Ack", "AckData"}
      BY <2>3, <3>1 DEF SetReplyIfHigher
    <3> QED BY <3>2 DEF Frame, SameFlags
  <2> HIDE DEF Same
  <2> QED BY <2>1, <2>2, <2>3 DEF Told
<1>2. FrameOK(h)
  BY <1>1 DEF SameFlags, FrameOK, AccessOK, RequestOK, FindAndLockOK, EvictOK, InvalidateOK,
              IsAccess, IsRequest, MainState, Where, Processing
<1> QED BY <1>1, <1>2

\* The caller of a request or an eviction, when it is told.
LEMMA CallerTold ==
    ASSUME Sys(frames, dir), NEW p \in DOMAIN frames, ~IsAccess(frames[p]),
           NEW s, s = Front(p), NEW h, Told(frames[s], h)
    PROVE  /\ Len(p) > 1 /\ s \in DOMAIN frames /\ s # p /\ ~Childless(frames, s)
           /\ h \in Frame /\ FrameOK(h) /\ SameFlags(frames[s], h)
<1>1. Len(p) > 1
  BY FrameFacts
<1>2. s \in DOMAIN frames /\ s # p /\ Child(p, s) /\ CallOK(frames[p], frames[s])
  BY <1>1, ChildFacts DEF Sys
<1>3. frames[s].pc \in {"call", "finish"} /\ frames[s] \in Frame /\ FrameOK(frames[s])
  BY <1>2, FrameFacts DEF CallOK
<1>4. h \in Frame /\ FrameOK(h) /\ SameFlags(frames[s], h)
  BY <1>3, ToldFacts
<1> QED BY <1>1, <1>2, <1>4 DEF Childless

\* A frame that replies holds no lock any more.
LEMMA RepliesFacts ==
    ASSUME NEW f \in Frame, FrameOK(f), IsRequest(f) \/ f.kind = "evict",
           NEW g, Replies(f, g)
    PROVE  g \in Frame /\ FrameOK(g) /\ SameCall(f, g) /\ ~Holds(g) /\ g.pc = "reply"
<1>1. g \in Frame /\ g.pc = "reply" /\ Like(f, g) /\ g.way = f.way /\ g.state = f.state
  <2>1. CASE g = [f EXCEPT !.pc = "reply"]
    BY <2>1 DEF Frame, Like, Events
  <2>2. ASSUME NEW b \in BOOLEAN, g = [f EXCEPT !.pc = "reply", !.data = b]
        PROVE  g \in Frame /\ g.pc = "reply" /\ Like(f, g) /\ g.way = f.way
               /\ g.state = f.state
    BY <2>2 DEF Frame, Like, Events
  <2> QED BY <2>1, <2>2 DEF Replies
<1>2. FrameOK(g)
  BY <1>1 DEF Like, FrameOK, RequestOK, EvictOK, IsAccess, IsRequest, MainState, Where,
              Processing
<1>3. SameCall(f, g) /\ ~Holds(g)
  BY <1>1 DEF Like, IsAccess, IsRequest, SameCall, Holds, Processing
<1> QED BY <1>1, <1>2, <1>3

\* A frame without a lock replies, and tells its caller.
LEMMA RepliesAndTells ==
    ASSUME Sys(frames, dir), NEW p \in DOMAIN frames, NEW fr, fr = frames[p],
           IsRequest(fr) \/ fr.kind = "evict", Childless(frames, p), ~Holds(fr),
           NEW f, Replies(fr, f), NEW s, s = Front(p), NEW h, Told(frames[s], h),
           NEW G, DOMAIN G = DOMAIN frames, G[p] = f, G[s] = h,
           \A q \in DOMAIN frames : q # p /\ q # s => G[q] = frames[q]
    PROVE  Sys(G, dir)
<1>1. fr \in Frame /\ FrameOK(fr) /\ ~IsAccess(fr)
  BY FrameFacts DEF IsAccess, IsRequest
<1>2. f \in Frame /\ FrameOK(f) /\ SameCall(fr, f) /\ ~Holds(f) /\ f.pc = "reply"
  BY <1>1, RepliesFacts
<1>3. /\ Len(p) > 1 /\ s \in DOMAIN frames /\ s # p /\ ~Childless(frames, s)
      /\ h \in Frame /\ FrameOK(h) /\ SameFlags(frames[s], h)
  BY <1>1, CallerTold
<1>4. PICK D : D = [frames EXCEPT ![s] = h]
  OBVIOUS
<1>5. DOMAIN D = DOMAIN frames /\ D[s] = h /\ \A q \in DOMAIN frames : q # s => D[q] = frames[q]
  BY <1>3, <1>4
<1>6. Sys(D, dir)
  BY <1>3, <1>5, Tells
<1>7. Childless(D, p) /\ D[p] = fr /\ p \in DOMAIN D
  BY <1>3, <1>5 DEF Childless
<1>8. SameCall(D[p], f) /\ SameHold(D[p], f) /\ f.pc # "wait"
  BY <1>2, <1>7 DEF SameHold
<1>9. /\ DOMAIN G = DOMAIN D /\ G[p] = f /\ \A q \in DOMAIN D : q # p => G[q] = D[q]
  BY <1>5
<1>10. \A q \in DOMAIN D : Child(q, p) => CallOK(D[q], f)
  BY <1>7 DEF Childless
<1>11. f \in Frame /\ FrameOK(f) /\ p \in DOMAIN D /\ Tree(D) /\ Locks(D, dir)
  BY <1>2, <1>6, <1>7 DEF Sys
<1>12. Tree(G)
  BY <1>8, <1>9, <1>10, <1>11, TreeChange
<1>13. Locks(G, dir)
  BY <1>8, <1>9, <1>11, LocksChange
<1> QED BY <1>12, <1>13 DEF Sys

\* A frame unlocks its entry, which is e now, and replies.
LEMMA UnlocksAndReplies ==
    ASSUME Sys(frames, dir), NEW c, Storage(c, dir), NEW p \in DOMAIN frames,
           Childless(frames, p), NEW fr, fr = frames[p], Holds(fr),
           IsRequest(fr) \/ fr.kind = "evict", NEW f, Replies(fr, f),
           NEW e \in Entry, MainMemory \notin e.sharers, e.owner # MainMemory,
           UnlockEntry(fr.target, fr.way, e, With(p, f))
    PROVE  Sys(frames', dir') /\ Storage(c, dir')
<1>1. fr \in Frame /\ FrameOK(fr) /\ Where(fr) = fr.target
  BY FrameFacts DEF Where, IsRequest
<1>2. f \in Frame /\ FrameOK(f) /\ SameCall(fr, f) /\ ~Holds(f) /\ f.pc # "wait"
  BY <1>1, RepliesFacts
<1>3. PICK m : m = fr.target
  OBVIOUS
<1>4. PICK w : w = fr.way
  OBVIOUS
<1>5. m \in Modules /\ w \in Ways(m) /\ m = Where(frames[p]) /\ w = frames[p].way
  BY <1>1, <1>3, <1>4, FrameFacts
<1>6. PICK E : E = With(p, f)
  OBVIOUS
<1>7. DOMAIN E = DOMAIN frames /\ E[p] = f /\ \A q \in DOMAIN frames : q # p => E[q] = frames[q]
  BY <1>6 DEF With
<1>8. UnlockEntry(m, w, e, E)
  BY <1>3, <1>4, <1>6
<1>9. Storage(c, dir') /\ Relocked(dir, dir', m, w, 0) /\ frames' = WakeupAll(E, m, w)
  BY <1>5, <1>8, UnlockEntryOf
<1>10. SameCall(frames[p], f) /\ Holds(frames[p])
  BY <1>2
<1>11. Sys(WakeupAll(E, m, w), dir')
  BY <1>2, <1>5, <1>7, <1>9, <1>10, Unlocks
<1> QED BY <1>9, <1>11

\* It tells its caller, too.
LEMMA UnlocksAndAnswers ==
    ASSUME Sys(frames, dir), NEW c, Storage(c, dir), NEW p \in DOMAIN frames,
           Childless(frames, p), NEW fr, fr = frames[p], Holds(fr),
           IsRequest(fr) \/ fr.kind = "evict", NEW f, Replies(fr, f),
           NEW s, s = Front(p), NEW h, Told(frames[s], h),
           NEW e \in Entry, MainMemory \notin e.sharers, e.owner # MainMemory,
           NEW E, DOMAIN E = DOMAIN frames, E[p] = f, E[s] = h,
           \A q \in DOMAIN frames : q # p /\ q # s => E[q] = frames[q],
           UnlockEntry(fr.target, fr.way, e, E)
    PROVE  Sys(frames', dir') /\ Storage(c, dir')
<1>1. fr \in Frame /\ FrameOK(fr) /\ Where(fr) = fr.target /\ ~IsAccess(fr)
  BY FrameFacts DEF Where, IsRequest, IsAccess
<1>2. f \in Frame /\ FrameOK(f) /\ SameCall(fr, f) /\ ~Holds(f) /\ f.pc # "wait"
  BY <1>1, RepliesFacts
<1>3. PICK m : m = fr.target
  OBVIOUS
<1>4. PICK w : w = fr.way
  OBVIOUS
<1>5. m \in Modules /\ w \in Ways(m) /\ m = Where(frames[p]) /\ w = frames[p].way
  BY <1>1, <1>3, <1>4, FrameFacts
<1>6. Len(p) > 1 /\ h \in Frame /\ FrameOK(h) /\ SameFlags(frames[s], h)
  BY <1>1, CallerTold
<1>7. UnlockEntry(m, w, e, E)
  BY <1>3, <1>4
<1>8. Storage(c, dir') /\ Relocked(dir, dir', m, w, 0) /\ frames' = WakeupAll(E, m, w)
  BY <1>5, <1>7, UnlockEntryOf
<1>9. SameCall(frames[p], f) /\ Holds(frames[p])
  BY <1>2
<1>10. Sys(WakeupAll(E, m, w), dir')
  <2>1. Relocked(dir, dir', m, w, 0)
    BY <1>8
  <2>2. PICK d1 : d1 = dir'
    OBVIOUS
  <2>3. Relocked(dir, d1, m, w, 0) /\ m = Where(frames[p]) /\ w = frames[p].way
    BY <1>5, <2>1, <2>2
  <2>4. Sys(WakeupAll(E, m, w), d1)
    BY <1>2, <1>6, <1>9, <2>3, UnlocksAndTells, SMTT(60)
  <2> QED BY <2>2, <2>4
<1> QED BY <1>8, <1>10

\* The eviction could not lock its entry in the lower module.
LEMMA EvictErrorInv ==
    ASSUME Inv, NEW p \in DOMAIN frames, EvictError(p)
    PROVE  Inv'
<1>1. PICK fr : fr = frames[p]
  OBVIOUS
<1>2. PICK s : s = Front(p)
  OBVIOUS
<1>3. PICK f : f = [fr EXCEPT !.pc = "reply"]
  OBVIOUS
<1>4. PICK h : h = [frames[s] EXCEPT !.error = TRUE]
  OBVIOUS
<1>5. /\ fr.kind = "evict" /\ Processing(fr) /\ fr.error
      /\ UNCHANGED <<cache, dir, accesses, unsaved>>
      /\ frames' = [With(p, f) EXCEPT ![s].error = TRUE]
  BY <1>1, <1>2, <1>3 DEF EvictError, Processing
<1>6. Sys(frames, dir) /\ ~Holds(fr) /\ Childless(frames, p) /\ ~IsAccess(fr)
  <2>1. Sys(frames, dir)
    BY DEF Inv
  <2>2. Childless(frames, p)
    BY <1>1, <1>5, <2>1, NoChildren DEF Sys, Processing
  <2> QED BY <1>5, <2>1, <2>2 DEF Holds, IsAccess, IsRequest
<1>7. Replies(fr, f) /\ Told(frames[s], h)
  BY <1>3, <1>4 DEF Replies, Told
<1>8. s \in DOMAIN frames /\ s # p
  BY <1>1, <1>2, <1>6, <1>7, CallerTold
<1>9. /\ DOMAIN frames' = DOMAIN frames /\ frames'[p] = f /\ frames'[s] = h
      /\ \A q \in DOMAIN frames : q # p /\ q # s => frames'[q] = frames[q]
  BY <1>4, <1>5, <1>8 DEF With
<1>10. PICK G : G = frames'
  OBVIOUS
<1>11. /\ DOMAIN G = DOMAIN frames /\ G[p] = f /\ G[s] = h
       /\ \A q \in DOMAIN frames : q # p /\ q # s => G[q] = frames[q]
  BY <1>9, <1>10
<1>12. IsRequest(fr) \/ fr.kind = "evict"
  BY <1>5
<1>13. Sys(G, dir)
  BY <1>1, <1>2, <1>6, <1>7, <1>11, <1>12, RepliesAndTells
<1> QED BY <1>5, <1>10, <1>13 DEF Inv, Lists

\* The lower module takes the block back.
LEMMA EvictProcessInv ==
    ASSUME Inv, NEW p \in DOMAIN frames, ~frames[p].notFound, EvictProcess(p)
    PROVE  Inv'
<1>1. PICK fr : fr = frames[p]
  OBVIOUS
<1>2. PICK f : f = [fr EXCEPT !.pc = "reply", !.data = FALSE]
  OBVIOUS
<1>3. PICK e : e = Without(dir[fr.target][fr.way], {fr.mod})
  OBVIOUS
<1>4. /\ fr.kind = "evict" /\ Processing(fr) /\ ~fr.error /\ ~fr.notFound
      /\ UNCHANGED accesses
      /\ UnlockEntry(fr.target, fr.way, e, With(p, f))
      /\ Saved(fr.target, fr.tag, fr.data)
      /\ UNCHANGED cache \/ setBlock(fr.target, fr.way, fr.tag, Written(fr.state))
  BY <1>1, <1>2, <1>3 DEF EvictProcess, Processing
<1>5. /\ fr \in Frame /\ EvictOK(fr) /\ Sys(frames, dir) /\ Storage(cache, dir)
      /\ Holds(fr) /\ Where(fr) = fr.target
  BY <1>1, <1>4, FrameFacts DEF Inv, FrameOK, Holds, Where
<1>6. Childless(frames, p)
  BY <1>1, <1>4, <1>5, NoChildren DEF Sys, Processing
<1>7. Storage(cache', dir)
  <2>1. CASE UNCHANGED cache
    BY <1>5, <2>1
  <2>2. CASE setBlock(fr.target, fr.way, fr.tag, Written(fr.state))
    <3>1. PICK x : x = Written(fr.state)
      OBVIOUS
    <3>2. /\ fr.target \in Modules /\ fr.tag \in Tag /\ x \in BlockStates
          /\ (fr.target = MainMemory => x \in {"I", "E", "M"})
          /\ setBlock(fr.target, fr.way, fr.tag, x)
      BY <1>4, <1>5, <2>2, <3>1 DEF Written, BlockStates, Frame, EvictOK, MainState
    <3> QED BY <1>5, <3>2, SetBlockOf
  <2> QED BY <1>4, <2>1, <2>2
<1>8. /\ dir[fr.target][fr.way] \in Entry /\ MainMemory \notin dir[fr.target][fr.way].sharers
      /\ dir[fr.target][fr.way].owner # MainMemory
  BY <1>1, <1>5, HeldEntry
<1>9. e \in Entry /\ MainMemory \notin e.sharers /\ e.owner # MainMemory
  BY <1>3, <1>8, EntryUpdates, HierarchyAssumption
<1>10. Replies(fr, f)
  BY <1>2 DEF Replies
<1>11. IsRequest(fr) \/ fr.kind = "evict"
  BY <1>4
<1>12. Sys(frames', dir') /\ Storage(cache', dir')
  <2>1. UnlockEntry(fr.target, fr.way, e, With(p, f)) /\ Holds(fr)
    BY <1>4, <1>5
  <2> QED BY <1>1, <1>5, <1>6, <1>7, <1>9, <1>10, <1>11, <2>1, UnlocksAndReplies
<1>13. unsaved' \subseteq unsaved
  BY <1>4 DEF Saved
<1> QED BY <1>4, <1>12, <1>13 DEF Inv, Lists

-----------------------------------------------------------------------------
(* write_request and read_request *)

\* The request has found no block, or could not lock its entry.
LEMMA RequestNoBlock ==
    ASSUME Inv, NEW p \in DOMAIN frames, NEW fr, fr = frames[p], IsRequest(fr),
           fr.pc = "action", fr.error \/ fr.notFound,
           NEW s, s = Front(p), NEW f, f = [fr EXCEPT !.pc = "reply"],
           frames' = [With(p, f) EXCEPT ![s] = IF fr.error THEN [@ EXCEPT !.error = TRUE]
                                               ELSE SetReplyIfHigher(@, "Ack")]
    PROVE  Sys(frames', dir)
<1>1. Sys(frames, dir) /\ fr \in Frame /\ RequestOK(fr)
  BY FrameFacts DEF Inv, FrameOK
<1>2. ~Holds(fr) /\ Childless(frames, p) /\ ~IsAccess(fr)
  <2>1. fr.kind # "invalidate" /\ fr.pc # "call"
    BY DEF IsRequest
  <2>2. Childless(frames, p)
    BY <1>1, <2>1, NoChildren DEF Sys
  <2>3. fr.way = 0
    BY <1>1 DEF RequestOK
  <2> QED BY <2>2, <2>3 DEF Holds, IsAccess, IsRequest
<1>3. PICK h : h = IF fr.error THEN [frames[s] EXCEPT !.error = TRUE]
                   ELSE SetReplyIfHigher(frames[s], "Ack")
  OBVIOUS
<1>4. Told(frames[s], h) /\ Replies(fr, f)
  BY <1>3 DEF Told, Replies
<1>5. s \in DOMAIN frames /\ s # p
  BY <1>1, <1>2, <1>4, CallerTold
<1>6. PICK G : G = frames'
  OBVIOUS
<1>7. /\ DOMAIN G = DOMAIN frames /\ G[p] = f /\ G[s] = h
      /\ \A q \in DOMAIN frames : q # p /\ q # s => G[q] = frames[q]
  BY <1>3, <1>5, <1>6 DEF With
<1>8. Sys(frames, dir) /\ (IsRequest(fr) \/ fr.kind = "evict")
  BY <1>1
<1>9. Sys(G, dir)
  BY <1>2, <1>4, <1>7, <1>8, RepliesAndTells
<1> QED BY <1>6, <1>9

\* A write request whose find-and-lock chain has found no block, or has failed.
LEMMA WriteRequestNoBlockInv ==
    ASSUME Inv, NEW p \in DOMAIN frames, WriteRequestNoBlock(p)
    PROVE  Inv'
<1>1. PICK fr : fr = frames[p]
  OBVIOUS
<1>2. PICK s : s = Front(p)
  OBVIOUS
<1>3. PICK f : f = [fr EXCEPT !.pc = "reply"]
  OBVIOUS
<1>4. /\ IsRequest(fr) /\ fr.pc = "action" /\ (fr.error \/ fr.notFound)
      /\ UNCHANGED <<cache, dir, accesses, unsaved>>
      /\ frames' = [With(p, f) EXCEPT ![s] = IF fr.error THEN [@ EXCEPT !.error = TRUE]
                                             ELSE SetReplyIfHigher(@, "Ack")]
  BY <1>1, <1>2, <1>3 DEF WriteRequestNoBlock, At, IsRequest
<1>5. Sys(frames', dir)
  BY <1>1, <1>2, <1>3, <1>4, RequestNoBlock
<1> QED BY <1>4, <1>5 DEF Inv, Lists

\* A read request whose find-and-lock chain has found no block, or has failed.
LEMMA ReadRequestNoBlockInv ==
    ASSUME Inv, NEW p \in DOMAIN frames, ReadRequestNoBlock(p)
    PROVE  Inv'
<1>1. PICK fr : fr = frames[p]
  OBVIOUS
<1>2. PICK s : s = Front(p)
  OBVIOUS
<1>3. PICK f : f = [fr EXCEPT !.pc = "reply"]
  OBVIOUS
<1>4. /\ IsRequest(fr) /\ fr.pc = "action" /\ (fr.error \/ fr.notFound)
      /\ UNCHANGED <<cache, dir, accesses, unsaved>>
      /\ frames' = [With(p, f) EXCEPT ![s] = IF fr.error THEN [@ EXCEPT !.error = TRUE]
                                             ELSE SetReplyIfHigher(@, "Ack")]
  BY <1>1, <1>2, <1>3 DEF ReadRequestNoBlock, At, IsRequest
<1>5. Sys(frames', dir)
  BY <1>1, <1>2, <1>3, <1>4, RequestNoBlock
<1> QED BY <1>4, <1>5 DEF Inv, Lists

\* A request that holds its lock goes on with event e.
LEMMA RequestGoes ==
    ASSUME Sys(frames, dir), NEW p \in DOMAIN frames, Childless(frames, p),
           NEW fr, fr = frames[p], IsRequest(fr), fr.way # 0, fr.pc # "reply",
           NEW e \in Events, e \notin {"reply", "wait"},
           NEW f, f = [fr EXCEPT !.pc = e], RequestOK(f)
    PROVE  Sys(With(p, f), dir)
<1>1. fr \in Frame
  BY FrameFacts
<1>2. f \in Frame /\ f.pc = e /\ Like(fr, f) /\ f.way = fr.way
  BY <1>1, NextEvent
<1>3. /\ FrameOK(f) /\ SameCall(fr, f) /\ SameHold(fr, f) /\ f.pc # "wait"
  BY <1>2 DEF FrameOK, Like, IsAccess, IsRequest, SameCall, SameHold, SameLock, Holds, Where
<1>4. SameCall(frames[p], f) /\ SameHold(frames[p], f) /\ f.pc # "wait"
  BY <1>3
<1>5. PICK G : G = [frames EXCEPT ![p] = f]
  OBVIOUS
<1>6. Sys(G, dir)
  BY <1>2, <1>3, <1>4, <1>5, Goes
<1> QED BY <1>5, <1>6 DEF With

\* The other sharers are invalidated.
LEMMA WriteRequestActionInv ==
    ASSUME Inv, NEW p \in DOMAIN frames, WriteRequestAction(p)
    PROVE  Inv'
<1>1. PICK fr : fr = frames[p]
  OBVIOUS
<1>2. PICK f : f = [fr EXCEPT !.pc = "call"]
  OBVIOUS
<1>3. PICK g : g = [NewFrame("invalidate", "exclusive", fr.target, fr.addr) EXCEPT
                       !.pc = "invalidate", !.way = fr.way, !.except = fr.mod]
  OBVIOUS
<1>4. /\ fr.kind = "write_request" /\ fr.pc = "action" /\ ~fr.error /\ ~fr.notFound
      /\ UNCHANGED <<cache, dir, accesses, unsaved>>
      /\ frames' = Call(With(p, f), Append(p, "invalidate"), g)
  BY <1>1, <1>2, <1>3 DEF WriteRequestAction, At
<1>5. /\ fr \in Frame /\ RequestOK(fr) /\ Sys(frames, dir) /\ fr.way # 0
      /\ Holds(fr) /\ Where(fr) = fr.target
  BY <1>1, <1>4, FrameFacts DEF Inv, FrameOK, IsRequest, RequestOK, Holds, Where
<1>6. fr.way \in Ways(fr.target) /\ Childless(frames, p)
  <2>1. Childless(frames, p)
    BY <1>1, <1>4, <1>5, NoChildren DEF Sys
  <2> QED BY <1>1, <1>5, <2>1, FrameFacts
<1>7. f \in Frame /\ f.pc = "call" /\ Like(fr, f) /\ f.way = fr.way /\ f.state = fr.state
  BY <1>2, <1>5 DEF Frame, Events, Like
<1>8. FrameOK(f) /\ SameCall(fr, f) /\ SameHold(fr, f)
  BY <1>4, <1>5, <1>7
  DEF Like, FrameOK, RequestOK, IsAccess, IsRequest, MainState, Where, SameCall, SameHold,
      Holds, SameLock
<1>9. PICK n : n = NewFrame("invalidate", "exclusive", fr.target, fr.addr)
  OBVIOUS
<1>10. /\ g \in Frame /\ g.kind = "invalidate" /\ g.ret = "exclusive" /\ g.mod = fr.target
       /\ g.way = fr.way /\ g.pc = "invalidate"
  <2>1. fr.target \in Modules /\ fr.addr \in Tag /\ fr.mod \in Modules /\ fr.way \in Nat
    BY <1>5 DEF Frame
  <2>2. n \in Frame /\ n.kind = "invalidate" /\ n.ret = "exclusive" /\ n.mod = fr.target
    BY <1>9, <2>1, HierarchyAssumption
    DEF NewFrame, Frame, Events, Tag, BlockStates, Kinds
  <2>3. g = [n EXCEPT !.pc = "invalidate", !.way = fr.way, !.except = fr.mod]
    BY <1>3, <1>9
  <2> QED BY <2>1, <2>2, <2>3 DEF Frame, Events
<1>11. FrameOK(g) /\ ~IsAccess(g) /\ ~Holds(g) /\ g.pc # "wait" /\ g \in Frame
  <2>1. g.kind = "invalidate" /\ g.pc = "invalidate" /\ g.way \in Ways(g.mod)
    BY <1>6, <1>10
  <2> QED BY <1>10, <2>1, InvalidateFrameFacts
<1>12. CallOK(g, f)
  BY <1>4, <1>5, <1>7, <1>10 DEF CallOK, Like
<1>13. Sys(frames', dir)
  <2>1. SameCall(frames[p], f) /\ SameHold(frames[p], f) /\ f.pc # "wait"
    BY <1>1, <1>7, <1>8
  <2>2. frames' = Call(With(p, f), Append(p, "invalidate"), g) /\ FrameOK(f) /\ f \in Frame
    BY <1>4, <1>7, <1>8
  <2> QED BY <1>5, <1>6, <1>11, <1>12, <2>1, <2>2, CallsInvalidate
<1> QED BY <1>4, <1>13 DEF Inv, Lists

\* A request that holds its lock calls another one.
LEMMA RequestAsks ==
    ASSUME Sys(frames, dir), NEW p \in DOMAIN frames, Childless(frames, p),
           NEW fr, fr = frames[p], IsRequest(fr), fr.way # 0, fr.pc # "reply",
           NEW kind \in {"read_request", "write_request"},
           NEW direction \in {"updown", "downup"},
           NEW ret \in Events, NEW m \in Modules, NEW t \in Tag, NEW target \in Modules,
           direction = "updown" => m # MainMemory,
           direction = "downup" => target # MainMemory,
           \A g, h : /\ g.kind = fr.kind /\ g.dir = fr.dir /\ g.target = fr.target
                     /\ g.way # 0 /\ g.pc = "call"
                     /\ h.kind = kind /\ h.ret = ret /\ h.mod = m /\ h.dir = direction
                     => CallOK(h, g),
           NEW request, request = [NewFrame(kind, ret, m, t) EXCEPT !.dir = direction],
           NEW G, G = CallRequest(p, fr, "request", request, target)
    PROVE  Sys(G, dir)
<1>1. fr \in Frame /\ RequestOK(fr) /\ fr.pc # "wait"
  BY FrameFacts DEF FrameOK, RequestOK
<1>2. PICK b : b = IF kind = "read_request" THEN FALSE ELSE frames[p].shared
  OBVIOUS
<1>3. b \in BOOLEAN
  BY <1>1, <1>2 DEF Frame
<1>4. PICK f : f = [frames[p] EXCEPT !.pc = "call", !.error = FALSE, !.shared = b]
  OBVIOUS
<1>5. f \in Frame /\ f.pc = "call" /\ Like(fr, f) /\ f.way = fr.way /\ f.state = fr.state
  <2>1. f = [fr EXCEPT !.pc = "call", !.error = FALSE, !.shared = b]
    BY <1>4
  <2> QED BY <1>1, <1>3, <2>1, CallingFrame
<1>6. FrameOK(f) /\ SameCall(fr, f) /\ SameHold(fr, f)
  BY <1>1, <1>5
  DEF Like, FrameOK, RequestOK, IsAccess, IsRequest, MainState, Where, SameCall, SameHold,
      Holds, SameLock
<1>7. \A h : h.kind = kind /\ h.ret = ret /\ h.mod = m /\ h.dir = direction => CallOK(h, f)
  BY <1>5 DEF Like
<1>8. G = CallRequest(p, frames[p], "request", request, target)
  BY DEF CallRequest
<1>9. FrameOK(f) /\ SameCall(frames[p], f) /\ SameHold(frames[p], f)
  BY <1>6
<1> QED BY <1>2, <1>3, <1>4, <1>7, <1>8, <1>9, CallsRequest

\* A write request from above, which may have to ask the module below.
LEMMA WriteRequestUpdownInv ==
    ASSUME Inv, NEW p \in DOMAIN frames, WriteRequestUpdown(p)
    PROVE  Inv'
<1>1. PICK fr : fr = frames[p]
  OBVIOUS
<1>2. /\ fr.kind = "write_request" /\ fr.pc = "exclusive" /\ fr.dir = "updown"
      /\ UNCHANGED <<cache, dir, accesses, unsaved>>
  BY <1>1 DEF WriteRequestUpdown, At
<1>3. /\ fr \in Frame /\ RequestOK(fr) /\ Sys(frames, dir) /\ fr.way # 0 /\ IsRequest(fr)
  BY <1>1, <1>2, FrameFacts DEF Inv, FrameOK, IsRequest, RequestOK
<1>4. Childless(frames, p)
  BY <1>1, <1>2, <1>3, NoChildren DEF Sys
<1>5. Sys(frames', dir)
  <2>1. CASE fr.state \in {"M", "E"}
    <3>1. PICK f : f = [fr EXCEPT !.pc = "updown_finish"]
      OBVIOUS
    <3>2. PICK e : e = "updown_finish"
      OBVIOUS
    <3>3. frames' = With(p, f)
      BY <1>1, <2>1, <3>1 DEF WriteRequestUpdown, Goto
    <3>4. RequestOK(f)
      <4>1. f.pc = "updown_finish" /\ Like(fr, f) /\ f.way = fr.way /\ f.state = fr.state
        BY <1>3, <3>1 DEF Frame, Like
      <4> QED BY <1>2, <1>3, <4>1 DEF RequestOK, MainState, Where, Like
    <3>5. e \in Events /\ e \notin {"reply", "wait"} /\ f = [fr EXCEPT !.pc = e]
          /\ fr.pc # "reply"
      BY <1>2, <3>1, <3>2 DEF Events
    <3> QED BY <1>1, <1>3, <1>4, <3>3, <3>4, <3>5, RequestGoes
  <2>2. CASE fr.state \notin {"M", "E"}
    <3>1. PICK request : request = UpDown("write_request", "updown_finish", fr.target, fr.tag)
      OBVIOUS
    <3>2. PICK target : target = Low[fr.target]
      OBVIOUS
    <3>3. frames' = CallRequest(p, fr, "request", request, target)
      BY <1>1, <2>2, <3>1, <3>2 DEF WriteRequestUpdown
    <3>4. request = [NewFrame("write_request", "updown_finish", fr.target, fr.tag)
                        EXCEPT !.dir = "updown"]
      BY <3>1 DEF UpDown
    <3>5. fr.target # MainMemory
      BY <1>2, <1>3, <2>2 DEF RequestOK, MainState, Where
    <3>6. /\ fr.target \in Modules /\ fr.tag \in Tag /\ target \in Modules
          /\ "updown_finish" \in Events /\ fr.pc # "reply"
      BY <1>2, <1>3, <3>2, <3>5, HierarchyAssumption DEF Frame, Events
    <3>7. \A g, h : /\ g.kind = fr.kind /\ g.dir = fr.dir /\ g.target = fr.target
                    /\ g.way # 0 /\ g.pc = "call"
                    /\ h.kind = "write_request" /\ h.ret = "updown_finish"
                    /\ h.mod = fr.target /\ h.dir = "updown"
                    => CallOK(h, g)
      BY <1>2 DEF CallOK
    <3> QED BY <1>1, <1>3, <1>4, <3>3, <3>4, <3>5, <3>6, <3>7, RequestAsks
  <2> QED BY <2>1, <2>2
<1> QED BY <1>2, <1>5 DEF Inv, Lists

\* The requester becomes the owner.
LEMMA WriteRequestUpdownFinishInv ==
    ASSUME Inv, NEW p \in DOMAIN frames, WriteRequestUpdownFinish(p)
    PROVE  Inv'
<1>1. PICK fr : fr = frames[p]
  OBVIOUS
<1>2. PICK f : f = [fr EXCEPT !.pc = "reply"]
  OBVIOUS
<1>3. PICK s : s = Front(p)
  OBVIOUS
<1>4. PICK e : e = dir[fr.target][fr.way]
  OBVIOUS
<1>5. /\ fr.kind = "write_request" /\ fr.pc = "updown_finish" /\ UNCHANGED <<accesses, unsaved>>
      /\ \/ /\ UnlockEntry(fr.target, fr.way, e, [With(p, f) EXCEPT ![s].error = TRUE])
            /\ UNCHANGED cache
         \/ /\ setBlock(fr.target, fr.way, fr.tag, "E")
            /\ UnlockEntry(fr.target, fr.way, WithOwner(e, fr.mod), With(p, f))
  BY <1>1, <1>2, <1>3, <1>4 DEF WriteRequestUpdownFinish, At
<1>6. /\ fr \in Frame /\ RequestOK(fr) /\ Sys(frames, dir) /\ Storage(cache, dir)
      /\ IsRequest(fr)
  BY <1>1, <1>5, FrameFacts DEF Inv, FrameOK, IsRequest
<1>7. Holds(fr) /\ Where(fr) = fr.target /\ fr.mod # MainMemory /\ fr.mod \in Modules
  BY <1>5, <1>6 DEF RequestOK, Holds, Where, IsRequest, Frame
<1>8. Childless(frames, p)
  BY <1>1, <1>5, <1>6, NoChildren DEF Sys
<1>9. e \in Entry /\ MainMemory \notin e.sharers /\ e.owner # MainMemory
  BY <1>1, <1>4, <1>6, <1>7, HeldEntry
<1>10. Replies(fr, f)
  BY <1>2 DEF Replies
<1>11. CASE /\ UnlockEntry(fr.target, fr.way, e, [With(p, f) EXCEPT ![s].error = TRUE])
            /\ UNCHANGED cache
  <2>1. PICK h : h = [frames[s] EXCEPT !.error = TRUE]
    OBVIOUS
  <2>2. Told(frames[s], h)
    BY <2>1 DEF Told
  <2>3. s \in DOMAIN frames /\ s # p
    <3>1. ~IsAccess(frames[p])
      BY <1>1, <1>6 DEF IsAccess, IsRequest
    <3> QED BY <1>3, <1>6, <2>2, <3>1, CallerTold
  <2>4. PICK E : E = [With(p, f) EXCEPT ![s].error = TRUE]
    OBVIOUS
  <2>5. /\ DOMAIN E = DOMAIN frames /\ E[p] = f /\ E[s] = h
        /\ \A q \in DOMAIN frames : q # p /\ q # s => E[q] = frames[q]
    BY <2>1, <2>3, <2>4 DEF With
  <2>6. UnlockEntry(fr.target, fr.way, e, E)
    BY <1>11, <2>4
  <2>7. Sys(frames', dir') /\ Storage(cache, dir')
    BY <1>1, <1>3, <1>6, <1>7, <1>8, <1>9, <1>10, <2>2, <2>5, <2>6, UnlocksAndAnswers
  <2> QED BY <1>5, <1>11, <2>7 DEF Inv, Lists
<1>12. CASE /\ setBlock(fr.target, fr.way, fr.tag, "E")
            /\ UnlockEntry(fr.target, fr.way, WithOwner(e, fr.mod), With(p, f))
  <2>1. PICK x : x = "E"
    OBVIOUS
  <2>2. /\ fr.target \in Modules /\ fr.tag \in Tag /\ x \in BlockStates
        /\ (fr.target = MainMemory => x \in {"I", "E", "M"})
        /\ setBlock(fr.target, fr.way, fr.tag, x)
    BY <1>6, <1>12, <2>1 DEF BlockStates, Frame
  <2>3. Storage(cache', dir)
    BY <1>6, <2>2, SetBlockOf
  <2>4. PICK e1 : e1 = WithOwner(e, fr.mod)
    OBVIOUS
  <2>5. e1 \in Entry /\ MainMemory \notin e1.sharers /\ e1.owner # MainMemory
    BY <1>7, <1>9, <2>4, EntryUpdates
  <2>6. UnlockEntry(fr.target, fr.way, e1, With(p, f))
    BY <1>12, <2>4
  <2>7. Sys(frames', dir') /\ Storage(cache', dir')
    BY <1>1, <1>6, <1>7, <1>8, <1>10, <2>3, <2>5, <2>6, UnlocksAndReplies
  <2> QED BY <1>5, <2>7 DEF Inv, Lists
<1> QED BY <1>5, <1>11, <1>12

\* A write request from below makes the block invalid.
LEMMA WriteRequestDownupInv ==
    ASSUME Inv, NEW p \in DOMAIN frames, WriteRequestDownup(p)
    PROVE  Inv'
<1>1. PICK fr : fr = frames[p]
  OBVIOUS
<1>2. PICK b : b = Dirty(fr.state)
  OBVIOUS
<1>3. PICK f : f = [fr EXCEPT !.pc = "reply", !.data = b]
  OBVIOUS
<1>4. PICK s : s = Front(p)
  OBVIOUS
<1>5. PICK e : e = dir[fr.target][fr.way]
  OBVIOUS
<1>6. PICK h : h = SetReplyIfHigher(frames[s], IF b THEN "AckData" ELSE "Ack")
  OBVIOUS
<1>7. PICK E : E = [With(p, f) EXCEPT ![s] = h]
  OBVIOUS
<1>8. /\ fr.kind = "write_request" /\ fr.pc = "exclusive" /\ fr.dir = "downup"
      /\ UNCHANGED <<accesses, unsaved>>
      /\ setBlock(fr.target, fr.way, NoTag, "I")
      /\ UnlockEntry(fr.target, fr.way, e,
            [With(p, f) EXCEPT ![s] = SetReplyIfHigher(@, IF b THEN "AckData" ELSE "Ack")])
  BY <1>1, <1>2, <1>3, <1>4, <1>5 DEF WriteRequestDownup, At
<1>9. /\ fr \in Frame /\ RequestOK(fr) /\ Sys(frames, dir) /\ Storage(cache, dir)
      /\ IsRequest(fr)
  BY <1>1, <1>8, FrameFacts DEF Inv, FrameOK, IsRequest
<1>10. Holds(fr) /\ Where(fr) = fr.target /\ fr.target # MainMemory /\ fr.target \in Modules
  BY <1>8, <1>9 DEF RequestOK, Holds, Where, IsRequest, Frame
<1>11. Childless(frames, p)
  BY <1>1, <1>8, <1>9, NoChildren DEF Sys
<1>12. e \in Entry /\ MainMemory \notin e.sharers /\ e.owner # MainMemory
  BY <1>1, <1>5, <1>9, <1>10, HeldEntry
<1>13. Replies(fr, f)
  <2>1. b \in BOOLEAN
    BY <1>2 DEF Dirty
  <2> QED BY <1>3, <2>1 DEF Replies
<1>14. Told(frames[s], h)
  BY <1>6 DEF Told
<1>15. /\ DOMAIN E = DOMAIN frames /\ E[p] = f /\ E[s] = h
       /\ \A q \in DOMAIN frames : q # p /\ q # s => E[q] = frames[q]
  <2>1. s \in DOMAIN frames /\ s # p
    <3>1. ~IsAccess(frames[p])
      BY <1>1, <1>9 DEF IsAccess, IsRequest
    <3> QED BY <1>4, <1>9, <1>14, <3>1, CallerTold
  <2> QED BY <1>7, <2>1 DEF With
<1>16. UnlockEntry(fr.target, fr.way, e, E)
  BY <1>1, <1>4, <1>6, <1>7, <1>8, <1>9, <1>14, CallerTold DEF With, IsRequest, IsAccess
<1>17. Storage(cache', dir)
  BY <1>8, <1>9, <1>10, BlockGoes
<1>18. Sys(frames', dir') /\ Storage(cache', dir')
  BY <1>1, <1>4, <1>9, <1>10, <1>11, <1>12, <1>13, <1>14, <1>15, <1>16, <1>17,
     UnlocksAndAnswers
<1> QED BY <1>8, <1>18 DEF Inv, Lists

\* A request returns, and its caller goes on.
LEMMA RequestReturns ==
    ASSUME Inv, NEW p \in DOMAIN frames, NEW fr, fr = frames[p], IsRequest(fr),
           fr.pc = "reply", fr.kind = "write_request" => fr.dir = "updown",
           frames' = Return(p, Parent(p))
    PROVE  Sys(frames', dir)
<1>1. PICK s : s = Front(p)
  OBVIOUS
<1>2. PICK g : g = frames[s]
  OBVIOUS
<1>3. PICK f : f = [g EXCEPT !.pc = fr.ret]
  OBVIOUS
<1>4. /\ fr \in Frame /\ RequestOK(fr) /\ Sys(frames, dir) /\ ~IsAccess(fr) /\ Len(p) > 1
  BY FrameFacts DEF Inv, FrameOK, IsRequest, IsAccess
<1>5. ~Holds(fr) /\ Childless(frames, p)
  <2>1. fr.kind # "invalidate"
    BY DEF IsRequest
  <2>2. Childless(frames, p)
    BY <1>4, <2>1, NoChildren DEF Sys
  <2> QED BY <2>2 DEF Holds, IsAccess, IsRequest
<1>6. s \in DOMAIN frames /\ s # p /\ CallOK(fr, g)
  BY <1>1, <1>2, <1>4, ChildFacts DEF Sys
<1>7. g \in Frame /\ FrameOK(g)
  BY <1>2, <1>4, <1>6, FrameFacts
<1>8. /\ g.pc = "call" /\ g.way # 0 /\ fr.ret \in {"miss", "unlock", "updown_miss", "updown_finish", "downup_finish"}
      /\ \/ /\ g.kind = "load" /\ fr.ret = "miss" /\ g.mod # MainMemory
         \/ /\ g.kind = "store" /\ fr.ret = "unlock"
         \/ /\ IsRequest(g) /\ g.dir = "updown" /\ fr.ret = "updown_finish"
         \/ /\ g.kind = "read_request" /\ g.dir = "updown" /\ fr.ret = "updown_miss"
            /\ g.target # MainMemory
         \/ /\ g.kind = "read_request" /\ g.dir = "downup" /\ fr.ret = "downup_finish"
  BY <1>4, <1>6 DEF CallOK, RequestOK, IsRequest, Where
<1>9. fr.ret \in Events
  BY <1>8 DEF Events
<1>10. f \in Frame /\ f.pc = fr.ret /\ Like(g, f) /\ f.way = g.way /\ f.tag = g.tag
       /\ f.state = g.state
  <2> QED BY <1>3, <1>7, <1>9, NextEvent
<1>11. FrameOK(f)
  BY <1>7, <1>8, <1>10, ZenonT(40)
  DEF Like, FrameOK, AccessOK, RequestOK, IsAccess, IsRequest, MainState, Where
<1>12. SameCall(g, f) /\ SameHold(g, f) /\ f.pc # "wait" /\ g.kind # "invalidate"
  BY <1>8, <1>10 DEF Like, IsAccess, IsRequest, SameCall, SameHold, SameLock, Holds, Where
<1>13. frames' = [q \in DOMAIN frames \ {p} |-> IF q = s THEN f ELSE frames[q]]
  BY <1>1, <1>2, <1>3 DEF Return, Parent
<1>14. /\ SameCall(frames[s], f) /\ SameHold(frames[s], f) /\ frames[s].kind # "invalidate"
       /\ ~Holds(frames[p]) /\ f.pc # "wait"
  BY <1>2, <1>5, <1>12
<1> QED BY <1>1, <1>4, <1>5, <1>10, <1>11, <1>13, <1>14, CallerGoesOn

\* A write request returns with its reply.
LEMMA WriteRequestFinishInv ==
    ASSUME Inv, NEW p \in DOMAIN frames, WriteRequestFinish(p)
    PROVE  Inv'
<1>1. PICK fr : fr = frames[p]
  OBVIOUS
<1>2. /\ IsRequest(fr) /\ fr.pc = "reply" /\ fr.dir = "updown"
      /\ UNCHANGED <<cache, dir, accesses, unsaved>> /\ frames' = Return(p, Parent(p))
  BY <1>1 DEF WriteRequestFinish, At, IsRequest
<1>3. Sys(frames', dir)
  BY <1>1, <1>2, RequestReturns
<1> QED BY <1>2, <1>3 DEF Inv, Lists

\* A read request returns with its reply.
LEMMA ReadRequestFinishInv ==
    ASSUME Inv, NEW p \in DOMAIN frames, ReadRequestFinish(p)
    PROVE  Inv'
<1>1. PICK fr : fr = frames[p]
  OBVIOUS
<1>2. /\ IsRequest(fr) /\ fr.pc = "reply" /\ fr.kind = "read_request"
      /\ UNCHANGED <<cache, dir, accesses>> /\ frames' = Return(p, Parent(p))
      /\ unsaved' \subseteq unsaved
  BY <1>1 DEF ReadRequestFinish, At, IsRequest, Saved
<1>3. fr.kind = "write_request" => fr.dir = "updown"
  BY <1>2
<1>4. Sys(frames', dir)
  BY <1>1, <1>2, <1>3, RequestReturns
<1> QED BY <1>2, <1>4 DEF Inv, Lists

\* An owner other than the requester, or the lower module, is asked.
LEMMA ReadRequestUpdownInv ==
    ASSUME Inv, NEW p \in DOMAIN frames, ReadRequestUpdown(p)
    PROVE  Inv'
<1>1. PICK fr : fr = frames[p]
  OBVIOUS
<1>2. PICK owner : owner = dir[fr.target][fr.way].owner
  OBVIOUS
<1>3. /\ fr.kind = "read_request" /\ fr.pc = "action" /\ fr.dir = "updown"
      /\ ~fr.error /\ ~fr.notFound /\ UNCHANGED <<cache, dir, accesses, unsaved>>
  BY <1>1 DEF ReadRequestUpdown, At
<1>4. /\ fr \in Frame /\ RequestOK(fr) /\ Sys(frames, dir) /\ IsRequest(fr) /\ Storage(cache, dir)
  BY <1>1, <1>3, FrameFacts DEF Inv, FrameOK, IsRequest
<1>5. fr.way # 0 /\ Holds(fr) /\ fr.target \in Modules /\ fr.tag \in Tag /\ fr.pc # "reply"
  BY <1>3, <1>4 DEF RequestOK, Holds, Frame
<1>6. Childless(frames, p)
  BY <1>1, <1>3, <1>4, NoChildren DEF Sys
<1>7. owner \in Modules \cup {NoModule} /\ owner # MainMemory
  <2>1. Where(fr) = fr.target
    BY <1>4 DEF Where, IsRequest
  <2>2. fr.target \in Modules /\ fr.way \in Ways(fr.target)
    BY <1>1, <1>4, <1>5, <2>1, FrameFacts
  <2> QED BY <1>2, <1>4, <2>2, StorageFacts
<1>8. Sys(frames', dir)
  <2>1. CASE fr.state = "I"
    <3>1. PICK request : request = UpDown("read_request", "updown_miss", fr.target, fr.tag)
      OBVIOUS
    <3>2. PICK target : target = Low[fr.target]
      OBVIOUS
    <3>3. frames' = CallRequest(p, fr, "request", request, target)
      BY <1>1, <2>1, <3>1, <3>2 DEF ReadRequestUpdown
    <3>4. request = [NewFrame("read_request", "updown_miss", fr.target, fr.tag)
                        EXCEPT !.dir = "updown"]
      BY <3>1 DEF UpDown
    <3>5. fr.target # MainMemory
      BY <1>3, <1>4, <1>5, <2>1 DEF RequestOK, MainState, Where
    <3>6. target \in Modules /\ "updown_miss" \in Events
      BY <1>5, <3>2, <3>5, HierarchyAssumption DEF Events
    <3>7. \A g, h : /\ g.kind = fr.kind /\ g.dir = fr.dir /\ g.target = fr.target
                    /\ g.way # 0 /\ g.pc = "call"
                    /\ h.kind = "read_request" /\ h.ret = "updown_miss"
                    /\ h.mod = fr.target /\ h.dir = "updown"
                    => CallOK(h, g)
      BY <1>3 DEF CallOK, Where
    <3> QED BY <1>1, <1>4, <1>5, <1>6, <3>3, <3>4, <3>5, <3>6, <3>7, RequestAsks
  <2>2. CASE fr.state # "I" /\ owner \notin {NoModule, fr.mod}
    <3>1. PICK request : request = DownUp("read_request", "updown_finish", fr.target, fr.tag)
      OBVIOUS
    <3>2. frames' = CallRequest(p, fr, "request", request, owner)
      BY <1>1, <1>2, <2>2, <3>1 DEF ReadRequestUpdown
    <3>3. request = [NewFrame("read_request", "updown_finish", fr.target, fr.tag)
                        EXCEPT !.dir = "downup"]
      BY <3>1 DEF DownUp
    <3>4. owner \in Modules /\ owner # MainMemory /\ "updown_finish" \in Events
      BY <1>7, <2>2 DEF Events
    <3>5. \A g, h : /\ g.kind = fr.kind /\ g.dir = fr.dir /\ g.target = fr.target
                    /\ g.way # 0 /\ g.pc = "call"
                    /\ h.kind = "read_request" /\ h.ret = "updown_finish"
                    /\ h.mod = fr.target /\ h.dir = "downup"
                    => CallOK(h, g)
      BY <1>3 DEF CallOK, Where
    <3> QED BY <1>1, <1>4, <1>5, <1>6, <3>2, <3>3, <3>4, <3>5, RequestAsks
  <2>3. CASE fr.state # "I" /\ owner \in {NoModule, fr.mod}
    <3>1. PICK f : f = [fr EXCEPT !.pc = "updown_finish"]
      OBVIOUS
    <3>2. PICK e : e = "updown_finish"
      OBVIOUS
    <3>3. frames' = With(p, f)
      BY <1>1, <1>2, <2>3, <3>1 DEF ReadRequestUpdown
    <3>4. RequestOK(f)
      <4>1. f.pc = "updown_finish" /\ Like(fr, f) /\ f.way = fr.way /\ f.state = fr.state
        BY <1>4, <3>1 DEF Frame, Like
      <4> QED BY <1>3, <1>4, <1>5, <4>1 DEF RequestOK, MainState, Where, Like
    <3>5. e \in Events /\ e \notin {"reply", "wait"} /\ f = [fr EXCEPT !.pc = e]
      BY <3>1, <3>2 DEF Events
    <3> QED BY <1>1, <1>4, <1>5, <1>6, <3>3, <3>4, <3>5, RequestGoes
  <2> QED BY <2>1, <2>2, <2>3
<1> QED BY <1>3, <1>8 DEF Inv, Lists

\* The owner above is asked.
LEMMA ReadRequestDownupInv ==
    ASSUME Inv, NEW p \in DOMAIN frames, ReadRequestDownup(p)
    PROVE  Inv'
<1>1. PICK fr : fr = frames[p]
  OBVIOUS
<1>2. PICK owner : owner = dir[fr.target][fr.way].owner
  OBVIOUS
<1>3. /\ fr.kind = "read_request" /\ fr.pc = "action" /\ fr.dir = "downup"
      /\ ~fr.error /\ ~fr.notFound /\ UNCHANGED <<cache, dir, accesses, unsaved>>
  BY <1>1 DEF ReadRequestDownup, At
<1>4. /\ fr \in Frame /\ RequestOK(fr) /\ Sys(frames, dir) /\ IsRequest(fr) /\ Storage(cache, dir)
  BY <1>1, <1>3, FrameFacts DEF Inv, FrameOK, IsRequest
<1>5. fr.way # 0 /\ Holds(fr) /\ fr.target \in Modules /\ fr.tag \in Tag /\ fr.pc # "reply"
  BY <1>3, <1>4 DEF RequestOK, Holds, Frame
<1>6. Childless(frames, p)
  BY <1>1, <1>3, <1>4, NoChildren DEF Sys
<1>7. owner \in Modules \cup {NoModule} /\ owner # MainMemory
  <2>1. Where(fr) = fr.target
    BY <1>4 DEF Where, IsRequest
  <2>2. fr.target \in Modules /\ fr.way \in Ways(fr.target)
    BY <1>1, <1>4, <1>5, <2>1, FrameFacts
  <2> QED BY <1>2, <1>4, <2>2, StorageFacts
<1>8. Sys(frames', dir)
  <2>1. CASE owner # NoModule
    <3>1. PICK request : request = DownUp("read_request", "downup_finish", fr.target, fr.tag)
      OBVIOUS
    <3>2. frames' = CallRequest(p, fr, "request", request, owner)
      BY <1>1, <1>2, <2>1, <3>1 DEF ReadRequestDownup
    <3>3. request = [NewFrame("read_request", "downup_finish", fr.target, fr.tag)
                        EXCEPT !.dir = "downup"]
      BY <3>1 DEF DownUp
    <3>4. owner \in Modules /\ owner # MainMemory /\ "downup_finish" \in Events
      BY <1>7, <2>1 DEF Events
    <3>5. \A g, h : /\ g.kind = fr.kind /\ g.dir = fr.dir /\ g.target = fr.target
                    /\ g.way # 0 /\ g.pc = "call"
                    /\ h.kind = "read_request" /\ h.ret = "downup_finish"
                    /\ h.mod = fr.target /\ h.dir = "downup"
                    => CallOK(h, g)
      BY <1>3 DEF CallOK, Where
    <3> QED BY <1>1, <1>4, <1>5, <1>6, <3>2, <3>3, <3>4, <3>5, RequestAsks
  <2>2. CASE owner = NoModule
    <3>1. PICK f : f = [fr EXCEPT !.pc = "downup_finish"]
      OBVIOUS
    <3>2. PICK e : e = "downup_finish"
      OBVIOUS
    <3>3. frames' = With(p, f)
      BY <1>1, <1>2, <2>2, <3>1 DEF ReadRequestDownup
    <3>4. RequestOK(f)
      <4>1. f.pc = "downup_finish" /\ Like(fr, f) /\ f.way = fr.way /\ f.state = fr.state
        BY <1>4, <3>1 DEF Frame, Like
      <4> QED BY <1>3, <1>4, <1>5, <4>1 DEF RequestOK, MainState, Where, Like
    <3>5. e \in Events /\ e \notin {"reply", "wait"} /\ f = [fr EXCEPT !.pc = e]
      BY <3>1, <3>2 DEF Events
    <3> QED BY <1>1, <1>4, <1>5, <1>6, <3>3, <3>4, <3>5, RequestGoes
  <2> QED BY <2>1, <2>2
<1> QED BY <1>3, <1>8 DEF Inv, Lists

\* The lower module has answered.
LEMMA ReadRequestUpdownMissInv ==
    ASSUME Inv, NEW p \in DOMAIN frames, ReadRequestUpdownMiss(p)
    PROVE  Inv'
<1>1. PICK fr : fr = frames[p]
  OBVIOUS
<1>2. PICK f : f = [fr EXCEPT !.pc = "reply"]
  OBVIOUS
<1>3. PICK s : s = Front(p)
  OBVIOUS
<1>4. PICK e : e = dir[fr.target][fr.way]
  OBVIOUS
<1>5. /\ fr.kind = "read_request" /\ fr.pc = "updown_miss" /\ UNCHANGED <<accesses, unsaved>>
      /\ \/ /\ UnlockEntry(fr.target, fr.way, e, [With(p, f) EXCEPT ![s].error = TRUE])
            /\ UNCHANGED cache
         \/ /\ setBlock(fr.target, fr.way, fr.tag, IF fr.shared THEN "S" ELSE "E")
            /\ Goto(p, "updown_finish") /\ UNCHANGED dir
  BY <1>1, <1>2, <1>3, <1>4 DEF ReadRequestUpdownMiss, At
<1>6. /\ fr \in Frame /\ RequestOK(fr) /\ Sys(frames, dir) /\ Storage(cache, dir)
      /\ IsRequest(fr)
  BY <1>1, <1>5, FrameFacts DEF Inv, FrameOK, IsRequest
<1>7. /\ Holds(fr) /\ Where(fr) = fr.target /\ fr.target # MainMemory /\ fr.target \in Modules
      /\ fr.dir = "updown" /\ fr.way # 0 /\ fr.pc # "reply" /\ ~fr.notFound
  BY <1>5, <1>6 DEF RequestOK, Holds, Where, IsRequest, Frame
<1>8. Childless(frames, p)
  BY <1>1, <1>5, <1>6, NoChildren DEF Sys
<1>9. e \in Entry /\ MainMemory \notin e.sharers /\ e.owner # MainMemory
  BY <1>1, <1>4, <1>6, <1>7, HeldEntry
<1>10. Replies(fr, f)
  BY <1>2 DEF Replies
<1>11. CASE /\ UnlockEntry(fr.target, fr.way, e, [With(p, f) EXCEPT ![s].error = TRUE])
            /\ UNCHANGED cache
  <2>1. PICK h : h = [frames[s] EXCEPT !.error = TRUE]
    OBVIOUS
  <2>2. Told(frames[s], h)
    BY <2>1 DEF Told
  <2>3. s \in DOMAIN frames /\ s # p
    <3>1. ~IsAccess(frames[p])
      BY <1>1, <1>6 DEF IsAccess, IsRequest
    <3> QED BY <1>3, <1>6, <2>2, <3>1, CallerTold
  <2>4. PICK E : E = [With(p, f) EXCEPT ![s].error = TRUE]
    OBVIOUS
  <2>5. /\ DOMAIN E = DOMAIN frames /\ E[p] = f /\ E[s] = h
        /\ \A q \in DOMAIN frames : q # p /\ q # s => E[q] = frames[q]
    BY <2>1, <2>3, <2>4 DEF With
  <2>6. UnlockEntry(fr.target, fr.way, e, E)
    BY <1>11, <2>4
  <2>7. Sys(frames', dir') /\ Storage(cache, dir')
    BY <1>1, <1>3, <1>6, <1>7, <1>8, <1>9, <1>10, <2>2, <2>5, <2>6, UnlocksAndAnswers
  <2> QED BY <1>5, <1>11, <2>7 DEF Inv, Lists
<1>12. CASE /\ setBlock(fr.target, fr.way, fr.tag, IF fr.shared THEN "S" ELSE "E")
            /\ Goto(p, "updown_finish") /\ UNCHANGED dir
  <2>1. PICK x : x = IF fr.shared THEN "S" ELSE "E"
    OBVIOUS
  <2>2. /\ fr.target \in Modules /\ fr.tag \in Tag /\ x \in BlockStates
        /\ (fr.target = MainMemory => x \in {"I", "E", "M"})
        /\ setBlock(fr.target, fr.way, fr.tag, x)
    BY <1>6, <1>7, <1>12, <2>1 DEF BlockStates, Frame
  <2>3. Storage(cache', dir)
    BY <1>6, <2>2, SetBlockOf
  <2>4. PICK g : g = [fr EXCEPT !.pc = "updown_finish"]
    OBVIOUS
  <2>5. PICK event : event = "updown_finish"
    OBVIOUS
  <2>6. frames' = With(p, g)
    BY <1>1, <1>12, <2>4 DEF Goto
  <2>7. RequestOK(g)
    <3>1. g.pc = "updown_finish" /\ Like(fr, g) /\ g.way = fr.way /\ g.state = fr.state
      BY <1>6, <2>4 DEF Frame, Like
    <3> QED BY <1>5, <1>6, <1>7, <3>1 DEF RequestOK, MainState, Where, Like
  <2>8. event \in Events /\ event \notin {"reply", "wait"} /\ g = [fr EXCEPT !.pc = event]
    BY <2>4, <2>5 DEF Events
  <2>9. Sys(frames', dir)
    BY <1>1, <1>6, <1>7, <1>8, <2>6, <2>7, <2>8, RequestGoes
  <2> QED BY <1>5, <1>12, <2>3, <2>9 DEF Inv, Lists
<1> QED BY <1>5, <1>11, <1>12

\* The requester becomes a sharer.
LEMMA ReadRequestUpdownFinishInv ==
    ASSUME Inv, NEW p \in DOMAIN frames, ReadRequestUpdownFinish(p)
    PROVE  Inv'
<1>1. PICK fr : fr = frames[p]
  OBVIOUS
<1>2. PICK f : f = [fr EXCEPT !.pc = "reply"]
  OBVIOUS
<1>3. PICK s : s = Front(p)
  OBVIOUS
<1>4. PICK e : e = dir[fr.target][fr.way]
  OBVIOUS
<1>5. PICK S : S = e.sharers \cup {fr.mod}
  OBVIOUS
<1>6. PICK b : b = IsShared(fr, S)
  OBVIOUS
<1>7. PICK e1 : e1 = [e EXCEPT !.sharers = S, !.owner = NewOwner(@, fr.mod, b)]
  OBVIOUS
<1>8. PICK E : E = [With(p, f) EXCEPT ![s].shared = b]
  OBVIOUS
<1>9. /\ fr.kind = "read_request" /\ fr.pc = "updown_finish"
      /\ UNCHANGED <<cache, accesses, unsaved>>
      /\ UnlockEntry(fr.target, fr.way, e1, E)
  BY <1>1, <1>2, <1>3, <1>4, <1>5, <1>6, <1>7, <1>8 DEF ReadRequestUpdownFinish, At
<1>10. /\ fr \in Frame /\ RequestOK(fr) /\ Sys(frames, dir) /\ Storage(cache, dir)
       /\ IsRequest(fr)
  BY <1>1, <1>9, FrameFacts DEF Inv, FrameOK, IsRequest
<1>11. Holds(fr) /\ Where(fr) = fr.target /\ fr.mod # MainMemory /\ fr.mod \in Modules
  BY <1>9, <1>10 DEF RequestOK, Holds, Where, IsRequest, Frame
<1>12. Childless(frames, p)
  BY <1>1, <1>9, <1>10, NoChildren DEF Sys
<1>13. e \in Entry /\ MainMemory \notin e.sharers /\ e.owner # MainMemory
  BY <1>1, <1>4, <1>10, <1>11, HeldEntry
<1>14. e1 \in Entry /\ MainMemory \notin e1.sharers /\ e1.owner # MainMemory
  <2>1. PICK x : x = NewOwner(e.owner, fr.mod, b)
    OBVIOUS
  <2>2. x \in {fr.mod, NoModule}
    BY <2>1 DEF NewOwner
  <2>3. e1 = [e EXCEPT !.sharers = S, !.owner = x]
    BY <1>7, <2>1
  <2> QED BY <1>5, <1>11, <1>13, <2>2, <2>3, HierarchyAssumption DEF Entry
<1>15. b \in BOOLEAN
  <2>1. fr.nc_write \in BOOLEAN /\ fr.shared \in BOOLEAN
    BY <1>10 DEF Frame
  <2> QED BY <1>6, <2>1 DEF IsShared
<1>16. PICK h : h = [frames[s] EXCEPT !.shared = b]
  OBVIOUS
<1>17. Replies(fr, f) /\ Told(frames[s], h)
  BY <1>2, <1>15, <1>16 DEF Replies, Told
<1>18. /\ DOMAIN E = DOMAIN frames /\ E[p] = f /\ E[s] = h
       /\ \A q \in DOMAIN frames : q # p /\ q # s => E[q] = frames[q]
  <2>1. s \in DOMAIN frames /\ s # p
    <3>1. ~IsAccess(frames[p])
      BY <1>1, <1>10 DEF IsAccess, IsRequest
    <3> QED BY <1>3, <1>10, <1>17, <3>1, CallerTold
  <2> QED BY <1>8, <1>16, <2>1 DEF With
<1>19. Sys(frames', dir') /\ Storage(cache, dir')
  BY <1>1, <1>3, <1>9, <1>10, <1>11, <1>12, <1>14, <1>17, <1>18, UnlocksAndAnswers
<1> QED BY <1>9, <1>19 DEF Inv, Lists

\* The block becomes shared, for a cache below.
LEMMA ReadRequestDownupFinishInv ==
    ASSUME Inv, NEW p \in DOMAIN frames, ReadRequestDownupFinish(p)
    PROVE  Inv'
<1>1. PICK fr : fr = frames[p]
  OBVIOUS
<1>2. PICK b : b = (fr.reply = "AckData" \/ (fr.reply = "None" /\ Dirty(fr.state)))
  OBVIOUS
<1>3. PICK f : f = [fr EXCEPT !.pc = "reply", !.data = b]
  OBVIOUS
<1>4. PICK s : s = Front(p)
  OBVIOUS
<1>5. PICK e : e = dir[fr.target][fr.way]
  OBVIOUS
<1>6. PICK e1 : e1 = IF fr.reply = "None" THEN e ELSE [e EXCEPT !.owner = NoModule]
  OBVIOUS
<1>7. PICK h : h = SetReplyIfHigher(frames[s], IF b THEN "AckData" ELSE "Ack")
  OBVIOUS
<1>8. PICK E : E = [With(p, f) EXCEPT ![s] = SetReplyIfHigher(@, IF b THEN "AckData" ELSE "Ack")]
  OBVIOUS
<1>9. /\ fr.kind = "read_request" /\ fr.pc = "downup_finish"
      /\ UNCHANGED <<accesses, unsaved>>
      /\ setBlock(fr.target, fr.way, fr.tag, "S")
      /\ UnlockEntry(fr.target, fr.way, e1, E)
  BY <1>1, <1>2, <1>3, <1>4, <1>5, <1>6, <1>8 DEF ReadRequestDownupFinish, At
<1>10. /\ fr \in Frame /\ RequestOK(fr) /\ Sys(frames, dir) /\ Storage(cache, dir)
       /\ IsRequest(fr)
  BY <1>1, <1>9, FrameFacts DEF Inv, FrameOK, IsRequest
<1>11. Holds(fr) /\ Where(fr) = fr.target /\ fr.target # MainMemory /\ fr.target \in Modules
  BY <1>9, <1>10 DEF RequestOK, Holds, Where, IsRequest, Frame
<1>12. Childless(frames, p)
  BY <1>1, <1>9, <1>10, NoChildren DEF Sys
<1>13. e \in Entry /\ MainMemory \notin e.sharers /\ e.owner # MainMemory
  BY <1>1, <1>5, <1>10, <1>11, HeldEntry
<1>14. e1 \in Entry /\ MainMemory \notin e1.sharers /\ e1.owner # MainMemory
  <2>1. CASE e1 = e
    BY <1>13, <2>1
  <2>2. CASE e1 = [e EXCEPT !.owner = NoModule]
    BY <1>13, <2>2, HierarchyAssumption DEF Entry
  <2> QED BY <1>6, <2>1, <2>2
<1>15. Replies(fr, f)
  <2>1. b \in BOOLEAN
    BY <1>2
  <2> QED BY <1>3, <2>1 DEF Replies
<1>16. Told(frames[s], h)
  BY <1>7 DEF Told
<1>17. /\ DOMAIN E = DOMAIN frames /\ E[p] = f /\ E[s] = h
       /\ \A q \in DOMAIN frames : q # p /\ q # s => E[q] = frames[q]
  <2>1. s \in DOMAIN frames /\ s # p
    <3>1. ~IsAccess(frames[p])
      BY <1>1, <1>10 DEF IsAccess, IsRequest
    <3> QED BY <1>4, <1>10, <1>16, <3>1, CallerTold
  <2> QED BY <1>7, <1>8, <2>1 DEF With
<1>18. Storage(cache', dir)
  <2>1. PICK x : x = "S"
    OBVIOUS
  <2>2. /\ fr.tag \in Tag /\ x \in BlockStates /\ (fr.target = MainMemory => x \in {"I", "E", "M"})
        /\ setBlock(fr.target, fr.way, fr.tag, x)
    BY <1>9, <1>10, <1>11, <2>1 DEF BlockStates, Frame
  <2> QED BY <1>10, <1>11, <2>2, SetBlockOf
<1>19. Sys(frames', dir') /\ Storage(cache', dir')
  BY <1>1, <1>4, <1>9, <1>10, <1>11, <1>12, <1>14, <1>15, <1>16, <1>17, <1>18, UnlocksAndAnswers
<1> QED BY <1>9, <1>19 DEF Inv, Lists

-----------------------------------------------------------------------------
(* The invariant, and what follows from it. *)

\* There are no frames at first.
LEMMA InitInv ==
    ASSUME Init
    PROVE  Inv
<1>1. DOMAIN frames = {}
  BY DEF Init
<1>2. Tree(frames)
  BY <1>1 DEF Tree
<1>3. /\ cache = [m \in Modules |-> [w \in Ways(m) |->
                   [tag |-> NoTag, state |-> "I", transient |-> NoTag]]]
      /\ dir = [m \in Modules |-> [w \in Ways(m) |->
                 [owner |-> NoModule, sharers |-> {}, lock |-> 0]]]
  BY DEF Init, CachesInit
<1>4. \A m \in Modules : \A w \in Ways(m) :
         /\ cache[m][w] = [tag |-> NoTag, state |-> "I", transient |-> NoTag]
         /\ dir[m][w] = [owner |-> NoModule, sharers |-> {}, lock |-> 0]
  BY <1>3
<1>5. DOMAIN cache = Modules /\ DOMAIN dir = Modules
      /\ \A m \in Modules : cache[m] \in [Ways(m) -> Block] /\ dir[m] \in [Ways(m) -> Entry]
  BY <1>3 DEF Block, Entry, BlockStates
<1>6. \A m \in Modules : \A w \in Ways(m) :
         /\ cache[m][w].state = "I" /\ dir[m][w].lock = 0
         /\ dir[m][w].sharers = {} /\ dir[m][w].owner = NoModule
  BY <1>4
<1>7. Storage(cache, dir)
  BY <1>5, <1>6, HierarchyAssumption DEF Storage
<1>8. Locks(frames, dir)
  BY <1>1, <1>6 DEF Locks
<1>9. Lists
  BY DEF Init, Lists
<1> QED BY <1>2, <1>7, <1>8, <1>9 DEF Inv, Sys

\* A frame is of one of the kinds.
LEMMA KindFacts ==
    ASSUME Inv, NEW p \in DOMAIN frames
    PROVE  frames[p].kind \in Kinds
<1>1. frames[p] \in Frame
  BY FrameFacts DEF Inv
<1> QED BY <1>1 DEF Frame

\* Every step of a chain; of an eviction, if it has found its block.
LEMMA ChainStepInv ==
    ASSUME Inv, EvictFindsBlock, NEW p \in DOMAIN frames, ChainStep(p)
    PROVE  Inv'
<1>1. CASE LoadStep(p)
  BY <1>1, LoadActionInv, LoadMissInv, LoadUnlockInv DEF LoadStep
<1>2. CASE StoreStep(p)
  BY <1>2, StoreActionInv, StoreUnlockInv DEF StoreStep
<1>3. CASE NCStoreStep(p)
  <2>1. frames[p].kind = "nc_store"
    BY <1>3 DEF NCStoreStep, NCStoreWriteback, NCStoreAction, NCStoreMiss, NCStoreUnlock, At
  <2> QED BY <2>1, KindFacts DEF Kinds
<1>4. CASE FindAndLockStep(p)
  <2>1. CASE FindAndLockNotFound(p)
    BY <2>1, FindAndLockNotFoundInv
  <2>2. ASSUME NEW w \in Ways(frames[p].mod), FindAndLockError(p, w) PROVE Inv'
    BY <2>2, FindAndLockErrorInv
  <2>3. ASSUME NEW w \in Ways(frames[p].mod), FindAndLockWait(p, w) PROVE Inv'
    BY <2>3, FindAndLockWaitInv
  <2>4. ASSUME NEW w \in Ways(frames[p].mod), FindAndLockTake(p, w) PROVE Inv'
    BY <2>4, FindAndLockTakeInv
  <2>5. CASE FindAndLockAction(p)
    BY <2>5, FindAndLockActionInv
  <2>6. CASE FindAndLockFailed(p)
    BY <2>6, FindAndLockFailedInv
  <2>7. CASE FindAndLockFinish(p)
    BY <2>7, FindAndLockFinishInv
  <2> QED BY <1>4, <2>1, <2>2, <2>3, <2>4, <2>5, <2>6, <2>7 DEF FindAndLockStep
<1>5. CASE InvalidateStep(p)
  BY <1>5, InvalidateInv, InvalidateFinishInv DEF InvalidateStep
<1>6. CASE EvictStep(p)
  <2>1. CASE EvictProcess(p)
    <3>1. ~frames[p].notFound
      BY <2>1 DEF EvictProcess, EvictFindsBlock
    <3> QED BY <2>1, <3>1, EvictProcessInv
  <2> QED BY <1>6, <2>1, EvictInv, EvictInvalidInv, EvictErrorInv, EvictReplyReceiveInv
          DEF EvictStep
<1>7. CASE WriteRequestStep(p)
  BY <1>7, WriteRequestNoBlockInv, WriteRequestActionInv, WriteRequestUpdownInv,
     WriteRequestUpdownFinishInv, WriteRequestDownupInv, WriteRequestFinishInv
  DEF WriteRequestStep
<1>8. CASE ReadRequestStep(p)
  BY <1>8, ReadRequestNoBlockInv, ReadRequestUpdownInv, ReadRequestUpdownMissInv,
     ReadRequestUpdownFinishInv, ReadRequestDownupInv, ReadRequestDownupFinishInv,
     ReadRequestFinishInv
  DEF ReadRequestStep
<1>9. CASE MessageStep(p)
  <2>1. frames[p].kind = "message"
    BY <1>9 DEF MessageStep, MessageAction, MessageFinish, At
  <2> QED BY <2>1, KindFacts DEF Kinds
<1> QED BY <1>1, <1>2, <1>3, <1>4, <1>5, <1>6, <1>7, <1>8, <1>9 DEF ChainStep

\* Every step keeps the invariant.
LEMMA NextInv ==
    ASSUME Inv, EvictFindsBlock, AccessTypes \subseteq {"load", "store"}, [Next]_vars
    PROVE  Inv'
<1>1. CASE UNCHANGED vars
  BY <1>1 DEF vars, Inv, Lists
<1>2. ASSUME NEW kind \in AccessTypes, NEW m \in TopModules, NEW t \in Tags, Issue(kind, m, t)
      PROVE  Inv'
  <2>1. kind \in {"load", "store"}
    OBVIOUS
  <2> QED BY <1>2, <2>1, IssueInv
<1>3. ASSUME NEW a \in Accesses, <<a>> \in DOMAIN frames, AccessStep(a) PROVE Inv'
  <2>1. CASE LoadLock(a)
    BY <1>3, <2>1, AccessLockInv DEF LoadLock
  <2>2. CASE StoreLock(a)
    BY <1>3, <2>2, AccessLockInv DEF StoreLock
  <2>3. CASE NCStoreLock(a)
    <3>1. frames[<<a>>].kind = "nc_store"
      BY <2>3 DEF NCStoreLock, AccessLock
    <3> QED BY <1>3, <3>1, KindFacts DEF Kinds
  <2>4. CASE Finish(a)
    BY <1>3, <2>4, FinishInv
  <2> QED BY <1>3, <2>1, <2>2, <2>3, <2>4 DEF AccessStep
<1>4. ASSUME NEW p \in DOMAIN frames, ChainStep(p) PROVE Inv'
  BY <1>4, ChainStepInv
<1> QED BY <1>1, <1>2, <1>3, <1>4 DEF Next

\* The invariant says more than the types.
LEMMA TypesHold ==
    ASSUME Inv
    PROVE  TypeOK
<1>1. CachesTypeOK
  BY DEF Inv, Storage, CachesTypeOK
<1>2. ASSUME NEW p \in DOMAIN frames
      PROVE  /\ Head(p) \in Accesses
             /\ Len(p) > 1 => Front(p) \in DOMAIN frames
             /\ frames[p].mod \in Modules /\ frames[p].target \in Modules
             /\ frames[p].except \in Modules \cup {NoModule}
             /\ frames[p].state \in BlockStates
             /\ frames[p].tag \in Tags \cup {NoTag}
  <2>1. frames[p] \in Frame /\ IsPath(p)
    BY FrameFacts DEF Inv
  <2>2. Len(p) > 1 => Front(p) \in DOMAIN frames
    BY ChildFacts DEF Inv, Sys
  <2>3. /\ frames[p].mod \in Modules /\ frames[p].target \in Modules
        /\ frames[p].except \in Modules \cup {NoModule}
        /\ frames[p].state \in BlockStates
        /\ frames[p].tag \in Tags \cup {NoTag}
    BY <2>1 DEF Frame, Tag
  <2> QED BY <2>1, <2>2, <2>3 DEF IsPath
<1>3. (\A m \in Modules : accesses[m] \in Seq(Accesses)) /\ unsaved \subseteq Tags
  BY DEF Inv, Lists
<1> QED BY <1>1, <1>2, <1>3 DEF TypeOK

\* The access of a frame that holds a lock has begun, and is not finished.
LEMMA RootWorks ==
    ASSUME Inv, NEW p \in DOMAIN frames, Holds(frames[p]), NEW r, r = <<Head(p)>>
    PROVE  r \in DOMAIN frames /\ frames[r].pc \notin {"lock", "finish"}
<1>1. IsPath(p) /\ Len(p) \in Nat /\ Len(p) > 0 /\ SubSeq(p, 1, 1) = r
  BY FrameFacts, PathFacts DEF Inv
<1>2. \A k \in 1..Len(p) : SubSeq(p, 1, k) \in DOMAIN frames
  BY DEF Inv, Sys, Tree
<1>3. r \in DOMAIN frames
  <2>1. 1 \in 1..Len(p)
    BY <1>1
  <2> QED BY <1>1, <1>2, <2>1
<1>4. Len(r) = 1 /\ IsAccess(frames[r]) /\ AccessOK(frames[r])
  <2>1. Len(r) = 1
    OBVIOUS
  <2>2. IsAccess(frames[r]) /\ FrameOK(frames[r])
    BY <1>3, <2>1, FrameFacts DEF Inv
  <2> QED BY <2>1, <2>2 DEF FrameOK
<1>5. CASE Len(p) = 1
  <2>1. p = r
    BY <1>1, <1>5, PathFacts
  <2> QED BY <1>3, <1>4, <2>1 DEF Holds, IsAccess, IsRequest, AccessOK
<1>6. CASE Len(p) # 1
  <2>1. PICK c : c = SubSeq(p, 1, 2)
    OBVIOUS
  <2>2. c \in DOMAIN frames
    <3>1. 2 \in 1..Len(p)
      BY <1>1, <1>6, SMTT(30)
    <3> QED BY <1>2, <2>1, <3>1
  <2>3. Len(c) = 2 /\ SubSeq(c, 1, 1) = r
    <3>1. p \in Seq(PathNames) /\ Len(p) >= 2
      BY <1>1, <1>6 DEF IsPath
    <3>2. Len(c) = 2 /\ c \in Seq(PathNames) /\ c[1] = p[1] /\ Head(c) = c[1] /\ Head(p) = p[1]
      <4>1. c \in Seq(PathNames) /\ Len(c) = 2 /\ c[1] = p[1]
        BY <2>1, <3>1
      <4> QED BY <3>1, <4>1
    <3>3. IsPath(c)
      BY <2>2, FrameFacts DEF Inv
    <3>4. SubSeq(c, 1, 1) = <<Head(c)>>
      BY <3>3, PathFacts
    <3> QED BY <3>2, <3>4
  <2>4. Child(c, r)
    <3>1. IsPath(c)
      BY <2>2, FrameFacts DEF Inv
    <3>2. Len(c) > 1
      BY <2>3
    <3>3. Front(c) = SubSeq(c, 1, Len(c) - 1)
      BY <3>1, <3>2, PathFacts
    <3> QED BY <2>3, <3>2, <3>3 DEF Child
  <2>5. CallOK(frames[c], frames[r])
    BY <1>3, <2>2, <2>4 DEF Inv, Sys, Tree
  <2> QED BY <1>3, <1>4, <2>5 DEF CallOK, IsAccess
<1> QED BY <1>5, <1>6

\* Every lock has a holder, and every waiter a lock to wait for.
LEMMA HoldersRelease ==
    ASSUME Inv
    PROVE  LocksAreReleased /\ NoLostWakeup
<1>1. ASSUME NEW m \in Modules, NEW w \in Ways(m), dir[m][w].lock # 0,
             NEW r, r = <<dir[m][w].lock>>
      PROVE  r \in DOMAIN frames /\ frames[r].pc \notin {"lock", "finish"}
  <2>1. PICK p \in DOMAIN frames : Holds(frames[p]) /\ Where(frames[p]) = m /\ frames[p].way = w
    BY <1>1 DEF Inv, Sys, Locks
  <2>2. dir[m][w].lock = Head(p)
    BY <2>1, FrameFacts DEF Inv
  <2>3. r = <<Head(p)>>
    BY <1>1, <2>2
  <2> QED BY <2>1, <2>3, RootWorks
<1>2. LocksAreReleased
  BY <1>1 DEF LocksAreReleased, isEntryLocked
<1>3. ASSUME NEW p \in DOMAIN frames, frames[p].pc = "wait"
      PROVE  <<dir[frames[p].mod][frames[p].way].lock>> \in DOMAIN frames
  <2>1. frames[p].way \in Ways(frames[p].mod)
        /\ dir[frames[p].mod][frames[p].way].lock # 0
    BY <1>3 DEF Inv, Sys, Locks
  <2>2. frames[p].mod \in Modules
    BY FrameFacts DEF Inv
  <2> QED BY <1>1, <2>1, <2>2
<1> QED BY <1>2, <1>3 DEF NoLostWakeup

\* A frame at an event that unlocks holds the lock.
LEMMA HoldersUnlock ==
    ASSUME Inv, EvictFindsBlock
    PROVE  UnlocksOwnLock
<1> SUFFICES ASSUME NEW p \in DOMAIN frames, NEW fr, fr = frames[p]
             PROVE  /\ UnlocksModule(fr) => HoldsLock(p, fr.mod)
                    /\ UnlocksTarget(fr) => HoldsLock(p, fr.target)
  BY DEF UnlocksOwnLock
<1>1. /\ fr \in Frame /\ FrameOK(fr)
      /\ Holds(fr) => /\ fr.way \in Ways(Where(fr))
                      /\ dir[Where(fr)][fr.way].lock = Head(p)
  BY FrameFacts DEF Inv
<1>2. fr.kind \in Kinds
  BY <1>1 DEF Frame
<1>3. ASSUME UnlocksModule(fr) PROVE HoldsLock(p, fr.mod)
  <2>1. Holds(fr) /\ Where(fr) = fr.mod
    BY <1>1, <1>2, <1>3
    DEF UnlocksModule, FrameOK, AccessOK, IsAccess, IsRequest, Holds, Where, Kinds
  <2> QED BY <1>1, <2>1 DEF HoldsLock
<1>4. ASSUME UnlocksTarget(fr) PROVE HoldsLock(p, fr.target)
  <2>1. fr.kind = "evict" => ~fr.notFound
    BY DEF EvictFindsBlock
  <2>2. Holds(fr) /\ Where(fr) = fr.target
    BY <1>1, <1>2, <1>4, <2>1
    DEF UnlocksTarget, FrameOK, RequestOK, IsAccess, IsRequest, Holds, Where, Kinds, Processing
  <2> QED BY <1>1, <2>2 DEF HoldsLock
<1> QED BY <1>3, <1>4
=============================================================================
