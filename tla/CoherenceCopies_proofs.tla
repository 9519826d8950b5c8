---------------------- MODULE CoherenceCopies_proofs ----------------------
(***************************************************************************)
(* Every step of the NMOESI protocol keeps Copies, one lemma for each      *)
(* event; and what follows from Copies and Inv for every state.            *)
(***************************************************************************)
EXTENDS CoherenceCopies
-----------------------------------------------------------------------------
(* Requests to caches above. *)

\* A request that replies, and leaves no right of K in its way, leaves none to its
\* module.
LEMMA NotNeeded ==
    ASSUME NEW F, NEW c, NEW d, Sys(F, d), Copies(F, c, d), NEW p \in DOMAIN F,
           IsRequest(F[p]), Holds(F[p]), NEW s, s = Front(p),
           NEW G, DOMAIN G = DOMAIN F, \A q \in DOMAIN F : q # p /\ q # s => G[q] = F[q],
           Alike(F[p], G[p]), G[p].pc = "reply", Alike(F[s], G[s]), G[s].pc = F[s].pc,
           NEW c1, NEW d1, NEW m, m = F[p].target, NEW w, w = F[p].way,
           OffEntry(c, d, c1, d1, m, w), NEW K \in Rights, c1[m][w].state \notin K
    PROVE  ~Needs(G, c1, m, F[p].tag, K)
<1>1. Calls(F) /\ Leaning(F, c, d) /\ OneWayEach(c, d)
  BY DEF Copies
<1>2. /\ Where(F[p]) = m /\ s \in DOMAIN F /\ s # p
      /\ (IsAccess(F[s]) \/ IsRequest(F[s]) \/ F[s].kind = "invalidate")
  BY <1>1, RequestCallerOf
<1>3. m \in Modules /\ w \in Ways(m) /\ InMatches(c, d, m, F[p].tag, w) /\ F[p].tag \in Tag
  BY <1>1, <1>2, Claims, FrameOf
<1>4. ~Has(G, c1, m, F[p].tag, K)
  <2>1. SUFFICES ASSUME NEW v \in Ways(m), c1[m][v].tag = F[p].tag, c1[m][v].state \in K
                 PROVE  FALSE
    BY DEF Has
  <2>2. v # w
    BY <2>1
  <2>3. c[m][v].tag = F[p].tag /\ c[m][v].state # "I"
    BY <1>3, <2>1, <2>2, RightsFacts DEF OffEntry
  <2>4. InMatches(c, d, m, F[p].tag, v)
    BY <2>3 DEF InMatches
  <2> QED BY <1>1, <1>3, <2>2, <2>4 DEF OneWayEach
<1>5. ~Due(G, m, F[p].tag, K)
  <2>1. SUFFICES ASSUME NEW q \in DOMAIN G, Granted(G, q, K), Where(G[q]) = m, G[q].tag = F[p].tag
                 PROVE  FALSE
    BY DEF Due
  <2>2. Holds(G[q])
    BY <2>1 DEF Granted
  <2>3. q # p
    BY <2>2, AlikeFacts DEF Holds, IsRequest, IsAccess
  <2>4. q # s
    <3>1. SUFFICES ASSUME q = s PROVE FALSE
      OBVIOUS
    <3>2. Holds(F[s]) /\ Where(F[s]) = m
      BY <1>2, <2>1, <2>2, <3>1, AlikeFacts DEF Holds, IsRequest, IsAccess, Alike
    <3>3. Leans(F[s], m, F[s].way)
      BY <3>2 DEF Leans
    <3> QED BY <1>1, <3>3, CallerElsewhere
  <2>5. q \in DOMAIN F /\ G[q] = F[q]
    BY <2>1, <2>3, <2>4
  <2> QED BY <1>1, <1>2, <2>1, <2>2, <2>3, <2>5, OneClaim
<1> QED BY <1>4, <1>5 DEF Needs

\* A request from below replies: after a read request the block is shared, and after
\* a write request it is gone.
TellsBelow(F, c, d, G, c1, d1, p, s, X, m, w) ==
    /\ Sys(F, d) /\ Copies(F, c, d) /\ Storage(c, d) /\ p \in DOMAIN F /\ Childless(F, p)
    /\ IsRequest(F[p]) /\ F[p].dir = "downup" /\ s = Front(p) /\ X = {p, s} /\ DOMAIN G = DOMAIN F
    /\ \A q \in DOMAIN F : q # p /\ q # s => G[q] = F[q]
    /\ G[p] \in Frame /\ Alike(F[p], G[p]) /\ G[p].pc = "reply" /\ G[p].error = F[p].error
    /\ G[s] \in Frame /\ Alike(F[s], G[s]) /\ G[s].pc = F[s].pc /\ (G[s].error => F[s].error)
    /\ m = F[p].target /\ w = F[p].way /\ OffEntry(c, d, c1, d1, m, w)
    /\ c1[m][w].transient = c[m][w].transient /\ d1[m][w].sharers = d[m][w].sharers
    /\ d1[m][w].owner \in {d[m][w].owner, NoModule}
    /\ \/ /\ F[p].kind = "read_request" /\ F[p].pc = "downup_finish"
          /\ c1[m][w].tag = F[p].tag /\ c1[m][w].state = "S"
       \/ /\ F[p].kind = "write_request" /\ F[p].pc = "exclusive"
          /\ c1[m][w].tag = NoTag /\ c1[m][w].state = "I"

\* A request from below that has made the block shared, or invalid, replies.
LEMMA DownupReplies ==
    ASSUME NEW F, NEW c, NEW d, NEW G, NEW c1, NEW d1, NEW p, NEW s, NEW X, NEW m, NEW w,
           TellsBelow(F, c, d, G, c1, d1, p, s, X, m, w)
    PROVE  Copies(G, c1, d1)
<1>0. /\ Sys(F, d) /\ Copies(F, c, d) /\ Storage(c, d) /\ p \in DOMAIN F /\ Childless(F, p)
      /\ IsRequest(F[p]) /\ F[p].dir = "downup" /\ s = Front(p) /\ X = {p, s} /\ DOMAIN G = DOMAIN F
      /\ \A q \in DOMAIN F : q # p /\ q # s => G[q] = F[q]
      /\ G[p] \in Frame /\ Alike(F[p], G[p]) /\ G[p].pc = "reply" /\ G[p].error = F[p].error
      /\ G[s] \in Frame /\ Alike(F[s], G[s]) /\ G[s].pc = F[s].pc /\ (G[s].error => F[s].error)
      /\ m = F[p].target /\ w = F[p].way /\ OffEntry(c, d, c1, d1, m, w)
      /\ c1[m][w].transient = c[m][w].transient /\ d1[m][w].sharers = d[m][w].sharers
      /\ d1[m][w].owner \in {d[m][w].owner, NoModule}
      /\ \/ /\ F[p].kind = "read_request" /\ F[p].pc = "downup_finish"
            /\ c1[m][w].tag = F[p].tag /\ c1[m][w].state = "S"
         \/ /\ F[p].kind = "write_request" /\ F[p].pc = "exclusive"
            /\ c1[m][w].tag = NoTag /\ c1[m][w].state = "I"
  BY DEF TellsBelow
<1> USE <1>0
<1>1. /\ Calls(F) /\ Leaning(F, c, d) /\ Quiet(F, c) /\ Alone(F, d) /\ Above(d)
  BY DEF Copies
<1>2. PICK f, g, t : f = F[p] /\ g = F[s] /\ t = F[p].tag
  OBVIOUS
<1>3. /\ s \in DOMAIN F /\ s # p /\ Child(p, s) /\ g \in Frame /\ f \in Frame
      /\ g.pc = (IF g.kind = "invalidate" THEN "finish" ELSE "call")
      /\ IsAccess(g) \/ IsRequest(g) \/ g.kind = "invalidate"
      /\ RequestLink(f, g) /\ RequestFlow(f) /\ RequestOK(f) /\ Where(f) = m /\ ~IsAccess(f)
      /\ (Revokes(f) => g.kind = "invalidate")
  BY <1>1, <1>2, RequestCallerOf
<1>4. Holds(f) /\ f.way = w /\ w # 0 /\ f.tag = f.addr /\ ~f.notFound /\ f.state # "I" /\ f.mod = Low[m]
  BY <1>2, <1>3 DEF Holds, RequestOK, RequestFlow
<1>5. /\ m \in Modules /\ w \in Ways(m) /\ t \in Tag /\ f.mod \in Modules /\ m # MainMemory
  BY <1>2, <1>3, <1>4, FrameOf DEF RequestOK
<1>6. HeldOK(f, c[m][w]) /\ c[m][w].tag = t /\ c[m][w].state # "I" /\ c[m][w].state \in Valid
  <2>1. HeldOK(f, c[m][w])
    BY <1>1, <1>2, <1>3, <1>4 DEF Leaning, LeanOK, IsRequest
  <2>2. c[m][w].tag = t /\ c[m][w].state # "I"
    BY <1>2, <1>4, <2>1 DEF HeldOK
  <2>3. c[m][w].state \in BlockStates
    BY <1>5 DEF Storage, Block
  <2> QED BY <2>1, <2>2, <2>3 DEF Valid
<1>7. \A K \in Rights : c1[m][w].state \notin K => ~Needs(G, c1, m, t, K)
  <2>1. SUFFICES ASSUME NEW K \in Rights, c1[m][w].state \notin K
                 PROVE  ~Needs(G, c1, m, F[p].tag, K)
    BY <1>2
  <2>2. /\ Sys(F, d) /\ Copies(F, c, d) /\ p \in DOMAIN F /\ IsRequest(F[p]) /\ Holds(F[p])
        /\ s = Front(p) /\ DOMAIN G = DOMAIN F
        /\ \A q \in DOMAIN F : q # p /\ q # s => G[q] = F[q]
        /\ Alike(F[p], G[p]) /\ G[p].pc = "reply" /\ Alike(F[s], G[s]) /\ G[s].pc = F[s].pc
        /\ m = F[p].target /\ w = F[p].way /\ OffEntry(c, d, c1, d1, m, w)
    BY <1>2, <1>4
  <2> QED BY ONLY <2>1, <2>2, NotNeeded
<1>8. \A n : ~Asked(F, m, w, n)
  <2>1. Holds(F[p]) /\ m = Where(F[p]) /\ w = F[p].way
    BY <1>2, <1>3, <1>4
  <2>2. \A n : ~Asked(F, Where(F[p]), F[p].way, n)
    BY <1>1, <2>1, HeldNotAsked
  <2> QED BY <2>1, <2>2
<1>9. ASSUME F[p].kind = "read_request"
      PROVE  NoneAfter(F, c, G, c1, F[p].mod, F[p].addr)
  <2>1. SUFFICES ASSUME Shrinks(F, c, G, c1) PROVE NoneBut(G, c1, f.mod, t, {})
    BY <1>2, <1>4 DEF NoneAfter
  <2>2. NoneBut(F, c, f.mod, t, {m})
    <3>1. ReadQuiet(f, F, c)
      BY <1>1, <1>2 DEF Quiet
    <3> QED BY <1>2, <1>4, <1>9, <3>1 DEF ReadQuiet
  <2>3. NoneBut(G, c1, f.mod, t, {m})
    BY <1>5, <2>1, <2>2, NoneButKept
  <2>4. ~Needs(G, c1, m, t, Exclusive)
    BY <1>7, <1>9 DEF Rights, Exclusive
  <2> QED BY <2>3, <2>4 DEF NoneBut
<1>10. F[p].kind = "read_request" /\ F[p].dir = "downup" =>
          NoneAfter(F, c, G, c1, F[p].mod, F[p].addr)
  BY <1>9
<1>11. /\ G[s].error => F[s].error \/ F[p].dir = "updown"
       /\ m = F[p].target /\ X = {p, s} /\ s = Front(p)
       /\ Sys(F, d) /\ Copies(F, c, d) /\ p \in DOMAIN F /\ Childless(F, p)
       /\ IsRequest(F[p]) /\ DOMAIN G = DOMAIN F
       /\ \A q \in DOMAIN F : q # p /\ q # s => G[q] = F[q]
       /\ G[p] \in Frame /\ Alike(F[p], G[p]) /\ G[p].pc = "reply" /\ G[p].error = F[p].error
       /\ G[s] \in Frame /\ Alike(F[s], G[s]) /\ G[s].pc = F[s].pc
       /\ OffEntry(c, d, c1, d1, m, w)
  OBVIOUS
<1>12. /\ Rest(F, G, X) /\ Linked(G, X) /\ Childless(G, p)
       /\ p \in DOMAIN G /\ s \in DOMAIN G /\ s \in DOMAIN F /\ s # p
       /\ Fits(F, c, G, c1, d1, X, p) /\ Fits(F, c, G, c1, d1, X, s)
       /\ Leaves(F, G, s) /\ (~Revoking(F[p]) => Leaves(F, G, p))
       /\ ~IsLost(F[p]) /\ ~IsLost(F[s])
  <2>1. /\ Rest(F, G, X) /\ Linked(G, X) /\ Childless(G, p)
        /\ p \in DOMAIN G /\ s \in DOMAIN G /\ s \in DOMAIN F /\ s # p
        /\ Fits(F, c, G, c1, d1, X, p)
        /\ (Backed(F, c, G, s) => Fits(F, c, G, c1, d1, X, s))
        /\ (G[s].error \/ F[p].dir = "downup" => Backed(F, c, G, s))
        /\ Leaves(F, G, s) /\ (~Revoking(F[p]) => Leaves(F, G, p))
        /\ ~IsLost(F[p]) /\ ~IsLost(F[s])
    <3>1. Telling(F, c, d, G, c1, d1, p, s, X, m, w)
      BY ONLY <1>10, <1>11 DEF Telling
    <3> QED BY ONLY <3>1, RequestTells
  <2> QED BY <2>1
<1>13. AskedEnds(F, G, c, c1)
  <2>1. CASE ~Revoking(F[p])
    BY <1>12, <2>1, AllAskedKept
  <2>2. CASE Revoking(F[p])
    <3>1. SUFFICES ASSUME NEW l \in Modules, NEW n \in Modules \ {MainMemory}, NEW u \in Tag,
                          NEW K \in Rights, NEW v \in Ways(l), Asked(F, l, v, n), Low[n] = l,
                          c[l][v].tag = u, Needs(G, c1, n, u, K)
                   PROVE  Asked(G, l, v, n)
      BY DEF AskedEnds
    <3>2. PICK P, Q \in DOMAIN F : /\ Child(P, Q) /\ Revoking(F[P]) /\ F[P].target = n
                                  /\ F[Q].kind = "invalidate" /\ F[Q].mod = l /\ F[Q].way = v
      BY <3>1 DEF Asked
    <3>3. P # p
      <4>1. SUFFICES ASSUME P = p PROVE FALSE
        OBVIOUS
      <4>2. Q = s
        BY <3>2, <4>1 DEF Child
      <4>3. g.kind = "invalidate" /\ g.pc = "finish" /\ LeanOK(g, c, d) /\ g.mod = l /\ g.way = v
        BY <1>1, <1>2, <1>3, <3>2, <4>2 DEF Leaning
      <4>4. c[l][v].tag = g.tag
        BY <4>3 DEF LeanOK, InvalidatedOK
      <4>5. u = t /\ n = m
        BY <1>2, <1>3, <1>4, <3>1, <3>2, <4>1, <4>4 DEF RequestLink
      <4>6. c1[m][w].state = "I"
        BY <2>2 DEF Revoking, Revokes
      <4> QED BY <1>7, <3>1, <4>5, <4>6, RightsFacts
    <3>4. Q # p
      BY <3>2 DEF IsRequest
    <3>5. Revoking(G[P]) /\ G[P].target = n
      <4>1. CASE P = s
        BY <3>2, <4>1, AlikeFacts DEF Revoking, Alike
      <4> QED BY <3>2, <3>3, <4>1
    <3>6. G[Q].kind = "invalidate" /\ G[Q].mod = l /\ G[Q].way = v
      BY <3>2, <3>4 DEF Alike
    <3> QED BY <3>2, <3>5, <3>6 DEF Asked
  <2> QED BY <2>1, <2>2
<1>14. ASSUME NEW K \in Rights, NEW n \in Modules \ {MainMemory}, NEW u \in Tag,
              Low[n] = m, Needs(F, c, n, u, K), Needs(G, c1, n, u, K),
              Serves(F, c[m][w], d[m][w], m, w, n, u, K)
       PROVE  Serves(G, c1[m][w], d1[m][w], m, w, n, u, K)
  <2>1. u = t /\ n \in d[m][w].sharers
    BY <1>6, <1>8, <1>14 DEF Serves
  <2>2. CASE F[p].kind = "read_request"
    <3>1. NoneBut(F, c, m, t, {})
      <4>1. ReadQuiet(f, F, c)
        BY <1>1, <1>2 DEF Quiet
      <4> QED BY <1>2, <2>2, <4>1 DEF ReadQuiet
    <3>2. K = Valid /\ K # Exclusive
      BY <1>14, <2>1, <3>1, RightsFacts DEF NoneBut
    <3> QED BY <1>2, <2>1, <2>2, <3>2 DEF Serves
  <2>3. CASE F[p].kind = "write_request"
    <3>1. Cleared(F, p)
      BY <2>3 DEF Cleared
    <3>2. d[m][w].sharers \subseteq {f.mod}
      BY <1>1, <1>2, <1>4, <3>1 DEF Alone
    <3>3. Low[f.mod] = m
      BY <1>1, <1>5, <2>1, <3>2 DEF Above
    <3>4. f.mod # MainMemory
      BY <1>14, <2>1, <3>2
    <3> QED BY <1>4, <1>5, <3>3, <3>4, LowFacts
  <2> QED BY <2>2, <2>3
<1>15. \A x \in X \cap DOMAIN G : Fits(F, c, G, c1, d1, X, x)
  BY <1>12
<1>16. /\ \A x \in X \cap DOMAIN F : ~IsLost(F[x])
       /\ p \in X /\ Holds(F[p]) /\ m = Where(F[p])
  BY <1>2, <1>3, <1>4, <1>12
<1>17. \A K \in Rights : m # MainMemory /\ c1[m][w].state \in K =>
          \/ c1[m][w].tag = c[m][w].tag /\ c[m][w].state \in K
          \/ Needs(F, c, m, c1[m][w].tag, K)
  <2>1. SUFFICES ASSUME NEW K \in Rights, c1[m][w].state \in K
                 PROVE  c1[m][w].tag = c[m][w].tag /\ c[m][w].state \in K
    OBVIOUS
  <2>2. c1[m][w].state # "I"
    BY <2>1, RightsFacts
  <2>3. c1[m][w].tag = t /\ K # Exclusive
    BY <1>2, <2>1, <2>2 DEF Exclusive
  <2> QED BY <1>6, <2>1, <2>3, RightsFacts
<1>18. c1[m][w].state # "I" => c1[m][w].tag = F[p].tag
  OBVIOUS
<1>19. \A K \in Rights, n \in Modules \ {MainMemory}, u \in Tag :
          /\ Low[n] = m /\ Needs(F, c, n, u, K) /\ Needs(G, c1, n, u, K)
          /\ Serves(F, c[m][w], d[m][w], m, w, n, u, K)
          => Serves(G, c1[m][w], d1[m][w], m, w, n, u, K)
  BY ONLY <1>14
<1>20. /\ Sys(F, d) /\ Copies(F, c, d) /\ p \in DOMAIN F /\ Childless(F, p) /\ w = F[p].way
       /\ OffEntry(c, d, c1, d1, m, w) /\ c1[m][w].transient = c[m][w].transient
       /\ d1[m][w].sharers \subseteq d[m][w].sharers
       /\ d1[m][w].owner \in {d[m][w].owner, NoModule}
  OBVIOUS
<1> QED BY ONLY <1>12, <1>13, <1>15, <1>16, <1>17, <1>18, <1>19, <1>20, HolderStep

\* The reply to a request from below changes the block, and unlocks the entry.
LEMMA DownupFinishes ==
    ASSUME Inv, Copies(frames, cache, dir),
           NEW p, NEW s, NEW f, NEW h, NEW m, NEW w, NEW e, NEW E,
           ReplyUnlocks(p, s, f, h, m, w, e, E), frames[p].dir = "downup",
           NEW r, h = SetReplyIfHigher(frames[s], r), NEW t, NEW x, setBlock(m, w, t, x),
           e.sharers = dir[m][w].sharers, e.owner \in {dir[m][w].owner, NoModule},
           \/ /\ frames[p].kind = "read_request" /\ frames[p].pc = "downup_finish"
              /\ t = frames[p].tag /\ x = "S"
           \/ /\ frames[p].kind = "write_request" /\ frames[p].pc = "exclusive"
              /\ t = NoTag /\ x = "I"
    PROVE  Copies(frames, cache, dir)'
<1>1. PICK c, d, G, c1, d1, X : /\ c = cache /\ d = dir /\ G = frames' /\ c1 = cache'
                                /\ d1 = dir' /\ X = {p, s}
  OBVIOUS
<1>2. /\ p \in DOMAIN frames /\ IsRequest(frames[p]) /\ s = Front(p)
      /\ m = frames[p].target /\ w = frames[p].way /\ Holds(frames[p])
      /\ Sys(frames, dir) /\ Storage(cache, dir) /\ Calls(frames)
  BY DEF ReplyUnlocks, Inv, Copies
<1>3. m \in Modules /\ w \in Ways(m) /\ s \in DOMAIN frames /\ frames[s] \in Frame
  <2>1. Where(frames[p]) = m
    BY <1>2, RequestCallerOf
  <2> QED BY <1>2, <2>1, FrameOf, RequestCallerOf
<1>4. /\ c1[m][w].tag = t /\ c1[m][w].state = x /\ c1[m][w].transient = c[m][w].transient
      /\ \A n \in Modules : \A v \in Ways(n) : n # m \/ v # w => c1[n][v] = c[n][v]
  <2>1. c1 = BlockTo(c, m, w, t, x) /\ Storage(c, d)
    BY <1>1, <1>2 DEF setBlock, BlockTo
  <2> QED BY ONLY <1>3, <2>1, BlockSet
<1>5. h.error = frames[s].error
  <2>1. PICK g : g = frames[s]
    OBVIOUS
  <2>2. h = SetReplyIfHigher(g, r) /\ g \in Frame
    BY <1>3, <2>1
  <2>3. h.error = g.error
    BY ONLY <2>2 DEF SetReplyIfHigher, Frame
  <2> QED BY <2>1, <2>3
<1>6. /\ m \in Modules /\ w \in Ways(m) /\ OffEntry(cache, dir, c1, d1, m, w)
      /\ d1[m][w].sharers = e.sharers /\ d1[m][w].owner = e.owner /\ d1[m][w].lock = 0
      /\ f \in Frame /\ Alike(frames[p], f) /\ f.pc = "reply" /\ f.error = frames[p].error
      /\ h \in Frame /\ Alike(frames[s], h) /\ h.pc = frames[s].pc
      /\ s \in DOMAIN frames /\ s # p
      /\ \E W : /\ Sys(W, dir) /\ Copies(W, cache, dir) /\ p \in DOMAIN W /\ s \in DOMAIN W
                /\ Childless(W, p) /\ W[p] = frames[p] /\ W[s] = frames[s]
                /\ DOMAIN G = DOMAIN W /\ G[p] = f /\ G[s] = h
                /\ \A q \in DOMAIN W : q # p /\ q # s => G[q] = W[q]
  <2>1. /\ \A n \in Modules : \A v \in Ways(n) : n # m \/ v # w => c1[n][v] = cache[n][v]
        /\ G = frames' /\ d1 = dir' /\ Inv /\ Copies(frames, cache, dir)
        /\ ReplyUnlocks(p, s, f, h, m, w, e, E)
    BY <1>1, <1>4
  <2> QED BY ONLY <2>1, WokenReply
<1>7. PICK W : /\ Sys(W, d) /\ Copies(W, c, d) /\ p \in DOMAIN W /\ s \in DOMAIN W
               /\ Childless(W, p) /\ W[p] = frames[p] /\ W[s] = frames[s]
               /\ DOMAIN G = DOMAIN W /\ G[p] = f /\ G[s] = h
               /\ \A q \in DOMAIN W : q # p /\ q # s => G[q] = W[q]
  BY <1>1, <1>6
<1>8. /\ OffEntry(c, d, c1, d1, m, w) /\ d1[m][w].sharers = d[m][w].sharers
      /\ d1[m][w].owner \in {d[m][w].owner, NoModule} /\ Storage(c, d)
      /\ IsRequest(W[p]) /\ W[p].dir = "downup" /\ s = Front(p) /\ X = {p, s}
      /\ G[p] \in Frame /\ Alike(W[p], G[p]) /\ G[p].pc = "reply" /\ G[p].error = W[p].error
      /\ G[s] \in Frame /\ Alike(W[s], G[s]) /\ G[s].pc = W[s].pc /\ (G[s].error => W[s].error)
      /\ m = W[p].target /\ w = W[p].way
      /\ \/ /\ W[p].kind = "read_request" /\ W[p].pc = "downup_finish"
            /\ c1[m][w].tag = W[p].tag /\ c1[m][w].state = "S"
         \/ /\ W[p].kind = "write_request" /\ W[p].pc = "exclusive"
            /\ c1[m][w].tag = NoTag /\ c1[m][w].state = "I"
  BY <1>1, <1>2, <1>4, <1>5, <1>6, <1>7
<1>9. TellsBelow(W, c, d, G, c1, d1, p, s, X, m, w)
  BY ONLY <1>4, <1>7, <1>8 DEF TellsBelow
<1>10. Copies(G, c1, d1)
  BY ONLY <1>9, DownupReplies
<1> QED BY <1>1, <1>10

\* read_request_downup_finish
LEMMA ReadRequestDownupFinishCopies ==
    ASSUME Inv, Inv', Copies(frames, cache, dir), NEW p \in DOMAIN frames,
           ReadRequestDownupFinish(p)
    PROVE  Copies(frames, cache, dir)'
<1>1. PICK fr, b, s, m, w :
         /\ fr = frames[p] /\ b = (fr.reply = "AckData" \/ (fr.reply = "None" /\ Dirty(fr.state)))
         /\ s = Front(p) /\ m = fr.target /\ w = fr.way
  OBVIOUS
<1>2. PICK f, e, r : /\ f = [fr EXCEPT !.pc = "reply", !.data = b] /\ e = dir[m][w]
                     /\ r = IF b THEN "AckData" ELSE "Ack"
  OBVIOUS
<1>3. PICK e1, h, E : /\ e1 = (IF fr.reply = "None" THEN e ELSE [e EXCEPT !.owner = NoModule])
                      /\ h = SetReplyIfHigher(frames[s], r)
                      /\ E = [With(p, f) EXCEPT ![s] = SetReplyIfHigher(@, r)]
  OBVIOUS
<1>4. /\ fr.kind = "read_request" /\ fr.pc = "downup_finish" /\ setBlock(m, w, fr.tag, "S")
      /\ UnlockEntry(m, w, e1, E)
  BY <1>1, <1>2, <1>3 DEF ReadRequestDownupFinish, At
<1>5. Sys(frames, dir) /\ Storage(cache, dir) /\ Calls(frames) /\ IsRequest(fr)
  BY <1>4 DEF Inv, Copies, IsRequest
<1>6. /\ fr \in Frame /\ RequestOK(fr) /\ s \in DOMAIN frames /\ s # p /\ Where(fr) = m
  BY <1>1, <1>5, RequestCallerOf
<1>7. Holds(fr) /\ fr.dir = "downup" /\ Childless(frames, p)
  BY <1>1, <1>4, <1>5, <1>6, NoChildren DEF Holds, RequestOK, Sys
<1>8. e \in Entry
  BY <1>1, <1>2, <1>5, <1>6, <1>7, HeldEntry
<1>9. e1 \in Entry /\ e1.sharers = e.sharers /\ e1.owner \in {e.owner, NoModule}
  <2>1. CASE e1 = e
    BY <1>8, <2>1
  <2>2. CASE e1 = [e EXCEPT !.owner = NoModule]
    BY <1>8, <2>2 DEF Entry
  <2> QED BY <1>3, <2>1, <2>2
<1>10. Replies(fr, f) /\ Told(frames[s], h)
  <2>1. b \in BOOLEAN
    BY <1>1
  <2>2. r \in {"Ack", "AckData"}
    BY <1>2
  <2> QED BY <1>2, <1>3, <2>1, <2>2 DEF Replies, Told
<1>11. /\ DOMAIN E = DOMAIN frames /\ E[p] = f /\ E[s] = h
       /\ \A q \in DOMAIN frames : q # p /\ q # s => E[q] = frames[q]
  BY <1>1, <1>3, <1>6 DEF With
<1>12. ReplyUnlocks(p, s, f, h, m, w, e1, E)
  BY <1>1, <1>4, <1>5, <1>7, <1>9, <1>10, <1>11 DEF ReplyUnlocks
<1>13. PICK t, x : t = fr.tag /\ x = "S"
  OBVIOUS
<1>14. /\ frames[p].dir = "downup" /\ h = SetReplyIfHigher(frames[s], r) /\ setBlock(m, w, t, x)
       /\ e1.sharers = dir[m][w].sharers /\ e1.owner \in {dir[m][w].owner, NoModule}
       /\ frames[p].kind = "read_request" /\ frames[p].pc = "downup_finish"
       /\ t = frames[p].tag /\ x = "S" /\ Inv /\ Copies(frames, cache, dir)
  BY <1>1, <1>2, <1>3, <1>4, <1>7, <1>9, <1>13
<1> QED BY ONLY <1>12, <1>14, DownupFinishes

\* write_request_downup
LEMMA WriteRequestDownupCopies ==
    ASSUME Inv, Inv', Copies(frames, cache, dir), NEW p \in DOMAIN frames,
           WriteRequestDownup(p)
    PROVE  Copies(frames, cache, dir)'
<1>1. PICK fr, b, s, m, w :
         /\ fr = frames[p] /\ b = Dirty(fr.state)
         /\ s = Front(p) /\ m = fr.target /\ w = fr.way
  OBVIOUS
<1>2. PICK f, e, r : /\ f = [fr EXCEPT !.pc = "reply", !.data = b] /\ e = dir[m][w]
                     /\ r = IF b THEN "AckData" ELSE "Ack"
  OBVIOUS
<1>3. PICK h, E : /\ h = SetReplyIfHigher(frames[s], r)
                  /\ E = [With(p, f) EXCEPT ![s] = SetReplyIfHigher(@, r)]
  OBVIOUS
<1>4. /\ fr.kind = "write_request" /\ fr.pc = "exclusive" /\ fr.dir = "downup"
      /\ setBlock(m, w, NoTag, "I") /\ UnlockEntry(m, w, e, E)
  BY <1>1, <1>2, <1>3 DEF WriteRequestDownup, At
<1>5. Sys(frames, dir) /\ Storage(cache, dir) /\ Calls(frames) /\ IsRequest(fr)
  BY <1>4 DEF Inv, Copies, IsRequest
<1>6. /\ fr \in Frame /\ RequestOK(fr) /\ s \in DOMAIN frames /\ s # p /\ Where(fr) = m
  BY <1>1, <1>5, RequestCallerOf
<1>7. Holds(fr) /\ Childless(frames, p)
  BY <1>1, <1>4, <1>5, <1>6, NoChildren DEF Holds, RequestOK, Sys
<1>8. e \in Entry
  BY <1>1, <1>2, <1>5, <1>6, <1>7, HeldEntry
<1>10. Replies(fr, f) /\ Told(frames[s], h)
  <2>1. b \in BOOLEAN
    BY <1>1 DEF Dirty
  <2>2. r \in {"Ack", "AckData"}
    BY <1>2
  <2> QED BY <1>2, <1>3, <2>1, <2>2 DEF Replies, Told
<1>11. /\ DOMAIN E = DOMAIN frames /\ E[p] = f /\ E[s] = h
       /\ \A q \in DOMAIN frames : q # p /\ q # s => E[q] = frames[q]
  BY <1>1, <1>3, <1>6 DEF With
<1>12. ReplyUnlocks(p, s, f, h, m, w, e, E)
  BY <1>1, <1>4, <1>5, <1>7, <1>8, <1>10, <1>11 DEF ReplyUnlocks
<1>13. PICK t, x : t = NoTag /\ x = "I"
  OBVIOUS
<1>14. /\ frames[p].dir = "downup" /\ h = SetReplyIfHigher(frames[s], r) /\ setBlock(m, w, t, x)
       /\ e.sharers = dir[m][w].sharers /\ e.owner \in {dir[m][w].owner, NoModule}
       /\ frames[p].kind = "write_request" /\ frames[p].pc = "exclusive"
       /\ t = NoTag /\ x = "I" /\ Inv /\ Copies(frames, cache, dir)
  BY <1>1, <1>2, <1>3, <1>4, <1>8, <1>13
<1> QED BY ONLY <1>12, <1>14, DownupFinishes
-----------------------------------------------------------------------------
(* Requests from caches above. *)

\* Request p, of module n above module m, has got block t, and replies: n shares
\* the block from now on, alone if anybody may write it.
Grants(F, c, d, G, c1, d1, p, s, X, m, w, n, t) ==
    /\ Sys(F, d) /\ Copies(F, c, d) /\ p \in DOMAIN F /\ Childless(F, p)
    /\ IsUpDown(F[p]) /\ Holds(F[p]) /\ s = Front(p) /\ X = {p, s} /\ DOMAIN G = DOMAIN F
    /\ \A q \in DOMAIN F : q # p /\ q # s => G[q] = F[q]
    /\ G[p] \in Frame /\ Alike(F[p], G[p]) /\ G[p].pc = "reply" /\ G[p].error = F[p].error
    /\ G[s] \in Frame /\ Alike(F[s], G[s]) /\ G[s].pc = F[s].pc /\ G[s].error = F[s].error
    /\ m = F[p].target /\ w = F[p].way /\ n = F[p].mod /\ t = F[p].tag
    /\ OffEntry(c, d, c1, d1, m, w)
    /\ c1[m][w].transient = c[m][w].transient /\ c1[m][w].tag = t /\ c1[m][w].state # "I"
    /\ \A K \in Rights : m # MainMemory /\ c1[m][w].state \in K => Needs(F, c, m, t, K)
    /\ \A i \in d1[m][w].sharers : i \in d[m][w].sharers \/ i = n
    /\ \A i \in d[m][w].sharers : i \in d1[m][w].sharers
    /\ n \in d1[m][w].sharers /\ d1[m][w].owner \in {d[m][w].owner, NoModule, n}
    /\ \A i \in Modules \ {MainMemory} :
          Low[i] = m /\ (Needs(F, c, i, t, Exclusive) \/ (i = n /\ Granted(G, s, Exclusive))) =>
              i = n /\ d1[m][w].sharers = {n} /\ d1[m][w].owner = n

\* What else is true then.
LEMMA GrantFacts ==
    ASSUME NEW F, NEW c, NEW d, NEW G, NEW c1, NEW d1, NEW p, NEW s, NEW X, NEW m, NEW w,
           NEW n, NEW t, Grants(F, c, d, G, c1, d1, p, s, X, m, w, n, t)
    PROVE  /\ m \in Modules /\ w \in Ways(m) /\ n \in Modules \ {MainMemory} /\ Low[n] = m /\ t \in Tag
           /\ Where(F[p]) = m /\ ~Revokes(F[p]) /\ Leans(F[p], m, w)
           /\ \A i : ~Asked(F, m, w, i)
           /\ c[m][w].transient = t /\ (c[m][w].state # "I" => c[m][w].tag = t)
           /\ Telling(F, c, d, G, c1, d1, p, s, X, m, w)
<1>0. /\ Sys(F, d) /\ Copies(F, c, d) /\ p \in DOMAIN F /\ Childless(F, p)
      /\ IsUpDown(F[p]) /\ Holds(F[p]) /\ s = Front(p) /\ X = {p, s} /\ DOMAIN G = DOMAIN F
      /\ \A q \in DOMAIN F : q # p /\ q # s => G[q] = F[q]
      /\ G[p] \in Frame /\ Alike(F[p], G[p]) /\ G[p].pc = "reply" /\ G[p].error = F[p].error
      /\ G[s] \in Frame /\ Alike(F[s], G[s]) /\ G[s].pc = F[s].pc /\ G[s].error = F[s].error
      /\ m = F[p].target /\ w = F[p].way /\ n = F[p].mod /\ t = F[p].tag
      /\ OffEntry(c, d, c1, d1, m, w)
  BY DEF Grants
<1>1. Calls(F) /\ Leaning(F, c, d) /\ IsRequest(F[p]) /\ F[p].dir = "updown"
  BY <1>0 DEF Copies, IsUpDown
<1>2. PICK f : f = F[p]
  OBVIOUS
<1>3. f \in Frame /\ RequestOK(f) /\ RequestFlow(f) /\ Where(f) = m /\ ~IsAccess(f)
  BY <1>0, <1>1, <1>2, RequestCallerOf
<1>4. m \in Modules /\ w \in Ways(m) /\ w # 0 /\ t \in Tag /\ n \in Modules
  BY <1>0, <1>2, <1>3, FrameOf
<1>5. n # MainMemory /\ Low[n] = m
  BY ONLY <1>0, <1>1, <1>2, <1>3 DEF RequestOK, RequestFlow
<1>6. ~Revokes(f) /\ Leans(f, m, w)
  BY <1>0, <1>1, <1>2, <1>3 DEF Revokes, Leans
<1>7. \A i : ~Asked(F, m, w, i)
  <2>1. \A i : ~Asked(F, Where(F[p]), F[p].way, i)
    BY <1>0, <1>1, HeldNotAsked
  <2> QED BY <1>0, <1>2, <1>3, <2>1
<1>8. c[m][w].transient = t /\ (c[m][w].state # "I" => c[m][w].tag = t)
  <2>1. HeldOK(f, c[m][w])
    BY <1>0, <1>1, <1>2, <1>3 DEF Leaning, LeanOK, IsRequest
  <2> QED BY <1>0, <1>2, <2>1 DEF HeldOK
<1>9. Telling(F, c, d, G, c1, d1, p, s, X, m, w)
  BY ONLY <1>0, <1>1 DEF Telling
<1> QED BY <1>2, <1>3, <1>4, <1>5, <1>6, <1>7, <1>8, <1>9

\* Only module n needs more than before, and it has the way that p has claimed.
LEMMA GrantGrows ==
    ASSUME NEW F, NEW c, NEW d, NEW G, NEW c1, NEW d1, NEW p, NEW s, NEW X, NEW m, NEW w,
           NEW n, NEW t, Grants(F, c, d, G, c1, d1, p, s, X, m, w, n, t),
           NEW K \in Rights, NEW l \in Modules \ {MainMemory}, NEW u \in Tag, Needs(G, c1, l, u, K)
    PROVE  Needs(F, c, l, u, K) \/ (l = n /\ u = t /\ Granted(G, s, K))
<1>0. /\ Sys(F, d) /\ Copies(F, c, d) /\ p \in DOMAIN F /\ Childless(F, p)
      /\ IsUpDown(F[p]) /\ Holds(F[p]) /\ s = Front(p) /\ X = {p, s} /\ DOMAIN G = DOMAIN F
      /\ \A q \in DOMAIN F : q # p /\ q # s => G[q] = F[q]
      /\ Alike(F[p], G[p]) /\ G[p].pc = "reply" /\ Alike(F[s], G[s]) /\ G[s].pc = F[s].pc
      /\ m = F[p].target /\ w = F[p].way /\ n = F[p].mod /\ t = F[p].tag
      /\ OffEntry(c, d, c1, d1, m, w) /\ c1[m][w].tag = t
      /\ \A L \in Rights : m # MainMemory /\ c1[m][w].state \in L => Needs(F, c, m, t, L)
  BY DEF Grants
<1>1. /\ Calls(F) /\ w \in Ways(m) /\ m \in Modules
      /\ Telling(F, c, d, G, c1, d1, p, s, X, m, w) /\ IsRequest(F[p]) /\ F[p].dir = "updown"
  BY <1>0, GrantFacts DEF Copies, IsUpDown
<1>2. /\ Rest(F, G, X) /\ ~IsLost(F[p]) /\ ~IsLost(F[s]) /\ s \in DOMAIN F /\ s # p
  BY ONLY <1>1, RequestTells
<1>3. CASE Has(G, c1, l, u, K)
  <2>1. PICK v \in Ways(l) : c1[l][v].tag = u /\ c1[l][v].state \in K /\ ~Lost(G, l, v)
    BY <1>3 DEF Has
  <2>2. CASE l = m /\ v = w
    BY <1>0, <2>1, <2>2
  <2>3. CASE ~(l = m /\ v = w)
    <3>1. c[l][v] = c1[l][v]
      BY <1>0, <2>3 DEF OffEntry
    <3>2. ~Lost(F, l, v)
      BY <1>0, <1>2, <2>1, LostKept
    <3> QED BY <2>1, <3>1, <3>2 DEF Needs, Has
  <2> QED BY <2>2, <2>3
<1>4. CASE Due(G, l, u, K)
  <2>1. PICK q \in DOMAIN G : Granted(G, q, K) /\ Where(G[q]) = l /\ G[q].tag = u
    BY <1>4 DEF Due
  <2>2. CASE q = s
    <3>1. PICK f, g : f = F[p] /\ g = F[s]
      OBVIOUS
    <3>2. /\ RequestLink(f, g) /\ RequestFlow(f) /\ f.dir = "updown" /\ f.way # 0
      BY <1>0, <1>1, <3>1, RequestCallerOf, FrameOf
    <3>3. f.mod = Where(g) /\ f.tag = g.tag
      BY ONLY <3>2 DEF RequestLink, RequestFlow, Revokes
    <3>4. Where(G[s]) = Where(g) /\ G[s].tag = g.tag
      BY <1>0, <3>1, AlikeFacts DEF Alike
    <3> QED BY <1>0, <2>1, <2>2, <3>1, <3>3, <3>4
  <2>3. q # p
    <3>1. Holds(G[q])
      BY <2>1 DEF Granted
    <3> QED BY <1>0, <1>1, <3>1, AlikeFacts DEF Holds, IsRequest, IsAccess
  <2>4. CASE q # s
    <3>1. q \in DOMAIN F /\ G[q] = F[q]
      BY <1>0, <2>3, <2>4
    <3>2. Answered(G, q) => Answered(F, q)
      <4>1. ASSUME NEW r \in DOMAIN G, Child(r, q), IsUpDown(G[r]), G[r].pc = "reply"
            PROVE  r \in DOMAIN F /\ IsUpDown(F[r]) /\ F[r].pc = "reply"
        <5>1. r # p
          BY <1>0, <2>4, <4>1 DEF Child
        <5>2. CASE r = s
          BY <1>0, <4>1, <5>2, AlikeFacts
        <5>3. CASE r # s
          BY <1>0, <4>1, <5>1, <5>3
        <5> QED BY <5>2, <5>3
      <4> QED BY <3>1, <4>1 DEF Answered
    <3>3. Granted(F, q, K)
      BY <2>1, <3>1, <3>2 DEF Granted
    <3> QED BY <2>1, <3>1, <3>3 DEF Needs, Due
  <2> QED BY <2>2, <2>4
<1> QED BY <1>3, <1>4 DEF Needs

\* The caches above have their blocks from the modules below, one of them alone if
\* it may write the block.
LEMMA GrantCovered ==
    ASSUME NEW F, NEW c, NEW d, NEW G, NEW c1, NEW d1, NEW p, NEW s, NEW X, NEW m, NEW w,
           NEW n, NEW t, Grants(F, c, d, G, c1, d1, p, s, X, m, w, n, t)
    PROVE  Covered(G, c1, d1) /\ Single(G, c1)
<1>0. /\ Sys(F, d) /\ Copies(F, c, d) /\ p \in DOMAIN F /\ Holds(F[p])
      /\ m = F[p].target /\ w = F[p].way /\ t = F[p].tag
      /\ OffEntry(c, d, c1, d1, m, w) /\ c1[m][w].tag = t /\ c1[m][w].state # "I"
      /\ \A i \in d1[m][w].sharers : i \in d[m][w].sharers \/ i = n
      /\ \A i \in d[m][w].sharers : i \in d1[m][w].sharers
      /\ n \in d1[m][w].sharers
      /\ \A i \in Modules \ {MainMemory} :
            Low[i] = m /\ (Needs(F, c, i, t, Exclusive) \/ (i = n /\ Granted(G, s, Exclusive))) =>
                i = n /\ d1[m][w].sharers = {n} /\ d1[m][w].owner = n
  BY DEF Grants
<1>1. /\ m \in Modules /\ w \in Ways(m) /\ n \in Modules \ {MainMemory} /\ Low[n] = m /\ t \in Tag
      /\ Where(F[p]) = m /\ ~Revokes(F[p])
      /\ \A i : ~Asked(F, m, w, i)
      /\ c[m][w].state # "I" => c[m][w].tag = t
      /\ Telling(F, c, d, G, c1, d1, p, s, X, m, w)
  BY GrantFacts
<1>2. Covered(F, c, d) /\ Single(F, c) /\ X = {p, s}
  BY <1>0 DEF Copies, Grants
<1>3. Rest(F, G, X) /\ Leaves(F, G, s) /\ Leaves(F, G, p)
  <2>1. /\ Rest(F, G, X) /\ Leaves(F, G, s) /\ (~Revoking(F[p]) => Leaves(F, G, p))
    BY ONLY <1>1, RequestTells
  <2> QED BY <1>1, <2>1 DEF Revoking
<1>4. ASSUME NEW K \in Rights, NEW l \in Modules \ {MainMemory}, NEW u \in Tag, Needs(G, c1, l, u, K)
      PROVE  Needs(F, c, l, u, K) \/ (l = n /\ u = t /\ Granted(G, s, K))
  BY <1>4, GrantGrows
<1>5. ASSUME NEW K \in Rights, NEW l \in Modules \ {MainMemory}, Low[l] = m, Needs(F, c, l, t, K)
      PROVE  l \in d[m][w].sharers
  <2>1. Serves(F, c[m][w], d[m][w], m, w, l, t, K)
    <3>1. Low[l] = Where(F[p]) /\ Needs(F, c, l, F[p].tag, K)
      BY <1>0, <1>1, <1>5
    <3>2. Serves(F, c[Low[l]][F[p].way], d[Low[l]][F[p].way], Low[l], F[p].way, l, F[p].tag, K)
      BY <1>0, <3>1, ServedByHeld
    <3> QED BY <1>0, <1>5, <3>2
  <2> QED BY <1>1, <2>1 DEF Serves
<1>6. Covered(G, c1, d1)
  <2>1. SUFFICES ASSUME NEW K \in Rights, NEW l \in Modules \ {MainMemory}, NEW u \in Tag,
                        Needs(G, c1, l, u, K)
                 PROVE  \E v \in Ways(Low[l]) :
                           Serves(G, c1[Low[l]][v], d1[Low[l]][v], Low[l], v, l, u, K)
    BY DEF Covered
  <2>2. Needs(F, c, l, u, K) \/ (l = n /\ u = t /\ Granted(G, s, K))
    BY <1>4, <2>1
  <2>3. CASE Low[l] = m /\ u = t
    <3>1. l \in d1[m][w].sharers
      BY <1>0, <1>5, <2>2, <2>3
    <3>2. K = Exclusive => d1[m][w].sharers = {l} /\ d1[m][w].owner = l
      BY <1>0, <2>2, <2>3
    <3> QED BY <1>0, <1>1, <2>3, <3>1, <3>2 DEF Serves
  <2>4. CASE ~(Low[l] = m /\ u = t)
    <3>1. Needs(F, c, l, u, K)
      BY <1>1, <2>2, <2>4
    <3>2. PICK v \in Ways(Low[l]) : Serves(F, c[Low[l]][v], d[Low[l]][v], Low[l], v, l, u, K)
      BY <1>2, <3>1 DEF Covered
    <3>3. Low[l] \in Modules
      BY LowFacts
    <3>4. ~(Low[l] = m /\ v = w)
      BY <1>1, <2>4, <3>2 DEF Serves
    <3>5. c1[Low[l]][v] = c[Low[l]][v] /\ d1[Low[l]][v] = d[Low[l]][v]
      BY <1>0, <3>3, <3>4 DEF OffEntry
    <3>6. Asked(F, Low[l], v, l) => Asked(G, Low[l], v, l)
      BY <1>2, <1>3, AskedKept
    <3> QED BY <3>2, <3>5, <3>6 DEF Serves
  <2> QED BY <2>3, <2>4
<1>7. Single(G, c1)
  <2>1. SUFFICES ASSUME NEW l \in Modules \ {MainMemory}, NEW i \in Modules \ {MainMemory},
                        NEW u \in Tag, Low[l] = Low[i],
                        Needs(G, c1, l, u, Exclusive), Needs(G, c1, i, u, Valid)
                 PROVE  l = i
    BY DEF Single
  <2>2. Exclusive \in Rights /\ Valid \in Rights
    BY DEF Rights
  <2>3. /\ Needs(F, c, l, u, Exclusive) \/ (l = n /\ u = t /\ Granted(G, s, Exclusive))
        /\ Needs(F, c, i, u, Valid) \/ (i = n /\ u = t /\ Granted(G, s, Valid))
    BY <1>4, <2>1, <2>2
  <2>4. CASE Low[l] = m /\ u = t
    <3>1. l = n /\ d1[m][w].sharers = {n}
      BY <1>0, <2>3, <2>4
    <3>2. CASE Needs(F, c, i, u, Valid)
      BY <1>0, <1>5, <2>1, <2>2, <2>4, <3>1, <3>2
    <3> QED BY <2>3, <3>1, <3>2
  <2>5. CASE ~(Low[l] = m /\ u = t)
    BY <1>1, <1>2, <2>1, <2>3, <2>5 DEF Single
  <2> QED BY <2>4, <2>5
<1> QED BY <1>6, <1>7

\* Read requests that have taken the right to write from the caches above.
LEMMA GrantQuiet ==
    ASSUME NEW F, NEW c, NEW d, NEW G, NEW c1, NEW d1, NEW p, NEW s, NEW X, NEW m, NEW w,
           NEW n, NEW t, Grants(F, c, d, G, c1, d1, p, s, X, m, w, n, t)
    PROVE  Quiet(G, c1)
<1>0. /\ Sys(F, d) /\ Copies(F, c, d) /\ p \in DOMAIN F /\ Childless(F, p)
      /\ IsUpDown(F[p]) /\ Holds(F[p]) /\ s = Front(p) /\ DOMAIN G = DOMAIN F
      /\ \A q \in DOMAIN F : q # p /\ q # s => G[q] = F[q]
      /\ Alike(F[p], G[p]) /\ G[p].pc = "reply" /\ Alike(F[s], G[s]) /\ G[s].pc = F[s].pc
      /\ t = F[p].tag
  BY DEF Grants
<1>1. /\ n \in Modules \ {MainMemory} /\ Low[n] = m /\ t \in Tag /\ Where(F[p]) = m
      /\ Calls(F) /\ Leaning(F, c, d) /\ OneWayEach(c, d) /\ Quiet(F, c)
      /\ IsRequest(F[p]) /\ F[p].dir = "updown" /\ Exclusive \in Rights
  BY <1>0, GrantFacts DEF Copies, IsUpDown, Rights
<1>2. ASSUME NEW l, NEW u \in Tag, NEW S, NoneBut(F, c, l, u, S), ~(l = m /\ u = t)
      PROVE  NoneBut(G, c1, l, u, S)
  <2>1. SUFFICES ASSUME NEW i \in Modules \ {MainMemory}, Low[i] = l, i \notin S,
                        Needs(G, c1, i, u, Exclusive)
                 PROVE  FALSE
    BY DEF NoneBut
  <2>2. Needs(F, c, i, u, Exclusive) \/ (i = n /\ u = t)
    BY <1>1, <2>1, GrantGrows
  <2> QED BY <1>1, <1>2, <2>1, <2>2 DEF NoneBut
<1>3. SUFFICES ASSUME NEW q \in DOMAIN G PROVE ReadQuiet(G[q], G, c1)
  BY DEF Quiet
<1>4. CASE q = p
  BY <1>0, <1>1, <1>4 DEF ReadQuiet, Alike
<1>5. CASE q = s
  <2>1. PICK g : g = F[s]
    OBVIOUS
  <2>2. /\ g.pc = (IF g.kind = "invalidate" THEN "finish" ELSE "call")
        /\ IsRequest(g) => g.dir = "updown"
    BY <1>0, <1>1, <2>1, RequestCallerOf
  <2>3. G[s].kind = g.kind /\ G[s].dir = g.dir /\ G[s].pc = g.pc
    BY <1>0, <2>1 DEF Alike
  <2> QED BY <1>5, <2>2, <2>3 DEF ReadQuiet, IsRequest
<1>6. CASE q # p /\ q # s
  <2>1. PICK f : f = F[q] /\ f = G[q] /\ q \in DOMAIN F
    BY <1>0, <1>6
  <2>2. SUFFICES ASSUME f.kind = "read_request" PROVE ReadQuiet(f, G, c1)
    BY <2>1 DEF ReadQuiet
  <2>3. f.tag \in Tag /\ f.addr \in Tag /\ IsRequest(f) /\ Where(f) = f.target /\ f.way \in Nat /\ RequestOK(f)
    <3>1. f \in Frame /\ FrameOK(f) /\ IsRequest(f)
      BY <1>0, <2>1, <2>2, FrameOf, ZenonT(40) DEF IsRequest
    <3> QED BY ONLY <3>1, <2>2 DEF FrameOK, Frame, Where, IsRequest
  <2>4. ReadQuiet(f, F, c)
    BY <1>1, <2>1 DEF Quiet
  <2>5. ASSUME f.pc \in {"updown_finish", "downup_finish"}
        PROVE  ~(f.target = m /\ f.tag = t)
    <3>1. Holds(f)
      BY <2>3, <2>5 DEF RequestOK, Holds
    <3> QED BY <1>0, <1>1, <1>6, <2>1, <2>3, <3>1, OneClaim
  <2>6. ASSUME f.dir = "downup"
        PROVE  ~(f.mod = m /\ f.addr = t)
    <3>1. PICK r : r = Front(q)
      OBVIOUS
    <3>2. /\ r \in DOMAIN F /\ Child(q, r) /\ RequestLink(f, F[r])
          /\ (F[r].kind = "invalidate" => Revokes(f))
          /\ (F[r].kind # "invalidate" => Holds(F[r]) /\ f.mod = Where(F[r]))
      <4>1. IsRequest(F[q]) /\ q \in DOMAIN F /\ Sys(F, d) /\ Calls(F) /\ r = Front(q) /\ f = F[q]
        BY <1>0, <1>1, <2>1, <2>3, <3>1
      <4>2. /\ r \in DOMAIN F /\ Child(q, r) /\ RequestLink(F[q], F[r])
            /\ (F[r].kind = "invalidate" => Revokes(F[q]))
            /\ (F[r].kind # "invalidate" => Holds(F[r]) /\ F[q].mod = Where(F[r]))
        BY ONLY <4>1, RequestCallerOf
      <4> QED BY <4>1, <4>2
    <3>3. Holds(F[r]) /\ f.mod = Where(F[r]) /\ f.addr = F[r].tag
      BY <2>2, <3>2 DEF Revokes, RequestLink
    <3>4. r # p
      BY <1>0, <2>1, <3>2 DEF Childless
    <3> QED BY <1>0, <1>1, <3>2, <3>3, <3>4, OneClaim
  <2> QED BY <1>2, <2>2, <2>3, <2>4, <2>5, <2>6 DEF ReadQuiet
<1> QED BY <1>4, <1>5, <1>6

\* The request replies.
LEMMA GrantStep ==
    ASSUME NEW F, NEW c, NEW d, NEW G, NEW c1, NEW d1, NEW p, NEW s, NEW X, NEW m, NEW w,
           NEW n, NEW t, Grants(F, c, d, G, c1, d1, p, s, X, m, w, n, t)
    PROVE  Copies(G, c1, d1)
<1>0. /\ Sys(F, d) /\ Copies(F, c, d) /\ p \in DOMAIN F /\ Childless(F, p)
      /\ Holds(F[p]) /\ X = {p, s} /\ w = F[p].way
      /\ OffEntry(c, d, c1, d1, m, w) /\ c1[m][w].transient = c[m][w].transient
      /\ c1[m][w].tag = t
      /\ \A i \in d1[m][w].sharers : i \in d[m][w].sharers \/ i = n
      /\ d1[m][w].owner \in {d[m][w].owner, NoModule, n}
  BY DEF Grants
<1>1. /\ m \in Modules /\ w \in Ways(m) /\ n \in Modules \ {MainMemory} /\ Low[n] = m /\ t \in Tag
      /\ Where(F[p]) = m /\ c[m][w].transient = t
      /\ Telling(F, c, d, G, c1, d1, p, s, X, m, w)
      /\ Calls(F) /\ Leaning(F, c, d) /\ Alone(F, d) /\ OneWayEach(c, d) /\ Above(d)
  BY <1>0, GrantFacts DEF Copies
<1>2. /\ Rest(F, G, X) /\ Linked(G, X) /\ Fits(F, c, G, c1, d1, X, p)
      /\ FlowOK(G[s]) /\ LeanOK(G[s], c1, d1) /\ Shows(F, G, X, s)
      /\ Cleared(G, s) => d1[G[s].target][G[s].way].sharers \subseteq {G[s].mod}
  BY ONLY <1>1, RequestTells
<1>3. \A x \in X \cap DOMAIN G :
         /\ FlowOK(G[x]) /\ LeanOK(G[x], c1, d1) /\ Shows(F, G, X, x)
         /\ Cleared(G, x) => d1[G[x].target][G[x].way].sharers \subseteq {G[x].mod}
  BY <1>0, <1>2 DEF Fits
<1>4. \A q \in DOMAIN F \ X : ~Leans(F[q], m, w)
  BY <1>0, <1>1, Lone
<1>5. Calls(G)
  BY <1>1, <1>2, <1>3, CallsKept
<1>6. Leaning(G, c1, d1)
  BY <1>0, <1>1, <1>2, <1>3, <1>4, LeaningKept
<1>7. Alone(G, d1)
  <2>1. \A q \in DOMAIN F \ X : ~(Holds(F[q]) /\ Where(F[q]) = m /\ F[q].way = w)
    BY <1>4 DEF Leans
  <2>2. \A x \in X \cap DOMAIN G : Shows(F, G, X, x)
    BY <1>3
  <2>3. \A x \in X \cap DOMAIN G :
           Cleared(G, x) => d1[G[x].target][G[x].way].sharers \subseteq {G[x].mod}
    BY <1>3
  <2>4. /\ Sys(F, d) /\ Alone(F, d) /\ Rest(F, G, X) /\ OffEntry(c, d, c1, d1, m, w)
    BY <1>0, <1>1, <1>2
  <2> QED BY ONLY <2>1, <2>2, <2>3, <2>4, AloneKept
<1>8. OneWayEach(c1, d1)
  <2>1. d[m][w].lock # 0
    BY <1>0, <1>1, FrameOf
  <2>2. ASSUME NEW u \in Tag, InMatches(c1, d1, m, u, w)
        PROVE  InMatches(c, d, m, u, w)
    BY <1>0, <1>1, <2>1, <2>2 DEF InMatches
  <2> QED BY <1>0, <1>1, <2>2, OneWayKept
<1>9. Above(d1)
  <2>1. \A i \in d1[m][w].sharers : Low[i] = m
    BY <1>0, <1>1 DEF Above
  <2>2. d1[m][w].owner # NoModule => Low[d1[m][w].owner] = m
    BY <1>0, <1>1 DEF Above
  <2> QED BY <1>0, <1>1, <2>1, <2>2, AboveKept
<1>10. Covered(G, c1, d1) /\ Single(G, c1) /\ Quiet(G, c1)
  BY GrantCovered, GrantQuiet
<1> QED BY <1>5, <1>6, <1>7, <1>8, <1>9, <1>10 DEF Copies

\* The frames of a step in which the request p replies.
Granting(F, c, d, G, c1, d1, p, s, X, m, w, n, t) ==
    /\ Sys(F, d) /\ Copies(F, c, d) /\ p \in DOMAIN F /\ Childless(F, p)
    /\ IsRequest(F[p]) /\ F[p].pc = "updown_finish"
    /\ s = Front(p) /\ X = {p, s} /\ DOMAIN G = DOMAIN F
    /\ \A q \in DOMAIN F : q # p /\ q # s => G[q] = F[q]
    /\ G[p] \in Frame /\ Alike(F[p], G[p]) /\ G[p].pc = "reply" /\ G[p].error = F[p].error
    /\ G[s] \in Frame /\ Alike(F[s], G[s]) /\ G[s].pc = F[s].pc /\ G[s].error = F[s].error
    /\ m = F[p].target /\ w = F[p].way /\ n = F[p].mod /\ t = F[p].tag
    /\ OffEntry(c, d, c1, d1, m, w)
    /\ d1[m][w].sharers = d[m][w].sharers \cup {n}

\* What is known of the request, and of the caches above its module.
LEMMA GrantingFacts ==
    ASSUME NEW F, NEW c, NEW d, NEW G, NEW c1, NEW d1, NEW p, NEW s, NEW X, NEW m, NEW w,
           NEW n, NEW t, Granting(F, c, d, G, c1, d1, p, s, X, m, w, n, t)
    PROVE  /\ IsUpDown(F[p]) /\ Holds(F[p]) /\ Where(F[p]) = m /\ Calls(F) /\ Leaning(F, c, d)
           /\ m \in Modules /\ w \in Ways(m) /\ s \in DOMAIN F /\ F[s] \in Frame
           /\ CallOK(F[p], F[s]) /\ F[p] \in Frame
           /\ HeldOK(F[p], c[m][w])
           /\ \A K \in Rights, i \in Modules \ {MainMemory} :
                 Low[i] = m /\ Needs(F, c, i, t, K) =>
                    /\ i \in d[m][w].sharers
                    /\ K = Exclusive => d[m][w].sharers = {i} /\ d[m][w].owner = i
<1>0. /\ Sys(F, d) /\ Copies(F, c, d) /\ p \in DOMAIN F /\ Childless(F, p)
      /\ IsRequest(F[p]) /\ F[p].pc = "updown_finish" /\ s = Front(p)
      /\ m = F[p].target /\ w = F[p].way /\ t = F[p].tag
  BY DEF Granting
<1>1. Calls(F) /\ Leaning(F, c, d)
  BY <1>0 DEF Copies
<1>2. PICK f : f = F[p]
  OBVIOUS
<1>3. /\ f \in Frame /\ RequestOK(f) /\ Where(f) = m /\ s \in DOMAIN F /\ F[s] \in Frame
      /\ CallOK(f, F[s])
  BY <1>0, <1>1, <1>2, RequestCallerOf
<1>4. Holds(f) /\ IsUpDown(f)
  BY <1>0, <1>2, <1>3 DEF RequestOK, Holds, IsUpDown
<1>5. m \in Modules /\ w \in Ways(m)
  BY <1>0, <1>2, <1>3, <1>4, FrameOf
<1>6. HeldOK(f, c[m][w])
  BY <1>0, <1>1, <1>2, <1>3, <1>4 DEF Leaning, LeanOK, IsRequest
<1>7. ASSUME NEW K \in Rights, NEW i \in Modules \ {MainMemory}, Low[i] = m, Needs(F, c, i, t, K)
      PROVE  /\ i \in d[m][w].sharers
             /\ K = Exclusive => d[m][w].sharers = {i} /\ d[m][w].owner = i
  <2>1. Low[i] = Where(F[p]) /\ Needs(F, c, i, F[p].tag, K)
    BY <1>0, <1>2, <1>3, <1>7
  <2>2. Serves(F, c[Low[i]][F[p].way], d[Low[i]][F[p].way], Low[i], F[p].way, i, F[p].tag, K)
    BY <1>0, <1>2, <1>4, <2>1, ServedByHeld
  <2>3. ~Asked(F, Where(F[p]), F[p].way, i)
    BY <1>0, <1>1, <1>2, <1>4, HeldNotAsked
  <2> QED BY <1>0, <1>2, <1>3, <2>1, <2>2, <2>3 DEF Serves
<1> QED BY <1>1, <1>2, <1>3, <1>4, <1>5, <1>6, <1>7

\* A write request has got the block, or was its only user.
LEMMA WriteGrants ==
    ASSUME NEW F, NEW c, NEW d, NEW G, NEW c1, NEW d1, NEW p, NEW s, NEW X, NEW m, NEW w,
           NEW n, NEW t, Granting(F, c, d, G, c1, d1, p, s, X, m, w, n, t),
           F[p].kind = "write_request", ~F[p].error,
           c1[m][w].transient = c[m][w].transient, c1[m][w].tag = t, c1[m][w].state = "E",
           d1[m][w].owner = n
    PROVE  Copies(G, c1, d1)
<1>1. /\ Sys(F, d) /\ Copies(F, c, d) /\ p \in DOMAIN F /\ Childless(F, p)
      /\ IsRequest(F[p]) /\ F[p].pc = "updown_finish"
      /\ s = Front(p) /\ X = {p, s} /\ DOMAIN G = DOMAIN F
      /\ \A q \in DOMAIN F : q # p /\ q # s => G[q] = F[q]
      /\ G[p] \in Frame /\ Alike(F[p], G[p]) /\ G[p].pc = "reply" /\ G[p].error = F[p].error
      /\ G[s] \in Frame /\ Alike(F[s], G[s]) /\ G[s].pc = F[s].pc /\ G[s].error = F[s].error
      /\ m = F[p].target /\ w = F[p].way /\ n = F[p].mod /\ t = F[p].tag
      /\ OffEntry(c, d, c1, d1, m, w)
      /\ d1[m][w].sharers = d[m][w].sharers \cup {n}
  BY DEF Granting
<1>2. /\ IsUpDown(F[p]) /\ Holds(F[p]) /\ Where(F[p]) = m
      /\ \A K \in Rights, i \in Modules \ {MainMemory} :
            Low[i] = m /\ Needs(F, c, i, t, K) =>
               /\ i \in d[m][w].sharers
               /\ K = Exclusive => d[m][w].sharers = {i} /\ d[m][w].owner = i
  BY GrantingFacts
<1>3. d[m][w].sharers \subseteq {n}
  <2>1. Cleared(F, p) /\ Alone(F, d)
    BY <1>1 DEF Cleared, Copies
  <2> QED BY <1>1, <2>1 DEF Alone
<1>4. d1[m][w].sharers = {n}
  BY <1>1, <1>3
<1>5. \A K \in Rights : m # MainMemory /\ c1[m][w].state \in K => Needs(F, c, m, t, K)
  <2>1. \A K \in Rights : Granted(F, p, K)
    BY <1>1, <1>2 DEF Granted, Answered, Ready
  <2> QED BY <1>1, <1>2, <2>1 DEF Needs, Due
<1>6. \A i \in Modules \ {MainMemory} :
         Low[i] = m /\ (Needs(F, c, i, t, Exclusive) \/ (i = n /\ Granted(G, s, Exclusive))) =>
             i = n /\ d1[m][w].sharers = {n} /\ d1[m][w].owner = n
  BY <1>2, <1>3, <1>4, RightsFacts DEF Rights
<1>7. /\ \A i \in d1[m][w].sharers : i \in d[m][w].sharers \/ i = n
      /\ \A i \in d[m][w].sharers : i \in d1[m][w].sharers
      /\ n \in d1[m][w].sharers /\ d1[m][w].owner \in {d[m][w].owner, NoModule, n}
      /\ c1[m][w].state # "I"
      /\ c1[m][w].transient = c[m][w].transient /\ c1[m][w].tag = t
  BY <1>1
<1>8. Grants(F, c, d, G, c1, d1, p, s, X, m, w, n, t)
  BY ONLY <1>1, <1>2, <1>5, <1>6, <1>7 DEF Grants
<1> QED BY ONLY <1>8, GrantStep

\* A read request has got the block, and nobody else above may write it.
LEMMA ReadGrants ==
    ASSUME NEW F, NEW c, NEW d, NEW G, NEW d1, NEW p, NEW s, NEW X, NEW m, NEW w,
           NEW n, NEW t, Granting(F, c, d, G, c, d1, p, s, X, m, w, n, t),
           F[p].kind = "read_request",
           d1[m][w].owner = (IF d[m][w].owner = n \/ ~G[s].shared THEN n ELSE NoModule),
           ~G[s].shared => d1[m][w].sharers = {n}
    PROVE  Copies(G, c, d1)
<1>1. /\ Sys(F, d) /\ Copies(F, c, d) /\ p \in DOMAIN F /\ Childless(F, p)
      /\ IsRequest(F[p]) /\ F[p].pc = "updown_finish"
      /\ s = Front(p) /\ X = {p, s} /\ DOMAIN G = DOMAIN F
      /\ \A q \in DOMAIN F : q # p /\ q # s => G[q] = F[q]
      /\ G[p] \in Frame /\ Alike(F[p], G[p]) /\ G[p].pc = "reply" /\ G[p].error = F[p].error
      /\ G[s] \in Frame /\ Alike(F[s], G[s]) /\ G[s].pc = F[s].pc /\ G[s].error = F[s].error
      /\ m = F[p].target /\ w = F[p].way /\ n = F[p].mod /\ t = F[p].tag
      /\ OffEntry(c, d, c, d1, m, w)
      /\ d1[m][w].sharers = d[m][w].sharers \cup {n}
  BY DEF Granting
<1>2. /\ IsUpDown(F[p]) /\ Holds(F[p]) /\ Where(F[p]) = m /\ Calls(F)
      /\ CallOK(F[p], F[s]) /\ HeldOK(F[p], c[m][w])
      /\ \A K \in Rights, i \in Modules \ {MainMemory} :
            Low[i] = m /\ Needs(F, c, i, t, K) =>
               /\ i \in d[m][w].sharers
               /\ K = Exclusive => d[m][w].sharers = {i} /\ d[m][w].owner = i
  BY GrantingFacts
<1>3. c[m][w].state # "I" /\ c[m][w].tag = t
  BY <1>1, <1>2 DEF HeldOK
<1>4. NoneBut(F, c, m, t, {n})
  <2>1. ReadQuiet(F[p], F, c)
    BY <1>1 DEF Copies, Quiet
  <2> QED BY <1>1, <2>1 DEF ReadQuiet
<1>5. Granted(G, s, Exclusive) => ~G[s].shared
  <2>1. F[s].kind \notin {"store", "write_request"}
    BY <1>2 DEF CallOK
  <2>2. G[s].kind = F[s].kind
    BY <1>1 DEF Alike
  <2> QED BY <2>1, <2>2 DEF Granted
<1>6. ASSUME NEW i \in Modules \ {MainMemory}, Low[i] = m,
             Needs(F, c, i, t, Exclusive) \/ (i = n /\ Granted(G, s, Exclusive))
      PROVE  i = n /\ d1[m][w].sharers = {n} /\ d1[m][w].owner = n
  <2>1. CASE Needs(F, c, i, t, Exclusive)
    <3>1. i = n
      BY <1>4, <1>6, <2>1 DEF NoneBut
    <3>2. d[m][w].sharers = {n} /\ d[m][w].owner = n
      BY <1>2, <1>6, <2>1, <3>1 DEF Rights
    <3> QED BY <1>1, <3>1, <3>2
  <2>2. CASE i = n /\ Granted(G, s, Exclusive)
    BY <1>5, <2>2
  <2> QED BY <1>6, <2>1, <2>2
<1>7. /\ \A i \in d1[m][w].sharers : i \in d[m][w].sharers \/ i = n
      /\ \A i \in d[m][w].sharers : i \in d1[m][w].sharers
      /\ n \in d1[m][w].sharers /\ d1[m][w].owner \in {d[m][w].owner, NoModule, n}
  BY <1>1
<1>8. \A K \in Rights : m # MainMemory /\ c[m][w].state \in K => Needs(F, c, m, t, K)
  BY <1>1, <1>2, <1>3, HolderHas, SMTT(30) DEF IsRequest
<1>9. /\ c[m][w].transient = c[m][w].transient
      /\ \A i \in Modules \ {MainMemory} :
            Low[i] = m /\ (Needs(F, c, i, t, Exclusive) \/ (i = n /\ Granted(G, s, Exclusive))) =>
                i = n /\ d1[m][w].sharers = {n} /\ d1[m][w].owner = n
  BY <1>6
<1>10. Grants(F, c, d, G, c, d1, p, s, X, m, w, n, t)
  BY ONLY <1>1, <1>2, <1>3, <1>7, <1>8, <1>9 DEF Grants
<1> QED BY ONLY <1>10, GrantStep

\* If a set of modules with n has one element at most, n is alone in it.
LEMMA SoleSharer ==
    ASSUME NEW S, NEW n, n \in S, S \subseteq Modules, ~(Cardinality(S) > 1)
    PROVE  S = {n}
<1>1. IsFiniteSet(S)
  BY HierarchyAssumption, FS_Subset
<1>2. S # {} /\ Cardinality(S) \in Nat /\ Cardinality(S) # 0
  BY <1>1, FS_CardinalityType, FS_EmptySet
<1>3. Cardinality(S) = 1
  BY <1>2
<1>4. PICK x : S = {x}
  BY <1>1, <1>3, FS_Singleton
<1> QED BY <1>4

\* Request p replies, unlocks its entry, which is e now, and its module n shares
\* block t; the block in the way becomes that of c1.
GrantUnlocks(p, s, f, h, m, w, e, E, n, t, c1, G, d1, X) ==
    /\ ReplyUnlocks(p, s, f, h, m, w, e, E) /\ frames[p].pc = "updown_finish"
    /\ h.error = frames[s].error /\ n = frames[p].mod /\ t = frames[p].tag
    /\ \A i : i \in e.sharers <=> i \in dir[m][w].sharers \/ i = n
    /\ \A l \in Modules : \A v \in Ways(l) : l # m \/ v # w => c1[l][v] = cache[l][v]
    /\ G = frames' /\ d1 = dir' /\ X = {p, s}

\* It is as if the frames that wait for the entry had been woken up before.
LEMMA GrantWoken ==
    ASSUME Inv, Copies(frames, cache, dir),
           NEW p, NEW s, NEW f, NEW h, NEW m, NEW w, NEW e, NEW E, NEW n, NEW t,
           NEW c1, NEW G, NEW d1, NEW X,
           GrantUnlocks(p, s, f, h, m, w, e, E, n, t, c1, G, d1, X)
    PROVE  \E W : /\ Granting(W, cache, dir, G, c1, d1, p, s, X, m, w, n, t)
                  /\ W[p] = frames[p] /\ G[s] = h /\ d1[m][w].owner = e.owner
                  /\ d1[m][w].sharers = e.sharers
<1>0. /\ ReplyUnlocks(p, s, f, h, m, w, e, E) /\ frames[p].pc = "updown_finish"
      /\ h.error = frames[s].error /\ n = frames[p].mod /\ t = frames[p].tag
      /\ \A i : i \in e.sharers <=> i \in dir[m][w].sharers \/ i = n
      /\ \A l \in Modules : \A v \in Ways(l) : l # m \/ v # w => c1[l][v] = cache[l][v]
      /\ G = frames' /\ d1 = dir' /\ X = {p, s}
  BY DEF GrantUnlocks
<1> USE <1>0
<1>1. /\ p \in DOMAIN frames /\ IsRequest(frames[p]) /\ s = Front(p)
      /\ m = frames[p].target /\ w = frames[p].way
  BY DEF ReplyUnlocks
<1>2. /\ m \in Modules /\ w \in Ways(m) /\ OffEntry(cache, dir, c1, d1, m, w)
      /\ d1[m][w].sharers = e.sharers /\ d1[m][w].owner = e.owner /\ d1[m][w].lock = 0
      /\ f \in Frame /\ Alike(frames[p], f) /\ f.pc = "reply" /\ f.error = frames[p].error
      /\ h \in Frame /\ Alike(frames[s], h) /\ h.pc = frames[s].pc
      /\ s \in DOMAIN frames /\ s # p
      /\ \E W : /\ Sys(W, dir) /\ Copies(W, cache, dir) /\ p \in DOMAIN W /\ s \in DOMAIN W
                /\ Childless(W, p) /\ W[p] = frames[p] /\ W[s] = frames[s]
                /\ DOMAIN G = DOMAIN W /\ G[p] = f /\ G[s] = h
                /\ \A q \in DOMAIN W : q # p /\ q # s => G[q] = W[q]
  <2>1. /\ \A l \in Modules : \A v \in Ways(l) : l # m \/ v # w => c1[l][v] = cache[l][v]
        /\ G = frames' /\ d1 = dir' /\ Inv /\ Copies(frames, cache, dir)
        /\ ReplyUnlocks(p, s, f, h, m, w, e, E)
    OBVIOUS
  <2> QED BY ONLY <2>1, WokenReply
<1>3. PICK W : /\ Sys(W, dir) /\ Copies(W, cache, dir) /\ p \in DOMAIN W /\ s \in DOMAIN W
               /\ Childless(W, p) /\ W[p] = frames[p] /\ W[s] = frames[s]
               /\ DOMAIN G = DOMAIN W /\ G[p] = f /\ G[s] = h
               /\ \A q \in DOMAIN W : q # p /\ q # s => G[q] = W[q]
  BY <1>2
<1>4. d1[m][w].sharers = dir[m][w].sharers \cup {n}
  <2>1. e.sharers = dir[m][w].sharers \cup {n}
    OBVIOUS
  <2> QED BY <1>2, <2>1
<1>5. /\ IsRequest(W[p]) /\ W[p].pc = "updown_finish" /\ s = Front(p) /\ X = {p, s}
      /\ G[p] \in Frame /\ Alike(W[p], G[p]) /\ G[p].pc = "reply" /\ G[p].error = W[p].error
      /\ G[s] \in Frame /\ Alike(W[s], G[s]) /\ G[s].pc = W[s].pc /\ G[s].error = W[s].error
      /\ m = W[p].target /\ w = W[p].way /\ n = W[p].mod /\ t = W[p].tag
      /\ OffEntry(cache, dir, c1, d1, m, w)
  BY <1>1, <1>2, <1>3
<1>6. Granting(W, cache, dir, G, c1, d1, p, s, X, m, w, n, t)
  BY ONLY <1>3, <1>4, <1>5 DEF Granting
<1> QED BY <1>2, <1>3, <1>6

\* write_request_updown_finish
LEMMA WriteRequestUpdownFinishCopies ==
    ASSUME Inv, Inv', Copies(frames, cache, dir), NEW p \in DOMAIN frames,
           WriteRequestUpdownFinish(p)
    PROVE  Copies(frames, cache, dir)'
<1>1. PICK fr, s, m, w, n, t : /\ fr = frames[p] /\ s = Front(p) /\ m = fr.target /\ w = fr.way
                               /\ n = fr.mod /\ t = fr.tag
  OBVIOUS
<1>2. PICK f, e, h : f = [fr EXCEPT !.pc = "reply"] /\ e = dir[m][w] /\ h = frames[s]
  OBVIOUS
<1>3. PICK e1, E : e1 = WithOwner(e, n) /\ E = With(p, f)
  OBVIOUS
<1>4. fr.kind = "write_request" /\ fr.pc = "updown_finish"
  BY <1>1 DEF WriteRequestUpdownFinish, At
<1>5. CASE fr.error
  <2>1. /\ UnlockEntry(fr.target, fr.way, dir[fr.target][fr.way],
                       [With(p, f) EXCEPT ![Front(p)].error = TRUE])
        /\ cache' = cache
    BY <1>1, <1>2, <1>5 DEF WriteRequestUpdownFinish
  <2> QED BY <1>1, <1>2, <1>4, <2>1, RequestErrorCopies
<1>6. CASE ~fr.error
  <2>1. setBlock(m, w, t, "E") /\ UnlockEntry(m, w, e1, E)
    BY <1>1, <1>2, <1>3, <1>6 DEF WriteRequestUpdownFinish
  <2>2. Sys(frames, dir) /\ Storage(cache, dir) /\ Calls(frames) /\ IsRequest(fr)
    BY <1>4 DEF Inv, Copies, IsRequest
  <2>3. /\ fr \in Frame /\ RequestOK(fr) /\ s \in DOMAIN frames /\ s # p /\ Where(fr) = m
        /\ n \in Modules
    BY <1>1, <2>2, RequestCallerOf, FrameOf
  <2>4. Holds(fr) /\ Childless(frames, p)
    BY <1>1, <1>4, <2>2, <2>3, NoChildren DEF Holds, RequestOK, Sys
  <2>5. e \in Entry /\ m \in Modules /\ w \in Ways(m)
    BY <1>1, <1>2, <2>2, <2>3, <2>4, HeldEntry, FrameOf
  <2>6. e1 \in Entry /\ e1.owner = n /\ (\A i : i \in e1.sharers <=> i \in e.sharers \/ i = n)
    BY <1>3, <2>3, <2>5 DEF WithOwner, Entry
  <2>7. /\ DOMAIN E = DOMAIN frames /\ E[p] = f /\ E[s] = h
        /\ \A q \in DOMAIN frames : q # p /\ q # s => E[q] = frames[q]
    BY <1>1, <1>2, <1>3, <2>3 DEF With
  <2>8. Replies(fr, f)
    BY <1>2 DEF Replies
  <2>9. ReplyUnlocks(p, s, f, h, m, w, e1, E)
    BY <1>1, <1>2, <2>1, <2>2, <2>4, <2>6, <2>7, <2>8 DEF ReplyUnlocks
  <2>10. PICK G, c1, d1, X, x : /\ G = frames' /\ c1 = cache' /\ d1 = dir' /\ X = {p, s} /\ x = "E"
    OBVIOUS
  <2>11. /\ c1[m][w].tag = t /\ c1[m][w].state = "E" /\ c1[m][w].transient = cache[m][w].transient
         /\ \A l \in Modules : \A v \in Ways(l) : l # m \/ v # w => c1[l][v] = cache[l][v]
    <3>1. c1 = BlockTo(cache, m, w, t, x) /\ Storage(cache, dir) /\ x = "E"
      BY <2>1, <2>2, <2>10 DEF setBlock, BlockTo
    <3> QED BY ONLY <2>5, <3>1, BlockSet
  <2>12. \E W : /\ Granting(W, cache, dir, G, c1, d1, p, s, X, m, w, n, t)
                /\ W[p] = frames[p] /\ G[s] = h /\ d1[m][w].owner = e1.owner
                /\ d1[m][w].sharers = e1.sharers
    <3>1. /\ frames[p].pc = "updown_finish" /\ h.error = frames[s].error
          /\ n = frames[p].mod /\ t = frames[p].tag
          /\ \A i : i \in e1.sharers <=> i \in dir[m][w].sharers \/ i = n
          /\ G = frames' /\ d1 = dir' /\ X = {p, s} /\ Inv /\ Copies(frames, cache, dir)
      BY <1>1, <1>2, <1>4, <2>6, <2>10
    <3>2. GrantUnlocks(p, s, f, h, m, w, e1, E, n, t, c1, G, d1, X)
      BY ONLY <2>9, <2>11, <3>1 DEF GrantUnlocks
    <3> QED BY ONLY <3>1, <3>2, GrantWoken
  <2>13. PICK W : /\ Granting(W, cache, dir, G, c1, d1, p, s, X, m, w, n, t)
                  /\ W[p] = frames[p] /\ d1[m][w].owner = e1.owner
    BY <2>12
  <2>14. W[p].kind = "write_request" /\ ~W[p].error /\ d1[m][w].owner = n
    BY <1>1, <1>4, <1>6, <2>6, <2>13
  <2>15. Copies(G, c1, d1)
    BY ONLY <2>11, <2>13, <2>14, WriteGrants
  <2> QED BY <2>10, <2>15
<1> QED BY <1>5, <1>6

\* read_request_updown_finish
LEMMA ReadRequestUpdownFinishCopies ==
    ASSUME Inv, Inv', Copies(frames, cache, dir), NEW p \in DOMAIN frames,
           ReadRequestUpdownFinish(p)
    PROVE  Copies(frames, cache, dir)'
<1>1. PICK fr, s, m, w, n, t : /\ fr = frames[p] /\ s = Front(p) /\ m = fr.target /\ w = fr.way
                               /\ n = fr.mod /\ t = fr.tag
  OBVIOUS
<1>2. PICK f, e : f = [fr EXCEPT !.pc = "reply"] /\ e = dir[m][w]
  OBVIOUS
<1>3. PICK S : S = e.sharers \cup {n}
  OBVIOUS
<1>4. PICK b : b = IsShared(fr, S)
  OBVIOUS
<1>5. PICK e1, h, E : /\ e1 = [e EXCEPT !.sharers = S, !.owner = NewOwner(@, n, b)]
                      /\ h = [frames[s] EXCEPT !.shared = b]
                      /\ E = [With(p, f) EXCEPT ![s].shared = b]
  OBVIOUS
<1>6. fr.kind = "read_request" /\ fr.pc = "updown_finish" /\ UnlockEntry(m, w, e1, E) /\ cache' = cache
  BY <1>1, <1>2, <1>3, <1>4, <1>5 DEF ReadRequestUpdownFinish, At
<1>7. Sys(frames, dir) /\ Storage(cache, dir) /\ Calls(frames) /\ IsRequest(fr)
  BY <1>6 DEF Inv, Copies, IsRequest
<1>8. /\ fr \in Frame /\ RequestOK(fr) /\ s \in DOMAIN frames /\ s # p /\ Where(fr) = m
      /\ n \in Modules /\ frames[s] \in Frame
  BY <1>1, <1>7, RequestCallerOf, FrameOf
<1>9. Holds(fr) /\ Childless(frames, p)
  BY <1>1, <1>6, <1>7, <1>8, NoChildren DEF Holds, RequestOK, Sys
<1>10. e \in Entry /\ m \in Modules /\ w \in Ways(m)
  BY <1>1, <1>2, <1>7, <1>8, <1>9, HeldEntry, FrameOf
<1>11. b \in BOOLEAN
  BY <1>4 DEF IsShared
<1>12. S \subseteq Modules /\ n \in S
  BY <1>3, <1>8, <1>10 DEF Entry
<1>13. /\ e1 \in Entry /\ e1.sharers = S
       /\ e1.owner = (IF e.owner = n \/ ~b THEN n ELSE NoModule)
  <2>1. PICK o : o = NewOwner(e.owner, n, b)
    OBVIOUS
  <2>2. o = (IF e.owner = n \/ ~b THEN n ELSE NoModule) /\ o \in Modules \cup {NoModule}
    BY <1>8, <2>1 DEF NewOwner
  <2>3. e1 = [e EXCEPT !.sharers = S, !.owner = o]
    BY <1>5, <2>1
  <2> QED BY <1>10, <1>12, <2>2, <2>3 DEF Entry
<1>14. h.shared = b /\ h.error = frames[s].error /\ Told(frames[s], h)
  BY <1>5, <1>8, <1>11 DEF Frame, Told
<1>15. /\ DOMAIN E = DOMAIN frames /\ E[p] = f /\ E[s] = h
       /\ \A q \in DOMAIN frames : q # p /\ q # s => E[q] = frames[q]
  <2>1. PICK A : A = With(p, f)
    OBVIOUS
  <2>2. /\ DOMAIN A = DOMAIN frames /\ A[p] = f /\ A[s] = frames[s]
        /\ \A q \in DOMAIN frames : q # p => A[q] = frames[q]
    BY <1>8, <2>1, WithFacts
  <2>3. E = [A EXCEPT ![s] = [A[s] EXCEPT !.shared = b]]
    BY <1>5, <2>1
  <2> QED BY <1>5, <1>8, <2>2, <2>3
<1>16. Replies(fr, f)
  BY <1>2 DEF Replies
<1>17. ReplyUnlocks(p, s, f, h, m, w, e1, E)
  BY <1>1, <1>2, <1>6, <1>7, <1>9, <1>13, <1>14, <1>15, <1>16 DEF ReplyUnlocks
<1>18. PICK G, c1, d1, X : G = frames' /\ c1 = cache /\ d1 = dir' /\ X = {p, s}
  OBVIOUS
<1>19. \E W : /\ Granting(W, cache, dir, G, c1, d1, p, s, X, m, w, n, t)
              /\ W[p] = frames[p] /\ G[s] = h /\ d1[m][w].owner = e1.owner
              /\ d1[m][w].sharers = e1.sharers
  <2>1. /\ frames[p].pc = "updown_finish" /\ h.error = frames[s].error
        /\ n = frames[p].mod /\ t = frames[p].tag
        /\ \A i : i \in e1.sharers <=> i \in dir[m][w].sharers \/ i = n
        /\ \A l \in Modules : \A v \in Ways(l) : l # m \/ v # w => c1[l][v] = cache[l][v]
        /\ G = frames' /\ d1 = dir' /\ X = {p, s} /\ Inv /\ Copies(frames, cache, dir)
    BY <1>1, <1>2, <1>3, <1>6, <1>13, <1>14, <1>18
  <2>2. GrantUnlocks(p, s, f, h, m, w, e1, E, n, t, c1, G, d1, X)
    BY ONLY <1>17, <2>1 DEF GrantUnlocks
  <2> QED BY ONLY <2>1, <2>2, GrantWoken
<1>20. PICK W : /\ Granting(W, cache, dir, G, c1, d1, p, s, X, m, w, n, t)
                /\ W[p] = frames[p] /\ G[s] = h /\ d1[m][w].owner = e1.owner
                /\ d1[m][w].sharers = e1.sharers
  BY <1>19
<1>21. ~b => S = {n}
  <2>1. ~b => ~(Cardinality(S) > 1)
    BY <1>4 DEF IsShared
  <2> QED BY <1>12, <2>1, SoleSharer
<1>22. /\ W[p].kind = "read_request"
       /\ d1[m][w].owner = (IF dir[m][w].owner = n \/ ~G[s].shared THEN n ELSE NoModule)
       /\ ~G[s].shared => d1[m][w].sharers = {n}
       /\ Granting(W, cache, dir, G, cache, d1, p, s, X, m, w, n, t)
  BY <1>1, <1>2, <1>6, <1>13, <1>14, <1>18, <1>20, <1>21
<1>23. Copies(G, cache, d1)
  BY ONLY <1>22, ReadGrants
<1> QED BY <1>6, <1>18, <1>23
-----------------------------------------------------------------------------
(* Requests call other chains. *)

\* What is known of a request that has looked its block up.
LEMMA RequestWorks ==
    ASSUME NEW F, NEW c, NEW d, Sys(F, d), Copies(F, c, d), Storage(c, d), NEW p \in DOMAIN F,
           IsRequest(F[p]), F[p].pc \notin {"call", "reply"},
           F[p].pc = "action" => ~F[p].error /\ ~F[p].notFound,
           NEW m, m = F[p].target, NEW w, w = F[p].way
    PROVE  /\ Calls(F) /\ Leaning(F, c, d) /\ Childless(F, p) /\ Holds(F[p]) /\ Where(F[p]) = m
           /\ m \in Modules /\ w \in Ways(m) /\ w # 0 /\ F[p] \in Frame /\ RequestOK(F[p])
           /\ RequestFlow(F[p]) /\ FlowOK(F[p]) /\ HeldOK(F[p], c[m][w]) /\ ~IsAccess(F[p])
           /\ F[p].tag = F[p].addr /\ F[p].tag \in Tag /\ ~F[p].notFound
           /\ \A i : ~Asked(F, m, w, i)
           /\ d[m][w].owner # NoModule => d[m][w].owner \in Modules /\ Low[d[m][w].owner] = m
           /\ \A i \in Modules \ {MainMemory} :
                 Low[i] = m /\ Needs(F, c, i, F[p].tag, Exclusive) => d[m][w].owner = i
<1>1. Calls(F) /\ Leaning(F, c, d) /\ Above(d) /\ Exclusive \in Rights
  BY DEF Copies, Rights
<1>2. PICK f : f = F[p]
  OBVIOUS
<1>3. /\ f \in Frame /\ RequestOK(f) /\ Where(f) = m /\ RequestFlow(f) /\ ~IsAccess(f)
  BY <1>1, <1>2, RequestCallerOf
<1>4. Holds(f) /\ w # 0 /\ f.tag = f.addr /\ ~f.notFound
  BY <1>2, <1>3 DEF RequestOK, Holds, RequestFlow
<1>5. m \in Modules /\ w \in Ways(m) /\ f.tag \in Tag
  BY <1>2, <1>3, <1>4, FrameOf
<1>6. HeldOK(f, c[m][w])
  BY <1>1, <1>2, <1>3, <1>4 DEF Leaning, LeanOK, IsRequest
<1>7. Childless(F, p)
  BY <1>2, NoChildren DEF Sys, IsRequest
<1>8. \A i : ~Asked(F, m, w, i)
  <2>1. \A i : ~Asked(F, Where(F[p]), F[p].way, i)
    BY <1>1, <1>2, <1>4, <1>7, HeldNotAsked
  <2> QED BY <1>2, <1>3, <2>1
<1>9. ASSUME NEW i \in Modules \ {MainMemory}, Low[i] = m, Needs(F, c, i, f.tag, Exclusive)
      PROVE  d[m][w].owner = i
  <2>1. Low[i] = Where(F[p]) /\ Needs(F, c, i, F[p].tag, Exclusive)
    BY <1>2, <1>3, <1>9
  <2>2. Serves(F, c[Low[i]][F[p].way], d[Low[i]][F[p].way], Low[i], F[p].way, i, F[p].tag, Exclusive)
    BY <1>1, <1>2, <1>4, <2>1, ServedByHeld
  <2> QED BY <1>2, <1>3, <1>8, <2>1, <2>2 DEF Serves
<1>10. d[m][w].owner # NoModule => d[m][w].owner \in Modules /\ Low[d[m][w].owner] = m
  BY <1>1, <1>5, StorageFacts DEF Above
<1>11. FlowOK(f)
  BY <1>1, <1>2 DEF Calls
<1> QED BY <1>1, <1>2, <1>3, <1>4, <1>5, <1>6, <1>7, <1>8, <1>9, <1>10, <1>11

\* Request p, which holds its lock, goes on.
RequestStays(F, c, d, G, p) ==
    /\ Sys(F, d) /\ Copies(F, c, d) /\ p \in DOMAIN F /\ Childless(F, p)
    /\ IsRequest(F[p]) /\ Holds(F[p]) /\ ~Revokes(F[p])
    /\ DOMAIN G = DOMAIN F /\ (\A q \in DOMAIN F : q # p => G[q] = F[q])
    /\ G[p] \in Frame /\ Alike(F[p], G[p]) /\ G[p].error = F[p].error
    /\ G[p].pc \notin {"reply", "miss", "updown_miss"}
    /\ HeldOK(G[p], c[F[p].target][F[p].way])
    /\ (Cleared(G, p) => d[F[p].target][F[p].way].sharers \subseteq {F[p].mod})
    /\ Backed(F, c, G, p) /\ ReadQuiet(G[p], F, c)

\* A request that holds its lock and goes on keeps the invariant.
LEMMA RequestKeeps ==
    ASSUME NEW F, NEW c, NEW d, NEW G, NEW p, RequestStays(F, c, d, G, p)
    PROVE  Copies(G, c, d)
<1>0. /\ Sys(F, d) /\ Copies(F, c, d) /\ p \in DOMAIN F /\ Childless(F, p)
      /\ IsRequest(F[p]) /\ Holds(F[p]) /\ ~Revokes(F[p])
      /\ DOMAIN G = DOMAIN F /\ (\A q \in DOMAIN F : q # p => G[q] = F[q])
      /\ G[p] \in Frame /\ Alike(F[p], G[p]) /\ G[p].error = F[p].error
      /\ G[p].pc \notin {"reply", "miss", "updown_miss"}
      /\ HeldOK(G[p], c[F[p].target][F[p].way])
      /\ (Cleared(G, p) => d[F[p].target][F[p].way].sharers \subseteq {F[p].mod})
      /\ Backed(F, c, G, p) /\ ReadQuiet(G[p], F, c)
  BY DEF RequestStays
<1> USE <1>0
<1>1. Calls(F) /\ Alone(F, d)
  BY DEF Copies
<1>2. PICK f, g, X : /\ f = F[p] /\ g = G[p]
                     /\ X = {p}
  OBVIOUS
<1>3. Alike(f, g) /\ g.error = f.error /\ IsRequest(f) /\ ~Revokes(f) /\ f \in Frame /\ g \in Frame
  BY <1>2, FrameOf
<1>4. /\ IsRequest(g) /\ Where(g) = f.target /\ ~IsAccess(f)
      /\ (IsUpDown(g) <=> IsUpDown(f)) /\ ~Revokes(g)
  BY <1>3, AlikeFacts DEF Where, IsRequest, IsAccess
<1>5. FlowOK(g)
  <2>1. FlowOK(f)
    BY <1>1, <1>2 DEF Calls
  <2> QED BY <1>2, <1>3, <1>4, <2>1 DEF FlowOK, RequestFlow, Alike, IsRequest
<1>6. LeanOK(g, c, d)
  BY <1>2, <1>3, <1>4 DEF LeanOK, IsRequest, Alike
<1>7. LinkOK(g, F[Front(p)])
  <2>1. SameLink(f, g)
    BY ONLY <1>3 DEF SameLink, Alike, IsRequest
  <2>2. LinkOK(f, F[Front(p)])
    BY <1>1, <1>2, <1>4, LinkOf
  <2> QED BY <2>1, <2>2, SameLinkOK
<1>8. Rest(F, G, X) /\ Linked(G, X) /\ Childless(G, p)
  BY <1>2, <1>7, LinkedOne
<1>9. Cleared(G, p) => d[G[p].target][G[p].way].sharers \subseteq {G[p].mod}
  BY <1>2, <1>3 DEF Alike
<1>10. Shows(F, G, X, p)
  BY <1>2, <1>4 DEF Shows
<1>11. Fits(F, c, G, c, d, X, p)
  BY <1>2, <1>3, <1>5, <1>6, <1>9, <1>10 DEF Fits
<1>12. Leaves(F, G, p)
  BY <1>2, <1>3 DEF Leaves, IsLost, Revoking, IsRequest
<1>13. /\ \A x \in X \cap DOMAIN G : Fits(F, c, G, c, d, X, x)
       /\ \A x \in X \cap DOMAIN F : Leaves(F, G, x)
  BY <1>2, <1>11, <1>12
<1>14. Copies(G, c, d)
  BY ONLY <1>0, <1>8, <1>13, FramesStep
<1>15. QED
  BY <1>14
\* A request with the block in its way goes on.
LEMMA RequestHasBlock ==
    ASSUME Inv, Copies(frames, cache, dir), UNCHANGED <<cache, dir>>,
           NEW p \in DOMAIN frames, NEW fr, fr = frames[p], IsRequest(fr),
           fr.pc \notin {"call", "reply"}, fr.pc = "action" => ~fr.error /\ ~fr.notFound,
           ~Revokes(fr), NEW e \in {"updown_finish", "downup_finish"},
           frames' = With(p, [fr EXCEPT !.pc = e]),
           \/ /\ fr.kind = "write_request" /\ fr.pc = "exclusive"
              /\ fr.state \in Exclusive
           \/ /\ fr.kind = "read_request" /\ fr.pc = "action" /\ fr.state # "I"
              /\ NoneBut(frames, cache, fr.target, fr.tag,
                         IF e = "updown_finish" THEN {fr.mod} ELSE {})
    PROVE  Copies(frames, cache, dir)'
<1>1. PICK m, w, b : m = fr.target /\ w = fr.way /\ b = cache[m][w]
  OBVIOUS
<1>2. Sys(frames, dir) /\ Storage(cache, dir)
  BY DEF Inv
<1>3. /\ Calls(frames) /\ Leaning(frames, cache, dir) /\ Childless(frames, p) /\ Holds(frames[p])
      /\ Where(frames[p]) = m /\ frames[p] \in Frame /\ HeldOK(frames[p], b)
  BY <1>1, <1>2, RequestWorks
<1>4. fr \in Frame /\ HeldOK(fr, b) /\ Where(fr) = m
  BY <1>3
<1>5. PICK f : f = [fr EXCEPT !.pc = e]
  OBVIOUS
<1>6. f \in Frame /\ f.pc = e /\ Alike(fr, f) /\ f.error = fr.error
  <2>1. e \in Events
    BY DEF Events
  <2> QED BY <1>4, <1>5, <2>1, NextAlike
<1>7. PICK G : G = frames'
  OBVIOUS
<1>8. DOMAIN G = DOMAIN frames /\ G[p] = f /\ \A q \in DOMAIN frames : q # p => G[q] = frames[q]
  BY <1>5, <1>7, WithFacts
<1>9. b.state # "I" /\ b.tag = fr.tag
  BY <1>4 DEF HeldOK, Exclusive
<1>10. HeldOK(f, b)
  BY <1>4, <1>6, <1>9 DEF HeldOK, Alike
<1>11. Cleared(G, p) => dir[m][w].sharers \subseteq {fr.mod}
  <2>1. ASSUME Cleared(G, p) PROVE Cleared(frames, p)
    <3>1. fr.kind = "write_request"
      BY <1>6, <1>8, <2>1 DEF Cleared, Alike
    <3> QED BY <3>1 DEF Cleared
  <2> QED BY <1>1, <2>1 DEF Copies, Alone
<1>12. Backed(frames, cache, G, p)
  <2>1. ASSUME NEW K \in Rights, Granted(G, p, K)
        PROVE  Needs(frames, cache, Where(f), f.tag, K)
    <3>1. fr.kind = "write_request"
      BY <1>6, <1>8, <2>1 DEF Granted, Answered, Ready, IsRequest, Alike
    <3>2. b.state \in Exclusive
      BY <1>4, <3>1 DEF HeldOK
    <3>3. b.state \in K
      BY <3>2, RightsFacts
    <3>4. Needs(frames, cache, Where(frames[p]), frames[p].tag, K)
      <4>1. cache[Where(frames[p])][frames[p].way] = b /\ frames[p].kind # "find_and_lock"
        BY <1>1, <1>3, <3>1
      <4> QED BY <1>2, <1>3, <1>9, <3>3, <4>1, HolderHas
    <3> QED BY <1>3, <1>4, <1>6, <3>4, AlikeFacts DEF Alike
  <2> QED BY <1>8, <2>1 DEF Backed
<1>13. ReadQuiet(f, frames, cache)
  <2>1. ASSUME f.kind = "read_request" PROVE fr.kind = "read_request" /\ fr.pc = "action"
    BY <1>6, <2>1 DEF Alike
  <2>2. ReadQuiet(fr, frames, cache)
    BY DEF Copies, Quiet
  <2> QED BY <1>6, <2>1, <2>2 DEF ReadQuiet, Alike
<1>14. f.pc \notin {"reply", "miss", "updown_miss"}
  BY <1>6
<1>15. RequestStays(frames, cache, dir, G, p)
  BY ONLY Copies(frames, cache, dir), p \in DOMAIN frames, fr = frames[p], IsRequest(fr),
          ~Revokes(fr), <1>1, <1>2, <1>3, <1>6, <1>8, <1>10, <1>11, <1>12, <1>13, <1>14
     DEF RequestStays
<1>16. Copies(G, cache, dir)
  BY ONLY <1>15, RequestKeeps
<1> QED BY <1>7, <1>16

\* A request calls another one, of the module below or of the owner above.
LEMMA RequestAsksOn ==
    ASSUME Inv, Inv', Copies(frames, cache, dir), UNCHANGED <<cache, dir>>,
           NEW p \in DOMAIN frames, NEW fr, fr = frames[p], IsRequest(fr),
           fr.pc \in {"action", "exclusive"}, fr.pc = "action" => ~fr.error /\ ~fr.notFound,
           fr.kind = "write_request" => fr.pc = "exclusive",
           NEW kind \in {"read_request", "write_request"}, NEW ret \in Events,
           NEW direction \in {"updown", "downup"}, NEW m, m = fr.target, NEW t, t = fr.tag,
           NEW owner, owner = dir[m][fr.way].owner, NEW target,
           frames' = CallRequest(p, fr, "request",
                                 [NewFrame(kind, ret, m, t) EXCEPT !.dir = direction], target),
           \/ direction = "updown" /\ target = Low[m] /\ m # MainMemory
           \/ direction = "downup" /\ kind = "read_request" /\ target = owner /\ owner # NoModule,
           kind = "read_request" => (direction = "updown" <=> fr.state = "I")
    PROVE  Copies(frames, cache, dir)'
<1>1. Sys(frames, dir) /\ Storage(cache, dir)
  BY DEF Inv
<1>2. PICK w : w = fr.way
  OBVIOUS
<1>3. /\ Childless(frames, p) /\ Holds(frames[p]) /\ Where(frames[p]) = m /\ m \in Modules
      /\ dir[m][w].owner # NoModule => dir[m][w].owner \in Modules /\ Low[dir[m][w].owner] = m
      /\ \A i \in Modules \ {MainMemory} :
            Low[i] = m /\ Needs(frames, cache, i, frames[p].tag, Exclusive) => dir[m][w].owner = i
  <2>1. frames[p].pc \notin {"call", "reply"}
    OBVIOUS
  <2> QED BY <1>1, <1>2, <2>1, RequestWorks
<1>4. Holds(fr) /\ m = Where(fr)
  BY <1>3
<1>5. target \in Modules
  BY <1>2, <1>3, HierarchyAssumption
<1>6. \/ direction = "updown" /\ target = Low[m]
      \/ /\ direction = "downup" /\ kind = "read_request" /\ m = Low[target]
         /\ NoneBut(frames, cache, m, t, {target})
  <2>1. CASE direction = "downup" /\ kind = "read_request" /\ target = owner /\ owner # NoModule
    BY <1>2, <1>3, <2>1 DEF NoneBut
  <2> QED BY <2>1
<1>7. PICK request : request = [NewFrame(kind, ret, m, t) EXCEPT !.dir = direction]
  OBVIOUS
<1>8. frames' = CallRequest(p, fr, "request", request, target)
  BY <1>7
<1>9. fr.pc # "updown_finish" /\ (IsAccess(fr) \/ IsRequest(fr)) /\ UNCHANGED <<cache, dir>>
  OBVIOUS
<1>10. /\ p \in DOMAIN frames /\ Childless(frames, p) /\ fr = frames[p] /\ t = fr.tag
       /\ (fr.kind = "write_request" => fr.pc = "exclusive")
       /\ kind \in {"read_request", "write_request"} /\ ret \in Events
       /\ direction \in {"updown", "downup"}
       /\ (kind = "read_request" => (direction = "updown" <=> fr.state = "I"))
  BY <1>3
<1> QED
  BY ONLY Inv, Inv', Copies(frames, cache, dir), <1>4, <1>5, <1>6, <1>7, <1>8, <1>9, <1>10,
          CallRequestCopies
\* write_request_updown
LEMMA WriteRequestUpdownCopies ==
    ASSUME Inv, Inv', Copies(frames, cache, dir), NEW p \in DOMAIN frames, WriteRequestUpdown(p)
    PROVE  Copies(frames, cache, dir)'
<1>1. PICK fr : fr = frames[p]
  OBVIOUS
<1>2. /\ fr.kind = "write_request" /\ fr.pc = "exclusive" /\ fr.dir = "updown"
      /\ UNCHANGED <<cache, dir>> /\ IsRequest(fr) /\ ~Revokes(fr)
  BY <1>1 DEF WriteRequestUpdown, At, IsRequest, Revokes
<1>3. CASE fr.state \in {"M", "E"}
  <2>1. PICK e : e = "updown_finish"
    OBVIOUS
  <2>2. frames' = With(p, [fr EXCEPT !.pc = e]) /\ e \in {"updown_finish", "downup_finish"}
    BY <1>1, <1>3, <2>1 DEF WriteRequestUpdown, Goto
  <2>3. fr.pc \notin {"call", "reply"} /\ fr.pc # "action" /\ fr.state \in Exclusive
    BY <1>2, <1>3 DEF Exclusive
  <2> QED BY <1>1, <1>2, <2>2, <2>3, RequestHasBlock
<1>4. CASE fr.state \notin {"M", "E"}
  <2>1. PICK m, t, ret, direction, kind, target :
           /\ m = fr.target /\ t = fr.tag /\ ret = "updown_finish" /\ direction = "updown"
           /\ kind = "write_request" /\ target = Low[m]
    OBVIOUS
  <2>2. frames' = CallRequest(p, fr, "request",
                              [NewFrame(kind, ret, m, t) EXCEPT !.dir = direction], target)
    BY <1>1, <1>4, <2>1 DEF WriteRequestUpdown, UpDown
  <2>3. /\ kind \in {"read_request", "write_request"} /\ ret \in Events
        /\ direction \in {"updown", "downup"}
    BY <2>1 DEF Events
  <2>4. m # MainMemory
    <3>1. RequestOK(fr) /\ fr \in Frame
      BY <1>1, <1>2, FrameFacts DEF FrameOK, IsRequest, Inv
    <3> QED BY <1>2, <1>4, <2>1, <3>1 DEF RequestOK, MainState, Where
  <2>5. fr.pc \in {"action", "exclusive"} /\ fr.pc # "action" /\ kind # "read_request"
    BY <1>2, <2>1
  <2> QED BY <1>1, <1>2, <2>1, <2>2, <2>3, <2>4, <2>5, RequestAsksOn
<1> QED BY <1>3, <1>4

\* What a read request knows of the caches above its module.
LEMMA ReadRequestOwner ==
    ASSUME Inv, Copies(frames, cache, dir), NEW p \in DOMAIN frames, NEW fr, fr = frames[p],
           fr.kind = "read_request", fr.pc = "action", ~fr.error, ~fr.notFound
    PROVE  /\ IsRequest(fr) /\ ~Revokes(fr) /\ fr.pc \notin {"call", "reply"}
           /\ fr.state = "I" => fr.target # MainMemory
           /\ fr.dir = "downup" => fr.state # "I"
           /\ LET owner == dir[fr.target][fr.way].owner
              IN  NoneBut(frames, cache, fr.target, fr.tag, IF owner = NoModule THEN {} ELSE {owner})
<1>1. IsRequest(fr) /\ ~Revokes(fr) /\ fr.pc \notin {"call", "reply"}
  BY DEF IsRequest, Revokes
<1>2. Sys(frames, dir) /\ Storage(cache, dir)
  BY DEF Inv
<1>3. PICK m, w : m = fr.target /\ w = fr.way
  OBVIOUS
<1>4. /\ RequestOK(frames[p]) /\ RequestFlow(frames[p]) /\ w # 0
      /\ \A i \in Modules \ {MainMemory} :
            Low[i] = m /\ Needs(frames, cache, i, frames[p].tag, Exclusive) => dir[m][w].owner = i
  BY <1>1, <1>2, <1>3, RequestWorks
<1>5. NoModule \notin Modules
  BY HierarchyAssumption
<1>6. fr.state = "I" => m # MainMemory
  <2>1. RequestOK(fr) /\ fr \in Frame
    BY <1>2, <1>4, FrameOf
  <2> QED BY <1>3, <1>4, <2>1 DEF RequestOK, MainState, Where, IsRequest
<1>7. fr.dir = "downup" => fr.state # "I"
  BY <1>3, <1>4 DEF RequestFlow
<1>8. NoneBut(frames, cache, m, fr.tag,
              IF dir[m][w].owner = NoModule THEN {} ELSE {dir[m][w].owner})
  BY <1>4, <1>5 DEF NoneBut
<1> QED BY <1>1, <1>3, <1>6, <1>7, <1>8

\* read_request_updown
LEMMA ReadRequestUpdownCopies ==
    ASSUME Inv, Inv', Copies(frames, cache, dir), NEW p \in DOMAIN frames, ReadRequestUpdown(p)
    PROVE  Copies(frames, cache, dir)'
<1>1. PICK fr, m, t, w : fr = frames[p] /\ m = fr.target /\ t = fr.tag /\ w = fr.way
  OBVIOUS
<1>2. PICK owner : owner = dir[m][w].owner
  OBVIOUS
<1>3. /\ fr.kind = "read_request" /\ fr.pc = "action" /\ fr.dir = "updown"
      /\ ~fr.error /\ ~fr.notFound /\ UNCHANGED <<cache, dir>>
  BY <1>1 DEF ReadRequestUpdown, At
<1>4. /\ IsRequest(fr) /\ ~Revokes(fr) /\ fr.pc \notin {"call", "reply"}
      /\ fr.state = "I" => m # MainMemory
      /\ NoneBut(frames, cache, m, t, IF owner = NoModule THEN {} ELSE {owner})
  BY <1>1, <1>2, <1>3, ReadRequestOwner
<1>5. fr.pc \in {"action", "exclusive"} /\ (fr.kind = "write_request" => fr.pc = "exclusive")
  BY <1>3
<1>6. CASE fr.state = "I"
  <2>1. PICK ret, direction, kind, target :
           /\ ret = "updown_miss" /\ direction = "updown"
           /\ kind = "read_request" /\ target = Low[m]
    OBVIOUS
  <2>2. frames' = CallRequest(p, fr, "request",
                              [NewFrame(kind, ret, m, t) EXCEPT !.dir = direction], target)
    BY <1>1, <1>6, <2>1 DEF ReadRequestUpdown, UpDown
  <2>3. /\ kind \in {"read_request", "write_request"} /\ ret \in Events
        /\ direction \in {"updown", "downup"}
        /\ (kind = "read_request" => (direction = "updown" <=> fr.state = "I"))
    BY <1>6, <2>1 DEF Events
  <2> QED BY <1>1, <1>2, <1>3, <1>4, <1>5, <1>6, <2>1, <2>2, <2>3, RequestAsksOn
<1>7. CASE fr.state # "I" /\ owner \notin {NoModule, fr.mod}
  <2>1. PICK ret, direction, kind :
           /\ ret = "updown_finish" /\ direction = "downup" /\ kind = "read_request"
    OBVIOUS
  <2>2. frames' = CallRequest(p, fr, "request",
                              [NewFrame(kind, ret, m, t) EXCEPT !.dir = direction], owner)
    BY <1>1, <1>2, <1>7, <2>1 DEF ReadRequestUpdown, DownUp
  <2>3. /\ kind \in {"read_request", "write_request"} /\ ret \in Events
        /\ direction \in {"updown", "downup"}
        /\ (kind = "read_request" => (direction = "updown" <=> fr.state = "I"))
    BY <1>7, <2>1 DEF Events
  <2> QED BY <1>1, <1>2, <1>3, <1>4, <1>5, <1>7, <2>1, <2>2, <2>3, RequestAsksOn
<1>8. CASE fr.state # "I" /\ owner \in {NoModule, fr.mod}
  <2>1. PICK e : e = "updown_finish"
    OBVIOUS
  <2>2. frames' = With(p, [fr EXCEPT !.pc = e]) /\ e \in {"updown_finish", "downup_finish"}
    BY <1>1, <1>2, <1>8, <2>1 DEF ReadRequestUpdown
  <2>3. NoneBut(frames, cache, m, t, {fr.mod})
    BY <1>4, <1>8 DEF NoneBut
  <2>4. NoneBut(frames, cache, m, t, IF e = "updown_finish" THEN {fr.mod} ELSE {})
    BY <2>1, <2>3
  <2> QED BY <1>1, <1>3, <1>4, <1>8, <2>2, <2>4, RequestHasBlock
<1> QED BY <1>6, <1>7, <1>8

\* read_request_downup
LEMMA ReadRequestDownupCopies ==
    ASSUME Inv, Inv', Copies(frames, cache, dir), NEW p \in DOMAIN frames, ReadRequestDownup(p)
    PROVE  Copies(frames, cache, dir)'
<1>1. PICK fr, m, t, w : fr = frames[p] /\ m = fr.target /\ t = fr.tag /\ w = fr.way
  OBVIOUS
<1>2. PICK owner : owner = dir[m][w].owner
  OBVIOUS
<1>3. /\ fr.kind = "read_request" /\ fr.pc = "action" /\ fr.dir = "downup"
      /\ ~fr.error /\ ~fr.notFound /\ UNCHANGED <<cache, dir>>
  BY <1>1 DEF ReadRequestDownup, At
<1>4. /\ IsRequest(fr) /\ ~Revokes(fr) /\ fr.pc \notin {"call", "reply"} /\ fr.state # "I"
      /\ NoneBut(frames, cache, m, t, IF owner = NoModule THEN {} ELSE {owner})
  BY <1>1, <1>2, <1>3, ReadRequestOwner
<1>5. fr.pc \in {"action", "exclusive"} /\ (fr.kind = "write_request" => fr.pc = "exclusive")
  BY <1>3
<1>6. CASE owner # NoModule
  <2>1. PICK ret, direction, kind :
           /\ ret = "downup_finish" /\ direction = "downup" /\ kind = "read_request"
    OBVIOUS
  <2>2. frames' = CallRequest(p, fr, "request",
                              [NewFrame(kind, ret, m, t) EXCEPT !.dir = direction], owner)
    BY <1>1, <1>2, <1>6, <2>1 DEF ReadRequestDownup, DownUp
  <2>3. /\ kind \in {"read_request", "write_request"} /\ ret \in Events
        /\ direction \in {"updown", "downup"}
        /\ (kind = "read_request" => (direction = "updown" <=> fr.state = "I"))
    BY <1>4, <2>1 DEF Events
  <2> QED BY <1>1, <1>2, <1>3, <1>4, <1>5, <1>6, <2>1, <2>2, <2>3, RequestAsksOn
<1>7. CASE owner = NoModule
  <2>1. PICK e : e = "downup_finish"
    OBVIOUS
  <2>2. frames' = With(p, [fr EXCEPT !.pc = e]) /\ e \in {"updown_finish", "downup_finish"}
    BY <1>1, <1>2, <1>7, <2>1 DEF ReadRequestDownup
  <2>3. NoneBut(frames, cache, m, t, IF e = "updown_finish" THEN {fr.mod} ELSE {})
    BY <1>4, <1>7, <2>1
  <2> QED BY <1>1, <1>3, <1>4, <2>2, <2>3, RequestHasBlock
<1> QED BY <1>6, <1>7
-----------------------------------------------------------------------------
(* The calls of invalidate. *)

\* Frame p, of a write request or an eviction, calls the invalidation q.
InvalidateCalled(F, c, d, G, p, q) ==
    /\ Sys(F, d) /\ Copies(F, c, d) /\ p \in DOMAIN F /\ Childless(F, p) /\ Calling(F, G, p, q)
    /\ F[p].kind \in {"evict", "write_request"} /\ F[p].pc # "reply"
    /\ G[p] \in Frame /\ G[p].kind = F[p].kind /\ G[p].pc = "call"
    /\ FlowOK(G[p]) /\ LeanOK(G[p], c, d) /\ LinkOK(G[p], F[Front(p)])
    /\ (Revoking(F[p]) => Revoking(G[p]) /\ G[p].target = F[p].target)
    /\ (IsUpDown(G[p]) => IsUpDown(F[p]))
    /\ G[q] \in Frame /\ G[q].kind = "invalidate" /\ G[q].pc = "invalidate"
    /\ InvalidateLink(G[q], G[p])

\* The call of an invalidation keeps the invariant.
LEMMA CallsInvalidation ==
    ASSUME NEW F, NEW c, NEW d, NEW G, NEW p, NEW q, InvalidateCalled(F, c, d, G, p, q)
    PROVE  Copies(G, c, d)
<1>0. /\ Sys(F, d) /\ Copies(F, c, d) /\ p \in DOMAIN F /\ Childless(F, p) /\ Calling(F, G, p, q)
      /\ F[p].kind \in {"evict", "write_request"} /\ F[p].pc # "reply"
      /\ G[p] \in Frame /\ G[p].kind = F[p].kind /\ G[p].pc = "call"
      /\ FlowOK(G[p]) /\ LeanOK(G[p], c, d) /\ LinkOK(G[p], F[Front(p)])
      /\ (Revoking(F[p]) => Revoking(G[p]) /\ G[p].target = F[p].target)
      /\ (IsUpDown(G[p]) => IsUpDown(F[p]))
      /\ G[q] \in Frame /\ G[q].kind = "invalidate" /\ G[q].pc = "invalidate"
      /\ InvalidateLink(G[q], G[p])
  BY DEF InvalidateCalled
<1>1. PICK X, g, h : X = {p, q} /\ g = G[p] /\ h = G[q]
  OBVIOUS
<1>2. LinkOK(G[q], G[p])
  BY ONLY <1>0 DEF LinkOK, IsRequest
<1>3. /\ Rest(F, G, X) /\ Linked(G, X) /\ Childless(G, q)
      /\ \A r \in DOMAIN G : Child(r, p) => r = q
      /\ p \in DOMAIN G /\ q \in DOMAIN G /\ q \notin DOMAIN F
  BY <1>0, <1>1, <1>2, LinkedCall
<1>4. ~IsUpDown(h) /\ \A r \in DOMAIN G : Child(r, p) => ~IsUpDown(G[r])
  BY <1>0, <1>1, <1>3 DEF IsUpDown, IsRequest
<1>5. Fits(F, c, G, c, d, X, p)
  <2>1. ~Cleared(G, p)
    BY <1>0, <1>4 DEF Cleared
  <2>2. Shows(F, G, X, p)
    BY <1>0 DEF Shows
  <2>3. Backed(F, c, G, p)
    BY <1>0, <1>4, NotAnswered DEF Ready
  <2>4. ReadQuiet(G[p], F, c)
    BY <1>0 DEF ReadQuiet
  <2> QED BY <1>0, <2>1, <2>2, <2>3, <2>4 DEF Fits
<1>6. Fits(F, c, G, c, d, X, q)
  <2>1. ~Holds(h) /\ h.kind = "invalidate" /\ h.pc = "invalidate" /\ h \in Frame
    BY <1>0, <1>1 DEF Holds, IsAccess, IsRequest
  <2>2. FlowOK(h) /\ LeanOK(h, c, d)
    BY <2>1 DEF FlowOK, IsRequest, LeanOK
  <2>3. ~Cleared(G, q) /\ Backed(F, c, G, q) /\ ReadQuiet(h, F, c)
    BY <1>1, <2>1 DEF Cleared, Backed, Granted, ReadQuiet
  <2> QED BY <1>1, <1>4, <2>1, <2>2, <2>3 DEF Fits, Shows
<1>7. Leaves(F, G, p)
  BY <1>0, <1>3 DEF Leaves, IsLost
<1>8. /\ \A x \in X \cap DOMAIN G : Fits(F, c, G, c, d, X, x)
      /\ \A x \in X \cap DOMAIN F : Leaves(F, G, x)
  BY <1>1, <1>3, <1>5, <1>6, <1>7
<1>9. Sys(F, d) /\ Copies(F, c, d)
  BY <1>0
<1> QED BY ONLY <1>3, <1>8, <1>9, FramesStep

\* The frame of the invalidation.
InvalidationFrame(ret, m, t, w, x) ==
    [NewFrame("invalidate", ret, m, t) EXCEPT !.pc = "invalidate", !.way = w, !.except = x]

\* The fields of the frame of an invalidation.
LEMMA InvalidateFrame ==
    ASSUME NEW ret \in Events, NEW m \in Modules, NEW t \in Tag, NEW w \in Nat,
           NEW x \in Modules \cup {NoModule},
           NEW g, g = InvalidationFrame(ret, m, t, w, x)
    PROVE  /\ g \in Frame /\ g.kind = "invalidate" /\ g.pc = "invalidate" /\ g.mod = m
           /\ g.way = w /\ g.except = x /\ g.ret = ret
<1>1. PICK n : n = NewFrame("invalidate", ret, m, t)
  OBVIOUS
<1>2. n \in Frame /\ n.kind = "invalidate" /\ n.mod = m /\ n.ret = ret
  BY <1>1, HierarchyAssumption DEF NewFrame, Frame, Events, Tag, BlockStates, Kinds
<1>3. g = [n EXCEPT !.pc = "invalidate", !.way = w, !.except = x]
  BY <1>1 DEF InvalidationFrame
<1> QED BY ONLY <1>2, <1>3, w \in Nat, x \in Modules \cup {NoModule} DEF Frame, Events

\* write_request_action
LEMMA WriteRequestActionCopies ==
    ASSUME Inv, Inv', Copies(frames, cache, dir), NEW p \in DOMAIN frames, WriteRequestAction(p)
    PROVE  Copies(frames, cache, dir)'
<1>1. PICK fr : fr = frames[p]
  OBVIOUS
<1>2. PICK e : e = "call"
  OBVIOUS
<1>3. PICK f : f = [fr EXCEPT !.pc = e]
  OBVIOUS
<1>4. PICK ret : ret = "exclusive"
  OBVIOUS
<1>5. PICK g : g = [NewFrame("invalidate", ret, fr.target, fr.addr) EXCEPT
                       !.pc = "invalidate", !.way = fr.way, !.except = fr.mod]
  OBVIOUS
<1>6. PICK x, q, G : x = "invalidate" /\ q = Append(p, x) /\ G = frames'
  OBVIOUS
<1>7. /\ fr.kind = "write_request" /\ fr.pc = "action" /\ ~fr.error /\ ~fr.notFound
      /\ UNCHANGED <<cache, dir>> /\ G = Call(With(p, f), q, g)
  BY <1>1, <1>2, <1>3, <1>4, <1>5, <1>6 DEF WriteRequestAction, At
<1>8. Sys(frames, dir) /\ Storage(cache, dir) /\ IsRequest(fr) /\ Tree(frames)
  BY <1>7 DEF Inv, IsRequest, Sys
<1>9. PICK m, w : m = fr.target /\ w = fr.way
  OBVIOUS
<1>10. /\ Childless(frames, p) /\ Holds(frames[p]) /\ Where(frames[p]) = m
       /\ m \in Modules /\ w \in Ways(m) /\ w # 0 /\ frames[p] \in Frame /\ FlowOK(frames[p])
       /\ HeldOK(frames[p], cache[m][w]) /\ ~IsAccess(frames[p]) /\ Calls(frames)
  BY <1>1, <1>7, <1>8, <1>9, RequestWorks
<1>11. fr \in Frame /\ FlowOK(fr) /\ HeldOK(fr, cache[m][w])
  BY <1>1, <1>10
<1>12. f \in Frame /\ f.pc = e /\ Alike(fr, f) /\ f.error = fr.error
  <2>1. e \in Events
    BY <1>2 DEF Events
  <2> QED BY <1>3, <1>11, <2>1, NextAlike
<1>13. /\ g \in Frame /\ g.kind = "invalidate" /\ g.pc = "invalidate" /\ g.mod = m
       /\ g.way = w /\ g.except = fr.mod
  <2>1. ret \in Events /\ fr.target \in Modules
    BY <1>4, <1>9, <1>10 DEF Events
  <2>2. fr.way \in Nat /\ fr.addr \in Tag /\ fr.mod \in Modules \cup {NoModule}
    BY <1>11 DEF Frame
  <2>3. PICK y, u : y = fr.mod /\ u = fr.addr
    OBVIOUS
  <2>4. g = InvalidationFrame(ret, m, u, w, y)
    BY <1>5, <1>9, <2>3 DEF InvalidationFrame
  <2>5. ret \in Events /\ m \in Modules /\ w \in Nat /\ u \in Tag /\ y \in Modules \cup {NoModule}
    BY <1>9, <2>1, <2>2, <2>3
  <2>6. /\ g \in Frame /\ g.kind = "invalidate" /\ g.pc = "invalidate" /\ g.mod = m
        /\ g.way = w /\ g.except = y
    BY ONLY <2>4, <2>5, InvalidateFrame
  <2> QED BY <2>3, <2>6
<1>14. Calling(frames, G, p, q) /\ G[p] = f /\ G[q] = g
  <2>1. Below(q, p)
    <3>1. x \in PathNames
      BY <1>6 DEF PathNames
    <3> QED BY <1>6, <3>1 DEF Below
  <2> QED BY ONLY p \in DOMAIN frames, <1>7, <1>8, <1>10, <2>1, CallingOne
<1>15. FlowOK(f) /\ LeanOK(f, cache, dir)
  <2>1. IsRequest(f) /\ Where(f) = m /\ f.way = w
    BY <1>8, <1>9, <1>12 DEF Alike, IsRequest, Where
  <2>2. FlowOK(f)
    BY <1>2, <1>7, <1>11, <1>12, <2>1 DEF FlowOK, RequestFlow, Alike, IsRequest
  <2>3. HeldOK(f, cache[m][w])
    BY <1>7, <1>11, <1>12 DEF HeldOK, Alike
  <2>4. LeanOK(f, cache, dir)
    BY <2>1, <2>3 DEF LeanOK, IsRequest
  <2> QED BY <2>2, <2>4
<1>16. LinkOK(f, frames[Front(p)])
  <2>1. SameLink(fr, f)
    BY ONLY <1>7, <1>12 DEF SameLink, Alike
  <2>2. LinkOK(fr, frames[Front(p)])
    BY <1>1, <1>8, <1>10, LinkOf
  <2> QED BY <2>1, <2>2, SameLinkOK
<1>17. /\ (Revoking(fr) => Revoking(f) /\ f.target = fr.target)
       /\ (IsUpDown(f) => IsUpDown(fr)) /\ f.kind = fr.kind
  BY <1>2, <1>12, AlikeFacts DEF Revoking, Alike
<1>18. InvalidateLink(g, f)
  BY <1>7, <1>9, <1>12, <1>13 DEF InvalidateLink, Alike
<1>19. InvalidateCalled(frames, cache, dir, G, p, q)
  <2>1. fr.kind \in {"evict", "write_request"} /\ fr.pc # "reply"
    BY <1>7
  <2> QED BY ONLY Copies(frames, cache, dir), p \in DOMAIN frames, <1>1, <1>2, <1>8, <1>10, <1>12,
                  <1>13, <1>14, <1>15, <1>16, <1>17, <1>18, <2>1
          DEF InvalidateCalled
<1>20. Copies(G, cache, dir)
  BY ONLY <1>19, CallsInvalidation
<1> QED BY <1>6, <1>7, <1>20

\* evict
LEMMA EvictCopies ==
    ASSUME Inv, Inv', Copies(frames, cache, dir), NEW p \in DOMAIN frames, Evict(p)
    PROVE  Copies(frames, cache, dir)'
<1>1. PICK fr, m, w, b : fr = frames[p] /\ m = fr.mod /\ w = fr.way /\ b = cache[m][w]
  OBVIOUS
<1>2. PICK f : f = [fr EXCEPT !.pc = "call", !.state = b.state, !.tag = b.tag,
                              !.srcTag = b.tag, !.srcWay = w]
  OBVIOUS
<1>3. PICK ret, t, y : ret = "invalid" /\ t = NoTag /\ y = NoModule
  OBVIOUS
<1>4. PICK n, g : /\ n = NewFrame("invalidate", ret, m, t)
                  /\ g = [n EXCEPT !.pc = "invalidate", !.way = w]
  OBVIOUS
<1>5. PICK x, q, G : x = "invalidate" /\ q = Append(p, x) /\ G = frames'
  OBVIOUS
<1>6. /\ fr.kind = "evict" /\ fr.pc = "evict" /\ UNCHANGED <<cache, dir>>
      /\ G = Call(With(p, f), q, g)
  BY <1>1, <1>2, <1>3, <1>4, <1>5 DEF Evict, At
<1>8. /\ Sys(frames, dir) /\ Storage(cache, dir) /\ Tree(frames) /\ Calls(frames)
      /\ fr \in Frame /\ FrameOK(fr) /\ m \in Modules /\ ~IsAccess(fr)
  <2>1. Sys(frames, dir) /\ Storage(cache, dir) /\ Tree(frames) /\ Calls(frames) /\ ~IsAccess(fr)
    BY <1>6 DEF Inv, Sys, Copies, IsAccess
  <2> QED BY <1>1, <2>1, FrameOf
<1>9. w \in Ways(m) /\ w \in Nat /\ b.tag \in Tag /\ b.state \in BlockStates
  <2>1. w \in Ways(m)
    BY <1>1, <1>6, <1>8 DEF FrameOK, EvictOK
  <2> QED BY <1>1, <1>8, <2>1, StorageFacts DEF Ways
<1>10. Childless(frames, p)
  BY <1>1, <1>6, <1>8, NoChildren
<1>11. EvictFlow(fr)
  BY <1>1, <1>6, <1>8 DEF Calls, FlowOK
<1>12. /\ f \in Frame /\ f.kind = "evict" /\ f.pc = "call" /\ f.mod = m /\ f.srcWay = w
       /\ f.srcTag = b.tag /\ f.reply = fr.reply /\ f.notFound = fr.notFound
       /\ f.addr = fr.addr /\ f.blocking = fr.blocking /\ f.dir = fr.dir /\ f.except = fr.except
       /\ f.target = fr.target
  <2>1. PICK u, s : u = b.tag /\ s = b.state
    OBVIOUS
  <2>2. f = [fr EXCEPT !.pc = "call", !.state = s, !.tag = u, !.srcTag = u, !.srcWay = w]
    BY <1>2, <2>1
  <2>3. u \in Tag /\ s \in BlockStates /\ w \in Nat /\ fr.mod = m
    BY <1>1, <1>9, <2>1
  <2> QED BY ONLY <1>6, <1>8, <2>1, <2>2, <2>3 DEF Frame, Events
<1>13. /\ g \in Frame /\ g.kind = "invalidate" /\ g.pc = "invalidate" /\ g.mod = m
       /\ g.way = w /\ g.except = y
  <2>1. n \in Frame /\ n.kind = "invalidate" /\ n.mod = m /\ n.except = NoModule
    BY <1>3, <1>4, <1>8, HierarchyAssumption
    DEF NewFrame, Frame, Events, Tag, BlockStates, Kinds
  <2>2. g = [n EXCEPT !.pc = "invalidate", !.way = w] /\ w \in Nat
    BY <1>4, <1>9
  <2>3. /\ g \in Frame /\ g.kind = "invalidate" /\ g.pc = "invalidate" /\ g.mod = m
        /\ g.way = w /\ g.except = NoModule
    BY ONLY <2>1, <2>2, ZenonT(40) DEF Frame, Events
  <2> QED BY <1>3, <2>3
<1>14. Calling(frames, G, p, q) /\ G[p] = f /\ G[q] = g
  <2>1. Below(q, p)
    <3>1. x \in PathNames
      BY <1>5 DEF PathNames
    <3> QED BY <1>5, <3>1 DEF Below
  <2>2. G = Call(With(p, f), q, g)
    BY <1>6
  <2> QED BY ONLY p \in DOMAIN frames, <1>8, <1>10, <2>1, <2>2, CallingOne
<1>15. FlowOK(f) /\ LeanOK(f, cache, dir)
  <2>1. ~Processing(f) /\ ~Holds(f) /\ ~IsRequest(f) /\ f.reply = "None" /\ ~f.notFound
    BY <1>6, <1>11, <1>12 DEF Processing, Holds, IsRequest, IsAccess, EvictFlow
  <2>2. EvictFlow(f)
    BY <1>9, <1>12, <2>1 DEF EvictFlow
  <2>3. EvictedOK(f, cache[f.mod][f.srcWay], dir[f.mod][f.srcWay])
    BY <1>1, <1>12, <2>1 DEF EvictedOK
  <2> QED BY <1>12, <2>1, <2>2, <2>3 DEF FlowOK, LeanOK
<1>16. LinkOK(f, frames[Front(p)])
  <2>1. LinkOK(fr, frames[Front(p)])
    BY <1>1, <1>8, LinkOf
  <2> QED BY <1>1, <1>6, <1>12, <2>1 DEF LinkOK, EvictLink, IsRequest
<1>17. /\ (Revoking(fr) => Revoking(f) /\ f.target = fr.target)
       /\ (IsUpDown(f) => IsUpDown(fr)) /\ f.kind = fr.kind
  BY <1>6, <1>12 DEF Revoking, Revokes, IsUpDown, IsRequest
<1>18. InvalidateLink(g, f)
  BY <1>3, <1>6, <1>11, <1>12, <1>13 DEF InvalidateLink, EvictFlow
<1>19. InvalidateCalled(frames, cache, dir, G, p, q)
  <2>1. fr.kind \in {"evict", "write_request"} /\ fr.pc # "reply"
    BY <1>6
  <2> QED BY ONLY Copies(frames, cache, dir), p \in DOMAIN frames, <1>1, <1>8, <1>10, <1>12,
                  <1>13, <1>14, <1>15, <1>16, <1>17, <1>18, <2>1
          DEF InvalidateCalled
<1>20. Copies(G, cache, dir)
  BY ONLY <1>19, CallsInvalidation
<1> QED BY <1>5, <1>6, <1>20
-----------------------------------------------------------------------------
(* Evictions. *)

\* Who has called an eviction, and what it has in common with its caller.
LEMMA EvictionOf ==
    ASSUME NEW F, NEW d, Sys(F, d), Calls(F), NEW p \in DOMAIN F, F[p].kind = "evict",
           NEW s, s = Front(p)
    PROVE  /\ s \in DOMAIN F /\ s # p /\ Child(p, s) /\ F[s] \in Frame /\ F[p] \in Frame
           /\ F[s].kind = "find_and_lock" /\ F[s].pc = "call" /\ F[s].mod = F[p].mod
           /\ Holds(F[s]) /\ FindFlow(F[s]) /\ F[s].eviction /\ ~F[s].hit
           /\ EvictFlow(F[p]) /\ EvictLink(F[p], F[s]) /\ F[p].ret = "finish"
           /\ ~IsAccess(F[p]) /\ ~IsAccess(F[s]) /\ LinkOK(F[s], F[Front(s)])
           /\ FrameOK(F[p])
<1>1. ~IsAccess(F[p])
  BY DEF IsAccess
<1>2. /\ F[p] \in Frame /\ FrameOK(F[p]) /\ s \in DOMAIN F /\ s # p /\ Child(p, s)
      /\ CallOK(F[p], F[s])
  BY <1>1, FrameOf
<1>3. F[s] \in Frame /\ FrameOK(F[s])
  BY <1>2, FrameOf
<1>4. EvictLink(F[p], F[s]) /\ FlowOK(F[p]) /\ FlowOK(F[s])
  BY <1>1, <1>2, LinkOf DEF LinkOK, Calls
<1>5. F[s].kind = "find_and_lock" /\ F[s].pc = "call" /\ F[s].mod = F[p].mod /\ F[p].ret = "finish"
  BY <1>2 DEF CallOK
<1>6. Holds(F[s]) /\ ~IsAccess(F[s])
  BY <1>5 DEF Holds, IsAccess
<1>7. FindFlow(F[s]) /\ EvictFlow(F[p])
  BY <1>4, <1>5 DEF FlowOK
<1>8. F[s].eviction /\ ~F[s].hit
  BY <1>5, <1>7 DEF FindFlow
<1>9. LinkOK(F[s], F[Front(s)])
  BY <1>2, <1>6, LinkOf
<1> QED BY <1>1, <1>2, <1>3, <1>4, <1>5, <1>6, <1>7, <1>8, <1>9

\* The frame of an eviction shows nothing to others.
LEMMA EvictFits ==
    ASSUME NEW F, NEW c, NEW G, NEW c1, NEW d1, NEW X, NEW x, G[x] \in Frame,
           G[x].kind = "evict", FlowOK(G[x]), LeanOK(G[x], c1, d1)
    PROVE  Fits(F, c, G, c1, d1, X, x)
<1>1. ~Cleared(G, x) /\ ~IsUpDown(G[x]) /\ ReadQuiet(G[x], F, c)
  BY DEF Cleared, IsUpDown, IsRequest, ReadQuiet
<1>2. Backed(F, c, G, x)
  <2>1. SUFFICES ASSUME NEW K, Granted(G, x, K) PROVE FALSE
    BY DEF Backed
  <2>2. Processing(G[x])
    BY <2>1 DEF Granted, Holds, IsAccess, IsRequest
  <2> QED BY <2>1, <2>2 DEF Granted, Answered, Ready, Processing
<1> QED BY <1>1, <1>2 DEF Fits, Shows

\* The lock of the lower module was taken: the eviction fails, and tells its caller.
LEMMA EvictErrorCopies ==
    ASSUME Inv, Inv', Copies(frames, cache, dir), NEW p \in DOMAIN frames, EvictError(p)
    PROVE  Copies(frames, cache, dir)'
<1>1. PICK fr, s, g : fr = frames[p] /\ s = Front(p) /\ g = frames[s]
  OBVIOUS
<1>2. PICK f, h, G, X : /\ f = [fr EXCEPT !.pc = "reply"] /\ h = [g EXCEPT !.error = TRUE]
                        /\ G = frames' /\ X = {p, s}
  OBVIOUS
<1>3. /\ fr.kind = "evict" /\ Processing(fr) /\ fr.error /\ UNCHANGED <<cache, dir>>
      /\ G = [With(p, f) EXCEPT ![s].error = TRUE]
  BY <1>1, <1>2 DEF EvictError, Processing
<1>4. Sys(frames, dir) /\ Calls(frames) /\ Leaning(frames, cache, dir)
  BY DEF Inv, Copies
<1>5. /\ s \in DOMAIN frames /\ s # p /\ Child(p, s) /\ g \in Frame /\ fr \in Frame
      /\ g.kind = "find_and_lock" /\ g.pc = "call" /\ g.mod = fr.mod
      /\ Holds(g) /\ FindFlow(g) /\ g.eviction /\ ~g.hit
      /\ EvictFlow(fr) /\ EvictLink(fr, g) /\ ~IsAccess(fr) /\ ~IsAccess(g)
      /\ LinkOK(g, frames[Front(s)])
  BY <1>1, <1>3, <1>4, EvictionOf
<1>6. Childless(frames, p)
  BY <1>1, <1>3, <1>4, NoChildren DEF Sys, Processing
<1>7. f \in Frame /\ f.pc = "reply" /\ Alike(fr, f) /\ f.error = fr.error /\ f.reply = fr.reply
  BY ONLY <1>2, <1>5 DEF Frame, Events, Alike
<1>8. h \in Frame /\ h.pc = g.pc /\ Alike(g, h) /\ h.error
  BY ONLY <1>2, <1>5 DEF Frame, Alike
<1>9. /\ DOMAIN G = DOMAIN frames /\ G[p] = f /\ G[s] = h
      /\ \A q \in DOMAIN frames : q # p /\ q # s => G[q] = frames[q]
  BY <1>1, <1>2, <1>3, <1>5 DEF With
<1>10. LinkOK(f, h)
  BY ONLY <1>3, <1>5, <1>7, <1>8 DEF LinkOK, EvictLink, Alike, IsRequest, Processing
<1>11. LinkOK(h, frames[Front(s)])
  <2>1. SameLink(g, h)
    BY ONLY <1>5, <1>8 DEF SameLink, Alike
  <2> QED BY <1>5, <2>1, SameLinkOK
<1>12. /\ Rest(frames, G, X) /\ Linked(G, X) /\ Childless(G, p)
       /\ p \in DOMAIN G /\ s \in DOMAIN G
  <2>1. \A r \in DOMAIN frames : Child(r, s) /\ r # p => LinkOK(frames[r], G[s])
    <3>1. frames[s].kind # "invalidate"
      BY <1>1, <1>5
    <3> QED BY <1>4, <1>5, <3>1, OnlyCall
  <2>2. LinkOK(G[p], G[s]) /\ (~IsAccess(frames[s]) => LinkOK(G[s], frames[Front(s)]))
    BY <1>9, <1>10, <1>11
  <2>3. /\ ~IsAccess(frames[p]) /\ DOMAIN G = DOMAIN frames
        /\ \A q \in DOMAIN frames : q # p /\ q # s => G[q] = frames[q]
    BY <1>1, <1>5, <1>9
  <2>4. s = Front(p) /\ X = {p, s}
    BY <1>1, <1>2
  <2>5. Rest(frames, G, {p, s}) /\ Linked(G, {p, s}) /\ Childless(G, p) /\ p \in DOMAIN G /\ s \in DOMAIN G
    BY ONLY p \in DOMAIN frames, <1>4, <1>6, <2>1, <2>2, <2>3, <2>4, LinkedTell
  <2> QED BY <2>4, <2>5
<1>13. Fits(frames, cache, G, cache, dir, X, p)
  <2>1. EvictFlow(f)
    BY <1>3, <1>5, <1>7 DEF EvictFlow, Alike, Processing
  <2>2. f.kind = "evict" /\ f.mod = fr.mod /\ f.srcWay = fr.srcWay /\ f.srcTag = fr.srcTag
    BY <1>3, <1>7 DEF Alike
  <2>3. EvictedOK(fr, cache[fr.mod][fr.srcWay], dir[fr.mod][fr.srcWay])
    BY <1>1, <1>3, <1>4 DEF Leaning, LeanOK, Processing
  <2>4. EvictedOK(f, cache[f.mod][f.srcWay], dir[f.mod][f.srcWay])
    BY <1>5, <1>7, <2>2, <2>3, <1>3 DEF EvictedOK, EvictFlow, Processing
  <2>5. FlowOK(f) /\ LeanOK(f, cache, dir)
    BY <1>7, <2>1, <2>2, <2>4 DEF FlowOK, LeanOK, IsRequest, Holds, Processing, IsAccess
  <2> QED BY <1>7, <1>9, <2>2, <2>5, EvictFits
<1>14. Fits(frames, cache, G, cache, dir, X, s)
  <2>1. h.kind = "find_and_lock" /\ h.pc = "call" /\ h.mod = g.mod /\ h.way = g.way
    BY <1>5, <1>8 DEF Alike
  <2>2. FlowOK(h)
    BY <1>5, <1>8, <2>1 DEF FlowOK, FindFlow, IsRequest, Alike
  <2>3. FoundOK(h, cache[h.mod][h.way])
    <3>1. FoundOK(g, cache[g.mod][g.way])
      BY <1>1, <1>4, <1>5 DEF Leaning, LeanOK
    <3> QED BY <1>5, <1>8, <2>1, <3>1 DEF FoundOK, Alike
  <2>4. \A q \in DOMAIN G : Child(q, s) => ~IsUpDown(G[q])
    <3>1. SUFFICES ASSUME NEW q \in DOMAIN G, Child(q, s) PROVE ~IsUpDown(G[q])
      OBVIOUS
    <3>2. frames[s].kind # "invalidate"
      BY <1>1, <1>5
    <3>3. q = p
      BY <1>4, <1>5, <1>9, <3>1, <3>2, OnlyCall
    <3> QED BY <1>3, <1>7, <1>9, <3>3 DEF IsUpDown, IsRequest, Alike
  <2> QED BY <1>8, <1>9, <2>1, <2>2, <2>3, <2>4, FindFits
<1>15. Leaves(frames, G, p) /\ Leaves(frames, G, s)
  BY <1>1, <1>3, <1>5 DEF Leaves, IsLost, Revoking, Revokes, Processing
<1>16. /\ \A x \in X \cap DOMAIN G : Fits(frames, cache, G, cache, dir, X, x)
       /\ \A x \in X \cap DOMAIN frames : Leaves(frames, G, x)
  BY <1>2, <1>13, <1>14, <1>15
<1>17. Copies(G, cache, dir)
  BY ONLY Copies(frames, cache, dir), <1>4, <1>12, <1>16, FramesStep
<1> QED BY <1>2, <1>3, <1>17

\* Eviction p is over, and returns to s: the block is gone, unless the eviction has
\* failed.
EvictionOver(F, c, d, G, c1, p, s, m, w) ==
    /\ Sys(F, d) /\ Copies(F, c, d) /\ p \in DOMAIN F /\ Childless(F, p)
    /\ F[p].kind = "evict" /\ F[p].pc \in {"invalid", "reply"}
    /\ s = Front(p) /\ m = F[p].mod /\ w = F[p].srcWay
    /\ DOMAIN G = DOMAIN F \ {p} /\ (\A q \in DOMAIN G : q # s => G[q] = F[q])
    /\ G[s] \in Frame /\ G[s].pc = "finish" /\ Alike(F[s], G[s]) /\ G[s].error = F[s].error
    /\ OffEntry(c, d, c1, d, m, w) /\ c1[m][w].transient = c[m][w].transient
    /\ (c1[m][w].state = "I" \/ (F[p].pc = "reply" /\ F[p].error /\ c1 = c))

\* The end of an eviction keeps the invariant.
LEMMA EvictionEnds ==
    ASSUME NEW F, NEW c, NEW d, NEW G, NEW c1, NEW p, NEW s, NEW m, NEW w,
           EvictionOver(F, c, d, G, c1, p, s, m, w)
    PROVE  Copies(G, c1, d)
<1>0. /\ Sys(F, d) /\ Copies(F, c, d) /\ p \in DOMAIN F /\ Childless(F, p)
      /\ F[p].kind = "evict" /\ F[p].pc \in {"invalid", "reply"}
      /\ s = Front(p) /\ m = F[p].mod /\ w = F[p].srcWay
      /\ DOMAIN G = DOMAIN F \ {p} /\ (\A q \in DOMAIN G : q # s => G[q] = F[q])
      /\ G[s] \in Frame /\ G[s].pc = "finish" /\ Alike(F[s], G[s]) /\ G[s].error = F[s].error
      /\ OffEntry(c, d, c1, d, m, w) /\ c1[m][w].transient = c[m][w].transient
      /\ (c1[m][w].state = "I" \/ (F[p].pc = "reply" /\ F[p].error /\ c1 = c))
  BY DEF EvictionOver
<1>1. PICK X, f, g, h : X = {p, s} /\ f = F[p] /\ g = F[s] /\ h = G[s]
  OBVIOUS
<1>2. Calls(F) /\ Leaning(F, c, d) /\ OneWayEach(c, d) /\ Above(d)
  BY <1>0 DEF Copies
<1>3. /\ s \in DOMAIN F /\ s # p /\ Child(p, s) /\ g \in Frame /\ f \in Frame
      /\ g.kind = "find_and_lock" /\ g.pc = "call" /\ g.mod = f.mod
      /\ Holds(g) /\ FindFlow(g) /\ g.eviction /\ ~g.hit
      /\ EvictFlow(f) /\ EvictLink(f, g) /\ ~IsAccess(f) /\ ~IsAccess(g)
      /\ LinkOK(g, F[Front(s)])
  BY <1>0, <1>1, <1>2, EvictionOf
<1>4. /\ h.kind = "find_and_lock" /\ h.pc = "finish" /\ h.mod = m /\ h.way = w /\ h \in Frame
      /\ h.eviction /\ ~h.hit /\ h.dir = g.dir /\ h.tag = g.tag /\ h.error = g.error
      /\ h.state = g.state /\ g.way = w
  BY <1>0, <1>1, <1>3, ZenonT(40) DEF Alike, EvictLink
<1>5. m \in Modules /\ w \in Ways(m)
  BY <1>0, <1>1, <1>3 DEF EvictFlow, Frame
<1>6. FlowOK(h)
  BY <1>3, <1>4 DEF FlowOK, FindFlow, IsRequest
<1>7. LinkOK(h, F[Front(s)])
  <2>1. SameLink(g, h)
    BY ONLY <1>0, <1>1, <1>3 DEF SameLink, Alike
  <2> QED BY <1>3, <2>1, SameLinkOK
<1>8. /\ Rest(F, G, X) /\ Linked(G, X) /\ Childless(G, s)
      /\ p \notin DOMAIN G /\ s \in DOMAIN G
  <2>1. F[s].kind # "invalidate" /\ ~IsAccess(F[p]) /\ (~IsAccess(F[s]) => LinkOK(G[s], F[Front(s)]))
    BY <1>1, <1>3, <1>7
  <2>2. Rest(F, G, {p, s}) /\ Linked(G, {p, s}) /\ Childless(G, s) /\ p \notin DOMAIN G /\ s \in DOMAIN G
    BY ONLY <1>0, <2>1, LinkedReturn, SMTT(30)
  <2> QED BY <1>1, <2>2
<1>9. FoundOK(h, c1[m][w])
  <2>1. FoundOK(g, c[m][w])
    BY <1>0, <1>1, <1>2, <1>3, <1>4 DEF Leaning, LeanOK
  <2>2. c1[m][w].state # "I" => h.error
    BY <1>0, <1>1, <1>3, <1>4 DEF EvictLink
  <2> QED BY <1>0, <1>4, <2>1, <2>2 DEF FoundOK
<1>10. Fits(F, c, G, c1, d, X, s)
  <2>1. \A q \in DOMAIN G : Child(q, s) => ~IsUpDown(G[q])
    BY <1>8 DEF Childless
  <2> QED BY <1>1, <1>4, <1>6, <1>9, <2>1, FindFits
<1>11. \A x \in X \cap DOMAIN G : Fits(F, c, G, c1, d, X, x)
  BY <1>1, <1>8, <1>10
<1>12. AskedEnds(F, G, c, c1)
  <2>1. ASSUME NEW l, NEW v, NEW n, Asked(F, l, v, n) PROVE Asked(G, l, v, n)
    <3>1. PICK a, b \in DOMAIN F :
             /\ Child(a, b) /\ Revoking(F[a]) /\ F[a].target = n
             /\ F[b].kind = "invalidate" /\ F[b].mod = l /\ F[b].way = v
      BY <2>1 DEF Asked
    <3>2. a # p /\ a # s /\ b # p /\ b # s
      BY <1>0, <1>1, <1>3, <3>1 DEF Revoking, Revokes
    <3>3. a \in DOMAIN G /\ b \in DOMAIN G /\ G[a] = F[a] /\ G[b] = F[b]
      BY <1>0, <3>1, <3>2
    <3> QED BY <3>1, <3>3 DEF Asked
  <2> QED BY <2>1 DEF AskedEnds
<1>13. CASE F[p].pc = "reply" /\ F[p].error /\ c1 = c
  <2>1. \A x \in X \cap DOMAIN F : ~IsLost(F[x])
    BY <1>1, <1>3, <1>13 DEF IsLost
  <2>2. (\A x \in X \cap DOMAIN G : Fits(F, c, G, c, d, X, x)) /\ AskedEnds(F, G, c, c)
    BY <1>11, <1>12, <1>13
  <2>3. Copies(G, c, d)
    BY ONLY <1>0, <1>8, <2>1, <2>2, FramesEnd
  <2> QED BY <1>13, <2>3
<1>14. CASE c1[m][w].state = "I"
  <2>1. ASSUME NEW q \in DOMAIN F \ X, Leans(F[q], m, w) PROVE FALSE
    <3>1. q \in DOMAIN F /\ F[p].pc # "evict" /\ Leans(F[q], F[p].mod, F[p].srcWay)
      BY <1>0, <2>1
    <3>2. q = p \/ q = Front(p)
      BY ONLY <1>0, <1>2, <3>1, LoneEvict
    <3> QED BY <1>0, <1>1, <2>1, <3>2
  <2>2. OneWayEach(c1, d)
    <3>1. \A t \in Tag : InMatches(c1, d, m, t, w) => InMatches(c, d, m, t, w)
      BY <1>0, <1>14 DEF InMatches
    <3> QED BY ONLY <1>0, <1>2, <1>5, <3>1, OneWayKept
  <2>3. ASSUME NEW n \in Modules, NEW v \in Ways(n), Lost(F, n, v)
        PROVE  Lost(G, n, v) \/ (n = m /\ v = w)
    <3>1. PICK a \in DOMAIN F : IsLost(F[a]) /\ F[a].mod = n /\ F[a].srcWay = v
      BY <2>3 DEF Lost
    <3>2. a # s
      BY <1>1, <1>3, <3>1 DEF IsLost
    <3>3. CASE a = p
      BY <1>0, <3>1, <3>3
    <3>4. CASE a # p
      <4>1. a \in DOMAIN G /\ G[a] = F[a]
        BY <1>0, <3>2, <3>4
      <4> QED BY <3>1, <4>1 DEF Lost
    <3> QED BY <3>3, <3>4
  <2>4. ASSUME NEW K \in Rights, NEW n, NEW t, Serves(F, c[m][w], d[m][w], m, w, n, t, K)
        PROVE  FALSE
    <3>1. EvictedOK(f, c[m][w], d[m][w])
      BY <1>0, <1>1, <1>2 DEF Leaning, LeanOK
    <3>2. d[m][w].sharers = {}
      BY <1>0, <1>1, <1>3, <3>1 DEF EvictedOK, EvictFlow
    <3>3. Asked(F, m, w, n)
      BY <2>4, <3>2 DEF Serves
    <3>4. F[p].pc # "evict" /\ Asked(F, F[p].mod, F[p].srcWay, n)
      BY <1>0, <3>3
    <3> QED BY ONLY <1>0, <1>2, <3>4, VictimNotAsked
  <2>5. \A K \in Rights : c1[m][w].state \notin K
    BY <1>14, RightsFacts
  <2> PICK m0, w0 : m0 = m /\ w0 = w
    OBVIOUS
  <2>6. /\ m0 \in Modules /\ OffEntry(c, d, c1, d, m0, w0)
        /\ \A q \in DOMAIN F \ X : Leans(F[q], m0, w0) => LeanOK(F[q], c1, d)
        /\ d[m0][w0].sharers \subseteq d[m0][w0].sharers
        /\ \A n \in Modules : \A v \in Ways(n) :
              Lost(F, n, v) => Lost(G, n, v) \/ (n = m0 /\ v = w0)
    BY <1>0, <1>5, <2>1, <2>3
  <2>7. \A K \in Rights :
           m0 # MainMemory /\ w0 \in Ways(m0) /\ c1[m0][w0].state \in K /\ ~Lost(G, m0, w0) =>
              Needs(F, c, m0, c1[m0][w0].tag, K)
    BY <2>5
  <2>8. \A K \in Rights, n \in Modules \ {MainMemory}, t \in Tag :
           /\ Low[n] = m0 /\ w0 \in Ways(m0) /\ Needs(F, c, n, t, K) /\ Needs(G, c1, n, t, K)
           /\ Serves(F, c[m0][w0], d[m0][w0], m0, w0, n, t, K)
           => Serves(G, c1[m0][w0], d[m0][w0], m0, w0, n, t, K)
    BY <2>4
  <2> QED BY ONLY <1>0, <1>2, <1>8, <1>11, <1>12, <2>2, <2>6, <2>7, <2>8, EntryStep
<1> QED BY <1>0, <1>13, <1>14

\* An eviction returns, after a failure or with its block gone.
LEMMA EvictionReturns ==
    ASSUME Inv, Copies(frames, cache, dir), NEW p \in DOMAIN frames, NEW fr, fr = frames[p],
           fr.kind = "evict", fr.pc \in {"invalid", "reply"},
           frames' = Return(p, Parent(p)), dir' = dir,
           \/ cache' = cache /\ fr.pc = "reply" /\ fr.error
           \/ cache' = cache /\ cache[fr.mod][fr.srcWay].state = "I"
           \/ setBlock(fr.mod, fr.srcWay, NoTag, "I")
    PROVE  Copies(frames, cache, dir)'
<1>1. PICK F, G, c, d, c1, s, g, m, w, t, x :
         /\ F = frames /\ G = frames' /\ c = cache /\ d = dir /\ c1 = cache' /\ s = Front(p)
         /\ g = F[s] /\ m = fr.mod /\ w = fr.srcWay /\ t = NoTag /\ x = "I"
  OBVIOUS
<1>2. /\ Sys(F, d) /\ Copies(F, c, d) /\ Calls(F) /\ p \in DOMAIN F /\ Storage(c, d) /\ Tree(F)
  BY <1>1 DEF Inv, Copies, Sys
<1>3. Childless(F, p)
  BY <1>1, <1>2, NoChildren
<1>4. /\ s \in DOMAIN F /\ s # p /\ g \in Frame /\ fr \in Frame /\ EvictFlow(fr)
      /\ fr.ret = "finish"
  BY <1>1, <1>2, EvictionOf
<1>5. m \in Modules /\ w \in Ways(m)
  BY <1>1, <1>4 DEF EvictFlow, Frame
<1>6. PICK e, k : e = "finish" /\ k = [g EXCEPT !.pc = e]
  OBVIOUS
<1>7. DOMAIN G = DOMAIN F \ {p} /\ G[s] = k /\ \A q \in DOMAIN F : q # p /\ q # s => G[q] = F[q]
  <2>1. s = Front(p) /\ s \in DOMAIN frames /\ s # p /\ G = Return(p, g) /\ p \in DOMAIN frames
    BY <1>1, <1>4 DEF Parent
  <2>2. /\ DOMAIN G = DOMAIN frames \ {p} /\ G[s] = [g EXCEPT !.pc = frames[p].ret]
        /\ \A q \in DOMAIN frames : q # p /\ q # s => G[q] = frames[q]
    BY ONLY <2>1 DEF Return
  <2> QED BY <1>1, <1>4, <1>6, <2>2
<1>8. k \in Frame /\ k.pc = e /\ Alike(g, k) /\ k.error = g.error
  <2>1. g \in Frame /\ e \in Events /\ k = [g EXCEPT !.pc = e]
    BY <1>4, <1>6 DEF Events
  <2> QED BY ONLY <2>1, NextAlike
<1>9. /\ \A n \in Modules : \A v \in Ways(n) : n # m \/ v # w => c1[n][v] = c[n][v]
      /\ c1[m][w].transient = c[m][w].transient
      /\ c1[m][w].state = "I" \/ (F[p].pc = "reply" /\ F[p].error /\ c1 = c)
  <2>1. CASE setBlock(m, w, t, x)
    <3>1. c1 = BlockTo(c, m, w, t, x)
      BY <1>1, <2>1 DEF setBlock, BlockTo
    <3>2. /\ c1[m][w].state = x /\ c1[m][w].transient = c[m][w].transient
          /\ \A n \in Modules : \A v \in Ways(n) : n # m \/ v # w => c1[n][v] = c[n][v]
      BY ONLY <1>2, <1>5, <3>1, BlockSet
    <3> QED BY <1>1, <3>2
  <2>2. CASE c1 = c /\ fr.pc = "reply" /\ fr.error
    BY <1>1, <2>2
  <2>3. CASE c1 = c /\ c[m][w].state = "I"
    BY <2>3
  <2> QED BY <1>1, <2>1, <2>2, <2>3
<1>10. OffEntry(c, d, c1, d, m, w)
  BY <1>9 DEF OffEntry
<1>11. /\ F[p].kind = "evict" /\ F[p].pc \in {"invalid", "reply"}
       /\ s = Front(p) /\ m = F[p].mod /\ w = F[p].srcWay
       /\ (\A q \in DOMAIN G : q # s => G[q] = F[q])
       /\ G[s] \in Frame /\ G[s].pc = "finish" /\ Alike(F[s], G[s]) /\ G[s].error = F[s].error
  BY <1>1, <1>6, <1>7, <1>8
<1>12. EvictionOver(F, c, d, G, c1, p, s, m, w)
  BY ONLY <1>2, <1>3, <1>7, <1>9, <1>10, <1>11 DEF EvictionOver
<1>13. Copies(G, c1, d)
  BY ONLY <1>12, EvictionEnds
<1> QED BY <1>1, <1>13

\* evict_reply_receive
LEMMA EvictReplyReceiveCopies ==
    ASSUME Inv, Inv', Copies(frames, cache, dir), NEW p \in DOMAIN frames, EvictReplyReceive(p)
    PROVE  Copies(frames, cache, dir)'
<1>1. PICK fr : fr = frames[p]
  OBVIOUS
<1>2. /\ fr.kind = "evict" /\ fr.pc = "reply" /\ frames' = Return(p, Parent(p)) /\ dir' = dir
      /\ (cache' = cache /\ fr.error) \/ setBlock(fr.mod, fr.srcWay, NoTag, "I")
  BY <1>1 DEF EvictReplyReceive, At
<1> QED BY <1>1, <1>2, EvictionReturns

\* Eviction p looks its block up in the lower module.
EvictionAsks(F, c, d, G, p, q) ==
    /\ Sys(F, d) /\ Copies(F, c, d) /\ p \in DOMAIN F /\ Childless(F, p) /\ Calling(F, G, p, q)
    /\ F[p].kind = "evict" /\ F[p].pc = "invalid" /\ F[p].mod # MainMemory
    /\ c[F[p].mod][F[p].srcWay].state # "I"
    /\ G[p] \in Frame /\ G[p].kind = "evict" /\ G[p].pc = "call" /\ G[p].mod = F[p].mod
    /\ G[p].srcWay = F[p].srcWay /\ G[p].srcTag = F[p].srcTag /\ ~G[p].notFound
    /\ G[p].reply # "None" /\ G[p].target = Low[F[p].mod]
    /\ G[q] \in Frame /\ G[q].kind = "find_and_lock" /\ G[q].pc = "find" /\ FlowOK(G[q])
    /\ G[q].addr = F[p].srcTag /\ G[q].dir = "downup"

\* The call of find_and_lock by an eviction keeps the invariant.
LEMMA EvictionCalls ==
    ASSUME NEW F, NEW c, NEW d, NEW G, NEW p, NEW q, EvictionAsks(F, c, d, G, p, q)
    PROVE  Copies(G, c, d)
<1>0. /\ Sys(F, d) /\ Copies(F, c, d) /\ p \in DOMAIN F /\ Childless(F, p) /\ Calling(F, G, p, q)
      /\ F[p].kind = "evict" /\ F[p].pc = "invalid" /\ F[p].mod # MainMemory
      /\ c[F[p].mod][F[p].srcWay].state # "I"
      /\ G[p] \in Frame /\ G[p].kind = "evict" /\ G[p].pc = "call" /\ G[p].mod = F[p].mod
      /\ G[p].srcWay = F[p].srcWay /\ G[p].srcTag = F[p].srcTag /\ ~G[p].notFound
      /\ G[p].reply # "None" /\ G[p].target = Low[F[p].mod]
      /\ G[q] \in Frame /\ G[q].kind = "find_and_lock" /\ G[q].pc = "find" /\ FlowOK(G[q])
      /\ G[q].addr = F[p].srcTag /\ G[q].dir = "downup"
  BY DEF EvictionAsks
<1>1. PICK X, s, g, f, h : X = {p, q} /\ s = Front(p) /\ g = F[s] /\ f = F[p] /\ h = G[p]
  OBVIOUS
<1>2. Calls(F) /\ Leaning(F, c, d)
  BY <1>0 DEF Copies
<1>3. EvictFlow(f) /\ EvictLink(f, g) /\ ~IsAccess(f) /\ s \in DOMAIN F /\ s # p
  BY <1>0, <1>1, <1>2, EvictionOf
<1>4. FlowOK(h)
  <2>1. EvictFlow(h)
    BY <1>0, <1>1, <1>3 DEF EvictFlow, Processing
  <2> QED BY <1>0, <1>1, <2>1 DEF FlowOK, IsRequest
<1>5. LeanOK(h, c, d)
  <2>1. EvictedOK(f, c[f.mod][f.srcWay], d[f.mod][f.srcWay])
    BY <1>0, <1>1, <1>2 DEF Leaning, LeanOK
  <2>2. EvictedOK(h, c[h.mod][h.srcWay], d[h.mod][h.srcWay])
    BY <1>0, <1>1, <2>1 DEF EvictedOK
  <2> QED BY <1>0, <1>1, <2>2 DEF LeanOK, Holds, IsAccess, IsRequest, Processing
<1>6. LinkOK(G[p], F[Front(p)])
  BY <1>0, <1>1, <1>3 DEF LinkOK, EvictLink, IsRequest
<1>7. LinkOK(G[q], G[p])
  BY <1>0 DEF LinkOK, FindLink, IsRequest
<1>8. /\ Rest(F, G, X) /\ Linked(G, X) /\ Childless(G, q)
      /\ p \in DOMAIN G /\ q \in DOMAIN G /\ q \notin DOMAIN F
  <2>1. /\ Rest(F, G, {p, q}) /\ Linked(G, {p, q}) /\ Childless(G, q)
        /\ p \in DOMAIN G /\ q \in DOMAIN G /\ q \notin DOMAIN F
    BY ONLY <1>0, <1>6, <1>7, LinkedCall
  <2> QED BY <1>1, <2>1
<1>9. Fits(F, c, G, c, d, X, p)
  BY <1>0, <1>1, <1>4, <1>5, EvictFits
<1>10. Fits(F, c, G, c, d, X, q)
  <2>1. ~Holds(G[q])
    BY <1>0 DEF Holds, IsAccess, IsRequest, Processing
  <2>2. \A r \in DOMAIN G : Child(r, q) => ~IsUpDown(G[r])
    BY <1>8 DEF Childless
  <2> QED BY <1>0, <2>1, <2>2, FindFits
<1>11. Leaves(F, G, p)
  BY <1>0 DEF Leaves, IsLost, Revoking, Revokes
<1>12. /\ \A x \in X \cap DOMAIN G : Fits(F, c, G, c, d, X, x)
       /\ \A x \in X \cap DOMAIN F : Leaves(F, G, x)
  BY <1>1, <1>8, <1>9, <1>10, <1>11
<1> QED BY ONLY <1>0, <1>8, <1>12, FramesStep

\* evict_invalid
LEMMA EvictInvalidCopies ==
    ASSUME Inv, Inv', Copies(frames, cache, dir), NEW p \in DOMAIN frames, EvictInvalid(p)
    PROVE  Copies(frames, cache, dir)'
<1>1. PICK fr, state : fr = frames[p] /\ state = cache[fr.mod][fr.way].state
  OBVIOUS
<1>2. PICK x, r, h : /\ x = Dirty(state) /\ r = (IF x THEN "AckData" ELSE "Ack")
                     /\ h = [fr EXCEPT !.state = state, !.data = x, !.reply = r,
                                       !.target = Low[fr.mod]]
  OBVIOUS
<1>3. PICK ret : ret = IF state = "N" THEN "process_noncoherent" ELSE "process"
  OBVIOUS
<1>4. /\ fr.kind = "evict" /\ fr.pc = "invalid" /\ dir' = dir
      /\ \/ setBlock(fr.mod, fr.srcWay, NoTag, "I") /\ frames' = Return(p, Parent(p))
         \/ cache' = cache /\ state = "I" /\ frames' = Return(p, Parent(p))
         \/ /\ cache' = cache /\ state # "I" /\ fr.mod # MainMemory
            /\ frames' = CallFindAndLock(p, h, ret, Low[fr.mod], fr.srcTag, "downup", FALSE)
  BY <1>1, <1>2, <1>3 DEF EvictInvalid, At
<1>5. /\ Sys(frames, dir) /\ Calls(frames) /\ Storage(cache, dir) /\ fr \in Frame
      /\ EvictFlow(fr) /\ Tree(frames)
  <2>1. Sys(frames, dir) /\ Calls(frames) /\ Storage(cache, dir)
    BY DEF Inv, Copies
  <2> QED BY <1>1, <1>4, <2>1, EvictionOf DEF Sys
<1>6. fr.way = fr.srcWay /\ fr.srcWay \in Ways(fr.mod) /\ fr.mod \in Modules /\ fr.srcTag \in Tag
  BY <1>4, <1>5 DEF EvictFlow, Frame
<1>7. CASE frames' = Return(p, Parent(p))
  <2>1. cache' = cache /\ state = "I" => cache[fr.mod][fr.srcWay].state = "I"
    BY <1>1, <1>6
  <2>2. \/ cache' = cache /\ cache[fr.mod][fr.srcWay].state = "I"
        \/ setBlock(fr.mod, fr.srcWay, NoTag, "I")
        \/ /\ cache' = cache /\ state # "I" /\ fr.mod # MainMemory
           /\ frames' = CallFindAndLock(p, h, ret, Low[fr.mod], fr.srcTag, "downup", FALSE)
    BY <1>4, <2>1
  <2>3. ~(frames' = CallFindAndLock(p, h, ret, Low[fr.mod], fr.srcTag, "downup", FALSE))
    <3>1. p \notin DOMAIN Return(p, Parent(p))
      BY DEF Return
    <3>2. p \in DOMAIN CallFindAndLock(p, h, ret, Low[fr.mod], fr.srcTag, "downup", FALSE)
      BY DEF CallFindAndLock, Call, With
    <3> QED BY <1>7, <3>1, <3>2
  <2> QED BY <1>1, <1>4, <1>7, <2>2, <2>3, EvictionReturns
<1>8. CASE /\ cache' = cache /\ state # "I" /\ fr.mod # MainMemory
           /\ frames' = CallFindAndLock(p, h, ret, Low[fr.mod], fr.srcTag, "downup", FALSE)
  <2>1. PICK m, t, u, b : m = Low[fr.mod] /\ t = fr.srcTag /\ u = "downup" /\ b = FALSE
    OBVIOUS
  <2>2. PICK f, g, y, q, G : /\ f = [h EXCEPT !.pc = "call", !.error = FALSE]
                             /\ g = FindFrame(ret, m, t, u, b)
                             /\ y = "find" /\ q = Append(p, y) /\ G = frames'
    OBVIOUS
  <2>3. /\ m \in Modules /\ t \in Tag /\ u \in {"updown", "downup"} /\ b \in BOOLEAN
        /\ ret \in Events /\ x \in BOOLEAN /\ r \in {"Ack", "AckData"} /\ state \in BlockStates
    <3>1. m \in Modules
      BY <1>6, <1>8, <2>1, LowFacts
    <3>2. state \in BlockStates
      BY <1>1, <1>5, <1>6, StorageFacts
    <3>3. x \in BOOLEAN /\ r \in {"Ack", "AckData"}
      BY <1>2 DEF Dirty
    <3>4. ret \in Events
      BY <1>3 DEF Events
    <3> QED BY <1>6, <2>1, <3>1, <3>2, <3>3, <3>4
  <2>4. /\ h \in Frame /\ h.kind = fr.kind /\ h.mod = fr.mod /\ h.srcWay = fr.srcWay
        /\ h.srcTag = fr.srcTag /\ h.notFound = fr.notFound /\ h.reply = r /\ h.target = m
    <3>1. h = [fr EXCEPT !.state = state, !.data = x, !.reply = r, !.target = m]
      BY <1>2, <2>1
    <3> QED BY ONLY <1>5, <2>3, <3>1 DEF Frame
  <2>5. /\ f \in Frame /\ f.pc = "call" /\ f.kind = h.kind /\ f.mod = h.mod /\ f.srcWay = h.srcWay
        /\ f.srcTag = h.srcTag /\ f.notFound = h.notFound /\ f.reply = h.reply
        /\ f.target = h.target
    BY ONLY <2>2, <2>4 DEF Frame, Events
  <2>6. /\ g \in Frame /\ g.kind = "find_and_lock" /\ g.pc = "find" /\ g.addr = t /\ g.dir = u
        /\ FlowOK(g)
    BY ONLY <2>2, <2>3, NewFind
  <2>7. Childless(frames, p)
    BY <1>1, <1>4, <1>5, NoChildren
  <2>8. Calling(frames, G, p, q) /\ G[p] = f /\ G[q] = g
    <3>1. G = Call(With(p, f), q, g)
      BY <1>8, <2>1, <2>2 DEF CallFindAndLock, FindFrame
    <3>2. Below(q, p)
      <4>1. y \in PathNames
        BY <2>2 DEF PathNames
      <4> QED BY <2>2, <4>1 DEF Below
    <3> QED BY ONLY p \in DOMAIN frames, <1>5, <2>7, <3>1, <3>2, CallingOne
  <2>9. EvictionAsks(frames, cache, dir, G, p, q)
    <3>1. r # "None" /\ ~fr.notFound /\ cache[fr.mod][fr.srcWay].state # "I"
      BY <1>1, <1>5, <1>6, <1>8, <2>3 DEF EvictFlow
    <3> QED BY ONLY Copies(frames, cache, dir), p \in DOMAIN frames, <1>1, <1>4, <1>5, <1>8, <2>1,
                    <2>4, <2>5, <2>6, <2>7, <2>8, <3>1
            DEF EvictionAsks
  <2> QED BY <1>4, <1>8, <2>2, <2>9, EvictionCalls
<1> QED BY <1>4, <1>7, <1>8

\* Eviction p leaves its block in the lower module, which forgets the higher one.
EvictionTaken(F, c, d, G, c1, d1, p, m, w, i) ==
    /\ Sys(F, d) /\ Copies(F, c, d) /\ Storage(c, d) /\ p \in DOMAIN F /\ Childless(F, p)
    /\ F[p].kind = "evict" /\ Processing(F[p]) /\ ~F[p].error
    /\ DOMAIN G = DOMAIN F /\ (\A q \in DOMAIN F : q # p => G[q] = F[q])
    /\ G[p] \in Frame /\ Alike(F[p], G[p]) /\ G[p].pc = "reply" /\ ~G[p].error
    /\ G[p].reply = F[p].reply
    /\ m = F[p].target /\ w = F[p].way /\ i = F[p].mod
    /\ OffEntry(c, d, c1, d1, m, w) /\ c1[m][w].transient = c[m][w].transient
    /\ \/ c1[m][w] = c[m][w]
       \/ c1[m][w].tag = F[p].tag /\ c1[m][w].state = Written(F[p].state)
    /\ d1[m][w].sharers = d[m][w].sharers \ {i}
    /\ d1[m][w].owner = IF d[m][w].owner = i THEN NoModule ELSE d[m][w].owner

\* The module that gives its block back does not need it any more.
LEMMA EvictedNotNeeded ==
    ASSUME NEW F, NEW c, NEW d, NEW G, NEW c1, NEW d1, NEW p, NEW m, NEW w, NEW i,
           EvictionTaken(F, c, d, G, c1, d1, p, m, w, i), NEW K \in Rights
    PROVE  ~Needs(G, c1, i, F[p].srcTag, K)
<1>0. /\ Sys(F, d) /\ Copies(F, c, d) /\ Storage(c, d) /\ p \in DOMAIN F /\ Childless(F, p)
      /\ F[p].kind = "evict" /\ Processing(F[p]) /\ ~F[p].error
      /\ DOMAIN G = DOMAIN F /\ (\A q \in DOMAIN F : q # p => G[q] = F[q])
      /\ Alike(F[p], G[p]) /\ G[p].pc = "reply" /\ ~G[p].error
      /\ m = F[p].target /\ i = F[p].mod /\ OffEntry(c, d, c1, d1, m, w)
  BY DEF EvictionTaken
<1>1. PICK f, s, g, v, t : f = F[p] /\ s = Front(p) /\ g = F[s] /\ v = f.srcWay /\ t = f.srcTag
  OBVIOUS
<1>2. Calls(F) /\ Leaning(F, c, d) /\ OneWayEach(c, d)
  BY <1>0 DEF Copies
<1>3. /\ s \in DOMAIN F /\ s # p /\ Child(p, s) /\ f \in Frame /\ EvictFlow(f)
      /\ g.kind = "find_and_lock" /\ g.pc = "call" /\ g.mod = i /\ Holds(g) /\ EvictLink(f, g)
  BY <1>0, <1>1, <1>2, EvictionOf
<1>4. f.pc # "evict" /\ f.reply # "None" /\ f.mod # MainMemory /\ f.target = Low[f.mod]
  BY <1>0, <1>1, <1>3 DEF EvictFlow, Processing
<1>5. i \in Modules /\ v \in Ways(i) /\ t \in Tag /\ i # m
  BY <1>0, <1>1, <1>3, <1>4, LowFacts, ZenonT(40) DEF EvictFlow, Frame
<1>6. c[i][v].tag = t /\ c[i][v].state # "I"
  BY <1>0, <1>1, <1>2, <1>3, <1>4 DEF Leaning, LeanOK, EvictedOK
<1>7. ~Has(G, c1, i, t, K)
  <2>1. SUFFICES ASSUME NEW u \in Ways(i), c1[i][u].tag = t, c1[i][u].state \in K, ~Lost(G, i, u)
                 PROVE  FALSE
    BY DEF Has
  <2>2. c[i][u].tag = t /\ c[i][u].state # "I"
    BY <1>0, <1>5, <2>1, RightsFacts DEF OffEntry
  <2>3. InMatches(c, d, i, t, u) /\ InMatches(c, d, i, t, v)
    BY <1>6, <2>2 DEF InMatches
  <2>4. u = v
    BY <1>2, <1>5, <2>3 DEF OneWayEach
  <2>5. G[p].kind = "evict" /\ G[p].mod = i /\ G[p].srcWay = v
    BY <1>0, <1>1 DEF Alike
  <2>6. Lost(G, i, v)
    BY <1>0, <2>5 DEF Lost, IsLost
  <2> QED BY <2>1, <2>4, <2>6
<1>8. ~Due(G, i, t, K)
  <2>1. SUFFICES ASSUME NEW q \in DOMAIN G, Granted(G, q, K), Where(G[q]) = i, G[q].tag = t
                 PROVE  FALSE
    BY DEF Due
  <2>2. Holds(G[q])
    BY <2>1 DEF Granted
  <2>3. q # p
    BY <1>0, <2>2 DEF Holds, IsRequest, IsAccess, Processing, Alike
  <2>4. q \in DOMAIN F /\ G[q] = F[q] /\ Holds(F[q])
    BY <1>0, <2>1, <2>2, <2>3
  <2>5. /\ F[q].way \in Ways(Where(F[q])) /\ InMatches(c, d, Where(F[q]), F[q].tag, F[q].way)
    BY <1>0, <1>2, <2>4, Claims
  <2>6. F[q].way \in Ways(i) /\ InMatches(c, d, i, t, F[q].way) /\ InMatches(c, d, i, t, v)
    BY <1>6, <2>1, <2>4, <2>5 DEF InMatches
  <2>7. F[q].way = v
    BY <1>2, <1>5, <2>6 DEF OneWayEach
  <2>8. Holds(F[s]) /\ Where(F[s]) = i /\ F[s].way = v
    BY <1>0, <1>1, <1>2, <1>3, <1>4, EvictHolder
  <2>9. q = s
    BY <1>0, <1>3, <2>1, <2>4, <2>7, <2>8, OneHolder
  <2>10. G[s] = g
    BY <1>0, <1>1, <1>3
  <2>11. ~Ready(G[s])
    BY <1>3, <2>10 DEF Ready
  <2>12. PICK z \in DOMAIN G : Child(z, s) /\ IsUpDown(G[z])
    BY <2>1, <2>9, <2>11 DEF Granted, Answered
  <2>13. F[s].kind # "invalidate"
    BY <1>1, <1>3
  <2>14. z = p
    BY <1>0, <1>3, <2>12, <2>13, OnlyCall
  <2> QED BY <1>0, <2>12, <2>14 DEF IsUpDown, IsRequest, Alike
<1> QED BY <1>1, <1>7, <1>8 DEF Needs

\* The lower module has the block, and the right to write it, before and after.
LEMMA EvictionStep ==
    ASSUME NEW F, NEW c, NEW d, NEW G, NEW c1, NEW d1, NEW p, NEW m, NEW w, NEW i,
           EvictionTaken(F, c, d, G, c1, d1, p, m, w, i)
    PROVE  Copies(G, c1, d1)
<1>0. /\ Sys(F, d) /\ Copies(F, c, d) /\ Storage(c, d) /\ p \in DOMAIN F /\ Childless(F, p)
      /\ F[p].kind = "evict" /\ Processing(F[p]) /\ ~F[p].error
      /\ DOMAIN G = DOMAIN F /\ (\A q \in DOMAIN F : q # p => G[q] = F[q])
      /\ G[p] \in Frame /\ Alike(F[p], G[p]) /\ G[p].pc = "reply" /\ ~G[p].error
      /\ G[p].reply = F[p].reply
      /\ m = F[p].target /\ w = F[p].way /\ i = F[p].mod
      /\ OffEntry(c, d, c1, d1, m, w) /\ c1[m][w].transient = c[m][w].transient
      /\ \/ c1[m][w] = c[m][w]
         \/ c1[m][w].tag = F[p].tag /\ c1[m][w].state = Written(F[p].state)
      /\ d1[m][w].sharers = d[m][w].sharers \ {i}
      /\ d1[m][w].owner = IF d[m][w].owner = i THEN NoModule ELSE d[m][w].owner
  BY DEF EvictionTaken
<1>1. PICK X, f, s, g, h : X = {p} /\ f = F[p] /\ s = Front(p) /\ g = F[s] /\ h = G[p]
  OBVIOUS
<1>2. Calls(F) /\ Leaning(F, c, d) /\ OneWayEach(c, d)
  BY <1>0 DEF Copies
<1>3. s \in DOMAIN F /\ f \in Frame /\ EvictFlow(f) /\ EvictLink(f, g) /\ ~IsAccess(f)
  BY <1>0, <1>1, <1>2, EvictionOf
<1>4. /\ f.pc # "evict" /\ f.pc # "reply" /\ f.pc # "wait" /\ f.pc # "invalid"
      /\ f.reply # "None" /\ f.mod # MainMemory /\ f.target = Low[f.mod]
      /\ f.tag = f.srcTag /\ f.state # "I"
  BY <1>0, <1>1, <1>3 DEF EvictFlow, Processing
<1>5. Holds(f) /\ Where(f) = m /\ f.kind = "evict"
  BY <1>0, <1>1, <1>3 DEF Holds, Where, EvictFlow
<1>6. m \in Modules /\ w \in Ways(m) /\ i \in Modules /\ f.srcWay \in Ways(i) /\ i # m
  <2>1. m \in Modules /\ w \in Ways(m)
    BY <1>0, <1>1, <1>5, FrameOf
  <2>2. i \in Modules /\ f.srcWay \in Ways(i)
    BY <1>0, <1>1, <1>3, <1>4 DEF EvictFlow, Frame
  <2>3. m = Low[i] /\ i # MainMemory
    BY <1>0, <1>1, <1>4
  <2> QED BY <2>1, <2>2, <2>3, LowFacts
<1>7. HeldOK(f, c[m][w]) /\ c[m][w].state \in BlockStates
  BY <1>0, <1>1, <1>2, <1>5, <1>6, StorageFacts DEF Leaning, LeanOK
<1>8. c[m][w].tag = f.tag /\ c[m][w].state # "I" /\ (f.state \in Exclusive => c[m][w].state \in Exclusive)
  BY <1>4, <1>7 DEF HeldOK
<1>9. c1[m][w].tag = f.tag /\ c1[m][w].state # "I"
      /\ (c1[m][w].state \in Exclusive => c[m][w].state \in Exclusive)
  BY <1>0, <1>1, <1>4, <1>8 DEF Written, Exclusive
<1>10. h.kind = "evict" /\ h.mod = i /\ h.srcWay = f.srcWay /\ h.srcTag = f.srcTag
       /\ h.target = m /\ ~h.notFound
  BY <1>0, <1>1, <1>3 DEF Alike, EvictFlow
<1>11. FlowOK(h)
  <2>1. EvictFlow(h)
    BY <1>0, <1>1, <1>3, <1>4, <1>6, <1>10 DEF EvictFlow, Processing
  <2> QED BY <1>0, <1>1, <1>10, <2>1 DEF FlowOK, IsRequest
<1>12. LeanOK(h, c1, d1)
  <2>1. EvictedOK(f, c[i][f.srcWay], d[i][f.srcWay])
    BY <1>0, <1>1, <1>2, <1>4 DEF Leaning, LeanOK
  <2>2. c1[i][f.srcWay] = c[i][f.srcWay] /\ d1[i][f.srcWay] = d[i][f.srcWay]
    BY <1>0, <1>6 DEF OffEntry
  <2>3. EvictedOK(h, c1[h.mod][h.srcWay], d1[h.mod][h.srcWay])
    BY <1>0, <1>1, <1>4, <1>10, <2>1, <2>2, ZenonT(40) DEF EvictedOK
  <2> QED BY <1>0, <1>1, <1>10, <2>3 DEF LeanOK, Holds, IsAccess, IsRequest, Processing
<1>13. Rest(F, G, X) /\ Linked(G, X) /\ Childless(G, p)
  <2>1. LinkOK(h, g)
    BY <1>0, <1>1, <1>3, <1>4, <1>10 DEF LinkOK, EvictLink, IsRequest
  <2>2. ~IsAccess(F[p]) => LinkOK(G[p], F[Front(p)])
    BY <1>1, <2>1
  <2>3. Rest(F, G, {p}) /\ Linked(G, {p}) /\ Childless(G, p)
    BY ONLY <1>0, <2>2, LinkedOne
  <2> QED BY <1>1, <2>3
<1>14. \A x \in X \cap DOMAIN G : Fits(F, c, G, c1, d1, X, x)
  BY <1>0, <1>1, <1>10, <1>11, <1>12, EvictFits
<1>15. Leaves(F, G, p)
  BY <1>0, <1>1, <1>4 DEF Leaves, IsLost, Revoking, Revokes
<1>16. /\ \A x \in X \cap DOMAIN F : Leaves(F, G, x)
       /\ \A x \in X \cap DOMAIN F : ~IsLost(F[x])
  BY <1>1, <1>15 DEF Leaves
<1>17. AskedEnds(F, G, c, c1)
  BY ONLY <1>13, <1>16, AllAskedKept
<1>18. ASSUME NEW K \in Rights, NEW n \in Modules \ {MainMemory}, NEW t \in Tag,
              Low[n] = m, Needs(G, c1, n, t, K), Serves(F, c[m][w], d[m][w], m, w, n, t, K)
       PROVE  Serves(G, c1[m][w], d1[m][w], m, w, n, t, K)
  <2>1. ~Asked(F, m, w, n)
    BY <1>0, <1>1, <1>2, <1>5, HeldNotAsked
  <2>2. t = f.tag /\ n \in d[m][w].sharers
        /\ (K = Exclusive => d[m][w].sharers = {n} /\ d[m][w].owner = n)
    BY <1>8, <1>18, <2>1 DEF Serves
  <2>3. n # i
    BY <1>1, <1>4, <1>18, <2>2, EvictedNotNeeded
  <2>4. n \in d1[m][w].sharers /\ (K = Exclusive => d1[m][w].sharers = {n} /\ d1[m][w].owner = n)
    BY <1>0, <2>2, <2>3
  <2> QED BY <1>9, <2>2, <2>4 DEF Serves
<1>19. ASSUME NEW K \in Rights, c1[m][w].state \in K
       PROVE  c1[m][w].tag = c[m][w].tag /\ c[m][w].state \in K
  <2>1. K = Valid \/ K = Exclusive
    BY RightsFacts
  <2> QED BY <1>7, <1>8, <1>9, <1>19, <2>1 DEF Valid
<1>20. /\ p \in DOMAIN F /\ Holds(F[p]) /\ m = Where(F[p]) /\ p \in X
       /\ c1[m][w].state # "I" => c1[m][w].tag = F[p].tag
       /\ d1[m][w].sharers \subseteq d[m][w].sharers
       /\ d1[m][w].owner \in {d[m][w].owner, NoModule}
  BY <1>0, <1>1, <1>5, <1>9
<1> QED BY ONLY <1>0, <1>13, <1>14, <1>16, <1>17, <1>18, <1>19, <1>20, HolderStep, SMTT(30)

\* evict_process and evict_process_noncoherent
LEMMA EvictProcessCopies ==
    ASSUME Inv, Inv', Copies(frames, cache, dir), NEW p \in DOMAIN frames, EvictProcess(p)
    PROVE  Copies(frames, cache, dir)'
<1>1. PICK fr, i, m, w : fr = frames[p] /\ i = fr.mod /\ m = fr.target /\ w = fr.way
  OBVIOUS
<1>2. PICK f, e, E, x, X : /\ f = [fr EXCEPT !.pc = "reply", !.data = FALSE]
                           /\ e = Without(dir[m][w], {i}) /\ E = With(p, f)
                           /\ x = Written(fr.state) /\ X = {p}
  OBVIOUS
<1>3. /\ fr.kind = "evict" /\ Processing(fr) /\ ~fr.error /\ UnlockEntry(m, w, e, E)
      /\ cache' = cache \/ setBlock(m, w, fr.tag, x)
  BY <1>1, <1>2 DEF EvictProcess, Processing
<1>4. PICK F, c, d, G, c1, d1 : /\ F = frames /\ c = cache /\ d = dir /\ G = frames'
                                /\ c1 = cache' /\ d1 = dir'
  OBVIOUS
<1>5. /\ Sys(F, d) /\ Copies(F, c, d) /\ Storage(c, d) /\ Calls(F) /\ Tree(F) /\ p \in DOMAIN F
      /\ fr \in Frame
  <2>1. /\ Sys(F, d) /\ Copies(F, c, d) /\ Storage(c, d) /\ Calls(F) /\ Tree(F) /\ p \in DOMAIN F
    BY <1>4 DEF Inv, Sys, Copies
  <2> QED BY <1>1, <1>3, <1>4, <2>1, EvictionOf
<1>6. Holds(fr) /\ Where(fr) = m /\ fr.pc # "wait"
  <2>1. EvictFlow(fr)
    BY <1>1, <1>3, <1>4, <1>5, EvictionOf
  <2> QED BY <1>1, <1>3, <2>1 DEF Holds, Where, Processing, EvictFlow
<1>7. m \in Modules /\ w \in Ways(m)
  BY <1>1, <1>4, <1>5, <1>6, FrameOf
<1>8. dir[m][w] \in Entry /\ MainMemory \notin dir[m][w].sharers /\ dir[m][w].owner # MainMemory
  BY <1>1, <1>3, <1>4, <1>5, <1>6, HeldEntry
<1>9. /\ e \in Entry /\ e.sharers = dir[m][w].sharers \ {i}
      /\ e.owner = IF dir[m][w].owner = i THEN NoModule ELSE dir[m][w].owner
  <2>1. e \in Entry
    BY <1>2, <1>8, EntryUpdates, HierarchyAssumption
  <2>2. PICK b : b = dir[m][w]
    OBVIOUS
  <2>3. e = Without(b, {i}) /\ b \in Entry
    BY <1>2, <1>8, <2>2
  <2>4. e.sharers = b.sharers \ {i} /\ e.owner = (IF b.owner = i THEN NoModule ELSE b.owner)
    BY ONLY <2>3 DEF Without, Entry
  <2> QED BY <2>1, <2>2, <2>4
<1>10. /\ f \in Frame /\ f.pc = "reply" /\ Alike(fr, f) /\ f.error = fr.error /\ f.reply = fr.reply
  BY ONLY <1>2, <1>5 DEF Frame, Events, Alike
<1>11. DOMAIN E = DOMAIN F /\ E[p] = f /\ (\A q \in DOMAIN F : q # p => E[q] = F[q])
  BY <1>2, <1>4, WithFacts
<1>12. /\ G = WakeupAll(E, m, w) /\ d1[m][w].sharers = e.sharers /\ d1[m][w].owner = e.owner
       /\ OffEntry(cache, dir, cache, d1, m, w)
  BY <1>1, <1>3, <1>4, <1>6, <1>9, UnlockFacts
<1>13. PICK W : /\ Sys(W, d) /\ Copies(W, c, d) /\ DOMAIN W = DOMAIN F /\ DOMAIN G = DOMAIN E
                /\ W[p] = F[p] /\ G[p] = E[p]
                /\ \A q \in DOMAIN F : q # p => G[q] = W[q]
  <2>1. Rest(F, E, X)
    BY <1>2, <1>11 DEF Rest
  <2>2. \A z \in X : /\ z \in DOMAIN F => F[z].pc # "wait"
                     /\ z \in DOMAIN E => E[z].pc # "wait"
    BY <1>1, <1>2, <1>4, <1>6, <1>10, <1>11
  <2>3. G = WakeupAll(E, m, w)
    BY <1>12
  <2>4. PICK W : /\ Sys(W, d) /\ Copies(W, c, d) /\ DOMAIN W = DOMAIN F /\ DOMAIN G = DOMAIN E
                 /\ \A z \in X : /\ z \in DOMAIN F => W[z] = F[z]
                                 /\ z \in DOMAIN E => G[z] = E[z]
                 /\ \A q \in DOMAIN F : q \notin X => G[q] = W[q]
    BY ONLY <1>5, <2>1, <2>2, <2>3, WokenStep
  <2> QED BY ONLY <1>2, <1>5, <1>11, <2>4
<1>14. /\ \A n \in Modules : \A v \in Ways(n) : n # m \/ v # w => c1[n][v] = c[n][v]
       /\ c1[m][w].transient = c[m][w].transient
       /\ c1[m][w] = c[m][w] \/ (c1[m][w].tag = fr.tag /\ c1[m][w].state = x)
  <2>1. CASE cache' = cache
    BY <1>4, <2>1
  <2>2. CASE setBlock(m, w, fr.tag, x)
    <3>1. PICK t : t = fr.tag
      OBVIOUS
    <3>2. c1 = BlockTo(c, m, w, t, x)
      BY <1>4, <2>2, <3>1 DEF setBlock, BlockTo
    <3>3. /\ c1[m][w].tag = t /\ c1[m][w].state = x /\ c1[m][w].transient = c[m][w].transient
          /\ \A n \in Modules : \A v \in Ways(n) : n # m \/ v # w => c1[n][v] = c[n][v]
      BY ONLY <1>5, <1>7, <3>2, BlockSet
    <3> QED BY <3>1, <3>3
  <2> QED BY <1>3, <2>1, <2>2
<1>15. OffEntry(c, d, c1, d1, m, w)
  BY <1>4, <1>12, <1>14 DEF OffEntry
<1>16. Childless(W, p)
  <2>1. Childless(F, p)
    BY <1>1, <1>3, <1>4, <1>5, NoChildren DEF Processing
  <2> QED BY <1>13, <2>1 DEF Childless
<1>17. /\ p \in DOMAIN W /\ DOMAIN G = DOMAIN W /\ (\A q \in DOMAIN W : q # p => G[q] = W[q])
       /\ W[p] = fr /\ G[p] = f
       /\ d1[m][w].sharers = d[m][w].sharers \ {i}
       /\ d1[m][w].owner = IF d[m][w].owner = i THEN NoModule ELSE d[m][w].owner
  BY <1>1, <1>4, <1>5, <1>9, <1>11, <1>12, <1>13
<1>18. EvictionTaken(W, c, d, G, c1, d1, p, m, w, i)
  BY ONLY <1>1, <1>2, <1>3, <1>5, <1>10, <1>13, <1>14, <1>15, <1>16, <1>17 DEF EvictionTaken
<1>19. Copies(G, c1, d1)
  BY ONLY <1>18, EvictionStep
<1> QED BY <1>4, <1>19
-----------------------------------------------------------------------------
(* Invalidations. *)

\* Sharers leave an entry: what a frame knows of the entry stays true.
LEMMA LeanShrinks ==
    ASSUME NEW F, NEW c, NEW d, Sys(F, d), Calls(F), Leaning(F, c, d), NEW q \in DOMAIN F,
           NEW d1, NEW m, NEW w, OffEntry(c, d, c, d1, m, w),
           d1[m][w].sharers \subseteq d[m][w].sharers
    PROVE  LeanOK(F[q], c, d1)
<1>1. PICK f : f = F[q]
  OBVIOUS
<1>2. LeanOK(f, c, d) /\ f \in Frame /\ FrameOK(f) /\ FlowOK(f) /\ f.mod \in Modules
  BY <1>1, FrameOf DEF Leaning, Calls
<1>3. ASSUME NEW n \in Modules, NEW v \in Ways(n) PROVE d1[n][v].sharers \subseteq d[n][v].sharers
  BY DEF OffEntry
<1>4. ASSUME f.kind = "evict", f.pc # "evict"
      PROVE  EvictedOK(f, c[f.mod][f.srcWay], d1[f.mod][f.srcWay])
  <2>1. f.srcWay \in Ways(f.mod)
    BY <1>2, <1>4 DEF FlowOK, EvictFlow
  <2>2. EvictedOK(f, c[f.mod][f.srcWay], d[f.mod][f.srcWay])
    BY <1>2, <1>4 DEF LeanOK
  <2>3. d1[f.mod][f.srcWay].sharers \subseteq d[f.mod][f.srcWay].sharers
    BY <1>2, <1>3, <2>1
  <2> QED BY <2>2, <2>3 DEF EvictedOK
<1>5. ASSUME f.kind = "invalidate", f.pc = "finish"
      PROVE  InvalidatedOK(f, c[f.mod][f.way], d1[f.mod][f.way])
  <2>1. f.way \in Ways(f.mod)
    BY <1>2, <1>5 DEF FrameOK, InvalidateOK
  <2>2. InvalidatedOK(f, c[f.mod][f.way], d[f.mod][f.way])
    BY <1>2, <1>5 DEF LeanOK
  <2>3. d1[f.mod][f.way].sharers \subseteq d[f.mod][f.way].sharers
    BY <1>2, <1>3, <2>1
  <2> QED BY <2>2, <2>3 DEF InvalidatedOK
<1> QED BY <1>1, <1>2, <1>4, <1>5 DEF LeanOK

\* Invalidation p takes the sharers of S out of the entry.
SharersDropped(F, c, d, d1, p, S, m, w, t) ==
    /\ F[p].kind = "invalidate" /\ F[p].pc = "invalidate" /\ m = F[p].mod /\ w = F[p].way
    /\ t = c[m][w].tag /\ S = d[m][w].sharers \ {F[p].except}
    /\ OffEntry(c, d, c, d1, m, w) /\ d1[m][w].sharers = d[m][w].sharers \ S
    /\ d1[m][w].owner = (IF d[m][w].owner \in S THEN NoModule ELSE d[m][w].owner)
    /\ d1[m][w].lock = d[m][w].lock

\* It also calls the request A[i], with its find-and-lock chain B[i], for each sharer i.
SharersAsked(F, c, d, G, d1, p, S, m, w, t, A, B) ==
    /\ Sys(F, d) /\ Copies(F, c, d) /\ p \in DOMAIN F /\ Childless(F, p)
    /\ SharersDropped(F, c, d, d1, p, S, m, w, t)
    /\ SameLink(F[p], G[p]) /\ G[p] \in Frame /\ G[p].pc = "finish" /\ G[p].tag = t
    /\ G[p].state = c[m][w].state
    /\ DOMAIN F \subseteq DOMAIN G /\ (\A q \in DOMAIN F : q # p => G[q] = F[q])
    /\ \A q \in DOMAIN G \ DOMAIN F : \E i \in S : q = A[i] \/ q = B[i]
    /\ \A i \in S :
          /\ Child(A[i], p) /\ Child(B[i], A[i])
          /\ A[i] \in DOMAIN G \ DOMAIN F /\ B[i] \in DOMAIN G \ DOMAIN F
          /\ G[A[i]] \in Frame /\ G[A[i]].kind = "write_request" /\ G[A[i]].dir = "downup"
          /\ G[A[i]].pc = "call" /\ G[A[i]].way = 0 /\ ~G[A[i]].error /\ ~G[A[i]].notFound
          /\ G[A[i]].mod = m /\ G[A[i]].target = i /\ G[A[i]].addr = t
          /\ G[B[i]] \in Frame /\ G[B[i]].kind = "find_and_lock" /\ G[B[i]].pc = "find"
          /\ FlowOK(G[B[i]]) /\ G[B[i]].addr = t /\ G[B[i]].blocking

\* The changed frames agree with their callers.
LEMMA AskedFrames ==
    ASSUME NEW F, NEW c, NEW d, NEW G, NEW d1, NEW p, NEW S, NEW m, NEW w, NEW t, NEW A, NEW B,
           SharersAsked(F, c, d, G, d1, p, S, m, w, t, A, B),
           NEW X, X = (DOMAIN G \ DOMAIN F) \cup {p}
    PROVE  /\ Rest(F, G, X) /\ Linked(G, X)
           /\ \A x \in X \cap DOMAIN G : ~IsUpDown(G[x])
           /\ \A x \in X, q \in DOMAIN G : Child(q, x) => q \in X
<1>0. /\ Sys(F, d) /\ Calls(F) /\ p \in DOMAIN F /\ Childless(F, p)
      /\ F[p].kind = "invalidate" /\ m = F[p].mod
      /\ SameLink(F[p], G[p]) /\ G[p].tag = t
      /\ DOMAIN F \subseteq DOMAIN G /\ (\A q \in DOMAIN F : q # p => G[q] = F[q])
      /\ \A q \in DOMAIN G \ DOMAIN F : \E i \in S : q = A[i] \/ q = B[i]
  BY DEF SharersAsked, SharersDropped, Copies
<1>1. ASSUME NEW i \in S
      PROVE  /\ Child(A[i], p) /\ Child(B[i], A[i]) /\ A[i] \notin DOMAIN F /\ B[i] \notin DOMAIN F
             /\ A[i] \in DOMAIN G /\ B[i] \in DOMAIN G
             /\ G[A[i]].kind = "write_request" /\ G[A[i]].dir = "downup"
             /\ G[A[i]].mod = m /\ G[A[i]].addr = t
             /\ G[B[i]].kind = "find_and_lock" /\ G[B[i]].addr = t /\ G[B[i]].blocking
  BY DEF SharersAsked
<1>2. G[p].kind = "invalidate" /\ G[p].mod = m
  BY <1>0 DEF SameLink
<1>3. ASSUME NEW i \in S PROVE ~IsUpDown(G[A[i]]) /\ ~IsUpDown(G[B[i]])
  BY <1>1 DEF IsUpDown, IsRequest
<1>4. \A x \in X \cap DOMAIN G : ~IsUpDown(G[x])
  BY <1>0, <1>2, <1>3 DEF IsUpDown, IsRequest
<1>5. ASSUME NEW q \in DOMAIN F, NEW x, Child(q, x) PROVE x \in DOMAIN F /\ x # p /\ x \notin X
  <2>1. x \in DOMAIN F
    BY <1>0, <1>5, ChildFacts DEF Sys, Child
  <2>2. x # p
    BY <1>0, <1>5 DEF Childless
  <2> QED BY <2>1, <2>2
<1>6. Rest(F, G, X)
  BY <1>0 DEF Rest
<1>7. \A x \in X, q \in DOMAIN G : Child(q, x) => q \in X
  BY <1>5
<1>8. ASSUME NEW i \in S PROVE LinkOK(G[A[i]], G[p]) /\ LinkOK(G[B[i]], G[A[i]])
  <2>1. RequestLink(G[A[i]], G[p])
    BY <1>0, <1>1, <1>2 DEF RequestLink, Revokes
  <2>2. FindLink(G[B[i]], G[A[i]])
    BY <1>1 DEF FindLink, IsRequest
  <2> QED BY <1>1, <2>1, <2>2 DEF LinkOK, IsRequest
<1>9. ASSUME NEW q \in DOMAIN G \ DOMAIN F, NEW x, Child(q, x) PROVE x \in DOMAIN G /\ LinkOK(G[q], G[x])
  <2>1. PICK i \in S : q = A[i] \/ q = B[i]
    BY <1>0
  <2>2. (q = A[i] => x = p) /\ (q = B[i] => x = A[i])
    BY <1>1, <1>9 DEF Child
  <2> QED BY <1>0, <1>1, <1>8, <2>1, <2>2
<1>10. ASSUME NEW x, Child(p, x) PROVE x \in DOMAIN F /\ x # p /\ LinkOK(G[p], F[x])
  <2>1. x \in DOMAIN F /\ x # p
    BY <1>0, <1>5, <1>10
  <2>2. LinkOK(F[p], F[x])
    BY <1>0, <1>10, <2>1 DEF Calls
  <2> QED BY <1>0, <2>1, <2>2, SameLinkOK
<1>11. Linked(G, X)
  <2> SUFFICES ASSUME NEW x \in X \cap DOMAIN G, NEW q \in DOMAIN G
               PROVE  /\ Child(q, x) => LinkOK(G[q], G[x])
                      /\ Child(x, q) => LinkOK(G[x], G[q])
    BY DEF Linked
  <2>1. Child(q, x) => LinkOK(G[q], G[x])
    BY <1>5, <1>9
  <2>2. Child(x, q) => LinkOK(G[x], G[q])
    BY <1>0, <1>9, <1>10
  <2> QED BY <2>1, <2>2
<1> QED BY <1>4, <1>6, <1>7, <1>11

\* The sharers leave the entry, and are asked to give their blocks up.
LEMMA SharersLeave ==
    ASSUME NEW F, NEW c, NEW d, NEW G, NEW d1, NEW p, NEW S, NEW m, NEW w, NEW t, NEW A, NEW B,
           SharersAsked(F, c, d, G, d1, p, S, m, w, t, A, B)
    PROVE  Copies(G, c, d1)
<1>0. /\ Sys(F, d) /\ Copies(F, c, d) /\ p \in DOMAIN F /\ Childless(F, p)
      /\ F[p].kind = "invalidate" /\ F[p].pc = "invalidate" /\ m = F[p].mod /\ w = F[p].way
      /\ t = c[m][w].tag /\ S = d[m][w].sharers \ {F[p].except}
      /\ OffEntry(c, d, c, d1, m, w) /\ d1[m][w].sharers = d[m][w].sharers \ S
      /\ d1[m][w].owner = (IF d[m][w].owner \in S THEN NoModule ELSE d[m][w].owner)
      /\ d1[m][w].lock = d[m][w].lock
      /\ SameLink(F[p], G[p]) /\ G[p] \in Frame /\ G[p].pc = "finish" /\ G[p].tag = t
      /\ G[p].state = c[m][w].state
      /\ DOMAIN F \subseteq DOMAIN G /\ (\A q \in DOMAIN F : q # p => G[q] = F[q])
      /\ \A q \in DOMAIN G \ DOMAIN F : \E i \in S : q = A[i] \/ q = B[i]
  BY DEF SharersAsked, SharersDropped
<1>1. ASSUME NEW i \in S
      PROVE  /\ Child(A[i], p) /\ A[i] \in DOMAIN G
             /\ G[A[i]] \in Frame /\ G[A[i]].kind = "write_request" /\ G[A[i]].dir = "downup"
             /\ G[A[i]].pc = "call" /\ G[A[i]].way = 0 /\ ~G[A[i]].error /\ ~G[A[i]].notFound
             /\ G[A[i]].mod = m /\ G[A[i]].target = i
             /\ G[B[i]] \in Frame /\ G[B[i]].kind = "find_and_lock" /\ G[B[i]].pc = "find"
             /\ FlowOK(G[B[i]])
  BY DEF SharersAsked
<1>2. PICK X : X = (DOMAIN G \ DOMAIN F) \cup {p}
  OBVIOUS
<1>3. /\ Rest(F, G, X) /\ Linked(G, X)
      /\ \A x \in X \cap DOMAIN G : ~IsUpDown(G[x])
      /\ \A x \in X, q \in DOMAIN G : Child(q, x) => q \in X
  BY <1>2, AskedFrames
<1>4. Calls(F) /\ Leaning(F, c, d) /\ OneWayEach(c, d) /\ Above(d)
  BY <1>0 DEF Copies
<1>5. m \in Modules /\ w \in Ways(m)
  BY <1>0, FrameOf DEF FrameOK, InvalidateOK
<1>6. /\ G[p].kind = "invalidate" /\ G[p].mod = m /\ G[p].way = w /\ G[p].except = F[p].except
  BY <1>0 DEF SameLink
<1>7. ASSUME NEW x \in X, x \in DOMAIN G PROVE \A q \in DOMAIN G : Child(q, x) => ~IsUpDown(G[q])
  BY <1>3
<1>8. ASSUME NEW x \in X, x \in DOMAIN G, ~Ready(G[x]), ~IsUpDown(G[x])
      PROVE  Backed(F, c, G, x) /\ Shows(F, G, X, x)
  BY <1>7, <1>8, NotAnswered DEF Shows
<1>9. Fits(F, c, G, c, d1, X, p)
  <2>1. FlowOK(G[p])
    BY <1>0, <1>6 DEF FlowOK, IsRequest
  <2>2. InvalidatedOK(G[p], c[m][w], d1[m][w])
    BY <1>0, <1>6 DEF InvalidatedOK
  <2>3. LeanOK(G[p], c, d1)
    BY <1>0, <1>6, <2>2 DEF LeanOK, Holds, IsAccess, IsRequest
  <2>4. ~Cleared(G, p) /\ ~Ready(G[p]) /\ ReadQuiet(G[p], F, c)
    BY <1>0, <1>6 DEF Cleared, Ready, ReadQuiet
  <2>5. Backed(F, c, G, p) /\ Shows(F, G, X, p)
    BY <1>0, <1>2, <1>3, <1>8, <2>4
  <2> QED BY <1>0, <2>1, <2>3, <2>4, <2>5 DEF Fits
<1>10. ASSUME NEW i \in S, A[i] \in X PROVE Fits(F, c, G, c, d1, X, A[i])
  <2>1. Low[i] = m
    <3>1. i \in d[m][w].sharers
      BY <1>0
    <3> QED BY ONLY <1>4, <1>5, <3>1 DEF Above
  <2>2. FlowOK(G[A[i]])
    BY <1>1, <2>1 DEF FlowOK, RequestFlow, IsRequest
  <2>3. LeanOK(G[A[i]], c, d1)
    BY <1>1 DEF LeanOK, Holds, IsAccess, IsRequest
  <2>4. ~Cleared(G, A[i])
    BY <1>1, <1>7, <1>10 DEF Cleared
  <2>5. ~Ready(G[A[i]]) /\ ReadQuiet(G[A[i]], F, c)
    BY <1>1 DEF Ready, ReadQuiet
  <2>6. Backed(F, c, G, A[i]) /\ Shows(F, G, X, A[i])
    BY <1>1, <1>3, <1>8, <1>10, <2>5
  <2> QED BY <1>1, <2>2, <2>3, <2>4, <2>5, <2>6 DEF Fits
<1>11. ASSUME NEW i \in S, B[i] \in X, B[i] \in DOMAIN G PROVE Fits(F, c, G, c, d1, X, B[i])
  <2>1. PICK x : x = B[i]
    OBVIOUS
  <2>2. ~Holds(G[x]) /\ G[x] \in Frame /\ G[x].kind = "find_and_lock" /\ FlowOK(G[x])
    BY <1>1, <2>1 DEF Holds, IsAccess, IsRequest
  <2>3. \A q \in DOMAIN G : Child(q, x) => ~IsUpDown(G[q])
    BY <1>7, <1>11, <2>1
  <2>4. Fits(F, c, G, c, d1, X, x)
    BY ONLY <2>2, <2>3, FindFits
  <2> QED BY <2>1, <2>4
<1>12. \A x \in X \cap DOMAIN G : Fits(F, c, G, c, d1, X, x)
  <2> SUFFICES ASSUME NEW x \in X \cap DOMAIN G PROVE Fits(F, c, G, c, d1, X, x)
    OBVIOUS
  <2>1. CASE x = p
    BY <1>9, <2>1
  <2>2. CASE x # p
    <3>1. PICK i \in S : x = A[i] \/ x = B[i]
      BY <1>0, <1>2, <2>2
    <3>2. CASE x = A[i]
      BY <1>10, <3>2
    <3>3. CASE x = B[i]
      BY <1>11, <3>3
    <3> QED BY <3>1, <3>2, <3>3
  <2> QED BY <2>1, <2>2
<1>13. \A q \in DOMAIN F \ X : Leans(F[q], m, w) => LeanOK(F[q], c, d1)
  BY <1>0, <1>4, LeanShrinks
<1>14. X \cap DOMAIN F = {p}
  BY <1>0, <1>2
<1>15. ~IsLost(F[p]) /\ Leaves(F, G, p)
  BY <1>0, <1>6 DEF IsLost, Leaves, Revoking, Revokes
<1>16. OneWayEach(c, d1)
  <2>1. \A u \in Tag : InMatches(c, d1, m, u, w) => InMatches(c, d, m, u, w)
    BY <1>0 DEF InMatches
  <2> QED BY ONLY <1>0, <1>4, <1>5, <2>1, OneWayKept
<1>17. Above(d1)
  <2>1. (\A i \in d1[m][w].sharers : Low[i] = m) /\ (d1[m][w].owner # NoModule => Low[d1[m][w].owner] = m)
    <3>1. /\ \A i \in d[m][w].sharers : Low[i] = m
          /\ d[m][w].owner # NoModule => Low[d[m][w].owner] = m
      BY <1>4, <1>5 DEF Above
    <3>2. d1[m][w].sharers \subseteq d[m][w].sharers
      BY <1>0
    <3>3. d1[m][w].owner \in {NoModule, d[m][w].owner}
      BY <1>0
    <3> QED BY ONLY <3>1, <3>2, <3>3
  <2> QED BY ONLY <1>0, <1>4, <2>1, AboveKept
<1>18. ASSUME NEW n, NEW v, Lost(F, n, v) PROVE Lost(G, n, v)
  BY <1>3, <1>14, <1>15, <1>18, LostKept
<1>19. AskedEnds(F, G, c, c)
  <2>1. \A x \in X \cap DOMAIN F : Leaves(F, G, x)
    BY <1>14, <1>15
  <2> QED BY ONLY <1>3, <2>1, AllAskedKept
<1>20. ASSUME NEW n, Asked(F, m, w, n) PROVE Asked(G, m, w, n)
  <2>1. \A x \in X \cap DOMAIN F : Leaves(F, G, x)
    BY <1>14, <1>15
  <2> QED BY ONLY <1>3, <1>20, <2>1, AskedKept
<1>21. ASSUME NEW n \in S PROVE Asked(G, m, w, n)
  <2>1. Revoking(G[A[n]]) /\ G[A[n]].target = n /\ Child(A[n], p) /\ A[n] \in DOMAIN G /\ p \in DOMAIN G
    BY <1>0, <1>1 DEF Revoking, Revokes
  <2> QED BY <1>6, <2>1 DEF Asked
<1>22. \A K \in Rights :
          m # MainMemory /\ w \in Ways(m) /\ c[m][w].state \in K /\ ~Lost(G, m, w) =>
             Needs(F, c, m, c[m][w].tag, K)
  BY <1>18 DEF Needs, Has
<1>23. ASSUME NEW K \in Rights, NEW n \in Modules \ {MainMemory}, NEW u \in Tag,
              Serves(F, c[m][w], d[m][w], m, w, n, u, K)
       PROVE  Serves(G, c[m][w], d1[m][w], m, w, n, u, K)
  <2>1. CASE Asked(F, m, w, n) \/ n \in S
    BY <1>20, <1>21, <1>23, <2>1 DEF Serves
  <2>2. CASE ~Asked(F, m, w, n) /\ n \notin S
    <3>1. n \in d[m][w].sharers /\ (K = Exclusive => d[m][w].sharers = {n} /\ d[m][w].owner = n)
      BY <1>23, <2>2 DEF Serves
    <3>2. n \in d1[m][w].sharers
      BY <1>0, <2>2, <3>1
    <3>3. K = Exclusive => d1[m][w].sharers = {n} /\ d1[m][w].owner = n
      BY <1>0, <2>2, <3>1, <3>2
    <3> QED BY <1>23, <3>2, <3>3 DEF Serves
  <2> QED BY <2>1, <2>2
<1> QED BY ONLY <1>0, <1>3, <1>5, <1>12, <1>13, <1>16, <1>17, <1>18, <1>19, <1>22, <1>23, EntryStep

\* Invalidation p takes the reply q of a sharer, and writes the data of the sharer.
ReplyTaken(F, c, d, G, c1, p, q, m, w) ==
    /\ Sys(F, d) /\ Copies(F, c, d) /\ Storage(c, d) /\ p \in DOMAIN F
    /\ F[p].kind = "invalidate" /\ F[p].pc = "finish" /\ m = F[p].mod /\ w = F[p].way
    /\ q \in DOMAIN F /\ F[q].kind = "write_request" /\ F[q].pc = "reply"
    /\ DOMAIN G = DOMAIN F \ {q} /\ (\A r \in DOMAIN G : G[r] = F[r])
    /\ OffEntry(c, d, c1, d, m, w) /\ c1[m][w].transient = c[m][w].transient
    /\ \/ c1[m][w] = c[m][w]
       \/ c1[m][w].tag = F[p].tag /\ c1[m][w].state = Written(F[p].state)

\* What the others take the block for stays true.
SameBlock(b, b1) ==
    /\ b1.tag = b.tag /\ b1.transient = b.transient
    /\ b1.state = "I" <=> b.state = "I"
    /\ b1.state \in Exclusive <=> b.state \in Exclusive

\* A frame that works on an entry sees no difference.
LEMMA LeanSame ==
    ASSUME NEW F, NEW c, NEW d, Sys(F, d), Calls(F), Leaning(F, c, d), NEW q \in DOMAIN F,
           F[q].kind = "find_and_lock" => F[q].pc = "call",
           NEW c1, \A n \in Modules : \A v \in Ways(n) : SameBlock(c[n][v], c1[n][v])
    PROVE  LeanOK(F[q], c1, d)
<1>1. PICK f : f = F[q]
  OBVIOUS
<1>2. /\ LeanOK(f, c, d) /\ FlowOK(f) /\ FrameOK(f) /\ f.mod \in Modules /\ Where(f) \in Modules
      /\ Holds(f) => f.way \in Ways(Where(f))
  BY <1>1, FrameOf DEF Leaning, Calls
<1>3. ASSUME Holds(f), f.kind # "find_and_lock" PROVE HeldOK(f, c1[Where(f)][f.way])
  <2>1. HeldOK(f, c[Where(f)][f.way])
    BY <1>2, <1>3 DEF LeanOK
  <2>2. SameBlock(c[Where(f)][f.way], c1[Where(f)][f.way])
    BY <1>2, <1>3
  <2> QED BY <2>1, <2>2 DEF HeldOK, SameBlock
<1>4. ASSUME Holds(f), f.kind = "find_and_lock" PROVE FoundOK(f, c1[f.mod][f.way])
  <2>1. FoundOK(f, c[f.mod][f.way])
    BY <1>2, <1>4 DEF LeanOK
  <2>2. SameBlock(c[f.mod][f.way], c1[f.mod][f.way])
    BY <1>2, <1>4 DEF Where, IsAccess, IsRequest
  <2>3. f.pc = "call" /\ ~f.hit
    BY <1>1, <1>2, <1>4 DEF FlowOK, FindFlow
  <2> QED BY <2>1, <2>2, <2>3 DEF FoundOK, SameBlock
<1>5. ASSUME f.kind = "evict", f.pc # "evict"
      PROVE  EvictedOK(f, c1[f.mod][f.srcWay], d[f.mod][f.srcWay])
  <2>1. EvictedOK(f, c[f.mod][f.srcWay], d[f.mod][f.srcWay])
    BY <1>2, <1>5 DEF LeanOK
  <2>2. f.srcWay \in Ways(f.mod)
    BY <1>2, <1>5 DEF FlowOK, EvictFlow
  <2>3. SameBlock(c[f.mod][f.srcWay], c1[f.mod][f.srcWay])
    BY <1>2, <2>2
  <2> QED BY <2>1, <2>3 DEF EvictedOK, SameBlock
<1>6. ASSUME f.kind = "invalidate", f.pc = "finish"
      PROVE  InvalidatedOK(f, c1[f.mod][f.way], d[f.mod][f.way])
  <2>1. InvalidatedOK(f, c[f.mod][f.way], d[f.mod][f.way])
    BY <1>2, <1>6 DEF LeanOK
  <2>2. f.way \in Ways(f.mod)
    BY <1>2, <1>6 DEF FrameOK, InvalidateOK
  <2>3. SameBlock(c[f.mod][f.way], c1[f.mod][f.way])
    BY <1>2, <2>2
  <2> QED BY <2>1, <2>3 DEF InvalidatedOK, SameBlock
<1> QED BY <1>1, <1>3, <1>4, <1>5, <1>6 DEF LeanOK

\* The data of a sharer does not change who has the block.
LEMMA ReplyCopies ==
    ASSUME NEW F, NEW c, NEW d, NEW G, NEW c1, NEW p, NEW q, NEW m, NEW w,
           ReplyTaken(F, c, d, G, c1, p, q, m, w)
    PROVE  Copies(G, c1, d)
<1>0. /\ Sys(F, d) /\ Copies(F, c, d) /\ Storage(c, d) /\ p \in DOMAIN F
      /\ F[p].kind = "invalidate" /\ F[p].pc = "finish" /\ m = F[p].mod /\ w = F[p].way
      /\ q \in DOMAIN F /\ F[q].kind = "write_request" /\ F[q].pc = "reply"
      /\ DOMAIN G = DOMAIN F \ {q} /\ (\A r \in DOMAIN G : G[r] = F[r])
      /\ OffEntry(c, d, c1, d, m, w) /\ c1[m][w].transient = c[m][w].transient
      /\ \/ c1[m][w] = c[m][w]
         \/ c1[m][w].tag = F[p].tag /\ c1[m][w].state = Written(F[p].state)
  BY DEF ReplyTaken
<1>1. PICK X : X = {q}
  OBVIOUS
<1>2. Calls(F) /\ Leaning(F, c, d) /\ OneWayEach(c, d) /\ Above(d)
  BY <1>0 DEF Copies
<1>3. m \in Modules /\ w \in Ways(m)
  BY <1>0, FrameOf DEF FrameOK, InvalidateOK
<1>4. c[m][w].state \in BlockStates
  BY <1>0, <1>3, StorageFacts
<1>5. SameBlock(c[m][w], c1[m][w])
  <2>1. InvalidatedOK(F[p], c[m][w], d[m][w])
    BY <1>0, <1>2 DEF Leaning, LeanOK
  <2>2. CASE c1[m][w].tag = F[p].tag /\ c1[m][w].state = Written(F[p].state)
    BY <1>0, <2>1, <2>2 DEF SameBlock, InvalidatedOK, Written, Exclusive
  <2> QED BY <1>0, <2>2 DEF SameBlock
<1>6. \A n \in Modules : \A v \in Ways(n) : SameBlock(c[n][v], c1[n][v])
  BY <1>0, <1>5 DEF OffEntry, SameBlock
<1>7. Rest(F, G, X)
  BY <1>0, <1>1 DEF Rest
<1>8. X \cap DOMAIN G = {} /\ X \cap DOMAIN F = {q}
  BY <1>0, <1>1
<1>9. Linked(G, X) /\ \A x \in X \cap DOMAIN G : Fits(F, c, G, c1, d, X, x)
  BY <1>8 DEF Linked
<1>10. ASSUME NEW r \in DOMAIN F \ X, Leans(F[r], m, w) PROVE LeanOK(F[r], c1, d)
  <2>1. F[r].kind = "find_and_lock" => F[r].pc = "call"
    <3>1. Leans(F[r], F[p].mod, F[p].way)
      BY <1>0, <1>10
    <3>2. \/ r = p
          \/ F[r].kind = "evict" \/ F[r].kind = "write_request"
          \/ F[r].kind = "find_and_lock" /\ F[r].pc = "call"
      BY <1>0, <1>2, <3>1, LoneInvalidate
    <3> QED BY <1>0, <3>2
  <2> QED BY <1>0, <1>2, <1>6, <2>1, LeanSame
<1>11. \A x \in X \cap DOMAIN F : ~IsLost(F[x]) /\ Leaves(F, G, x)
  BY <1>0, <1>8 DEF IsLost, Leaves, Revoking
<1>12. OneWayEach(c1, d)
  <2>1. \A u \in Tag : InMatches(c1, d, m, u, w) => InMatches(c, d, m, u, w)
    BY <1>5 DEF InMatches, SameBlock
  <2> QED BY ONLY <1>0, <1>2, <1>3, <2>1, OneWayKept
<1>13. ASSUME NEW n, NEW v, Lost(F, n, v) PROVE Lost(G, n, v)
  BY <1>7, <1>11, <1>13, LostKept
<1>14. AskedEnds(F, G, c, c1)
  BY ONLY <1>7, <1>11, AllAskedKept
<1>15. ASSUME NEW n, Asked(F, m, w, n) PROVE Asked(G, m, w, n)
  BY ONLY <1>7, <1>11, <1>15, AskedKept
<1>16. ASSUME NEW K \in Rights, c1[m][w].state \in K, ~Lost(G, m, w)
       PROVE  Needs(F, c, m, c1[m][w].tag, K)
  <2>1. c[m][w].state \in K /\ c[m][w].tag = c1[m][w].tag
    BY <1>4, <1>5, <1>16, RightsFacts DEF SameBlock
  <2> QED BY <1>3, <1>13, <1>16, <2>1 DEF Needs, Has
<1>17. ASSUME NEW K \in Rights, NEW n \in Modules \ {MainMemory}, NEW u \in Tag,
              Serves(F, c[m][w], d[m][w], m, w, n, u, K)
       PROVE  Serves(G, c1[m][w], d[m][w], m, w, n, u, K)
  <2>1. c1[m][w].tag = u /\ c1[m][w].state # "I"
    BY <1>5, <1>17 DEF Serves, SameBlock
  <2> QED BY <1>15, <1>17, <2>1 DEF Serves
<1>18. PICK d1 : d1 = d
  OBVIOUS
<1>19. /\ \A x \in X \cap DOMAIN G : Fits(F, c, G, c1, d1, X, x)
       /\ \A r \in DOMAIN F \ X : Leans(F[r], m, w) => LeanOK(F[r], c1, d1)
       /\ d1[m][w].sharers \subseteq d[m][w].sharers
       /\ OneWayEach(c1, d1) /\ Above(d1) /\ OffEntry(c, d, c1, d1, m, w)
  BY <1>0, <1>2, <1>9, <1>10, <1>12, <1>18
<1>20. \A K \in Rights :
          m # MainMemory /\ w \in Ways(m) /\ c1[m][w].state \in K /\ ~Lost(G, m, w) =>
             Needs(F, c, m, c1[m][w].tag, K)
  BY <1>16
<1>21. \A K \in Rights, n \in Modules \ {MainMemory}, u \in Tag :
          /\ Low[n] = m /\ w \in Ways(m) /\ Needs(F, c, n, u, K) /\ Needs(G, c1, n, u, K)
          /\ Serves(F, c[m][w], d[m][w], m, w, n, u, K)
          => Serves(G, c1[m][w], d1[m][w], m, w, n, u, K)
  BY <1>17, <1>18
<1>22. Copies(G, c1, d1)
  BY ONLY <1>0, <1>3, <1>7, <1>9, <1>13, <1>14, <1>19, <1>20, <1>21, EntryStep
<1> QED BY <1>18, <1>22

\* Invalidation p is over, and returns to s.
InvalidationOver(F, c, d, G, p, s) ==
    /\ Sys(F, d) /\ Copies(F, c, d) /\ Storage(c, d) /\ p \in DOMAIN F /\ Childless(F, p)
    /\ F[p].kind = "invalidate" /\ F[p].pc = "finish" /\ s = Front(p)
    /\ DOMAIN G = DOMAIN F \ {p} /\ (\A q \in DOMAIN G : q # s => G[q] = F[q])
    /\ G[s] \in Frame /\ G[s].pc = F[p].ret /\ Alike(F[s], G[s]) /\ G[s].error = F[s].error
    /\ G[s].reply = F[s].reply

\* Its caller has got what it waited for.
LEMMA InvalidationEnds ==
    ASSUME NEW F, NEW c, NEW d, NEW G, NEW p, NEW s, InvalidationOver(F, c, d, G, p, s)
    PROVE  Copies(G, c, d)
<1>0. /\ Sys(F, d) /\ Copies(F, c, d) /\ Storage(c, d) /\ p \in DOMAIN F /\ Childless(F, p)
      /\ F[p].kind = "invalidate" /\ F[p].pc = "finish" /\ s = Front(p)
      /\ DOMAIN G = DOMAIN F \ {p} /\ (\A q \in DOMAIN G : q # s => G[q] = F[q])
      /\ G[s] \in Frame /\ G[s].pc = F[p].ret /\ Alike(F[s], G[s]) /\ G[s].error = F[s].error
      /\ G[s].reply = F[s].reply
  BY DEF InvalidationOver
<1>1. PICK X, g, f, h, m, w : /\ X = {p, s} /\ g = F[s] /\ f = F[p] /\ h = G[s]
                              /\ m = f.mod /\ w = f.way
  OBVIOUS
<1>2. Calls(F) /\ Leaning(F, c, d)
  BY <1>0 DEF Copies
<1>3. ~IsAccess(F[p])
  BY <1>0 DEF IsAccess
<1>4. /\ s \in DOMAIN F /\ s # p /\ CallOK(f, g) /\ LinkOK(f, g) /\ g \in Frame
      /\ FlowOK(g) /\ FrameOK(g) /\ FrameOK(f) /\ Child(p, s)
      /\ m \in Modules /\ LeanOK(g, c, d) /\ LeanOK(f, c, d)
  BY <1>0, <1>1, <1>2, <1>3, FrameOf, LinkOf DEF Leaning, Calls
<1>5. w \in Ways(m) /\ InvalidatedOK(f, c[m][w], d[m][w])
  BY <1>0, <1>1, <1>4 DEF LeanOK, FrameOK, InvalidateOK
<1>6. InvalidateLink(f, g)
  BY <1>0, <1>1, <1>4 DEF LinkOK
<1>7. /\ g.pc = "call"
      /\ \/ g.kind = "evict" /\ f.ret = "invalid" /\ f.mod = g.mod
         \/ g.kind = "write_request" /\ f.ret = "exclusive" /\ g.way # 0
  BY <1>0, <1>1, <1>4 DEF CallOK
<1>8. d[m][w].sharers \subseteq Modules /\ NoModule \notin Modules
  BY <1>0, <1>4, <1>5, StorageFacts, HierarchyAssumption
<1>9. /\ h.kind = g.kind /\ h.pc = f.ret /\ h.way = g.way /\ h.mod = g.mod /\ h.srcWay = g.srcWay
      /\ h.srcTag = g.srcTag /\ h.reply = g.reply /\ h.error = g.error /\ h.notFound = g.notFound
      /\ h.tag = g.tag /\ h.addr = g.addr /\ h.state = g.state /\ h.dir = g.dir
      /\ h.target = g.target
  BY <1>0, <1>1 DEF Alike
<1>10. FlowOK(h) /\ LeanOK(h, c, d)
  <2>1. CASE g.kind = "evict"
    <3>1. g.reply = "None" /\ f.way = g.srcWay /\ f.except = NoModule /\ EvictFlow(g)
          /\ f.way = g.way
      BY <1>0, <1>1, <1>4, <1>6, <1>7, <2>1 DEF InvalidateLink, FlowOK, CallOK
    <3>2. d[m][w].sharers = {}
      BY <1>5, <1>8, <3>1 DEF InvalidatedOK
    <3>3. EvictFlow(h)
      BY <1>1, <1>7, <1>9, <2>1, <3>1 DEF EvictFlow, Processing
    <3>4. FlowOK(h)
      BY <1>7, <1>9, <2>1, <3>3 DEF FlowOK, IsRequest
    <3>5. EvictedOK(g, c[g.mod][g.srcWay], d[g.mod][g.srcWay])
      BY <1>4, <1>7, <2>1 DEF LeanOK
    <3>6. EvictedOK(h, c[h.mod][h.srcWay], d[h.mod][h.srcWay])
      BY <1>1, <1>7, <1>9, <2>1, <3>1, <3>2, <3>5 DEF EvictedOK
    <3> QED BY <1>7, <1>9, <2>1, <3>4, <3>6 DEF LeanOK, Holds, IsAccess, IsRequest, Processing
  <2>2. CASE g.kind = "write_request"
    <3>1. RequestFlow(h)
      BY <1>4, <1>9, <2>2 DEF FlowOK, RequestFlow, IsRequest
    <3>2. FlowOK(h)
      BY <1>7, <1>9, <2>2, <3>1 DEF FlowOK, IsRequest
    <3>3. Holds(g) /\ Where(g) = Where(h)
      BY <1>7, <1>9, <2>2 DEF Holds, Where, IsRequest, IsAccess
    <3>4. HeldOK(g, c[Where(g)][g.way])
      BY <1>4, <2>2, <3>3 DEF LeanOK
    <3>5. HeldOK(h, c[Where(h)][h.way])
      BY <1>9, <2>2, <3>3, <3>4 DEF HeldOK
    <3> QED BY <1>9, <2>2, <3>2, <3>5 DEF LeanOK
  <2> QED BY <1>7, <2>1, <2>2
<1>11. Cleared(G, s) => d[G[s].target][G[s].way].sharers \subseteq {G[s].mod}
  <2> SUFFICES ASSUME g.kind = "write_request"
               PROVE  d[h.target][h.way].sharers \subseteq {h.mod}
    BY <1>1, <1>9 DEF Cleared
  <2>1. f.mod = g.target /\ f.way = g.way /\ f.except = g.mod
    BY <1>6 DEF InvalidateLink
  <2> QED BY <1>1, <1>5, <1>9, <2>1 DEF InvalidatedOK
<1>12. ~IsAccess(g) => LinkOK(G[s], F[Front(s)])
  <2> SUFFICES ASSUME ~IsAccess(g) PROVE LinkOK(h, F[Front(s)])
    BY <1>1
  <2>1. LinkOK(g, F[Front(s)])
    BY <1>0, <1>1, <1>2, <1>4, LinkOf
  <2>2. g.kind = "evict" => (h.pc # "evict" /\ h.pc # "reply" /\ g.pc # "evict" /\ g.pc # "reply")
    BY <1>7, <1>9
  <2>3. SameLink(g, h)
    BY <1>0, <1>1, <2>2 DEF SameLink, Alike
  <2> QED BY <2>1, <2>3, SameLinkOK
<1>13. F[s].kind # "invalidate"
  BY <1>1, <1>7
<1>14. /\ Rest(F, G, X) /\ Linked(G, X) /\ Childless(G, s) /\ p \notin DOMAIN G /\ s \in DOMAIN G
  <2>1. ~IsAccess(F[s]) => LinkOK(G[s], F[Front(s)])
    BY <1>1, <1>12
  <2>2. /\ Rest(F, G, {p, s}) /\ Linked(G, {p, s}) /\ Childless(G, s)
        /\ p \notin DOMAIN G /\ s \in DOMAIN G
    BY ONLY <1>0, <1>3, <1>13, <2>1, LinkedReturn
  <2> QED BY <1>1, <2>2
<1>15. Fits(F, c, G, c, d, X, s)
  <2>1. Shows(F, G, X, s)
    <3>1. IsUpDown(G[s]) => IsUpDown(F[s]) /\ G[s].pc # "reply"
      BY <1>1, <1>7, <1>9 DEF IsUpDown, IsRequest
    <3> QED BY <1>4, <3>1 DEF Shows
  <2>2. Backed(F, c, G, s)
    <3>1. ~Ready(G[s])
      BY <1>1, <1>7, <1>9 DEF Ready
    <3> QED BY <1>14, <3>1, NotAnswered DEF Childless
  <2>3. ReadQuiet(G[s], F, c)
    BY <1>1, <1>7, <1>9 DEF ReadQuiet
  <2> QED BY <1>0, <1>1, <1>10, <1>11, <2>1, <2>2, <2>3 DEF Fits
<1>16. Leaves(F, G, p)
  BY <1>0 DEF Leaves, IsLost, Revoking, Revokes, Childless
<1>17. Leaves(F, G, s)
  BY <1>1, <1>7, <1>9, <1>14 DEF Leaves, IsLost, Revoking, Revokes
<1>18. /\ \A x \in X \cap DOMAIN G : Fits(F, c, G, c, d, X, x)
       /\ \A x \in X \cap DOMAIN F : Leaves(F, G, x)
  BY <1>1, <1>14, <1>15, <1>16, <1>17
<1> QED BY ONLY <1>0, <1>14, <1>18, FramesStep

\* The entry that the sharers of S have left.
EntryWithout(d, m, w, S) == [d EXCEPT ![m][w] = Without(@, S)]

Left(e, x, S) ==
    /\ x.sharers = e.sharers \ S /\ x.lock = e.lock
    /\ x.owner = (IF e.owner \in S THEN NoModule ELSE e.owner)

\* The entry has lost the sharers of S, and keeps the others.
LEMMA SharersGone ==
    ASSUME NEW c, NEW d, Storage(c, d), NEW m \in Modules, NEW w \in Ways(m), NEW S,
           NEW d1, d1 = EntryWithout(d, m, w, S)
    PROVE  OffEntry(c, d, c, d1, m, w) /\ Left(d[m][w], d1[m][w], S)
<1>1. DOMAIN d = Modules /\ \A n \in Modules : d[n] \in [Ways(n) -> Entry]
  BY DEF Storage
<1>2. PICK e, x : e = d[m][w] /\ x = Without(e, S)
  OBVIOUS
<1>3. d1 = [d EXCEPT ![m][w] = x]
  BY <1>2 DEF EntryWithout
<1>4. d1[m][w] = x /\ \A n \in Modules : \A v \in Ways(n) : n # m \/ v # w => d1[n][v] = d[n][v]
  BY ONLY <1>1, <1>3, m \in Modules, w \in Ways(m)
<1>5. e \in Entry
  BY <1>1, <1>2
<1>6. x.sharers = e.sharers \ S /\ x.lock = e.lock
      /\ x.owner = (IF e.owner \in S THEN NoModule ELSE e.owner)
  BY ONLY <1>2, <1>5 DEF Without, Entry
<1> QED BY <1>2, <1>4, <1>6 DEF OffEntry, Left

\* The request to a sharer, and its find-and-lock chain.
LEMMA SharerFlow ==
    ASSUME NEW m \in Modules, NEW t \in Tag, NEW i \in Modules,
           NEW r, r = SharerCall(m, t, i), NEW f, f = SharerFind(t, i)
    PROVE  /\ r \in Frame /\ r.kind = "write_request" /\ r.dir = "downup" /\ r.pc = "call"
           /\ r.way = 0 /\ ~r.error /\ ~r.notFound /\ r.mod = m /\ r.target = i /\ r.addr = t
           /\ f \in Frame /\ f.kind = "find_and_lock" /\ f.pc = "find" /\ FlowOK(f)
           /\ f.addr = t /\ f.blocking
<1>1. PICK u : u = "downup"
  OBVIOUS
<1>2. PICK ret, n : ret = "finish" /\ n = NewFrame("write_request", ret, m, t)
  OBVIOUS
<1>3. /\ n \in Frame /\ n.kind = "write_request" /\ n.way = 0 /\ n.notFound = FALSE
      /\ n.error = FALSE /\ n.mod = m /\ n.addr = t
  BY <1>2, HierarchyAssumption DEF NewFrame, Frame, Events, Tag, BlockStates, Kinds
<1>4. PICK k : k = [n EXCEPT !.dir = u]
  OBVIOUS
<1>5. k \in Frame /\ k.kind = n.kind /\ k.way = n.way /\ k.notFound = n.notFound
      /\ k.error = n.error /\ k.mod = n.mod /\ k.addr = n.addr /\ k.dir = u
  BY ONLY <1>1, <1>3, <1>4 DEF Frame
<1>6. r = [k EXCEPT !.pc = "call", !.target = i]
  BY <1>1, <1>2, <1>4 DEF SharerCall, DownUp
<1>7. /\ r \in Frame /\ r.kind = k.kind /\ r.way = k.way /\ r.notFound = k.notFound
      /\ r.error = k.error /\ r.mod = k.mod /\ r.addr = k.addr /\ r.dir = k.dir
      /\ r.pc = "call" /\ r.target = i
  BY ONLY <1>5, <1>6, i \in Modules DEF Frame, Events
<1>8. PICK ev, b : ev = "action" /\ b = TRUE
  OBVIOUS
<1>9. f = FindFrame(ev, i, t, u, b)
  BY <1>1, <1>8 DEF SharerFind, DownUp, FindFrame
<1>10. f \in Frame /\ f.kind = "find_and_lock" /\ f.pc = "find" /\ FlowOK(f) /\ f.addr = t
       /\ f.blocking = b
  <2>1. ev \in Events /\ u \in {"updown", "downup"} /\ b \in BOOLEAN
    BY <1>1, <1>8 DEF Events
  <2> QED BY ONLY <1>9, <2>1, NewFind, i \in Modules, t \in Tag
<1> QED BY <1>1, <1>3, <1>5, <1>7, <1>8, <1>10

\* The frame of an invalidation that waits for replies.
ForReplies(f, t, x) == [f EXCEPT !.pc = "finish", !.tag = t, !.state = x]

\* The fields of the frame of an invalidation that waits.
LEMMA InvalidationWaits ==
    ASSUME NEW f \in Frame, f.kind = "invalidate", NEW t \in Tag, NEW x \in BlockStates,
           NEW me, me = ForReplies(f, t, x)
    PROVE  /\ me \in Frame /\ SameLink(f, me) /\ me.pc = "finish" /\ me.tag = t /\ me.state = x
           /\ me.ret = f.ret
<1>1. /\ me \in Frame /\ me.pc = "finish" /\ me.tag = t /\ me.state = x /\ me.ret = f.ret
      /\ me.kind = f.kind /\ me.addr = f.addr /\ me.blocking = f.blocking /\ me.dir = f.dir
      /\ me.mod = f.mod /\ me.except = f.except /\ me.way = f.way
  BY DEF Frame, Events, ForReplies
<1> QED BY <1>1 DEF SameLink

\* invalidate
LEMMA InvalidateCopies ==
    ASSUME Inv, Inv', Copies(frames, cache, dir), NEW p \in DOMAIN frames, Invalidate(p)
    PROVE  Copies(frames, cache, dir)'
<1>1. PICK F, G, c, d, d1, fr, b, m, w, t, S :
         /\ F = frames /\ G = frames' /\ c = cache /\ d = dir /\ d1 = dir' /\ fr = frames[p]
         /\ b = cache[fr.mod][fr.way] /\ m = fr.mod /\ w = fr.way /\ t = b.tag
         /\ S = dir[fr.mod][fr.way].sharers \ {fr.except}
  OBVIOUS
<1>2. PICK x, me : x = b.state /\ me = [fr EXCEPT !.pc = "finish", !.tag = b.tag, !.state = b.state]
  OBVIOUS
<1>3. /\ fr.kind = "invalidate" /\ fr.pc = "invalidate" /\ cache' = cache
      /\ dir' = [dir EXCEPT ![fr.mod][fr.way] = Without(@, S)]
      /\ frames' = IF S = {} THEN Return(p, Parent(p))
                   ELSE WithSharers(frames, p, S, fr.mod, b.tag, me)
  BY <1>1, <1>2 DEF Invalidate, At, WithSharers, SharerCall, SharerFind
<1>4. Sys(F, d) /\ Copies(F, c, d) /\ Storage(c, d) /\ Tree(F) /\ p \in DOMAIN F /\ Calls(F)
  BY <1>1 DEF Inv, Copies, Sys
<1>5. Childless(F, p) /\ ~Holds(fr)
  BY <1>1, <1>3, <1>4, NoChildren DEF Holds, IsAccess, IsRequest
<1>6. /\ Storage(c, d1) /\ Relocked(d, d1, m, w, d[m][w].lock)
      /\ fr \in Frame /\ InvalidateOK(fr) /\ m \in Modules /\ w \in Ways(m)
  BY <1>1, <1>3, InvalidateEntry
<1>7. /\ b \in Block /\ (m = MainMemory => x \in {"I", "E", "M"}) /\ x \in BlockStates
      /\ t \in Tag /\ S \subseteq Modules /\ MainMemory \notin S
  BY <1>1, <1>2, <1>4, <1>6, StorageFacts
<1>8. /\ OffEntry(c, d, c, d1, m, w) /\ d1[m][w].sharers = d[m][w].sharers \ S
      /\ d1[m][w].owner = (IF d[m][w].owner \in S THEN NoModule ELSE d[m][w].owner)
      /\ d1[m][w].lock = d[m][w].lock
  <2>1. d1 = EntryWithout(d, m, w, S)
    BY <1>1, <1>3 DEF EntryWithout
  <2>2. OffEntry(c, d, c, d1, m, w) /\ Left(d[m][w], d1[m][w], S)
    BY ONLY <1>4, <1>6, <2>1, SharersGone
  <2> QED BY <2>2 DEF Left
<1>9. /\ me \in Frame /\ SameLink(fr, me) /\ me.pc = "finish" /\ me.tag = t /\ me.state = x
      /\ me.ret = fr.ret
  <2>1. me = ForReplies(fr, t, x)
    BY <1>1, <1>2 DEF ForReplies
  <2> QED BY ONLY <1>3, <1>6, <1>7, <2>1, InvalidationWaits
<1>10. FrameOK(me) /\ ~Holds(me) /\ SameCall(fr, me) /\ me.kind = "invalidate"
  <2>1. fr.mod = MainMemory => b.state \in {"I", "E", "M"}
    BY <1>1, <1>2, <1>7
  <2>2. me = [fr EXCEPT !.pc = "finish", !.tag = b.tag, !.state = b.state]
    BY <1>2
  <2> QED BY ONLY <1>3, <1>6, <1>7, <2>1, <2>2, InvalidatingFrame
<1>11. PICK A, B : /\ A = [i \in S |-> Append(p, i)]
                   /\ B = [i \in S |-> Append(Append(p, i), "find")]
  OBVIOUS
<1>12. /\ F[p].kind = "invalidate" /\ F[p].pc = "invalidate" /\ m = F[p].mod /\ w = F[p].way
       /\ t = c[m][w].tag /\ x = c[m][w].state /\ S = d[m][w].sharers \ {F[p].except}
       /\ F[p] = fr
  BY <1>1, <1>2, <1>3
<1>13. SharersDropped(F, c, d, d1, p, S, m, w, t)
  BY ONLY <1>8, <1>12 DEF SharersDropped
<1>14. CASE S = {}
  <2>1. PICK H : H = [F EXCEPT ![p] = me]
    OBVIOUS
  <2>2. SameCall(F[p], me) /\ SameHold(F[p], me) /\ me.pc # "wait"
    BY <1>5, <1>9, <1>10, <1>12 DEF SameHold
  <2>3. /\ Sys(H, d) /\ DOMAIN H = DOMAIN F /\ H[p] = me /\ Childless(H, p)
        /\ \A q \in DOMAIN F : q # p => H[q] = F[q]
    BY ONLY <1>4, <1>5, <1>9, <1>10, <2>1, <2>2, Goes
  <2>4. SharersAsked(F, c, d, H, d1, p, S, m, w, t, A, B)
    BY ONLY <1>4, <1>5, <1>9, <1>12, <1>13, <1>14, <2>3 DEF SharersAsked
  <2>5. Copies(H, c, d1)
    BY ONLY <2>4, SharersLeave
  <2>6. Sys(H, d1)
    BY ONLY <1>6, <2>3, SameLocks
  <2>7. PICK s, g, k : s = Front(p) /\ g = F[s] /\ k = [g EXCEPT !.pc = fr.ret]
    OBVIOUS
  <2>8. /\ s \in DOMAIN F /\ s # p /\ g \in Frame /\ fr.ret \in Events
    <3>1. ~IsAccess(F[p])
      BY <1>12 DEF IsAccess
    <3>2. s \in DOMAIN F /\ s # p /\ g \in Frame
      BY ONLY <1>4, <2>7, <3>1, FrameOf
    <3>3. fr.ret \in Events
      <4>1. CallOK(fr, g)
        BY <1>4, <1>12, <2>7, <3>1, FrameOf
      <4>2. fr.ret = "invalid" \/ fr.ret = "exclusive"
        BY <1>3, <4>1 DEF CallOK
      <4> QED BY <4>2 DEF Events
    <3> QED BY ONLY <3>2, <3>3
  <2>9. DOMAIN G = DOMAIN F \ {p} /\ G[s] = k /\ \A q \in DOMAIN F : q # p /\ q # s => G[q] = F[q]
    <3>1. s = Front(p) /\ s \in DOMAIN frames /\ s # p /\ G = Return(p, g) /\ p \in DOMAIN frames
      BY <1>1, <1>3, <1>14, <2>7, <2>8 DEF Parent
    <3>2. /\ DOMAIN G = DOMAIN frames \ {p} /\ G[s] = [g EXCEPT !.pc = frames[p].ret]
          /\ \A q \in DOMAIN frames : q # p /\ q # s => G[q] = frames[q]
      BY ONLY <3>1 DEF Return
    <3> QED BY <1>1, <2>7, <2>8, <3>2
  <2>10. k \in Frame /\ k.pc = fr.ret /\ Alike(g, k) /\ k.error = g.error /\ k.reply = g.reply
    BY ONLY <2>7, <2>8, NextAlike
  <2>11. InvalidationOver(H, c, d1, G, p, s)
    <3>1. /\ H[p].kind = "invalidate" /\ H[p].pc = "finish" /\ s = Front(p) /\ H[s] = g
          /\ H[p].ret = fr.ret /\ p \in DOMAIN H
      BY <1>4, <1>9, <1>10, <2>3, <2>7, <2>8
    <3>2. DOMAIN G = DOMAIN H \ {p} /\ \A q \in DOMAIN G : q # s => G[q] = H[q]
      BY <2>3, <2>9
    <3> QED BY ONLY <1>6, <2>3, <2>5, <2>6, <2>9, <2>10, <3>1, <3>2 DEF InvalidationOver
  <2>12. Copies(G, c, d1)
    BY ONLY <2>11, InvalidationEnds
  <2> QED BY <1>1, <1>3, <2>12
<1>15. CASE S # {}
  <2>1. SharersCalled(F, G, p, S, m, t, me)
    <3>1. frames' = WithSharers(frames, p, S, m, t, me)
      BY <1>1, <1>3, <1>15
    <3>2. Childless(frames, p)
      BY <1>1, <1>5
    <3>3. SharersCalled(frames, frames', p, S, m, t, me)
      BY ONLY <1>7, <3>1, <3>2, SharerFrames, Inv, p \in DOMAIN frames
    <3> QED BY <1>1, <3>3
  <2>2. /\ DOMAIN G = DOMAIN F \cup {Append(p, i) : i \in S}
                        \cup {Append(Append(p, i), "find") : i \in S}
        /\ G[p] = me /\ (\A q \in DOMAIN F : q # p => G[q] = F[q])
        /\ \A i \in S : /\ G[Append(p, i)] = SharerCall(m, t, i)
                        /\ G[Append(Append(p, i), "find")] = SharerFind(t, i)
    BY <2>1 DEF SharersCalled
  <2>3. /\ DOMAIN F \subseteq DOMAIN G
        /\ \A q \in DOMAIN G \ DOMAIN F : \E i \in S : q = A[i] \/ q = B[i]
    BY <1>11, <2>2
  <2>4. ASSUME NEW i \in S
        PROVE  /\ Child(A[i], p) /\ Child(B[i], A[i])
               /\ A[i] \in DOMAIN G \ DOMAIN F /\ B[i] \in DOMAIN G \ DOMAIN F
    <3>1. PICK y, a, bb : y = "find" /\ a = Append(p, i) /\ bb = Append(a, y)
      OBVIOUS
    <3>2. i \in PathNames /\ y \in PathNames /\ IsPath(p)
      BY <1>4, <1>7, <3>1 DEF PathNames, Tree
    <3>3. Child(a, p) /\ IsPath(a) /\ a \notin DOMAIN F /\ Childless(F, a)
      BY ONLY <1>4, <1>5, <3>1, <3>2, AppendFacts, AppendNew
    <3>4. Child(bb, a)
      BY ONLY <3>1, <3>2, <3>3, AppendFacts
    <3>5. bb \notin DOMAIN F
      BY <3>3, <3>4 DEF Childless
    <3>6. a \in DOMAIN G /\ bb \in DOMAIN G
      BY <2>2, <3>1
    <3> QED BY <1>11, <3>1, <3>3, <3>4, <3>5, <3>6
  <2>5. ASSUME NEW i \in S
        PROVE  /\ G[A[i]] \in Frame /\ G[A[i]].kind = "write_request" /\ G[A[i]].dir = "downup"
               /\ G[A[i]].pc = "call" /\ G[A[i]].way = 0 /\ ~G[A[i]].error /\ ~G[A[i]].notFound
               /\ G[A[i]].mod = m /\ G[A[i]].target = i /\ G[A[i]].addr = t
               /\ G[B[i]] \in Frame /\ G[B[i]].kind = "find_and_lock" /\ G[B[i]].pc = "find"
               /\ FlowOK(G[B[i]]) /\ G[B[i]].addr = t /\ G[B[i]].blocking
    <3>1. PICK r, f : r = G[A[i]] /\ f = G[B[i]]
      OBVIOUS
    <3>2. r = SharerCall(m, t, i) /\ f = SharerFind(t, i) /\ i \in Modules
      BY <1>7, <1>11, <2>2, <3>1
    <3>3. /\ r \in Frame /\ r.kind = "write_request" /\ r.dir = "downup" /\ r.pc = "call"
          /\ r.way = 0 /\ ~r.error /\ ~r.notFound /\ r.mod = m /\ r.target = i /\ r.addr = t
          /\ f \in Frame /\ f.kind = "find_and_lock" /\ f.pc = "find" /\ FlowOK(f)
          /\ f.addr = t /\ f.blocking
      BY ONLY <1>6, <1>7, <3>2, SharerFlow
    <3> QED BY ONLY <3>1, <3>3
  <2>6. SharersAsked(F, c, d, G, d1, p, S, m, w, t, A, B)
    <3>1. G[p] = me /\ (\A q \in DOMAIN F : q # p => G[q] = F[q])
      BY <2>2
    <3>2. SameLink(F[p], G[p]) /\ G[p] \in Frame /\ G[p].pc = "finish" /\ G[p].tag = t
          /\ G[p].state = c[m][w].state
      BY ONLY <1>9, <1>12, <3>1
    <3>3. \A i \in S :
             /\ Child(A[i], p) /\ Child(B[i], A[i])
             /\ A[i] \in DOMAIN G \ DOMAIN F /\ B[i] \in DOMAIN G \ DOMAIN F
             /\ G[A[i]] \in Frame /\ G[A[i]].kind = "write_request" /\ G[A[i]].dir = "downup"
             /\ G[A[i]].pc = "call" /\ G[A[i]].way = 0 /\ ~G[A[i]].error /\ ~G[A[i]].notFound
             /\ G[A[i]].mod = m /\ G[A[i]].target = i /\ G[A[i]].addr = t
             /\ G[B[i]] \in Frame /\ G[B[i]].kind = "find_and_lock" /\ G[B[i]].pc = "find"
             /\ FlowOK(G[B[i]]) /\ G[B[i]].addr = t /\ G[B[i]].blocking
      BY ONLY <2>4, <2>5
    <3>4. \A q \in DOMAIN G \ DOMAIN F : \E i \in S : q = A[i] \/ q = B[i]
      BY ONLY <2>3
    <3> QED BY ONLY <1>4, <1>5, <1>13, <2>3, <3>1, <3>2, <3>3, <3>4 DEF SharersAsked
  <2>7. Copies(G, c, d1)
    BY ONLY <2>6, SharersLeave
  <2> QED BY <1>1, <1>3, <2>7
<1> QED BY <1>14, <1>15

\* invalidate_finish
LEMMA InvalidateFinishCopies ==
    ASSUME Inv, Inv', Copies(frames, cache, dir), NEW p \in DOMAIN frames,
           NEW q \in Children(p), InvalidateFinish(p, q)
    PROVE  Copies(frames, cache, dir)'
<1>1. PICK F, G, c, d, c1, fr, m, w, t, x, s, g, k :
         /\ F = frames /\ G = frames' /\ c = cache /\ d = dir /\ c1 = cache' /\ fr = frames[p]
         /\ m = fr.mod /\ w = fr.way /\ t = fr.tag /\ x = Written(fr.state)
         /\ s = Front(p) /\ g = F[s] /\ k = [g EXCEPT !.pc = fr.ret]
  OBVIOUS
<1>2. /\ fr.kind = "invalidate" /\ fr.pc = "finish" /\ dir' = dir
      /\ q \in DOMAIN F /\ F[q].kind = "write_request" /\ F[q].pc = "reply"
      /\ c1 = c \/ setBlock(m, w, t, x)
      /\ \/ G = [r \in DOMAIN F \ {q} |-> F[r]]
         \/ /\ Children(p) = {q}
            /\ G = [r \in DOMAIN F \ {p, q} |-> IF r = s THEN k ELSE F[r]]
  <2>1. /\ fr.kind = "invalidate" /\ fr.pc = "finish" /\ dir' = dir
        /\ q \in DOMAIN F /\ F[q].kind = "write_request" /\ F[q].pc = "reply"
        /\ c1 = c \/ setBlock(m, w, t, x)
    BY <1>1 DEF InvalidateFinish, At, Children
  <2>2. CASE Children(p) = {q}
    <3>1. G = [r \in DOMAIN F \ {p, q} |->
                 IF r = Front(p) THEN [frames[r] EXCEPT !.pc = fr.ret] ELSE frames[r]]
      BY <1>1, <2>2 DEF InvalidateFinish
    <3>2. G = [r \in DOMAIN F \ {p, q} |-> IF r = s THEN k ELSE F[r]]
      BY <1>1, <3>1
    <3> QED BY <2>1, <2>2, <3>2
  <2>3. CASE Children(p) # {q}
    <3>1. G = [r \in DOMAIN F \ {q} |-> F[r]]
      BY <1>1, <2>3 DEF InvalidateFinish
    <3> QED BY <2>1, <3>1
  <2> QED BY <2>2, <2>3
<1>3. /\ Sys(F, d) /\ Copies(F, c, d) /\ Storage(c, d) /\ Tree(F) /\ p \in DOMAIN F /\ Calls(F)
      /\ F[p] = fr
  BY <1>1 DEF Inv, Copies, Sys
<1>4. /\ fr \in Frame /\ InvalidateOK(fr) /\ m \in Modules /\ w \in Ways(m)
      /\ s \in DOMAIN F /\ s # p /\ Child(p, s) /\ CallOK(fr, g) /\ g \in Frame
      /\ IsPath(p) /\ Len(p) > 1
  <2>1. ~IsAccess(F[p])
    BY <1>2, <1>3 DEF IsAccess
  <2>2. /\ F[p] \in Frame /\ FrameOK(F[p]) /\ F[p].mod \in Modules
        /\ Front(p) \in DOMAIN F /\ Front(p) # p /\ Child(p, Front(p))
        /\ CallOK(F[p], F[Front(p)]) /\ IsPath(p) /\ Len(p) > 1
    BY ONLY <1>3, <2>1, FrameOf
  <2>3. F[Front(p)] \in Frame
    BY ONLY <1>3, <2>2, FrameOf
  <2> QED BY <1>1, <1>2, <1>3, <2>2, <2>3 DEF FrameOK, InvalidateOK
<1>5. PICK E : E = [r \in DOMAIN F \ {q} |-> F[r]]
  OBVIOUS
<1>6. DOMAIN E = DOMAIN F \ {q} /\ \A r \in DOMAIN E : E[r] = F[r]
  BY <1>5
<1>7. /\ \A n \in Modules : \A v \in Ways(n) : n # m \/ v # w => c1[n][v] = c[n][v]
      /\ c1[m][w].transient = c[m][w].transient
      /\ c1[m][w] = c[m][w] \/ (c1[m][w].tag = t /\ c1[m][w].state = x)
  <2>1. CASE setBlock(m, w, t, x)
    <3>1. c1 = BlockTo(c, m, w, t, x)
      BY <1>1, <2>1 DEF setBlock, BlockTo
    <3>2. /\ c1[m][w].tag = t /\ c1[m][w].state = x /\ c1[m][w].transient = c[m][w].transient
          /\ \A n \in Modules : \A v \in Ways(n) : n # m \/ v # w => c1[n][v] = c[n][v]
      BY ONLY <1>3, <1>4, <3>1, BlockSet
    <3> QED BY <3>2
  <2> QED BY <1>2, <2>1
<1>8. OffEntry(c, d, c1, d, m, w)
  BY <1>7 DEF OffEntry
<1>9. ReplyTaken(F, c, d, E, c1, p, q, m, w)
  <2>1. /\ F[p].kind = "invalidate" /\ F[p].pc = "finish" /\ m = F[p].mod /\ w = F[p].way
        /\ c1[m][w] = c[m][w]
              \/ (c1[m][w].tag = F[p].tag /\ c1[m][w].state = Written(F[p].state))
    BY <1>1, <1>2, <1>3, <1>7
  <2> QED BY ONLY <1>2, <1>3, <1>6, <1>7, <1>8, <2>1 DEF ReplyTaken
<1>10. Copies(E, c1, d)
  BY ONLY <1>9, ReplyCopies
<1>11. CASE G = [r \in DOMAIN F \ {q} |-> F[r]]
  BY <1>1, <1>2, <1>5, <1>10, <1>11
<1>12. CASE /\ Children(p) = {q}
            /\ G = [r \in DOMAIN F \ {p, q} |-> IF r = s THEN k ELSE F[r]]
  <2>1. Front(q) = p /\ Len(q) = Len(p) + 1 /\ p # q /\ s # q
    <3>1. Front(q) = p /\ Len(q) = Len(p) + 1
      BY <1>12 DEF Children
    <3>2. Len(p) \in Nat /\ Len(s) = Len(p) - 1
      BY <1>1, <1>4, PathFacts
    <3>3. Len(p) + 1 # Len(p) /\ Len(p) + 1 # Len(p) - 1
      BY ONLY <3>2
    <3> QED BY <3>1, <3>2, <3>3
  <2>2. Sys(E, d)
    <3>1. ~Holds(F[q]) /\ F[q].kind # "invalidate"
      BY <1>2 DEF Holds, IsAccess, IsRequest
    <3> QED BY ONLY <1>2, <1>3, <1>5, <3>1, ReplyGoes
  <2>3. Childless(E, p)
    <3> SUFFICES ASSUME NEW r \in DOMAIN E, Child(r, p) PROVE FALSE
      BY DEF Childless
    <3>1. r \in DOMAIN frames /\ r # q /\ Front(r) = p /\ Len(r) > 1 /\ IsPath(r)
      BY <1>1, <1>3, <1>6 DEF Child, Tree
    <3>2. Len(r) = Len(p) + 1 /\ r # <<>>
      <4>1. Len(p) = Len(r) - 1 /\ Len(r) \in Nat
        BY <3>1, PathFacts
      <4> QED BY <3>1, <4>1 DEF IsPath
    <3>3. r \in Children(p)
      BY <3>1, <3>2 DEF Children
    <3> QED BY <1>12, <3>1, <3>3
  <2>4. p \in DOMAIN E /\ E[p] = fr /\ s \in DOMAIN E /\ E[s] = g
    BY <1>1, <1>3, <1>4, <1>6, <2>1
  <2>5. fr.ret \in Events
    <3>1. fr.ret = "invalid" \/ fr.ret = "exclusive"
      BY <1>2, <1>4 DEF CallOK
    <3> QED BY <3>1 DEF Events
  <2>6. k \in Frame /\ k.pc = fr.ret /\ Alike(g, k) /\ k.error = g.error /\ k.reply = g.reply
    <3>1. k = [g EXCEPT !.pc = fr.ret]
      BY <1>1
    <3> QED BY ONLY <1>4, <2>5, <3>1, NextAlike
  <2>7. DOMAIN G = DOMAIN E \ {p} /\ G[s] = k /\ \A r \in DOMAIN G : r # s => G[r] = E[r]
    BY <1>4, <1>6, <1>12, <2>1, <2>4
  <2>8. Storage(c1, d)
    BY <1>1, <1>2 DEF Inv
  <2>9. InvalidationOver(E, c1, d, G, p, s)
    <3>1. E[p].kind = "invalidate" /\ E[p].pc = "finish" /\ s = Front(p) /\ E[p].ret = fr.ret
      BY <1>1, <1>2, <2>4
    <3> QED BY ONLY <1>10, <2>2, <2>3, <2>4, <2>6, <2>7, <2>8, <3>1 DEF InvalidationOver
  <2>10. Copies(G, c1, d)
    BY ONLY <2>9, InvalidationEnds
  <2> QED BY <1>1, <1>2, <2>10
<1> QED BY <1>2, <1>11, <1>12
-----------------------------------------------------------------------------
(* The invariant, and what follows from it. *)

\* There are no blocks at first.
LEMMA InitCopies ==
    ASSUME Init
    PROVE  Copies(frames, cache, dir)
<1>1. PICK F, c, d : F = frames /\ c = cache /\ d = dir
  OBVIOUS
<1>2. DOMAIN F = {}
  BY <1>1 DEF Init
<1>3. \A m \in Modules : \A w \in Ways(m) :
         /\ c[m][w].state = "I" /\ d[m][w].lock = 0
         /\ d[m][w].sharers = {} /\ d[m][w].owner = NoModule
  <2>1. /\ cache = [m \in Modules |-> [w \in Ways(m) |->
                     [tag |-> NoTag, state |-> "I", transient |-> NoTag]]]
        /\ dir = [m \in Modules |-> [w \in Ways(m) |->
                   [owner |-> NoModule, sharers |-> {}, lock |-> 0]]]
    BY DEF Init, CachesInit
  <2>2. \A m \in Modules : \A w \in Ways(m) :
           /\ cache[m][w] = [tag |-> NoTag, state |-> "I", transient |-> NoTag]
           /\ dir[m][w] = [owner |-> NoModule, sharers |-> {}, lock |-> 0]
    BY <2>1
  <2> QED BY <1>1, <2>2
<1>4. Calls(F) /\ Leaning(F, c, d) /\ Alone(F, d) /\ Quiet(F, c)
  BY <1>2 DEF Calls, Leaning, Alone, Quiet
<1>5. OneWayEach(c, d) /\ Above(d)
  BY <1>3 DEF OneWayEach, InMatches, Above
<1>6. ASSUME NEW K \in Rights, NEW m \in Modules, NEW t PROVE ~Needs(F, c, m, t, K)
  <2>1. "I" \notin K
    BY RightsFacts
  <2>2. ~Has(F, c, m, t, K)
    BY <1>3, <2>1 DEF Has
  <2>3. ~Due(F, m, t, K)
    BY <1>2 DEF Due
  <2> QED BY <2>2, <2>3 DEF Needs
<1>7. Covered(F, c, d)
  BY <1>6 DEF Covered
<1>8. Single(F, c)
  <2>1. Exclusive \in Rights
    BY DEF Rights
  <2> QED BY <1>6, <2>1 DEF Single
<1> QED BY <1>1, <1>4, <1>5, <1>7, <1>8 DEF Copies

\* An eviction has found its block.
LEMMA CopiesFind ==
    ASSUME Copies(frames, cache, dir)
    PROVE  EvictFindsBlock
  BY DEF Copies, Calls, FlowOK, EvictFlow, EvictFindsBlock

\* The steps of the requests.
LEMMA RequestStepCopies ==
    ASSUME Inv, Inv', Copies(frames, cache, dir), NEW p \in DOMAIN frames,
           WriteRequestStep(p) \/ ReadRequestStep(p)
    PROVE  Copies(frames, cache, dir)'
<1>1. CASE WriteRequestNoBlock(p) \/ ReadRequestNoBlock(p)
  <2>1. PICK fr, s, f : fr = frames[p] /\ s = Front(p) /\ f = [fr EXCEPT !.pc = "reply"]
    OBVIOUS
  <2>2. /\ IsRequest(fr) /\ fr.pc = "action" /\ (fr.error \/ fr.notFound)
        /\ frames' = [With(p, f) EXCEPT ![s] = IF fr.error THEN [@ EXCEPT !.error = TRUE]
                                               ELSE SetReplyIfHigher(@, "Ack")]
        /\ UNCHANGED <<cache, dir>>
    BY <1>1, <2>1 DEF WriteRequestNoBlock, ReadRequestNoBlock, At, IsRequest
  <2>3. (fr.error \/ fr.notFound) /\ fr.pc = "action" /\ IsRequest(fr)
    BY <1>1, <2>1 DEF WriteRequestNoBlock, ReadRequestNoBlock, At, IsRequest
  <2> QED BY <2>1, <2>2, <2>3, RequestNoBlockCopies
<1>2. CASE WriteRequestFinish(p) \/ ReadRequestFinish(p)
  <2>1. /\ IsRequest(frames[p]) /\ frames[p].pc = "reply" /\ ~Revokes(frames[p])
        /\ frames' = Return(p, Parent(p)) /\ UNCHANGED <<cache, dir>>
    BY <1>2 DEF WriteRequestFinish, ReadRequestFinish, At, IsRequest, Revokes
  <2> QED BY <2>1, RequestFinishCopies
<1>3. CASE WriteRequestAction(p)
  BY <1>3, WriteRequestActionCopies
<1>4. CASE WriteRequestUpdown(p)
  BY <1>4, WriteRequestUpdownCopies
<1>5. CASE WriteRequestUpdownFinish(p)
  BY <1>5, WriteRequestUpdownFinishCopies
<1>6. CASE WriteRequestDownup(p)
  BY <1>6, WriteRequestDownupCopies
<1>7. CASE ReadRequestUpdown(p)
  BY <1>7, ReadRequestUpdownCopies
<1>8. CASE ReadRequestUpdownMiss(p)
  BY <1>8, ReadRequestUpdownMissCopies
<1>9. CASE ReadRequestUpdownFinish(p)
  BY <1>9, ReadRequestUpdownFinishCopies
<1>10. CASE ReadRequestDownup(p)
  BY <1>10, ReadRequestDownupCopies
<1>11. CASE ReadRequestDownupFinish(p)
  BY <1>11, ReadRequestDownupFinishCopies
<1> QED BY <1>1, <1>2, <1>3, <1>4, <1>5, <1>6, <1>7, <1>8, <1>9, <1>10, <1>11
        DEF WriteRequestStep, ReadRequestStep

\* The steps of find_and_lock.
LEMMA FindAndLockStepCopies ==
    ASSUME Inv, Inv', Copies(frames, cache, dir), NEW p \in DOMAIN frames, FindAndLockStep(p)
    PROVE  Copies(frames, cache, dir)'
<1>1. CASE FindAndLockNotFound(p)
  BY <1>1, FindAndLockNotFoundCopies
<1>2. ASSUME NEW w \in Ways(frames[p].mod), FindAndLockError(p, w)
      PROVE  Copies(frames, cache, dir)'
  BY <1>2, FindAndLockErrorCopies
<1>3. ASSUME NEW w \in Ways(frames[p].mod), FindAndLockWait(p, w)
      PROVE  Copies(frames, cache, dir)'
  BY <1>3, FindAndLockWaitCopies
<1>4. ASSUME NEW w \in Ways(frames[p].mod), FindAndLockTake(p, w)
      PROVE  Copies(frames, cache, dir)'
  BY <1>4, FindAndLockTakeCopies
<1>5. CASE FindAndLockAction(p)
  BY <1>5, FindAndLockActionCopies
<1>6. CASE FindAndLockFailed(p)
  BY <1>6, FindAndLockFailedCopies
<1>7. CASE FindAndLockFinish(p)
  BY <1>7, FindAndLockFinishCopies
<1> QED BY <1>1, <1>2, <1>3, <1>4, <1>5, <1>6, <1>7 DEF FindAndLockStep

\* The steps of all chains.
LEMMA ChainStepCopies ==
    ASSUME Inv, Inv', Copies(frames, cache, dir), NEW p \in DOMAIN frames, ChainStep(p)
    PROVE  Copies(frames, cache, dir)'
<1>1. CASE LoadStep(p)
  BY <1>1, LoadActionCopies, LoadMissCopies, LoadUnlockCopies DEF LoadStep
<1>2. CASE StoreStep(p)
  BY <1>2, StoreActionCopies, StoreUnlockCopies DEF StoreStep
<1>3. CASE NCStoreStep(p)
  <2>1. frames[p].kind = "nc_store"
    BY <1>3 DEF NCStoreStep, NCStoreWriteback, NCStoreAction, NCStoreMiss, NCStoreUnlock, At
  <2> QED BY <2>1, KindFacts DEF Kinds
<1>4. CASE FindAndLockStep(p)
  BY <1>4, FindAndLockStepCopies
<1>5. CASE InvalidateStep(p)
  BY <1>5, InvalidateCopies, InvalidateFinishCopies DEF InvalidateStep
<1>6. CASE EvictStep(p)
  BY <1>6, EvictCopies, EvictInvalidCopies, EvictErrorCopies, EvictProcessCopies,
     EvictReplyReceiveCopies
  DEF EvictStep
<1>7. CASE WriteRequestStep(p) \/ ReadRequestStep(p)
  BY <1>7, RequestStepCopies
<1>8. CASE MessageStep(p)
  <2>1. frames[p].kind = "message"
    BY <1>8 DEF MessageStep, MessageAction, MessageFinish, At
  <2> QED BY <2>1, KindFacts DEF Kinds
<1> QED BY <1>1, <1>2, <1>3, <1>4, <1>5, <1>6, <1>7, <1>8 DEF ChainStep

\* Every step keeps the invariant.
LEMMA NextCopies ==
    ASSUME Inv, Copies(frames, cache, dir), AccessTypes \subseteq {"load", "store"}, [Next]_vars
    PROVE  Inv' /\ Copies(frames, cache, dir)'
<1>1. Inv'
  BY CopiesFind, NextInv
<1>2. CASE UNCHANGED vars
  <2>1. frames' = frames /\ cache' = cache /\ dir' = dir
    BY <1>2 DEF vars
  <2>2. Copies(frames, cache, dir)'
    BY <2>1
  <2> QED BY <1>1, <2>2
<1>3. ASSUME NEW kind \in AccessTypes, NEW m \in TopModules, NEW t \in Tags, Issue(kind, m, t)
      PROVE  Copies(frames, cache, dir)'
  <2>1. kind \in {"load", "store"}
    OBVIOUS
  <2> QED BY <1>1, <1>3, <2>1, IssueCopies
<1>4. ASSUME NEW a \in Accesses, <<a>> \in DOMAIN frames, AccessStep(a)
      PROVE  Copies(frames, cache, dir)'
  <2>1. CASE LoadLock(a)
    BY <1>1, <1>4, <2>1, AccessLockCopies DEF LoadLock
  <2>2. CASE StoreLock(a)
    BY <1>1, <1>4, <2>2, AccessLockCopies DEF StoreLock
  <2>3. CASE NCStoreLock(a)
    <3>1. frames[<<a>>].kind = "nc_store"
      BY <2>3 DEF NCStoreLock, AccessLock
    <3> QED BY <1>4, <3>1, KindFacts DEF Kinds
  <2>4. CASE Finish(a)
    BY <1>1, <1>4, <2>4, FinishCopies
  <2> QED BY <1>4, <2>1, <2>2, <2>3, <2>4 DEF AccessStep
<1>5. ASSUME NEW p \in DOMAIN frames, ChainStep(p) PROVE Copies(frames, cache, dir)'
  BY <1>1, <1>5, ChainStepCopies
<1> QED BY <1>1, <1>2, <1>3, <1>4, <1>5 DEF Next

\* A cache that has a block, and neither works on it nor has given it up, has it
\* from the module below.
LEMMA BlockBelow ==
    ASSUME Inv, Copies(frames, cache, dir), NEW K \in Rights, NEW m \in Modules \ {MainMemory},
           NEW w \in Ways(m), cache[m][w].state \in K, ~Lost(frames, m, w)
    PROVE  \E v \in WaysBelow(m, w) :
              /\ cache[Low[m]][v].state # "I"
              /\ ~isEntryLocked(Low[m], v) =>
                    /\ m \in dir[Low[m]][v].sharers
                    /\ K = Exclusive => dir[Low[m]][v].owner = m /\ dir[Low[m]][v].sharers = {m}
<1>1. PICK F, c, d, l, t : F = frames /\ c = cache /\ d = dir /\ l = Low[m] /\ t = cache[m][w].tag
  OBVIOUS
<1>2. /\ Sys(F, d) /\ Calls(F) /\ Covered(F, c, d) /\ t \in Tag
  <2>1. Storage(cache, dir)
    BY DEF Inv
  <2>2. t \in Tag
    BY <1>1, <2>1, StorageFacts
  <2> QED BY <1>1, <2>2 DEF Inv, Copies
<1>3. Needs(F, c, m, t, K)
  BY <1>1 DEF Needs, Has
<1>4. PICK v \in Ways(l) : Serves(F, c[l][v], d[l][v], l, v, m, t, K)
  BY <1>1, <1>2, <1>3 DEF Covered
<1>5. c[l][v].tag = t /\ c[l][v].state # "I"
  BY <1>4 DEF Serves
<1>6. v \in WaysBelow(m, w)
  BY <1>1, <1>4, <1>5 DEF WaysBelow, Matches
<1>7. ASSUME ~isEntryLocked(l, v)
      PROVE  m \in d[l][v].sharers /\ (K = Exclusive => d[l][v].sharers = {m} /\ d[l][v].owner = m)
  <2>1. d[l][v].lock = 0
    BY <1>1, <1>7 DEF isEntryLocked
  <2>2. ~Asked(F, l, v, m)
    BY <1>2, <2>1, NotAsked, FreeEntry
  <2> QED BY <1>4, <2>2 DEF Serves
<1> QED BY <1>1, <1>5, <1>6, <1>7

\* A block of an entry that is not locked has not been given up.
LEMMA FreeNotLost ==
    ASSUME Inv, Copies(frames, cache, dir), NEW m, NEW w, ~isEntryLocked(m, w)
    PROVE  ~Lost(frames, m, w)
<1>1. Sys(frames, dir) /\ Calls(frames) /\ dir[m][w].lock = 0
  BY DEF Inv, Copies, isEntryLocked
<1>2. ASSUME NEW p \in DOMAIN frames, IsLost(frames[p]), frames[p].mod = m, frames[p].srcWay = w
      PROVE  FALSE
  <2>1. Leans(frames[p], m, w)
    BY <1>2 DEF Leans, IsLost
  <2> QED BY <1>1, <2>1, FreeEntry
<1> QED BY <1>2 DEF Lost

\* The blocks of the caches, and the entries of the directories below.
LEMMA CopiesHold ==
    ASSUME Inv, Copies(frames, cache, dir)
    PROVE  LowerModuleHasBlock /\ CopiesAreKnown /\ OwnerIsKnown
<1>1. ASSUME NEW m \in Modules \ {MainMemory}, NEW w \in Ways(m)
      PROVE  cache[m][w].state \in BlockStates
  BY <1>1, StorageFacts DEF Inv
<1>2. \A m \in Modules \ {MainMemory} : \A w \in Ways(m) :
         cache[m][w].state # "I" => cache[m][w].state \in Valid
  BY <1>1, RightsFacts DEF Valid
<1>3. Valid \in Rights /\ Exclusive \in Rights
  BY DEF Rights
<1>4. LowerModuleHasBlock
  <2> SUFFICES ASSUME NEW m \in Modules \ {MainMemory}, NEW w \in Ways(m),
                      cache[m][w].state # "I", ~isEntryLocked(m, w)
               PROVE  \E v \in WaysBelow(m, w) : cache[Low[m]][v].state # "I"
    BY DEF LowerModuleHasBlock
  <2> QED BY <1>2, <1>3, FreeNotLost, BlockBelow
<1>5. CopiesAreKnown
  <2> SUFFICES ASSUME NEW m \in Modules \ {MainMemory}, NEW w \in Ways(m),
                      cache[m][w].state # "I", AtRest(m, w)
               PROVE  \E v \in WaysBelow(m, w) : m \in dir[Low[m]][v].sharers
    BY DEF CopiesAreKnown
  <2> QED BY <1>2, <1>3, FreeNotLost, BlockBelow DEF AtRest
<1>6. OwnerIsKnown
  <2> SUFFICES ASSUME NEW m \in Modules \ {MainMemory}, NEW w \in Ways(m),
                      cache[m][w].state \in {"E", "M"}, AtRest(m, w)
               PROVE  \E v \in WaysBelow(m, w) :
                         dir[Low[m]][v].owner = m /\ dir[Low[m]][v].sharers = {m}
    BY DEF OwnerIsKnown
  <2>1. cache[m][w].state \in Exclusive
    BY DEF Exclusive
  <2> QED BY <1>3, <2>1, FreeNotLost, BlockBelow DEF AtRest
<1> QED BY <1>4, <1>5, <1>6

\* A writer is alone.
LEMMA WriterAlone ==
    ASSUME Inv, Copies(frames, cache, dir)
    PROVE  SingleWriter
<1> SUFFICES ASSUME NEW m \in Modules \ {MainMemory}, NEW n \in Modules \ {MainMemory},
                    NEW v \in Ways(m), NEW w \in Ways(n), m # n, Low[m] = Low[n],
                    cache[m][v].state \in {"E", "M"}, ~GivenUp(m, v),
                    cache[n][w].tag = cache[m][v].tag, ~GivenUp(n, w),
                    cache[n][w].state # "I"
             PROVE  FALSE
  BY DEF SingleWriter
<1>1. ASSUME NEW i, NEW u, ~GivenUp(i, u) PROVE ~Lost(frames, i, u)
  BY <1>1 DEF GivenUp, Lost, IsLost, At
<1>2. cache[m][v].tag \in Tag /\ cache[n][w].state \in BlockStates
  BY StorageFacts DEF Inv
<1>3. cache[m][v].state \in Exclusive /\ cache[n][w].state \in Valid
  BY <1>2 DEF Exclusive, Valid
<1>4. /\ Needs(frames, cache, m, cache[m][v].tag, Exclusive)
      /\ Needs(frames, cache, n, cache[m][v].tag, Valid)
  BY <1>1, <1>3 DEF Needs, Has
<1> QED BY <1>2, <1>4 DEF Copies, Single

\* The inductive invariant: the tree of calls, the locks and the storage, and the
\* copies of the blocks.
CopiesInv == Inv /\ Copies(frames, cache, dir)

\* It holds in every state of a behaviour.
LEMMA CopiesInvHolds ==
    ASSUME AccessTypes \subseteq {"load", "store"}
    PROVE  Spec => []CopiesInv
<1>1. Init => CopiesInv
  BY InitInv, InitCopies DEF CopiesInv
<1>2. CopiesInv /\ [Next]_vars => CopiesInv'
  BY NextCopies DEF CopiesInv
<1> QED BY <1>1, <1>2, PTL DEF Spec

\* An eviction finds its block in the lower module, whatever that one evicts at the
\* same time: evict_process, which does not look at block_not_found, never works on
\* the entry of another block.
THEOREM EvictionsFindBlocks ==
    ASSUME AccessTypes \subseteq {"load", "store"}
    PROVE  Spec => []EvictFindsBlock
<1>1. CopiesInv => EvictFindsBlock
  BY CopiesFind DEF CopiesInv
<1> QED BY <1>1, CopiesInvHolds, PTL

\* Rule 1 of System::SanityCheck, in every state: the lower module has each block that
\* a cache has and does not work on.
THEOREM BlocksAreBelow ==
    ASSUME AccessTypes \subseteq {"load", "store"}
    PROVE  Spec => []LowerModuleHasBlock
<1>1. CopiesInv => LowerModuleHasBlock
  BY CopiesHold DEF CopiesInv
<1> QED BY <1>1, CopiesInvHolds, PTL

\* The lower directory has each cache with a copy of a block at rest among the sharers,
\* so that the chain invalidate misses no copy.
THEOREM CopiesKnownBelow ==
    ASSUME AccessTypes \subseteq {"load", "store"}
    PROVE  Spec => []CopiesAreKnown
<1>1. CopiesInv => CopiesAreKnown
  BY CopiesHold DEF CopiesInv
<1> QED BY <1>1, CopiesInvHolds, PTL

\* Rule 2 of System::SanityCheck, for blocks at rest: a cache with a block in state E
\* or M is the owner and the only sharer in the lower directory.
THEOREM OwnersKnownBelow ==
    ASSUME AccessTypes \subseteq {"load", "store"}
    PROVE  Spec => []OwnerIsKnown
<1>1. CopiesInv => OwnerIsKnown
  BY CopiesHold DEF CopiesInv
<1> QED BY <1>1, CopiesInvHolds, PTL

\* A block that a cache may write is in no other cache above the same module, in any
\* state of the accesses, requests, invalidations and evictions between them.
THEOREM WritersAreAlone ==
    ASSUME AccessTypes \subseteq {"load", "store"}
    PROVE  Spec => []SingleWriter
<1>1. CopiesInv => SingleWriter
  BY WriterAlone DEF CopiesInv
<1> QED BY <1>1, CopiesInvHolds, PTL

\* The types, and the tree of calls, for loads and stores on any hierarchy: every
\* chain has a caller that is there, whatever the order of requests and replies.
THEOREM CoherenceTypes ==
    ASSUME AccessTypes \subseteq {"load", "store"}
    PROVE  Spec => []TypeOK
<1>1. CopiesInv => TypeOK
  BY TypesHold DEF CopiesInv
<1> QED BY <1>1, CopiesInvHolds, PTL

\* Every handler that calls UnlockEntry unlocks what its own access has locked:
\* the assertion that the build compiles out of Directory::UnlockEntry.
THEOREM UnlocksAreOwn ==
    ASSUME AccessTypes \subseteq {"load", "store"}
    PROVE  Spec => []UnlocksOwnLock
<1>1. CopiesInv => UnlocksOwnLock
  BY CopiesFind, HoldersUnlock DEF CopiesInv
<1> QED BY <1>1, CopiesInvHolds, PTL

\* No access leaves a lock behind: not when it starts anew after the error of a
\* request, an eviction or a find-and-lock chain, and not when it has finished.
THEOREM LocksReleased ==
    ASSUME AccessTypes \subseteq {"load", "store"}
    PROVE  Spec => []LocksAreReleased
<1>1. CopiesInv => LocksAreReleased
  BY HoldersRelease DEF CopiesInv
<1> QED BY <1>1, CopiesInvHolds, PTL

\* A chain in the queue of Directory::LockEntry waits for a lock that an access in
\* flight holds, and so for an UnlockEntry that wakes it up.
THEOREM WaitersAreWoken ==
    ASSUME AccessTypes \subseteq {"load", "store"}
    PROVE  Spec => []NoLostWakeup
<1>1. CopiesInv => NoLostWakeup
  BY HoldersRelease DEF CopiesInv
<1> QED BY <1>1, CopiesInvHolds, PTL
=============================================================================
