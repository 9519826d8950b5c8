----------------------------- MODULE Coherence -----------------------------
(***************************************************************************)
(* The NMOESI protocol (src/memory/SystemEvents.cc, lines 145 to 3798):    *)
(* the event chains load, store, nc_store, find_and_lock, evict,           *)
(* write_request, read_request, invalidate and message of the cache        *)
(* modules of a memory hierarchy.                                          *)
(*                                                                         *)
(* A frame is named by the path of the calls that led to it: the access,   *)
(* then one element for each event chain called.  One action stands for    *)
(* one event, or for an event and those that follow it without a delay.    *)
(* Sending a message, its way through the network, its reception and the   *)
(* find-and-lock chain that the receiver calls take any time; there is     *)
(* always room in the network at some time, and ports are free at some     *)
(* time.  Coalescing is left out: an access that could be coalesced waits  *)
(* for the older one.  Data is modelled by whether a message carries any.  *)
(***************************************************************************)
EXTENDS CacheDirectory, Sequences, SequencesExt

CONSTANT AccessTypes  \* the types of accesses that the processors issue

ASSUME TypesAssumption == AccessTypes \subseteq {"load", "store", "nc_store"}

VARIABLES
    accesses,  \* Module::accesses of every module: identifiers in the order of issue
    frames,    \* the frames in use
    unsaved    \* the blocks with data that has not reached main memory

vars == <<cache, dir, accesses, frames, unsaved>>

\* The modules that processors access.
TopModules == {m \in Modules : \A l \in DOMAIN Low : Low[l] # m}

\* A new frame, with the defaults of Frame.h.
NewFrame(kind, ret, m, t) ==
    [kind |-> kind,         \* the event chain
     pc |-> "find",         \* the next event
     ret |-> ret,           \* the event of the parent that Return schedules
     mod |-> m, addr |-> t, target |-> m, dir |-> "none",
     blocking |-> FALSE, nc_write |-> FALSE,
     way |-> 0, tag |-> NoTag, state |-> "I", hit |-> FALSE,
     error |-> FALSE, notFound |-> FALSE, shared |-> FALSE,
     eviction |-> FALSE,
     reply |-> "None", except |-> NoModule, srcWay |-> 0, srcTag |-> NoTag,
     data |-> FALSE]        \* does the message it sends carry the block?

Parent(p) == frames[Front(p)]
Children(p) == {q \in DOMAIN frames : q # <<>> /\ Len(q) = Len(p) + 1 /\ Front(q) = p}
TypeOf(a) == frames[<<a>>].kind

\* The frames when frame p is fr; without p, whose parent is fr now; and with a
\* new frame at p.
With(p, fr) == [frames EXCEPT ![p] = fr]
Return(p, fr) ==
    [q \in DOMAIN frames \ {p} |->
        IF q = Front(p) THEN [fr EXCEPT !.pc = frames[p].ret] ELSE frames[q]]
Call(F, p, fr) == [q \in DOMAIN F \cup {p} |-> IF q = p THEN fr ELSE F[q]]
Goto(p, event) == frames' = With(p, [frames[p] EXCEPT !.pc = event])

\* A variant with a bug: only the frames that look for the block that is in way
\* w are woken up, and not those that want to replace it.
WakeupSameBlock(F, m, w) ==
    [q \in DOMAIN F |->
        IF F[q].pc = "wait" /\ F[q].mod = m /\ F[q].way = w /\ F[q].addr = cache[m][w].tag
        THEN [F[q] EXCEPT !.pc = "find", !.way = 0]
        ELSE F[q]]

\* UnlockEntry wakes all frames up that wait for way w of m in find_and_lock.
WakeupAll(F, m, w) ==
    [q \in DOMAIN F |->
        IF F[q].pc = "wait" /\ F[q].mod = m /\ F[q].way = w
        THEN [F[q] EXCEPT !.pc = "find", !.way = 0]
        ELSE F[q]]

\* Higher replies replace lower ones (Frame::setReplyIfHigher).
SetReplyIfHigher(fr, r) ==
    [fr EXCEPT !.reply = IF @ = "AckData" \/ r = "AckData" THEN "AckData" ELSE r]

\* A variant with a bug: an owned or non-coherent block is not written back.
DirtyModified(s) == s = "M"

\* The states of blocks whose data has to be sent down.
Dirty(s) == s \in {"M", "O", "N"}

\* A variant with a bug: up-down requests wait for locked entries, too.
BlocksAlways(direction) == direction \in {"updown", "downup", "none"}

\* Does the find-and-lock chain of a request wait for a locked entry?
Blocks(direction) == direction = "downup"

\* Frame p, which is fr now, calls find_and_lock for block t of module m.
CallFindAndLock(p, fr, ret, m, t, direction, blocking) ==
    Call(With(p, [fr EXCEPT !.pc = "call", !.error = FALSE]), Append(p, "find"),
         [NewFrame("find_and_lock", ret, m, t) EXCEPT
             !.dir = direction, !.blocking = blocking])
-----------------------------------------------------------------------------
(* Accesses of the processors *)

Init ==
    /\ CachesInit
    /\ accesses = [m \in Modules |-> <<>>]
    /\ frames = [q \in {} |-> NewFrame("load", "", MainMemory, NoTag)]
    /\ unsaved = {}

NewAccess(kind, m, t) == [NewFrame(kind, "", m, t) EXCEPT !.pc = "lock"]

\* Module::Access and StartAccess.
Issue(kind, m, t) ==
    LET free == {a \in Accesses : <<a>> \notin DOMAIN frames}
    IN  /\ free # {}
        /\ frames' = Call(frames, <<Min(free)>>, NewAccess(kind, m, t))
        /\ accesses' = [accesses EXCEPT ![m] = Append(@, Min(free))]
        /\ UNCHANGED <<cache, dir, unsaved>>

\* The accesses of a's module that are older than a.
Older(a) ==
    LET list == accesses[frames[<<a>>].mod]
    IN  {list[i] : i \in {j \in 1..Len(list) : \E k \in (j + 1)..Len(list) : list[k] = a}}

\* The older accesses that the lock event of a waits for.
Blockers(a) ==
    IF TypeOf(a) = "store" THEN Older(a)
    ELSE {b \in Older(a) : TypeOf(b) = "store" \/ frames[<<b>>].addr = frames[<<a>>].addr}

\* load_lock, store_lock and nc_store_lock, when no older access is in the way;
\* the chain goes on with event ret.
AccessLock(a, kind, ret) ==
    LET fr == frames[<<a>>]
    IN  /\ fr.kind = kind /\ fr.pc = "lock"
        /\ Blockers(a) = {}
        /\ frames' = CallFindAndLock(<<a>>, fr, ret, fr.mod, fr.addr, "updown", TRUE)
        /\ UNCHANGED <<cache, dir, accesses, unsaved>>

LoadLock(a) == AccessLock(a, "load", "action")
StoreLock(a) == AccessLock(a, "store", "action")
NCStoreLock(a) == AccessLock(a, "nc_store", "writeback")

\* The frame of an access that starts anew after a retry latency.  Its other
\* fields are all set again before they are read.
Retry(fr) == NewAccess(fr.kind, fr.mod, fr.addr)
At(p, kind, event) == frames[p].kind = kind /\ frames[p].pc = event

\* Frame p, which is fr now, calls read_request or write_request for block t of
\* module target.  The event resets the results in the parent and sends the
\* message; the receiver calls find_and_lock, which blocks for a down-up request.
CallRequest(p, fr, name, request, target) ==
    LET q == Append(p, name)
    IN  Call(Call(With(p, [fr EXCEPT !.pc = "call", !.error = FALSE,
                                    !.shared = IF request.kind = "read_request" THEN FALSE ELSE @]),
                  q, [request EXCEPT !.pc = "call", !.target = target]),
             Append(q, "find"),
             [NewFrame("find_and_lock", "action", target, request.addr) EXCEPT
                 !.dir = request.dir, !.blocking = Blocks(request.dir)])

UpDown(kind, ret, m, t) == [NewFrame(kind, ret, m, t) EXCEPT !.dir = "updown"]
DownUp(kind, ret, m, t) == [NewFrame(kind, ret, m, t) EXCEPT !.dir = "downup"]

\* load_action
LoadAction(p) ==
    LET fr == frames[p]
    IN  /\ At(p, "load", "action")
        /\ \/ fr.error /\ frames' = With(p, Retry(fr))
           \/ ~fr.error /\ fr.state # "I" /\ Goto(p, "unlock")
           \/ /\ ~fr.error /\ fr.state = "I"
              /\ frames' = CallRequest(p, fr, "request",
                              UpDown("read_request", "miss", fr.mod, fr.tag), Low[fr.mod])
        /\ UNCHANGED <<cache, dir, accesses, unsaved>>

\* The handler of frame p unlocks the directory entry of fr at module m, leaves
\* e in it, and goes on with the frames F.
UnlockEntry(m, w, e, F) ==
    /\ dir' = [dir EXCEPT ![m][w] = Unlocked(e)]
    /\ frames' = WakeupAll(F, m, w)

\* A variant with a bug: the entry stays locked (what nc_store_action does).
RetryOnly(p) == frames' = With(p, Retry(frames[p])) /\ UNCHANGED dir

\* A request failed: the access unlocks its own entry and starts anew.
UnlockAndRetry(p) ==
    LET fr == frames[p]
    IN  UnlockEntry(fr.mod, fr.way, dir[fr.mod][fr.way], With(p, Retry(fr)))

\* load_miss
LoadMiss(p) ==
    LET fr == frames[p]
    IN  /\ At(p, "load", "miss")
        /\ \/ fr.error /\ UnlockAndRetry(p) /\ UNCHANGED cache
           \/ /\ ~fr.error
              /\ setBlock(fr.mod, fr.way, fr.tag, IF fr.shared THEN "S" ELSE "E")
              /\ Goto(p, "unlock")
              /\ UNCHANGED dir
        /\ UNCHANGED <<accesses, unsaved>>

\* load_unlock
LoadUnlock(p) ==
    LET fr == frames[p]
    IN  /\ At(p, "load", "unlock")
        /\ UnlockEntry(fr.mod, fr.way, dir[fr.mod][fr.way],
                       With(p, [fr EXCEPT !.pc = "finish"]))
        /\ UNCHANGED <<cache, accesses, unsaved>>

\* load_finish, store_finish and nc_store_finish, with Module::FinishAccess.
Finish(a) ==
    /\ frames[<<a>>].pc = "finish"
    /\ frames' = [q \in DOMAIN frames \ {<<a>>} |-> frames[q]]
    /\ \E i \in 1..Len(accesses[frames[<<a>>].mod]) :
          /\ accesses[frames[<<a>>].mod][i] = a
          /\ accesses' = [accesses EXCEPT ![frames[<<a>>].mod] = RemoveAt(@, i)]
    /\ UNCHANGED <<cache, dir, unsaved>>

\* store_action
StoreAction(p) ==
    LET fr == frames[p]
    IN  /\ At(p, "store", "action")
        /\ \/ fr.error /\ frames' = With(p, Retry(fr))
           \/ ~fr.error /\ fr.state \in {"M", "E"} /\ Goto(p, "unlock")
           \/ /\ ~fr.error /\ fr.state \notin {"M", "E"}
              /\ frames' = CallRequest(p, fr, "request",
                              UpDown("write_request", "unlock", fr.mod, fr.addr), Low[fr.mod])
        /\ UNCHANGED <<cache, dir, accesses, unsaved>>

\* store_unlock: the block has new data now.
StoreUnlock(p) ==
    LET fr == frames[p]
    IN  /\ At(p, "store", "unlock")
        /\ \/ fr.error /\ UnlockAndRetry(p) /\ UNCHANGED <<cache, unsaved>>
           \/ /\ ~fr.error
              /\ setBlock(fr.mod, fr.way, fr.tag, "M")
              /\ UnlockEntry(fr.mod, fr.way, dir[fr.mod][fr.way],
                             With(p, [fr EXCEPT !.pc = "finish"]))
              /\ unsaved' = unsaved \cup {fr.tag}
        /\ UNCHANGED accesses
-----------------------------------------------------------------------------
(* find_and_lock *)

\* find_and_lock_port finds no block that a down-up request asks for, and does
\* not bring it in.
FindAndLockNotFound(p) ==
    LET fr == frames[p]
    IN  /\ At(p, "find_and_lock", "find")
        /\ Matches(fr.mod, fr.addr) = {} /\ fr.dir = "downup"
        /\ frames' = Return(p, [Parent(p) EXCEPT !.notFound = TRUE])
        /\ UNCHANGED <<cache, dir, accesses, unsaved>>

\* Otherwise find_and_lock_port goes on with way w: the one that matches, or a
\* victim.
FindsWay(p, w) ==
    LET fr == frames[p]
    IN  /\ At(p, "find_and_lock", "find")
        /\ Matches(fr.mod, fr.addr) # {} \/ fr.dir # "downup"
        /\ w \in FindWays(fr.mod, fr.addr)

\* The entry is locked, and the chain returns an error.
FindAndLockError(p, w) ==
    /\ FindsWay(p, w)
    /\ isEntryLocked(frames[p].mod, w) /\ ~frames[p].blocking
    /\ frames' = Return(p, [Parent(p) EXCEPT !.error = TRUE])
    /\ UNCHANGED <<cache, dir, accesses, unsaved>>

\* The entry is locked, and the frame waits for it (Directory::LockEntry).
FindAndLockWait(p, w) ==
    /\ FindsWay(p, w)
    /\ isEntryLocked(frames[p].mod, w) /\ frames[p].blocking
    /\ frames' = With(p, [frames[p] EXCEPT !.pc = "wait", !.way = w])
    /\ UNCHANGED <<cache, dir, accesses, unsaved>>

\* The frame locks the entry, and a victim will be evicted.
FindAndLockTake(p, w) ==
    LET fr == frames[p]
        b == cache[fr.mod][w]
    IN  /\ FindsWay(p, w)
        /\ ~isEntryLocked(fr.mod, w)
        /\ dir' = [dir EXCEPT ![fr.mod][w] = [@ EXCEPT !.lock = Head(p)]]
        /\ cache' = [cache EXCEPT ![fr.mod][w] = [@ EXCEPT !.transient = fr.addr]]
        /\ frames' = With(p, [fr EXCEPT !.pc = "action", !.way = w, !.tag = fr.addr,
                                !.state = b.state, !.hit = Matches(fr.mod, fr.addr) # {}])
        /\ UNCHANGED <<accesses, unsaved>>

EvictFrame(ret, m, w) ==
    [NewFrame("evict", ret, m, NoTag) EXCEPT !.pc = "evict", !.way = w]

\* find_and_lock_action: evict the victim, if it is a valid block.
FindAndLockAction(p) ==
    LET fr == frames[p]
    IN  /\ At(p, "find_and_lock", "action")
        /\ IF ~fr.hit /\ fr.state # "I"
           THEN frames' = Call(With(p, [fr EXCEPT !.pc = "call", !.error = FALSE,
                                                  !.eviction = TRUE]),
                               Append(p, "evict"), EvictFrame("finish", fr.mod, fr.way))
           ELSE Goto(p, "finish")
        /\ UNCHANGED <<cache, dir, accesses, unsaved>>

\* A variant with a bug: the caller does not hear of the error.
FindAndLockFailedQuiet(p) ==
    LET fr == frames[p]
    IN  /\ At(p, "find_and_lock", "finish") /\ fr.error
        /\ UnlockEntry(fr.mod, fr.way, dir[fr.mod][fr.way], Return(p, Parent(p)))
        /\ UNCHANGED <<cache, accesses, unsaved>>

\* find_and_lock_finish after an eviction that failed.
FindAndLockFailed(p) ==
    LET fr == frames[p]
    IN  /\ At(p, "find_and_lock", "finish") /\ fr.error
        /\ UnlockEntry(fr.mod, fr.way, dir[fr.mod][fr.way],
                       Return(p, [Parent(p) EXCEPT !.error = TRUE]))
        /\ UNCHANGED <<cache, accesses, unsaved>>

\* find_and_lock_finish: the way is free now, or holds the block.  Main memory
\* always has the block.
FindAndLockFinish(p) ==
    LET fr == frames[p]
        state == IF fr.eviction THEN cache[fr.mod][fr.way].state ELSE fr.state
        present == IF fr.mod = MainMemory /\ state = "I" THEN "E" ELSE state
    IN  /\ At(p, "find_and_lock", "finish") /\ ~fr.error
        /\ IF present # state THEN setBlock(fr.mod, fr.way, fr.tag, present)
           ELSE IF fr.eviction THEN setBlock(fr.mod, fr.way, NoTag, "I")
           ELSE UNCHANGED cache
        /\ frames' = Return(p, [Parent(p) EXCEPT !.error = FALSE, !.way = fr.way,
                                   !.state = present, !.tag = fr.tag])
        /\ UNCHANGED <<dir, accesses, unsaved>>
-----------------------------------------------------------------------------
(* invalidate *)

\* invalidate: all sharers but one leave the directory entry, and each of them
\* gets a down-up write request.
Invalidate(p) ==
    LET fr == frames[p]
        b == cache[fr.mod][fr.way]
        S == dir[fr.mod][fr.way].sharers \ {fr.except}
        me == [fr EXCEPT !.pc = "finish", !.tag = b.tag, !.state = b.state]
    IN  /\ At(p, "invalidate", "invalidate")
        /\ dir' = [dir EXCEPT ![fr.mod][fr.way] = Without(@, S)]
        /\ frames' = IF S = {} THEN Return(p, Parent(p))
                     ELSE [q \in DOMAIN frames \cup {Append(p, i) : i \in S}
                                 \cup {Append(Append(p, i), "find") : i \in S} |->
                             IF q = p THEN me
                             ELSE IF q \in DOMAIN frames THEN frames[q]
                             ELSE IF Len(q) = Len(p) + 1
                             THEN [DownUp("write_request", "finish", fr.mod, b.tag)
                                     EXCEPT !.pc = "call", !.target = Last(q)]
                             ELSE [DownUp("find_and_lock", "action", q[Len(p) + 1], b.tag)
                                     EXCEPT !.blocking = TRUE]]
        /\ UNCHANGED <<cache, accesses, unsaved>>

\* The state of a block after its higher caches have sent data down to it.
Written(s) == IF s = "E" THEN "M" ELSE IF s = "S" THEN "N" ELSE s

\* The block t of module m gets data that a higher cache had: main memory has it
\* then.
Saved(m, t, data) ==
    unsaved' = IF m = MainMemory /\ data THEN unsaved \ {t} ELSE unsaved

\* A variant with a bug: the chain returns after the first reply.
InvalidateFinishFirst(p, q) ==
    /\ At(p, "invalidate", "finish")
    /\ q \in Children(p) /\ At(q, "write_request", "reply")
    /\ frames' = [r \in DOMAIN frames \ {p, q} |->
                     IF r = Front(p) THEN [frames[r] EXCEPT !.pc = frames[p].ret] ELSE frames[r]]
    /\ UNCHANGED <<cache, dir, accesses, unsaved>>

\* invalidate_finish, when the reply q of a sharer arrives; after the last one the
\* chain returns.
InvalidateFinish(p, q) ==
    LET fr == frames[p]
    IN  /\ At(p, "invalidate", "finish")
        /\ q \in Children(p) /\ At(q, "write_request", "reply")
        /\ IF fr.reply = "AckData"
           THEN setBlock(fr.mod, fr.way, fr.tag, Written(fr.state))
           ELSE UNCHANGED cache
        /\ Saved(fr.mod, fr.tag, frames[q].data)
        /\ frames' = IF Children(p) = {q}
                     THEN [r \in DOMAIN frames \ {p, q} |->
                             IF r = Front(p) THEN [frames[r] EXCEPT !.pc = fr.ret]
                             ELSE frames[r]]
                     ELSE [r \in DOMAIN frames \ {q} |-> frames[r]]
        /\ UNCHANGED <<dir, accesses>>
-----------------------------------------------------------------------------
(* evict *)

\* A variant with a bug: the higher caches keep the block.
EvictKeepSharers(p) ==
    LET fr == frames[p]
        b == cache[fr.mod][fr.way]
    IN  /\ At(p, "evict", "evict")
        /\ frames' = With(p, [fr EXCEPT !.pc = "invalid", !.state = b.state, !.tag = b.tag,
                                        !.srcTag = b.tag, !.srcWay = fr.way])
        /\ UNCHANGED <<cache, dir, accesses, unsaved>>

\* evict: read the block and invalidate the higher caches.
Evict(p) ==
    LET fr == frames[p]
        b == cache[fr.mod][fr.way]
    IN  /\ At(p, "evict", "evict")
        /\ frames' = Call(With(p, [fr EXCEPT !.pc = "call", !.state = b.state, !.tag = b.tag,
                                             !.srcTag = b.tag, !.srcWay = fr.way]),
                          Append(p, "invalidate"),
                          [NewFrame("invalidate", "invalid", fr.mod, NoTag) EXCEPT
                              !.pc = "invalidate", !.way = fr.way])
        /\ UNCHANGED <<cache, dir, accesses, unsaved>>

\* evict_invalid and evict_action: main memory just drops the block; a cache
\* sends it down, or a notice that it drops it.  A block that is invalid by now
\* needs neither.
EvictInvalid(p) ==
    LET fr == frames[p]
        state == cache[fr.mod][fr.way].state
        data == Dirty(state)
    IN  /\ At(p, "evict", "invalid")
        /\ IF fr.mod = MainMemory
           THEN /\ setBlock(fr.mod, fr.srcWay, NoTag, "I")
                /\ frames' = Return(p, Parent(p))
           ELSE /\ UNCHANGED cache
                /\ IF state = "I" THEN frames' = Return(p, Parent(p))
                   ELSE frames' = CallFindAndLock(p,
                           [fr EXCEPT !.state = state, !.data = data,
                                      !.reply = IF data THEN "AckData" ELSE "Ack",
                                      !.target = Low[fr.mod]],
                           IF state = "N" THEN "process_noncoherent" ELSE "process",
                           Low[fr.mod], fr.srcTag, "downup", FALSE)
        /\ UNCHANGED <<dir, accesses, unsaved>>

\* The error path of evict_process and evict_process_noncoherent.
EvictError(p) ==
    LET fr == frames[p]
    IN  /\ fr.kind = "evict" /\ fr.pc \in {"process", "process_noncoherent"} /\ fr.error
        /\ frames' = [With(p, [fr EXCEPT !.pc = "reply"]) EXCEPT ![Front(p)].error = TRUE]
        /\ UNCHANGED <<cache, dir, accesses, unsaved>>

\* evict_process and evict_process_noncoherent: the lower module takes the data
\* and forgets the higher one.  Other states of the lower block are a panic.
EvictProcess(p) ==
    LET fr == frames[p]
        low == fr.target
    IN  /\ fr.kind = "evict" /\ ~fr.error
        /\ \/ fr.pc = "process" /\ (fr.reply = "AckData" => fr.state \in {"E", "M"})
           \/ fr.pc = "process_noncoherent" /\ fr.state # "I"
        /\ IF fr.reply = "AckData"
           THEN setBlock(low, fr.way, fr.tag, Written(fr.state))
           ELSE UNCHANGED cache
        /\ Saved(low, fr.tag, fr.data)
        /\ UnlockEntry(low, fr.way, Without(dir[low][fr.way], {fr.mod}),
                       With(p, [fr EXCEPT !.pc = "reply", !.data = FALSE]))
        /\ UNCHANGED accesses

\* evict_reply_receive
EvictReplyReceive(p) ==
    LET fr == frames[p]
    IN  /\ At(p, "evict", "reply")
        /\ IF fr.error THEN UNCHANGED cache ELSE setBlock(fr.mod, fr.srcWay, NoTag, "I")
        /\ frames' = Return(p, Parent(p))
        /\ UNCHANGED <<dir, accesses, unsaved>>
-----------------------------------------------------------------------------
(* write_request *)

\* write_request_action: the find-and-lock chain failed; or the block is gone
\* already, which an acknowledgement tells.
WriteRequestNoBlock(p) ==
    LET fr == frames[p]
    IN  /\ At(p, "write_request", "action")
        /\ fr.error \/ fr.notFound
        /\ frames' = [With(p, [fr EXCEPT !.pc = "reply"]) EXCEPT ![Front(p)] =
                         IF fr.error THEN [@ EXCEPT !.error = TRUE]
                         ELSE SetReplyIfHigher(@, "Ack")]
        /\ UNCHANGED <<cache, dir, accesses, unsaved>>

\* write_request_action: the other higher caches are invalidated.
WriteRequestAction(p) ==
    LET fr == frames[p]
    IN  /\ At(p, "write_request", "action")
        /\ ~fr.error /\ ~fr.notFound
        /\ frames' = Call(With(p, [fr EXCEPT !.pc = "call"]), Append(p, "invalidate"),
                          [NewFrame("invalidate", "exclusive", fr.target, fr.addr) EXCEPT
                              !.pc = "invalidate", !.way = fr.way, !.except = fr.mod])
        /\ UNCHANGED <<cache, dir, accesses, unsaved>>

\* write_request_updown: a module that does not own the block asks the one below.
WriteRequestUpdown(p) ==
    LET fr == frames[p]
    IN  /\ At(p, "write_request", "exclusive") /\ fr.dir = "updown"
        /\ IF fr.state \in {"M", "E"}
           THEN Goto(p, "updown_finish")
           ELSE frames' = CallRequest(p, fr, "request",
                   UpDown("write_request", "updown_finish", fr.target, fr.tag),
                   Low[fr.target])
        /\ UNCHANGED <<cache, dir, accesses, unsaved>>

\* write_request_updown_finish: the requester becomes owner and only sharer.
WriteRequestUpdownFinish(p) ==
    LET fr == frames[p]
        e == dir[fr.target][fr.way]
        replying == With(p, [fr EXCEPT !.pc = "reply"])
    IN  /\ At(p, "write_request", "updown_finish")
        /\ \/ /\ fr.error
              /\ UnlockEntry(fr.target, fr.way, e,
                             [replying EXCEPT ![Front(p)].error = TRUE])
              /\ UNCHANGED cache
           \/ /\ ~fr.error
              /\ setBlock(fr.target, fr.way, fr.tag, "E")
              /\ UnlockEntry(fr.target, fr.way, WithOwner(e, fr.mod), replying)
        /\ UNCHANGED <<accesses, unsaved>>

\* A variant with a bug: the block stays, as for a down-up read request.
WriteRequestDownupShared(p) ==
    LET fr == frames[p]
    IN  /\ At(p, "write_request", "exclusive") /\ fr.dir = "downup"
        /\ fr.state # "I"
        /\ setBlock(fr.target, fr.way, fr.tag, "S")
        /\ UnlockEntry(fr.target, fr.way, dir[fr.target][fr.way],
              [With(p, [fr EXCEPT !.pc = "reply"]) EXCEPT
                  ![Front(p)] = SetReplyIfHigher(@, "Ack")])
        /\ UNCHANGED <<accesses, unsaved>>

\* write_request_downup and write_request_downup_finish: the block goes, with
\* its data if the state that find-and-lock saw was a modified one.  An invalid
\* state is a panic.
WriteRequestDownup(p) ==
    LET fr == frames[p]
        data == Dirty(fr.state)
    IN  /\ At(p, "write_request", "exclusive") /\ fr.dir = "downup"
        /\ fr.state # "I"
        /\ setBlock(fr.target, fr.way, NoTag, "I")
        /\ UnlockEntry(fr.target, fr.way, dir[fr.target][fr.way],
              [With(p, [fr EXCEPT !.pc = "reply", !.data = data]) EXCEPT
                  ![Front(p)] = SetReplyIfHigher(@, IF data THEN "AckData" ELSE "Ack")])
        /\ UNCHANGED <<accesses, unsaved>>

\* write_request_finish of an up-down request; InvalidateFinish is that of the others.
WriteRequestFinish(p) ==
    /\ At(p, "write_request", "reply") /\ frames[p].dir = "updown"
    /\ frames' = Return(p, Parent(p))
    /\ UNCHANGED <<cache, dir, accesses, unsaved>>
-----------------------------------------------------------------------------
(* read_request *)

\* read_request_action, like write_request_action.
ReadRequestNoBlock(p) ==
    LET fr == frames[p]
    IN  /\ At(p, "read_request", "action")
        /\ fr.error \/ fr.notFound
        /\ frames' = [With(p, [fr EXCEPT !.pc = "reply"]) EXCEPT ![Front(p)] =
                         IF fr.error THEN [@ EXCEPT !.error = TRUE]
                         ELSE SetReplyIfHigher(@, "Ack")]
        /\ UNCHANGED <<cache, dir, accesses, unsaved>>

\* read_request_updown: an owner other than the requester is asked for the
\* block, or the module below, if this one does not have it.
ReadRequestUpdown(p) ==
    LET fr == frames[p]
        owner == dir[fr.target][fr.way].owner
    IN  /\ At(p, "read_request", "action") /\ fr.dir = "updown"
        /\ ~fr.error /\ ~fr.notFound
        /\ frames' =
              IF fr.state = "I"
              THEN CallRequest(p, fr, "request",
                      UpDown("read_request", "updown_miss", fr.target, fr.tag), Low[fr.target])
              ELSE IF owner \notin {NoModule, fr.mod}
              THEN CallRequest(p, fr, "request",
                      DownUp("read_request", "updown_finish", fr.target, fr.tag), owner)
              ELSE With(p, [fr EXCEPT !.pc = "updown_finish"])
        /\ UNCHANGED <<cache, dir, accesses, unsaved>>

\* read_request_updown_miss
ReadRequestUpdownMiss(p) ==
    LET fr == frames[p]
    IN  /\ At(p, "read_request", "updown_miss")
        /\ \/ /\ fr.error
              /\ UnlockEntry(fr.target, fr.way, dir[fr.target][fr.way],
                    [With(p, [fr EXCEPT !.pc = "reply"]) EXCEPT ![Front(p)].error = TRUE])
              /\ UNCHANGED cache
           \/ /\ ~fr.error
              /\ setBlock(fr.target, fr.way, fr.tag, IF fr.shared THEN "S" ELSE "E")
              /\ Goto(p, "updown_finish")
              /\ UNCHANGED dir
        /\ UNCHANGED <<accesses, unsaved>>

\* A variant with a bug: the sharing below this module is not looked at.
IsSharedHere(fr, sharers) == Cardinality(sharers) > 1 \/ fr.nc_write

\* A variant with a bug: the other sharers are not looked at.
IsSharedBelow(fr, sharers) ==
    fr.nc_write \/ fr.shared \/ fr.state \in {"O", "N", "S"}

\* Is the block, with these sharers now, shared for the requester fr.mod?
IsShared(fr, sharers) ==
    \/ Cardinality(sharers) > 1
    \/ fr.nc_write \/ fr.shared
    \/ fr.state \in {"O", "N", "S"}

\* A variant with a bug: an exclusive requester does not become the owner.
NewOwnerNone(owner, m, shared) == IF owner = m THEN m ELSE NoModule

\* An owner other than requester m loses the ownership; m gets it if no other
\* cache shares the block.
NewOwner(owner, m, shared) == IF owner = m \/ ~shared THEN m ELSE NoModule

\* read_request_updown_finish: the requester becomes a sharer, or the owner.
ReadRequestUpdownFinish(p) ==
    LET fr == frames[p]
        e == dir[fr.target][fr.way]
        sharers == e.sharers \cup {fr.mod}
        shared == IsShared(fr, sharers)
    IN  /\ At(p, "read_request", "updown_finish")
        /\ UnlockEntry(fr.target, fr.way,
              [e EXCEPT !.sharers = sharers, !.owner = NewOwner(@, fr.mod, shared)],
              [With(p, [fr EXCEPT !.pc = "reply"]) EXCEPT ![Front(p)].shared = shared])
        /\ UNCHANGED <<cache, accesses, unsaved>>

\* read_request_downup: the owner above is asked, if there is one.
ReadRequestDownup(p) ==
    LET fr == frames[p]
        owner == dir[fr.target][fr.way].owner
    IN  /\ At(p, "read_request", "action") /\ fr.dir = "downup"
        /\ ~fr.error /\ ~fr.notFound
        /\ frames' =
              IF owner # NoModule
              THEN CallRequest(p, fr, "request",
                      DownUp("read_request", "downup_finish", fr.target, fr.tag), owner)
              ELSE With(p, [fr EXCEPT !.pc = "downup_finish"])
        /\ UNCHANGED <<cache, dir, accesses, unsaved>>

\* read_request_downup_finish: the block becomes shared, and its data goes down
\* if the owner sent data or, without an owner, if it was modified here.
ReadRequestDownupFinish(p) ==
    LET fr == frames[p]
        e == dir[fr.target][fr.way]
        data == \/ fr.reply = "AckData"
                \/ fr.reply = "None" /\ Dirty(fr.state)
    IN  /\ At(p, "read_request", "downup_finish")
        /\ fr.reply = "None" => fr.state # "I"
        /\ setBlock(fr.target, fr.way, fr.tag, "S")
        /\ UnlockEntry(fr.target, fr.way,
              IF fr.reply = "None" THEN e ELSE [e EXCEPT !.owner = NoModule],
              [With(p, [fr EXCEPT !.pc = "reply", !.data = data]) EXCEPT
                  ![Front(p)] = SetReplyIfHigher(@, IF data THEN "AckData" ELSE "Ack")])
        /\ UNCHANGED <<accesses, unsaved>>

\* read_request_finish
ReadRequestFinish(p) ==
    /\ At(p, "read_request", "reply")
    /\ frames' = Return(p, Parent(p))
    /\ Saved(frames[p].mod, frames[p].addr, frames[p].data)
    /\ UNCHANGED <<cache, dir, accesses>>
-----------------------------------------------------------------------------
(* nc_store and its message *)

\* nc_store_writeback: data that this cache has modified is evicted.
NCStoreWriteback(p) ==
    LET fr == frames[p]
    IN  /\ At(p, "nc_store", "writeback")
        /\ \/ fr.error /\ frames' = With(p, Retry(fr))
           \/ ~fr.error /\ fr.state \notin {"M", "O"} /\ Goto(p, "action")
           \/ /\ ~fr.error /\ fr.state \in {"M", "O"}
              /\ frames' = Call(With(p, [fr EXCEPT !.pc = "call", !.error = FALSE]),
                                Append(p, "evict"), EvictFrame("action", fr.mod, fr.way))
        /\ UNCHANGED <<cache, dir, accesses, unsaved>>

\* nc_store_action.  After a failed eviction the chain is retried with the
\* directory entry locked.
NCStoreAction(p) ==
    LET fr == frames[p]
    IN  /\ At(p, "nc_store", "action")
        /\ \/ fr.error /\ frames' = With(p, Retry(fr))
           \/ ~fr.error /\ fr.state \in {"S", "N"} /\ Goto(p, "unlock")
           \/ /\ ~fr.error /\ fr.state = "E"
              /\ frames' = CallRequest(p, fr, "request",
                              NewFrame("message", "miss", fr.mod, fr.tag), Low[fr.mod])
           \/ /\ ~fr.error /\ fr.state \in {"M", "O", "I"}
              /\ frames' = CallRequest(p, fr, "request",
                              [UpDown("read_request", "miss", fr.mod, fr.tag) EXCEPT
                                  !.nc_write = TRUE], Low[fr.mod])
        /\ UNCHANGED <<cache, dir, accesses, unsaved>>

\* nc_store_miss
NCStoreMiss(p) ==
    /\ At(p, "nc_store", "miss")
    /\ IF frames[p].error THEN UnlockAndRetry(p) ELSE Goto(p, "unlock") /\ UNCHANGED dir
    /\ UNCHANGED <<cache, accesses, unsaved>>

\* nc_store_unlock: the block has new data, which is not coherent.
NCStoreUnlock(p) ==
    LET fr == frames[p]
    IN  /\ At(p, "nc_store", "unlock")
        /\ setBlock(fr.mod, fr.way, fr.tag, "N")
        /\ UnlockEntry(fr.mod, fr.way, dir[fr.mod][fr.way],
                       With(p, [fr EXCEPT !.pc = "finish"]))
        /\ unsaved' = unsaved \cup {fr.tag}
        /\ UNCHANGED accesses

\* message_action: the lower module forgets the owner of the block.
MessageAction(p) ==
    LET fr == frames[p]
        e == dir[fr.target][fr.way]
        replying == With(p, [fr EXCEPT !.pc = "reply"])
    IN  /\ At(p, "message", "action")
        /\ \/ /\ fr.error
              /\ frames' = [replying EXCEPT ![Front(p)].error = TRUE]
              /\ UNCHANGED dir
           \/ /\ ~fr.error
              /\ UnlockEntry(fr.target, fr.way, [e EXCEPT !.owner = NoModule], replying)
        /\ UNCHANGED <<cache, accesses, unsaved>>

\* message_finish
MessageFinish(p) ==
    /\ At(p, "message", "reply")
    /\ frames' = Return(p, Parent(p))
    /\ UNCHANGED <<cache, dir, accesses, unsaved>>
-----------------------------------------------------------------------------
LoadStep(p) == LoadAction(p) \/ LoadMiss(p) \/ LoadUnlock(p)
StoreStep(p) == StoreAction(p) \/ StoreUnlock(p)
NCStoreStep(p) ==
    NCStoreWriteback(p) \/ NCStoreAction(p) \/ NCStoreMiss(p) \/ NCStoreUnlock(p)
FindAndLockStep(p) ==
    \/ FindAndLockNotFound(p)
    \/ \E w \in Ways(frames[p].mod) :
          FindAndLockError(p, w) \/ FindAndLockWait(p, w) \/ FindAndLockTake(p, w)
    \/ FindAndLockAction(p) \/ FindAndLockFailed(p) \/ FindAndLockFinish(p)
InvalidateStep(p) == Invalidate(p) \/ \E q \in Children(p) : InvalidateFinish(p, q)
EvictStep(p) ==
    Evict(p) \/ EvictInvalid(p) \/ EvictError(p) \/ EvictProcess(p) \/ EvictReplyReceive(p)
WriteRequestStep(p) ==
    \/ WriteRequestNoBlock(p) \/ WriteRequestAction(p) \/ WriteRequestUpdown(p)
    \/ WriteRequestUpdownFinish(p) \/ WriteRequestDownup(p) \/ WriteRequestFinish(p)
ReadRequestStep(p) ==
    \/ ReadRequestNoBlock(p) \/ ReadRequestUpdown(p) \/ ReadRequestUpdownMiss(p)
    \/ ReadRequestUpdownFinish(p) \/ ReadRequestDownup(p) \/ ReadRequestDownupFinish(p)
    \/ ReadRequestFinish(p)
MessageStep(p) == MessageAction(p) \/ MessageFinish(p)

AccessStep(a) == LoadLock(a) \/ StoreLock(a) \/ NCStoreLock(a) \/ Finish(a)

ChainStep(p) ==
    \/ LoadStep(p) \/ StoreStep(p) \/ NCStoreStep(p) \/ FindAndLockStep(p)
    \/ InvalidateStep(p) \/ EvictStep(p) \/ WriteRequestStep(p) \/ ReadRequestStep(p)
    \/ MessageStep(p)

Next ==
    \/ \E kind \in AccessTypes, m \in TopModules, t \in Tags : Issue(kind, m, t)
    \/ \E a \in Accesses : <<a>> \in DOMAIN frames /\ AccessStep(a)
    \/ \E p \in DOMAIN frames : ChainStep(p)

Spec == Init /\ [][Next]_vars
-----------------------------------------------------------------------------
\* Types, and the tree of calls: every event chain but that of an access has a
\* caller that is still there, however many requests the caller has called.
TypeOK ==
    /\ CachesTypeOK
    /\ \A m \in Modules : accesses[m] \in Seq(Accesses)
    /\ \A p \in DOMAIN frames :
          /\ Head(p) \in Accesses
          /\ Len(p) > 1 => Front(p) \in DOMAIN frames
          /\ frames[p].mod \in Modules /\ frames[p].target \in Modules
          /\ frames[p].except \in Modules \cup {NoModule}
          /\ frames[p].state \in BlockStates
          /\ frames[p].tag \in Tags \cup {NoTag}
    /\ unsaved \subseteq Tags

\* The ways of the module below that hold the block of way w of cache m.
WaysBelow(m, w) == Matches(Low[m], cache[m][w].tag)

\* Rule 1 of System::SanityCheck: the lower module has every block that a cache
\* has, in a valid state, unless the cache is working on it.  This relates the
\* evictions of the lower module, the down-up requests that they send and the
\* misses that go on above.
LowerModuleHasBlock ==
    \A m \in Modules \ {MainMemory} : \A w \in Ways(m) :
        cache[m][w].state # "I" /\ ~isEntryLocked(m, w) =>
            \E v \in WaysBelow(m, w) : cache[Low[m]][v].state # "I"

\* Is the entry of a block locked neither in the cache nor in the module below?
AtRest(m, w) ==
    /\ ~isEntryLocked(m, w)
    /\ \A v \in WaysBelow(m, w) : ~isEntryLocked(Low[m], v)

\* Rule 2 of System::SanityCheck, for blocks at rest: the lower directory has a
\* cache with a block in state E or M as the owner and only sharer.
OwnerIsKnown ==
    \A m \in Modules \ {MainMemory} : \A w \in Ways(m) :
        cache[m][w].state \in {"E", "M"} /\ AtRest(m, w) =>
            \E v \in WaysBelow(m, w) :
                dir[Low[m]][v].owner = m /\ dir[Low[m]][v].sharers = {m}

\* The lower directory knows every copy of a block at rest, so that an
\* invalidation misses none: write requests, read requests, evictions and
\* non-coherent stores change the copy and the entry in different events.
CopiesAreKnown ==
    \A m \in Modules \ {MainMemory} : \A w \in Ways(m) :
        cache[m][w].state # "I" /\ AtRest(m, w) =>
            \E v \in WaysBelow(m, w) : m \in dir[Low[m]][v].sharers

\* Has cache m given way w up already, for the lower module, because of an
\* eviction or of a non-coherent store whose reply it waits for?
GivenUp(m, w) ==
    \E p \in DOMAIN frames :
        /\ frames[p].mod = m
        /\ \/ At(p, "evict", "reply") /\ frames[p].srcWay = w
           \/ At(p, "message", "reply") /\ Parent(p).way = w
           \/ At(p, "nc_store", "miss") /\ frames[p].way = w
           \/ At(p, "nc_store", "unlock") /\ frames[p].way = w

\* While a cache has a block in state E or M, and has not given it up, no other
\* cache above the same module has a copy of it: load, store, eviction and their
\* requests change the two caches and the directory between them in many events.
SingleWriter ==
    \A m, n \in Modules \ {MainMemory} : \A v \in Ways(m), w \in Ways(n) :
        /\ m # n /\ Low[m] = Low[n]
        /\ cache[m][v].state \in {"E", "M"} /\ ~GivenUp(m, v)
        /\ cache[n][w].tag = cache[m][v].tag /\ ~GivenUp(n, w)
        => cache[n][w].state = "I"

\* The accesses that access a waits for: for their lock of a directory entry, or
\* for them to finish.
WaitsFor(a) ==
    {dir[frames[p].mod][frames[p].way].lock :
        p \in {q \in DOMAIN frames : Head(q) = a /\ frames[q].pc = "wait"}}
    \cup (IF frames[<<a>>].pc = "lock" THEN Blockers(a) ELSE {})

\* No accesses wait for each other in a circle, though each locks directory
\* entries of several modules, and up-down and down-up requests lock them in
\* opposite orders: find_and_lock returns an error to the first ones (line 1216).
NoCircularWait ==
    \A S \in SUBSET {a \in Accesses : <<a>> \in DOMAIN frames} :
        S # {} => \E a \in S : WaitsFor(a) \cap S = {}

\* A find-and-lock chain that waits for a directory entry waits for a lock that
\* an access in flight holds, so UnlockEntry will wake it up.
NoLostWakeup ==
    \A p \in DOMAIN frames :
        frames[p].pc = "wait" =>
            <<dir[frames[p].mod][frames[p].way].lock>> \in DOMAIN frames

\* An access holds no lock when it starts, when it starts anew after an error of
\* any request, and when it has finished.
LocksAreReleased ==
    \A m \in Modules : \A w \in Ways(m) :
        isEntryLocked(m, w) =>
            LET root == <<dir[m][w].lock>>
            IN  root \in DOMAIN frames /\ frames[root].pc \notin {"lock", "finish"}

\* The events that unlock an entry of the frame's own module, or of its target.
UnlocksModule(fr) ==
    \/ fr.kind \in {"load", "store", "nc_store"} /\ fr.pc \in {"miss", "unlock"}
    \/ fr.kind = "find_and_lock" /\ fr.pc \in {"action", "finish"}
UnlocksTarget(fr) ==
    \/ fr.kind = "write_request" /\ fr.pc \in {"exclusive", "updown_finish"}
    \/ fr.kind = "read_request" /\ fr.pc \in {"updown_miss", "updown_finish", "downup_finish"}
    \/ fr.kind = "evict" /\ fr.pc \in {"process", "process_noncoherent"} /\ ~fr.error
    \/ fr.kind = "message" /\ fr.pc = "action" /\ ~fr.error

HoldsLock(p, m) ==
    frames[p].way \in Ways(m) /\ dir[m][frames[p].way].lock = Head(p)

\* The assertion of Directory::UnlockEntry, which the build compiles out: a
\* handler unlocks what its own access has locked, though requests and evictions
\* lock entries of one access in several modules and give them up after errors.
UnlocksOwnLock ==
    \A p \in DOMAIN frames :
        LET fr == frames[p]
        IN  /\ UnlocksModule(fr) => HoldsLock(p, fr.mod)
            /\ UnlocksTarget(fr) => HoldsLock(p, fr.target)

\* An eviction finds its block in the lower module, also when that one is about
\* to evict it: evict_process does not look at block_not_found, and would work on
\* the entry of another block.
EvictFindsBlock ==
    \A p \in DOMAIN frames : frames[p].kind = "evict" => ~frames[p].notFound

\* No event meets a combination of block state and reply for which it throws
\* Panic: evict_process, evict_process_noncoherent, invalidate_finish,
\* write_request_downup and read_request_downup_finish.
NeverPanics ==
    \A p \in DOMAIN frames :
        LET fr == frames[p]
        IN  /\ At(p, "evict", "process") /\ ~fr.error /\ fr.reply = "AckData"
                  => fr.state \in {"E", "M"}
            /\ At(p, "evict", "process_noncoherent") /\ ~fr.error => fr.state # "I"
            /\ At(p, "invalidate", "finish") /\ fr.reply = "AckData" => fr.state # "I"
            /\ At(p, "write_request", "exclusive") /\ fr.dir = "downup" => fr.state # "I"
            /\ At(p, "read_request", "downup_finish") /\ fr.reply = "None"
                  => fr.state # "I"

\* "If state is M/O/N, data must be sent to lower level module" (line 1587): data
\* that main memory does not have is in a cache that will write it back, or on its
\* way down.
ModifiedDataIsKept ==
    \A t \in unsaved :
        \/ \E m \in Modules \ {MainMemory} : \E w \in Ways(m) :
              cache[m][w].tag = t /\ Dirty(cache[m][w].state)
        \/ \E p \in DOMAIN frames :
              \/ frames[p].data /\ t \in {frames[p].addr, frames[p].srcTag}
              \/ At(p, "read_request", "downup_finish") /\ frames[p].dir = "downup"
                    /\ frames[p].reply = "AckData" /\ frames[p].tag = t
=============================================================================
