----------------------------- MODULE BufferPool -----------------------------
(***************************************************************************)
(* The page cache of storage/buffer_pool: frames, page table, eviction     *)
(* queue and the disk manager under them, used by any number of threads    *)
(* (every operation takes &self).                                          *)
(*                                                                         *)
(* A step is what a thread does between two lock acquisitions.  A lock     *)
(* that is released before the next one is taken needs no variable: its    *)
(* critical section is one step.  The locks held while another is awaited  *)
(* are                                                                     *)
(*                                                                         *)
(*   pin, hit      page table (read), then the frame                       *)
(*   unpin         the frame, then the queue                               *)
(*   evict_frame   the queue, then the frame, then the disk manager, then  *)
(*                 the page table (write)                                  *)
(*   flush_page    the disk manager, then the frame                        *)
(*                                                                         *)
(* A page's contents is the number of the write that produced it, 0 for a  *)
(* page of zeros.                                                          *)
(***************************************************************************)
EXTENDS Naturals, Sequences, FiniteSets, SequencesExt

CONSTANTS
  Threads,     \* threads that use the pool
  Writers,     \* those that write, flush and allocate (single-writer model)
  Capacity,    \* number of frames
  MaxPages,    \* bound on the pages of the file
  StartPages,  \* pages the file has at the start
  Warm,        \* the pages are in the pool at the start
  MaxHandles,  \* bound on the handles a thread holds
  MaxWrites,   \* bound on the writes of a behaviour
  MaxErrors    \* bound on the I/O errors of a behaviour

ASSUME ThreadsAssumption == Writers \subseteq Threads
ASSUME CapacityAssumption == Capacity \in Nat \ {0}
ASSUME PagesAssumption == MaxPages \in Nat /\ StartPages \in 0..MaxPages
ASSUME WarmAssumption == Warm \in BOOLEAN /\ (Warm => StartPages <= Capacity)
ASSUME BoundsAssumption == MaxHandles \in Nat /\ MaxWrites \in Nat /\ MaxErrors \in Nat

Frames == 1..Capacity
Pages  == 1..MaxPages
NoPage == 0
Free   == "free"      \* a lock nobody holds

VARIABLES
  frame,     \* BufferFrame: page, data, pins, dirty
  table,     \* page_table: the frame of each page, 0 if it has none
  queue,     \* eviction_queue, oldest first
  disk,      \* the pages of the file
  npages,    \* DiskManager.next_page_idx
  known,     \* the pages whose ids the callers have been given
  at,        \* where each thread is
  op,        \* the call it is in: its kind, page, frame and local data
  handles,   \* the PageHandles each thread holds: <<page, frame>>
  tableR,    \* threads that hold page_table for reading
  frameW,    \* the thread that holds each frame for writing
  queueL,    \* the thread that holds eviction_queue
  diskL,     \* the thread that holds disk_manager
  writes, errors,  \* how often each happened (bounds)
  stranded   \* history: frames whose write-back failed after they left the queue

locks == <<tableR, frameW, queueL, diskL>>
hist  == <<writes, errors, stranded>>
vars  == <<frame, table, queue, disk, npages, known, at, op, handles, tableR, frameW, queueL,
           diskL, writes, errors, stranded>>

Empty == [page |-> NoPage, data |-> 0, pins |-> 0, dirty |-> FALSE]
NoOp  == [kind |-> "none", page |-> NoPage, frame |-> 0, data |-> 0, todo |-> {}]

-----------------------------------------------------------------------------
Init ==
  /\ npages = StartPages /\ known = 1..StartPages
  /\ disk = [p \in Pages |-> 0]
  /\ frame = [f \in Frames |->
                IF Warm /\ f <= StartPages THEN [Empty EXCEPT !.page = f] ELSE Empty]
  /\ table = [p \in Pages |-> IF Warm /\ p <= StartPages THEN p ELSE 0]
  /\ queue = IF Warm THEN [i \in 1..StartPages |-> i] ELSE <<>>
  /\ at = [t \in Threads |-> "idle"] /\ op = [t \in Threads |-> NoOp]
  /\ handles = [t \in Threads |-> {}]
  /\ tableR = {} /\ frameW = [f \in Frames |-> Free] /\ queueL = Free /\ diskL = Free
  /\ writes = 0 /\ errors = 0 /\ stranded = {}

Begin(t, kind, p) == op' = [op EXCEPT ![t] = [NoOp EXCEPT !.kind = kind, !.page = p]]
Goto(t, label)    == at' = [at EXCEPT ![t] = label]

\* A call returns to its caller.
Return(t) == Goto(t, "idle") /\ op' = [op EXCEPT ![t] = NoOp]

\* It returns a handle of page p in frame f.
ReturnHandle(t, p, f) ==
  Return(t) /\ handles' = [handles EXCEPT ![t] = @ \cup {<<p, f>>}]

MayPin(t) == at[t] = "idle" /\ Cardinality(handles[t]) < MaxHandles

-----------------------------------------------------------------------------
(* pin and new_page.                                                       *)

\* pin(p) looks the page up; on a hit it keeps the page table locked for
\* reading while it waits for the frame.  (A thread does not pin a page it
\* has pinned.)
Pin(t, p) ==
  /\ MayPin(t) /\ p \in known /\ \A h \in handles[t] : h[1] # p
  /\ Begin(t, "pin", p)
  /\ IF table[p] # 0
     THEN Goto(t, "hit") /\ tableR' = tableR \cup {t}
     ELSE Goto(t, "scan") /\ UNCHANGED tableR
  /\ UNCHANGED <<frame, table, queue, disk, npages, known, handles, frameW, queueL, diskL, hist>>

\* Seeded fault: a hit is not counted.
PinHitUncounted(t) ==
  /\ at[t] = "hit" /\ frameW[table[op[t].page]] = Free
  /\ tableR' = tableR \ {t}
  /\ ReturnHandle(t, op[t].page, table[op[t].page])
  /\ UNCHANGED <<frame, table, queue, disk, npages, known, frameW, queueL, diskL, hist>>

\* Seeded fault: the page table stays locked.
PinHitHolds(t) ==
  LET f == table[op[t].page] IN
  /\ at[t] = "hit" /\ frameW[f] = Free
  /\ frame' = [frame EXCEPT ![f].pins = @ + 1]
  /\ ReturnHandle(t, op[t].page, f)
  /\ UNCHANGED <<table, queue, disk, npages, known, locks, hist>>

PinHit(t) ==
  LET p == op[t].page
      f == table[p] IN
  /\ at[t] = "hit" /\ frameW[f] = Free
  /\ frame' = [frame EXCEPT ![f].pins = @ + 1]
  /\ tableR' = tableR \ {t}
  /\ ReturnHandle(t, p, f)
  /\ UNCHANGED <<table, queue, disk, npages, known, frameW, queueL, diskL, hist>>

NewPage(t) ==
  /\ MayPin(t) /\ t \in Writers /\ npages < MaxPages
  /\ Begin(t, "new", NoPage) /\ Goto(t, "scan")
  /\ UNCHANGED <<frame, table, queue, disk, npages, known, handles, locks, hist>>

\* find_or_evict_frame looks at one frame after the other and takes the
\* first that is empty, without reserving it.
FindFrame(t) ==
  LET f == op[t].frame + 1 IN
  /\ at[t] = "scan" /\ f \in Frames /\ frameW[f] = Free
  /\ op' = [op EXCEPT ![t].frame = f]
  /\ IF frame[f].page = NoPage THEN Goto(t, "load") ELSE UNCHANGED at
  /\ UNCHANGED <<frame, table, queue, disk, npages, known, handles, locks, hist>>

\* No frame was empty: evict_frame takes the queue.
BeginEvict(t) ==
  /\ at[t] = "scan" /\ op[t].frame = Capacity
  /\ queueL = Free /\ queueL' = t
  /\ Goto(t, "evict")
  /\ UNCHANGED <<frame, table, queue, disk, npages, known, op, handles, tableR, frameW, diskL,
                 hist>>

\* "Buffer pool is full and no pages can be evicted".
EvictFull(t) ==
  /\ at[t] = "evict" /\ queue = <<>>
  /\ queueL' = Free /\ Return(t)
  /\ UNCHANGED <<frame, table, queue, disk, npages, known, handles, tableR, frameW, diskL, hist>>

\* Seeded fault: a pinned frame goes back into the queue.
EvictPopRequeues(t) ==
  /\ at[t] = "evict" /\ queue # <<>> /\ frameW[Head(queue)] = Free
  /\ IF frame[Head(queue)].pins > 0
     THEN queue' = Append(Tail(queue), Head(queue)) /\ UNCHANGED <<frameW, op, at>>
     ELSE /\ queue' = Tail(queue)
          /\ frameW' = [frameW EXCEPT ![Head(queue)] = t]
          /\ op' = [op EXCEPT ![t].frame = Head(queue)]
          /\ Goto(t, "writeback")
  /\ UNCHANGED <<frame, table, disk, npages, known, handles, tableR, queueL, diskL, hist>>

\* The oldest frame of the queue leaves it; a pinned one is passed over.
EvictPop(t) ==
  /\ at[t] = "evict" /\ queue # <<>> /\ frameW[Head(queue)] = Free
  /\ queue' = Tail(queue)
  /\ IF frame[Head(queue)].pins > 0
     THEN UNCHANGED <<frameW, op, at>>
     ELSE /\ frameW' = [frameW EXCEPT ![Head(queue)] = t]
          /\ op' = [op EXCEPT ![t].frame = Head(queue)]
          /\ Goto(t, "writeback")
  /\ UNCHANGED <<frame, table, disk, npages, known, handles, tableR, queueL, diskL, hist>>

\* Seeded fault: the victim is dropped without being written.
EvictWriteSkipped(t) ==
  /\ at[t] = "writeback"
  /\ Goto(t, "remove")
  /\ UNCHANGED <<frame, table, queue, disk, npages, known, op, handles, locks, hist>>

\* A dirty victim is written to the file.
EvictWrite(t) ==
  LET f == op[t].frame IN
  /\ at[t] = "writeback"
  /\ IF frame[f].page # NoPage /\ frame[f].dirty
     THEN diskL = Free /\ disk' = [disk EXCEPT ![frame[f].page] = frame[f].data]
     ELSE UNCHANGED disk
  /\ Goto(t, "remove")
  /\ UNCHANGED <<frame, table, queue, npages, known, op, handles, locks, hist>>

\* The write fails: the frame keeps its page and stays out of the queue.
EvictWriteFails(t) ==
  LET f == op[t].frame IN
  /\ at[t] = "writeback" /\ frame[f].page # NoPage /\ frame[f].dirty /\ diskL = Free
  /\ errors < MaxErrors /\ errors' = errors + 1
  /\ stranded' = stranded \cup {f}
  /\ queueL' = Free /\ frameW' = [frameW EXCEPT ![f] = Free]
  /\ Return(t)
  /\ UNCHANGED <<frame, table, queue, disk, npages, known, handles, tableR, diskL, writes>>

\* Seeded fault: the page stays in the page table.
EvictRemoveNot(t) ==
  LET f == op[t].frame IN
  /\ at[t] = "remove"
  /\ frame' = [frame EXCEPT ![f].page = NoPage, ![f].dirty = FALSE, ![f].pins = 0]
  /\ queueL' = Free /\ frameW' = [frameW EXCEPT ![f] = Free]
  /\ Goto(t, "load")
  /\ UNCHANGED <<table, queue, disk, npages, known, op, handles, tableR, diskL, hist>>

\* The page leaves the page table and the frame is reset.
EvictRemove(t) ==
  LET f == op[t].frame IN
  /\ at[t] = "remove" /\ (frame[f].page # NoPage => tableR = {})
  /\ table' = IF frame[f].page # NoPage THEN [table EXCEPT ![frame[f].page] = 0] ELSE table
  /\ frame' = [frame EXCEPT ![f].page = NoPage, ![f].dirty = FALSE, ![f].pins = 0]
  /\ queueL' = Free /\ frameW' = [frameW EXCEPT ![f] = Free]
  /\ Goto(t, "load")
  /\ UNCHANGED <<queue, disk, npages, known, op, handles, tableR, diskL, hist>>

\* The page is read, or allocated at the end of the file.
Load(t) ==
  /\ at[t] = "load" /\ diskL = Free
  /\ \/ /\ op[t].kind = "pin"
        /\ op' = [op EXCEPT ![t].data = disk[op[t].page]]
        /\ UNCHANGED npages
     \/ /\ op[t].kind = "new" /\ npages < MaxPages
        /\ npages' = npages + 1
        /\ op' = [op EXCEPT ![t].page = npages + 1]
  /\ Goto(t, "install")
  /\ UNCHANGED <<frame, table, queue, disk, known, handles, locks, hist>>

\* It cannot be: the frame stays empty.  allocate_page has counted the page
\* before it extends the file, so the page is never handed out.
LoadFails(t) ==
  /\ at[t] = "load" /\ diskL = Free
  /\ \/ op[t].kind = "pin" /\ UNCHANGED npages
     \/ op[t].kind = "new" /\ npages < MaxPages /\ npages' = npages + 1
  /\ errors < MaxErrors /\ errors' = errors + 1
  /\ Return(t)
  /\ UNCHANGED <<frame, table, queue, disk, known, handles, locks, writes, stranded>>

Install(t) ==
  LET f == op[t].frame IN
  /\ at[t] = "install" /\ frameW[f] = Free
  /\ frame' = [frame EXCEPT ![f].page = op[t].page, ![f].data = op[t].data,
                            ![f].pins = @ + 1, ![f].dirty = (op[t].kind = "new")]
  /\ Goto(t, "publish")
  /\ UNCHANGED <<table, queue, disk, npages, known, op, handles, locks, hist>>

Publish(t) ==
  /\ at[t] = "publish" /\ tableR = {}
  /\ table' = [table EXCEPT ![op[t].page] = op[t].frame]
  /\ known' = known \cup {op[t].page}
  /\ ReturnHandle(t, op[t].page, op[t].frame)
  /\ UNCHANGED <<frame, queue, disk, npages, locks, hist>>

-----------------------------------------------------------------------------
(* PageHandle: data_mut and drop (unpin); data returns the frame's bytes   *)
(* and changes nothing.                                                    *)

\* Seeded fault: the frame is not marked.
MarkDirtyNot(t) ==
  /\ at[t] = "idle" /\ t \in Writers /\ writes < MaxWrites
  /\ \E h \in handles[t] :
       /\ frameW[h[2]] = Free
       /\ op' = [op EXCEPT ![t] = [NoOp EXCEPT !.kind = "write", !.frame = h[2]]]
  /\ Goto(t, "write")
  /\ UNCHANGED <<frame, table, queue, disk, npages, known, handles, locks, hist>>

\* data_mut marks the frame dirty under its lock ...
MarkDirty(t) ==
  /\ at[t] = "idle" /\ t \in Writers /\ writes < MaxWrites
  /\ \E h \in handles[t] :
       /\ frameW[h[2]] = Free
       /\ frame' = [frame EXCEPT ![h[2]].dirty = TRUE]
       /\ op' = [op EXCEPT ![t] = [NoOp EXCEPT !.kind = "write", !.frame = h[2]]]
  /\ Goto(t, "write")
  /\ UNCHANGED <<table, queue, disk, npages, known, handles, locks, hist>>

\* ... and the caller writes through the slice without it.
WriteData(t) ==
  /\ at[t] = "write"
  /\ writes' = writes + 1
  /\ frame' = [frame EXCEPT ![op[t].frame].data = writes + 1]
  /\ Return(t)
  /\ UNCHANGED <<table, queue, disk, npages, known, handles, locks, errors, stranded>>

\* unpin: the last pin of a frame keeps it locked while it waits for the
\* queue.
Unpin(t) ==
  /\ at[t] = "idle"
  /\ \E h \in handles[t] :
       LET f == h[2] IN
       /\ frameW[f] = Free
       /\ frame' = [frame EXCEPT ![f].pins = IF @ > 0 THEN @ - 1 ELSE 0]
       /\ handles' = [handles EXCEPT ![t] = @ \ {h}]
       /\ IF frame[f].pins <= 1
          THEN /\ frameW' = [frameW EXCEPT ![f] = t]
               /\ op' = [op EXCEPT ![t] = [NoOp EXCEPT !.kind = "unpin", !.frame = f]]
               /\ Goto(t, "enqueue")
          ELSE UNCHANGED <<frameW, op, at>>
  /\ UNCHANGED <<table, queue, disk, npages, known, tableR, queueL, diskL, hist>>

\* Seeded fault: the frame is not put into the queue.
EnqueueNot(t) ==
  /\ at[t] = "enqueue" /\ queueL = Free
  /\ frameW' = [frameW EXCEPT ![op[t].frame] = Free]
  /\ Return(t)
  /\ UNCHANGED <<frame, table, queue, disk, npages, known, handles, tableR, queueL, diskL, hist>>

\* Seeded fault: the frame is only appended.
PushAgain(q, f) == Append(q, f)

\* LruEvictionQueue::push moves a frame it has to the back and never holds
\* more than Capacity frames.  A frame is in the queue once at most, because
\* push is all that adds to it, so retain removes one place.
Push(q, f) ==
  LET q2 == Append(RemoveFirst(q, f), f) IN
  IF Len(q2) > Capacity THEN Tail(q2) ELSE q2

Enqueue(t) ==
  LET f == op[t].frame IN
  /\ at[t] = "enqueue" /\ queueL = Free
  /\ queue' = Push(queue, f)
  /\ frameW' = [frameW EXCEPT ![f] = Free]
  /\ stranded' = stranded \ {f}
  /\ Return(t)
  /\ UNCHANGED <<frame, table, disk, npages, known, handles, tableR, queueL, diskL, writes,
                 errors>>

-----------------------------------------------------------------------------
(* flush_all: the pages of the table, one flush_page after the other.      *)

FlushAll(t) ==
  /\ at[t] = "idle" /\ t \in Writers
  /\ op' = [op EXCEPT ![t] = [NoOp EXCEPT !.kind = "flush",
                                          !.todo = {p \in Pages : table[p] # 0}]]
  /\ Goto(t, "flush")
  /\ UNCHANGED <<frame, table, queue, disk, npages, known, handles, locks, hist>>

FlushDone(t) ==
  /\ at[t] = "flush" /\ op[t].todo = {}
  /\ Return(t)
  /\ UNCHANGED <<frame, table, queue, disk, npages, known, handles, locks, hist>>

\* flush_page finds the frame ...
FlushLookup(t, p) ==
  /\ at[t] = "flush" /\ p \in op[t].todo
  /\ op' = [op EXCEPT ![t].todo = @ \ {p}, ![t].page = p, ![t].frame = table[p]]
  /\ IF table[p] # 0 THEN Goto(t, "copy") ELSE UNCHANGED at
  /\ UNCHANGED <<frame, table, queue, disk, npages, known, handles, locks, hist>>

\* ... copies it ...
FlushCopy(t) ==
  LET f == op[t].frame IN
  /\ at[t] = "copy" /\ frameW[f] = Free
  /\ op' = [op EXCEPT ![t].data = frame[f].data]
  /\ Goto(t, IF frame[f].dirty THEN "out" ELSE "flush")
  /\ UNCHANGED <<frame, table, queue, disk, npages, known, handles, locks, hist>>

\* Seeded fault: an error of the write is ignored.
FlushWriteIgnores(t) ==
  /\ at[t] = "out" /\ diskL = Free
  /\ \/ disk' = [disk EXCEPT ![op[t].page] = op[t].data] /\ UNCHANGED errors
     \/ errors < MaxErrors /\ errors' = errors + 1 /\ UNCHANGED disk
  /\ diskL' = t /\ Goto(t, "clean")
  /\ UNCHANGED <<frame, table, queue, npages, known, op, handles, tableR, frameW, queueL,
                 writes, stranded>>

\* ... writes the copy and, still holding the disk manager, ...
FlushWrite(t) ==
  /\ at[t] = "out" /\ diskL = Free
  /\ \/ /\ disk' = [disk EXCEPT ![op[t].page] = op[t].data]
        /\ diskL' = t /\ Goto(t, "clean")
        /\ UNCHANGED <<op, errors>>
     \/ /\ errors < MaxErrors /\ errors' = errors + 1
        /\ Return(t)
        /\ UNCHANGED <<disk, diskL>>
  /\ UNCHANGED <<frame, table, queue, npages, known, handles, tableR, frameW, queueL, writes,
                 stranded>>

\* ... marks the frame clean.
FlushClean(t) ==
  LET f == op[t].frame IN
  /\ at[t] = "clean" /\ frameW[f] = Free
  /\ frame' = [frame EXCEPT ![f].dirty = FALSE]
  /\ diskL' = Free /\ Goto(t, "flush")
  /\ UNCHANGED <<table, queue, disk, npages, known, op, handles, tableR, frameW, queueL, hist>>

-----------------------------------------------------------------------------
\* The calls a thread may make, and the steps that finish a call.
Call(t) ==
  \/ \E p \in Pages : Pin(t, p)
  \/ NewPage(t) \/ MarkDirty(t) \/ Unpin(t) \/ FlushAll(t)

Run(t) ==
  \/ PinHit(t)
  \/ FindFrame(t) \/ BeginEvict(t)
  \/ EvictFull(t) \/ EvictPop(t) \/ EvictWrite(t) \/ EvictWriteFails(t) \/ EvictRemove(t)
  \/ Load(t) \/ LoadFails(t) \/ Install(t) \/ Publish(t)
  \/ WriteData(t) \/ Enqueue(t)
  \/ FlushDone(t) \/ (\E p \in Pages : FlushLookup(t, p))
  \/ FlushCopy(t) \/ FlushWrite(t) \/ FlushClean(t)

Next == \E t \in Threads : Call(t) \/ Run(t)

\* A thread inside a call goes on, and one that waits for a lock that is free
\* again and again gets it (parking_lot hands a lock over to its oldest
\* waiter every now and then); whether a thread makes calls is up to it.
Spec == Init /\ [][Next]_vars /\ \A t \in Threads : SF_vars(Run(t))

-----------------------------------------------------------------------------
(* Properties.                                                             *)

\* Every variable stays in its type.
TypeOK ==
  /\ frame \in [Frames -> [page : Pages \cup {NoPage}, data : 0..MaxWrites, pins : Nat,
                           dirty : BOOLEAN]]
  /\ table \in [Pages -> Frames \cup {0}]
  /\ queue \in Seq(Frames) /\ Len(queue) <= Capacity
  /\ disk \in [Pages -> 0..MaxWrites] /\ npages \in 0..MaxPages /\ known \subseteq 1..npages
  /\ \A t \in Threads : handles[t] \subseteq Pages \X Frames
  /\ tableR \subseteq Threads /\ frameW \in [Frames -> Threads \cup {Free}]
  /\ queueL \in Threads \cup {Free} /\ diskL \in Threads \cup {Free}

\* The handles of all threads on frame f.
Holders(f) == UNION {{t} \X {h \in handles[t] : h[2] = f} : t \in Threads}

\* A pinned page stays where it is: the frame of a handle holds the page of
\* the handle, and its pin count covers every handle (PageHandle::data reads
\* the frame without looking at the page).
HandlesValid ==
  /\ \A t \in Threads : \A h \in handles[t] : frame[h[2]].page = h[1]
  /\ \A f \in Frames : frame[f].pins >= Cardinality(Holders(f))

\* The page table and the frames agree, a page is in one frame only, and a
\* clean page is the same in the file, whenever no call is under way: what
\* flush_all and evict_frame rely on.
PoolConsistent ==
  (\A t \in Threads : at[t] = "idle") =>
    /\ \A p \in Pages, f \in Frames : table[p] = f <=> frame[f].page = p
    /\ \A f \in Frames :
         frame[f].page # NoPage /\ ~frame[f].dirty => disk[frame[f].page] = frame[f].data
    /\ \A f \in Frames : frame[f].pins = Cardinality(Holders(f))

\* The pool reports that it is full only when every page is pinned or could
\* not be written: no unpinned frame is lost to the eviction queue.
FullMeansPinned ==
  \A t \in Threads :
    at[t] = "evict" /\ queue = <<>> =>
      \A f \in Frames : frame[f].pins > 0 \/ f \in stranded

\* When flush_all returns without an error, the file holds every page: the
\* step Database::checkpoint takes before it cuts the log.
FlushAllSaves ==
  [][\A t \in Threads :
       FlushDone(t) => \A f \in Frames :
                         frame[f].page # NoPage => disk[frame[f].page] = frame[f].data]_vars

\* What a caller sees in a page.
Content ==
  [p \in Pages |-> IF \E f \in Frames : frame[f].page = p
                   THEN frame[CHOOSE f \in Frames : frame[f].page = p].data
                   ELSE disk[p]]

\* The pool implements the page store: loading, evicting and flushing never
\* change what a caller sees, and the file never gets anything else.
Store == INSTANCE PageStore WITH content <- Content, durable <- disk
ImplementsPageStore == Store!Spec

\* Every call returns: no thread waits for a lock for ever.
CallsReturn == \A t \in Threads : at[t] # "idle" ~> at[t] = "idle"
=============================================================================
