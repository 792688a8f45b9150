-------------------------- MODULE BufferPoolProofs --------------------------
(***************************************************************************)
(* Theorems about BufferPool.tla, first with one thread: Database owns the *)
(* pool and makes every call through &mut self, so one call ends before    *)
(* the next begins.  (With two threads the table is briefly wrong, the     *)
(* file may get an old copy and FullMeansPinned fails.)  What remains with *)
(* one writer and any number of readers is the second part.                *)
(*                                                                         *)
(* The invariant SeqInv says what the pool is between calls (PoolInv) and  *)
(* what each call knows at each of its labels: PinInv for pin and          *)
(* new_page, WriteInv for data_mut and unpin, FlushInv for flush_all.      *)
(***************************************************************************)
EXTENDS BufferPool, FiniteSetTheorems, SequenceTheorems, TLAPS

-----------------------------------------------------------------------------
(* One thread *)

\* The labels a call goes through, and the calls.
Labels == {"idle", "hit", "scan", "evict", "writeback", "remove", "load", "install", "publish",
           "write", "enqueue", "flush", "copy", "out", "clean"}

\* The calls that stay on a label.
Kinds == {"none", "pin", "new", "write", "unpin", "flush"}

\* What a frame holds.
Frame == [page : Pages \cup {NoPage}, data : 0..MaxWrites, pins : Nat, dirty : BOOLEAN]

\* The locals of a call.
Op == [kind : Kinds, page : Pages \cup {NoPage}, frame : Frames \cup {0}, data : 0..MaxWrites,
       todo : SUBSET Pages]

\* The types of the shared parts.
StoreTypes ==
  /\ frame \in [Frames -> Frame] /\ table \in [Pages -> Frames \cup {0}]
  /\ queue \in Seq(Frames) /\ Len(queue) <= Capacity
  /\ disk \in [Pages -> 0..MaxWrites] /\ npages \in 0..MaxPages /\ known \subseteq 1..npages
  /\ writes \in 0..MaxWrites /\ stranded \subseteq Frames

\* The types of what belongs to the calls.
CallTypes(t) ==
  /\ at \in [{t} -> Labels] /\ op \in [{t} -> Op]
  /\ handles \in [{t} -> SUBSET (Pages \X Frames)]

\* The types of the locks.
LockTypes(t) ==
  /\ tableR \subseteq {t} /\ frameW \in [Frames -> {t, Free}]
  /\ queueL \in {t, Free} /\ diskL \in {t, Free}

\* The types of all the variables.
SeqTypes(t) == StoreTypes /\ CallTypes(t) /\ LockTypes(t)

\* The frame that is filled and not in the table yet.
Pending(t) == IF at[t] = "publish" THEN {op[t].frame} ELSE {}

\* The frame a call has taken out of the queue, or is about to put into it.
Taken(t) == IF at[t] \in {"writeback", "remove", "enqueue"} THEN {op[t].frame} ELSE {}

\* The table and the frames agree, save for a pending frame.
TableAgrees(t) ==
  /\ \A p \in Pages, f \in Frames :
       table[p] = f <=> frame[f].page = p /\ f \notin Pending(t)
  /\ \A p \in Pages : table[p] # 0 => p \in known

\* Some handle points to frame f.
Pinned(t, f) == \E h \in handles[t] : h[2] = f

\* A handle points to the frame that holds its page, and the pin count of a
\* frame is the number of its handles, a pending one included.
PinsCounted(t) ==
  /\ \A h \in handles[t] : h[1] \in known /\ frame[h[2]].page = h[1]
  /\ \A f \in Frames : frame[f].pins = IF f \in Pending(t) \/ Pinned(t, f) THEN 1 ELSE 0

\* A frame that is not dirty holds what the file holds.  A page that has not
\* been allocated is zero in the file: new_page relies on it.
FileAgrees ==
  /\ \A f \in Frames :
       frame[f].page # NoPage /\ ~frame[f].dirty => disk[frame[f].page] = frame[f].data
  /\ \A p \in Pages : p > npages => disk[p] = 0

\* No element of q occurs twice.
NoRepeats(q) == \A i, j \in 1..Len(q) : q[i] = q[j] => i = j

\* The elements of q.
Within(q) == {q[i] : i \in 1..Len(q)}

\* A frame that holds a page nobody has pinned can be evicted: it is in the
\* queue, or it is one that a failed write has stranded.
QueueHolds(t) ==
  /\ NoRepeats(queue)
  /\ \A f \in Frames : frame[f].page # NoPage /\ frame[f].pins = 0
       => f \in Within(queue) \cup stranded \cup Taken(t)

\* The pool between the steps of a call.
PoolInv(t) == TableAgrees(t) /\ PinsCounted(t) /\ FileAgrees /\ QueueHolds(t)

\* The page exists, is not in the table and nobody holds it.
Missing(t, p) == p \in 1..npages /\ table[p] = 0 /\ \A h \in handles[t] : h[1] # p

\* The file has the contents of frame f.
Saved(f) == disk[frame[f].page] = frame[f].data

\* pin and new_page: the page stays missing until it is installed, a frame that
\* is chosen is empty, and one that is evicted has been written.
PinInv(t) ==
  LET o == op[t] IN
  /\ at[t] = "hit" =>
       o.page \in known /\ table[o.page] \in Frames /\ \A h \in handles[t] : h[1] # o.page
  /\ at[t] \in {"scan", "evict", "writeback", "remove", "load"} =>
       \/ o.kind = "pin" /\ Missing(t, o.page)
       \/ o.kind = "new" /\ o.data = 0
  /\ at[t] \in {"install", "publish"} => Missing(t, o.page)
  /\ at[t] = "scan" => \A g \in 1..o.frame : frame[g].page # NoPage
  /\ at[t] \in {"evict", "writeback", "remove"} => \A g \in Frames : frame[g].page # NoPage
  /\ at[t] \in {"writeback", "remove"} => o.frame \in Frames /\ frame[o.frame].pins = 0
  /\ at[t] = "remove" => Saved(o.frame)
  /\ at[t] \in {"load", "install"} => o.frame \in Frames /\ frame[o.frame].page = NoPage
  /\ at[t] = "install" => o.data = disk[o.page]
  /\ at[t] = "publish" => o.frame \in Frames /\ frame[o.frame].page = o.page

\* data_mut and unpin: the frame has been marked dirty before the data changes.
WriteInv(t) ==
  LET o == op[t] IN
  /\ at[t] \in {"write", "enqueue"} => o.frame \in Frames
  /\ at[t] = "write" =>
       frame[o.frame].page # NoPage /\ frame[o.frame].dirty /\ writes < MaxWrites

\* flush_all: a frame that is not saved still has its page ahead of it.  The
\* copy it made is still what the frame holds when it is written.
FlushInv(t) ==
  LET o == op[t] IN
  /\ at[t] \in {"flush", "copy", "out", "clean"} =>
       \A f \in Frames : frame[f].page # NoPage =>
         frame[f].page \in o.todo \/ (at[t] # "flush" /\ frame[f].page = o.page) \/ Saved(f)
  /\ at[t] \in {"copy", "out", "clean"} =>
       o.page \in Pages /\ o.frame \in Frames /\ table[o.page] = o.frame
  /\ at[t] \in {"out", "clean"} => o.data = frame[o.frame].data
  /\ at[t] = "clean" => disk[o.page] = o.data

\* The invariant.
SeqInv(t) == SeqTypes(t) /\ PoolInv(t) /\ PinInv(t) /\ WriteInv(t) /\ FlushInv(t)

-----------------------------------------------------------------------------

\* The fields of the locals of a call.
LEMMA OpTypes ==
  ASSUME NEW o, o \in Op
  PROVE  /\ o.kind \in Kinds /\ o.page \in Pages \cup {NoPage} /\ o.frame \in Frames \cup {0}
         /\ o.data \in 0..MaxWrites /\ o.todo \in SUBSET Pages
BY DEF Op

\* The locals of a thread that is in no call.
LEMMA NoOpTypes == NoOp \in Op
BY BoundsAssumption DEF NoOp, Op, Kinds

\* A step that touches neither frames nor queue nor table keeps the pool.
LEMMA QuietPool ==
  ASSUME NEW t, SeqTypes(t), PoolInv(t),
         UNCHANGED <<frame, table, queue, disk, known, handles, stranded>>,
         npages' \in Nat, npages' >= npages,
         Pending(t)' = Pending(t), Taken(t)' = Taken(t)
  PROVE  PoolInv(t)'
<1>1. TableAgrees(t)'
  BY DEF PoolInv, TableAgrees
<1>2. PinsCounted(t)'
  BY DEF PoolInv, PinsCounted, Pinned
<1>3. FileAgrees'
  BY DEF PoolInv, FileAgrees, SeqTypes, StoreTypes, Pages
<1>4. QueueHolds(t)'
  BY DEF PoolInv, QueueHolds
<1> QED
  BY <1>1, <1>2, <1>3, <1>4 DEF PoolInv

\* The fields of a frame.
LEMMA FrameFields ==
  ASSUME NEW g, g \in Frame
  PROVE  /\ g.page \in Pages \cup {NoPage} /\ g.data \in 0..MaxWrites /\ g.pins \in Nat
         /\ g.dirty \in BOOLEAN
BY DEF Frame

\* A step sets frame f to page p, data c, n pins and dirty flag d, and no other.
FrameOnly(f, p, c, n, d) ==
  /\ frame' \in [Frames -> Frame]
  /\ frame'[f].page = p /\ frame'[f].data = c /\ frame'[f].pins = n /\ frame'[f].dirty = d
  /\ \A h \in Frames : h # f =>
       /\ frame'[h].page = frame[h].page /\ frame'[h].data = frame[h].data
       /\ frame'[h].pins = frame[h].pins /\ frame'[h].dirty = frame[h].dirty

\* A local set to a value of its type.
LEMMA OpWith ==
  ASSUME NEW o, o \in Op
  PROVE  /\ \A f \in Frames \cup {0} : [o EXCEPT !.frame = f] \in Op
         /\ \A d \in 0..MaxWrites : [o EXCEPT !.data = d] \in Op
         /\ \A p \in Pages \cup {NoPage} : [o EXCEPT !.page = p] \in Op
BY DEF Op

\* pin starts.
LEMMA PinKeeps ==
  ASSUME NEW t, Threads = {t}, SeqInv(t), NEW p \in Pages, Pin(t, p)
  PROVE  SeqInv(t)'
<1> USE DEF Pin, Begin, Goto, MayPin, locks, hist
<1>1. SeqTypes(t)'
  <2>1. StoreTypes'
    BY DEF SeqInv, SeqTypes, StoreTypes
  <2>2. CallTypes(t)'
    BY NoOpTypes DEF SeqInv, SeqTypes, CallTypes, Op, Kinds, Labels
  <2>3. LockTypes(t)'
    BY DEF SeqInv, SeqTypes, LockTypes
  <2> QED
    BY <2>1, <2>2, <2>3 DEF SeqTypes
<1>2. PoolInv(t)'
  <2>1. Pending(t)' = Pending(t) /\ Taken(t)' = Taken(t)
    BY DEF SeqInv, SeqTypes, CallTypes, Pending, Taken
  <2>2. npages \in Nat /\ npages' \in Nat /\ npages' >= npages
    BY DEF SeqInv, SeqTypes, StoreTypes
  <2> QED
    BY <2>1, <2>2, QuietPool DEF SeqInv
<1>3. PinInv(t)'
  BY DEF SeqInv, SeqTypes, StoreTypes, CallTypes, PinInv, Missing, NoOp
<1>4. WriteInv(t)'
  BY DEF SeqInv, SeqTypes, CallTypes, WriteInv
<1>5. FlushInv(t)'
  BY DEF SeqInv, SeqTypes, CallTypes, FlushInv
<1> QED
  BY <1>1, <1>2, <1>3, <1>4, <1>5 DEF SeqInv

\* new_page starts.
LEMMA NewPageKeeps ==
  ASSUME NEW t, Threads = {t}, SeqInv(t), NewPage(t)
  PROVE  SeqInv(t)'
<1> USE DEF NewPage, Begin, Goto, MayPin, locks, hist
<1>1. SeqTypes(t)'
  <2>1. StoreTypes'
    BY DEF SeqInv, SeqTypes, StoreTypes
  <2>2. CallTypes(t)'
    BY NoOpTypes DEF SeqInv, SeqTypes, CallTypes, Op, Kinds, Labels
  <2>3. LockTypes(t)'
    BY DEF SeqInv, SeqTypes, LockTypes
  <2> QED
    BY <2>1, <2>2, <2>3 DEF SeqTypes
<1>2. PoolInv(t)'
  <2>1. Pending(t)' = Pending(t) /\ Taken(t)' = Taken(t)
    BY DEF Pending, Taken
  <2>2. npages \in Nat /\ npages' \in Nat /\ npages' >= npages
    BY DEF SeqInv, SeqTypes, StoreTypes
  <2> QED
    BY <2>1, <2>2, QuietPool DEF SeqInv
<1>3. PinInv(t)'
  BY DEF SeqInv, SeqTypes, CallTypes, PinInv, NoOp
<1>4. WriteInv(t)'
  BY DEF WriteInv
<1>5. FlushInv(t)'
  BY DEF FlushInv
<1> QED
  BY <1>1, <1>2, <1>3, <1>4, <1>5 DEF SeqInv

\* find_free_frame looks at the next frame.
LEMMA FindFrameKeeps ==
  ASSUME NEW t, Threads = {t}, SeqInv(t), FindFrame(t)
  PROVE  SeqInv(t)'
<1> USE DEF FindFrame, Goto, locks, hist
<1>1. SeqTypes(t)'
  <2>1. StoreTypes'
    BY DEF SeqInv, SeqTypes, StoreTypes
  <2>2. CallTypes(t)'
    BY NoOpTypes DEF SeqInv, SeqTypes, CallTypes, Op, Labels
  <2>3. LockTypes(t)'
    BY DEF SeqInv, SeqTypes, LockTypes
  <2> QED
    BY <2>1, <2>2, <2>3 DEF SeqTypes
<1>2. PoolInv(t)'
  <2>1. Pending(t)' = Pending(t) /\ Taken(t)' = Taken(t)
    BY DEF SeqInv, SeqTypes, CallTypes, Pending, Taken
  <2>2. npages \in Nat /\ npages' \in Nat /\ npages' >= npages
    BY DEF SeqInv, SeqTypes, StoreTypes
  <2> QED
    BY <2>1, <2>2, QuietPool DEF SeqInv
<1>3. PinInv(t)'
  <2> DEFINE f == op[t].frame + 1
  <2>1. /\ op'[t].kind = op[t].kind /\ op'[t].page = op[t].page /\ op'[t].data = op[t].data
        /\ op'[t].frame = f
    BY DEF SeqInv, SeqTypes, CallTypes
  <2>2. /\ f \in Frames /\ op[t].frame \in Nat
        /\ frame[f].page = NoPage => at'[t] = "load"
        /\ frame[f].page # NoPage => at'[t] = "scan"
    BY DEF SeqInv, SeqTypes, CallTypes, Op, Frames
  <2>3. /\ \/ op[t].kind = "pin" /\ Missing(t, op[t].page)
           \/ op[t].kind = "new" /\ op[t].data = 0
        /\ \A g \in 1..op[t].frame : frame[g].page # NoPage
    <3>1. PinInv(t) /\ at[t] = "scan"
      BY DEF SeqInv
    <3> QED
      BY <3>1 DEF PinInv
  <2>4. CASE frame[f].page = NoPage
    BY <2>1, <2>2, <2>3 DEF PinInv, Missing
  <2>5. CASE frame[f].page # NoPage
    <3>1. \A g \in 1..f : frame[g].page # NoPage
      BY <2>2, <2>3, <2>5
    <3> HIDE DEF f
    <3> QED
      BY <2>1, <2>2, <2>3 DEF PinInv, Missing
  <2> QED
    BY <2>4, <2>5
<1>4. WriteInv(t)'
  BY DEF SeqInv, SeqTypes, CallTypes, WriteInv
<1>5. FlushInv(t)'
  BY DEF SeqInv, SeqTypes, CallTypes, FlushInv
<1> QED
  BY <1>1, <1>2, <1>3, <1>4, <1>5 DEF SeqInv

\* No frame is free.
LEMMA BeginEvictKeeps ==
  ASSUME NEW t, Threads = {t}, SeqInv(t), BeginEvict(t)
  PROVE  SeqInv(t)'
<1> USE DEF BeginEvict, Goto, locks, hist
<1>1. SeqTypes(t)'
  <2>1. StoreTypes'
    BY DEF SeqInv, SeqTypes, StoreTypes
  <2>2. CallTypes(t)'
    BY DEF SeqInv, SeqTypes, CallTypes, Labels
  <2>3. LockTypes(t)'
    BY DEF SeqInv, SeqTypes, LockTypes
  <2> QED
    BY <2>1, <2>2, <2>3 DEF SeqTypes
<1>2. PoolInv(t)'
  <2>1. Pending(t)' = Pending(t) /\ Taken(t)' = Taken(t)
    BY DEF Pending, Taken
  <2>2. npages \in Nat /\ npages' \in Nat /\ npages' >= npages
    BY DEF SeqInv, SeqTypes, StoreTypes
  <2> QED
    BY <2>1, <2>2, QuietPool DEF SeqInv
<1>3. PinInv(t)'
  BY DEF SeqInv, PinInv, Missing, Frames
<1>4. WriteInv(t)'
  BY DEF WriteInv
<1>5. FlushInv(t)'
  BY DEF FlushInv
<1> QED
  BY <1>1, <1>2, <1>3, <1>4, <1>5 DEF SeqInv

\* There is nothing to evict, and the call returns an error.
LEMMA EvictFullKeeps ==
  ASSUME NEW t, Threads = {t}, SeqInv(t), EvictFull(t)
  PROVE  SeqInv(t)'
<1> USE DEF EvictFull, Goto, Return, locks, hist
<1>1. SeqTypes(t)'
  <2>1. StoreTypes'
    BY DEF SeqInv, SeqTypes, StoreTypes
  <2>2. CallTypes(t)'
    BY BoundsAssumption DEF SeqInv, SeqTypes, CallTypes, Op, Kinds, Labels, NoOp
  <2>3. LockTypes(t)'
    BY DEF SeqInv, SeqTypes, LockTypes
  <2> QED
    BY <2>1, <2>2, <2>3 DEF SeqTypes
<1>2. PoolInv(t)'
  <2>1. Pending(t)' = Pending(t) /\ Taken(t)' = Taken(t)
    BY DEF Pending, Taken
  <2>2. npages \in Nat /\ npages' \in Nat /\ npages' >= npages
    BY DEF SeqInv, SeqTypes, StoreTypes
  <2> QED
    BY <2>1, <2>2, QuietPool DEF SeqInv
<1>3. PinInv(t)'
  BY DEF SeqInv, SeqTypes, CallTypes, PinInv
<1>4. WriteInv(t)'
  BY DEF WriteInv
<1>5. FlushInv(t)'
  BY DEF FlushInv
<1> QED
  BY <1>1, <1>2, <1>3, <1>4, <1>5 DEF SeqInv

\* The page is read, or allocated: an allocated page is zero in the file.
LEMMA LoadKeeps ==
  ASSUME NEW t, Threads = {t}, SeqInv(t), Load(t)
  PROVE  SeqInv(t)'
<1> USE DEF Load, Goto, locks, hist
<1> DEFINE pin == op[t].kind = "pin" /\ UNCHANGED npages
                    /\ op' = [op EXCEPT ![t].data = disk[op[t].page]]
           new == op[t].kind = "new" /\ npages < MaxPages /\ npages' = npages + 1
                    /\ op' = [op EXCEPT ![t].page = npages + 1]
<1>0. /\ pin \/ new
      /\ pin => Missing(t, op[t].page) /\ op[t].page \in Pages
      /\ new => npages + 1 \in Pages /\ op[t].data = 0
      /\ op \in [{t} -> Op] /\ at'[t] = "install"
  BY PagesAssumption DEF SeqInv, SeqTypes, StoreTypes, CallTypes, PinInv, Missing, Pages
<1>1. SeqTypes(t)'
  <2>1. StoreTypes'
    BY PagesAssumption DEF SeqInv, SeqTypes, StoreTypes
  <2>2. CallTypes(t)'
    <3>1. op[t] \in Op /\ \A p \in Pages : disk[p] \in 0..MaxWrites
      BY <1>0 DEF SeqInv, SeqTypes, StoreTypes
    <3>2. op' \in [{t} -> Op]
      <4>1. CASE pin
        BY <1>0, <3>1, OpWith
      <4>2. CASE new
        BY <1>0, <4>2, OpWith
      <4> QED
        BY <1>0, <4>1, <4>2
    <3> QED
      BY <3>2 DEF SeqInv, SeqTypes, CallTypes, Labels
  <2>3. LockTypes(t)'
    BY DEF SeqInv, SeqTypes, LockTypes
  <2> QED
    BY <2>1, <2>2, <2>3 DEF SeqTypes
<1>2. PoolInv(t)'
  <2>1. Pending(t)' = Pending(t) /\ Taken(t)' = Taken(t)
    BY DEF Pending, Taken
  <2>2. npages \in Nat /\ npages' \in Nat /\ npages' >= npages
    BY DEF SeqInv, SeqTypes, StoreTypes
  <2> QED
    BY <2>1, <2>2, QuietPool DEF SeqInv
<1>3. PinInv(t)'
  <2>1. op[t].frame \in Frames /\ frame[op[t].frame].page = NoPage
    BY DEF SeqInv, PinInv
  <2>2. CASE pin
    <3>1. /\ op'[t].frame = op[t].frame /\ op'[t].page = op[t].page
          /\ op'[t].data = disk[op[t].page] /\ npages' = npages
      BY <1>0, <2>2 DEF Op
    <3> QED
      BY <1>0, <2>1, <2>2 DEF PinInv, Missing
  <2>3. CASE new
    <3>1. /\ op'[t].frame = op[t].frame /\ op'[t].page = npages + 1
          /\ op'[t].data = 0 /\ npages' = npages + 1 /\ npages \in Nat
      BY <1>0, <2>3 DEF SeqInv, SeqTypes, StoreTypes
    <3>2. npages + 1 \notin known /\ known \subseteq 1..npages
      BY DEF SeqInv, SeqTypes, StoreTypes
    <3>3. /\ table[npages + 1] = 0
          /\ \A h \in handles[t] : h[1] # npages + 1
          /\ disk[npages + 1] = 0
      BY <1>0, <3>1, <3>2 DEF SeqInv, PoolInv, TableAgrees, PinsCounted, FileAgrees
    <3>4. Missing(t, op[t].page)'
      BY <3>1, <3>3 DEF Missing
    <3> QED
      BY <2>1, <2>3, <3>1, <3>3 DEF PinInv, Missing
  <2> QED
    BY <1>0, <2>2, <2>3
<1>4. WriteInv(t)'
  BY DEF WriteInv
<1>5. FlushInv(t)'
  BY DEF FlushInv
<1> QED
  BY <1>1, <1>2, <1>3, <1>4, <1>5 DEF SeqInv

\* The page cannot be read or allocated.
LEMMA LoadFailsKeeps ==
  ASSUME NEW t, Threads = {t}, SeqInv(t), LoadFails(t)
  PROVE  SeqInv(t)'
<1> USE DEF LoadFails, Goto, Return, locks, hist
<1>1. SeqTypes(t)'
  <2>1. StoreTypes'
    BY PagesAssumption DEF SeqInv, SeqTypes, StoreTypes
  <2>2. CallTypes(t)'
    BY BoundsAssumption DEF SeqInv, SeqTypes, CallTypes, Op, Kinds, Labels, NoOp
  <2>3. LockTypes(t)'
    BY DEF SeqInv, SeqTypes, LockTypes
  <2> QED
    BY <2>1, <2>2, <2>3 DEF SeqTypes
<1>2. PoolInv(t)'
  <2>1. Pending(t)' = Pending(t) /\ Taken(t)' = Taken(t)
    BY DEF Pending, Taken
  <2>2. npages \in Nat /\ npages' \in Nat /\ npages' >= npages
    BY DEF SeqInv, SeqTypes, StoreTypes
  <2> QED
    BY <2>1, <2>2, QuietPool DEF SeqInv
<1>3. PinInv(t)'
  BY DEF SeqInv, SeqTypes, CallTypes, PinInv
<1>4. WriteInv(t)'
  BY DEF WriteInv
<1>5. FlushInv(t)'
  BY DEF FlushInv
<1> QED
  BY <1>1, <1>2, <1>3, <1>4, <1>5 DEF SeqInv

\* flush_all starts with the pages of the table.
LEMMA FlushAllKeeps ==
  ASSUME NEW t, Threads = {t}, SeqInv(t), FlushAll(t)
  PROVE  SeqInv(t)'
<1> USE DEF FlushAll, Goto, locks, hist
<1>1. SeqTypes(t)'
  <2>1. StoreTypes'
    BY DEF SeqInv, SeqTypes, StoreTypes
  <2>2. CallTypes(t)'
    BY NoOpTypes DEF SeqInv, SeqTypes, CallTypes, Op, Kinds, Labels
  <2>3. LockTypes(t)'
    BY DEF SeqInv, SeqTypes, LockTypes
  <2> QED
    BY <2>1, <2>2, <2>3 DEF SeqTypes
<1>2. PoolInv(t)'
  <2>1. Pending(t)' = Pending(t) /\ Taken(t)' = Taken(t)
    BY DEF Pending, Taken
  <2>2. npages \in Nat /\ npages' \in Nat /\ npages' >= npages
    BY DEF SeqInv, SeqTypes, StoreTypes
  <2> QED
    BY <2>1, <2>2, QuietPool DEF SeqInv
<1>3. PinInv(t)'
  BY DEF PinInv
<1>4. WriteInv(t)'
  BY DEF WriteInv
<1>5. FlushInv(t)'
  <2>1. at'[t] = "flush" /\ op'[t].todo = {p \in Pages : table[p] # 0}
    BY DEF SeqInv, SeqTypes, CallTypes
  <2>2. \A f \in Frames : frame[f].page # NoPage => frame[f].page \in op'[t].todo
    <3>1. \A f \in Frames : f # 0 /\ frame[f].page \in Pages \cup {NoPage}
      BY FrameFields DEF SeqInv, SeqTypes, StoreTypes, Frames
    <3> QED
      BY <2>1, <3>1 DEF SeqInv, PoolInv, TableAgrees, Pending
  <2> QED
    BY <2>1, <2>2 DEF FlushInv
<1> QED
  BY <1>1, <1>2, <1>3, <1>4, <1>5 DEF SeqInv

\* flush_all returns.
LEMMA FlushDoneKeeps ==
  ASSUME NEW t, Threads = {t}, SeqInv(t), FlushDone(t)
  PROVE  SeqInv(t)'
<1> USE DEF FlushDone, Goto, Return, locks, hist
<1>1. SeqTypes(t)'
  <2>1. StoreTypes'
    BY DEF SeqInv, SeqTypes, StoreTypes
  <2>2. CallTypes(t)'
    BY BoundsAssumption DEF SeqInv, SeqTypes, CallTypes, Op, Kinds, Labels, NoOp
  <2>3. LockTypes(t)'
    BY DEF SeqInv, SeqTypes, LockTypes
  <2> QED
    BY <2>1, <2>2, <2>3 DEF SeqTypes
<1>2. PoolInv(t)'
  <2>1. Pending(t)' = Pending(t) /\ Taken(t)' = Taken(t)
    BY DEF Pending, Taken
  <2>2. npages \in Nat /\ npages' \in Nat /\ npages' >= npages
    BY DEF SeqInv, SeqTypes, StoreTypes
  <2> QED
    BY <2>1, <2>2, QuietPool DEF SeqInv
<1>3. PinInv(t)'
  BY DEF PinInv
<1>4. WriteInv(t)'
  BY DEF WriteInv
<1>5. FlushInv(t)'
  BY DEF SeqInv, FlushInv, Saved
<1> QED
  BY <1>1, <1>2, <1>3, <1>4, <1>5 DEF SeqInv

\* flush_all takes the next page, which may have left the table.
LEMMA FlushLookupKeeps ==
  ASSUME NEW t, Threads = {t}, SeqInv(t), NEW p \in Pages, FlushLookup(t, p)
  PROVE  SeqInv(t)'
<1> USE DEF FlushLookup, Goto, locks, hist
<1>1. SeqTypes(t)'
  <2>1. StoreTypes'
    BY DEF SeqInv, SeqTypes, StoreTypes
  <2>2. CallTypes(t)'
    BY NoOpTypes DEF SeqInv, SeqTypes, StoreTypes, CallTypes, Op, Labels
  <2>3. LockTypes(t)'
    BY DEF SeqInv, SeqTypes, LockTypes
  <2> QED
    BY <2>1, <2>2, <2>3 DEF SeqTypes
<1>2. PoolInv(t)'
  <2>1. Pending(t)' = Pending(t) /\ Taken(t)' = Taken(t)
    BY DEF SeqInv, SeqTypes, CallTypes, Pending, Taken
  <2>2. npages \in Nat /\ npages' \in Nat /\ npages' >= npages
    BY DEF SeqInv, SeqTypes, StoreTypes
  <2> QED
    BY <2>1, <2>2, QuietPool DEF SeqInv
<1>3. PinInv(t)'
  BY DEF SeqInv, SeqTypes, CallTypes, PinInv
<1>4. WriteInv(t)'
  BY DEF SeqInv, SeqTypes, CallTypes, WriteInv
<1>5. FlushInv(t)'
  <2>1. /\ op'[t].todo = op[t].todo \ {p} /\ op'[t].page = p /\ op'[t].frame = table[p]
        /\ table[p] # 0 => at'[t] = "copy"
        /\ table[p] = 0 => at'[t] = "flush"
    BY DEF SeqInv, SeqTypes, CallTypes
  <2>2. \A f \in Frames : frame[f].page # NoPage => frame[f].page \in op[t].todo \/ Saved(f)
    BY DEF SeqInv, FlushInv
  <2>3. table[p] = 0 => \A f \in Frames : frame[f].page # p
    BY DEF SeqInv, PoolInv, TableAgrees, Pending, Frames
  <2>4. table[p] \in Frames \cup {0}
    BY DEF SeqInv, SeqTypes, StoreTypes
  <2> QED
    BY <2>1, <2>2, <2>3, <2>4 DEF FlushInv, Saved
<1> QED
  BY <1>1, <1>2, <1>3, <1>4, <1>5 DEF SeqInv

\* flush_all copies a dirty frame, or passes over a clean one.
LEMMA FlushCopyKeeps ==
  ASSUME NEW t, Threads = {t}, SeqInv(t), FlushCopy(t)
  PROVE  SeqInv(t)'
<1> USE DEF FlushCopy, Goto, locks, hist
<1>1. SeqTypes(t)'
  <2>1. StoreTypes'
    BY DEF SeqInv, SeqTypes, StoreTypes
  <2>2. CallTypes(t)'
    <3>1. op[t] \in Op /\ frame[op[t].frame].data \in 0..MaxWrites
      BY FrameFields DEF SeqInv, SeqTypes, StoreTypes, CallTypes, FlushInv
    <3> QED
      BY <3>1, OpWith DEF SeqInv, SeqTypes, CallTypes, Labels
  <2>3. LockTypes(t)'
    BY DEF SeqInv, SeqTypes, LockTypes
  <2> QED
    BY <2>1, <2>2, <2>3 DEF SeqTypes
<1>2. PoolInv(t)'
  <2>1. Pending(t)' = Pending(t) /\ Taken(t)' = Taken(t)
    BY DEF Pending, Taken
  <2>2. npages \in Nat /\ npages' \in Nat /\ npages' >= npages
    BY DEF SeqInv, SeqTypes, StoreTypes
  <2> QED
    BY <2>1, <2>2, QuietPool DEF SeqInv
<1>3. PinInv(t)'
  BY DEF PinInv
<1>4. WriteInv(t)'
  BY DEF WriteInv
<1>5. FlushInv(t)'
  BY DEF SeqInv, SeqTypes, CallTypes, PoolInv, TableAgrees, FileAgrees, FlushInv, Saved,
     Pending
<1> QED
  BY <1>1, <1>2, <1>3, <1>4, <1>5 DEF SeqInv

\* What retain leaves of a queue without repetitions.
LEMMA RemoveFirstFacts ==
  ASSUME NEW q, q \in Seq(Frames), NoRepeats(q), NEW f, f \in Frames
  PROVE  /\ RemoveFirst(q, f) \in Seq(Frames)
         /\ NoRepeats(RemoveFirst(q, f))
         /\ Within(RemoveFirst(q, f)) = Within(q) \ {f}
<1>1. Len(q) \in Nat /\ q \in [1..Len(q) -> Frames]
  BY LenProperties
<1>2. CASE ~ \E i \in 1..Len(q) : q[i] = f
  BY <1>2 DEF RemoveFirst, Within
<1>3. CASE \E i \in 1..Len(q) : q[i] = f
  <2>1. PICK k \in 1..Len(q) : q[k] = f
    BY <1>3
  <2>2. {i \in 1..Len(q) : q[i] = f} = {k}
    BY <2>1 DEF NoRepeats
  <2>3. SelectInSeq(q, LAMBDA v : v = f) = k
    BY <2>2 DEF SelectInSeq, Min
  <2> DEFINE r == SubSeq(q, 1, k - 1) \o SubSeq(q, k + 1, Len(q))
  <2>4. RemoveFirst(q, f) = r
    BY <1>3, <2>3 DEF RemoveFirst, RemoveAt
  <2>5. /\ r \in Seq(Frames) /\ Len(r) = Len(q) - 1
        /\ \A i \in 1..Len(r) : r[i] = IF i < k THEN q[i] ELSE q[i + 1]
    <3> DEFINE a == SubSeq(q, 1, k - 1)
               b == SubSeq(q, k + 1, Len(q))
    <3>1. /\ a \in Seq(Frames) /\ Len(a) = k - 1
          /\ \A i \in 1..k - 1 : a[i] = q[i]
      BY <1>1, <2>1
    <3>2. /\ b \in Seq(Frames) /\ Len(b) = Len(q) - k
          /\ \A i \in 1..Len(q) - k : b[i] = q[i + k]
      BY <1>1, <2>1
    <3> HIDE DEF a, b
    <3>3. /\ a \o b \in Seq(Frames) /\ Len(a \o b) = Len(a) + Len(b)
          /\ \A i \in 1..Len(a) + Len(b) :
               (a \o b)[i] = IF i <= Len(a) THEN a[i] ELSE b[i - Len(a)]
      BY <3>1, <3>2, ConcatProperties
    <3>4. Len(a) + Len(b) = Len(q) - 1
      BY <3>1, <3>2
    <3>5. ASSUME NEW i \in 1..Len(q) - 1
          PROVE  (a \o b)[i] = IF i < k THEN q[i] ELSE q[i + 1]
      <4>1. CASE i < k
        BY <3>1, <4>1
      <4>2. CASE i >= k
        <5>1. i - Len(a) \in 1..Len(q) - k /\ i - Len(a) + k = i + 1
          BY <3>1, <4>2
        <5> QED
          BY <1>1, <2>1, <3>1, <3>2, <3>3, <3>4, <4>2, <5>1, SMTT(60)
      <4>3. i < k \/ i >= k
        BY <1>1, <2>1
      <4> QED
        BY <4>1, <4>2, <4>3
    <3>6. r = a \o b
      BY DEF a, b
    <3> QED
      BY <3>3, <3>4, <3>5, <3>6
  <2> HIDE DEF r
  <2>6. NoRepeats(r)
    BY <2>5 DEF NoRepeats
  <2>7. Within(r) = Within(q) \ {f}
    <3>1. ASSUME NEW i \in 1..Len(r) PROVE r[i] \in Within(q) \ {f}
      BY <2>1, <2>5 DEF NoRepeats, Within
    <3>2. ASSUME NEW i \in 1..Len(q), q[i] # f PROVE q[i] \in Within(r)
      <4>1. CASE i < k
        <5>1. i \in 1..Len(r) /\ r[i] = q[i]
          BY <2>5, <4>1
        <5> QED
          BY <5>1 DEF Within
      <4>2. CASE i > k
        <5>1. i - 1 \in 1..Len(r) /\ r[i - 1] = q[i]
          BY <2>5, <4>2
        <5> QED
          BY <5>1 DEF Within
      <4> QED
        BY <2>1, <3>2, <4>1, <4>2
    <3> QED
      BY <3>1, <3>2 DEF Within
  <2> QED
    BY <2>4, <2>5, <2>6, <2>7
<1> QED
  BY <1>2, <1>3

\* A queue without repetitions is no longer than the pool has frames.
LEMMA FramesFit ==
  ASSUME NEW q, q \in Seq(Frames), NoRepeats(q)
  PROVE  Len(q) <= Capacity
<1>1. Len(q) \in Nat /\ q \in [1..Len(q) -> Frames]
  BY LenProperties
<1>2. q \in Injection(1..Len(q), Frames)
  <2>1. IsInjective(q)
    BY <1>1 DEF NoRepeats, IsInjective
  <2> QED
    BY <1>1, <2>1 DEF Injection
<1>3. /\ IsFiniteSet(Frames) /\ Cardinality(Frames) = Capacity
      /\ IsFiniteSet(1..Len(q)) /\ Cardinality(1..Len(q)) = Len(q)
  <2>1. \A n \in Nat : IsFiniteSet(1..n) /\ Cardinality(1..n) = n
    BY FS_Interval
  <2> QED
    BY <2>1, CapacityAssumption DEF Frames
<1> QED
  BY <1>2, <1>3, FS_Injection

\* What pop leaves.
LEMMA TailFacts ==
  ASSUME NEW q, q \in Seq(Frames), NoRepeats(q), q # <<>>
  PROVE  /\ Head(q) \in Frames /\ Tail(q) \in Seq(Frames) /\ Len(Tail(q)) <= Len(q)
         /\ NoRepeats(Tail(q)) /\ Within(Tail(q)) = Within(q) \ {Head(q)}
<1>1. /\ Len(q) \in Nat \ {0} /\ q \in [1..Len(q) -> Frames] /\ Head(q) = q[1]
      /\ Tail(q) \in Seq(Frames) /\ Len(Tail(q)) = Len(q) - 1
      /\ \A i \in 1..Len(q) - 1 : Tail(q)[i] = q[i + 1]
  BY EmptySeq, LenProperties
<1>2. NoRepeats(Tail(q))
  BY <1>1 DEF NoRepeats
<1>3. ASSUME NEW i \in 1..Len(q) - 1 PROVE Tail(q)[i] \in Within(q) \ {Head(q)}
  BY <1>1 DEF NoRepeats, Within
<1>4. ASSUME NEW i \in 1..Len(q), q[i] # Head(q) PROVE q[i] \in Within(Tail(q))
  <2>1. i - 1 \in 1..Len(Tail(q)) /\ Tail(q)[i - 1] = q[i]
    BY <1>1, <1>4
  <2> QED
    BY <2>1 DEF Within
<1>5. Within(Tail(q)) = Within(q) \ {Head(q)}
  BY <1>3 DEF Within
<1> QED
  BY <1>1, <1>2, <1>5

\* EvictionQueue::push on a queue without repetitions: frame f is at the end,
\* and no other frame is dropped for it.
LEMMA PushFacts ==
  ASSUME NEW q, q \in Seq(Frames), NoRepeats(q), NEW f, f \in Frames
  PROVE  /\ Push(q, f) \in Seq(Frames) /\ Len(Push(q, f)) <= Capacity
         /\ NoRepeats(Push(q, f)) /\ Within(Push(q, f)) = Within(q) \cup {f}
<1> DEFINE q1 == RemoveFirst(q, f)
           q2 == Append(q1, f)
<1>1. q1 \in Seq(Frames) /\ NoRepeats(q1) /\ Within(q1) = Within(q) \ {f}
  BY RemoveFirstFacts
<1> HIDE DEF q1
<1>2. /\ q2 \in Seq(Frames) /\ Len(q2) = Len(q1) + 1 /\ Len(q1) \in Nat
      /\ \A i \in 1..Len(q2) : q2[i] = IF i <= Len(q1) THEN q1[i] ELSE f
  BY <1>1
<1> HIDE DEF q2
<1>3. NoRepeats(q2)
  BY <1>1, <1>2 DEF NoRepeats, Within
<1>4. Within(q2) = Within(q1) \cup {f}
  <2>1. Within(q2) \subseteq Within(q1) \cup {f}
    BY <1>2 DEF Within
  <2>2. \A i \in 1..Len(q1) : i \in 1..Len(q2) /\ q2[i] = q1[i]
    BY <1>2
  <2>3. Len(q2) \in 1..Len(q2) /\ q2[Len(q2)] = f
    BY <1>2
  <2> QED
    BY <2>1, <2>2, <2>3 DEF Within
<1>5. Len(q2) <= Capacity
  BY <1>2, <1>3, FramesFit
<1>6. Push(q, f) = q2
  BY <1>5, CapacityAssumption DEF Push, q1, q2
<1> QED
  BY <1>1, <1>2, <1>3, <1>4, <1>5, <1>6

\* pin finds the page in the table.
LEMMA PinHitKeeps ==
  ASSUME NEW t, Threads = {t}, SeqInv(t), PinHit(t)
  PROVE  SeqInv(t)'
<1> USE DEF PinHit, Goto, Return, ReturnHandle, locks, hist
<1>p. PICK p : p = op[t].page
  OBVIOUS
<1>f. PICK f : f = table[p]
  OBVIOUS
<1> DEFINE g == [frame[f] EXCEPT !.pins = @ + 1]
<1>0. /\ p \in known /\ p \in Pages /\ f \in Frames /\ frame[f].page = p
      /\ \A h \in handles[t] : h[1] # p
  BY <1>p, <1>f, PagesAssumption DEF SeqInv, SeqTypes, StoreTypes, PinInv, PoolInv,
     TableAgrees, Pages
<1>a. /\ frame' \in [Frames -> Frame]
      /\ \A h \in Frames : /\ frame'[h].page = frame[h].page /\ frame'[h].data = frame[h].data
                           /\ frame'[h].dirty = frame[h].dirty
                           /\ frame'[h].pins = IF h = f THEN frame[f].pins + 1 ELSE frame[h].pins
  <2>1. frame[f] \in Frame /\ frame[f].pins \in Nat
    BY <1>0, FrameFields DEF SeqInv, SeqTypes, StoreTypes
  <2>2. /\ g \in Frame /\ g.page = frame[f].page /\ g.data = frame[f].data
        /\ g.dirty = frame[f].dirty /\ g.pins = frame[f].pins + 1
    BY <2>1 DEF Frame
  <2>3. frame' = [frame EXCEPT ![f] = g] /\ StoreTypes
    BY <1>p, <1>f DEF SeqInv, SeqTypes
  <2> HIDE DEF g, PinHit
  <2>4. /\ frame' \in [Frames -> Frame] /\ frame'[f] = g
        /\ \A h \in Frames : h # f => frame'[h] = frame[h]
    BY <1>0, <2>2, <2>3 DEF StoreTypes
  <2>5. ASSUME NEW h \in Frames
        PROVE  /\ frame'[h].page = frame[h].page /\ frame'[h].data = frame[h].data
               /\ frame'[h].dirty = frame[h].dirty
               /\ frame'[h].pins = IF h = f THEN frame[f].pins + 1 ELSE frame[h].pins
    <3>1. CASE h = f
      BY <2>2, <2>4, <3>1
    <3>2. CASE h # f
      BY <2>4, <3>2
    <3> QED
      BY <3>1, <3>2
  <2> QED
    BY <2>4, <2>5
<1>b. handles' = [handles EXCEPT ![t] = @ \cup {<<p, f>>}] /\ at'[t] = "idle"
  BY <1>p, <1>f DEF SeqInv, SeqTypes, CallTypes
<1>1. SeqTypes(t)'
  <2>1. StoreTypes'
    BY <1>a DEF SeqInv, SeqTypes, StoreTypes
  <2>2. CallTypes(t)'
    BY <1>0, <1>b, NoOpTypes DEF SeqInv, SeqTypes, CallTypes, Labels
  <2>3. LockTypes(t)'
    BY DEF SeqInv, SeqTypes, LockTypes
  <2> QED
    BY <2>1, <2>2, <2>3 DEF SeqTypes
<1>2. TableAgrees(t)'
  BY DEF SeqInv, PoolInv, TableAgrees, Pending
<1>3. PinsCounted(t)'
  <2>1. handles'[t] = handles[t] \cup {<<p, f>>} /\ Pending(t) = {} /\ Pending(t)' = {}
    BY <1>b DEF SeqInv, SeqTypes, CallTypes, Pending
  <2>2. /\ \A h \in handles[t] : h[1] \in known /\ frame[h[2]].page = h[1]
        /\ \A h \in handles[t] : h[2] \in Frames
        /\ \A h \in Frames : frame[h].pins = IF Pinned(t, h) THEN 1 ELSE 0
    BY <2>1 DEF SeqInv, SeqTypes, CallTypes, PoolInv, PinsCounted
  <2>3. \A h \in handles'[t] : h[1] \in known' /\ frame'[h[2]].page = h[1]
    BY <1>0, <2>1, <2>2
  <2>4. ~Pinned(t, f) /\ Pinned(t, f)'
    <3>1. <<p, f>> \in handles'[t] /\ <<p, f>>[2] = f
      BY <2>1
    <3>2. Pinned(t, f)'
      BY <3>1 DEF Pinned
    <3> QED
      BY <1>0, <2>2, <3>2 DEF Pinned
  <2>5. \A h \in Frames : h # f => Pinned(t, h)' = Pinned(t, h)
    BY <2>1 DEF Pinned
  <2>6. \A h \in Frames : frame'[h].pins = IF Pinned(t, h)' THEN 1 ELSE 0
    BY <1>a, <2>2, <2>4, <2>5
  <2> QED
    BY <2>1, <2>3, <2>6 DEF PinsCounted
<1>4. FileAgrees'
  BY DEF SeqInv, PoolInv, FileAgrees
<1>5. QueueHolds(t)'
  BY DEF SeqInv, PoolInv, QueueHolds, PinsCounted, Taken
<1>6. PinInv(t)'
  BY DEF SeqInv, SeqTypes, CallTypes, PinInv
<1>7. WriteInv(t)'
  BY DEF WriteInv
<1>8. FlushInv(t)'
  BY DEF FlushInv
<1> QED
  BY <1>1, <1>2, <1>3, <1>4, <1>5, <1>6, <1>7, <1>8 DEF SeqInv, PoolInv

\* A frame is popped; one that is pinned again, or empty, is passed over.
LEMMA EvictPopKeeps ==
  ASSUME NEW t, Threads = {t}, SeqInv(t), EvictPop(t)
  PROVE  SeqInv(t)'
<1> USE DEF EvictPop, Goto, locks, hist
<1>f. PICK f : f = Head(queue)
  OBVIOUS
<1> DEFINE passed == frame[f].pins > 0 /\ UNCHANGED <<op, at>>
           chosen == /\ frame[f].pins = 0 /\ op' = [op EXCEPT ![t].frame = f]
                     /\ at' = [at EXCEPT ![t] = "writeback"]
<1>0. /\ f \in Frames /\ queue' \in Seq(Frames) /\ Len(queue') <= Len(queue)
      /\ NoRepeats(queue') /\ Within(queue') = Within(queue) \ {f}
  BY <1>f, TailFacts DEF SeqInv, SeqTypes, StoreTypes, PoolInv, QueueHolds
<1>a. passed \/ chosen
  BY <1>f, FrameFields DEF SeqInv, SeqTypes, StoreTypes
<1>b. at[t] = "evict" /\ at \in [{t} -> Labels] /\ op \in [{t} -> Op]
  BY DEF SeqInv, SeqTypes, CallTypes
<1>1. SeqTypes(t)'
  <2>1. StoreTypes'
    BY CapacityAssumption DEF SeqInv, SeqTypes, StoreTypes
  <2>2. CallTypes(t)'
    <3> HIDE DEF EvictPop
    <3>1. at' \in [{t} -> Labels] /\ op' \in [{t} -> Op]
      BY <1>0, <1>a, <1>b, OpWith DEF Labels
    <3> QED
      BY <3>1 DEF EvictPop, SeqInv, SeqTypes, CallTypes
  <2>3. LockTypes(t)'
    BY DEF SeqInv, SeqTypes, LockTypes
  <2> QED
    BY <2>1, <2>2, <2>3 DEF SeqTypes
<1>2. TableAgrees(t)'
  BY DEF SeqInv, SeqTypes, CallTypes, PoolInv, TableAgrees, Pending
<1>3. PinsCounted(t)'
  BY DEF SeqInv, SeqTypes, CallTypes, PoolInv, PinsCounted, Pinned, Pending
<1>4. FileAgrees'
  BY DEF SeqInv, PoolInv, FileAgrees
<1>5. QueueHolds(t)'
  <2>1. /\ frame' = frame /\ stranded' = stranded /\ Taken(t) = {}
        /\ \A g \in Frames : frame[g].page # NoPage /\ frame[g].pins = 0
             => g \in Within(queue) \cup stranded
    BY DEF SeqInv, PoolInv, QueueHolds, Taken
  <2>2. passed => frame[f].pins # 0
    OBVIOUS
  <2>3. chosen => Taken(t)' = {f}
    BY <1>b DEF Taken, Op
  <2> QED
    BY <1>0, <1>a, <2>1, <2>3 DEF QueueHolds
<1>6. PinInv(t)'
  <2>1. /\ \/ op[t].kind = "pin" /\ Missing(t, op[t].page)
           \/ op[t].kind = "new" /\ op[t].data = 0
        /\ \A g \in Frames : frame[g].page # NoPage
    <3>1. PinInv(t)
      BY DEF SeqInv
    <3> QED
      BY <1>b, <3>1 DEF PinInv
  <2>2. /\ op'[t].kind = op[t].kind /\ op'[t].page = op[t].page /\ op'[t].data = op[t].data
        /\ chosen => op'[t].frame = f /\ at'[t] = "writeback"
        /\ passed => op'[t].frame = op[t].frame /\ at'[t] = "evict"
        /\ UNCHANGED <<frame, table, npages, handles>>
    BY <1>a, <1>b DEF Op
  <2>3. CASE passed
    BY <2>1, <2>3 DEF PinInv, Missing
  <2>4. CASE chosen
    BY <1>0, <2>1, <2>2, <2>4 DEF PinInv, Missing
  <2> QED
    BY <1>a, <2>3, <2>4
<1>7. WriteInv(t)'
  BY DEF SeqInv, SeqTypes, CallTypes, WriteInv
<1>8. FlushInv(t)'
  BY DEF SeqInv, SeqTypes, CallTypes, FlushInv
<1> QED
  BY <1>1, <1>2, <1>3, <1>4, <1>5, <1>6, <1>7, <1>8 DEF SeqInv, PoolInv

\* A dirty victim is written back.
LEMMA EvictWriteKeeps ==
  ASSUME NEW t, Threads = {t}, SeqInv(t), EvictWrite(t)
  PROVE  SeqInv(t)'
<1> USE DEF EvictWrite, Goto, locks, hist
<1>1. SeqTypes(t)'
  <2>1. StoreTypes'
    BY DEF SeqInv, SeqTypes, StoreTypes, Frame, PinInv
  <2>2. CallTypes(t)'
    BY DEF SeqInv, SeqTypes, CallTypes, Labels
  <2>3. LockTypes(t)'
    BY DEF SeqInv, SeqTypes, LockTypes
  <2> QED
    BY <2>1, <2>2, <2>3 DEF SeqTypes
<1>2. TableAgrees(t)'
  BY DEF SeqInv, PoolInv, TableAgrees, Pending
<1>3. PinsCounted(t)'
  BY DEF SeqInv, PoolInv, PinsCounted, Pinned, Pending
<1>4. FileAgrees'
  <2>f. PICK f : f = op[t].frame
    OBVIOUS
  <2>1. /\ f \in Frames /\ frame[f].page # NoPage /\ frame[f].page \in Pages
        /\ Pending(t) = {} /\ frame' = frame /\ npages' = npages
    BY <2>f, FrameFields DEF SeqInv, SeqTypes, StoreTypes, PinInv, Pending
  <2>2. /\ table[frame[f].page] = f /\ frame[f].page \in known /\ f # 0
        /\ \A g \in Frames : frame[g].page = frame[f].page => g = f
    BY <2>1 DEF SeqInv, PoolInv, TableAgrees, Frames
  <2>3. frame[f].page \in 1..npages /\ npages \in Nat
    <3> HIDE DEF EvictWrite
    <3>1. StoreTypes
      BY DEF SeqInv, SeqTypes
    <3>2. known \subseteq 1..npages /\ npages \in 0..MaxPages
      BY <3>1 DEF StoreTypes
    <3>3. npages \in Nat
      BY <3>2, PagesAssumption
    <3>4. frame[f].page \in known
      BY <2>2
    <3> QED
      BY <3>2, <3>3, <3>4
  <2>4. disk' = disk \/ disk' = [disk EXCEPT ![frame[f].page] = frame[f].data]
    BY <2>f
  <2>5. FileAgrees /\ disk \in [Pages -> 0..MaxWrites]
    BY DEF SeqInv, SeqTypes, StoreTypes, PoolInv
  <2> HIDE DEF EvictWrite
  <2>6. \A g \in Frames : frame[g].page \in Pages \cup {NoPage}
    BY FrameFields DEF SeqInv, SeqTypes, StoreTypes
  <2>7. ASSUME NEW g \in Frames, frame[g].page # NoPage, ~frame[g].dirty
        PROVE  disk'[frame[g].page] = frame[g].data
    <3>1. disk[frame[g].page] = frame[g].data /\ frame[g].page \in Pages
      BY <2>5, <2>6, <2>7 DEF FileAgrees
    <3>2. CASE g = f
      BY <2>4, <2>5, <3>1, <3>2
    <3>3. CASE g # f
      BY <2>2, <2>4, <2>5, <3>1
    <3> QED
      BY <3>2, <3>3
  <2>8. ASSUME NEW p \in Pages, p > npages PROVE disk'[p] = 0
    <3>1. p # frame[f].page
      BY <2>3, <2>8 DEF Pages
    <3> QED
      BY <2>4, <2>5, <2>8, <3>1 DEF FileAgrees
  <2> QED
    BY <2>1, <2>7, <2>8 DEF FileAgrees
<1>5. QueueHolds(t)'
  <2>1. Taken(t)' = Taken(t) /\ UNCHANGED <<frame, queue, stranded>>
    BY DEF Taken
  <2>2. QueueHolds(t)
    BY DEF SeqInv, PoolInv
  <2> QED
    BY <2>1, <2>2 DEF QueueHolds
<1>6. PinInv(t)'
  BY DEF SeqInv, SeqTypes, StoreTypes, PoolInv, PinInv, FileAgrees, Missing, Saved, Frame
<1>7. WriteInv(t)'
  BY DEF WriteInv
<1>8. FlushInv(t)'
  BY DEF FlushInv
<1> QED
  BY <1>1, <1>2, <1>3, <1>4, <1>5, <1>6, <1>7, <1>8 DEF SeqInv, PoolInv

\* The victim cannot be written, and it stays outside the queue.
LEMMA EvictWriteFailsKeeps ==
  ASSUME NEW t, Threads = {t}, SeqInv(t), EvictWriteFails(t)
  PROVE  SeqInv(t)'
<1> USE DEF EvictWriteFails, Goto, Return, locks, hist
<1>1. SeqTypes(t)'
  <2>1. StoreTypes'
    BY DEF SeqInv, SeqTypes, StoreTypes, PinInv
  <2>2. CallTypes(t)'
    BY BoundsAssumption DEF SeqInv, SeqTypes, CallTypes, Op, Kinds, Labels, NoOp
  <2>3. LockTypes(t)'
    BY DEF SeqInv, SeqTypes, LockTypes
  <2> QED
    BY <2>1, <2>2, <2>3 DEF SeqTypes
<1>2. TableAgrees(t)'
  BY DEF SeqInv, PoolInv, TableAgrees, Pending
<1>3. PinsCounted(t)'
  BY DEF SeqInv, PoolInv, PinsCounted, Pinned, Pending
<1>4. FileAgrees'
  BY DEF SeqInv, PoolInv, FileAgrees
<1>5. QueueHolds(t)'
  BY DEF SeqInv, PoolInv, QueueHolds, Taken
<1>6. PinInv(t)'
  BY DEF SeqInv, SeqTypes, CallTypes, PinInv
<1>7. WriteInv(t)'
  BY DEF WriteInv
<1>8. FlushInv(t)'
  BY DEF FlushInv
<1> QED
  BY <1>1, <1>2, <1>3, <1>4, <1>5, <1>6, <1>7, <1>8 DEF SeqInv, PoolInv

\* What evict does to the victim.
LEMMA EvictRemoveFrame ==
  ASSUME NEW t, Threads = {t}, SeqInv(t), EvictRemove(t)
  PROVE  \E f \in Frames : f = op[t].frame /\ frame[f].page \in Pages
                         /\ FrameOnly(f, NoPage, frame[f].data, 0, FALSE)
<1> USE DEF EvictRemove, Goto, locks, hist
<1>f. PICK f : f = op[t].frame
  OBVIOUS
<1> DEFINE g == [frame[f] EXCEPT !.page = NoPage, !.dirty = FALSE, !.pins = 0]
<1>0. f \in Frames /\ frame[f].page \in Pages
  <2>1. f \in Frames /\ frame[f].page # NoPage
    BY <1>f DEF SeqInv, PinInv
  <2> QED
    BY <2>1, FrameFields DEF SeqInv, SeqTypes, StoreTypes
<1>a. /\ frame' \in [Frames -> Frame]
      /\ \A h \in Frames : /\ frame'[h].page = IF h = f THEN NoPage ELSE frame[h].page
                           /\ frame'[h].data = frame[h].data
                           /\ frame'[h].pins = IF h = f THEN 0 ELSE frame[h].pins
                           /\ frame'[h].dirty = IF h = f THEN FALSE ELSE frame[h].dirty
  <2>1. /\ frame[f].page \in Pages \cup {NoPage} /\ frame[f].data \in 0..MaxWrites
        /\ frame[f].pins \in Nat /\ frame[f].dirty \in BOOLEAN /\ frame[f] \in Frame
    BY <1>0, FrameFields DEF SeqInv, SeqTypes, StoreTypes
  <2>2. /\ g \in Frame
        /\ g.page = NoPage
        /\ g.data = frame[f].data
        /\ g.pins = 0
        /\ g.dirty = FALSE
    <3> HIDE DEF EvictRemove
    <3> QED
      BY <1>0, <2>1 DEF Frame
  <2>3. frame' = [frame EXCEPT ![f] = g] /\ frame \in [Frames -> Frame]
    BY <1>f DEF SeqInv, SeqTypes, StoreTypes
  <2> HIDE DEF g, EvictRemove
  <2>4. /\ frame' \in [Frames -> Frame] /\ frame'[f] = g
        /\ \A h \in Frames : h # f => frame'[h] = frame[h]
    BY <1>0, <2>2, <2>3
  <2>5. ASSUME NEW h \in Frames
        PROVE  /\ frame'[h].page = IF h = f THEN NoPage ELSE frame[h].page
               /\ frame'[h].data = frame[h].data
               /\ frame'[h].pins = IF h = f THEN 0 ELSE frame[h].pins
               /\ frame'[h].dirty = IF h = f THEN FALSE ELSE frame[h].dirty
    <3>1. CASE h = f
      BY <2>2, <2>4, <3>1
    <3>2. CASE h # f
      BY <2>4, <3>2
    <3> QED
      BY <3>1, <3>2
  <2> QED
    BY <2>4, <2>5
<1>b. FrameOnly(f, NoPage, frame[f].data, 0, FALSE)
  <2> HIDE DEF EvictRemove
  <2> QED
    BY <1>0, <1>a DEF FrameOnly
<1> QED
  BY <1>0, <1>f, <1>b

\* The victim leaves the table and is reset.
LEMMA EvictRemoveKeeps ==
  ASSUME NEW t, Threads = {t}, SeqInv(t), EvictRemove(t)
  PROVE  SeqInv(t)'
<1> USE DEF EvictRemove, Goto, locks, hist
<1>f. PICK f \in Frames : f = op[t].frame /\ frame[f].page \in Pages
                          /\ FrameOnly(f, NoPage, frame[f].data, 0, FALSE)
  BY EvictRemoveFrame
<1>0. f \in Frames /\ frame[f].page \in Pages
  BY <1>f
<1>a. /\ frame' \in [Frames -> Frame]
      /\ \A h \in Frames : /\ frame'[h].page = IF h = f THEN NoPage ELSE frame[h].page
                           /\ frame'[h].data = frame[h].data
                           /\ frame'[h].pins = IF h = f THEN 0 ELSE frame[h].pins
                           /\ frame'[h].dirty = IF h = f THEN FALSE ELSE frame[h].dirty
  BY <1>f DEF FrameOnly
<1>1. SeqTypes(t)'
  <2>1. StoreTypes'
    BY <1>a DEF SeqInv, SeqTypes, StoreTypes
  <2>2. CallTypes(t)'
    BY DEF SeqInv, SeqTypes, CallTypes, Labels
  <2>3. LockTypes(t)'
    BY DEF SeqInv, SeqTypes, LockTypes
  <2> QED
    BY <2>1, <2>2, <2>3 DEF SeqTypes
<1>2. TableAgrees(t)'
  <2> DEFINE q == frame[f].page
  <2>1. Pending(t) = {} /\ Pending(t)' = {} /\ known' = known
    BY DEF Pending
  <2>2. /\ \A p \in Pages, h \in Frames : table[p] = h <=> frame[h].page = p
        /\ \A p \in Pages : table[p] # 0 => p \in known
    BY <2>1 DEF SeqInv, PoolInv, TableAgrees
  <2>3. table' = [table EXCEPT ![q] = 0] /\ table \in [Pages -> Frames \cup {0}]
    BY <1>f DEF SeqInv, SeqTypes, StoreTypes, Pages, NoPage
  <2> HIDE DEF EvictRemove
  <2>4. \A p \in Pages, h \in Frames : table'[p] = h <=> frame'[h].page = p
    <3> SUFFICES ASSUME NEW p \in Pages, NEW h \in Frames
                 PROVE  table'[p] = h <=> frame'[h].page = p
      OBVIOUS
    <3>1. p # NoPage /\ h # 0
      BY DEF Pages, NoPage, Frames
    <3>2. CASE p = q
      <4>1. table'[p] = 0 /\ (h # f => frame[h].page # q) /\ table[q] = f
        BY <2>2, <2>3, <3>2
      <4>2. frame'[h].page = IF h = f THEN NoPage ELSE frame[h].page
        BY <1>a
      <4>3. table'[p] # h
        BY <3>1, <4>1
      <4>4. frame'[h].page # p
        BY <3>1, <3>2, <4>1, <4>2
      <4> QED
        BY <4>3, <4>4
    <3>3. CASE p # q
      <4>1. table'[p] = table[p] /\ frame[f].page # p
        BY <2>3, <3>3 DEF q
      <4>2. frame'[h].page = IF h = f THEN NoPage ELSE frame[h].page
        BY <1>a
      <4>3. CASE h = f
        BY <2>2, <3>1, <4>1, <4>2
      <4>4. CASE h # f
        BY <2>2, <4>1, <4>2, <4>4
      <4> QED
        BY <4>3, <4>4
    <3> QED
      BY <3>2, <3>3
  <2>5. \A p \in Pages : table'[p] # 0 => p \in known
    BY <1>0, <2>2, <2>3
  <2> QED
    BY <2>1, <2>4, <2>5 DEF TableAgrees
<1>3. PinsCounted(t)'
  <2>1. /\ Pending(t) = {} /\ Pending(t)' = {} /\ handles' = handles /\ known' = known
        /\ PinsCounted(t) /\ frame[f].pins = 0
    BY <1>f DEF SeqInv, PoolInv, PinInv, Pending
  <2>2. \A h \in handles[t] : h[2] # f /\ h[2] \in Frames
    BY <1>0, <2>1 DEF PinsCounted, Pinned, SeqInv, SeqTypes, CallTypes
  <2>3. \A h \in Frames : Pinned(t, h)' = Pinned(t, h)
    BY <2>1 DEF Pinned
  <2> HIDE DEF EvictRemove
  <2>4. \A h \in handles'[t] : h[1] \in known' /\ frame'[h[2]].page = h[1]
    BY <1>a, <2>1, <2>2 DEF PinsCounted
  <2>5. \A h \in Frames :
          frame'[h].pins = IF h \in Pending(t)' \/ Pinned(t, h)' THEN 1 ELSE 0
    BY <1>a, <2>1, <2>3 DEF PinsCounted
  <2> QED
    BY <2>4, <2>5 DEF PinsCounted
<1>4. FileAgrees'
  BY DEF SeqInv, SeqTypes, StoreTypes, CallTypes, PoolInv, TableAgrees, FileAgrees
<1>5. QueueHolds(t)'
  BY DEF SeqInv, SeqTypes, StoreTypes, CallTypes, PoolInv, QueueHolds, Taken
<1>6. PinInv(t)'
  BY DEF SeqInv, SeqTypes, StoreTypes, CallTypes, PoolInv, PinInv, TableAgrees,
     PinsCounted, FileAgrees, Missing
<1>7. WriteInv(t)'
  BY DEF WriteInv
<1>8. FlushInv(t)'
  BY DEF SeqInv, SeqTypes, CallTypes, FlushInv
<1> QED
  BY <1>1, <1>2, <1>3, <1>4, <1>5, <1>6, <1>7, <1>8 DEF SeqInv, PoolInv

\* What install does to the frame.
LEMMA InstallFrame ==
  ASSUME NEW t, Threads = {t}, SeqInv(t), Install(t)
  PROVE  \E f \in Frames, q \in Pages, c \in 0..MaxWrites, n \in Nat, d \in BOOLEAN :
           /\ f = op[t].frame /\ frame[f].page = NoPage /\ q = op[t].page /\ c = op[t].data
           /\ n = frame[f].pins + 1 /\ FrameOnly(f, q, c, n, d)
<1> USE DEF Install, Goto, locks, hist
<1>f. PICK f : f = op[t].frame
  OBVIOUS
<1>d. PICK d \in BOOLEAN : d = (op[t].kind = "new")
  OBVIOUS
<1>n. PICK n : n = frame[f].pins + 1
  OBVIOUS
<1>q. PICK q, c : q = op[t].page /\ c = op[t].data
  OBVIOUS
<1> DEFINE g == [frame[f] EXCEPT !.page = q, !.data = c, !.pins = n,
                             !.dirty = d]
<1>0. /\ f \in Frames /\ frame[f].page = NoPage /\ op[t].page \in Pages
      /\ op[t].page \in Pages \cup {NoPage} /\ op[t].data \in 0..MaxWrites
  <2>1. /\ f \in Frames /\ frame[f].page = NoPage /\ op[t].page \in 1..npages
        /\ op[t] \in Op
    BY <1>f DEF SeqInv, SeqTypes, CallTypes, PinInv, Missing
  <2> QED
    BY <2>1, OpTypes, PagesAssumption DEF SeqInv, SeqTypes, StoreTypes, Pages
<1>a. /\ frame' \in [Frames -> Frame]
      /\ \A h \in Frames : /\ frame'[h].page = IF h = f THEN q ELSE frame[h].page
                           /\ frame'[h].data = IF h = f THEN c ELSE frame[h].data
                           /\ frame'[h].pins = IF h = f THEN n ELSE frame[h].pins
                           /\ frame'[h].dirty = IF h = f THEN d ELSE frame[h].dirty
  <2>1. /\ frame[f].page \in Pages \cup {NoPage} /\ frame[f].data \in 0..MaxWrites
        /\ frame[f].pins \in Nat /\ frame[f].dirty \in BOOLEAN /\ frame[f] \in Frame
    BY <1>0, FrameFields DEF SeqInv, SeqTypes, StoreTypes
  <2>2. /\ g \in Frame
        /\ g.page = q
        /\ g.data = c
        /\ g.pins = n
        /\ g.dirty = d
    <3>1. n \in Nat /\ d \in BOOLEAN
      BY <1>d, <1>n, <2>1
    <3> QED
      BY <1>0, <1>q, <2>1, <3>1 DEF Frame
  <2>3. frame' = [frame EXCEPT ![f] = g] /\ frame \in [Frames -> Frame]
    BY <1>d, <1>n, <1>q, <1>f DEF SeqInv, SeqTypes, StoreTypes
  <2> HIDE DEF g, Install
  <2>4. /\ frame' \in [Frames -> Frame] /\ frame'[f] = g
        /\ \A h \in Frames : h # f => frame'[h] = frame[h]
    BY <1>0, <2>2, <2>3
  <2>5. ASSUME NEW h \in Frames
        PROVE  /\ frame'[h].page = IF h = f THEN q ELSE frame[h].page
               /\ frame'[h].data = IF h = f THEN c ELSE frame[h].data
               /\ frame'[h].pins = IF h = f THEN n ELSE frame[h].pins
               /\ frame'[h].dirty = IF h = f THEN d ELSE frame[h].dirty
    <3>1. CASE h = f
      BY <2>2, <2>4, <3>1
    <3>2. CASE h # f
      BY <2>4, <3>2
    <3> QED
      BY <3>1, <3>2
  <2> QED
    BY <2>4, <2>5
<1>b. FrameOnly(f, q, c, n, d)
  <2> HIDE DEF Install
  <2> QED
    BY <1>0, <1>a DEF FrameOnly
<1>c. q \in Pages /\ c \in 0..MaxWrites /\ n \in Nat
  BY <1>0, <1>n, <1>q, FrameFields DEF SeqInv, SeqTypes, StoreTypes
<1> QED
  BY <1>0, <1>c, <1>f, <1>n, <1>q, <1>b

\* The frame gets the page, pinned.
LEMMA InstallKeeps ==
  ASSUME NEW t, Threads = {t}, SeqInv(t), Install(t)
  PROVE  SeqInv(t)'
<1> USE DEF Install, Goto, locks, hist
<1>f. PICK f \in Frames, q \in Pages, c \in 0..MaxWrites, n \in Nat, d \in BOOLEAN :
        /\ f = op[t].frame /\ frame[f].page = NoPage /\ q = op[t].page /\ c = op[t].data
        /\ n = frame[f].pins + 1 /\ FrameOnly(f, q, c, n, d)
  BY InstallFrame
<1>0. f \in Frames /\ frame[f].page = NoPage
  BY <1>f
<1>a. /\ frame' \in [Frames -> Frame]
      /\ \A h \in Frames : /\ frame'[h].page = IF h = f THEN q ELSE frame[h].page
                           /\ frame'[h].data = IF h = f THEN c ELSE frame[h].data
                           /\ frame'[h].pins = IF h = f THEN n ELSE frame[h].pins
                           /\ frame'[h].dirty = IF h = f THEN d ELSE frame[h].dirty
  BY <1>f DEF FrameOnly
<1>1. SeqTypes(t)'
  <2>1. StoreTypes'
    BY <1>a DEF SeqInv, SeqTypes, StoreTypes
  <2>2. CallTypes(t)'
    BY DEF SeqInv, SeqTypes, CallTypes, Labels
  <2>3. LockTypes(t)'
    BY DEF SeqInv, SeqTypes, LockTypes
  <2> QED
    BY <2>1, <2>2, <2>3 DEF SeqTypes
<1>2. TableAgrees(t)'
  <2>1. /\ Pending(t) = {} /\ Pending(t)' = {f} /\ table' = table /\ known' = known
        /\ TableAgrees(t)
    BY <1>f DEF SeqInv, SeqTypes, CallTypes, PoolInv, Pending
  <2> HIDE DEF Install
  <2>2. \A p \in Pages : p # NoPage
    BY DEF Pages, NoPage
  <2> QED
    BY <1>0, <1>a, <2>1, <2>2 DEF TableAgrees
<1>3. PinsCounted(t)'
  <2>1. /\ Pending(t) = {} /\ Pending(t)' = {f} /\ handles' = handles /\ known' = known
        /\ PinsCounted(t) /\ \A h \in handles[t] : h \in Pages \X Frames
    BY <1>f DEF SeqInv, SeqTypes, CallTypes, PoolInv, Pending
  <2> HIDE DEF Install
  <2>2. \A h \in handles[t] : frame[h[2]].page = h[1] /\ h[2] # f /\ h[2] \in Frames
    BY <1>0, <2>1 DEF PinsCounted, Pages, NoPage
  <2>3. ~Pinned(t, f) /\ \A h \in Frames : Pinned(t, h)' = Pinned(t, h)
    BY <2>1, <2>2 DEF Pinned
  <2>4. n = 1
    BY <1>f, <2>1, <2>3 DEF PinsCounted
  <2>5. \A h \in handles'[t] : h[1] \in known' /\ frame'[h[2]].page = h[1]
    BY <1>a, <2>1, <2>2 DEF PinsCounted
  <2>6. \A h \in Frames : frame'[h].pins = IF h \in {f} \/ Pinned(t, h)' THEN 1 ELSE 0
    BY <1>a, <2>1, <2>3, <2>4 DEF PinsCounted
  <2> QED
    BY <2>1, <2>5, <2>6 DEF PinsCounted
<1>4. FileAgrees'
  <2>1. c = disk[q] /\ disk' = disk /\ npages' = npages
    BY <1>f DEF SeqInv, PinInv
  <2>2. FileAgrees
    BY DEF SeqInv, PoolInv
  <2>3. ASSUME NEW h \in Frames, frame'[h].page # NoPage, ~frame'[h].dirty
        PROVE  disk[frame'[h].page] = frame'[h].data
    <3> HIDE DEF Install
    <3>1. CASE h = f
      BY <1>a, <2>1, <3>1
    <3>2. CASE h # f
      BY <1>a, <2>2, <2>3, <3>2 DEF FileAgrees
    <3> QED
      BY <3>1, <3>2
  <2> QED
    BY <2>2, <2>3 DEF FileAgrees
<1>5. QueueHolds(t)'
  <2>1. queue' = queue /\ stranded' = stranded /\ Taken(t) = {} /\ QueueHolds(t)
    BY DEF SeqInv, PoolInv, Taken
  <2>2. frame[f].pins \in Nat
    BY <1>0, FrameFields DEF SeqInv, SeqTypes, StoreTypes
  <2>3. n # 0
    BY <1>f, <2>2
  <2> HIDE DEF Install
  <2> QED
    BY <1>a, <2>1, <2>3 DEF QueueHolds
<1>6. PinInv(t)'
  BY SMTT(60) DEF SeqInv, SeqTypes, StoreTypes, CallTypes, PoolInv, PinInv, TableAgrees,
     PinsCounted, FileAgrees, Missing, Saved, NoOp, Frames, Frame, NoPage
<1>7. WriteInv(t)'
  BY DEF WriteInv
<1>8. FlushInv(t)'
  BY DEF SeqInv, SeqTypes, CallTypes, FlushInv
<1> QED
  BY <1>1, <1>2, <1>3, <1>4, <1>5, <1>6, <1>7, <1>8 DEF SeqInv, PoolInv

\* The page enters the table, and the handle is returned.
LEMMA PublishKeeps ==
  ASSUME NEW t, Threads = {t}, SeqInv(t), Publish(t)
  PROVE  SeqInv(t)'
<1> USE DEF Publish, Goto, Return, ReturnHandle, locks, hist
<1>f. PICK f : f = op[t].frame
  OBVIOUS
<1>p. PICK p : p = op[t].page
  OBVIOUS
<1>0. /\ f \in Frames /\ frame[f].page = p /\ p \in 1..npages /\ p \in Pages
      /\ \A h \in handles[t] : h[1] # p
  <2>1. /\ f \in Frames /\ frame[f].page = p /\ p \in 1..npages
        /\ \A h \in handles[t] : h[1] # p
    BY <1>f, <1>p DEF SeqInv, PinInv, Missing
  <2> QED
    BY <2>1, PagesAssumption DEF SeqInv, SeqTypes, StoreTypes, Pages
<1>b. handles' = [handles EXCEPT ![t] = @ \cup {<<p, f>>}] /\ at'[t] = "idle"
  BY <1>p, <1>f DEF SeqInv, SeqTypes, CallTypes
<1>1. SeqTypes(t)'
  <2>1. StoreTypes'
    BY <1>0, <1>p, <1>f DEF SeqInv, SeqTypes, StoreTypes
  <2>2. CallTypes(t)'
    BY <1>0, <1>b, NoOpTypes DEF SeqInv, SeqTypes, CallTypes, Labels
  <2>3. LockTypes(t)'
    BY DEF SeqInv, SeqTypes, LockTypes
  <2> QED
    BY <2>1, <2>2, <2>3 DEF SeqTypes
<1>2. TableAgrees(t)'
  BY DEF SeqInv, SeqTypes, StoreTypes, CallTypes, PoolInv, TableAgrees, PinInv, Missing,
     Pending, Frames
<1>3. PinsCounted(t)'
  <2>1. /\ handles'[t] = handles[t] \cup {<<p, f>>} /\ Pending(t) = {f} /\ Pending(t)' = {}
        /\ frame' = frame /\ p \in known' /\ known \subseteq known'
    BY <1>f, <1>p DEF SeqInv, SeqTypes, CallTypes, Pending
  <2>2. /\ \A h \in handles[t] : h[1] \in known /\ frame[h[2]].page = h[1]
        /\ \A h \in Frames : frame[h].pins = IF h = f \/ Pinned(t, h) THEN 1 ELSE 0
    BY <2>1 DEF SeqInv, PoolInv, PinsCounted
  <2>3. \A h \in handles'[t] : h[1] \in known' /\ frame'[h[2]].page = h[1]
    BY <1>0, <2>1, <2>2
  <2>4. Pinned(t, f)'
    <3>1. <<p, f>> \in handles'[t] /\ <<p, f>>[2] = f
      BY <2>1
    <3> QED
      BY <3>1 DEF Pinned
  <2>5. \A h \in Frames : h # f => Pinned(t, h)' = Pinned(t, h)
    BY <2>1 DEF Pinned
  <2>6. \A h \in Frames : frame'[h].pins = IF Pinned(t, h)' THEN 1 ELSE 0
    BY <2>2, <2>4, <2>5
  <2> QED
    BY <2>1, <2>3, <2>6 DEF PinsCounted
<1>4. FileAgrees'
  BY DEF SeqInv, PoolInv, FileAgrees
<1>5. QueueHolds(t)'
  BY DEF SeqInv, PoolInv, QueueHolds, Taken
<1>6. PinInv(t)'
  BY DEF SeqInv, SeqTypes, CallTypes, PinInv
<1>7. WriteInv(t)'
  BY DEF WriteInv
<1>8. FlushInv(t)'
  BY DEF FlushInv
<1> QED
  BY <1>1, <1>2, <1>3, <1>4, <1>5, <1>6, <1>7, <1>8 DEF SeqInv, PoolInv

\* data_mut marks the frame.
LEMMA MarkDirtyKeeps ==
  ASSUME NEW t, Threads = {t}, SeqInv(t), MarkDirty(t)
  PROVE  SeqInv(t)'
<1> USE DEF MarkDirty, Goto, locks, hist
<1>h. PICK h \in handles[t] :
        /\ frame' = [frame EXCEPT ![h[2]].dirty = TRUE]
        /\ op' = [op EXCEPT ![t] = [NoOp EXCEPT !.kind = "write", !.frame = h[2]]]
  OBVIOUS
<1>f. PICK f : f = h[2]
  OBVIOUS
<1> DEFINE g == [frame[f] EXCEPT !.dirty = TRUE]
<1>0. f \in Frames /\ frame[f].page # NoPage /\ frame[f].page = h[1] /\ h \in Pages \X Frames
  <2>1. h \in handles[t] /\ h \in Pages \X Frames
    BY DEF SeqInv, SeqTypes, CallTypes
  <2>2. frame[h[2]].page = h[1]
    BY DEF SeqInv, PoolInv, PinsCounted
  <2> QED
    BY <1>f, <2>1, <2>2 DEF Pages, NoPage
<1>a. /\ frame' \in [Frames -> Frame]
      /\ \A k \in Frames : /\ frame'[k].page = frame[k].page
                           /\ frame'[k].data = frame[k].data
                           /\ frame'[k].pins = frame[k].pins
                           /\ frame'[k].dirty = IF k = f THEN TRUE ELSE frame[k].dirty
  <2>1. /\ frame[f].page \in Pages \cup {NoPage} /\ frame[f].data \in 0..MaxWrites
        /\ frame[f].pins \in Nat /\ frame[f].dirty \in BOOLEAN /\ frame[f] \in Frame
    BY <1>0, FrameFields DEF SeqInv, SeqTypes, StoreTypes
  <2>2. /\ g \in Frame
        /\ g.page = frame[f].page
        /\ g.data = frame[f].data
        /\ g.pins = frame[f].pins
        /\ g.dirty = TRUE
    <3> HIDE DEF MarkDirty
    <3> QED
      BY <1>0, <2>1 DEF Frame
  <2>3. frame' = [frame EXCEPT ![f] = g] /\ frame \in [Frames -> Frame]
    BY <1>h, <1>f DEF SeqInv, SeqTypes, StoreTypes
  <2> HIDE DEF g, MarkDirty
  <2>4. /\ frame' \in [Frames -> Frame] /\ frame'[f] = g
        /\ \A k \in Frames : k # f => frame'[k] = frame[k]
    BY <1>0, <2>2, <2>3
  <2>5. ASSUME NEW k \in Frames
        PROVE  /\ frame'[k].page = frame[k].page
               /\ frame'[k].data = frame[k].data
               /\ frame'[k].pins = frame[k].pins
               /\ frame'[k].dirty = IF k = f THEN TRUE ELSE frame[k].dirty
    <3>1. CASE k = f
      BY <2>2, <2>4, <3>1
    <3>2. CASE k # f
      BY <2>4, <3>2
    <3> QED
      BY <3>1, <3>2
  <2> QED
    BY <2>4, <2>5
<1>b. /\ at' = [at EXCEPT ![t] = "write"] /\ op'[t].frame = f /\ op' \in [{t} -> Op]
      /\ at \in [{t} -> Labels] /\ at[t] = "idle" /\ writes < MaxWrites /\ writes' = writes
  <2>1. [NoOp EXCEPT !.kind = "write", !.frame = f] \in Op
    BY <1>0, NoOpTypes DEF Op, Kinds
  <2> QED
    BY <1>h, <1>f, <2>1 DEF SeqInv, SeqTypes, CallTypes, Op
<1>1. SeqTypes(t)'
  <2>1. StoreTypes'
    BY <1>a DEF SeqInv, SeqTypes, StoreTypes
  <2>2. CallTypes(t)'
    BY <1>b DEF SeqInv, SeqTypes, CallTypes, Labels
  <2>3. LockTypes(t)'
    BY DEF SeqInv, SeqTypes, LockTypes
  <2> QED
    BY <2>1, <2>2, <2>3 DEF SeqTypes
<1>2. TableAgrees(t)'
  BY DEF SeqInv, PoolInv, TableAgrees, Pending
<1>3. PinsCounted(t)'
  BY DEF SeqInv, PoolInv, PinsCounted, Pinned, Pending
<1>4. FileAgrees'
  BY DEF SeqInv, PoolInv, FileAgrees
<1>5. QueueHolds(t)'
  BY DEF SeqInv, PoolInv, QueueHolds, Taken
<1>6. PinInv(t)'
  BY DEF PinInv
<1>7. WriteInv(t)'
  BY <1>0, <1>a, <1>b DEF WriteInv
<1>8. FlushInv(t)'
  BY DEF FlushInv
<1> QED
  BY <1>1, <1>2, <1>3, <1>4, <1>5, <1>6, <1>7, <1>8 DEF SeqInv, PoolInv

\* What the write does to the frame.
LEMMA WriteDataFrame ==
  ASSUME NEW t, Threads = {t}, SeqInv(t), WriteData(t)
  PROVE  \E f \in Frames, c \in 1..MaxWrites :
           /\ f = op[t].frame /\ c = writes + 1 /\ frame[f].page # NoPage /\ frame[f].dirty
           /\ FrameOnly(f, frame[f].page, c, frame[f].pins, frame[f].dirty)
<1> USE DEF WriteData, Goto, locks, hist
<1>f. PICK f : f = op[t].frame
  OBVIOUS
<1>c. PICK c : c = writes + 1
  OBVIOUS
<1> DEFINE g == [frame[f] EXCEPT !.data = c]
<1>0. /\ f \in Frames /\ frame[f].page # NoPage /\ frame[f].dirty
      /\ writes \in Nat /\ writes + 1 \in 0..MaxWrites /\ c \in 0..MaxWrites
  <2>1. f \in Frames /\ frame[f].page # NoPage /\ frame[f].dirty /\ writes < MaxWrites
    BY <1>f DEF SeqInv, WriteInv
  <2> QED
    BY <1>c, <2>1, BoundsAssumption DEF SeqInv, SeqTypes, StoreTypes
<1>a. /\ frame' \in [Frames -> Frame]
      /\ \A h \in Frames : /\ frame'[h].page = frame[h].page
                           /\ frame'[h].data = IF h = f THEN c ELSE frame[h].data
                           /\ frame'[h].pins = frame[h].pins
                           /\ frame'[h].dirty = frame[h].dirty
  <2>1. /\ frame[f].page \in Pages \cup {NoPage} /\ frame[f].data \in 0..MaxWrites
        /\ frame[f].pins \in Nat /\ frame[f].dirty \in BOOLEAN /\ frame[f] \in Frame
    BY <1>0, FrameFields DEF SeqInv, SeqTypes, StoreTypes
  <2>2. /\ g \in Frame
        /\ g.page = frame[f].page
        /\ g.data = c
        /\ g.pins = frame[f].pins
        /\ g.dirty = frame[f].dirty
    <3> HIDE DEF WriteData
    <3> QED
      BY <1>0, <2>1 DEF Frame
  <2>3. frame' = [frame EXCEPT ![f] = g] /\ frame \in [Frames -> Frame]
    BY <1>c, <1>f DEF SeqInv, SeqTypes, StoreTypes
  <2> HIDE DEF g, WriteData
  <2>4. /\ frame' \in [Frames -> Frame] /\ frame'[f] = g
        /\ \A h \in Frames : h # f => frame'[h] = frame[h]
    BY <1>0, <2>2, <2>3
  <2>5. ASSUME NEW h \in Frames
        PROVE  /\ frame'[h].page = frame[h].page
               /\ frame'[h].data = IF h = f THEN c ELSE frame[h].data
               /\ frame'[h].pins = frame[h].pins
               /\ frame'[h].dirty = frame[h].dirty
    <3>1. CASE h = f
      BY <2>2, <2>4, <3>1
    <3>2. CASE h # f
      BY <2>4, <3>2
    <3> QED
      BY <3>1, <3>2
  <2> QED
    BY <2>4, <2>5
<1>b. FrameOnly(f, frame[f].page, c, frame[f].pins, frame[f].dirty)
  <2> HIDE DEF WriteData
  <2> QED
    BY <1>0, <1>a DEF FrameOnly
<1>d. c \in 1..MaxWrites
  BY <1>0, <1>c
<1> QED
  BY <1>0, <1>c, <1>d, <1>f, <1>b

\* The data changes.
LEMMA WriteDataKeeps ==
  ASSUME NEW t, Threads = {t}, SeqInv(t), WriteData(t)
  PROVE  SeqInv(t)'
<1> USE DEF WriteData, Goto, Return, locks, hist
<1>f. PICK f \in Frames, c \in 1..MaxWrites :
        /\ f = op[t].frame /\ c = writes + 1 /\ frame[f].page # NoPage /\ frame[f].dirty
        /\ FrameOnly(f, frame[f].page, c, frame[f].pins, frame[f].dirty)
  BY WriteDataFrame
<1>0. f \in Frames /\ writes + 1 \in 0..MaxWrites
  BY <1>f
<1>a. /\ frame' \in [Frames -> Frame]
      /\ \A h \in Frames : /\ frame'[h].page = frame[h].page
                           /\ frame'[h].data = IF h = f THEN c ELSE frame[h].data
                           /\ frame'[h].pins = frame[h].pins
                           /\ frame'[h].dirty = frame[h].dirty
  BY <1>f DEF FrameOnly
<1>1. SeqTypes(t)'
  <2>1. StoreTypes'
    BY <1>a, <1>0 DEF SeqInv, SeqTypes, StoreTypes
  <2>2. CallTypes(t)'
    BY BoundsAssumption DEF SeqInv, SeqTypes, CallTypes, Op, Kinds, Labels, NoOp
  <2>3. LockTypes(t)'
    BY DEF SeqInv, SeqTypes, LockTypes
  <2> QED
    BY <2>1, <2>2, <2>3 DEF SeqTypes
<1>2. TableAgrees(t)'
  BY DEF SeqInv, PoolInv, TableAgrees, Pending
<1>3. PinsCounted(t)'
  BY DEF SeqInv, PoolInv, PinsCounted, Pinned, Pending
<1>4. FileAgrees'
  BY DEF SeqInv, PoolInv, FileAgrees, WriteInv
<1>5. QueueHolds(t)'
  BY DEF SeqInv, PoolInv, QueueHolds, Taken
<1>6. PinInv(t)'
  BY DEF PinInv
<1>7. WriteInv(t)'
  BY DEF SeqInv, SeqTypes, CallTypes, WriteInv
<1>8. FlushInv(t)'
  BY DEF FlushInv
<1> QED
  BY <1>1, <1>2, <1>3, <1>4, <1>5, <1>6, <1>7, <1>8 DEF SeqInv, PoolInv

\* A handle is dropped.
LEMMA UnpinKeeps ==
  ASSUME NEW t, Threads = {t}, SeqInv(t), Unpin(t)
  PROVE  SeqInv(t)'
<1> USE DEF Unpin, Goto, locks, hist
<1>h. PICK h \in handles[t] :
        /\ frame' = [frame EXCEPT ![h[2]].pins = IF @ > 0 THEN @ - 1 ELSE 0]
        /\ handles' = [handles EXCEPT ![t] = @ \ {h}]
        /\ IF frame[h[2]].pins <= 1
           THEN /\ frameW' = [frameW EXCEPT ![h[2]] = t]
                /\ op' = [op EXCEPT ![t] = [NoOp EXCEPT !.kind = "unpin", !.frame = h[2]]]
                /\ at' = [at EXCEPT ![t] = "enqueue"]
           ELSE UNCHANGED <<frameW, op, at>>
  OBVIOUS
<1>f. PICK f : f = h[2]
  OBVIOUS
<1> DEFINE g == [frame[f] EXCEPT !.pins = 0]
<1>0. /\ f \in Frames /\ frame[f].page # NoPage /\ frame[f].page = h[1]
      /\ h \in Pages \X Frames /\ frame[f].pins = 1
  <2>1. h \in handles[t] /\ h \in Pages \X Frames
    BY DEF SeqInv, SeqTypes, CallTypes
  <2>2. frame[h[2]].page = h[1]
    BY DEF SeqInv, PoolInv, PinsCounted
  <2>3. Pinned(t, f)
    BY <1>f, <2>1 DEF Pinned
  <2> QED
    BY <1>f, <2>1, <2>3 DEF SeqInv, PoolInv, PinsCounted, Pages, NoPage
<1>a. /\ frame' \in [Frames -> Frame]
      /\ \A k \in Frames : /\ frame'[k].page = frame[k].page
                           /\ frame'[k].data = frame[k].data
                           /\ frame'[k].pins = IF k = f THEN 0 ELSE frame[k].pins
                           /\ frame'[k].dirty = frame[k].dirty
  <2>1. /\ frame[f].page \in Pages \cup {NoPage} /\ frame[f].data \in 0..MaxWrites
        /\ frame[f].pins \in Nat /\ frame[f].dirty \in BOOLEAN /\ frame[f] \in Frame
    BY <1>0, FrameFields DEF SeqInv, SeqTypes, StoreTypes
  <2>2. /\ g \in Frame
        /\ g.page = frame[f].page
        /\ g.data = frame[f].data
        /\ g.pins = 0
        /\ g.dirty = frame[f].dirty
    <3> HIDE DEF Unpin
    <3> QED
      BY <1>0, <2>1 DEF Frame
  <2>3. frame' = [frame EXCEPT ![f] = g] /\ frame \in [Frames -> Frame]
    <3> HIDE DEF Unpin
    <3>1. (IF frame[f].pins > 0 THEN frame[f].pins - 1 ELSE 0) = 0
      BY <1>0
    <3>2. frame' = [frame EXCEPT ![f] =
                     [frame[f] EXCEPT !.pins = IF frame[f].pins > 0 THEN frame[f].pins - 1 ELSE 0]]
      BY <1>h, <1>f
    <3> QED
      BY <3>1, <3>2 DEF SeqInv, SeqTypes, StoreTypes
  <2> HIDE DEF g, Unpin
  <2>4. /\ frame' \in [Frames -> Frame] /\ frame'[f] = g
        /\ \A k \in Frames : k # f => frame'[k] = frame[k]
    BY <1>0, <2>2, <2>3
  <2>5. ASSUME NEW k \in Frames
        PROVE  /\ frame'[k].page = frame[k].page
               /\ frame'[k].data = frame[k].data
               /\ frame'[k].pins = IF k = f THEN 0 ELSE frame[k].pins
               /\ frame'[k].dirty = frame[k].dirty
    <3>1. CASE k = f
      BY <2>2, <2>4, <3>1
    <3>2. CASE k # f
      BY <2>4, <3>2
    <3> QED
      BY <3>1, <3>2
  <2> QED
    BY <2>4, <2>5
<1>b. /\ at' = [at EXCEPT ![t] = "enqueue"] /\ op'[t].frame = f /\ op' \in [{t} -> Op]
      /\ at \in [{t} -> Labels] /\ at[t] = "idle" /\ frameW' = [frameW EXCEPT ![f] = t]
  <2>1. [NoOp EXCEPT !.kind = "unpin", !.frame = f] \in Op
    BY <1>0, NoOpTypes DEF Op, Kinds
  <2>2. frame[h[2]].pins <= 1
    BY <1>0, <1>f
  <2>3. /\ at' = [at EXCEPT ![t] = "enqueue"] /\ frameW' = [frameW EXCEPT ![f] = t]
        /\ op' = [op EXCEPT ![t] = [NoOp EXCEPT !.kind = "unpin", !.frame = f]]
    BY <1>h, <1>f, <2>2
  <2>4. [NoOp EXCEPT !.kind = "unpin", !.frame = f].frame = f
    BY DEF NoOp
  <2>5. /\ at \in [{t} -> Labels] /\ op \in [{t} -> Op] /\ at[t] = "idle"
    BY DEF SeqInv, SeqTypes, CallTypes
  <2> HIDE DEF Unpin
  <2> QED
    BY <2>1, <2>3, <2>5
<1>c. handles'[t] = handles[t] \ {h} /\ handles' \in [{t} -> SUBSET (Pages \X Frames)]
  BY <1>h DEF SeqInv, SeqTypes, CallTypes
<1>1. SeqTypes(t)'
  <2>1. StoreTypes'
    BY <1>a DEF SeqInv, SeqTypes, StoreTypes
  <2>2. CallTypes(t)'
    BY <1>b, <1>c DEF CallTypes, Labels
  <2>3. LockTypes(t)'
    BY DEF SeqInv, SeqTypes, LockTypes
  <2> QED
    BY <2>1, <2>2, <2>3 DEF SeqTypes
<1>2. TableAgrees(t)'
  BY DEF SeqInv, SeqTypes, CallTypes, PoolInv, TableAgrees, Pending
<1>3. PinsCounted(t)'
  <2>1. /\ Pending(t) = {} /\ Pending(t)' = {} /\ known' = known
        /\ \A k \in handles[t] : k[1] \in known /\ frame[k[2]].page = k[1] /\ k \in Pages \X Frames
        /\ \A e \in Frames : frame[e].pins = IF Pinned(t, e) THEN 1 ELSE 0
    BY DEF SeqInv, SeqTypes, CallTypes, Pending, PoolInv, PinsCounted
  <2> HIDE DEF Unpin
  <2>2. \A k \in handles'[t] : k[1] \in known' /\ frame'[k[2]].page = k[1]
    BY <1>a, <1>c, <2>1
  <2>3. ~Pinned(t, f)'
    <3>1. ASSUME NEW k \in handles[t], k[2] = f PROVE k = h
      BY <1>f, <2>1, <3>1
    <3> QED
      BY <1>c, <3>1 DEF Pinned
  <2>4. \A e \in Frames : e # f => Pinned(t, e)' = Pinned(t, e)
    BY <1>c, <1>f DEF Pinned
  <2>5. \A e \in Frames : frame'[e].pins = IF Pinned(t, e)' THEN 1 ELSE 0
    BY <1>a, <2>1, <2>3, <2>4
  <2> QED
    BY <2>1, <2>2, <2>5 DEF PinsCounted
<1>4. FileAgrees'
  BY DEF SeqInv, PoolInv, FileAgrees
<1>5. QueueHolds(t)'
  <2>1. /\ Taken(t) = {} /\ Taken(t)' = {f} /\ UNCHANGED <<queue, stranded>> /\ QueueHolds(t)
    BY <1>b DEF SeqInv, PoolInv, Taken
  <2> HIDE DEF Unpin
  <2> QED
    BY <1>a, <2>1 DEF QueueHolds
<1>6. PinInv(t)'
  BY DEF SeqInv, SeqTypes, CallTypes, PinInv
<1>7. WriteInv(t)'
  BY <1>0, <1>b DEF WriteInv
<1>8. FlushInv(t)'
  BY DEF SeqInv, SeqTypes, CallTypes, FlushInv
<1> QED
  BY <1>1, <1>2, <1>3, <1>4, <1>5, <1>6, <1>7, <1>8 DEF SeqInv, PoolInv

\* A frame whose last pin is gone enters the queue.
LEMMA EnqueueKeeps ==
  ASSUME NEW t, Threads = {t}, SeqInv(t), Enqueue(t)
  PROVE  SeqInv(t)'
<1> USE DEF Enqueue, Goto, Return, locks, hist
<1>f. PICK f : f = op[t].frame
  OBVIOUS
<1>0. /\ f \in Frames /\ queue' \in Seq(Frames) /\ Len(queue') <= Capacity
      /\ NoRepeats(queue') /\ Within(queue') = Within(queue) \cup {f}
  <2>1. f \in Frames
    BY <1>f DEF SeqInv, WriteInv
  <2> QED
    BY <1>f, <2>1, PushFacts DEF SeqInv, SeqTypes, StoreTypes, PoolInv, QueueHolds
<1>1. SeqTypes(t)'
  <2>1. StoreTypes'
    BY <1>0 DEF SeqInv, SeqTypes, StoreTypes
  <2>2. CallTypes(t)'
    BY BoundsAssumption DEF SeqInv, SeqTypes, CallTypes, Op, Kinds, Labels, NoOp
  <2>3. LockTypes(t)'
    BY DEF SeqInv, SeqTypes, LockTypes
  <2> QED
    BY <2>1, <2>2, <2>3 DEF SeqTypes
<1>2. TableAgrees(t)'
  BY DEF SeqInv, PoolInv, TableAgrees, Pending
<1>3. PinsCounted(t)'
  BY DEF SeqInv, PoolInv, PinsCounted, Pinned, Pending
<1>4. FileAgrees'
  BY DEF SeqInv, PoolInv, FileAgrees
<1>5. QueueHolds(t)'
  <2>1. /\ Taken(t) = {f} /\ Taken(t)' = {} /\ stranded' = stranded \ {f} /\ frame' = frame
        /\ QueueHolds(t)
    BY <1>f DEF SeqInv, SeqTypes, CallTypes, PoolInv, Taken
  <2> HIDE DEF Enqueue
  <2> QED
    BY <1>0, <2>1 DEF QueueHolds
<1>6. PinInv(t)'
  BY DEF PinInv
<1>7. WriteInv(t)'
  BY DEF SeqInv, SeqTypes, CallTypes, WriteInv
<1>8. FlushInv(t)'
  BY DEF FlushInv
<1> QED
  BY <1>1, <1>2, <1>3, <1>4, <1>5, <1>6, <1>7, <1>8 DEF SeqInv, PoolInv

\* flush_all writes its copy of the frame.
LEMMA FlushWriteKeeps ==
  ASSUME NEW t, Threads = {t}, SeqInv(t), FlushWrite(t)
  PROVE  SeqInv(t)'
<1> USE DEF FlushWrite, Goto, Return, locks, hist
<1>f. PICK f, p : f = op[t].frame /\ p = op[t].page
  OBVIOUS
<1>0. /\ p \in Pages /\ f \in Frames /\ table[p] = f /\ f # 0 /\ frame[f].page = p
      /\ op[t].data = frame[f].data /\ p \in known /\ p \in 1..npages /\ p # NoPage
      /\ \A h \in Frames : frame[h].page = p => h = f
  <2>1. /\ p \in Pages /\ f \in Frames /\ table[p] = f /\ op[t].data = frame[f].data
        /\ Pending(t) = {}
    BY <1>f DEF SeqInv, FlushInv, Pending
  <2>2. f # 0 /\ p # NoPage
    BY <2>1 DEF Frames, Pages, NoPage
  <2>3. /\ frame[f].page = p /\ p \in known
        /\ \A h \in Frames : frame[h].page = p => h = f
    BY <2>1, <2>2 DEF SeqInv, PoolInv, TableAgrees
  <2>4. p \in 1..npages
    BY <2>3 DEF SeqInv, SeqTypes, StoreTypes
  <2> QED
    BY <2>1, <2>2, <2>3, <2>4
<1> DEFINE done == /\ disk' = [disk EXCEPT ![p] = frame[f].data]
                   /\ at' = [at EXCEPT ![t] = "clean"] /\ op' = op
           failed == disk' = disk /\ at' = [at EXCEPT ![t] = "idle"]
<1>a. done \/ failed
  BY <1>f, <1>0
<1>b. /\ frame' = frame /\ table' = table /\ npages' = npages /\ npages \in Nat
      /\ disk \in [Pages -> 0..MaxWrites] /\ at \in [{t} -> Labels] /\ FileAgrees
      /\ FlushInv(t) /\ at[t] = "out"
      /\ \A h \in Frames : frame[h].page \in Pages \cup {NoPage}
  BY FrameFields DEF SeqInv, SeqTypes, StoreTypes, CallTypes, PoolInv
<1>c. done => \A h \in Frames : frame[h].page # NoPage =>
        disk'[frame[h].page] = IF h = f THEN frame[f].data ELSE disk[frame[h].page]
  BY <1>0, <1>b
<1>1. SeqTypes(t)'
  <2>1. StoreTypes'
    <3>1. frame[f].data \in 0..MaxWrites
      BY <1>0, FrameFields DEF SeqInv, SeqTypes, StoreTypes
    <3>2. disk' \in [Pages -> 0..MaxWrites]
      BY <1>a, <1>b, <3>1
    <3> QED
      BY <3>2 DEF SeqInv, SeqTypes, StoreTypes
  <2>2. CallTypes(t)'
    BY BoundsAssumption DEF SeqInv, SeqTypes, CallTypes, Op, Kinds, Labels, NoOp
  <2>3. LockTypes(t)'
    BY DEF SeqInv, SeqTypes, LockTypes
  <2> QED
    BY <2>1, <2>2, <2>3 DEF SeqTypes
<1>2. TableAgrees(t)'
  BY DEF SeqInv, SeqTypes, CallTypes, PoolInv, TableAgrees, Pending
<1>3. PinsCounted(t)'
  BY DEF SeqInv, SeqTypes, CallTypes, PoolInv, PinsCounted, Pinned, Pending
<1>4. FileAgrees'
  <2> HIDE DEF FlushWrite
  <2>1. CASE failed
    BY <1>b, <2>1 DEF FileAgrees
  <2>2. CASE done
    <3>1. ASSUME NEW q \in Pages, q > npages PROVE disk'[q] = 0
      <4>1. q # p
        BY <1>0, <1>b, <3>1
      <4> QED
        BY <1>b, <2>2, <3>1, <4>1 DEF FileAgrees
    <3>2. ASSUME NEW h \in Frames, frame[h].page # NoPage, ~frame[h].dirty
          PROVE  disk'[frame[h].page] = frame[h].data
      <4>1. disk[frame[h].page] = frame[h].data
        BY <1>b, <3>2 DEF FileAgrees
      <4>2. disk'[frame[h].page] = IF h = f THEN frame[f].data ELSE disk[frame[h].page]
        BY <1>c, <2>2, <3>2
      <4> QED
        BY <4>1, <4>2
    <3> QED
      BY <1>b, <3>1, <3>2 DEF FileAgrees
  <2> QED
    BY <1>a, <2>1, <2>2
<1>5. QueueHolds(t)'
  BY DEF SeqInv, PoolInv, QueueHolds, Taken
<1>6. PinInv(t)'
  BY DEF SeqInv, SeqTypes, CallTypes, PinInv
<1>7. WriteInv(t)'
  BY DEF SeqInv, SeqTypes, CallTypes, WriteInv
<1>8. FlushInv(t)'
  <2> HIDE DEF FlushWrite
  <2>1. CASE failed
    BY <1>b, <2>1 DEF FlushInv
  <2>2. CASE done
    <3>1. at'[t] = "clean" /\ op' = op
      BY <1>b, <2>2
    <3>2. \A h \in Frames : frame[h].page # NoPage =>
            frame[h].page \in op[t].todo \/ frame[h].page = p \/ Saved(h)
      BY <1>b, <1>f DEF FlushInv
    <3>3. ASSUME NEW h \in Frames, frame[h].page # NoPage
          PROVE  frame[h].page \in op[t].todo \/ frame[h].page = p \/ Saved(h)'
      <4>1. CASE h = f
        BY <1>0, <4>1
      <4>2. CASE h # f
        <5>1. disk'[frame[h].page] = disk[frame[h].page]
          BY <1>c, <2>2, <3>3, <4>2
        <5> QED
          BY <1>b, <3>2, <3>3, <5>1 DEF Saved
      <4> QED
        BY <4>1, <4>2
    <3>4. disk'[p] = op[t].data
      BY <1>0, <1>b, <2>2
    <3> QED
      BY <1>b, <1>f, <3>1, <3>3, <3>4 DEF FlushInv
  <2> QED
    BY <1>a, <2>1, <2>2
<1> QED
  BY <1>1, <1>2, <1>3, <1>4, <1>5, <1>6, <1>7, <1>8 DEF SeqInv, PoolInv

\* flush_all clears the dirty flag.  With one thread the frame is still what
\* was written.
LEMMA FlushCleanKeeps ==
  ASSUME NEW t, Threads = {t}, SeqInv(t), FlushClean(t)
  PROVE  SeqInv(t)'
<1> USE DEF FlushClean, Goto, locks, hist
<1>f. PICK f : f = op[t].frame
  OBVIOUS
<1> DEFINE g == [frame[f] EXCEPT !.dirty = FALSE]
<1>0. f \in Frames
  BY <1>f DEF SeqInv, FlushInv
<1>a. /\ frame' \in [Frames -> Frame]
      /\ \A h \in Frames : /\ frame'[h].page = frame[h].page
                           /\ frame'[h].data = frame[h].data
                           /\ frame'[h].pins = frame[h].pins
                           /\ frame'[h].dirty = IF h = f THEN FALSE ELSE frame[h].dirty
  <2>1. /\ frame[f].page \in Pages \cup {NoPage} /\ frame[f].data \in 0..MaxWrites
        /\ frame[f].pins \in Nat /\ frame[f].dirty \in BOOLEAN /\ frame[f] \in Frame
    BY <1>0, FrameFields DEF SeqInv, SeqTypes, StoreTypes
  <2>2. /\ g \in Frame
        /\ g.page = frame[f].page
        /\ g.data = frame[f].data
        /\ g.pins = frame[f].pins
        /\ g.dirty = FALSE
    <3> HIDE DEF FlushClean
    <3> QED
      BY <1>0, <2>1 DEF Frame
  <2>3. frame' = [frame EXCEPT ![f] = g] /\ frame \in [Frames -> Frame]
    BY <1>f DEF SeqInv, SeqTypes, StoreTypes
  <2> HIDE DEF g, FlushClean
  <2>4. /\ frame' \in [Frames -> Frame] /\ frame'[f] = g
        /\ \A h \in Frames : h # f => frame'[h] = frame[h]
    BY <1>0, <2>2, <2>3
  <2>5. ASSUME NEW h \in Frames
        PROVE  /\ frame'[h].page = frame[h].page
               /\ frame'[h].data = frame[h].data
               /\ frame'[h].pins = frame[h].pins
               /\ frame'[h].dirty = IF h = f THEN FALSE ELSE frame[h].dirty
    <3>1. CASE h = f
      BY <2>2, <2>4, <3>1
    <3>2. CASE h # f
      BY <2>4, <3>2
    <3> QED
      BY <3>1, <3>2
  <2> QED
    BY <2>4, <2>5
<1>1. SeqTypes(t)'
  <2>1. StoreTypes'
    BY <1>a DEF SeqInv, SeqTypes, StoreTypes
  <2>2. CallTypes(t)'
    BY DEF SeqInv, SeqTypes, CallTypes, Labels
  <2>3. LockTypes(t)'
    BY DEF SeqInv, SeqTypes, LockTypes
  <2> QED
    BY <2>1, <2>2, <2>3 DEF SeqTypes
<1>2. TableAgrees(t)'
  BY DEF SeqInv, PoolInv, TableAgrees, Pending
<1>3. PinsCounted(t)'
  BY DEF SeqInv, PoolInv, PinsCounted, Pinned, Pending
<1>4. FileAgrees'
  BY DEF SeqInv, PoolInv, TableAgrees, FileAgrees, FlushInv
<1>5. QueueHolds(t)'
  BY DEF SeqInv, PoolInv, QueueHolds, Taken
<1>6. PinInv(t)'
  BY DEF PinInv
<1>7. WriteInv(t)'
  BY DEF WriteInv
<1>8. FlushInv(t)'
  <2>1. /\ at[t] = "clean" /\ at'[t] = "flush" /\ op' = op /\ disk' = disk /\ FlushInv(t)
        /\ Pending(t) = {}
    BY DEF SeqInv, SeqTypes, CallTypes, Pending
  <2> HIDE DEF FlushClean
  <2>2. /\ op[t].page \in Pages /\ table[op[t].page] = f
        /\ op[t].data = frame[f].data /\ disk[op[t].page] = op[t].data
    BY <1>f, <2>1 DEF FlushInv
  <2>3. \A h \in Frames : frame[h].page = op[t].page => h = f
    BY <2>1, <2>2 DEF SeqInv, PoolInv, TableAgrees
  <2>4. \A h \in Frames : frame[h].page # NoPage => frame[h].page \in op[t].todo \/ Saved(h)
    BY <2>1, <2>2, <2>3 DEF FlushInv, Saved
  <2> QED
    BY <1>a, <2>1, <2>4 DEF FlushInv, Saved
<1> QED
  BY <1>1, <1>2, <1>3, <1>4, <1>5, <1>6, <1>7, <1>8 DEF SeqInv, PoolInv

-----------------------------------------------------------------------------
(* The invariant *)

\* The invariant holds at first, in a cold and in a warm pool.
LEMMA InitSeq ==
  ASSUME NEW t, Threads = {t}, Init
  PROVE  SeqInv(t)
<1> USE DEF Init
<1>1. /\ StartPages \in Nat /\ StartPages <= MaxPages /\ MaxPages \in Nat /\ Capacity \in Nat
      /\ (Warm => StartPages <= Capacity) /\ MaxWrites \in Nat
  BY PagesAssumption, CapacityAssumption, WarmAssumption, BoundsAssumption
<1> DEFINE warm(f) == Warm /\ f <= StartPages
<1>2. \A f \in Frames : /\ frame[f].page = (IF warm(f) THEN f ELSE NoPage)
                        /\ frame[f].data = 0 /\ frame[f].pins = 0 /\ frame[f].dirty = FALSE
  BY DEF Empty
<1>3. \A f \in Frames : warm(f) => f \in Pages
  BY <1>1 DEF Frames, Pages
<1>4. frame \in [Frames -> Frame]
  <2>1. \A f \in Frames : (IF warm(f) THEN [Empty EXCEPT !.page = f] ELSE Empty) \in Frame
    <3>1. Empty \in Frame
      BY <1>1 DEF Empty, Frame
    <3>2. \A p \in Pages : [Empty EXCEPT !.page = p] \in Frame
      BY <3>1 DEF Frame
    <3> QED
      BY <1>3, <3>1, <3>2
  <2> QED
    BY <2>1
<1>5. /\ queue \in Seq(Frames) /\ Len(queue) <= Capacity
      /\ NoRepeats(queue) /\ \A f \in Frames : warm(f) => f \in Within(queue)
  <2>1. CASE Warm
    <3>1. queue = [i \in 1..StartPages |-> i] /\ \A i \in 1..StartPages : i \in Frames
      BY <1>1, <2>1 DEF Frames
    <3>2. queue \in Seq(Frames) /\ Len(queue) = StartPages
      <4>1. queue \in [1..StartPages -> Frames]
        BY <3>1
      <4>2. queue \in Seq(Frames)
        BY <1>1, <4>1, SeqDef
      <4>3. DOMAIN queue = 1..Len(queue) /\ DOMAIN queue = 1..StartPages /\ Len(queue) \in Nat
        BY <4>1, <4>2, LenProperties
      <4> QED
        BY <1>1, <4>2, <4>3
    <3> QED
      BY <1>1, <3>2 DEF NoRepeats, Within, Frames
  <2>2. CASE ~Warm
    BY <1>1, <2>2 DEF NoRepeats
  <2> QED
    BY <2>1, <2>2
<1>6. StoreTypes
  <2>1. table \in [Pages -> Frames \cup {0}]
    BY <1>1 DEF Pages, Frames
  <2> QED
    BY <1>1, <1>4, <1>5, <2>1 DEF StoreTypes
<1>7. CallTypes(t) /\ LockTypes(t)
  BY NoOpTypes DEF CallTypes, LockTypes, Labels
<1>8. Pending(t) = {} /\ Taken(t) = {} /\ handles[t] = {} /\ at[t] = "idle"
  BY DEF Pending, Taken
<1>9. TableAgrees(t)
  <2>1. \A p \in Pages : table[p] = (IF warm(p) THEN p ELSE 0)
    OBVIOUS
  <2>2. \A p \in Pages : warm(p) => p \in Frames /\ p \in known
    BY <1>1 DEF Pages, Frames
  <2> QED
    BY <1>2, <1>8 DEF TableAgrees, Pages, Frames, NoPage
<1>10. PinsCounted(t)
  BY <1>2, <1>8 DEF PinsCounted, Pinned
<1>11. FileAgrees
  BY <1>2, <1>3 DEF FileAgrees
<1>12. QueueHolds(t)
  BY <1>2, <1>5 DEF QueueHolds
<1>13. PinInv(t) /\ WriteInv(t) /\ FlushInv(t)
  BY DEF PinInv, WriteInv, FlushInv
<1> QED
  BY <1>6, <1>7, <1>9, <1>10, <1>11, <1>12, <1>13 DEF SeqInv, SeqTypes, PoolInv

\* A stuttering step keeps the invariant.
LEMMA StutterSeq ==
  ASSUME NEW t, SeqInv(t), UNCHANGED vars
  PROVE  SeqInv(t)'
<1> USE DEF vars
<1>1. SeqTypes(t)'
  BY DEF SeqInv, SeqTypes, StoreTypes, CallTypes, LockTypes
<1>2. Pending(t)' = Pending(t) /\ Taken(t)' = Taken(t)
  BY DEF Pending, Taken
<1>3. PoolInv(t)'
  BY <1>2 DEF SeqInv, PoolInv, TableAgrees, PinsCounted, FileAgrees, QueueHolds, Pinned
<1>4. PinInv(t)' /\ WriteInv(t)' /\ FlushInv(t)'
  BY DEF SeqInv, PinInv, WriteInv, FlushInv, Missing, Saved
<1> QED
  BY <1>1, <1>3, <1>4 DEF SeqInv

\* Every step keeps the invariant.
LEMMA NextSeq ==
  ASSUME NEW t, Threads = {t}, SeqInv(t), [Next]_vars
  PROVE  SeqInv(t)'
<1>1. CASE UNCHANGED vars
  BY <1>1, StutterSeq
<1>2. CASE Call(t)
  BY <1>2, PinKeeps, NewPageKeeps, MarkDirtyKeeps, UnpinKeeps, FlushAllKeeps DEF Call
<1>3. CASE Run(t)
  <2>1. ASSUME PinHit(t) \/ FindFrame(t) \/ BeginEvict(t) \/ EvictFull(t) \/ EvictPop(t)
        PROVE  SeqInv(t)'
    BY <2>1, PinHitKeeps, FindFrameKeeps, BeginEvictKeeps, EvictFullKeeps, EvictPopKeeps
  <2>2. ASSUME EvictWrite(t) \/ EvictWriteFails(t) \/ EvictRemove(t) \/ Load(t) \/ LoadFails(t)
        PROVE  SeqInv(t)'
    BY <2>2, EvictWriteKeeps, EvictWriteFailsKeeps, EvictRemoveKeeps, LoadKeeps,
       LoadFailsKeeps
  <2>3. ASSUME Install(t) \/ Publish(t) \/ WriteData(t) \/ Enqueue(t)
        PROVE  SeqInv(t)'
    BY <2>3, InstallKeeps, PublishKeeps, WriteDataKeeps, EnqueueKeeps
  <2>4. ASSUME FlushDone(t) \/ (\E p \in Pages : FlushLookup(t, p)) \/ FlushCopy(t)
                \/ FlushWrite(t) \/ FlushClean(t)
        PROVE  SeqInv(t)'
    BY <2>4, FlushDoneKeeps, FlushLookupKeeps, FlushCopyKeeps, FlushWriteKeeps,
       FlushCleanKeeps
  <2> QED
    BY <1>3, <2>1, <2>2, <2>3, <2>4 DEF Run
<1> QED
  BY <1>1, <1>2, <1>3 DEF Next

\* The inductive invariant of a pool with one thread.
THEOREM PoolInvariant ==
  ASSUME NEW t, Threads = {t}
  PROVE  Spec => []SeqInv(t)
<1>1. Init => SeqInv(t)
  BY InitSeq
<1>2. SeqInv(t) /\ [Next]_vars => SeqInv(t)'
  BY NextSeq
<1> QED
  BY <1>1, <1>2, PTL DEF Spec

-----------------------------------------------------------------------------
(* What the run checks *)

\* Every variable has its type, and every label it is compared with exists.
THEOREM PoolTyped ==
  ASSUME NEW t, Threads = {t}
  PROVE  Spec => []TypeOK
<1>1. SeqInv(t) => TypeOK
  BY DEF SeqInv, SeqTypes, StoreTypes, CallTypes, LockTypes, TypeOK, Frame
<1> QED
  BY <1>1, PoolInvariant, PTL

\* A frame has one handle at most, when there is one thread.
LEMMA HoldersCounted ==
  ASSUME NEW t, Threads = {t}, SeqInv(t), NEW f \in Frames
  PROVE  Cardinality(Holders(f)) = IF Pinned(t, f) THEN 1 ELSE 0
<1>1. Holders(f) = {t} \X {h \in handles[t] : h[2] = f}
  BY DEF Holders
<1>2. CASE Pinned(t, f)
  <2>1. PICK h \in handles[t] : h[2] = f
    BY <1>2 DEF Pinned
  <2>2. ASSUME NEW k \in handles[t], k[2] = f PROVE k = h
    <3>1. k \in Pages \X Frames /\ h \in Pages \X Frames
      BY DEF SeqInv, SeqTypes, CallTypes
    <3>2. k[1] = frame[f].page /\ h[1] = frame[f].page
      BY <2>1, <2>2 DEF SeqInv, PoolInv, PinsCounted
    <3> QED
      BY <2>1, <2>2, <3>1, <3>2
  <2>3. {k \in handles[t] : k[2] = f} = {h}
    BY <2>1, <2>2
  <2>4. Holders(f) = {<<t, h>>}
    BY <1>1, <2>3
  <2>5. Cardinality({<<t, h>>}) = 1
    BY FS_Singleton
  <2> QED
    BY <1>2, <2>4, <2>5
<1>3. CASE ~Pinned(t, f)
  <2>1. Holders(f) = {}
    BY <1>1, <1>3 DEF Pinned
  <2> QED
    BY <1>3, <2>1, FS_EmptySet
<1> QED
  BY <1>2, <1>3

\* A page that a handle points to stays in its frame until the handle is
\* dropped (evict passes over pinned frames, pin counts before it returns).
THEOREM PinnedPagesStay ==
  ASSUME NEW t, Threads = {t}
  PROVE  Spec => []HandlesValid
<1>1. SeqInv(t) => HandlesValid
  <2> SUFFICES ASSUME SeqInv(t) PROVE HandlesValid
    OBVIOUS
  <2>1. \A h \in handles[t] : frame[h[2]].page = h[1]
    BY DEF SeqInv, PoolInv, PinsCounted
  <2>2. \A f \in Frames : frame[f].pins >= Cardinality(Holders(f))
    BY HoldersCounted DEF SeqInv, PoolInv, PinsCounted
  <2> QED
    BY <2>1, <2>2 DEF HandlesValid
<1> QED
  BY <1>1, PoolInvariant, PTL

\* Between calls the page table, the frames, the pin counts and the file
\* agree: whichever calls failed or evicted, a clean frame has the contents of the file.
THEOREM PoolStaysConsistent ==
  ASSUME NEW t, Threads = {t}
  PROVE  Spec => []PoolConsistent
<1>1. SeqInv(t) => PoolConsistent
  <2> SUFFICES ASSUME SeqInv(t), at[t] = "idle"
               PROVE  /\ \A p \in Pages, f \in Frames : table[p] = f <=> frame[f].page = p
                      /\ \A f \in Frames : frame[f].page # NoPage /\ ~frame[f].dirty
                           => disk[frame[f].page] = frame[f].data
                      /\ \A f \in Frames : frame[f].pins = Cardinality(Holders(f))
    BY DEF PoolConsistent
  <2>1. Pending(t) = {}
    BY DEF Pending
  <2>2. \A f \in Frames : frame[f].pins = Cardinality(Holders(f))
    BY <2>1, HoldersCounted DEF SeqInv, PoolInv, PinsCounted
  <2> QED
    BY <2>1, <2>2 DEF SeqInv, PoolInv, TableAgrees, FileAgrees
<1> QED
  BY <1>1, PoolInvariant, PTL

\* evict gives up only when every frame is pinned, or was lost to a write
\* error: no frame that could be evicted is outside the queue.
THEOREM FullOnlyWhenPinned ==
  ASSUME NEW t, Threads = {t}
  PROVE  Spec => []FullMeansPinned
<1>1. SeqInv(t) => FullMeansPinned
  <2> SUFFICES ASSUME SeqInv(t), at[t] = "evict", queue = <<>>, NEW f \in Frames
               PROVE  frame[f].pins > 0 \/ f \in stranded
    BY DEF FullMeansPinned
  <2>1. frame[f].page # NoPage
    BY DEF SeqInv, PinInv
  <2>2. Taken(t) = {} /\ Within(queue) = {}
    BY DEF Taken, Within
  <2>3. frame[f].pins \in Nat
    BY FrameFields DEF SeqInv, SeqTypes, StoreTypes
  <2> QED
    BY <2>1, <2>2, <2>3 DEF SeqInv, PoolInv, QueueHolds
<1> QED
  BY <1>1, PoolInvariant, PTL

\* When flush_all returns, every page in the pool is in the file.
FlushedAll ==
  \A t \in Threads :
    FlushDone(t) => \A f \in Frames :
                      frame[f].page # NoPage => disk[frame[f].page] = frame[f].data

\* flush_all returns only when the file has the contents of every page in the
\* pool, whatever was evicted or dirtied before it.
THEOREM FlushSavesEveryPage ==
  ASSUME NEW t, Threads = {t}
  PROVE  Spec => FlushAllSaves
<1>1. SeqInv(t) => FlushedAll
  BY DEF SeqInv, FlushInv, FlushedAll, FlushDone, Saved
<1>2. SeqInv(t) /\ [Next]_vars => [FlushedAll]_vars
  BY <1>1
<1>3. Spec => [][FlushedAll]_vars
  BY <1>2, PoolInvariant, PTL DEF Spec
<1> QED
  BY <1>3 DEF FlushAllSaves, FlushedAll

-----------------------------------------------------------------------------
(* The page store *)

\* The contents of every page: that of its frame, or else that of the file.
View(fr, dk) ==
  [p \in Pages |-> IF \E f \in Frames : fr[f].page = p
                   THEN fr[CHOOSE f \in Frames : fr[f].page = p].data
                   ELSE dk[p]]

\* No page is in two frames.
OnePlace(fr) ==
  \A f, g \in Frames : fr[f].page # NoPage /\ fr[f].page = fr[g].page => f = g

\* The contents of a page, given its frame.
LEMMA ViewOf ==
  ASSUME NEW fr, NEW dk, OnePlace(fr), NEW p, p \in Pages
  PROVE  /\ \A f \in Frames : fr[f].page = p => View(fr, dk)[p] = fr[f].data
         /\ (\A f \in Frames : fr[f].page # p) => View(fr, dk)[p] = dk[p]
<1>1. p # NoPage
  BY DEF Pages, NoPage
<1>2. ASSUME NEW f \in Frames, fr[f].page = p PROVE View(fr, dk)[p] = fr[f].data
  <2> DEFINE g == CHOOSE g \in Frames : fr[g].page = p
  <2>1. g \in Frames /\ fr[g].page = p
    BY <1>2
  <2>2. View(fr, dk)[p] = fr[g].data
    BY <1>2 DEF View
  <2> HIDE DEF g
  <2>3. g = f
    BY <1>1, <1>2, <2>1 DEF OnePlace
  <2> QED
    BY <2>2, <2>3
<1>3. ASSUME \A f \in Frames : fr[f].page # p PROVE View(fr, dk)[p] = dk[p]
  BY <1>3 DEF View
<1> QED
  BY <1>2, <1>3

\* The invariant keeps a page out of a second frame, also before it is in the
\* table: the frames are what a reader of the store sees.
LEMMA OnePlaceSeq ==
  ASSUME NEW t, SeqInv(t)
  PROVE  OnePlace(frame)
<1> SUFFICES ASSUME NEW f \in Frames, NEW g \in Frames, frame[f].page # NoPage,
                    frame[f].page = frame[g].page
             PROVE  f = g
  BY DEF OnePlace
<1>1. frame[f].page \in Pages /\ f # 0 /\ g # 0
  BY FrameFields DEF SeqInv, SeqTypes, StoreTypes, Frames
<1>2. CASE Pending(t) = {}
  BY <1>1, <1>2 DEF SeqInv, PoolInv, TableAgrees
<1>3. CASE Pending(t) # {}
  <2>1. /\ Pending(t) = {op[t].frame} /\ table[op[t].page] = 0
        /\ frame[op[t].frame].page = op[t].page /\ op[t].frame \in Frames
    BY <1>3 DEF SeqInv, PinInv, Missing, Pending
  <2>2. \A h \in Frames : h # op[t].frame => frame[h].page # op[t].page \/ frame[h].page = NoPage
    BY <2>1, FrameFields DEF SeqInv, SeqTypes, StoreTypes, PoolInv, TableAgrees, Frames
  <2> QED
    BY <1>1, <2>1 DEF SeqInv, PoolInv, TableAgrees
<1> QED
  BY <1>2, <1>3

\* The contents stay the same when no frame changes and the file changes only
\* in pages that have one.
LEMMA ViewSame ==
  ASSUME NEW fr, NEW dk, NEW fr2, NEW dk2, OnePlace(fr), OnePlace(fr2),
         \A f \in Frames : fr2[f].page = fr[f].page /\ fr2[f].data = fr[f].data,
         \A p \in Pages : (\A f \in Frames : fr[f].page # p) => dk2[p] = dk[p]
  PROVE  View(fr2, dk2) = View(fr, dk)
<1>1. ASSUME NEW p \in Pages PROVE View(fr2, dk2)[p] = View(fr, dk)[p]
  <2>1. CASE \E f \in Frames : fr[f].page = p
    BY <2>1, ViewOf
  <2>2. CASE \A f \in Frames : fr[f].page # p
    BY <2>2, ViewOf
  <2> QED
    BY <2>1, <2>2
<1> QED
  BY <1>1 DEF View

\* Contents are equal page by page.
LEMMA ViewEqual ==
  ASSUME NEW fr, NEW dk, NEW fr2, NEW dk2,
         \A p \in Pages : View(fr2, dk2)[p] = View(fr, dk)[p]
  PROVE  View(fr2, dk2) = View(fr, dk)
BY DEF View

\* An evicted page is read from the file, which has been written.
LEMMA EvictRemoveView ==
  ASSUME NEW t, Threads = {t}, SeqInv(t), OnePlace(frame), OnePlace(frame'), EvictRemove(t)
  PROVE  View(frame', disk') = View(frame, disk) /\ disk' = disk
<1>f. PICK f \in Frames : f = op[t].frame /\ frame[f].page \in Pages
                          /\ FrameOnly(f, NoPage, frame[f].data, 0, FALSE)
  BY EvictRemoveFrame
<1>1. disk' = disk /\ disk[frame[f].page] = frame[f].data
  BY <1>f DEF EvictRemove, SeqInv, PinInv, Saved
<1>2. /\ frame'[f].page = NoPage
      /\ \A h \in Frames : h # f => /\ frame'[h].page = frame[h].page
                                    /\ frame'[h].data = frame[h].data
  BY <1>f DEF FrameOnly
<1>3. ASSUME NEW p \in Pages PROVE View(frame', disk')[p] = View(frame, disk)[p]
  <2>0. p # NoPage
    BY DEF Pages, NoPage
  <2>1. CASE p = frame[f].page
    <3>1. \A h \in Frames : frame'[h].page # p
      BY <1>2, <2>0, <2>1 DEF OnePlace
    <3>2. View(frame', disk')[p] = disk'[p]
      BY <3>1, ViewOf
    <3>3. View(frame, disk)[p] = frame[f].data
      BY <2>1, ViewOf
    <3> QED
      BY <1>1, <2>1, <3>2, <3>3
  <2>2. CASE p # frame[f].page /\ \E h \in Frames : frame[h].page = p
    <3>1. PICK h \in Frames : frame[h].page = p
      BY <2>2
    <3>2. h # f /\ frame'[h].page = p /\ frame'[h].data = frame[h].data
      BY <1>2, <2>2, <3>1
    <3>3. View(frame', disk')[p] = frame'[h].data
      BY <3>2, ViewOf
    <3>4. View(frame, disk)[p] = frame[h].data
      BY <3>1, ViewOf
    <3> QED
      BY <3>2, <3>3, <3>4
  <2>3. CASE \A h \in Frames : frame[h].page # p
    <3>1. \A h \in Frames : frame'[h].page # p
      BY <1>2, <2>0, <2>3
    <3>2. View(frame', disk')[p] = disk'[p]
      BY <3>1, ViewOf
    <3>3. View(frame, disk)[p] = disk[p]
      BY <2>3, ViewOf
    <3> QED
      BY <1>1, <3>2, <3>3
  <2> QED
    BY <2>1, <2>2, <2>3
<1> QED
  BY <1>1, <1>3, ViewEqual

\* Frame f comes to hold page q with contents c.
Shows(f, q, c) ==
  /\ frame'[f].page = q /\ frame'[f].data = c
  /\ \A h \in Frames : h # f => /\ frame'[h].page = frame[h].page
                               /\ frame'[h].data = frame[h].data

\* Filling a frame with what is in the file changes no contents.
LEMMA FilledView ==
  ASSUME OnePlace(frame), OnePlace(frame'), NEW f, f \in Frames, NEW q, q \in Pages, NEW c,
         disk' = disk, c = disk[q], frame[f].page = NoPage,
         \A h \in Frames : frame[h].page # q, Shows(f, q, c)
  PROVE  View(frame', disk') = View(frame, disk)
<1>1. ASSUME NEW p \in Pages PROVE View(frame', disk')[p] = View(frame, disk)[p]
  <2>0. p # NoPage
    BY DEF Pages, NoPage
  <2>1. CASE p = q
    <3>1. View(frame', disk')[p] = c
      BY <2>1, ViewOf DEF Shows
    <3>2. View(frame, disk)[p] = disk[p]
      BY <2>1, ViewOf
    <3> QED
      BY <2>1, <3>1, <3>2
  <2>2. CASE p # q /\ \E h \in Frames : frame[h].page = p
    <3>1. PICK h \in Frames : frame[h].page = p
      BY <2>2
    <3>2. h # f /\ frame'[h].page = p /\ frame'[h].data = frame[h].data
      BY <2>0, <3>1 DEF Shows
    <3>3. View(frame', disk')[p] = frame'[h].data
      BY <3>2, ViewOf
    <3>4. View(frame, disk)[p] = frame[h].data
      BY <3>1, ViewOf
    <3> QED
      BY <3>2, <3>3, <3>4
  <2>3. CASE p # q /\ \A h \in Frames : frame[h].page # p
    <3>1. \A h \in Frames : frame'[h].page # p
      BY <2>3 DEF Shows
    <3>2. View(frame', disk')[p] = disk'[p]
      BY <3>1, ViewOf
    <3>3. View(frame, disk)[p] = disk[p]
      BY <2>3, ViewOf
    <3> QED
      BY <3>2, <3>3
  <2> QED
    BY <2>1, <2>2, <2>3
<1> QED
  BY <1>1, ViewEqual

\* An installed page has what was read from the file.
LEMMA InstallView ==
  ASSUME NEW t, Threads = {t}, SeqInv(t), OnePlace(frame), OnePlace(frame'), Install(t)
  PROVE  View(frame', disk') = View(frame, disk) /\ disk' = disk
<1>f. PICK f \in Frames, q \in Pages, c \in 0..MaxWrites, n \in Nat, d \in BOOLEAN :
        /\ f = op[t].frame /\ frame[f].page = NoPage /\ q = op[t].page /\ c = op[t].data
        /\ n = frame[f].pins + 1 /\ FrameOnly(f, q, c, n, d)
  BY InstallFrame
<1>1. disk' = disk /\ c = disk[q] /\ table[q] = 0 /\ Pending(t) = {}
  BY <1>f DEF Install, SeqInv, PinInv, Missing, Pending
<1>2. \A h \in Frames : frame[h].page # q
  BY <1>1 DEF SeqInv, PoolInv, TableAgrees, Frames
<1>3. Shows(f, q, c)
  BY <1>f DEF FrameOnly, Shows
<1> QED
  BY <1>f, <1>1, <1>2, <1>3, FilledView

\* Writing a frame changes the contents of its page.
LEMMA WrittenView ==
  ASSUME OnePlace(frame), OnePlace(frame'), NEW f, f \in Frames, NEW q, q \in Pages, NEW c,
         disk' = disk, frame[f].page = q, Shows(f, q, c)
  PROVE  View(frame', disk') = [View(frame, disk) EXCEPT ![q] = c]
<1> DEFINE v == View(frame, disk)
           w == View(frame', disk')
<1>1. w[q] = c
  BY ViewOf DEF Shows
<1>2. ASSUME NEW p \in Pages, p # q PROVE w[p] = v[p]
  <2>1. CASE \E h \in Frames : frame[h].page = p
    <3>1. PICK h \in Frames : frame[h].page = p
      BY <2>1
    <3>2. h # f /\ frame'[h].page = p /\ frame'[h].data = frame[h].data
      BY <1>2, <3>1 DEF Shows
    <3>3. w[p] = frame'[h].data
      BY <3>2, ViewOf
    <3>4. v[p] = frame[h].data
      BY <3>1, ViewOf
    <3> QED
      BY <3>2, <3>3, <3>4
  <2>2. CASE \A h \in Frames : frame[h].page # p
    <3>1. \A h \in Frames : frame'[h].page # p
      BY <1>2, <2>2 DEF Shows
    <3>2. w[p] = disk'[p]
      BY <3>1, ViewOf
    <3>3. v[p] = disk[p]
      BY <2>2, ViewOf
    <3> QED
      BY <3>2, <3>3
  <2> QED
    BY <2>1, <2>2
<1>3. w = [p \in Pages |-> w[p]] /\ v = [p \in Pages |-> v[p]]
  BY DEF View
<1> HIDE DEF v, w
<1>4. w = [v EXCEPT ![q] = c]
  BY <1>1, <1>2, <1>3
<1> QED
  BY <1>4 DEF v, w

\* A write changes the contents of the page of the frame, and no other.
LEMMA WriteDataView ==
  ASSUME NEW t, Threads = {t}, SeqInv(t), OnePlace(frame), OnePlace(frame'), WriteData(t)
  PROVE  \E p \in Pages, c \in 1..MaxWrites :
           View(frame', disk') = [View(frame, disk) EXCEPT ![p] = c] /\ disk' = disk
<1>f. PICK f \in Frames, c \in 1..MaxWrites :
        /\ f = op[t].frame /\ c = writes + 1 /\ frame[f].page # NoPage /\ frame[f].dirty
        /\ FrameOnly(f, frame[f].page, c, frame[f].pins, frame[f].dirty)
  BY WriteDataFrame
<1>q. PICK q : q = frame[f].page
  OBVIOUS
<1>1. disk' = disk /\ q \in Pages
  BY <1>f, <1>q, FrameFields DEF WriteData, SeqInv, SeqTypes, StoreTypes
<1>2. Shows(f, q, c)
  BY <1>f, <1>q DEF FrameOnly, Shows
<1>3. View(frame', disk') = [View(frame, disk) EXCEPT ![q] = c]
  BY <1>q, <1>1, <1>2, WrittenView
<1> QED
  BY <1>1, <1>3

\* The file is given the contents of a page.

\* The file is given the contents of a page.
LEMMA WriteBackView ==
  ASSUME OnePlace(frame), frame' = frame, NEW f \in Frames, frame[f].page \in Pages,
         disk' = [disk EXCEPT ![frame[f].page] = frame[f].data]
  PROVE  /\ View(frame', disk') = View(frame, disk)
         /\ frame[f].data = View(frame, disk)[frame[f].page]
<1>1. \A p \in Pages : (\A h \in Frames : frame[h].page # p) => disk'[p] = disk[p]
  OBVIOUS
<1>2. View(frame', disk') = View(frame, disk)
  <2>1. View(frame, disk') = View(frame, disk)
    <3> DEFINE dk2 == disk'
    <3>1. \A p \in Pages : (\A h \in Frames : frame[h].page # p) => dk2[p] = disk[p]
      BY <1>1
    <3> HIDE DEF dk2
    <3>2. View(frame, dk2) = View(frame, disk)
      BY <3>1, ViewSame
    <3> QED
      BY <3>2 DEF dk2
  <2> QED
    BY <2>1
<1>3. frame[f].data = View(frame, disk)[frame[f].page]
  BY ViewOf
<1> QED
  BY <1>2, <1>3

\* A step of the page store: nothing, a write or a write-back.
StoreStep ==
  \/ Content' = Content /\ disk' = disk
  \/ \E p \in Pages, c \in 1..MaxWrites : Content' = [Content EXCEPT ![p] = c] /\ disk' = disk
  \/ \E p \in Pages : disk' = [disk EXCEPT ![p] = Content[p]] /\ Content' = Content

\* Every step of the pool is one of the page store, or none.
LEMMA NextStoreStep ==
  ASSUME NEW t, Threads = {t}, SeqInv(t), OnePlace(frame), OnePlace(frame'), [Next]_vars
  PROVE  StoreStep
<1>1. Content = View(frame, disk) /\ Content' = View(frame', disk')
  BY DEF Content, View
<1>2. ASSUME disk' = disk,
             \A f \in Frames : frame'[f].page = frame[f].page /\ frame'[f].data = frame[f].data
      PROVE  StoreStep
  <2>1. View(frame', disk') = View(frame, disk)
    BY <1>2, ViewSame
  <2> QED
    BY <1>1, <1>2, <2>1 DEF StoreStep
<1>3. frame \in [Frames -> Frame]
  BY DEF SeqInv, SeqTypes, StoreTypes
<1>4. ASSUME UNCHANGED <<frame, disk>> PROVE StoreStep
  BY <1>2, <1>4
<1>5. CASE UNCHANGED vars
  BY <1>4, <1>5 DEF vars
<1>6. CASE Call(t)
  <2>1. ASSUME MarkDirty(t) PROVE StoreStep
    <3>1. PICK h \in handles[t] : frame' = [frame EXCEPT ![h[2]].dirty = TRUE]
      BY <2>1 DEF MarkDirty
    <3>2. \A f \in Frames : frame'[f].page = frame[f].page /\ frame'[f].data = frame[f].data
      BY <1>3, <3>1 DEF Frame
    <3> QED
      BY <1>2, <2>1 DEF MarkDirty
  <2>2. ASSUME Unpin(t) PROVE StoreStep
    <3>1. PICK h \in handles[t] :
            frame' = [frame EXCEPT ![h[2]].pins = IF @ > 0 THEN @ - 1 ELSE 0]
      BY <2>2 DEF Unpin
    <3>2. \A f \in Frames : frame'[f].page = frame[f].page /\ frame'[f].data = frame[f].data
      BY <1>3, <3>1 DEF Frame
    <3> QED
      BY <1>2, <2>2 DEF Unpin
  <2> QED
    BY <1>4, <1>6, <2>1, <2>2 DEF Call, Pin, NewPage, FlushAll
<1>7. CASE Run(t)
  <2>1. ASSUME \/ FindFrame(t) \/ BeginEvict(t) \/ EvictFull(t) \/ EvictPop(t)
               \/ EvictWriteFails(t) \/ Load(t) \/ LoadFails(t) \/ Publish(t) \/ Enqueue(t)
               \/ FlushDone(t) \/ (\E p \in Pages : FlushLookup(t, p)) \/ FlushCopy(t)
        PROVE  StoreStep
    BY <1>4, <2>1 DEF FindFrame, BeginEvict, EvictFull, EvictPop, EvictWriteFails, Load,
       LoadFails, Publish, Enqueue, FlushDone, FlushLookup, FlushCopy
  <2>2. ASSUME PinHit(t) \/ FlushClean(t) PROVE StoreStep
    <3>1. \A f \in Frames : frame'[f].page = frame[f].page /\ frame'[f].data = frame[f].data
      BY <1>3, <2>2 DEF PinHit, FlushClean, Frame
    <3> QED
      BY <1>2, <2>2, <3>1 DEF PinHit, FlushClean
  <2>3. ASSUME EvictRemove(t) \/ Install(t) PROVE StoreStep
    BY <1>1, <2>3, EvictRemoveView, InstallView DEF StoreStep
  <2>4. ASSUME WriteData(t) PROVE StoreStep
    BY <1>1, <2>4, WriteDataView DEF StoreStep
  <2>5. ASSUME EvictWrite(t) PROVE StoreStep
    <3>f. PICK f : f = op[t].frame
      OBVIOUS
    <3>1. /\ f \in Frames /\ frame[f].page # NoPage /\ frame' = frame
          /\ disk' = disk \/ disk' = [disk EXCEPT ![frame[f].page] = frame[f].data]
      BY <2>5, <3>f DEF EvictWrite, SeqInv, PinInv
    <3>2. frame[f].page \in Pages
      BY <1>3, <3>1, FrameFields
    <3> QED
      BY <1>1, <3>1, <3>2, WriteBackView DEF StoreStep
  <2>6. ASSUME FlushWrite(t) PROVE StoreStep
    <3>f. PICK f, p : f = op[t].frame /\ p = op[t].page
      OBVIOUS
    <3>1. /\ p \in Pages /\ f \in Frames /\ table[p] = f /\ op[t].data = frame[f].data
          /\ Pending(t) = {} /\ frame' = frame
          /\ disk' = disk \/ disk' = [disk EXCEPT ![p] = frame[f].data]
      BY <2>6, <3>f DEF FlushWrite, SeqInv, FlushInv, Pending
    <3>2. frame[f].page = p
      BY <3>1 DEF SeqInv, PoolInv, TableAgrees
    <3> QED
      BY <1>1, <3>1, <3>2, WriteBackView DEF StoreStep
  <2> QED
    BY <1>7, <2>1, <2>2, <2>3, <2>4, <2>5, <2>6 DEF Run
<1> QED
  BY <1>5, <1>6, <1>7 DEF Next

\* The pool starts as an empty page store.
LEMMA InitStore ==
  ASSUME NEW t, Threads = {t}, Init
  PROVE  Store!Init
<1>1. SeqInv(t) /\ OnePlace(frame)
  BY InitSeq, OnePlaceSeq
<1>2. Content = View(frame, disk)
  BY DEF Content, View
<1>3. \A f \in Frames : frame[f].data = 0
  BY DEF Init, Empty
<1>4. ASSUME NEW p \in Pages PROVE View(frame, disk)[p] = 0
  <2>1. disk[p] = 0
    BY DEF Init
  <2>2. CASE \E f \in Frames : frame[f].page = p
    BY <1>1, <1>3, <2>2, ViewOf
  <2>3. CASE \A f \in Frames : frame[f].page # p
    BY <1>1, <2>1, <2>3, ViewOf
  <2> QED
    BY <2>2, <2>3
<1>5. View(frame, disk) = [p \in Pages |-> 0]
  BY <1>4 DEF View
<1> QED
  BY <1>2, <1>5 DEF Store!Init, Init

\* The pool implements the page store of PageStore.tla: whatever is pinned,
\* evicted, loaded or flushed, and whichever of these fails, a page reads as it was
\* last written, and the file only ever gets the contents of a page.
THEOREM RefinesPageStore ==
  ASSUME NEW t, Threads = {t}
  PROVE  Spec => ImplementsPageStore
<1>1. SeqInv(t) => OnePlace(frame)
  BY OnePlaceSeq
<1>2. Init => Store!Init
  BY InitStore
<1>3. ASSUME StoreStep PROVE [Store!Next]_(Store!vars)
  BY <1>3 DEF StoreStep, Store!Next, Store!vars, Store!Write, Store!WriteBack
<1>4. SeqInv(t) /\ OnePlace(frame) /\ OnePlace(frame)' /\ [Next]_vars => [Store!Next]_(Store!vars)
  BY <1>3, NextStoreStep
<1> QED
  BY <1>1, <1>2, <1>4, PoolInvariant, PTL DEF Spec, ImplementsPageStore, Store!Spec

-----------------------------------------------------------------------------
(***************************************************************************)
(* Any number of threads, one of which, w, writes, allocates and flushes,  *)
(* while the others pin and unpin; the pages are in the pool at the start  *)
(* and every page the file may get has a frame: the situation of           *)
(* test_buffer_pool_concurrent_pin_unpin.  Without the second condition    *)
(* two threads may take the same frame, which find_or_evict_frame does not *)
(* reserve, and none of this holds.                                        *)
(*                                                                         *)
(* The invariant SharedInv has a part for the places of the pages, one for *)
(* the handles, one for the pin counts, one for what the readers do, and   *)
(* two for what the writer knows at its labels.                            *)
(***************************************************************************)

\* The types of the variables the other parts speak of.
SharedTypes ==
  /\ frame \in [Frames -> Frame] /\ table \in [Pages -> Frames \cup {0}]
  /\ disk \in [Pages -> 0..MaxWrites] /\ npages \in 0..MaxPages /\ known \subseteq 1..npages
  /\ at \in [Threads -> Labels] /\ op \in [Threads -> Op]
  /\ handles \in [Threads -> SUBSET (Pages \X Frames)] /\ writes \in 0..MaxWrites

\* The pages that callers know are in the table, in the frame that holds them,
\* and every other frame is empty or about to be published by the writer.
PagesPlaced(w) ==
  /\ \A p \in Pages : table[p] # 0 <=> p \in known
  /\ \A p \in known : frame[table[p]].page = p
  /\ \A f \in Frames : frame[f].page # NoPage /\ f \notin Pending(w)
       => frame[f].page \in known /\ table[frame[f].page] = f

\* A handle points to the frame the table has for its page.
HandlesPlaced ==
  \A t \in Threads : \A h \in handles[t] : h[1] \in known /\ table[h[1]] = h[2]

\* Holders, for the handles hs.
HoldersOf(hs, f) == UNION {{t} \X {h \in hs[t] : h[2] = f} : t \in Threads}

\* The pin count of a frame is the number of its handles, and one more while the
\* writer has not got its handle yet.
Counted(hs, fr, pending) ==
  \A f \in Frames :
    /\ IsFiniteSet(HoldersOf(hs, f))
    /\ fr[f].pins = Cardinality(HoldersOf(hs, f)) + IF f \in pending THEN 1 ELSE 0

\* The labels of a thread that pins a page of the pool, or unpins.
Calm == {"idle", "hit", "enqueue"}

\* Only the writer is anywhere else.  A thread at "hit" has no handle of the
\* page, which is in the table.
OthersRead(w) ==
  \A t \in Threads :
    /\ t # w => at[t] \in Calm
    /\ at[t] = "hit" => op[t].page \in known /\ \A h \in handles[t] : h[1] # op[t].page

\* new_page: there is an empty frame, and the page is new.  Nothing is evicted.
Allocates(w) ==
  LET o == op[w] IN
  /\ at[w] \notin {"evict", "writeback", "remove"}
  /\ at[w] \in {"scan", "load"} => o.kind = "new" /\ o.data = 0 /\ npages < MaxPages
  /\ at[w] = "scan" => \A g \in Frames : g <= o.frame => frame[g].page # NoPage
  /\ at[w] \in {"load", "install", "publish"} => o.frame \in Frames
  /\ at[w] \in {"load", "install"} => frame[o.frame].page = NoPage
  /\ at[w] \in {"install", "publish"} => o.page \in 1..npages /\ o.page \notin known
  /\ at[w] = "install" => o.kind = "new" /\ o.data = disk[o.page]
  /\ at[w] = "publish" => frame[o.frame].page = o.page

\* data_mut and flush_all: as WriteInv and FlushInv, with readers about.
Flushes(w) ==
  LET o == op[w] IN
  /\ at[w] = "write" => o.frame \in Frames /\ frame[o.frame].page # NoPage
                        /\ frame[o.frame].dirty /\ writes < MaxWrites
  /\ at[w] \in {"flush", "copy", "out", "clean"} =>
       \A f \in Frames : frame[f].page # NoPage =>
         frame[f].page \in o.todo \/ (at[w] # "flush" /\ frame[f].page = o.page) \/ Saved(f)
  /\ at[w] = "flush" => o.todo \subseteq known
  /\ at[w] \in {"copy", "out", "clean"} =>
       o.todo \subseteq known /\ o.page \in known /\ o.frame = table[o.page]
  /\ at[w] \in {"out", "clean"} => o.data = frame[o.frame].data
  /\ at[w] = "clean" => disk[o.page] = o.data

\* The invariant.
SharedInv(w) ==
  /\ SharedTypes /\ PagesPlaced(w) /\ HandlesPlaced /\ Counted(handles, frame, Pending(w))
  /\ OthersRead(w) /\ Allocates(w) /\ FileAgrees /\ Flushes(w)

-----------------------------------------------------------------------------
(* Handles are counted *)

\* In hs2 thread t has handle h as well.
Gains(hs, hs2, t, h) ==
  /\ t \in Threads /\ h \notin hs[t] /\ hs2[t] = hs[t] \cup {h}
  /\ \A s \in Threads : s # t => hs2[s] = hs[s]

\* The holders of the frame of a new handle, and of the others.
LEMMA HoldersGain ==
  ASSUME NEW hs, NEW hs2, NEW t, NEW h, Gains(hs, hs2, t, h)
  PROVE  /\ HoldersOf(hs2, h[2]) = HoldersOf(hs, h[2]) \cup {<<t, h>>}
         /\ <<t, h>> \notin HoldersOf(hs, h[2])
         /\ \A g : g # h[2] => HoldersOf(hs2, g) = HoldersOf(hs, g)
<1>1. ASSUME NEW k, NEW g, NEW x
      PROVE  x \in HoldersOf(k, g)
               <=> \E s \in Threads : \E e \in k[s] : e[2] = g /\ x = <<s, e>>
  BY DEF HoldersOf
<1>2. ASSUME NEW x
      PROVE  x \in HoldersOf(hs2, h[2]) <=> x \in HoldersOf(hs, h[2]) \/ x = <<t, h>>
  BY <1>1 DEF Gains
<1>3. <<t, h>> \notin HoldersOf(hs, h[2])
  BY <1>1 DEF Gains
<1>4. ASSUME NEW g, g # h[2] PROVE HoldersOf(hs2, g) = HoldersOf(hs, g)
  <2>1. ASSUME NEW x PROVE x \in HoldersOf(hs2, g) <=> x \in HoldersOf(hs, g)
    BY <1>1, <1>4 DEF Gains
  <2> QED
    BY <2>1
<1>5. HoldersOf(hs2, h[2]) = HoldersOf(hs, h[2]) \cup {<<t, h>>}
  BY <1>2
<1> QED
  BY <1>3, <1>4, <1>5

\* There is one more of them.
LEMMA CountGain ==
  ASSUME NEW hs, NEW hs2, NEW t, NEW h, Gains(hs, hs2, t, h)
  PROVE  /\ IsFiniteSet(HoldersOf(hs, h[2])) <=> IsFiniteSet(HoldersOf(hs2, h[2]))
         /\ IsFiniteSet(HoldersOf(hs, h[2])) =>
              /\ Cardinality(HoldersOf(hs, h[2])) \in Nat
              /\ Cardinality(HoldersOf(hs2, h[2])) = Cardinality(HoldersOf(hs, h[2])) + 1
         /\ \A g : g # h[2] => HoldersOf(hs2, g) = HoldersOf(hs, g)
<1>1. /\ HoldersOf(hs2, h[2]) = HoldersOf(hs, h[2]) \cup {<<t, h>>}
      /\ <<t, h>> \notin HoldersOf(hs, h[2])
      /\ \A g : g # h[2] => HoldersOf(hs2, g) = HoldersOf(hs, g)
  BY HoldersGain
<1>2. ASSUME NEW S, NEW T, NEW x, T = S \cup {x}, x \notin S
      PROVE  /\ IsFiniteSet(S) <=> IsFiniteSet(T)
             /\ IsFiniteSet(S) => Cardinality(S) \in Nat /\ Cardinality(T) = Cardinality(S) + 1
  <2>1. IsFiniteSet(T) => IsFiniteSet(S)
    BY <1>2, FS_Subset
  <2>2. IsFiniteSet(S) => /\ IsFiniteSet(T) /\ Cardinality(S) \in Nat
                          /\ Cardinality(T) = Cardinality(S) + 1
    BY <1>2, FS_AddElement, FS_CardinalityType
  <2> QED
    BY <2>1, <2>2
<1> QED
  BY <1>1, <1>2

\* A handle more and a pin more.
LEMMA PinsGain ==
  ASSUME NEW hs, NEW hs2, NEW fr, NEW fr2, NEW pending, NEW t, NEW h,
         Counted(hs, fr, pending), Gains(hs, hs2, t, h),
         fr2[h[2]].pins = fr[h[2]].pins + 1,
         \A g \in Frames : g # h[2] => fr2[g].pins = fr[g].pins
  PROVE  Counted(hs2, fr2, pending)
<1> SUFFICES ASSUME NEW f \in Frames
             PROVE  /\ IsFiniteSet(HoldersOf(hs2, f))
                    /\ fr2[f].pins = Cardinality(HoldersOf(hs2, f))
                                       + IF f \in pending THEN 1 ELSE 0
  BY DEF Counted
<1>1. /\ IsFiniteSet(HoldersOf(hs, f))
      /\ fr[f].pins = Cardinality(HoldersOf(hs, f)) + IF f \in pending THEN 1 ELSE 0
  BY DEF Counted
<1>2. CASE f = h[2]
  BY <1>1, <1>2, CountGain
<1>3. CASE f # h[2]
  BY <1>1, <1>3, CountGain
<1> QED
  BY <1>2, <1>3

\* A handle less and a pin less: the count was not zero.
LEMMA PinsLoss ==
  ASSUME NEW hs, NEW hs2, NEW fr, NEW fr2, NEW pending, NEW t, NEW h,
         Counted(hs, fr, pending), Gains(hs2, hs, t, h), h[2] \in Frames,
         fr2[h[2]].pins = IF fr[h[2]].pins > 0 THEN fr[h[2]].pins - 1 ELSE 0,
         \A g \in Frames : g # h[2] => fr2[g].pins = fr[g].pins
  PROVE  Counted(hs2, fr2, pending)
<1> SUFFICES ASSUME NEW f \in Frames
             PROVE  /\ IsFiniteSet(HoldersOf(hs2, f))
                    /\ fr2[f].pins = Cardinality(HoldersOf(hs2, f))
                                       + IF f \in pending THEN 1 ELSE 0
  BY DEF Counted
<1>1. /\ IsFiniteSet(HoldersOf(hs, f))
      /\ fr[f].pins = Cardinality(HoldersOf(hs, f)) + IF f \in pending THEN 1 ELSE 0
  BY DEF Counted
<1>2. /\ IsFiniteSet(HoldersOf(hs2, h[2])) <=> IsFiniteSet(HoldersOf(hs, h[2]))
      /\ IsFiniteSet(HoldersOf(hs2, h[2])) =>
           /\ Cardinality(HoldersOf(hs2, h[2])) \in Nat
           /\ Cardinality(HoldersOf(hs, h[2])) = Cardinality(HoldersOf(hs2, h[2])) + 1
      /\ \A g : g # h[2] => HoldersOf(hs, g) = HoldersOf(hs2, g)
  BY CountGain
<1>3. CASE f = h[2]
  BY <1>1, <1>2, <1>3
<1>4. CASE f # h[2]
  BY <1>1, <1>2, <1>4
<1> QED
  BY <1>3, <1>4

-----------------------------------------------------------------------------
(* Steps that leave the pages where they are *)

\* No page changes its place.
SamePlaces ==
  /\ UNCHANGED <<table, known>>
  /\ \A f \in Frames : frame'[f].page = frame[f].page

\* A known page has a frame.
LEMMA KnownPages ==
  ASSUME NEW w, SharedTypes, PagesPlaced(w)
  PROVE  known \subseteq Pages /\ \A p \in known : table[p] \in Frames
<1>1. known \subseteq Pages
  BY PagesAssumption DEF SharedTypes, Pages
<1>2. \A p \in known : table[p] # 0
  BY <1>1 DEF PagesPlaced
<1> QED
  BY <1>1, <1>2 DEF SharedTypes

\* The places of the pages are kept.
LEMMA PlacesKept ==
  ASSUME NEW w, SharedTypes, PagesPlaced(w), SamePlaces, Pending(w)' = Pending(w)
  PROVE  PagesPlaced(w)'
<1>1. \A p \in known : table[p] \in Frames
  BY KnownPages
<1> QED
  BY <1>1 DEF PagesPlaced, SamePlaces

\* A step of thread t that changes pin counts at most.
CalmStep(w, t) ==
  /\ SamePlaces /\ UNCHANGED <<disk, npages, writes>>
  /\ \A f \in Frames : frame'[f].data = frame[f].data /\ frame'[f].dirty = frame[f].dirty
  /\ IF t = w THEN at[w] \in Calm /\ at'[w] \in Calm
              ELSE at'[w] = at[w] /\ op'[w] = op[w]

\* Such a step leaves the parts of the writer alone.
LEMMA CalmKeeps ==
  ASSUME NEW w, NEW t, SharedInv(w), CalmStep(w, t)
  PROVE  /\ Pending(w)' = Pending(w) /\ PagesPlaced(w)' /\ Allocates(w)'
         /\ FileAgrees' /\ Flushes(w)'
<1>1. Pending(w)' = Pending(w)
  BY DEF CalmStep, Pending, Calm
<1>2. PagesPlaced(w)'
  BY <1>1, PlacesKept DEF SharedInv, CalmStep
<1>3. FileAgrees'
  BY DEF SharedInv, FileAgrees, CalmStep, SamePlaces
<1>4. CASE t = w
  <2>1. at'[w] \in {"idle", "hit", "enqueue"}
    BY <1>4 DEF CalmStep, Calm
  <2>2. Allocates(w)'
    BY <2>1 DEF Allocates
  <2>3. Flushes(w)'
    BY <2>1 DEF Flushes
  <2> QED
    BY <1>1, <1>2, <1>3, <2>2, <2>3
<1>5. CASE t # w
  <2>1. /\ at'[w] = at[w] /\ op'[w] = op[w] /\ table' = table /\ known' = known /\ disk' = disk
        /\ npages' = npages /\ writes' = writes
        /\ \A f \in Frames : /\ frame'[f].page = frame[f].page
                             /\ frame'[f].data = frame[f].data
                             /\ frame'[f].dirty = frame[f].dirty
    BY <1>5 DEF CalmStep, SamePlaces
  <2>2. Allocates(w)'
    BY <2>1 DEF SharedInv, Allocates
  <2>3. Flushes(w)'
    <3>1. at[w] \in {"copy", "out", "clean"} => op[w].frame \in Frames
      BY KnownPages DEF SharedInv, Flushes
    <3>2. \A f \in Frames : Saved(f)' = Saved(f)
      BY <2>1 DEF Saved
    <3> QED
      BY <2>1, <3>1, <3>2 DEF SharedInv, Flushes
  <2> QED
    BY <1>1, <1>2, <1>3, <2>2, <2>3
<1> QED
  BY <1>4, <1>5

-----------------------------------------------------------------------------
(* The steps of any thread: pin of a page in the pool, and unpin *)

\* pin starts: it finds the page in the table.
LEMMA SharedPin ==
  ASSUME NEW w, NEW t, t \in Threads, SharedInv(w), w \in Threads, NEW p, p \in Pages, Pin(t, p)
  PROVE  SharedInv(w)'
<1>1. /\ table[p] # 0 /\ at[t] = "idle" /\ p \in known /\ \A h \in handles[t] : h[1] # p
      /\ at' = [at EXCEPT ![t] = "hit"]
      /\ op' = [op EXCEPT ![t] = [NoOp EXCEPT !.kind = "pin", !.page = p]]
      /\ UNCHANGED <<frame, table, disk, npages, known, handles, writes>>
  BY DEF Pin, MayPin, Begin, Goto, SharedInv, PagesPlaced, hist
<1>2. /\ at \in [Threads -> Labels] /\ op \in [Threads -> Op]
      /\ [NoOp EXCEPT !.kind = "pin", !.page = p] \in Op
      /\ [NoOp EXCEPT !.kind = "pin", !.page = p].page = p
  BY NoOpTypes DEF SharedInv, SharedTypes, Op, Kinds, NoOp
<1>3. CalmStep(w, t)
  BY <1>1, <1>2 DEF CalmStep, SamePlaces, Calm
<1>4. Pending(w)' = Pending(w) /\ PagesPlaced(w)' /\ Allocates(w)' /\ FileAgrees' /\ Flushes(w)'
  BY <1>3, CalmKeeps
<1>5. SharedTypes'
  BY <1>1, <1>2 DEF SharedInv, SharedTypes, Labels
<1>6. HandlesPlaced' /\ Counted(handles, frame, Pending(w))'
  BY <1>1, <1>4 DEF SharedInv, HandlesPlaced
<1>7. OthersRead(w)'
  BY <1>1, <1>2 DEF SharedInv, OthersRead, Calm
<1> QED
  BY <1>4, <1>5, <1>6, <1>7 DEF SharedInv

\* The page is pinned.
LEMMA SharedPinHit ==
  ASSUME NEW w, NEW t, t \in Threads, SharedInv(w), w \in Threads, PinHit(t)
  PROVE  SharedInv(w)'
<1>p. PICK p, f, h : p = op[t].page /\ f = table[p] /\ h = <<p, f>>
  OBVIOUS
<1>1. /\ at[t] = "hit" /\ at' = [at EXCEPT ![t] = "idle"] /\ op' = [op EXCEPT ![t] = NoOp]
      /\ frame' = [frame EXCEPT ![f].pins = @ + 1]
      /\ handles' = [handles EXCEPT ![t] = @ \cup {h}]
      /\ UNCHANGED <<table, disk, npages, known, writes>>
  BY <1>p DEF PinHit, Return, ReturnHandle, Goto, hist
<1>2. p \in known /\ p \in Pages /\ f \in Frames /\ h \notin handles[t]
  BY <1>p, <1>1, KnownPages DEF SharedInv, OthersRead
<1>3. /\ frame' \in [Frames -> Frame] /\ frame'[f].pins = frame[f].pins + 1
      /\ \A g \in Frames : /\ frame'[g].page = frame[g].page /\ frame'[g].data = frame[g].data
                           /\ frame'[g].dirty = frame[g].dirty
      /\ \A g \in Frames : g # f => frame'[g].pins = frame[g].pins
  <2>1. frame \in [Frames -> Frame] /\ frame[f] \in Frame
    BY <1>2 DEF SharedInv, SharedTypes
  <2>2. PICK n : n = frame[f].pins + 1
    OBVIOUS
  <2>3. frame' = [frame EXCEPT ![f] = [frame[f] EXCEPT !.pins = n]] /\ n \in Nat
    BY <1>1, <2>1, <2>2, FrameFields
  <2>4. /\ [frame[f] EXCEPT !.pins = n] \in Frame
        /\ [frame[f] EXCEPT !.pins = n].page = frame[f].page
        /\ [frame[f] EXCEPT !.pins = n].data = frame[f].data
        /\ [frame[f] EXCEPT !.pins = n].dirty = frame[f].dirty
        /\ [frame[f] EXCEPT !.pins = n].pins = n
    BY <2>1, <2>3 DEF Frame
  <2> QED
    BY <1>2, <2>1, <2>2, <2>3, <2>4
<1>4. handles'[t] = handles[t] \cup {h} /\ \A s \in Threads : s # t => handles'[s] = handles[s]
  BY <1>1 DEF SharedInv, SharedTypes
<1>5. at \in [Threads -> Labels] /\ op \in [Threads -> Op]
  BY DEF SharedInv, SharedTypes
<1>6. CalmStep(w, t)
  BY <1>1, <1>3, <1>5 DEF CalmStep, SamePlaces, Calm
<1>7. Pending(w)' = Pending(w) /\ PagesPlaced(w)' /\ Allocates(w)' /\ FileAgrees' /\ Flushes(w)'
  BY <1>6, CalmKeeps
<1>8. SharedTypes'
  <2>1. at' \in [Threads -> Labels] /\ op' \in [Threads -> Op]
    BY <1>1, <1>5, NoOpTypes DEF Labels
  <2>2. handles' \in [Threads -> SUBSET (Pages \X Frames)]
    BY <1>p, <1>1, <1>2 DEF SharedInv, SharedTypes
  <2> QED
    BY <1>1, <1>3, <2>1, <2>2 DEF SharedInv, SharedTypes
<1>9. HandlesPlaced'
  BY <1>p, <1>1, <1>2, <1>4 DEF SharedInv, HandlesPlaced
<1>10. Counted(handles, frame, Pending(w))'
  <2>1. Gains(handles, handles', t, h)
    BY <1>2, <1>4 DEF Gains
  <2>2. h[2] = f
    BY <1>p
  <2>3. Counted(handles', frame', Pending(w))
    BY <1>3, <2>1, <2>2, PinsGain DEF SharedInv
  <2> QED
    BY <1>7, <2>3 DEF Counted, HoldersOf
<1>11. OthersRead(w)'
  BY <1>1, <1>4, <1>5 DEF SharedInv, OthersRead, Calm
<1> QED
  BY <1>7, <1>8, <1>9, <1>10, <1>11 DEF SharedInv

\* A handle is dropped.
LEMMA SharedUnpin ==
  ASSUME NEW w, NEW t, t \in Threads, SharedInv(w), w \in Threads, Unpin(t)
  PROVE  SharedInv(w)'
<1>h. PICK h \in handles[t] :
        /\ frame' = [frame EXCEPT ![h[2]].pins = IF @ > 0 THEN @ - 1 ELSE 0]
        /\ handles' = [handles EXCEPT ![t] = @ \ {h}]
        /\ \/ /\ op' = [op EXCEPT ![t] = [NoOp EXCEPT !.kind = "unpin", !.frame = h[2]]]
              /\ at' = [at EXCEPT ![t] = "enqueue"]
           \/ UNCHANGED <<op, at>>
  BY DEF Unpin, Goto
<1>f. PICK f : f = h[2]
  OBVIOUS
<1>1. at[t] = "idle" /\ UNCHANGED <<table, disk, npages, known, writes>>
  BY DEF Unpin, hist
<1>2. h \in Pages \X Frames /\ f \in Frames
  BY <1>f DEF SharedInv, SharedTypes
<1>3. /\ frame' \in [Frames -> Frame]
      /\ frame'[f].pins = IF frame[f].pins > 0 THEN frame[f].pins - 1 ELSE 0
      /\ \A g \in Frames : /\ frame'[g].page = frame[g].page /\ frame'[g].data = frame[g].data
                           /\ frame'[g].dirty = frame[g].dirty
      /\ \A g \in Frames : g # f => frame'[g].pins = frame[g].pins
  <2>1. frame \in [Frames -> Frame] /\ frame[f] \in Frame
    BY <1>2 DEF SharedInv, SharedTypes
  <2>2. PICK n : n = IF frame[f].pins > 0 THEN frame[f].pins - 1 ELSE 0
    OBVIOUS
  <2>3. frame' = [frame EXCEPT ![f] = [frame[f] EXCEPT !.pins = n]]
    BY <1>h, <1>f, <2>1, <2>2
  <2>4. n \in Nat
    BY <2>1, <2>2, FrameFields
  <2>5. /\ [frame[f] EXCEPT !.pins = n] \in Frame
        /\ [frame[f] EXCEPT !.pins = n].page = frame[f].page
        /\ [frame[f] EXCEPT !.pins = n].data = frame[f].data
        /\ [frame[f] EXCEPT !.pins = n].dirty = frame[f].dirty
        /\ [frame[f] EXCEPT !.pins = n].pins = n
    BY <2>1, <2>4 DEF Frame
  <2> QED
    BY <1>2, <2>1, <2>2, <2>3, <2>5
<1>4. handles'[t] = handles[t] \ {h} /\ \A s \in Threads : s # t => handles'[s] = handles[s]
  BY <1>h DEF SharedInv, SharedTypes
<1>5. /\ at \in [Threads -> Labels] /\ op \in [Threads -> Op]
      /\ at' \in [Threads -> Labels] /\ op' \in [Threads -> Op]
      /\ at'[t] \in {"idle", "enqueue"}
      /\ \A s \in Threads : s # t => at'[s] = at[s] /\ op'[s] = op[s]
  <2>1. at \in [Threads -> Labels] /\ op \in [Threads -> Op]
    BY DEF SharedInv, SharedTypes
  <2>2. [NoOp EXCEPT !.kind = "unpin", !.frame = h[2]] \in Op
    BY <1>f, <1>2, NoOpTypes DEF Op, Kinds
  <2> QED
    BY <1>h, <1>1, <2>1, <2>2 DEF Labels
<1>6. CalmStep(w, t)
  BY <1>1, <1>3, <1>5 DEF CalmStep, SamePlaces, Calm
<1>7. Pending(w)' = Pending(w) /\ PagesPlaced(w)' /\ Allocates(w)' /\ FileAgrees' /\ Flushes(w)'
  BY <1>6, CalmKeeps
<1>8. SharedTypes'
  <2>1. handles' \in [Threads -> SUBSET (Pages \X Frames)]
    BY <1>h DEF SharedInv, SharedTypes
  <2> QED
    BY <1>1, <1>3, <1>5, <2>1 DEF SharedInv, SharedTypes
<1>9. HandlesPlaced'
  BY <1>1, <1>4 DEF SharedInv, HandlesPlaced
<1>10. Counted(handles, frame, Pending(w))'
  <2>1. Gains(handles', handles, t, h)
    BY <1>4 DEF Gains
  <2>2. Counted(handles', frame', Pending(w))
    BY <1>f, <1>2, <1>3, <2>1, PinsLoss DEF SharedInv
  <2> QED
    BY <1>7, <2>2 DEF Counted, HoldersOf
<1>11. OthersRead(w)'
  BY <1>1, <1>4, <1>5 DEF SharedInv, OthersRead, Calm
<1> QED
  BY <1>7, <1>8, <1>9, <1>10, <1>11 DEF SharedInv

\* The frame enters the queue.
LEMMA SharedEnqueue ==
  ASSUME NEW w, NEW t, t \in Threads, SharedInv(w), w \in Threads, Enqueue(t)
  PROVE  SharedInv(w)'
<1>1. /\ at[t] = "enqueue" /\ at' = [at EXCEPT ![t] = "idle"] /\ op' = [op EXCEPT ![t] = NoOp]
      /\ UNCHANGED <<frame, table, disk, npages, known, handles, writes>>
  BY DEF Enqueue, Return, Goto
<1>2. at \in [Threads -> Labels] /\ op \in [Threads -> Op]
  BY DEF SharedInv, SharedTypes
<1>3. CalmStep(w, t)
  BY <1>1, <1>2 DEF CalmStep, SamePlaces, Calm
<1>4. Pending(w)' = Pending(w) /\ PagesPlaced(w)' /\ Allocates(w)' /\ FileAgrees' /\ Flushes(w)'
  BY <1>3, CalmKeeps
<1>5. SharedTypes'
  BY <1>1, <1>2, NoOpTypes DEF SharedInv, SharedTypes, Labels
<1>6. HandlesPlaced' /\ Counted(handles, frame, Pending(w))'
  BY <1>1, <1>4 DEF SharedInv, HandlesPlaced
<1>7. OthersRead(w)'
  BY <1>1, <1>2 DEF SharedInv, OthersRead, Calm
<1> QED
  BY <1>4, <1>5, <1>6, <1>7 DEF SharedInv

-----------------------------------------------------------------------------
(* The writer *)

\* A step of the writer that leaves table, pages and pins alone.
WriterStep(w) ==
  /\ UNCHANGED <<table, known, handles>>
  /\ \A f \in Frames : frame'[f].page = frame[f].page /\ frame'[f].pins = frame[f].pins
  /\ at[w] \notin {"hit", "publish"} /\ at'[w] \notin {"hit", "publish"}
  /\ \A t \in Threads : t # w => at'[t] = at[t] /\ op'[t] = op[t]

\* Such a step leaves the parts of the readers alone.
LEMMA WriterKeeps ==
  ASSUME NEW w, SharedInv(w), WriterStep(w)
  PROVE  /\ PagesPlaced(w)' /\ HandlesPlaced' /\ Counted(handles, frame, Pending(w))'
         /\ OthersRead(w)'
<1>1. Pending(w) = {} /\ Pending(w)' = {}
  BY DEF WriterStep, Pending
<1>2. PagesPlaced(w)'
  BY <1>1, PlacesKept DEF SharedInv, WriterStep, SamePlaces
<1>3. HandlesPlaced'
  BY DEF SharedInv, HandlesPlaced, WriterStep
<1>4. Counted(handles, frame, Pending(w))'
  BY <1>1 DEF SharedInv, Counted, WriterStep, HoldersOf
<1>5. OthersRead(w)'
  BY DEF SharedInv, OthersRead, WriterStep
<1> QED
  BY <1>2, <1>3, <1>4, <1>5

\* Thread t goes to label l with the locals o, not by way of pin or publish.
Moves(t, l, o) ==
  /\ l \in Labels \ {"hit", "publish"} /\ o \in Op
  /\ at' = [at EXCEPT ![t] = l] /\ op' = [op EXCEPT ![t] = o]

\* A step of the writer that changes no frame and not the file.
LEMMA SharedLocal ==
  ASSUME NEW w, w \in Threads, SharedInv(w), NEW l, NEW o, Moves(w, l, o),
         UNCHANGED <<frame, table, known, handles, disk, writes>>, npages' \in npages..MaxPages,
         at[w] \notin {"hit", "publish"},
         Allocates(w)', Flushes(w)'
  PROVE  SharedInv(w)'
<1>1. at \in [Threads -> Labels] /\ op \in [Threads -> Op]
  BY DEF SharedInv, SharedTypes
<1>2. WriterStep(w)
  BY <1>1 DEF WriterStep, Moves
<1>3. /\ PagesPlaced(w)' /\ HandlesPlaced' /\ Counted(handles, frame, Pending(w))'
      /\ OthersRead(w)'
  BY <1>2, WriterKeeps
<1>4. SharedTypes'
  <2>1. /\ at' \in [Threads -> Labels] /\ op' \in [Threads -> Op]
    BY <1>1 DEF Moves
  <2>2. npages' \in 0..MaxPages /\ known' \subseteq 1..npages'
    BY PagesAssumption DEF SharedInv, SharedTypes
  <2> QED
    BY <2>1, <2>2 DEF SharedInv, SharedTypes
<1>5. FileAgrees'
  BY PagesAssumption DEF SharedInv, SharedTypes, FileAgrees, Pages
<1> QED
  BY <1>3, <1>4, <1>5 DEF SharedInv

\* new_page starts.
LEMMA SharedNewPage ==
  ASSUME NEW w, w \in Threads, SharedInv(w), NewPage(w)
  PROVE  SharedInv(w)'
<1>o. PICK o, l : o = [NoOp EXCEPT !.kind = "new", !.page = NoPage] /\ l = "scan"
  OBVIOUS
<1>1. /\ at[w] = "idle" /\ at' = [at EXCEPT ![w] = "scan"] /\ op' = [op EXCEPT ![w] = o]
      /\ npages < MaxPages
      /\ UNCHANGED <<frame, table, disk, npages, known, handles, writes>>
  BY <1>o DEF NewPage, MayPin, Begin, Goto, hist
<1>2. o \in Op /\ o.kind = "new" /\ o.data = 0 /\ o.frame = 0
  BY <1>o, NoOpTypes DEF Op, Kinds, NoOp
<1>3. at'[w] = "scan" /\ op'[w] = o
  BY <1>1 DEF SharedInv, SharedTypes
<1>4. Allocates(w)' /\ Flushes(w)'
  BY <1>1, <1>2, <1>3 DEF Allocates, Flushes, Frames
<1>5. npages' \in npages..MaxPages /\ l \in Labels
  BY <1>o, <1>1, PagesAssumption DEF SharedInv, SharedTypes, Labels
<1>6. Moves(w, l, o)
  BY <1>o, <1>1, <1>2, <1>5 DEF Moves
<1> QED
  BY <1>o, <1>1, <1>4, <1>5, <1>6, SharedLocal

\* find_free_frame looks at the next frame.
LEMMA SharedFindFrame ==
  ASSUME NEW w, w \in Threads, SharedInv(w), FindFrame(w)
  PROVE  SharedInv(w)'
<1>f. PICK f, o, l : /\ f = op[w].frame + 1 /\ o = [op[w] EXCEPT !.frame = f]
                     /\ l = IF frame[f].page = NoPage THEN "load" ELSE "scan"
  OBVIOUS
<1>1. /\ at[w] = "scan" /\ f \in Frames /\ op' = [op EXCEPT ![w].frame = f]
      /\ IF frame[f].page = NoPage THEN at' = [at EXCEPT ![w] = "load"] ELSE at' = at
      /\ UNCHANGED <<frame, table, disk, npages, known, handles, writes>>
  BY <1>f DEF FindFrame, Goto, hist
<1>2. /\ op[w] \in Op /\ op \in [Threads -> Op] /\ at \in [Threads -> Labels]
      /\ op[w].frame \in Nat
  BY DEF SharedInv, SharedTypes, Op, Frames
<1>3. /\ o \in Op /\ o.kind = op[w].kind /\ o.data = op[w].data /\ o.frame = f
  BY <1>f, <1>1, <1>2 DEF Op
<1>4. op' = [op EXCEPT ![w] = o] /\ at' = [at EXCEPT ![w] = l]
  BY <1>f, <1>1, <1>2
<1>5. at'[w] = l /\ op'[w] = o
  BY <1>2, <1>4
<1>6. /\ op[w].kind = "new" /\ op[w].data = 0 /\ npages < MaxPages
      /\ \A g \in Frames : g <= op[w].frame => frame[g].page # NoPage
  BY <1>1 DEF SharedInv, Allocates
<1>7. Allocates(w)'
  <2>1. l = "scan" => \A g \in Frames : g <= f => frame[g].page # NoPage
    <3>1. \A g \in Frames : g <= f => g <= op[w].frame \/ g = f
      BY <1>f, <1>2 DEF Frames
    <3> QED
      BY <1>f, <1>6, <3>1
  <2>2. l = "load" => frame[f].page = NoPage
    BY <1>f
  <2>3. l \in {"scan", "load"}
    BY <1>f
  <2> QED
    BY <1>1, <1>3, <1>5, <1>6, <2>1, <2>2, <2>3 DEF Allocates
<1>8. Flushes(w)' /\ l \in Labels /\ l \notin {"hit", "publish"}
  BY <1>f, <1>5 DEF Flushes, Labels
<1>9. npages' \in npages..MaxPages
  BY <1>1, PagesAssumption DEF SharedInv, SharedTypes
<1>10. Moves(w, l, o)
  BY <1>3, <1>4, <1>8 DEF Moves
<1> QED
  BY <1>1, <1>7, <1>8, <1>9, <1>10, SharedLocal

\* While the pages fit, a frame is free for a new one.
LEMMA FrameLeft ==
  ASSUME NEW w, MaxPages <= Capacity, SharedTypes, PagesPlaced(w), Pending(w) = {},
         npages < MaxPages
  PROVE  \E f \in Frames : frame[f].page = NoPage
<1> SUFFICES ASSUME \A f \in Frames : frame[f].page # NoPage PROVE FALSE
  OBVIOUS
<1> DEFINE place == [f \in Frames |-> frame[f].page]
<1>1. place \in [Frames -> 1..npages]
  BY DEF SharedTypes, PagesPlaced
<1>2. /\ IsFiniteSet(Frames) /\ Cardinality(Frames) = Capacity
      /\ IsFiniteSet(1..npages) /\ Cardinality(1..npages) = npages
      /\ npages < Capacity
  BY FS_Interval, CapacityAssumption, PagesAssumption DEF SharedTypes, Frames
<1>3. PICK f \in Frames, g \in Frames : f # g /\ place[f] = place[g]
  <2> HIDE DEF place
  <2>1. PICK S, T : S = Frames /\ T = 1..npages
    OBVIOUS
  <2>2. IsFiniteSet(S) /\ IsFiniteSet(T) /\ Cardinality(T) < Cardinality(S) /\ place \in [S -> T]
    BY <1>1, <1>2, <2>1 DEF SharedTypes
  <2>3. \E f, g \in S : f # g /\ place[f] = place[g]
    BY <2>2, FS_PigeonHole
  <2> QED
    BY <2>1, <2>3
<1>4. frame[f].page = frame[g].page
  BY <1>3
<1> QED
  BY <1>3, <1>4 DEF PagesPlaced

\* Nothing is evicted.
LEMMA SharedNoEvict ==
  ASSUME NEW w, w \in Threads, MaxPages <= Capacity, SharedInv(w)
  PROVE  ~BeginEvict(w) /\ at[w] \notin {"evict", "writeback", "remove"}
<1>1. at[w] \notin {"evict", "writeback", "remove"}
  BY DEF SharedInv, Allocates
<1>2. ASSUME BeginEvict(w) PROVE FALSE
  <2>1. at[w] = "scan" /\ op[w].frame = Capacity
    BY <1>2 DEF BeginEvict
  <2>2. npages < MaxPages /\ Pending(w) = {} /\ \A f \in Frames : frame[f].page # NoPage
    BY <2>1 DEF SharedInv, Allocates, Pending, Frames
  <2> QED
    BY <2>2, FrameLeft DEF SharedInv
<1> QED
  BY <1>1, <1>2

\* A page is allocated: it is zero in the file.
LEMMA SharedLoad ==
  ASSUME NEW w, w \in Threads, SharedInv(w), Load(w)
  PROVE  SharedInv(w)'
<1>f. PICK o : o = [op[w] EXCEPT !.page = npages + 1]
  OBVIOUS
<1>0. /\ at[w] = "load" /\ op[w].kind = "new" /\ op[w].data = 0 /\ npages < MaxPages
      /\ op[w].frame \in Frames /\ frame[op[w].frame].page = NoPage
  BY DEF Load, SharedInv, Allocates
<1>1. /\ npages' = npages + 1 /\ op' = [op EXCEPT ![w].page = npages + 1]
      /\ at' = [at EXCEPT ![w] = "install"]
      /\ UNCHANGED <<frame, table, disk, known, handles, writes>>
  BY <1>0 DEF Load, Goto, hist
<1>2. /\ op[w] \in Op /\ op \in [Threads -> Op] /\ at \in [Threads -> Labels]
      /\ npages \in Nat /\ known \subseteq 1..npages
  BY PagesAssumption DEF SharedInv, SharedTypes
<1>3. npages + 1 \in Pages /\ npages + 1 \notin known
  BY <1>0, <1>2, PagesAssumption DEF Pages
<1>4. /\ o \in Op /\ o.kind = "new" /\ o.data = 0 /\ o.frame = op[w].frame
      /\ o.page = npages + 1
  BY <1>f, <1>0, <1>2, <1>3 DEF Op
<1>5. op' = [op EXCEPT ![w] = o] /\ at'[w] = "install" /\ op'[w] = o
  BY <1>f, <1>1, <1>2
<1>6. disk[npages + 1] = 0 /\ npages + 1 \in 1..npages'
  BY <1>1, <1>2, <1>3 DEF SharedInv, FileAgrees
<1>7. Allocates(w)' /\ Flushes(w)'
  BY <1>0, <1>1, <1>3, <1>4, <1>5, <1>6 DEF Allocates, Flushes
<1>8. npages' \in npages..MaxPages
  BY <1>0, <1>1, <1>2, PagesAssumption
<1>9. Moves(w, "install", o)
  BY <1>1, <1>4, <1>5 DEF Labels, Moves
<1> QED
  BY <1>0, <1>1, <1>7, <1>8, <1>9, SharedLocal

\* A call returns without a handle.
LEMMA SharedReturn ==
  ASSUME NEW w, w \in Threads, SharedInv(w), at[w] \notin {"hit", "publish"},
         UNCHANGED <<frame, table, known, handles, disk, writes>>, npages' \in npages..MaxPages,
         Return(w)
  PROVE  SharedInv(w)'
<1>1. Moves(w, "idle", NoOp)
  BY NoOpTypes DEF Return, Goto, Labels, Moves
<1>2. at'[w] = "idle"
  BY <1>1 DEF SharedInv, SharedTypes, Moves
<1>3. Allocates(w)' /\ Flushes(w)'
  BY <1>2 DEF Allocates, Flushes
<1> QED
  BY <1>1, <1>3, SharedLocal

\* It cannot be allocated.
LEMMA SharedLoadFails ==
  ASSUME NEW w, w \in Threads, SharedInv(w), LoadFails(w)
  PROVE  SharedInv(w)'
<1>1. npages' \in npages..MaxPages /\ at[w] = "load"
  BY PagesAssumption DEF LoadFails, SharedInv, SharedTypes
<1> QED
  BY <1>1, SharedReturn DEF LoadFails

\* The frame gets the page, pinned and dirty.
LEMMA SharedInstall ==
  ASSUME NEW w, w \in Threads, SharedInv(w), Install(w)
  PROVE  SharedInv(w)'
<1>p. PICK p, f, c, n, g :
        /\ p = op[w].page /\ f = op[w].frame /\ c = op[w].data /\ n = frame[f].pins + 1
        /\ g = [frame[f] EXCEPT !.page = p, !.data = c, !.pins = n, !.dirty = TRUE]
  OBVIOUS
<1>0. /\ at[w] = "install" /\ op[w].kind = "new" /\ f \in Frames /\ frame[f].page = NoPage
      /\ p \in 1..npages /\ p \notin known /\ c = disk[p]
  BY <1>p DEF Install, SharedInv, Allocates
<1>1. /\ at' = [at EXCEPT ![w] = "publish"]
      /\ frame' = [frame EXCEPT ![f].page = p, ![f].data = c, ![f].pins = @ + 1, ![f].dirty = TRUE]
      /\ UNCHANGED <<table, disk, npages, known, op, handles, writes>>
  BY <1>p, <1>0 DEF Install, Goto, hist
<1>2. /\ frame \in [Frames -> Frame] /\ at \in [Threads -> Labels] /\ p \in Pages
      /\ c \in 0..MaxWrites /\ n \in Nat
  <2>1. frame \in [Frames -> Frame] /\ at \in [Threads -> Labels] /\ p \in Pages
    BY <1>0, PagesAssumption DEF SharedInv, SharedTypes, Pages
  <2>2. frame[f].pins \in Nat
    BY <1>0, <2>1, FrameFields
  <2> QED
    BY <1>p, <1>0, <2>1, <2>2 DEF SharedInv, SharedTypes
<1>3. /\ frame' = [frame EXCEPT ![f] = g] /\ g \in Frame
      /\ g.page = p /\ g.pins = n /\ g.dirty = TRUE
  <2>1. frame[f] \in Frame
    BY <1>0, <1>2
  <2>2. g \in Frame /\ g.page = p /\ g.pins = n /\ g.dirty = TRUE
    BY <1>p, <1>2, <2>1 DEF Frame
  <2>3. frame' = [frame EXCEPT ![f] = g]
    BY <1>p, <1>0, <1>1, <1>2
  <2> QED
    BY <2>2, <2>3
<1>4. /\ frame' \in [Frames -> Frame] /\ frame'[f].page = p /\ frame'[f].pins = n
      /\ frame'[f].dirty = TRUE /\ \A e \in Frames : e # f => frame'[e] = frame[e]
  BY <1>p, <1>0, <1>2, <1>3
<1>5. at'[w] = "publish" /\ \A t \in Threads : t # w => at'[t] = at[t]
  BY <1>1, <1>2
<1>6. Pending(w) = {} /\ Pending(w)' = {f}
  BY <1>p, <1>0, <1>1, <1>5 DEF Pending
<1>7. SharedTypes'
  BY <1>1, <1>2, <1>4 DEF SharedInv, SharedTypes, Labels
<1>8. PagesPlaced(w)'
  <2>1. \A q \in known : table[q] \in Frames /\ table[q] # f
    BY <1>0, KnownPages DEF SharedInv, PagesPlaced, NoPage, Pages
  <2> QED
    BY <1>1, <1>4, <1>6, <2>1 DEF SharedInv, PagesPlaced
<1>9. HandlesPlaced'
  BY <1>1 DEF SharedInv, HandlesPlaced
<1>10. Counted(handles, frame, Pending(w))'
  <2>1. \A e \in Frames : IsFiniteSet(HoldersOf(handles, e))
                         /\ frame[e].pins = Cardinality(HoldersOf(handles, e))
    BY <1>6, FS_CardinalityType DEF SharedInv, Counted
  <2>2. ASSUME NEW e \in Frames
        PROVE  /\ IsFiniteSet(HoldersOf(handles, e))
               /\ frame'[e].pins = Cardinality(HoldersOf(handles, e)) + IF e \in {f} THEN 1 ELSE 0
    BY <1>p, <1>4, <2>1, FS_CardinalityType
  <2>3. Counted(handles, frame', {f})
    BY <2>2 DEF Counted
  <2> QED
    BY <1>1, <1>6, <2>3, ZenonT(60) DEF Counted, HoldersOf
<1>11. OthersRead(w)'
  BY <1>1, <1>5 DEF SharedInv, OthersRead
<1>12. Allocates(w)'
  BY <1>p, <1>0, <1>1, <1>4, <1>5 DEF Allocates
<1>13. FileAgrees'
  BY <1>0, <1>1, <1>4 DEF SharedInv, FileAgrees
<1>14. Flushes(w)'
  BY <1>5 DEF Flushes
<1> QED
  BY <1>7, <1>8, <1>9, <1>10, <1>11, <1>12, <1>13, <1>14 DEF SharedInv

\* The page enters the table, and the handle is returned.
LEMMA SharedPublish ==
  ASSUME NEW w, w \in Threads, SharedInv(w), Publish(w)
  PROVE  SharedInv(w)'
<1>p. PICK p, f, h : p = op[w].page /\ f = op[w].frame /\ h = <<p, f>>
  OBVIOUS
<1>0. /\ at[w] = "publish" /\ f \in Frames /\ p \in 1..npages /\ p \notin known
      /\ frame[f].page = p
  BY <1>p DEF Publish, SharedInv, Allocates
<1>1. /\ table' = [table EXCEPT ![p] = f] /\ known' = known \cup {p}
      /\ handles' = [handles EXCEPT ![w] = @ \cup {h}]
      /\ at' = [at EXCEPT ![w] = "idle"] /\ op' = [op EXCEPT ![w] = NoOp]
      /\ UNCHANGED <<frame, disk, npages, writes>>
  BY <1>p DEF Publish, ReturnHandle, Return, Goto, hist
<1>2. /\ p \in Pages /\ p # NoPage /\ f # 0 /\ table \in [Pages -> Frames \cup {0}]
      /\ at \in [Threads -> Labels] /\ op \in [Threads -> Op]
      /\ handles \in [Threads -> SUBSET (Pages \X Frames)]
  BY <1>0, PagesAssumption DEF SharedInv, SharedTypes, Pages, Frames, NoPage
<1>3. /\ at'[w] = "idle" /\ \A t \in Threads : t # w => at'[t] = at[t] /\ op'[t] = op[t]
      /\ handles'[w] = handles[w] \cup {h}
      /\ \A t \in Threads : t # w => handles'[t] = handles[t]
      /\ table'[p] = f /\ \A q \in Pages : q # p => table'[q] = table[q]
  BY <1>1, <1>2
<1>4. Pending(w) = {f} /\ Pending(w)' = {}
  BY <1>p, <1>0, <1>3 DEF Pending
<1>5. SharedTypes'
  <2>1. /\ at' \in [Threads -> Labels] /\ op' \in [Threads -> Op]
        /\ table' \in [Pages -> Frames \cup {0}] /\ known' \subseteq 1..npages
    BY <1>0, <1>1, <1>2, NoOpTypes DEF SharedInv, SharedTypes, Labels
  <2>2. handles' \in [Threads -> SUBSET (Pages \X Frames)]
    BY <1>p, <1>0, <1>1, <1>2
  <2> QED
    BY <1>1, <2>1, <2>2 DEF SharedInv, SharedTypes
<1>6. known \subseteq Pages /\ \A q \in known : table'[q] = table[q]
  BY <1>0, <1>3, KnownPages DEF SharedInv
<1>7. PagesPlaced(w)'
  <2>1. \A q \in Pages : table'[q] # 0 <=> q \in known'
    BY <1>1, <1>2, <1>3 DEF SharedInv, PagesPlaced
  <2>2. \A q \in known' : frame'[table'[q]].page = q
    BY <1>0, <1>1, <1>3, <1>6 DEF SharedInv, PagesPlaced
  <2>3. ASSUME NEW e \in Frames, frame[e].page # NoPage
        PROVE  frame[e].page \in known' /\ table'[frame[e].page] = e
    <3>1. CASE e = f
      BY <1>0, <1>1, <1>3, <3>1
    <3>2. CASE e # f
      BY <1>1, <1>4, <1>6, <2>3, <3>2 DEF SharedInv, PagesPlaced
    <3> QED
      BY <3>1, <3>2
  <2> QED
    BY <1>1, <2>1, <2>2, <2>3 DEF PagesPlaced
<1>8. HandlesPlaced'
  <2>1. ASSUME NEW t \in Threads, NEW k \in handles'[t]
        PROVE  k[1] \in known' /\ table'[k[1]] = k[2]
    <3>1. k \in handles[t] \/ k = h
      BY <1>3
    <3>2. CASE k \in handles[t]
      BY <1>1, <1>6, <3>2 DEF SharedInv, HandlesPlaced
    <3>3. CASE k = h
      BY <1>p, <1>1, <1>3, <3>3
    <3> QED
      BY <3>1, <3>2, <3>3
  <2> QED
    BY <2>1 DEF HandlesPlaced
<1>9. Counted(handles, frame, Pending(w))'
  <2>1. h \notin handles[w] /\ h[2] = f
    BY <1>p, <1>0 DEF SharedInv, HandlesPlaced
  <2>2. Gains(handles, handles', w, h)
    BY <1>3, <2>1 DEF Gains
  <2>3. /\ IsFiniteSet(HoldersOf(handles, f)) <=> IsFiniteSet(HoldersOf(handles', f))
        /\ IsFiniteSet(HoldersOf(handles, f)) =>
             /\ Cardinality(HoldersOf(handles, f)) \in Nat
             /\ Cardinality(HoldersOf(handles', f)) = Cardinality(HoldersOf(handles, f)) + 1
        /\ \A e : e # f => HoldersOf(handles', e) = HoldersOf(handles, e)
    BY <2>1, <2>2, CountGain
  <2>4. ASSUME NEW e \in Frames
        PROVE  /\ IsFiniteSet(HoldersOf(handles', e))
               /\ frame[e].pins = Cardinality(HoldersOf(handles', e)) + IF e \in {} THEN 1 ELSE 0
    <3>1. /\ IsFiniteSet(HoldersOf(handles, e))
          /\ frame[e].pins = Cardinality(HoldersOf(handles, e)) + IF e = f THEN 1 ELSE 0
      BY <1>4 DEF SharedInv, Counted
    <3>2. Cardinality(HoldersOf(handles', e)) \in Nat
      BY <2>3, <3>1, FS_CardinalityType
    <3>3. CASE e = f
      BY <2>3, <3>1, <3>2, <3>3
    <3>4. CASE e # f
      BY <2>3, <3>1, <3>2, <3>4
    <3> QED
      BY <3>3, <3>4
  <2>5. Counted(handles', frame, {})
    BY <2>4 DEF Counted
  <2> QED
    BY <1>1, <1>4, <2>5 DEF Counted, HoldersOf
<1>10. OthersRead(w)'
  BY <1>1, <1>3 DEF SharedInv, OthersRead
<1>11. Allocates(w)' /\ Flushes(w)'
  BY <1>3 DEF Allocates, Flushes
<1>12. FileAgrees'
  BY <1>1 DEF SharedInv, FileAgrees
<1> QED
  BY <1>5, <1>7, <1>8, <1>9, <1>10, <1>11, <1>12 DEF SharedInv

\* Frame f gets data c and dirty flag d, and keeps page and pins.
SetsData(f, c, d) ==
  /\ frame' \in [Frames -> Frame] /\ f \in Frames
  /\ frame'[f].data = c /\ frame'[f].dirty = d
  /\ \A g \in Frames : /\ frame'[g].page = frame[g].page /\ frame'[g].pins = frame[g].pins
                       /\ g # f => /\ frame'[g].data = frame[g].data
                                   /\ frame'[g].dirty = frame[g].dirty

\* How a step does so.
LEMMA SetsDataHow ==
  ASSUME frame \in [Frames -> Frame], NEW f, f \in Frames,
         NEW c, c \in 0..MaxWrites, NEW d, d \in BOOLEAN, NEW g,
         g = [frame[f] EXCEPT !.data = c, !.dirty = d], frame' = [frame EXCEPT ![f] = g]
  PROVE  SetsData(f, c, d)
<1>1. /\ g \in Frame /\ g.page = frame[f].page /\ g.data = c /\ g.pins = frame[f].pins
      /\ g.dirty = d
  <2>1. frame[f] \in Frame
    OBVIOUS
  <2> QED
    BY <2>1 DEF Frame
<1>2. /\ frame' \in [Frames -> Frame] /\ frame'[f] = g
      /\ \A e \in Frames : e # f => frame'[e] = frame[e]
  BY <1>1
<1> QED
  BY <1>1, <1>2 DEF SetsData

\* A step of the writer that changes the data of a frame.
LEMMA SharedData ==
  ASSUME NEW w, w \in Threads, SharedInv(w), NEW l, NEW o, Moves(w, l, o),
         NEW f, NEW c, NEW d, SetsData(f, c, d),
         UNCHANGED <<table, known, handles, disk, npages>>, writes' \in 0..MaxWrites,
         at[w] \notin {"hit", "publish"},
         frame[f].page # NoPage, d = TRUE \/ disk[frame[f].page] = c,
         Allocates(w)', Flushes(w)'
  PROVE  SharedInv(w)'
<1>1. at \in [Threads -> Labels] /\ op \in [Threads -> Op]
  BY DEF SharedInv, SharedTypes
<1>2. WriterStep(w)
  BY <1>1 DEF WriterStep, Moves, SetsData
<1>3. /\ PagesPlaced(w)' /\ HandlesPlaced' /\ Counted(handles, frame, Pending(w))'
      /\ OthersRead(w)'
  BY <1>2, WriterKeeps
<1>4. SharedTypes'
  BY <1>1 DEF SharedInv, SharedTypes, Moves, SetsData
<1>5. FileAgrees'
  BY DEF SharedInv, FileAgrees, SetsData
<1> QED
  BY <1>3, <1>4, <1>5 DEF SharedInv

\* data_mut marks the frame.
LEMMA SharedMarkDirty ==
  ASSUME NEW w, w \in Threads, SharedInv(w), MarkDirty(w)
  PROVE  SharedInv(w)'
<1>h. PICK h \in handles[w] :
        /\ frame' = [frame EXCEPT ![h[2]].dirty = TRUE]
        /\ op' = [op EXCEPT ![w] = [NoOp EXCEPT !.kind = "write", !.frame = h[2]]]
  BY DEF MarkDirty
<1>f. PICK f, g, c, o, d : /\ f = h[2] /\ g = [frame[f] EXCEPT !.data = c, !.dirty = d] /\ d = TRUE
                        /\ c = frame[f].data
                        /\ o = [NoOp EXCEPT !.kind = "write", !.frame = f]
  BY ZenonT(60)
<1>1. /\ at[w] = "idle" /\ at' = [at EXCEPT ![w] = "write"] /\ writes < MaxWrites
      /\ UNCHANGED <<table, disk, npages, known, handles, writes>>
  BY DEF MarkDirty, Goto, hist
<1>2. /\ f \in Frames /\ frame[f].page # NoPage /\ c \in 0..MaxWrites
      /\ frame \in [Frames -> Frame] /\ frame[f] \in Frame
  <2>1. h \in Pages \X Frames /\ frame \in [Frames -> Frame]
    BY DEF SharedInv, SharedTypes
  <2>2. h[1] \in known /\ table[h[1]] = f
    BY <1>f DEF SharedInv, HandlesPlaced
  <2>3. frame[f].page = h[1]
    BY <2>2 DEF SharedInv, PagesPlaced
  <2> QED
    BY <1>f, <2>1, <2>3, FrameFields DEF Pages, NoPage
<1>3. frame' = [frame EXCEPT ![f] = g]
  <2>1. g = [frame[f] EXCEPT !.dirty = TRUE]
    BY <1>f, <1>2 DEF Frame
  <2> QED
    BY <1>h, <1>f, <1>2, <2>1
<1>4. SetsData(f, c, d)
  BY <1>f, <1>2, <1>3, SetsDataHow
<1>5. o \in Op /\ o.frame = f
  BY <1>f, <1>2, NoOpTypes DEF Op, Kinds
<1>6. Moves(w, "write", o)
  BY <1>h, <1>f, <1>1, <1>5 DEF Moves, Labels
<1>7. at'[w] = "write" /\ op'[w] = o
  BY <1>6 DEF Moves, SharedInv, SharedTypes
<1>8. Allocates(w)' /\ Flushes(w)'
  <2>1. frame'[f].dirty = TRUE /\ frame'[f].page # NoPage
    BY <1>f, <1>2, <1>4 DEF SetsData
  <2> QED
    BY <1>1, <1>2, <1>5, <1>7, <2>1 DEF Allocates, Flushes
<1>9. writes' \in 0..MaxWrites
  BY <1>1 DEF SharedInv, SharedTypes
<1> QED
  BY <1>f, <1>1, <1>2, <1>4, <1>6, <1>8, <1>9, SharedData

\* The data changes.
LEMMA SharedWriteData ==
  ASSUME NEW w, w \in Threads, SharedInv(w), WriteData(w)
  PROVE  SharedInv(w)'
<1>f. PICK f, g, c, d : /\ f = op[w].frame /\ c = writes + 1 /\ d = TRUE
                        /\ g = [frame[f] EXCEPT !.data = c, !.dirty = d]
  OBVIOUS
<1>1. /\ at[w] = "write" /\ at' = [at EXCEPT ![w] = "idle"] /\ op' = [op EXCEPT ![w] = NoOp]
      /\ frame' = [frame EXCEPT ![f].data = c] /\ writes' = c
      /\ UNCHANGED <<table, disk, npages, known, handles>>
  BY <1>f DEF WriteData, Return, Goto
<1>2. /\ f \in Frames /\ frame[f].page # NoPage /\ frame[f].dirty = TRUE
      /\ c \in 0..MaxWrites /\ frame \in [Frames -> Frame] /\ frame[f] \in Frame
  <2>1. /\ f \in Frames /\ frame[f].page # NoPage /\ frame[f].dirty /\ writes < MaxWrites
    BY <1>f, <1>1 DEF SharedInv, Flushes
  <2>2. frame \in [Frames -> Frame] /\ writes \in 0..MaxWrites
    BY DEF SharedInv, SharedTypes
  <2> QED
    BY <1>f, <2>1, <2>2, BoundsAssumption, FrameFields
<1>3. frame' = [frame EXCEPT ![f] = g]
  <2>1. g = [frame[f] EXCEPT !.data = c]
    BY <1>f, <1>2 DEF Frame
  <2> QED
    BY <1>1, <1>2, <2>1
<1>4. SetsData(f, c, d)
  BY <1>f, <1>2, <1>3, SetsDataHow
<1>5. Moves(w, "idle", NoOp)
  BY <1>1, NoOpTypes DEF Moves, Labels
<1>6. at'[w] = "idle"
  BY <1>5 DEF Moves, SharedInv, SharedTypes
<1>7. Allocates(w)' /\ Flushes(w)'
  BY <1>6 DEF Allocates, Flushes
<1> QED
  BY <1>f, <1>1, <1>2, <1>4, <1>5, <1>7, SharedData

-----------------------------------------------------------------------------
(* flush_all *)

\* flush_all starts with the pages of the table.
LEMMA SharedFlushAll ==
  ASSUME NEW w, w \in Threads, SharedInv(w), FlushAll(w)
  PROVE  SharedInv(w)'
<1>o. PICK o : o = [NoOp EXCEPT !.kind = "flush", !.todo = {p \in Pages : table[p] # 0}]
  OBVIOUS
<1>1. /\ at[w] = "idle" /\ at' = [at EXCEPT ![w] = "flush"] /\ op' = [op EXCEPT ![w] = o]
      /\ UNCHANGED <<frame, table, disk, npages, known, handles, writes>>
  BY <1>o DEF FlushAll, Goto, hist
<1>2. o \in Op /\ o.todo = {p \in Pages : table[p] # 0}
  BY <1>o, NoOpTypes DEF Op, Kinds
<1>3. Moves(w, "flush", o)
  BY <1>1, <1>2 DEF Moves, Labels
<1>4. at'[w] = "flush" /\ op'[w] = o
  BY <1>3 DEF Moves, SharedInv, SharedTypes
<1>5. o.todo = known
  BY <1>2, KnownPages DEF SharedInv, PagesPlaced
<1>6. \A f \in Frames : frame[f].page # NoPage => frame[f].page \in known
  BY <1>1 DEF SharedInv, PagesPlaced, Pending
<1>7. Allocates(w)' /\ Flushes(w)'
  BY <1>1, <1>4, <1>5, <1>6 DEF Allocates, Flushes
<1>8. npages' \in npages..MaxPages
  BY <1>1, PagesAssumption DEF SharedInv, SharedTypes
<1> QED
  BY <1>1, <1>3, <1>7, <1>8, SharedLocal

\* flush_all takes the next page, which is still in the table.
LEMMA SharedFlushLookup ==
  ASSUME NEW w, w \in Threads, SharedInv(w), NEW p, p \in Pages, FlushLookup(w, p)
  PROVE  SharedInv(w)'
<1>o. PICK f, o : /\ f = table[p]
                  /\ o = [op[w] EXCEPT !.todo = @ \ {p}, !.page = p, !.frame = f]
  OBVIOUS
<1>1. /\ at[w] = "flush" /\ p \in op[w].todo
      /\ op' = [op EXCEPT ![w].todo = @ \ {p}, ![w].page = p, ![w].frame = f]
      /\ f # 0 => at' = [at EXCEPT ![w] = "copy"]
      /\ UNCHANGED <<frame, table, disk, npages, known, handles, writes>>
  BY <1>o DEF FlushLookup, Goto, hist
<1>2. /\ op[w].todo \subseteq known /\ p \in known /\ f # 0 /\ f \in Frames
      /\ \A g \in Frames : frame[g].page # NoPage => frame[g].page \in op[w].todo \/ Saved(g)
  <2>1. op[w].todo \subseteq known /\ p \in known
    BY <1>1 DEF SharedInv, Flushes
  <2> QED
    BY <1>o, <1>1, <2>1, KnownPages DEF SharedInv, PagesPlaced, Flushes
<1>3. /\ op[w] \in Op /\ op \in [Threads -> Op] /\ at \in [Threads -> Labels]
  BY DEF SharedInv, SharedTypes
<1>4. o \in Op /\ o.todo = op[w].todo \ {p} /\ o.page = p /\ o.frame = f
  BY <1>o, <1>2, <1>3 DEF Op
<1>5. op' = [op EXCEPT ![w] = o]
  BY <1>o, <1>1, <1>3 DEF Op
<1>6. Moves(w, "copy", o)
  BY <1>1, <1>2, <1>4, <1>5 DEF Moves, Labels
<1>7. at'[w] = "copy" /\ op'[w] = o
  BY <1>3, <1>6 DEF Moves
<1>8. Allocates(w)'
  BY <1>7 DEF Allocates
<1>9. Flushes(w)'
  <2>1. \A g \in Frames : Saved(g)' = Saved(g)
    BY <1>1 DEF Saved
  <2> QED
    BY <1>o, <1>1, <1>2, <1>4, <1>7, <2>1 DEF Flushes
<1>10. npages' \in npages..MaxPages
  BY <1>1, PagesAssumption DEF SharedInv, SharedTypes
<1> QED
  BY <1>1, <1>6, <1>8, <1>9, <1>10, SharedLocal

\* The frame flush_page works on.
LEMMA FlushedFrame ==
  ASSUME NEW w, w \in Threads, SharedInv(w), at[w] \in {"copy", "out", "clean"}
  PROVE  /\ op[w].frame \in Frames /\ op[w].page \in known /\ op[w].page \in Pages
         /\ frame[op[w].frame].page = op[w].page /\ op[w].todo \subseteq known
         /\ op[w].page # NoPage
         /\ \A g \in Frames : g # op[w].frame => frame[g].page # op[w].page
         /\ \A g \in Frames : frame[g].page # NoPage =>
              frame[g].page \in op[w].todo \/ frame[g].page = op[w].page \/ Saved(g)
<1>1. /\ op[w].page \in known /\ op[w].frame = table[op[w].page] /\ op[w].todo \subseteq known
      /\ \A g \in Frames : frame[g].page # NoPage =>
           frame[g].page \in op[w].todo \/ frame[g].page = op[w].page \/ Saved(g)
  BY DEF SharedInv, Flushes
<1>2. op[w].page \in Pages /\ op[w].frame \in Frames /\ op[w].page # NoPage
  BY <1>1, KnownPages DEF SharedInv, Pages, NoPage
<1>3. \A g \in Frames : frame[g].page # NoPage => table[frame[g].page] = g
  BY DEF SharedInv, PagesPlaced, Pending
<1> QED
  BY <1>1, <1>2, <1>3 DEF SharedInv, PagesPlaced

\* flush_page copies a dirty frame, or passes over a clean one.
LEMMA SharedFlushCopy ==
  ASSUME NEW w, w \in Threads, SharedInv(w), FlushCopy(w)
  PROVE  SharedInv(w)'
<1>f. PICK f, c, o, l : /\ f = op[w].frame /\ c = frame[f].data
                        /\ o = [op[w] EXCEPT !.data = c]
                        /\ l = IF frame[f].dirty THEN "out" ELSE "flush"
  OBVIOUS
<1>1. /\ at[w] = "copy" /\ op' = [op EXCEPT ![w].data = c] /\ at' = [at EXCEPT ![w] = l]
      /\ UNCHANGED <<frame, table, disk, npages, known, handles, writes>>
  BY <1>f DEF FlushCopy, Goto, hist
<1>2. /\ op[w] \in Op /\ op \in [Threads -> Op] /\ at \in [Threads -> Labels]
      /\ frame \in [Frames -> Frame]
  BY DEF SharedInv, SharedTypes
<1>3. /\ f \in Frames /\ op[w].page \in known /\ frame[f].page = op[w].page
      /\ f = table[op[w].page] /\ op[w].todo \subseteq known
      /\ \A g \in Frames : g # f => frame[g].page # op[w].page
      /\ \A g \in Frames : frame[g].page # NoPage =>
           frame[g].page \in op[w].todo \/ frame[g].page = op[w].page \/ Saved(g)
  BY <1>f, <1>1, FlushedFrame DEF SharedInv, Flushes
<1>4. c \in 0..MaxWrites
  BY <1>f, <1>2, <1>3, FrameFields
<1>5. o \in Op /\ o.data = c /\ o.page = op[w].page /\ o.frame = f /\ o.todo = op[w].todo
  BY <1>f, <1>2, <1>4 DEF Op
<1>6. Moves(w, l, o)
  BY <1>f, <1>1, <1>2, <1>5 DEF Moves, Labels
<1>7. at'[w] = l /\ op'[w] = o
  BY <1>2, <1>6 DEF Moves
<1>8. Allocates(w)'
  BY <1>f, <1>7 DEF Allocates
<1>9. Flushes(w)'
  <2>1. \A g \in Frames : Saved(g)' = Saved(g)
    BY <1>1 DEF Saved
  <2>2. CASE frame[f].dirty
    <3>1. l = "out"
      BY <1>f, <2>2
    <3>2. o.data = frame'[o.frame].data /\ o.frame = table'[o.page] /\ o.page \in known'
      BY <1>f, <1>1, <1>3, <1>5
    <3>3. o.todo \subseteq known'
      BY <1>1, <1>3, <1>5
    <3>4. \A g \in Frames : frame'[g].page # NoPage =>
            frame'[g].page \in o.todo \/ frame'[g].page = o.page \/ Saved(g)'
      BY <1>1, <1>3, <1>5, <2>1
    <3> QED
      BY <1>7, <3>1, <3>2, <3>3, <3>4 DEF Flushes
  <2>3. CASE ~frame[f].dirty
    <3>1. l = "flush"
      BY <1>f, <2>3
    <3>2. frame[f].page # NoPage => Saved(f)
      BY <1>3, <2>3 DEF SharedInv, FileAgrees, Saved
    <3>3. \A g \in Frames : frame[g].page # NoPage => frame[g].page \in op[w].todo \/ Saved(g)
      BY <1>3, <3>2
    <3> QED
      BY <1>1, <1>3, <1>5, <1>7, <2>1, <3>1, <3>3 DEF Flushes
  <2> QED
    BY <2>2, <2>3
<1>10. npages' \in npages..MaxPages
  BY <1>1, PagesAssumption DEF SharedInv, SharedTypes
<1>11. at[w] \notin {"hit", "publish"}
  BY <1>1
<1> QED
  BY <1>1, <1>6, <1>8, <1>9, <1>10, <1>11, SharedLocal

\* flush_page writes its copy, which is what the frame holds, or fails.
LEMMA SharedFlushWrite ==
  ASSUME NEW w, w \in Threads, SharedInv(w), FlushWrite(w)
  PROVE  SharedInv(w)'
<1>f. PICK p, f, c : p = op[w].page /\ f = op[w].frame /\ c = op[w].data
  OBVIOUS
<1>1. /\ at[w] = "out" /\ UNCHANGED <<frame, table, npages, known, handles, writes>>
      /\ \/ Return(w) /\ UNCHANGED disk
         \/ /\ disk' = [disk EXCEPT ![p] = c] /\ at' = [at EXCEPT ![w] = "clean"]
            /\ op' = op
  BY <1>f DEF FlushWrite, Goto
<1>2. CASE Return(w) /\ UNCHANGED disk
  <2>1. npages' \in npages..MaxPages
    BY <1>1, PagesAssumption DEF SharedInv, SharedTypes
  <2> QED
    BY <1>1, <1>2, <2>1, SharedReturn
<1>3. CASE /\ disk' = [disk EXCEPT ![p] = c] /\ at' = [at EXCEPT ![w] = "clean"]
           /\ op' = op
  <2>1. /\ f \in Frames /\ p \in known /\ p \in Pages /\ frame[f].page = p
        /\ op[w].todo \subseteq known /\ \A g \in Frames : g # f => frame[g].page # p
        /\ \A g \in Frames : frame[g].page # NoPage =>
             frame[g].page \in op[w].todo \/ frame[g].page = p \/ Saved(g)
    BY <1>f, <1>1, FlushedFrame
  <2>2. c = frame[f].data /\ f = table[p]
    BY <1>f, <1>1 DEF SharedInv, Flushes
  <2>3. /\ disk \in [Pages -> 0..MaxWrites] /\ at \in [Threads -> Labels] /\ c \in 0..MaxWrites
        /\ frame \in [Frames -> Frame] /\ known \subseteq 1..npages /\ npages \in Nat
    BY <2>1, <2>2, FrameFields, PagesAssumption DEF SharedInv, SharedTypes
  <2>4. disk'[p] = c /\ \A q \in Pages : q # p => disk'[q] = disk[q]
    BY <1>3, <2>1, <2>3
  <2>5. at'[w] = "clean" /\ \A t \in Threads : t # w => at'[t] = at[t]
    BY <1>3, <2>3
  <2>6. WriterStep(w)
    BY <1>1, <1>3, <2>5 DEF WriterStep
  <2>7. /\ PagesPlaced(w)' /\ HandlesPlaced' /\ Counted(handles, frame, Pending(w))'
        /\ OthersRead(w)'
    BY <2>6, WriterKeeps
  <2>8. SharedTypes'
    BY <1>1, <1>3, <2>1, <2>3 DEF SharedInv, SharedTypes, Labels
  <2>9. FileAgrees'
    <3>1. ASSUME NEW g \in Frames, frame[g].page # NoPage, ~frame[g].dirty
          PROVE  disk'[frame[g].page] = frame[g].data
      <4>1. frame[g].page \in Pages /\ disk[frame[g].page] = frame[g].data
        BY <2>3, <3>1, FrameFields DEF SharedInv, FileAgrees
      <4> QED
        BY <2>1, <2>2, <2>4, <4>1
    <3>2. ASSUME NEW q \in Pages, q > npages PROVE disk'[q] = 0
      <4>1. disk[q] = 0
        BY <3>2 DEF SharedInv, FileAgrees
      <4>2. p \in 1..npages /\ q \in Nat
        BY <2>1, <2>3 DEF Pages
      <4>3. q # p
        BY <2>3, <3>2, <4>2
      <4> QED
        BY <2>4, <4>1, <4>3
    <3> QED
      BY <1>1, <3>1, <3>2 DEF FileAgrees
  <2>10. Allocates(w)'
    BY <2>5 DEF Allocates
  <2>11. Flushes(w)'
    <3>1. ASSUME NEW g \in Frames, frame[g].page # NoPage
          PROVE  frame[g].page \in op[w].todo \/ frame[g].page = p \/ Saved(g)'
      <4>1. frame[g].page \in Pages
        BY <2>3, <3>1, FrameFields
      <4> QED
        BY <1>1, <2>1, <2>4, <3>1, <4>1 DEF Saved
    <3> QED
      BY <1>f, <1>1, <1>3, <2>1, <2>2, <2>4, <2>5, <3>1 DEF Flushes
  <2> QED
    BY <2>7, <2>8, <2>9, <2>10, <2>11 DEF SharedInv
<1> QED
  BY <1>1, <1>2, <1>3

\* flush_page clears the dirty flag.
LEMMA SharedFlushClean ==
  ASSUME NEW w, w \in Threads, SharedInv(w), FlushClean(w)
  PROVE  SharedInv(w)'
<1>f. PICK f, c, d, g : /\ f = op[w].frame /\ c = frame[f].data /\ d = FALSE
                        /\ g = [frame[f] EXCEPT !.data = c, !.dirty = d]
  OBVIOUS
<1>1. /\ at[w] = "clean" /\ at' = [at EXCEPT ![w] = "flush"]
      /\ frame' = [frame EXCEPT ![f].dirty = FALSE]
      /\ UNCHANGED <<table, disk, npages, known, op, handles, writes>>
  BY <1>f DEF FlushClean, Goto, hist
<1>2. /\ f \in Frames /\ frame[f].page = op[w].page /\ op[w].page # NoPage
      /\ op[w].todo \subseteq known /\ disk[frame[f].page] = c
      /\ \A e \in Frames : frame[e].page # NoPage =>
           frame[e].page \in op[w].todo \/ frame[e].page = op[w].page \/ Saved(e)
      /\ \A e \in Frames : e # f => frame[e].page # op[w].page
  BY <1>f, <1>1, FlushedFrame DEF SharedInv, Flushes
<1>3. /\ frame \in [Frames -> Frame] /\ frame[f] \in Frame /\ c \in 0..MaxWrites
      /\ op \in [Threads -> Op] /\ at \in [Threads -> Labels] /\ op[w] \in Op
      /\ writes' \in 0..MaxWrites
  BY <1>f, <1>1, <1>2, FrameFields DEF SharedInv, SharedTypes
<1>4. frame' = [frame EXCEPT ![f] = g]
  <2>1. g = [frame[f] EXCEPT !.dirty = FALSE]
    BY <1>f, <1>3 DEF Frame
  <2> QED
    BY <1>1, <1>2, <1>3, <2>1
<1>5. SetsData(f, c, d)
  BY <1>f, <1>2, <1>3, <1>4, SetsDataHow
<1>6. Moves(w, "flush", op[w])
  BY <1>1, <1>3 DEF Moves, Labels
<1>7. at'[w] = "flush" /\ op'[w] = op[w]
  BY <1>3, <1>6 DEF Moves
<1>8. Allocates(w)'
  BY <1>7 DEF Allocates
<1>9. Flushes(w)'
  <2>1. ASSUME NEW e \in Frames, frame'[e].page # NoPage
        PROVE  frame'[e].page \in op[w].todo \/ Saved(e)'
    <3>1. frame'[e].page = frame[e].page /\ (e = f => frame'[e].data = c)
          /\ (e # f => frame'[e].data = frame[e].data)
      BY <1>5 DEF SetsData
    <3> QED
      BY <1>1, <1>2, <2>1, <3>1 DEF Saved
  <2> QED
    BY <1>1, <1>2, <1>7, <2>1 DEF Flushes
<1>10. at[w] \notin {"hit", "publish"} /\ frame[f].page # NoPage
  BY <1>1, <1>2
<1> QED
  BY <1>1, <1>2, <1>3, <1>5, <1>6, <1>8, <1>9, <1>10, SharedData

-----------------------------------------------------------------------------
(* The invariant *)

\* The invariant holds at first.
LEMMA SharedInit ==
  ASSUME NEW w, w \in Threads, Warm = TRUE, Init
  PROVE  SharedInv(w)
<1>1. /\ frame = [f \in Frames |-> IF f <= StartPages THEN [Empty EXCEPT !.page = f] ELSE Empty]
      /\ table = [p \in Pages |-> IF p <= StartPages THEN p ELSE 0]
      /\ known = 1..StartPages /\ npages = StartPages /\ disk = [p \in Pages |-> 0]
      /\ at = [t \in Threads |-> "idle"] /\ op = [t \in Threads |-> NoOp]
      /\ handles = [t \in Threads |-> {}] /\ writes = 0
  BY DEF Init
<1>2. /\ StartPages \in Nat /\ StartPages <= Capacity /\ StartPages <= MaxPages
      /\ Capacity \in Nat /\ MaxPages \in Nat /\ MaxWrites \in Nat
  BY WarmAssumption, PagesAssumption, CapacityAssumption, BoundsAssumption
<1>3. \A f \in Frames : /\ frame[f] \in Frame /\ frame[f].data = 0 /\ frame[f].pins = 0
                       /\ frame[f].page = IF f <= StartPages THEN f ELSE NoPage
  <2>1. ASSUME NEW f \in Frames
        PROVE  frame[f] = IF f <= StartPages THEN [Empty EXCEPT !.page = f] ELSE Empty
    BY <1>1
  <2>2. ASSUME NEW f \in Frames, f <= StartPages PROVE f \in Pages
    BY <1>2, <2>2 DEF Frames, Pages
  <2>3. Empty \in Frame /\ Empty.data = 0 /\ Empty.pins = 0 /\ Empty.page = NoPage
    BY <1>2 DEF Frame, Empty
  <2>4. ASSUME NEW p \in Pages
        PROVE  /\ [Empty EXCEPT !.page = p] \in Frame /\ [Empty EXCEPT !.page = p].data = 0
               /\ [Empty EXCEPT !.page = p].pins = 0 /\ [Empty EXCEPT !.page = p].page = p
    BY <2>3 DEF Frame
  <2>5. ASSUME NEW f \in Frames
        PROVE  /\ frame[f] \in Frame /\ frame[f].data = 0 /\ frame[f].pins = 0
               /\ frame[f].page = IF f <= StartPages THEN f ELSE NoPage
    <3>1. CASE f <= StartPages
      <4>1. f \in Pages /\ frame[f] = [Empty EXCEPT !.page = f]
        BY <2>1, <2>2, <3>1
      <4> QED
        BY <2>4, <3>1, <4>1
    <3>2. CASE ~(f <= StartPages)
      <4>1. frame[f] = Empty
        BY <2>1, <3>2
      <4> QED
        BY <2>3, <3>2, <4>1
    <3> QED
      BY <3>1, <3>2
  <2> QED
    BY <2>5
<1>4. \A p \in Pages : p <= StartPages => p \in Frames /\ p # 0
  BY <1>2 DEF Pages, Frames
<1>5. SharedTypes
  <2>1. frame \in [Frames -> Frame]
    BY <1>1, <1>3
  <2>2. table \in [Pages -> Frames \cup {0}]
    BY <1>1, <1>4
  <2>3. /\ disk \in [Pages -> 0..MaxWrites] /\ npages \in 0..MaxPages /\ known \subseteq 1..npages
        /\ writes \in 0..MaxWrites
    BY <1>1, <1>2
  <2>4. /\ at \in [Threads -> Labels] /\ op \in [Threads -> Op]
        /\ handles \in [Threads -> SUBSET (Pages \X Frames)]
    BY <1>1, NoOpTypes DEF Labels
  <2> QED
    BY <2>1, <2>2, <2>3, <2>4 DEF SharedTypes
<1>6. PagesPlaced(w)
  <2>1. \A p \in Pages : table[p] # 0 <=> p \in known
    BY <1>1, <1>2, <1>4 DEF Pages
  <2>2. \A p \in known : p \in Pages /\ p \in Frames /\ p <= StartPages /\ table[p] = p
    BY <1>1, <1>2, <1>4 DEF Pages
  <2>3. \A f \in Frames : frame[f].page # NoPage => frame[f].page = f /\ f \in known
    <3>1. ASSUME NEW f \in Frames, frame[f].page # NoPage PROVE frame[f].page = f /\ f \in known
      <4>1. f <= StartPages /\ frame[f].page = f
        BY <1>3, <3>1
      <4> QED
        BY <1>1, <1>2, <4>1 DEF Frames
    <3> QED
      BY <3>1
  <2> QED
    BY <1>3, <2>1, <2>2, <2>3 DEF PagesPlaced
<1>7. HandlesPlaced
  BY <1>1 DEF HandlesPlaced
<1>8. Counted(handles, frame, Pending(w))
  <2>1. \A f \in Frames : HoldersOf(handles, f) = {}
    BY <1>1 DEF HoldersOf
  <2>2. Pending(w) = {}
    BY <1>1 DEF Pending
  <2> QED
    <3>1. ASSUME NEW f \in Frames
          PROVE  /\ IsFiniteSet(HoldersOf(handles, f)) /\ Cardinality(HoldersOf(handles, f)) = 0
                 /\ frame[f].pins = 0 /\ f \notin Pending(w)
      BY <1>3, <2>1, <2>2, FS_EmptySet
    <3>2. \A f \in Frames :
            frame[f].pins = Cardinality(HoldersOf(handles, f)) + IF f \in Pending(w) THEN 1 ELSE 0
      BY <3>1
    <3> QED
      BY <3>1, <3>2 DEF Counted
<1>9. OthersRead(w)
  BY <1>1 DEF OthersRead, Calm
<1>10. FileAgrees
  <2>1. \A p \in Pages : disk[p] = 0
    BY <1>1
  <2>2. \A f \in Frames : frame[f].page # NoPage => frame[f].page \in Pages
    BY <1>3, FrameFields
  <2> QED
    BY <1>3, <2>1, <2>2 DEF FileAgrees
<1>11. Allocates(w) /\ Flushes(w)
  BY <1>1 DEF Allocates, Flushes
<1> QED
  BY <1>5, <1>6, <1>7, <1>8, <1>9, <1>10, <1>11 DEF SharedInv

\* A stuttering step keeps the invariant.
LEMMA SharedStutter ==
  ASSUME NEW w, SharedInv(w), UNCHANGED vars
  PROVE  SharedInv(w)'
<1> USE DEF vars
<1>1. Pending(w)' = Pending(w)
  BY DEF Pending
<1>2. SharedTypes' /\ HandlesPlaced' /\ FileAgrees'
  BY DEF SharedInv, SharedTypes, HandlesPlaced, FileAgrees
<1>3. PagesPlaced(w)' /\ OthersRead(w)'
  BY <1>1 DEF SharedInv, PagesPlaced, OthersRead
<1>4. Counted(handles, frame, Pending(w))'
  BY <1>1 DEF SharedInv, Counted, HoldersOf
<1>5. Allocates(w)' /\ Flushes(w)'
  BY DEF SharedInv, Allocates, Flushes, Saved
<1> QED
  BY <1>2, <1>3, <1>4, <1>5 DEF SharedInv

\* What a thread other than the writer may do.
LEMMA ReaderSteps ==
  ASSUME NEW w, Writers = {w}, SharedInv(w), NEW t, t \in Threads, t # w, Call(t) \/ Run(t)
  PROVE  (\E p \in Pages : Pin(t, p)) \/ PinHit(t) \/ Unpin(t) \/ Enqueue(t)
<1>1. at[t] \in {"idle", "hit", "enqueue"}
  BY DEF SharedInv, OthersRead, Calm
<1>2. CASE Call(t)
  BY <1>2 DEF Call, NewPage, MarkDirty, FlushAll
<1>3. CASE Run(t)
  BY <1>1, <1>3 DEF Run, FindFrame, BeginEvict, EvictFull, EvictPop, EvictWrite,
     EvictWriteFails,
                    EvictRemove, Load, LoadFails, Install, Publish, WriteData, FlushDone,
                    FlushLookup, FlushCopy, FlushWrite, FlushClean
<1> QED
  BY <1>2, <1>3

\* What the writer may do: it never evicts.
LEMMA WriterSteps ==
  ASSUME NEW w, w \in Threads, MaxPages <= Capacity, SharedInv(w), Call(w) \/ Run(w)
  PROVE  \/ (\E p \in Pages : Pin(w, p)) \/ PinHit(w) \/ Unpin(w) \/ Enqueue(w)
         \/ NewPage(w) \/ FindFrame(w) \/ Load(w) \/ LoadFails(w) \/ Install(w) \/ Publish(w)
         \/ MarkDirty(w) \/ WriteData(w)
         \/ FlushAll(w) \/ FlushDone(w) \/ (\E p \in Pages : FlushLookup(w, p)) \/ FlushCopy(w)
         \/ FlushWrite(w) \/ FlushClean(w)
<1>1. ~BeginEvict(w) /\ at[w] \notin {"evict", "writeback", "remove"}
  BY SharedNoEvict
<1>2. CASE Call(w)
  BY <1>2 DEF Call
<1>3. CASE Run(w)
  BY <1>1, <1>3 DEF Run, EvictFull, EvictPop, EvictWrite, EvictWriteFails, EvictRemove
<1> QED
  BY <1>2, <1>3

\* flush_all returns.
LEMMA SharedFlushDone ==
  ASSUME NEW w, w \in Threads, SharedInv(w), FlushDone(w)
  PROVE  SharedInv(w)'
<1>1. npages' \in npages..MaxPages
  BY PagesAssumption DEF FlushDone, SharedInv, SharedTypes
<1> QED
  BY <1>1, SharedReturn DEF FlushDone, hist

\* Every step keeps the invariant.
LEMMA SharedNext ==
  ASSUME NEW w, Writers = {w}, MaxPages <= Capacity, SharedInv(w), [Next]_vars
  PROVE  SharedInv(w)'
<1>1. w \in Threads
  BY ThreadsAssumption
<1>2. CASE UNCHANGED vars
  BY <1>2, SharedStutter
<1>3. ASSUME NEW t \in Threads, Call(t) \/ Run(t) PROVE SharedInv(w)'
  <2>1. ASSUME (\E p \in Pages : Pin(t, p)) \/ PinHit(t) \/ Unpin(t) \/ Enqueue(t)
        PROVE  SharedInv(w)'
    BY <1>1, <2>1, SharedPin, SharedPinHit, SharedUnpin, SharedEnqueue
  <2>2. CASE t # w
    BY <1>3, <2>1, <2>2, ReaderSteps
  <2>3. CASE t = w
    <3>1. ASSUME NewPage(w) \/ FindFrame(w) \/ Load(w) \/ LoadFails(w) \/ Install(w) \/ Publish(w)
                 \/ MarkDirty(w) \/ WriteData(w)
          PROVE  SharedInv(w)'
      BY <1>1, <3>1, SharedNewPage, SharedFindFrame, SharedLoad, SharedLoadFails,
         SharedInstall,
         SharedPublish, SharedMarkDirty, SharedWriteData
    <3>2. ASSUME \/ FlushAll(w) \/ FlushDone(w) \/ (\E p \in Pages : FlushLookup(w, p))
                 \/ FlushCopy(w) \/ FlushWrite(w) \/ FlushClean(w)
          PROVE  SharedInv(w)'
      BY <1>1, <3>2, SharedFlushAll, SharedFlushDone, SharedFlushLookup, SharedFlushCopy,
         SharedFlushWrite, SharedFlushClean
    <3> QED
      BY <1>1, <1>3, <2>1, <2>3, <3>1, <3>2, WriterSteps
  <2> QED
    BY <2>2, <2>3
<1> QED
  BY <1>2, <1>3 DEF Next

\* The inductive invariant of a shared pool in which every page has a frame.
THEOREM SharedPoolInvariant ==
  ASSUME NEW w, Writers = {w}, Warm = TRUE, MaxPages <= Capacity
  PROVE  Spec => []SharedInv(w)
<1>1. Init => SharedInv(w)
  BY ThreadsAssumption, SharedInit
<1>2. SharedInv(w) /\ [Next]_vars => SharedInv(w)'
  BY SharedNext
<1> QED
  BY <1>1, <1>2, PTL DEF Spec

\* However the threads interleave, the frame of a handle keeps the page of the
\* handle, and its pin count covers every handle (PageHandle::data trusts both).
THEOREM SharedPagesStay ==
  ASSUME NEW w, Writers = {w}, Warm = TRUE, MaxPages <= Capacity
  PROVE  Spec => []HandlesValid
<1>1. SharedInv(w) => HandlesValid
  <2> SUFFICES ASSUME SharedInv(w) PROVE HandlesValid
    OBVIOUS
  <2>1. \A t \in Threads : \A h \in handles[t] : frame[h[2]].page = h[1]
    BY DEF SharedInv, HandlesPlaced, PagesPlaced
  <2>2. ASSUME NEW f \in Frames PROVE frame[f].pins >= Cardinality(Holders(f))
    <3>1. Holders(f) = HoldersOf(handles, f)
      BY DEF Holders, HoldersOf
    <3>2. /\ Cardinality(HoldersOf(handles, f)) \in Nat
          /\ frame[f].pins = Cardinality(HoldersOf(handles, f)) + IF f \in Pending(w) THEN 1 ELSE 0
      BY FS_CardinalityType DEF SharedInv, Counted
    <3> QED
      BY <3>1, <3>2
  <2> QED
    BY <2>1, <2>2 DEF HandlesValid
<1> QED
  BY <1>1, SharedPoolInvariant, PTL

\* Whenever no call is under way, table, frames, pin counts and file agree.
THEOREM SharedPoolConsistent ==
  ASSUME NEW w, Writers = {w}, Warm = TRUE, MaxPages <= Capacity
  PROVE  Spec => []PoolConsistent
<1>1. SharedInv(w) => PoolConsistent
  <2> SUFFICES ASSUME SharedInv(w), \A t \in Threads : at[t] = "idle"
               PROVE  /\ \A p \in Pages, f \in Frames : table[p] = f <=> frame[f].page = p
                      /\ \A f \in Frames : frame[f].page # NoPage /\ ~frame[f].dirty
                           => disk[frame[f].page] = frame[f].data
                      /\ \A f \in Frames : frame[f].pins = Cardinality(Holders(f))
    BY DEF PoolConsistent
  <2>1. Pending(w) = {}
    BY ThreadsAssumption DEF Pending
  <2>2. ASSUME NEW f \in Frames PROVE frame[f].pins = Cardinality(Holders(f))
    <3>1. Holders(f) = HoldersOf(handles, f)
      BY DEF Holders, HoldersOf
    <3>2. /\ Cardinality(HoldersOf(handles, f)) \in Nat
          /\ frame[f].pins = Cardinality(HoldersOf(handles, f)) + 0
      BY <2>1, FS_CardinalityType DEF SharedInv, Counted
    <3> QED
      BY <3>1, <3>2
  <2>3. ASSUME NEW p \in Pages, NEW f \in Frames PROVE table[p] = f <=> frame[f].page = p
    BY <2>1 DEF SharedInv, PagesPlaced, Pages, Frames, NoPage
  <2> QED
    BY <2>2, <2>3 DEF SharedInv, FileAgrees
<1> QED
  BY <1>1, SharedPoolInvariant, PTL

\* flush_all, with readers pinning and unpinning all the while, returns only
\* when the file has every page.
THEOREM SharedFlushSaves ==
  ASSUME NEW w, Writers = {w}, Warm = TRUE, MaxPages <= Capacity
  PROVE  Spec => FlushAllSaves
<1>1. SharedInv(w) => FlushedAll
  <2> SUFFICES ASSUME SharedInv(w), NEW t \in Threads, FlushDone(t), NEW f \in Frames,
                      frame[f].page # NoPage
               PROVE  disk[frame[f].page] = frame[f].data
    BY DEF FlushedAll
  <2>1. t = w
    BY DEF FlushDone, SharedInv, OthersRead, Calm
  <2> QED
    BY <2>1 DEF FlushDone, SharedInv, Flushes, Saved
<1>2. SharedInv(w) /\ [Next]_vars => [FlushedAll]_vars
  BY <1>1
<1>3. Spec => [][FlushedAll]_vars
  BY <1>2, SharedPoolInvariant, PTL DEF Spec
<1> QED
  BY <1>3 DEF FlushAllSaves, FlushedAll

-----------------------------------------------------------------------------
(* The page store *)

\* No page is in two frames.
LEMMA SharedOnePlace ==
  ASSUME NEW w, SharedInv(w)
  PROVE  OnePlace(frame)
<1> SUFFICES ASSUME NEW f \in Frames, NEW g \in Frames, frame[f].page # NoPage,
                    frame[f].page = frame[g].page
             PROVE  f = g
  BY DEF OnePlace
<1>1. \A e \in Frames : e \in Pending(w) => e = op[w].frame /\ frame[e].page \notin known
  BY DEF SharedInv, Allocates, Pending
<1>2. \A e \in Frames : e \notin Pending(w) /\ frame[e].page # NoPage
                         => frame[e].page \in known /\ table[frame[e].page] = e
  BY DEF SharedInv, PagesPlaced
<1> QED
  BY <1>1, <1>2

\* An installed page has what is in the file.
LEMMA SharedInstallStep ==
  ASSUME NEW w, SharedInv(w), OnePlace(frame), OnePlace(frame'), Install(w)
  PROVE  View(frame', disk') = View(frame, disk) /\ disk' = disk
<1>f. PICK f, q, c : f = op[w].frame /\ q = op[w].page /\ c = op[w].data
  OBVIOUS
<1>1. /\ at[w] = "install" /\ f \in Frames /\ frame[f].page = NoPage /\ disk' = disk
      /\ q \in 1..npages /\ q \notin known /\ c = disk[q] /\ frame \in [Frames -> Frame]
  BY <1>f DEF Install, SharedInv, SharedTypes, Allocates
<1>2. q \in Pages
  BY <1>1, PagesAssumption DEF SharedInv, SharedTypes, Pages
<1>3. \A h \in Frames : frame[h].page # q
  BY <1>1, <1>2 DEF SharedInv, PagesPlaced, Pending, Pages, NoPage
<1>4. Shows(f, q, c)
  <2>1. frame' = [frame EXCEPT ![f].page = q, ![f].data = c, ![f].pins = @ + 1,
                               ![f].dirty = (op[w].kind = "new")]
    BY <1>f DEF Install
  <2>2. PICK n, d : n = frame[f].pins + 1 /\ d = (op[w].kind = "new")
    OBVIOUS
  <2>3. PICK g : g = [frame[f] EXCEPT !.page = q, !.data = c, !.pins = n, !.dirty = d]
    OBVIOUS
  <2>4. frame[f] \in Frame
    BY <1>1
  <2>5. g.page = q /\ g.data = c
    BY <2>3, <2>4 DEF Frame
  <2>6. frame' = [frame EXCEPT ![f] = g]
    BY <1>1, <2>1, <2>2, <2>3
  <2> QED
    BY <1>1, <2>5, <2>6 DEF Shows
<1> QED
  BY <1>1, <1>2, <1>3, <1>4, FilledView

\* A write changes one page.
LEMMA SharedWriteStep ==
  ASSUME NEW w, SharedInv(w), OnePlace(frame), OnePlace(frame'), WriteData(w)
  PROVE  \E p \in Pages, c \in 1..MaxWrites :
           View(frame', disk') = [View(frame, disk) EXCEPT ![p] = c] /\ disk' = disk
<1>f. PICK f, q, c : f = op[w].frame /\ q = frame[f].page /\ c = writes + 1
  OBVIOUS
<1>1. /\ f \in Frames /\ q # NoPage /\ c \in 1..MaxWrites /\ disk' = disk
      /\ frame \in [Frames -> Frame] /\ frame' = [frame EXCEPT ![f].data = c]
  <2>1. f \in Frames /\ q # NoPage /\ writes < MaxWrites
    BY <1>f DEF WriteData, SharedInv, Flushes
  <2>2. /\ writes \in 0..MaxWrites /\ frame \in [Frames -> Frame] /\ disk' = disk
        /\ frame' = [frame EXCEPT ![f].data = c]
    BY <1>f DEF WriteData, SharedInv, SharedTypes
  <2> QED
    BY <1>f, <2>1, <2>2, BoundsAssumption
<1>2. q \in Pages
  BY <1>f, <1>1, FrameFields
<1>3. Shows(f, q, c)
  <2>1. frame[f] \in Frame
    BY <1>1
  <2> QED
    BY <1>f, <1>1, <2>1 DEF Shows, Frame
<1>4. View(frame', disk') = [View(frame, disk) EXCEPT ![q] = c]
  <2>1. frame[f].page = q /\ f \in Frames /\ q \in Pages /\ disk' = disk
    BY <1>f, <1>1, <1>2
  <2> QED
    BY <1>3, <2>1, WrittenView
<1> QED
  BY <1>1, <1>2, <1>4

\* Every step of the pool is one of the page store, or none.
LEMMA SharedStoreStep ==
  ASSUME NEW w, Writers = {w}, MaxPages <= Capacity, SharedInv(w), OnePlace(frame),
         OnePlace(frame'), [Next]_vars
  PROVE  StoreStep
<1>1. Content = View(frame, disk) /\ Content' = View(frame', disk')
  BY DEF Content, View
<1>2. ASSUME disk' = disk,
             \A f \in Frames : frame'[f].page = frame[f].page /\ frame'[f].data = frame[f].data
      PROVE  StoreStep
  <2>1. View(frame', disk') = View(frame, disk)
    BY <1>2, ViewSame
  <2> QED
    BY <1>1, <1>2, <2>1 DEF StoreStep
<1>3. frame \in [Frames -> Frame] /\ w \in Threads
  BY ThreadsAssumption DEF SharedInv, SharedTypes
<1>4. ASSUME UNCHANGED <<frame, disk>> PROVE StoreStep
  BY <1>2, <1>4
<1>5. ASSUME NEW t, (\E p \in Pages : Pin(t, p)) \/ PinHit(t) \/ Unpin(t) \/ Enqueue(t)
      PROVE  StoreStep
  <2>1. CASE (\E p \in Pages : Pin(t, p)) \/ Enqueue(t)
    BY <1>4, <2>1 DEF Pin, Enqueue
  <2>2. CASE PinHit(t)
    <3>1. \A f \in Frames : frame'[f].page = frame[f].page /\ frame'[f].data = frame[f].data
      BY <1>3, <2>2 DEF PinHit, Frame
    <3> QED
      BY <1>2, <2>2, <3>1 DEF PinHit
  <2>3. CASE Unpin(t)
    <3>1. PICK h \in handles[t] :
            frame' = [frame EXCEPT ![h[2]].pins = IF @ > 0 THEN @ - 1 ELSE 0]
      BY <2>3 DEF Unpin
    <3>2. \A f \in Frames : frame'[f].page = frame[f].page /\ frame'[f].data = frame[f].data
      BY <1>3, <3>1 DEF Frame
    <3> QED
      BY <1>2, <2>3, <3>2 DEF Unpin
  <2> QED
    BY <1>5, <2>1, <2>2, <2>3
<1>6. ASSUME \/ NewPage(w) \/ FindFrame(w) \/ Load(w) \/ LoadFails(w) \/ Publish(w)
             \/ FlushAll(w) \/ FlushDone(w) \/ (\E p \in Pages : FlushLookup(w, p)) \/ FlushCopy(w)
      PROVE  StoreStep
  BY <1>4, <1>6 DEF NewPage, FindFrame, Load, LoadFails, Publish, FlushAll, FlushDone,
     FlushLookup,
                    FlushCopy
<1>7. ASSUME MarkDirty(w) PROVE StoreStep
  <2>1. PICK h \in handles[w] : frame' = [frame EXCEPT ![h[2]].dirty = TRUE]
    BY <1>7 DEF MarkDirty
  <2>2. \A f \in Frames : frame'[f].page = frame[f].page /\ frame'[f].data = frame[f].data
    BY <1>3, <2>1 DEF Frame
  <2> QED
    BY <1>2, <1>7, <2>2 DEF MarkDirty
<1>8. ASSUME FlushClean(w) PROVE StoreStep
  <2>1. \A f \in Frames : frame'[f].page = frame[f].page /\ frame'[f].data = frame[f].data
    BY <1>3, <1>8 DEF FlushClean, Frame
  <2> QED
    BY <1>2, <1>8, <2>1 DEF FlushClean
<1>9. ASSUME Install(w) \/ WriteData(w) PROVE StoreStep
  BY <1>1, <1>9, SharedInstallStep, SharedWriteStep DEF StoreStep
<1>10. ASSUME FlushWrite(w) PROVE StoreStep
  <2>f. PICK f, p : f = op[w].frame /\ p = op[w].page
    OBVIOUS
  <2>1. /\ at[w] = "out" /\ op[w].data = frame[f].data /\ frame' = frame
        /\ disk' = disk \/ disk' = [disk EXCEPT ![p] = frame[f].data]
    BY <1>10, <2>f DEF FlushWrite, SharedInv, Flushes
  <2>2. f \in Frames /\ p \in Pages /\ frame[f].page = p
    BY <1>3, <2>f, <2>1, FlushedFrame
  <2> QED
    BY <1>1, <1>4, <2>1, <2>2, WriteBackView DEF StoreStep
<1>11. ASSUME NEW t \in Threads, Call(t) \/ Run(t) PROVE StoreStep
  <2>1. CASE t # w
    BY <1>5, <1>11, <2>1, ReaderSteps
  <2>2. CASE t = w
    BY <1>3, <1>5, <1>6, <1>7, <1>8, <1>9, <1>10, <1>11, <2>2, WriterSteps
  <2> QED
    BY <2>1, <2>2
<1>12. CASE UNCHANGED vars
  BY <1>4, <1>12 DEF vars
<1> QED
  BY <1>11, <1>12 DEF Next

\* The pool starts as an empty page store.
LEMMA SharedInitStore ==
  ASSUME NEW w, w \in Threads, Warm = TRUE, Init
  PROVE  Store!Init
<1>1. SharedInv(w) /\ OnePlace(frame)
  BY SharedInit, SharedOnePlace
<1>2. Content = View(frame, disk)
  BY DEF Content, View
<1>3. /\ frame = [f \in Frames |-> IF f <= StartPages THEN [Empty EXCEPT !.page = f] ELSE Empty]
      /\ disk = [p \in Pages |-> 0]
  BY DEF Init
<1>4. \A f \in Frames : frame[f].data = 0
  BY <1>3 DEF Empty
<1>5. ASSUME NEW p \in Pages PROVE View(frame, disk)[p] = 0
  <2>1. disk[p] = 0
    BY <1>3
  <2>2. CASE \E f \in Frames : frame[f].page = p
    BY <1>1, <1>4, <2>2, ViewOf
  <2>3. CASE \A f \in Frames : frame[f].page # p
    BY <1>1, <2>1, <2>3, ViewOf
  <2> QED
    BY <2>2, <2>3
<1>6. View(frame, disk) = [p \in Pages |-> 0]
  BY <1>5 DEF View
<1> QED
  BY <1>2, <1>6 DEF Store!Init, Init

\* The shared pool implements the page store of PageStore.tla.
THEOREM SharedRefinesPageStore ==
  ASSUME NEW w, Writers = {w}, Warm = TRUE, MaxPages <= Capacity
  PROVE  Spec => ImplementsPageStore
<1>1. SharedInv(w) => OnePlace(frame)
  BY SharedOnePlace
<1>2. Init => Store!Init
  BY ThreadsAssumption, SharedInitStore
<1>3. ASSUME StoreStep PROVE [Store!Next]_(Store!vars)
  BY <1>3 DEF StoreStep, Store!Next, Store!vars, Store!Write, Store!WriteBack
<1>4. SharedInv(w) /\ OnePlace(frame) /\ OnePlace(frame)' /\ [Next]_vars
        => [Store!Next]_(Store!vars)
  BY <1>3, SharedStoreStep
<1> QED
  BY <1>1, <1>2, <1>4, SharedPoolInvariant, PTL DEF Spec, ImplementsPageStore, Store!Spec
=============================================================================
