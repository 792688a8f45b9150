------------------------------ MODULE PageState ------------------------------
(***************************************************************************)
(* PageState of src/storage/buffer_pool/page_state.rs: the state, the      *)
(* dirty flag and the version of a page in one atomic word.  Every         *)
(* operation loads the word, decides, and replaces it by compare-and-swap; *)
(* the two accesses are two steps here.  set_dirty, try_lock and           *)
(* unlock_to_marked try again if the swap fails, the others return false.  *)
(*                                                                         *)
(* Clients follow the protocol of the documentation: a thread unlocks or   *)
(* resets a page only while it holds the lock, changes the data only while *)
(* it holds the lock, and reads without the lock by loading the version,   *)
(* the state, the data and the version again.                              *)
(***************************************************************************)
EXTENDS Integers, FiniteSets

CONSTANTS
  Threads,      \* threads that lock, mark, evict and clean the page
  Readers,      \* threads that read optimistically
  VersionLimit  \* 2^56, the number of versions

ASSUME ThreadsAssumption == Threads \cap Readers = {}
ASSUME VersionAssumption == VersionLimit \in Nat /\ VersionLimit > 1

VARIABLES
  word,      \* the packed word: dirty, state, version
  call,      \* per thread, its operation and the word it loaded
  holders,   \* the threads whose lock succeeded and was not given back
  read,      \* per reader, where it is and what it loaded first
  bumps      \* per reader, version steps since its first load

vars == <<word, call, holders, read, bumps>>

\* PageStateValue
Unlocked == 0
Locked == 1
Marked == 2
Evicted == 3

Word == [dirty : BOOLEAN, state : 0 .. 3, version : 0 .. VersionLimit - 1]
Loops == {"try_lock", "unlock_to_marked", "set_dirty", "clear_dirty"}
Once == {"try_lock_from_evicted", "mark_to_unlocked", "try_evict"}
Ops == Loops \cup Once \cup {"reset"}

\* Seeded fault: the version is added to the state instead of or-ed.
JoinAdds(dirty, state, version) ==
  [dirty |-> dirty, state |-> IF version = VersionLimit THEN (state + 1) % 4 ELSE state,
   version |-> version % VersionLimit]

\* dirty | state << 56 | version: a version that has run over sets the lowest
\* bit of the state.
Join(dirty, state, version) ==
  [dirty |-> dirty,
   state |-> IF version = VersionLimit /\ state % 2 = 0 THEN state + 1 ELSE state,
   version |-> version % VersionLimit]

\* The states from which an operation goes on; any other returns false.
Allowed(op) ==
  CASE op = "try_lock_from_evicted" -> {Evicted}
    [] op = "try_lock" -> {Unlocked, Marked}
    [] op = "mark_to_unlocked" -> {Marked}
    [] op = "try_evict" -> {Marked, Unlocked}
    [] OTHER -> 0 .. 3

\* Seeded fault: taking the lock leaves the version as it is.
NewWordSameVersion(op, w) ==
  CASE op = "try_lock_from_evicted" -> Join(FALSE, Locked, w.version + 1)
    [] op = "try_lock" -> Join(w.dirty, Locked, w.version)
    [] op = "unlock_to_marked" -> Join(w.dirty, Marked, w.version)
    [] op = "mark_to_unlocked" -> Join(w.dirty, Unlocked, w.version)
    [] op \in {"try_evict", "reset"} -> Join(FALSE, Evicted, w.version + 1)
    [] op = "set_dirty" -> [w EXCEPT !.dirty = TRUE]
    [] OTHER -> [w EXCEPT !.dirty = FALSE]  \* clear_dirty

\* The word an operation puts in place of the one it loaded.
NewWord(op, w) ==
  CASE op = "try_lock_from_evicted" -> Join(FALSE, Locked, w.version + 1)
    [] op = "try_lock" -> Join(w.dirty, Locked, w.version + 1)
    [] op = "unlock_to_marked" -> Join(w.dirty, Marked, w.version)
    [] op = "mark_to_unlocked" -> Join(w.dirty, Unlocked, w.version)
    [] op \in {"try_evict", "reset"} -> Join(FALSE, Evicted, w.version + 1)
    [] op = "set_dirty" -> [w EXCEPT !.dirty = TRUE]
    [] OTHER -> [w EXCEPT !.dirty = FALSE]  \* clear_dirty

NewPage == [dirty |-> FALSE, state |-> Evicted, version |-> 0]
NoCall == [op |-> "none", old |-> NewPage]
NoRead == [at |-> "idle", version |-> 0, disturbed |-> FALSE]

Init ==
  /\ word = NewPage
  /\ call = [t \in Threads |-> NoCall]
  /\ holders = {}
  /\ read = [r \in Readers |-> NoRead]
  /\ bumps = [r \in Readers |-> 0]

\* What a client may call: a holder does not lock again, and unlocking and
\* resetting are for the holder.
MayCall(t, op) ==
  IF t \in holders THEN op \in {"unlock_to_marked", "reset", "set_dirty", "clear_dirty"}
  ELSE op \notin {"unlock_to_marked", "reset"}

\* An operation loads the word and returns at once if the state is wrong.
Load(t, op) ==
  /\ call[t] = NoCall /\ MayCall(t, op)
  /\ call' = [call EXCEPT ![t] =
                IF word.state \in Allowed(op) THEN [op |-> op, old |-> word] ELSE NoCall]
  /\ UNCHANGED <<word, holders, read, bumps>>

\* Who holds the lock after op of t went through.
HoldersAfter(t, op) ==
  CASE op \in {"try_lock", "try_lock_from_evicted"} -> holders \cup {t}
    [] op \in {"unlock_to_marked", "reset"} -> holders \ {t}
    [] OTHER -> holders

\* The word is replaced.  For the readers, version steps are counted up to
\* VersionLimit, where a version comes round again.
Replace(t) ==
  /\ word' = NewWord(call[t].op, call[t].old)
  /\ holders' = HoldersAfter(t, call[t].op)
  /\ bumps' = [r \in Readers |->
                IF read[r] # NoRead /\ word'.version # word.version /\ bumps[r] < VersionLimit
                THEN bumps[r] + 1 ELSE bumps[r]]
  /\ call' = [call EXCEPT ![t] = NoCall]

\* Seeded fault: the new word is stored whatever the word is now.
SwapStores(t) ==
  /\ call[t].op \in Loops \cup Once
  /\ Replace(t)
  /\ UNCHANGED read

\* compare_exchange that succeeds.
Swap(t) ==
  /\ call[t].op \in Loops \cup Once /\ word = call[t].old
  /\ Replace(t)
  /\ UNCHANGED read

\* Seeded fault: the loop tries again with the word it has.
RetrySameWord(t) ==
  /\ call[t].op \in Loops \cup Once /\ word # call[t].old
  /\ call' = [call EXCEPT ![t] = IF @.op \in Loops THEN @ ELSE NoCall]
  /\ UNCHANGED <<word, holders, read, bumps>>

\* compare_exchange that fails: a loop loads the word again.
Retry(t) ==
  /\ call[t].op \in Loops \cup Once /\ word # call[t].old
  /\ call' = [call EXCEPT ![t] =
                IF @.op \in Loops /\ word.state \in Allowed(@.op)
                THEN [@ EXCEPT !.old = word] ELSE NoCall]
  /\ UNCHANGED <<word, holders, read, bumps>>

\* reset stores without comparing.
Store(t) ==
  /\ call[t].op = "reset"
  /\ Replace(t)
  /\ UNCHANGED read

\* The holder changes the data of the page.
WriteData(t) ==
  /\ t \in holders /\ call[t] = NoCall
  /\ read' = [r \in Readers |-> [read[r] EXCEPT !.disturbed = @ \/ read[r].at = "data"]]
  /\ UNCHANGED <<word, call, holders, bumps>>

\* An optimistic reader: get_version, get_state, the data, get_version.
ReadVersion(r) ==
  /\ read[r].at = "idle"
  /\ read' = [read EXCEPT ![r] = [at |-> "state", version |-> word.version, disturbed |-> FALSE]]
  /\ bumps' = [bumps EXCEPT ![r] = 0]
  /\ UNCHANGED <<word, call, holders>>

ReadState(r) ==
  /\ read[r].at = "state"
  /\ read' = [read EXCEPT ![r] =
                IF word.state \in {Unlocked, Marked} THEN [@ EXCEPT !.at = "data"] ELSE NoRead]
  /\ UNCHANGED <<word, call, holders, bumps>>

Validate(r) ==
  /\ read[r].at = "data"
  /\ read' = [read EXCEPT ![r] =
                IF word.version = @.version THEN [@ EXCEPT !.at = "valid"] ELSE NoRead]
  /\ UNCHANGED <<word, call, holders, bumps>>

EndRead(r) ==
  /\ read[r].at = "valid"
  /\ read' = [read EXCEPT ![r] = NoRead]
  /\ bumps' = [bumps EXCEPT ![r] = 0]
  /\ UNCHANGED <<word, call, holders>>

InCall(t) == Swap(t) \/ Retry(t) \/ Store(t)
Thread(t) == InCall(t) \/ WriteData(t) \/ \E op \in Ops : Load(t, op)
Reader(r) == ReadVersion(r) \/ ReadState(r) \/ Validate(r) \/ EndRead(r)

Next ==
  \/ \E t \in Threads : Thread(t)
  \/ \E r \in Readers : Reader(r)

\* A thread that is inside an operation is scheduled again.
Spec == Init /\ [][Next]_vars /\ \A t \in Threads : WF_vars(InCall(t))

-----------------------------------------------------------------------------
(* Properties *)

\* Whatever operations overlap, at most one thread holds the lock of a page,
\* and while it does the word says Locked: no compare-and-swap on a stale word
\* and no version that runs over into the state bits gives the page away.
Exclusive ==
  /\ Cardinality(holders) <= 1
  /\ holders # {} => word.state = Locked

\* A reader that found the page readable and the version unchanged afterwards
\* read data nobody was changing, unless the version went all the way round in
\* between: locking raises the version before the data can change.
OptimisticReadSound ==
  \A r \in Readers :
    read[r].at = "valid" /\ bumps[r] < VersionLimit => ~read[r].disturbed

\* The dirty flag disappears only through an operation that clears it and that
\* saw it set, or through reset, which stores without comparing: locking,
\* unlocking, eviction and clear_dirty never wipe out a mark set after they
\* loaded the word.
DirtyNeverOverwritten ==
  [][word.dirty /\ ~word'.dirty =>
       \E t \in Threads :
         /\ call[t] # NoCall /\ call'[t] = NoCall
         /\ \/ call[t].op = "reset"
            \/ /\ call[t].op \in {"clear_dirty", "try_evict", "try_lock_from_evicted"}
               /\ call[t].old.dirty]_vars

\* The retry loops are lock free: an operation runs on for ever only if the
\* word changes for ever, that is, if others keep succeeding.
LockFree ==
  <>[][FALSE]_word => \A t \in Threads : call[t] # NoCall ~> call[t] = NoCall
=============================================================================
