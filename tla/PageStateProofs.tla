--------------------------- MODULE PageStateProofs ---------------------------
(***************************************************************************)
(* Theorems about PageState.tla, for any number of threads, readers and    *)
(* versions: mutual exclusion, dirty marks that are never overwritten, and *)
(* optimistic reads that validate only what nobody was changing.           *)
(***************************************************************************)
EXTENDS PageState, FiniteSetTheorems, TLAPS

Locking == {"try_lock", "try_lock_from_evicted"}
Releasing == {"unlock_to_marked", "reset"}

\* The call of a thread has a word, and its operation accepted the state of it.
CallOK ==
  call \in [Threads -> [op : Ops \cup {"none"}, old : Word]]

CallsAccepted ==
  \A t \in Threads : call[t].op \in Ops => call[t].old.state \in Allowed(call[t].op)

\* Only a holder is inside an operation that gives the lock back.
ReleasersHold ==
  \A t \in Threads : call[t].op \in Releasing => t \in holders

\* One holder at most, and none unless the word says Locked.
OneHolder ==
  /\ holders \subseteq Threads
  /\ \A t, u \in holders : t = u
  /\ holders # {} => word.state = Locked

ExclusiveInv == word \in Word /\ CallOK /\ CallsAccepted /\ ReleasersHold /\ OneHolder

-----------------------------------------------------------------------------

\* Packing gives a word again, whatever the version: a version that runs over
\* touches the state only if its lowest bit is clear.
LEMMA JoinIsWord ==
  ASSUME NEW dirty \in BOOLEAN, NEW state \in 0 .. 3, NEW version \in 0 .. VersionLimit
  PROVE  /\ Join(dirty, state, version) \in Word
         /\ state = Locked => Join(dirty, state, version).state = Locked
<1>1. version % VersionLimit \in 0 .. VersionLimit - 1
  BY VersionAssumption
<1>2. CASE state % 2 = 0
  BY <1>1, <1>2 DEF Join, Word, Locked
<1>3. CASE state % 2 # 0
  BY <1>1, <1>3 DEF Join, Word, Locked
<1> QED
  BY <1>2, <1>3

\* The new word of an operation: a word, Locked if the operation takes the
\* lock, and of the same state if it only sets or clears the dirty flag.
LEMMA NewWordIsWord ==
  ASSUME NEW op \in Ops, NEW w \in Word
  PROVE  /\ NewWord(op, w) \in Word
         /\ op \in Locking => NewWord(op, w).state = Locked
         /\ op \in {"set_dirty", "clear_dirty"} => NewWord(op, w).state = w.state
<1>1. /\ w.version \in 0 .. VersionLimit /\ w.version + 1 \in 0 .. VersionLimit
      /\ w.dirty \in BOOLEAN /\ w.state \in 0 .. 3 /\ FALSE \in BOOLEAN
  BY VersionAssumption DEF Word
<1>2. Locked \in 0 .. 3 /\ Marked \in 0 .. 3 /\ Unlocked \in 0 .. 3 /\ Evicted \in 0 .. 3
  BY DEF Locked, Marked, Unlocked, Evicted
<1>3. CASE op = "try_lock_from_evicted"
  BY <1>1, <1>2, <1>3, JoinIsWord DEF NewWord
<1>4. CASE op = "try_lock"
  BY <1>1, <1>2, <1>4, JoinIsWord DEF NewWord
<1>5. CASE op = "unlock_to_marked"
  BY <1>1, <1>2, <1>5, JoinIsWord DEF NewWord, Locking
<1>6. CASE op = "mark_to_unlocked"
  BY <1>1, <1>2, <1>6, JoinIsWord DEF NewWord, Locking
<1>7. CASE op \in {"try_evict", "reset"}
  BY <1>1, <1>2, <1>7, JoinIsWord DEF NewWord, Locking
<1>8. CASE op \in {"set_dirty", "clear_dirty"}
  BY <1>8 DEF NewWord, Locking, Word
<1> QED
  BY <1>3, <1>4, <1>5, <1>6, <1>7, <1>8 DEF Ops, Loops, Once

\* A new page is held by nobody.
LEMMA InitExclusive == Init => ExclusiveInv
<1> SUFFICES ASSUME Init PROVE ExclusiveInv
  OBVIOUS
<1>1. NewPage \in Word
  BY VersionAssumption DEF NewPage, Word, Evicted
<1>2. "none" \notin Ops
  BY DEF Ops, Loops, Once
<1> QED
  BY <1>1, <1>2 DEF Init, ExclusiveInv, CallOK, CallsAccepted, ReleasersHold, OneHolder,
                    NoCall, Ops, Loops, Once, Releasing

\* The word is replaced by a thread whose operation still applies to it: a
\* compare-and-swap that found the word it had loaded, or a reset by the holder.
LEMMA ReplaceExclusive ==
  ASSUME ExclusiveInv, NEW t \in Threads, Replace(t), call[t].op \in Ops,
         call[t].op # "reset" => word = call[t].old
  PROVE  ExclusiveInv'
<1> DEFINE op == call[t].op
           w == call[t].old
<1>1. w \in Word /\ w.state \in Allowed(op)
  BY DEF ExclusiveInv, CallOK, CallsAccepted
<1>2. /\ word' \in Word
      /\ op \in Locking => word'.state = Locked
      /\ op \in {"set_dirty", "clear_dirty"} => word'.state = w.state
  BY <1>1, NewWordIsWord DEF Replace
<1>3. NewPage \in Word /\ "none" \notin Ops /\ NoCall.op = "none" /\ NoCall.old = NewPage
  BY VersionAssumption DEF NewPage, Word, Evicted, NoCall, Ops, Loops, Once
<1>4. NoCall \in [op : Ops \cup {"none"}, old : Word]
  BY <1>3 DEF NoCall
<1>5. CallOK' /\ CallsAccepted'
  BY <1>3, <1>4 DEF Replace, ExclusiveInv, CallOK, CallsAccepted
<1>6. \A u \in Threads : u # t => call'[u] = call[u] /\ (u \in holders => u \in holders')
  BY DEF Replace, HoldersAfter, ExclusiveInv, CallOK
<1>7. ReleasersHold'
  BY <1>3, <1>6 DEF Replace, ExclusiveInv, CallOK, ReleasersHold, Releasing
<1>8. OneHolder'
  <2>1. CASE op \in Locking
    <3>1. holders = {}
      BY <1>1, <2>1 DEF ExclusiveInv, OneHolder, Locking, Allowed, Locked, Unlocked, Marked,
                        Evicted
    <3> QED
      BY <1>2, <2>1, <3>1 DEF Replace, HoldersAfter, OneHolder, Locking
  <2>2. CASE op \in Releasing
    <3>1. t \in holders
      BY <2>2 DEF ExclusiveInv, ReleasersHold
    <3>2. holders' = {}
      BY <2>2, <3>1 DEF Replace, HoldersAfter, Releasing, ExclusiveInv, OneHolder
    <3> QED
      BY <3>2 DEF OneHolder
  <2>3. CASE op \in {"set_dirty", "clear_dirty"}
    BY <1>2, <2>3 DEF Replace, HoldersAfter, ExclusiveInv, OneHolder
  <2>4. CASE op \in {"mark_to_unlocked", "try_evict"}
    <3>1. holders = {}
      BY <1>1, <2>4 DEF ExclusiveInv, OneHolder, Allowed, Locked, Unlocked, Marked
    <3>2. holders' = {}
      BY <2>4, <3>1 DEF Replace, HoldersAfter
    <3> QED
      BY <3>2 DEF OneHolder
  <2> QED
    BY <2>1, <2>2, <2>3, <2>4 DEF Ops, Loops, Once, Locking, Releasing
<1> QED
  BY <1>2, <1>5, <1>7, <1>8 DEF ExclusiveInv

\* A step changes the call of one thread and leaves the page alone.
LEMMA CallExclusive ==
  ASSUME ExclusiveInv, NEW t \in Threads, UNCHANGED <<word, holders>>,
         NEW c \in [op : Ops \cup {"none"}, old : Word], call' = [call EXCEPT ![t] = c],
         c.op \in Ops => c.old.state \in Allowed(c.op),
         c.op \in Releasing => t \in holders
  PROVE  ExclusiveInv'
BY DEF ExclusiveInv, CallOK, CallsAccepted, ReleasersHold, OneHolder

\* Every step keeps the lock exclusive.
LEMMA NextExclusive == ExclusiveInv /\ [Next]_vars => ExclusiveInv'
<1> SUFFICES ASSUME ExclusiveInv, [Next]_vars PROVE ExclusiveInv'
  OBVIOUS
<1>1. NoCall \in [op : Ops \cup {"none"}, old : Word] /\ NoCall.op = "none"
  BY VersionAssumption DEF NoCall, NewPage, Word, Evicted
<1>2. "none" \notin Ops /\ "none" \notin Releasing
  BY DEF Ops, Loops, Once, Releasing
<1>3. Loops \cup Once \subseteq Ops /\ "reset" \in Ops /\ "reset" \notin Loops \cup Once
  BY DEF Ops, Loops, Once
<1>4. ASSUME NEW t \in Threads, NEW op \in Ops, Load(t, op) PROVE ExclusiveInv'
  <2>1. CASE word.state \in Allowed(op)
    <3> DEFINE c == [op |-> op, old |-> word]
    <3>1. c \in [op : Ops \cup {"none"}, old : Word] /\ c.op = op /\ c.old = word
      BY DEF ExclusiveInv
    <3>2. op \in Releasing => t \in holders
      BY <1>4 DEF Load, MayCall, Releasing
    <3>3. call' = [call EXCEPT ![t] = c] /\ UNCHANGED <<word, holders>>
      BY <1>4, <2>1 DEF Load
    <3> HIDE DEF c
    <3> QED
      BY <2>1, <3>1, <3>2, <3>3, CallExclusive
  <2>2. CASE word.state \notin Allowed(op)
    <3>1. call' = [call EXCEPT ![t] = NoCall] /\ UNCHANGED <<word, holders>>
      BY <1>4, <2>2 DEF Load
    <3> QED
      BY <1>1, <1>2, <3>1, CallExclusive
  <2> QED
    BY <2>1, <2>2
<1>5. ASSUME NEW t \in Threads, Swap(t) PROVE ExclusiveInv'
  BY <1>3, <1>5, ReplaceExclusive DEF Swap
<1>6. ASSUME NEW t \in Threads, Retry(t) PROVE ExclusiveInv'
  <2>1. CASE call[t].op \in Loops /\ word.state \in Allowed(call[t].op)
    <3> DEFINE c == [call[t] EXCEPT !.old = word]
    <3>1. /\ c \in [op : Ops \cup {"none"}, old : Word]
          /\ c.op = call[t].op /\ c.old = word
      BY DEF ExclusiveInv, CallOK
    <3>2. c.op \in Releasing => t \in holders
      BY <3>1 DEF ExclusiveInv, ReleasersHold
    <3>3. call' = [call EXCEPT ![t] = c] /\ UNCHANGED <<word, holders>>
      BY <1>6, <2>1 DEF Retry, ExclusiveInv, CallOK
    <3> HIDE DEF c
    <3> QED
      BY <2>1, <3>1, <3>2, <3>3, CallExclusive
  <2>2. CASE ~(call[t].op \in Loops /\ word.state \in Allowed(call[t].op))
    <3>1. call' = [call EXCEPT ![t] = NoCall] /\ UNCHANGED <<word, holders>>
      BY <1>6, <2>2 DEF Retry, ExclusiveInv, CallOK
    <3> QED
      BY <1>1, <1>2, <3>1, CallExclusive
  <2> QED
    BY <2>1, <2>2
<1>7. ASSUME NEW t \in Threads, Store(t) PROVE ExclusiveInv'
  BY <1>3, <1>7, ReplaceExclusive DEF Store
<1>8. ASSUME UNCHANGED <<word, call, holders>> PROVE ExclusiveInv'
  BY <1>8 DEF ExclusiveInv, CallOK, CallsAccepted, ReleasersHold, OneHolder
<1>9. ASSUME NEW r \in Readers, Reader(r) PROVE UNCHANGED <<word, call, holders>>
  BY <1>9 DEF Reader, ReadVersion, ReadState, Validate, EndRead
<1>10. ASSUME NEW t \in Threads, WriteData(t) PROVE UNCHANGED <<word, call, holders>>
  BY <1>10 DEF WriteData
<1> QED
  BY <1>4, <1>5, <1>6, <1>7, <1>8, <1>9, <1>10 DEF Next, Thread, InCall, vars

\* One holder at most, counted.
LEMMA OneHolderCounted == OneHolder => Exclusive
<1> SUFFICES ASSUME OneHolder PROVE Cardinality(holders) <= 1
  BY DEF OneHolder, Exclusive
<1>1. CASE holders = {}
  BY <1>1, FS_EmptySet
<1>2. CASE holders # {}
  <2>1. PICK t : t \in holders
    BY <1>2
  <2>2. holders = {t}
    BY <2>1 DEF OneHolder
  <2>3. Cardinality({t}) = 1
    BY FS_Singleton
  <2> QED
    BY <2>2, <2>3
<1> QED
  BY <1>1, <1>2

\* Whatever operations of page_state.rs overlap, at most one thread holds the
\* lock of the page and the word then says Locked, for any number of threads
\* and versions.
THEOREM MutualExclusion == Spec => []Exclusive
<1>1. ExclusiveInv => Exclusive
  BY OneHolderCounted DEF ExclusiveInv
<1> QED
  BY InitExclusive, NextExclusive, <1>1, PTL DEF Spec

-----------------------------------------------------------------------------

\* Operations other than these four keep the dirty flag of the word they loaded.
Cleaning == {"clear_dirty", "try_evict", "try_lock_from_evicted", "reset"}

\* Only the operations that clean a page clear its dirty mark.
LEMMA NewWordDirty ==
  ASSUME NEW op \in Ops, NEW w \in Word, w.dirty, op \notin Cleaning
  PROVE  NewWord(op, w).dirty
<1>1. CASE op \in {"try_lock", "unlock_to_marked", "mark_to_unlocked"}
  BY <1>1 DEF NewWord, Join
<1>2. CASE op = "set_dirty"
  BY <1>2 DEF NewWord, Word
<1> QED
  BY <1>1, <1>2 DEF Ops, Loops, Once, Cleaning

\* A step that clears the dirty flag is the end of an operation that is meant
\* to, and that saw the flag unless it is reset.
DirtyCleared ==
  \E t \in Threads :
    /\ call[t] # NoCall /\ call'[t] = NoCall
    /\ \/ call[t].op = "reset"
       \/ /\ call[t].op \in {"clear_dirty", "try_evict", "try_lock_from_evicted"}
          /\ call[t].old.dirty

\* A dirty mark that goes was cleared by an operation that read it.
LEMMA NextKeepsDirty ==
  ASSUME ExclusiveInv, [Next]_vars, word.dirty, ~word'.dirty
  PROVE  DirtyCleared
<1>1. word' # word
  OBVIOUS
<1>2. PICK t \in Threads : Swap(t) \/ Store(t)
  BY <1>1 DEF Next, vars, Thread, InCall, Reader, Load, Retry, WriteData, ReadVersion,
              ReadState, Validate, EndRead
<1>3. /\ call[t].op \in Ops /\ call[t].old \in Word
      /\ word' = NewWord(call[t].op, call[t].old)
      /\ call' = [call EXCEPT ![t] = NoCall]
  BY <1>2 DEF Swap, Store, Replace, ExclusiveInv, CallOK, Ops
<1>4. call[t] # NoCall /\ call'[t] = NoCall
  BY <1>3 DEF NoCall, Ops, Loops, Once, ExclusiveInv, CallOK
<1>5. CASE call[t].op = "reset"
  BY <1>4, <1>5 DEF DirtyCleared
<1>6. CASE call[t].op # "reset"
  <2>1. word = call[t].old
    BY <1>2, <1>6 DEF Swap, Store
  <2>2. call[t].old.dirty
    BY <2>1
  <2>3. call[t].op \in Cleaning
    BY <1>3, <2>2, NewWordDirty
  <2> QED
    BY <1>4, <1>6, <2>2, <2>3 DEF DirtyCleared, Cleaning
<1> QED
  BY <1>5, <1>6

\* A dirty mark is never wiped out by an operation that loaded the word before
\* the mark was set, for any number of threads and versions.
THEOREM DirtyMarksKept == Spec => DirtyNeverOverwritten
<1>1. ExclusiveInv /\ [Next]_vars
        => [word.dirty /\ ~word'.dirty => DirtyCleared]_vars
  BY NextKeepsDirty
<1>2. Spec => [][word.dirty /\ ~word'.dirty => DirtyCleared]_vars
  BY InitExclusive, NextExclusive, <1>1, PTL DEF Spec
<1> QED
  BY <1>2 DEF DirtyNeverOverwritten, DirtyCleared
-----------------------------------------------------------------------------

\* What the optimistic readers have, and how many version steps they counted.
ReadOK ==
  /\ read \in [Readers -> [at : {"idle", "state", "data", "valid"},
                           version : 0 .. VersionLimit - 1, disturbed : BOOLEAN]]
  /\ bumps \in [Readers -> 0 .. VersionLimit]

\* A reset stores the version after the one in the word: while its thread holds
\* the lock, the others can change the dirty flag and nothing else.
ResetFresh ==
  \A t \in Threads : call[t].op = "reset" => call[t].old.version = word.version

\* Version w is n steps after version v, once round at most.
StepsOn(v, n, w) == w = v + n \/ w = v + n - VersionLimit

\* Until it validates, a reader knows how far the version has come, unless it
\* went all the way round.
VersionsCounted ==
  \A r \in Readers :
    read[r].at \in {"state", "data"} /\ bumps[r] < VersionLimit
      => StepsOn(read[r].version, bumps[r], word.version)

\* Somebody who can change the data, or did, raised the version after the reader
\* found the page readable.
DisturbedLate ==
  \A r \in Readers :
    /\ read[r].at = "state" => ~read[r].disturbed
    /\ read[r].at = "data" /\ (read[r].disturbed \/ holders # {}) => bumps[r] >= 1

ReadInv ==
  /\ ExclusiveInv /\ ReadOK /\ ResetFresh
  /\ VersionsCounted /\ DisturbedLate /\ OptimisticReadSound

\* A version that is less than VersionLimit steps from itself is none from it.
LEMMA StepsOnSame ==
  ASSUME NEW v, v \in 0 .. VersionLimit - 1, NEW n, n \in 0 .. VersionLimit,
         n < VersionLimit, StepsOn(v, n, v)
  PROVE  n = 0
BY VersionAssumption DEF StepsOn

\* The version after v, which comes round to 0.
NextVersion(v) == IF v + 1 = VersionLimit THEN 0 ELSE v + 1

\* An operation keeps the version or goes one on, and taking the lock goes on.
LEMMA NewWordVersion ==
  ASSUME NEW op \in Ops, NEW w \in Word
  PROVE  /\ \/ NewWord(op, w).version = w.version
            \/ NewWord(op, w).version = NextVersion(w.version)
         /\ op \in Locking => NewWord(op, w).version = NextVersion(w.version)
         /\ op \notin Locking \cup {"try_evict", "reset"}
              => NewWord(op, w).version = w.version
<1>1. w.version \in 0 .. VersionLimit - 1
  BY DEF Word
<1>2. w.version % VersionLimit = w.version
  BY <1>1, VersionAssumption
<1>3. (w.version + 1) % VersionLimit = NextVersion(w.version)
  <2>1. CASE w.version + 1 = VersionLimit
    BY <2>1, VersionAssumption DEF NextVersion
  <2>2. CASE w.version + 1 # VersionLimit
    BY <1>1, <2>2, VersionAssumption DEF NextVersion
  <2> QED
    BY <2>1, <2>2
<1>4. \A d, s : /\ Join(d, s, w.version).version = w.version
                /\ Join(d, s, w.version + 1).version = NextVersion(w.version)
  BY <1>2, <1>3 DEF Join
<1>5. CASE op \in Locking
  BY <1>4, <1>5 DEF NewWord, Locking
<1>6. CASE op \in {"unlock_to_marked", "mark_to_unlocked"}
  BY <1>4, <1>6 DEF NewWord, Locking
<1>7. CASE op \in {"try_evict", "reset"}
  BY <1>4, <1>7 DEF NewWord, Locking
<1>8. CASE op \in {"set_dirty", "clear_dirty"}
  BY <1>8 DEF NewWord, Locking, Word
<1> QED
  BY <1>5, <1>6, <1>7, <1>8 DEF Ops, Loops, Once, Locking

\* No read has begun.
LEMMA InitRead == Init => ReadInv
<1> SUFFICES ASSUME Init PROVE ReadInv
  OBVIOUS
<1>1. ReadOK
  BY VersionAssumption DEF Init, ReadOK, NoRead
<1>2. ResetFresh /\ VersionsCounted /\ DisturbedLate /\ OptimisticReadSound
  BY DEF Init, NoCall, NoRead, ResetFresh, VersionsCounted, DisturbedLate,
         OptimisticReadSound
<1> QED
  BY <1>1, <1>2, InitExclusive DEF ReadInv

\* The readers' counts follow the word, and whoever takes the lock raises them.
LEMMA ReplaceRead ==
  ASSUME ReadInv, ExclusiveInv', NEW t \in Threads, Replace(t), UNCHANGED read,
         call[t].op \in Ops, call[t].op # "reset" => word = call[t].old
  PROVE  ReadInv'
<1> DEFINE op == call[t].op
           w == call[t].old
<1>1. w \in Word /\ w.state \in Allowed(op) /\ w.version = word.version
  BY DEF ReadInv, ExclusiveInv, CallOK, CallsAccepted, ResetFresh
<1>2. /\ word.version \in 0 .. VersionLimit - 1
      /\ word'.version = word.version \/ word'.version = NextVersion(word.version)
      /\ op \in Locking => word'.version = NextVersion(word.version)
      /\ op \notin Locking \cup {"try_evict", "reset"} => word'.version = word.version
  BY <1>1, NewWordVersion DEF Replace, Word
<1>3. NextVersion(word.version) # word.version
  BY <1>2, VersionAssumption DEF NextVersion
<1>4. /\ bumps \in [Readers -> 0 .. VersionLimit]
      /\ bumps' = [r \in Readers |->
                    IF read[r] # NoRead /\ word'.version # word.version
                         /\ bumps[r] < VersionLimit
                    THEN bumps[r] + 1 ELSE bumps[r]]
      /\ read' = read
  BY DEF Replace, ReadInv, ReadOK
<1>5. ReadOK'
  BY <1>4, VersionAssumption DEF ReadInv, ReadOK
<1>6. ResetFresh'
  <2>1. SUFFICES ASSUME NEW u \in Threads, call'[u].op = "reset"
                 PROVE  call'[u].old.version = word'.version
    BY DEF ResetFresh
  <2>2. u # t /\ call'[u] = call[u]
    BY <2>1 DEF Replace, NoCall, ReadInv, ExclusiveInv, CallOK
  <2>3. u \in holders /\ call[u].old.version = word.version
    BY <2>1, <2>2 DEF ReadInv, ExclusiveInv, ReleasersHold, Releasing, ResetFresh
  <2>4. t \notin holders /\ word.state = Locked
    BY <2>2, <2>3 DEF ReadInv, ExclusiveInv, OneHolder
  <2>5. op \notin Releasing
    BY <2>4 DEF ReadInv, ExclusiveInv, ReleasersHold
  <2>6. op \notin Locking \cup {"try_evict"}
    BY <1>1, <2>4, <2>5 DEF Locking, Releasing, Allowed, Locked, Unlocked, Marked, Evicted
  <2> QED
    BY <1>2, <2>2, <2>3, <2>5, <2>6 DEF Releasing
<1>7. ASSUME NEW r \in Readers, read[r].at # "idle"
      PROVE  /\ word'.version # word.version /\ bumps[r] < VersionLimit
                 => bumps'[r] = bumps[r] + 1
             /\ word'.version = word.version \/ bumps[r] >= VersionLimit
                 => bumps'[r] = bumps[r]
  <2>1. NoRead.at = "idle" /\ bumps[r] \in 0 .. VersionLimit
    BY <1>4 DEF NoRead
  <2>2. read[r] # NoRead
    BY <1>7, <2>1
  <2> QED
    BY <1>4, <2>1, <2>2, VersionAssumption
<1>8. VersionsCounted'
  <2>1. SUFFICES ASSUME NEW r \in Readers, read[r].at \in {"state", "data"},
                        bumps'[r] < VersionLimit
                 PROVE  StepsOn(read[r].version, bumps'[r], word'.version)
    BY <1>4 DEF VersionsCounted
  <2>2. bumps[r] \in 0 .. VersionLimit /\ read[r].version \in 0 .. VersionLimit - 1
    BY DEF ReadInv, ReadOK
  <2>3. bumps[r] < VersionLimit
    BY <1>7, <2>1, <2>2, VersionAssumption
  <2>4. StepsOn(read[r].version, bumps[r], word.version)
    BY <2>1, <2>3 DEF ReadInv, VersionsCounted
  <2>5. CASE word'.version = word.version
    BY <1>7, <2>1, <2>4, <2>5
  <2>6. CASE word'.version # word.version
    <3>1. bumps'[r] = bumps[r] + 1 /\ word'.version = NextVersion(word.version)
      BY <1>2, <1>7, <2>1, <2>3, <2>6
    <3> QED
      BY <1>2, <2>1, <2>2, <2>4, <3>1, VersionAssumption DEF StepsOn, NextVersion
  <2> QED
    BY <2>5, <2>6
<1>9. DisturbedLate'
  <2>1. SUFFICES ASSUME NEW r \in Readers, read[r].at = "data",
                        read[r].disturbed \/ holders' # {}
                 PROVE  bumps'[r] >= 1
    BY <1>4 DEF ReadInv, DisturbedLate
  <2>2. bumps[r] \in 0 .. VersionLimit
    BY DEF ReadInv, ReadOK
  <2>3. CASE op \in Locking
    BY <1>2, <1>3, <1>7, <2>1, <2>2, <2>3, VersionAssumption
  <2>4. CASE op \notin Locking
    <3>1. holders' \subseteq holders
      BY <2>4 DEF Replace, HoldersAfter, Locking
    <3>2. bumps[r] >= 1
      BY <2>1, <3>1 DEF ReadInv, DisturbedLate
    <3> QED
      BY <1>7, <2>1, <2>2, <3>2, VersionAssumption
  <2> QED
    BY <2>3, <2>4
<1>10. OptimisticReadSound'
  <2>1. SUFFICES ASSUME NEW r \in Readers, read[r].at = "valid", bumps'[r] < VersionLimit
                 PROVE  ~read[r].disturbed
    BY <1>4 DEF OptimisticReadSound
  <2>2. bumps[r] < VersionLimit
    <3>1. bumps[r] \in 0 .. VersionLimit
      BY DEF ReadInv, ReadOK
    <3> QED
      BY <1>7, <2>1, <3>1, VersionAssumption
  <2> QED
    BY <2>1, <2>2 DEF ReadInv, OptimisticReadSound
<1> QED
  BY <1>5, <1>6, <1>8, <1>9, <1>10 DEF ReadInv

\* A call that begins, fails or is tried again changes nothing a reader sees.
LEMMA CallRead ==
  ASSUME ReadInv, ExclusiveInv', UNCHANGED <<word, holders, read, bumps>>, NEW t \in Threads,
         \A u \in Threads : u # t => call'[u] = call[u],
         call'[t].op = "reset" => call'[t].old.version = word.version
  PROVE  ReadInv'
<1>1. ResetFresh'
  BY DEF ReadInv, ResetFresh
<1> QED
  BY <1>1 DEF ReadInv, ReadOK, VersionsCounted, DisturbedLate, OptimisticReadSound

\* One reader moves on.
LEMMA ReaderRead ==
  ASSUME ReadInv, NEW r \in Readers, Reader(r)
  PROVE  ReadInv'
<1>1. /\ UNCHANGED <<word, call, holders>>
      /\ \A q \in Readers \ {r} : read'[q] = read[q] /\ bumps'[q] = bumps[q]
  BY DEF Reader, ReadVersion, ReadState, Validate, EndRead, ReadInv, ReadOK
<1>2. ExclusiveInv' /\ ResetFresh'
  BY <1>1 DEF ReadInv, ExclusiveInv, CallOK, CallsAccepted, ReleasersHold, OneHolder,
              ResetFresh
<1>3. /\ word.version \in 0 .. VersionLimit - 1
      /\ read[r] \in [at : {"idle", "state", "data", "valid"},
                      version : 0 .. VersionLimit - 1, disturbed : BOOLEAN]
      /\ bumps[r] \in 0 .. VersionLimit
  BY DEF ReadInv, ReadOK, ExclusiveInv, Word
<1>4. ReadOK'
  <2> DEFINE Reads == [at : {"idle", "state", "data", "valid"},
                       version : 0 .. VersionLimit - 1, disturbed : BOOLEAN]
  <2>1. NoRead \in Reads /\ 0 \in 0 .. VersionLimit
    BY VersionAssumption DEF NoRead
  <2>2. /\ [at |-> "state", version |-> word.version, disturbed |-> FALSE] \in Reads
        /\ [read[r] EXCEPT !.at = "data"] \in Reads
        /\ [read[r] EXCEPT !.at = "valid"] \in Reads
    BY <1>3
  <2>3. read \in [Readers -> Reads] /\ bumps \in [Readers -> 0 .. VersionLimit]
    BY DEF ReadInv, ReadOK
  <2> HIDE DEF Reads
  <2>4. \E v \in Reads : read' = [read EXCEPT ![r] = v]
    BY <2>1, <2>2, <2>3 DEF Reader, ReadVersion, ReadState, Validate, EndRead
  <2>5. bumps' = bumps \/ bumps' = [bumps EXCEPT ![r] = 0]
    BY DEF Reader, ReadVersion, ReadState, Validate, EndRead
  <2>6. read' \in [Readers -> Reads] /\ bumps' \in [Readers -> 0 .. VersionLimit]
    BY <2>1, <2>3, <2>4, <2>5
  <2> QED
    BY <2>6 DEF ReadOK, Reads
<1>5. /\ read'[r].at \in {"state", "data"} /\ bumps'[r] < VersionLimit
           => StepsOn(read'[r].version, bumps'[r], word'.version)
      /\ read'[r].at = "state" => ~read'[r].disturbed
      /\ read'[r].at = "data" /\ (read'[r].disturbed \/ holders' # {}) => bumps'[r] >= 1
      /\ read'[r].at = "valid" /\ bumps'[r] < VersionLimit => ~read'[r].disturbed
  <2> USE <1>1, <1>3 DEF ReadInv, ReadOK
  <2>1. CASE ReadVersion(r)
    <3>1. /\ read'[r] = [at |-> "state", version |-> word.version, disturbed |-> FALSE]
          /\ bumps'[r] = 0
      BY <2>1 DEF ReadVersion
    <3> QED
      BY <3>1 DEF StepsOn
  <2>2. CASE ReadState(r)
    <3>1. CASE word.state \in {Unlocked, Marked}
      <4>1. read'[r] = [read[r] EXCEPT !.at = "data"] /\ bumps'[r] = bumps[r]
        BY <2>2, <3>1 DEF ReadState
      <4>2. /\ read'[r].at = "data" /\ read'[r].version = read[r].version
            /\ read'[r].disturbed = read[r].disturbed /\ read[r].at = "state"
        BY <2>2, <4>1 DEF ReadState
      <4>3. holders = {}
        BY <3>1 DEF ExclusiveInv, OneHolder, Locked, Unlocked, Marked
      <4>4. ~read[r].disturbed
        BY <4>2 DEF DisturbedLate
      <4>5. bumps[r] < VersionLimit => StepsOn(read[r].version, bumps[r], word.version)
        BY <4>2 DEF VersionsCounted
      <4> QED
        BY <4>1, <4>2, <4>3, <4>4, <4>5
    <3>2. CASE word.state \notin {Unlocked, Marked}
      BY <2>2, <3>2 DEF ReadState, NoRead
    <3> QED
      BY <3>1, <3>2
  <2>3. CASE Validate(r)
    <3>1. CASE word.version = read[r].version
      <4>1. read'[r] = [read[r] EXCEPT !.at = "valid"] /\ bumps'[r] = bumps[r]
        BY <2>3, <3>1 DEF Validate
      <4>2. /\ read'[r].at = "valid" /\ read'[r].disturbed = read[r].disturbed
            /\ read[r].at = "data"
        BY <2>3, <4>1 DEF Validate
      <4>3. ASSUME bumps[r] < VersionLimit PROVE bumps[r] = 0
        <5>1. StepsOn(read[r].version, bumps[r], read[r].version)
          BY <3>1, <4>2, <4>3 DEF VersionsCounted
        <5>2. read[r].version \in 0 .. VersionLimit - 1 /\ bumps[r] \in 0 .. VersionLimit
          BY <1>3
        <5> QED
          BY <4>3, <5>1, <5>2, StepsOnSame
      <4>4. bumps[r] = 0 => ~read[r].disturbed
        BY <4>2 DEF DisturbedLate
      <4> QED
        BY <4>1, <4>2, <4>3, <4>4
    <3>2. CASE word.version # read[r].version
      BY <2>3, <3>2 DEF Validate, NoRead
    <3> QED
      BY <3>1, <3>2
  <2>4. CASE EndRead(r)
    BY <2>4 DEF EndRead, NoRead
  <2> QED
    BY <2>1, <2>2, <2>3, <2>4 DEF Reader
<1>6. VersionsCounted'
  BY <1>1, <1>5 DEF ReadInv, VersionsCounted
<1>7. DisturbedLate'
  BY <1>1, <1>5 DEF ReadInv, DisturbedLate
<1>8. OptimisticReadSound'
  BY <1>1, <1>5 DEF ReadInv, OptimisticReadSound
<1> QED
  BY <1>2, <1>4, <1>6, <1>7, <1>8 DEF ReadInv

\* The holder of the lock disturbs the readers that are at the data.
LEMMA WriteDataRead ==
  ASSUME ReadInv, ExclusiveInv', NEW t \in Threads, WriteData(t)
  PROVE  ReadInv'
<1>1. /\ UNCHANGED <<word, call, holders, bumps>> /\ t \in holders
      /\ read' = [r \in Readers |-> [read[r] EXCEPT !.disturbed = @ \/ read[r].at = "data"]]
  BY DEF WriteData
<1>2. ReadOK'
  BY <1>1 DEF ReadInv, ReadOK
<1>3. \A r \in Readers :
        /\ read'[r].at = read[r].at /\ read'[r].version = read[r].version
        /\ read'[r].disturbed = (read[r].disturbed \/ read[r].at = "data")
  BY <1>1 DEF ReadInv, ReadOK
<1>4. ResetFresh' /\ VersionsCounted'
  BY <1>1, <1>3 DEF ReadInv, ResetFresh, VersionsCounted
<1>5. DisturbedLate'
  BY <1>1, <1>3 DEF ReadInv, DisturbedLate
<1>6. OptimisticReadSound'
  BY <1>1, <1>3 DEF ReadInv, OptimisticReadSound
<1> QED
  BY <1>2, <1>4, <1>5, <1>6 DEF ReadInv

\* Every step of a thread or a reader keeps what a read relies on.
LEMMA NextRead == ReadInv /\ [Next]_vars => ReadInv'
<1> SUFFICES ASSUME ReadInv, [Next]_vars PROVE ReadInv'
  OBVIOUS
<1>1. ExclusiveInv'
  BY NextExclusive DEF ReadInv
<1>2. Loops \cup Once \subseteq Ops /\ "reset" \in Ops /\ "reset" \notin Loops \cup Once
  BY DEF Ops, Loops, Once
<1>3. call \in [Threads -> [op : Ops \cup {"none"}, old : Word]] /\ NoCall.op = "none"
  BY DEF ReadInv, ExclusiveInv, CallOK, NoCall
<1>4. ASSUME NEW t \in Threads, NEW op \in Ops, Load(t, op) PROVE ReadInv'
  <2>1. call'[t].op = "reset" => call'[t].old.version = word.version
    BY <1>3, <1>4 DEF Load
  <2> QED
    BY <1>1, <1>3, <1>4, <2>1, CallRead DEF Load
<1>5. ASSUME NEW t \in Threads, Swap(t) PROVE ReadInv'
  BY <1>1, <1>2, <1>5, ReplaceRead DEF Swap
<1>6. ASSUME NEW t \in Threads, Retry(t) PROVE ReadInv'
  <2>1. call'[t].op # "reset"
    BY <1>2, <1>3, <1>6 DEF Retry
  <2> QED
    BY <1>1, <1>3, <1>6, <2>1, CallRead DEF Retry
<1>7. ASSUME NEW t \in Threads, Store(t) PROVE ReadInv'
  BY <1>1, <1>2, <1>7, ReplaceRead DEF Store
<1>8. ASSUME NEW t \in Threads, WriteData(t) PROVE ReadInv'
  BY <1>1, <1>8, WriteDataRead
<1>9. ASSUME NEW r \in Readers, Reader(r) PROVE ReadInv'
  BY <1>9, ReaderRead
<1>10. ASSUME UNCHANGED vars PROVE ReadInv'
  BY <1>10 DEF vars, ReadInv, ExclusiveInv, CallOK, CallsAccepted, ReleasersHold, OneHolder,
               ReadOK, ResetFresh, VersionsCounted, DisturbedLate, OptimisticReadSound
<1> QED
  BY <1>4, <1>5, <1>6, <1>7, <1>8, <1>9, <1>10 DEF Next, Thread, InCall

\* A reader that found the page readable and the version unchanged afterwards
\* read data nobody was changing, unless all VersionLimit versions went by in
\* between, for any number of threads, readers and versions.
THEOREM OptimisticReadsHold == Spec => []OptimisticReadSound
<1>1. ReadInv => OptimisticReadSound
  BY DEF ReadInv
<1> QED
  BY InitRead, NextRead, <1>1, PTL DEF Spec
=============================================================================
