-------------------------- MODULE CsvImportProofs ---------------------------
(***************************************************************************)
(* LoadsFile, FailureLeavesPrefix and CountsAddUp hold for every file,     *)
(* batch size and block size.  The inductive invariant CsvInv says of each *)
(* path which records have been dealt with: those before pos on the        *)
(* streaming and the sequential path, except for the ones in the batch;    *)
(* those in front of block `joined` on the parallel path, where a block    *)
(* stands for the records that start behind its first byte, up to the      *)
(* first byte of the next block and including it.  A thread may go one     *)
(* record further if a line break crosses the end of its block: Lined and  *)
(* Exact say for which files the records of the blocks are all read, and   *)
(* read once.                                                              *)
(***************************************************************************)
EXTENDS CsvImport, SequenceTheorems, WellFoundedInduction, TLAPS

-----------------------------------------------------------------------------
(* The invariant *)

\* The threads of the parallel reader, in the states they can be in.
BlockResult ==
  [state : {"waiting", "reading", "done", "failed"}, next : Nat,
   parsed : Seq(0 .. Len(file)), errors : Nat]

\* Rows are records, or in parallel what is left of one.
Kept == IF path = "parallel" THEN 0 .. Len(file) ELSE 2 .. Len(file)

\* What is read was given, and does not change.
InputOK ==
  /\ loader \in {"nodes", "rels"} /\ path \in {"streaming", "sequential", "parallel"}
  /\ LaidOut(file, lines, file_size) /\ ignore \in BOOLEAN

\* Every variable is of its type.
TypeInv ==
  /\ InputOK
  /\ outcome \in {"running", "ok", "error"}
  /\ pos \in 2 .. Len(file) + 1
  /\ batch \in Seq(2 .. Len(file)) /\ handing \in BOOLEAN
  /\ rows \in Seq(Kept) /\ failed \in Nat /\ processed \in Nat
  /\ blocks \in [Blocks -> BlockResult]
  /\ joined \in 0 .. NumBlocks

\* s holds the wanted ones of the records a to b - 1, in their order, ...
Holds(s, a, b) == InFileOrder(s) /\ Range(s) = {i \in Wanted : a <= i /\ i < b}

\* ... and if no record may be skipped, all of them are wanted.
AllWanted(a, b) == ~ignore => \A i \in a .. b - 1 : i \in Wanted

\* The batch is behind the rows and in front of pos; the rows and it hold what
\* is wanted of the records before pos.
ReaderInv ==
  /\ InFileOrder(rows) /\ InFileOrder(batch)
  /\ \A m \in DOMAIN rows, n \in DOMAIN batch : rows[m] < batch[n]
  /\ \A n \in DOMAIN batch : batch[n] < pos /\ (batch[n] \in Wanted \/ ~Fits(batch[n]))
  /\ Range(rows) = {i \in Wanted : i < pos} \ Range(batch)
  /\ outcome # "error" /\ ~ignore => \A i \in 2 .. pos - 1 : i \in Wanted \cup Range(batch)
  /\ outcome = "ok" => pos = Len(file) + 1 /\ batch = <<>>
  /\ path = "sequential" => batch = <<>>

\* Every record before pos is in the table, in the batch or failed.
CountsInv ==
  outcome # "error" => processed = Len(rows) /\ processed + failed + Len(batch) = pos - 2

\* A batch of nodes is handed over when it is full, or at the end of the file.
BatchesInv ==
  /\ ~handing => Len(batch) < BatchSize
  /\ handing => Len(batch) = BatchSize \/ pos = Len(file) + 1
  /\ \/ Len(rows) % BatchSize = 0
     \/ pos = Len(file) + 1 /\ batch = <<>> /\ outcome # "error"

\* The files that are read whole in parallel, and those that are read once.
Lined == LinesFitBlocks /\ RowsBeginLines
Exact == Lined /\ BreaksInBlocks

\* A record that is wanted is in s; a record that is not may be skipped.
Taken(s, j) == (j \in Wanted => j \in Range(s)) /\ (~ignore => j \in Wanted)

\* Of the records of block k, those before n are taken.
ReadAll(k, n) ==
  /\ FirstRow(k) <= n
  /\ \A j \in FirstRow(k) .. FirstRow(k + 1) - 1 : j < n => Taken(blocks[k].parsed, j)

\* The result of block k once its records before n are read.
ReadUpTo(k, n) ==
  /\ FirstRow(k) <= n /\ n <= FirstRow(k + 1)
  /\ Holds(blocks[k].parsed, FirstRow(k), n) /\ AllWanted(FirstRow(k), n)
  /\ Len(blocks[k].parsed) + blocks[k].errors = n - FirstRow(k)

HasMultiline == \E i \in 2 .. Len(file) : file[i].kind = "multiline"

\* What a thread has read of its block.
BlockInv(k) ==
  /\ blocks[k].state = "waiting" => blocks[k].parsed = <<>> /\ blocks[k].errors = 0
  /\ blocks[k].state = "reading" => ~QuotedNewline(k) /\ blocks[k].next \in 2 .. Len(file) + 1
  /\ blocks[k].state = "reading" /\ Lined => ReadAll(k, blocks[k].next)
  /\ blocks[k].state = "reading" /\ Exact => ReadUpTo(k, blocks[k].next)
  /\ blocks[k].state = "done" /\ Lined => ReadAll(k, FirstRow(k + 1))
  /\ blocks[k].state = "done" /\ Exact => ReadUpTo(k, FirstRow(k + 1))
  /\ blocks[k].state = "failed" /\ ignore => HasMultiline

\* What is joined are the records in front of block `joined`.
JoinedInv ==
  /\ joined = 0 => rows = <<>> /\ failed = 0
  /\ joined > 0 => AllIn({"done"})
  /\ outcome = "error" => joined = 0
  /\ outcome = "ok" => joined = NumBlocks /\ processed = Len(rows)
  /\ Lined => \A j \in 2 .. FirstRow(joined) - 1 : Taken(rows, j)
  /\ Exact =>
       /\ Holds(rows, 2, FirstRow(joined)) /\ AllWanted(2, FirstRow(joined))
       /\ Len(rows) + failed = FirstRow(joined) - 2

\* The reason of a failure when errors are ignored.
CauseInv ==
  outcome = "error" /\ ignore /\ HeaderFits =>
    \E i \in 2 .. Len(file) :
      \/ loader = "nodes" /\ path = "streaming" /\ file[i].kind = "unfit"
      \/ path = "parallel" /\ file[i].kind = "multiline"

\* The inductive invariant.
CsvInv ==
  /\ TypeInv /\ CauseInv
  /\ handing => batch # <<>>
  /\ ~HeaderFits => joined = 0 /\ rows = <<>>
  /\ path # "parallel" => ReaderInv
  /\ path = "streaming" => CountsInv
  /\ path = "streaming" /\ loader = "nodes" => BatchesInv
  /\ path = "parallel" => JoinedInv /\ \A k \in Blocks : BlockInv(k)

-----------------------------------------------------------------------------
(* Sequences in file order *)

\* Append adds its element to the range.
LEMMA AppendRange ==
  ASSUME NEW S, NEW s \in Seq(S), NEW x \in S
  PROVE  /\ Append(s, x) \in Seq(S) /\ Len(Append(s, x)) = Len(s) + 1
         /\ \A n \in DOMAIN s : Append(s, x)[n] = s[n]
         /\ Append(s, x)[Len(s) + 1] = x
         /\ Range(Append(s, x)) = Range(s) \cup {x}
<1>1. Append(s, x) \in Seq(S) /\ Len(Append(s, x)) = Len(s) + 1
  OBVIOUS
<1>2. \A n \in DOMAIN s : n \in DOMAIN Append(s, x) /\ Append(s, x)[n] = s[n]
  OBVIOUS
<1>3. Len(s) + 1 \in DOMAIN Append(s, x) /\ Append(s, x)[Len(s) + 1] = x
  OBVIOUS
<1>4. \A n \in DOMAIN Append(s, x) : n \in DOMAIN s \/ n = Len(s) + 1
  OBVIOUS
<1> QED  BY <1>1, <1>2, <1>3, <1>4, Zenon DEF Range

\* A later record goes behind the others.
LEMMA AppendInOrder ==
  ASSUME NEW S \in SUBSET Int, NEW s \in Seq(S), NEW x \in S, InFileOrder(s),
         \A n \in DOMAIN s : s[n] < x
  PROVE  InFileOrder(Append(s, x))
<1> SUFFICES ASSUME NEW m \in DOMAIN Append(s, x), NEW n \in DOMAIN Append(s, x), m < n
             PROVE  Append(s, x)[m] < Append(s, x)[n]
  BY DEF InFileOrder
<1>1. m \in DOMAIN s
  OBVIOUS
<1>2. CASE n \in DOMAIN s
  BY <1>1, <1>2, AppendRange DEF InFileOrder
<1>3. CASE n = Len(s) + 1
  BY <1>1, <1>3, AppendRange
<1> QED  BY <1>2, <1>3

\* Where the elements of two sequences are in their concatenation.
LEMMA ConcatPlaces ==
  ASSUME NEW S, NEW s \in Seq(S), NEW t \in Seq(S)
  PROVE  /\ \A n \in DOMAIN s : n \in DOMAIN (s \o t) /\ (s \o t)[n] = s[n]
         /\ \A n \in DOMAIN t : Len(s) + n \in DOMAIN (s \o t) /\ (s \o t)[Len(s) + n] = t[n]
<1>1. \A n \in DOMAIN s : n \in DOMAIN (s \o t) /\ (s \o t)[n] = s[n]
  OBVIOUS
<1>2. \A n \in DOMAIN t : Len(s) + n \in DOMAIN (s \o t) /\ (s \o t)[Len(s) + n] = t[n]
  OBVIOUS
<1> QED  BY <1>1, <1>2

\* Two sequences in file order, the second behind the first.
LEMMA ConcatInOrder ==
  ASSUME NEW S \in SUBSET Int, NEW s \in Seq(S), NEW t \in Seq(S),
         InFileOrder(s), InFileOrder(t), \A m \in DOMAIN s, n \in DOMAIN t : s[m] < t[n]
  PROVE  /\ s \o t \in Seq(S) /\ Len(s \o t) = Len(s) + Len(t)
         /\ InFileOrder(s \o t) /\ Range(s \o t) = Range(s) \cup Range(t)
<1>1. s \o t \in Seq(S) /\ Len(s \o t) = Len(s) + Len(t)
  OBVIOUS
<1>2. \A n \in DOMAIN s : n \in DOMAIN (s \o t) /\ (s \o t)[n] = s[n]
  BY ConcatPlaces
<1>3. \A n \in DOMAIN t : Len(s) + n \in DOMAIN (s \o t) /\ (s \o t)[Len(s) + n] = t[n]
  BY ConcatPlaces
<1>4. \A n \in DOMAIN (s \o t) : n \in DOMAIN s \/ (n - Len(s) \in DOMAIN t /\ n = Len(s) + (n - Len(s)))
  OBVIOUS
<1>5. Range(s \o t) = Range(s) \cup Range(t)
  <2>1. \A n \in DOMAIN (s \o t) : (s \o t)[n] \in Range(s) \cup Range(t)
    BY <1>2, <1>3, <1>4 DEF Range
  <2>2. \A n \in DOMAIN s : s[n] \in Range(s \o t)
    BY <1>2 DEF Range
  <2>3. \A n \in DOMAIN t : t[n] \in Range(s \o t)
    BY <1>3 DEF Range
  <2> QED  BY <2>1, <2>2, <2>3, Zenon DEF Range
<1>6. InFileOrder(s \o t)
  <2> SUFFICES ASSUME NEW m \in DOMAIN (s \o t), NEW n \in DOMAIN (s \o t), m < n
               PROVE  (s \o t)[m] < (s \o t)[n]
    BY DEF InFileOrder
  <2>1. CASE n \in DOMAIN s
    BY <1>2, <2>1 DEF InFileOrder
  <2>2. CASE n \notin DOMAIN s /\ m \in DOMAIN s
    BY <1>2, <1>3, <1>4, <2>2
  <2>3. CASE n \notin DOMAIN s /\ m \notin DOMAIN s
    <3>1. m - Len(s) \in DOMAIN t /\ n - Len(s) \in DOMAIN t /\ m - Len(s) < n - Len(s)
      BY <1>4, <2>3
    <3>2. t[m - Len(s)] < t[n - Len(s)]
      BY <3>1 DEF InFileOrder
    <3> QED  BY <1>3, <1>4, <2>3, <3>1, <3>2
  <2> QED  BY <2>1, <2>2, <2>3
<1> QED  BY <1>1, <1>5, <1>6

\* The first element is in front of the others.
LEMMA TailInOrder ==
  ASSUME NEW S \in SUBSET Int, NEW s \in Seq(S), s # <<>>, InFileOrder(s)
  PROVE  /\ Head(s) \in S /\ Tail(s) \in Seq(S) /\ Len(Tail(s)) = Len(s) - 1
         /\ 1 \in DOMAIN s /\ Head(s) = s[1]
         /\ InFileOrder(Tail(s)) /\ Range(s) = Range(Tail(s)) \cup {Head(s)}
         /\ \A n \in DOMAIN Tail(s) : n + 1 \in DOMAIN s /\ Tail(s)[n] = s[n + 1] /\ Head(s) < Tail(s)[n]
<1>1. Head(s) \in S /\ Tail(s) \in Seq(S) /\ Len(Tail(s)) = Len(s) - 1 /\ 1 \in DOMAIN s /\ Head(s) = s[1]
  OBVIOUS
<1>2. \A n \in DOMAIN Tail(s) : n + 1 \in DOMAIN s /\ Tail(s)[n] = s[n + 1]
  OBVIOUS
<1>3. \A n \in DOMAIN Tail(s) : Head(s) < Tail(s)[n]
  BY <1>1, <1>2 DEF InFileOrder
<1>4. InFileOrder(Tail(s))
  <2> SUFFICES ASSUME NEW m \in DOMAIN Tail(s), NEW n \in DOMAIN Tail(s), m < n
               PROVE  Tail(s)[m] < Tail(s)[n]
    BY DEF InFileOrder
  <2> QED  BY <1>1, <1>2 DEF InFileOrder
<1>5. Range(s) = Range(Tail(s)) \cup {Head(s)}
  <2>1. \A n \in DOMAIN s : n = 1 \/ (n - 1 \in DOMAIN Tail(s) /\ Tail(s)[n - 1] = s[n])
    BY <1>1, <1>2
  <2>2. \A n \in DOMAIN Tail(s) : Tail(s)[n] \in Range(s)
    BY <1>2 DEF Range
  <2>3. Head(s) \in Range(s)
    BY <1>1 DEF Range
  <2>4. \A n \in DOMAIN s : s[n] \in Range(Tail(s)) \cup {Head(s)}
    BY <1>1, <2>1 DEF Range
  <2> QED  BY <2>2, <2>3, <2>4, Zenon DEF Range
<1> QED  BY <1>1, <1>2, <1>3, <1>4, <1>5

\* The empty sequence.
LEMMA EmptyInOrder == InFileOrder(<<>>) /\ Range(<<>>) = {} /\ Len(<<>>) = 0 /\ DOMAIN <<>> = {}
  BY DEF InFileOrder, Range

\* What is in a range.
LEMMA InRange == ASSUME NEW s, NEW n \in DOMAIN s PROVE s[n] \in Range(s)
  BY DEF Range

-----------------------------------------------------------------------------
(* Files *)

\* No operator on the input changes its value.
LEMMA SameInput ==
  ASSUME UNCHANGED input
  PROVE  /\ InputOK => InputOK'
         /\ Wanted' = Wanted /\ HeaderFits' = HeaderFits
         /\ Lined' = Lined /\ Exact' = Exact /\ HasMultiline' = HasMultiline
         /\ NumBlocks' = NumBlocks /\ Blocks' = Blocks
         /\ BlockResult' = BlockResult /\ Kept' = Kept
         /\ \A k \in Nat : FirstRow(k)' = FirstRow(k) /\ QuotedNewline(k)' = QuotedNewline(k)
<1> USE DEF input
<1>1. /\ loader' = loader /\ path' = path /\ file' = file /\ ignore' = ignore
      /\ lines' = lines /\ file_size' = file_size
  OBVIOUS
<1>2. InputOK => InputOK'
  BY <1>1 DEF InputOK
<1>3. Wanted' = Wanted
  BY <1>1 DEF Wanted, Unwanted
<1>4. HeaderFits' = HeaderFits
  BY <1>1 DEF HeaderFits, NodeHeaderFits, RelHeaderFits, RelStreamHeaderFits
<1>5. HasMultiline' = HasMultiline
  BY <1>1 DEF HasMultiline
<1>6. NumBlocks' = NumBlocks /\ Blocks' = Blocks /\ BlockResult' = BlockResult /\ Kept' = Kept
  BY <1>1 DEF NumBlocks, Blocks, BlockResult, Kept
<1>7. \A i : StartOf(i)' = StartOf(i) /\ Behind(i)' = Behind(i)
  BY <1>1 DEF StartOf, Behind
<1>8. \A k : BlockStart(k)' = BlockStart(k) /\ BlockEnd(k)' = BlockEnd(k)
  BY <1>1 DEF BlockStart, BlockEnd
<1>9. Lined' = Lined /\ Exact' = Exact
  <2>1. LinesFitBlocks' = LinesFitBlocks
    BY <1>1 DEF LinesFitBlocks
  <2>2. RowsBeginLines' = RowsBeginLines
    BY <1>1, <1>7 DEF RowsBeginLines
  <2>3. BreaksInBlocks' = BreaksInBlocks
    BY <1>1, <1>6, <1>7, <1>8 DEF BreaksInBlocks
  <2> QED  BY <2>1, <2>2, <2>3 DEF Lined, Exact
<1>10. ASSUME NEW k \in Nat
       PROVE  FirstRow(k)' = FirstRow(k) /\ QuotedNewline(k)' = QuotedNewline(k)
  <2>1. ActualStart(k)' = ActualStart(k) /\ SliceEnd(k)' = SliceEnd(k)
    BY <1>1, <1>8 DEF ActualStart, SeekToRowStart, SliceEnd
  <2>2. {i \in 2 .. Len(file) : StartOf(i) >= ActualStart(k)}'
          = {i \in 2 .. Len(file) : StartOf(i) >= ActualStart(k)}
    BY <1>1, <1>7, <2>1
  <2>3. FirstRow(k)' = FirstRow(k)
    BY <1>1, <2>2 DEF FirstRow
  <2> QED  BY <1>1, <1>7, <2>1, <2>3 DEF QuotedNewline
<1> QED  BY <1>2, <1>3, <1>4, <1>5, <1>6, <1>9, <1>10

\* A file has a header, and its records lie behind one another.
LEMMA FileFacts ==
  ASSUME InputOK
  PROVE  /\ file \in Seq(Record) /\ Len(file) \in Nat /\ Len(file) >= 1
         /\ file_size \in Nat /\ StartOf(Len(file) + 1) = file_size
         /\ \A i \in 1 .. Len(file) : /\ StartOf(i) = file[i].start /\ StartOf(i) \in Nat
                                     /\ file[i].stop \in Nat /\ file[i].stop <= file_size
         /\ file[1].kind \in HeaderKinds /\ StartOf(1) = 0
         /\ \A i \in 2 .. Len(file) : /\ file[i].kind \in Kinds
                                     /\ StartOf(i) < file[i].stop /\ StartOf(i) < file_size
         /\ \A i \in 2 .. Len(file) : \A j \in 1 .. i - 1 : /\ Behind(j) \in Nat
                                                          /\ Behind(j) <= StartOf(i)
                                                          /\ StartOf(j) <= StartOf(i)
         /\ \A l \in lines : l \in Nat /\ 0 < l /\ l <= file_size
         /\ \A l \in lines, i \in 1 .. Len(file) : l <= StartOf(i) \/ file[i].stop < l
<1>1. file \in Seq(Record) /\ Len(file) \in Nat /\ Len(file) >= 1 /\ file_size \in Nat
  BY DEF InputOK, LaidOut
<1>2. \A i \in 1 .. Len(file) : file[i].start \in Nat /\ file[i].stop \in Nat
  <2> TAKE i \in 1 .. Len(file)
  <2>1. file[i] \in Record
    BY <1>1
  <2> QED  BY <2>1 DEF Record
<1>3. /\ \A i \in 1 .. Len(file) : StartOf(i) = file[i].start
      /\ StartOf(Len(file) + 1) = file_size
  BY <1>1 DEF StartOf
<1>4. \A i \in 2 .. Len(file) :
        /\ file[i].kind \in Kinds /\ file[i].start < file[i].stop /\ file[i].stop <= file_size
        /\ \A j \in 1 .. i - 1 : file[j].stop < file[i].start \/ file[j].stop = 0
  BY DEF InputOK, LaidOut
<1>5. file[1].kind \in HeaderKinds /\ file[1].start = 0 /\ file[1].stop <= file_size
  BY DEF InputOK, LaidOut
<1>6. ASSUME NEW i \in 1 .. Len(file)
      PROVE  file[i].stop <= file_size
  <2>1. i = 1 \/ i \in 2 .. Len(file)
    OBVIOUS
  <2> QED  BY <1>4, <1>5, <2>1
<1>7. ASSUME NEW i \in 2 .. Len(file), NEW j \in 1 .. i - 1
      PROVE  Behind(j) \in Nat /\ Behind(j) <= StartOf(i) /\ StartOf(j) <= StartOf(i)
  <2>1. j \in 1 .. Len(file) /\ i \in 1 .. Len(file) /\ (j = 1 \/ j \in 2 .. Len(file))
    BY <1>1
  <2>2. file[j].stop < file[i].start \/ file[j].stop = 0
    BY <1>4
  <2>3. /\ file[j].stop \in Nat /\ file[i].start \in Nat /\ file[j].start \in Nat
        /\ StartOf(i) = file[i].start /\ StartOf(j) = file[j].start
    BY <1>2, <1>3, <2>1
  <2>4. j = 1 => file[j].start = 0
    BY <1>5
  <2>5. j \in 2 .. Len(file) => file[j].start < file[j].stop
    BY <1>4
  <2> QED  BY <2>1, <2>2, <2>3, <2>4, <2>5 DEF Behind
<1>8. /\ \A l \in lines : l \in Nat /\ 0 < l /\ l <= file_size
      /\ \A l \in lines, i \in DOMAIN file : l <= file[i].start \/ file[i].stop < l
  BY <1>1 DEF InputOK, LaidOut
<1>9. \A i \in 2 .. Len(file) : StartOf(i) < file[i].stop /\ StartOf(i) < file_size
  <2> TAKE i \in 2 .. Len(file)
  <2>1. i \in 1 .. Len(file)
    OBVIOUS
  <2>2. file[i].start \in Nat /\ file[i].stop \in Nat /\ StartOf(i) = file[i].start
    BY <1>2, <1>3, <2>1
  <2> QED  BY <1>1, <1>4, <2>2
<1>10. \A l \in lines, i \in 1 .. Len(file) : l <= StartOf(i) \/ file[i].stop < l
  BY <1>1, <1>3, <1>8
<1>11. 1 \in 1 .. Len(file)
  BY <1>1
<1> QED  BY <1>1, <1>2, <1>3, <1>4, <1>5, <1>6, <1>7, <1>8, <1>9, <1>10, <1>11

-----------------------------------------------------------------------------
(* The streaming and the sequential path *)

\* What the streaming loaders refuse is not wanted, and the rest is wanted or
\* does not fit in the table.
LEMMA StreamRefuses ==
  ASSUME InputOK, path = "streaming", NEW i \in 2 .. Len(file)
  PROVE  /\ loader = "nodes" =>
              IF ReaderRefuses(i) \/ NodeRecordRefused(i) THEN i \notin Wanted
              ELSE i \in Wanted \/ ~Fits(i)
         /\ loader = "rels" =>
              IF ReaderRefuses(i) \/ RelStreamRecordRefused(i) THEN i \notin Wanted
              ELSE i \in Wanted \/ ~Fits(i)
         /\ ~Fits(i) => i \notin Wanted
  BY DEF ReaderRefuses, NodeRecordRefused, RelStreamRecordRefused, FieldRefused, Wanted,
         Unwanted, Fits

\* What the sequential loaders refuse is what is not wanted.
LEMMA LoadRefuses ==
  ASSUME InputOK, path = "sequential", NEW i \in 2 .. Len(file)
  PROVE  /\ loader = "nodes" => ((ReaderRefuses(i) \/ NodeRecordRefused(i)) <=> i \notin Wanted)
         /\ loader = "rels" => ((ReaderRefuses(i) \/ RelRecordRefused(i)) <=> i \notin Wanted)
  BY DEF ReaderRefuses, NodeRecordRefused, RelRecordRefused, FieldRefused, Wanted, Unwanted

\* The reader goes on behind a record that is not wanted.
LEMMA ReaderSkips ==
  ASSUME TypeInv, ReaderInv, UNCHANGED <<input, rows, batch>>, path # "parallel",
         outcome = "running", pos <= Len(file), pos' = pos + 1, pos \notin Wanted,
         outcome' = IF ignore THEN outcome ELSE "error"
  PROVE  ReaderInv'
<1>1. Wanted' = Wanted /\ path' = path /\ file' = file /\ ignore' = ignore
  BY SameInput DEF input
<1>2. pos \in Nat /\ Wanted \subseteq Nat /\ batch \in Seq(Nat) /\ rows' = rows /\ batch' = batch
  BY FileFacts DEF TypeInv, Wanted
<1>3. \A n \in DOMAIN batch : batch[n] \in Nat
  BY <1>2
<1>4. {i \in Wanted : i < pos + 1} = {i \in Wanted : i < pos}
  <2>1. \A i \in Wanted : i < pos + 1 <=> i < pos
    BY <1>2
  <2> QED  BY <2>1
<1>5. \A n \in DOMAIN batch : batch[n] < pos + 1
  BY <1>2, <1>3 DEF ReaderInv
<1>6. outcome' # "error" => ignore
  OBVIOUS
<1>7. outcome' # "ok"
  OBVIOUS
<1> QED  BY <1>1, <1>2, <1>4, <1>5, <1>6, <1>7 DEF ReaderInv, InFileOrder, Fits

\* A record that is read goes into the batch.
LEMMA ReaderTakes ==
  ASSUME TypeInv, ReaderInv, UNCHANGED <<input, rows, outcome>>, path = "streaming",
         outcome = "running", pos <= Len(file), pos' = pos + 1, pos \in Wanted \/ ~Fits(pos),
         batch' = Append(batch, pos)
  PROVE  ReaderInv'
<1>1. Wanted' = Wanted /\ path' = path /\ file' = file /\ ignore' = ignore
  BY SameInput DEF input
<1>2. pos \in 2 .. Len(file) /\ Wanted \subseteq Nat /\ batch \in Seq(2 .. Len(file)) /\ Len(file) \in Nat
  BY FileFacts DEF TypeInv, Wanted
<1>3. \A n \in DOMAIN batch : batch[n] \in Nat /\ batch[n] < pos
  BY <1>2 DEF ReaderInv
<1>4. \A n \in DOMAIN rows : rows[n] \in Nat /\ rows[n] < pos
  <2> TAKE n \in DOMAIN rows
  <2>1. rows[n] \in {i \in Wanted : i < pos}
    BY InRange DEF ReaderInv
  <2> QED  BY <1>2, <2>1
<1>5. InFileOrder(batch')
  BY <1>2, <1>3, AppendInOrder DEF ReaderInv
<1>6. \A n \in DOMAIN batch' : batch'[n] = pos \/ (n \in DOMAIN batch /\ batch'[n] = batch[n])
  <2>1. \A n \in DOMAIN batch' : n = Len(batch) + 1 \/ n \in DOMAIN batch
    BY <1>2
  <2> QED  BY <1>2, <2>1, AppendRange
<1>7. Range(batch') = Range(batch) \cup {pos}
  BY <1>2, AppendRange
<1>8. \A m \in DOMAIN rows, n \in DOMAIN batch' : rows[m] < batch'[n]
  BY <1>4, <1>6 DEF ReaderInv
<1>9. \A n \in DOMAIN batch' : batch'[n] < pos + 1 /\ (batch'[n] \in Wanted \/ ~Fits(batch'[n]))
  BY <1>2, <1>3, <1>6 DEF ReaderInv
<1>10. Range(rows) = {i \in Wanted : i < pos + 1} \ Range(batch')
  <2>1. pos \notin Range(rows)
    BY <1>2 DEF ReaderInv
  <2>2. \A i \in Wanted : i < pos + 1 <=> i < pos \/ i = pos
    BY <1>2
  <2>3. \A i \in Range(rows) : i \in Wanted /\ i < pos /\ i \notin Range(batch)
    BY DEF ReaderInv
  <2>4. \A i \in Wanted : i < pos /\ i \notin Range(batch) => i \in Range(rows)
    BY DEF ReaderInv
  <2> HIDE DEF Wanted
  <2> QED  BY <1>7, <2>1, <2>2, <2>3, <2>4
<1>11. ~ignore => \A i \in 2 .. pos : i \in Wanted \cup Range(batch')
  BY <1>2, <1>7 DEF ReaderInv
<1>12. InFileOrder(rows) /\ outcome' # "ok" /\ rows' = rows /\ (pos + 1) - 1 = pos
  BY <1>2 DEF ReaderInv
<1> HIDE DEF InFileOrder
<1>13. InFileOrder(rows)' /\ InFileOrder(batch)'
  BY <1>5, <1>12 DEF InFileOrder
<1> QED  BY <1>1, <1>8, <1>9, <1>10, <1>11, <1>12, <1>13 DEF ReaderInv, Fits

\* The rows are in front of pos, and so is the batch.
LEMMA ReaderBounds ==
  ASSUME TypeInv, ReaderInv, path # "parallel"
  PROVE  /\ Wanted \subseteq Nat /\ Len(file) \in Nat /\ pos \in Nat
         /\ batch \in Seq(2 .. Len(file)) /\ rows \in Seq(2 .. Len(file))
         /\ \A n \in DOMAIN batch : batch[n] \in 2 .. Len(file) /\ batch[n] < pos
         /\ \A n \in DOMAIN rows : rows[n] \in 2 .. Len(file) /\ rows[n] < pos
<1>1. Wanted \subseteq Nat /\ Len(file) \in Nat /\ pos \in Nat
  BY FileFacts DEF TypeInv, Wanted
<1>2. \A n \in DOMAIN rows : rows[n] \in 2 .. Len(file) /\ rows[n] < pos
  <2> TAKE n \in DOMAIN rows
  <2>1. rows[n] \in {i \in Wanted : i < pos}
    BY InRange DEF ReaderInv
  <2> QED  BY <1>1, <2>1 DEF Wanted
<1> QED  BY <1>1, <1>2 DEF TypeInv, ReaderInv, Kept

\* A batch that fits goes behind the rows.
LEMMA ReaderInserts ==
  ASSUME TypeInv, ReaderInv, UNCHANGED <<input, pos, outcome>>, path = "streaming",
         outcome = "running", \A n \in DOMAIN batch : Fits(batch[n]),
         rows' = rows \o batch, batch' = <<>>
  PROVE  ReaderInv'
<1>1. Wanted' = Wanted /\ path' = path /\ file' = file /\ ignore' = ignore
  BY SameInput DEF input
<1>2. /\ InFileOrder(rows \o batch)
      /\ Range(rows \o batch) = Range(rows) \cup Range(batch)
  BY ReaderBounds, ConcatInOrder DEF ReaderInv
<1>3. Range(batch) \subseteq {i \in Wanted : i < pos}
  <2>1. \A n \in DOMAIN batch : batch[n] \in Wanted /\ batch[n] < pos
    BY DEF ReaderInv
  <2> QED  BY <2>1 DEF Range
<1>4. Range(rows') = {i \in Wanted : i < pos}
  BY <1>2, <1>3 DEF ReaderInv
<1>5. InFileOrder(rows)' /\ InFileOrder(batch)'
  BY <1>2, EmptyInOrder DEF InFileOrder
<1>6. ~ignore => \A i \in 2 .. pos - 1 : i \in Wanted
  BY <1>3 DEF ReaderInv
<1>7. outcome' # "ok" /\ path' # "sequential"
  BY <1>1
<1>8. Range(batch') = {} /\ DOMAIN batch' = {}
  BY EmptyInOrder
<1> QED  BY <1>1, <1>4, <1>5, <1>6, <1>7, <1>8 DEF ReaderInv

\* The first row of the batch goes behind the rows, or is dropped because it
\* does not fit.
LEMMA ReaderInsertsOne ==
  ASSUME TypeInv, ReaderInv, UNCHANGED <<input, pos>>, path = "streaming",
         outcome = "running", outcome' # "ok", batch # <<>>, batch' = Tail(batch),
         \/ Fits(Head(batch)) /\ rows' = Append(rows, Head(batch))
         \/ ~Fits(Head(batch)) /\ rows' = rows /\ (~ignore => outcome' = "error")
  PROVE  ReaderInv'
<1> DEFINE h == Head(batch)
<1>1. Wanted' = Wanted /\ path' = path /\ file' = file /\ ignore' = ignore
  BY SameInput DEF input
<1>2. 2 .. Len(file) \in SUBSET Int
  BY ReaderBounds
<1>3. /\ h \in 2 .. Len(file) /\ 1 \in DOMAIN batch /\ h = batch[1]
      /\ InFileOrder(Tail(batch)) /\ Range(batch) = Range(Tail(batch)) \cup {h}
      /\ \A n \in DOMAIN Tail(batch) : /\ n + 1 \in DOMAIN batch /\ Tail(batch)[n] = batch[n + 1]
                                     /\ h < Tail(batch)[n]
  BY <1>2, ReaderBounds, TailInOrder DEF ReaderInv
<1>4. h < pos /\ (h \in Wanted \/ ~Fits(h)) /\ \A m \in DOMAIN rows : rows[m] < h
  BY <1>3 DEF ReaderInv
<1>5. h \in Wanted => Fits(h)
  BY StreamRefuses, <1>3 DEF TypeInv
<1>6. h \notin Range(Tail(batch))
  <2>1. \A n \in DOMAIN Tail(batch) : Tail(batch)[n] # h
    BY <1>3
  <2> QED  BY <2>1 DEF Range
<1>7. /\ \A m \in DOMAIN rows, n \in DOMAIN batch' : rows[m] < batch'[n]
      /\ \A n \in DOMAIN batch' : batch'[n] < pos /\ (batch'[n] \in Wanted \/ ~Fits(batch'[n]))
  BY <1>3 DEF ReaderInv
<1>8. InFileOrder(batch)'
  BY <1>3 DEF InFileOrder
<1>9. path' # "sequential"
  BY <1>1
<1>10. CASE Fits(h) /\ rows' = Append(rows, h)
  <2>1. InFileOrder(rows)'
    <3>1. InFileOrder(Append(rows, h))
      BY <1>2, <1>3, <1>4, AppendInOrder, ReaderBounds DEF ReaderInv
    <3> QED  BY <3>1, <1>10 DEF InFileOrder
  <2>2. Range(rows') = Range(rows) \cup {h}
    BY <1>3, <1>10, AppendRange, ReaderBounds
  <2>3. h \in Wanted
    BY <1>4, <1>10
  <2>4. Range(rows') = {i \in Wanted : i < pos} \ Range(batch')
    BY <1>3, <1>4, <1>6, <2>2, <2>3 DEF ReaderInv
  <2>5. \A m \in DOMAIN rows' : rows'[m] = h \/ (m \in DOMAIN rows /\ rows'[m] = rows[m])
    <3>1. \A m \in DOMAIN rows' : m = Len(rows) + 1 \/ m \in DOMAIN rows
      <4>1. rows \in Seq(2 .. Len(file)) /\ h \in 2 .. Len(file)
        BY <1>3, ReaderBounds
      <4> QED  BY <1>10, <4>1
    <3> QED  BY <1>3, <1>10, <3>1, AppendRange, ReaderBounds
  <2>6. \A m \in DOMAIN rows', n \in DOMAIN batch' : rows'[m] < batch'[n]
    BY <1>3, <1>7, <2>5
  <2>7. ~ignore => \A i \in 2 .. pos - 1 : i \in Wanted \cup Range(batch')
    BY <1>3, <2>3 DEF ReaderInv
  <2> QED  BY <1>1, <1>7, <1>8, <1>9, <2>1, <2>4, <2>6, <2>7 DEF ReaderInv, Fits
<1>11. CASE ~Fits(h) /\ rows' = rows /\ (~ignore => outcome' = "error")
  <2>1. h \notin Wanted
    BY <1>5, <1>11
  <2>2. Range(rows') = {i \in Wanted : i < pos} \ Range(batch')
    BY <1>3, <1>11, <2>1 DEF ReaderInv
  <2>3. InFileOrder(rows)'
    BY <1>11 DEF ReaderInv, InFileOrder
  <2> QED  BY <1>1, <1>7, <1>8, <1>9, <1>11, <2>2, <2>3 DEF ReaderInv, Fits
<1> QED  BY <1>10, <1>11

\* A row that is kept by the sequential loaders goes behind the others.
LEMMA ReaderKeeps ==
  ASSUME TypeInv, ReaderInv, UNCHANGED <<input, batch>>, path = "sequential",
         outcome = "running", outcome' = "running", pos <= Len(file), pos' = pos + 1,
         pos \in Wanted, rows' = Append(rows, pos)
  PROVE  ReaderInv'
<1>1. Wanted' = Wanted /\ path' = path /\ file' = file /\ ignore' = ignore
  BY SameInput DEF input
<1>2. pos \in 2 .. Len(file) /\ batch = <<>> /\ batch' = <<>>
  BY ReaderBounds DEF TypeInv, ReaderInv
<1>3. InFileOrder(Append(rows, pos)) /\ Range(Append(rows, pos)) = Range(rows) \cup {pos}
  BY <1>2, ReaderBounds, AppendInOrder, AppendRange DEF ReaderInv
<1>4. Range(batch) = {} /\ Range(batch') = {} /\ DOMAIN batch' = {} /\ InFileOrder(batch)'
  BY <1>2, EmptyInOrder DEF InFileOrder
<1>5. Range(rows') = {i \in Wanted : i < pos + 1}
  <2>1. \A i \in Wanted : i < pos + 1 <=> i < pos \/ i = pos
    BY ReaderBounds
  <2>2. Range(rows) = {i \in Wanted : i < pos}
    BY <1>4 DEF ReaderInv
  <2> QED  BY <1>3, <2>1, <2>2
<1>6. ~ignore => \A i \in 2 .. pos : i \in Wanted
  BY <1>2, <1>4 DEF ReaderInv
<1>7. InFileOrder(rows)' /\ (pos + 1) - 1 = pos
  BY <1>2, <1>3 DEF InFileOrder
<1> QED  BY <1>1, <1>2, <1>4, <1>5, <1>6, <1>7 DEF ReaderInv

\* Init has dealt with no record.
LEMMA InitReader == Init => InputOK /\ ReaderInv
<1> SUFFICES ASSUME Init
             PROVE  InputOK /\ ReaderInv
  OBVIOUS
<1>1. PICK in \in Inputs : loader = in.loader /\ path = in.path /\ file = in.file
  BY DEF Init
<1>2. InputOK
  BY <1>1, InputsAssumption DEF Init, InputOK
<1>3. {i \in Wanted : i < 2} = {}
  BY FileFacts, <1>2 DEF Wanted
<1>4. rows = <<>> /\ batch = <<>> /\ pos = 2 /\ outcome = "running"
  BY DEF Init
<1>5. 2 .. pos - 1 = {}
  BY <1>4
<1> QED  BY <1>2, <1>3, <1>4, <1>5, EmptyInOrder DEF ReaderInv

\* The rows in front of the batch, or of pos, are a prefix of what is wanted.
LEMMA RowsArePrefix ==
  ASSUME TypeInv, ReaderInv, path # "parallel"
  PROVE  \E n \in 2 .. Len(file) + 1 : Range(rows) = {i \in Wanted : i < n}
<1>1. CASE batch = <<>>
  <2>1. Range(rows) = {i \in Wanted : i < pos}
    BY <1>1, EmptyInOrder DEF ReaderInv
  <2> QED  BY <2>1 DEF TypeInv
<1>2. CASE batch # <<>>
  <2> DEFINE h == batch[1]
  <2>1. h \in 2 .. Len(file) /\ h < pos /\ 1 \in DOMAIN batch
    BY <1>2, ReaderBounds
  <2>2. \A n \in DOMAIN batch : h <= batch[n]
    <3> TAKE n \in DOMAIN batch
    <3>1. n = 1 \/ 1 < n
      BY ReaderBounds
    <3>2. 1 < n => batch[1] < batch[n]
      BY <2>1 DEF ReaderInv, InFileOrder
    <3>3. batch[n] \in Nat /\ h \in Nat
      BY <2>1, ReaderBounds
    <3> QED  BY <3>1, <3>2, <3>3
  <2>3. \A i \in Range(batch) : h <= i
    BY <2>2 DEF Range
  <2>4. \A i \in Range(rows) : i < h
    BY <2>1 DEF Range, ReaderInv
  <2>5. Range(rows) = {i \in Wanted : i < h}
    <3>1. \A i \in Wanted : i < h => i < pos /\ i \notin Range(batch)
      BY <2>1, <2>3, ReaderBounds
    <3> QED  BY <2>4, <3>1 DEF ReaderInv
  <2> QED  BY <2>1, <2>5
<1> QED  BY <1>1, <1>2

\* A full batch more is a multiple of the batch size again.
LEMMA OneBatchMore ==
  ASSUME NEW n \in Nat, n % BatchSize = 0
  PROVE  (n + BatchSize) % BatchSize = 0
<1> DEFINE q == n \div BatchSize
<1>1. n = q * BatchSize + (n % BatchSize) /\ q \in Nat
  BY BatchSizeAssumption
<1>2. n + BatchSize = (q + 1) * BatchSize
  BY <1>1, BatchSizeAssumption
<1>3. ((q + 1) * BatchSize) % BatchSize = 0
  BY <1>1, BatchSizeAssumption
<1> QED  BY <1>2, <1>3

\* A step that leaves the threads alone keeps the types if it keeps those of
\* the other variables.
LEMMA TypeFrame ==
  ASSUME TypeInv, UNCHANGED <<input, threads>>, outcome' \in {"running", "ok", "error"},
         pos' \in 2 .. Len(file) + 1, batch' \in Seq(2 .. Len(file)), handing' \in BOOLEAN,
         rows' \in Seq(Kept), failed' \in Nat, processed' \in Nat
  PROVE  TypeInv'
  BY SameInput DEF TypeInv, input, threads

\* A step of the streaming or the sequential path keeps the rest of the invariant.
LEMMA OffParallel ==
  ASSUME CsvInv, path # "parallel", HeaderFits, UNCHANGED <<input, threads>>, TypeInv', CauseInv', ReaderInv',
         handing' => batch' # <<>>,
         path = "streaming" => CountsInv', path = "streaming" /\ loader = "nodes" => BatchesInv'
  PROVE  CsvInv'
  BY SameInput DEF CsvInv, input, threads

\* A turn of the loop over the records.
LEMMA StepTakeRecord ==
  ASSUME CsvInv, path = "streaming", HeaderFits, outcome = "running", NEW refused \in BOOLEAN,
         TakeRecord(refused),
         pos <= Len(file) => IF refused THEN pos \notin Wanted ELSE pos \in Wanted \/ ~Fits(pos)
  PROVE  CsvInv'
<1>1. /\ ~handing /\ pos <= Len(file) /\ pos' = pos + 1
      /\ UNCHANGED <<input, rows, processed, blocks, joined>>
  BY DEF TakeRecord, AtRecord, threads
<1>2. /\ pos \in 2 .. Len(file) /\ pos' \in 2 .. Len(file) + 1 /\ Len(file) \in Nat
      /\ file' = file /\ path' = path /\ loader' = loader /\ ignore' = ignore
      /\ UNCHANGED <<input, threads>>
  BY <1>1, FileFacts DEF CsvInv, TypeInv, threads, input
<1>3. CASE refused
  <2>1. /\ batch' = batch /\ handing' = handing
        /\ failed' = (IF ignore THEN failed + 1 ELSE failed)
        /\ outcome' = IF ignore THEN outcome ELSE "error"
    BY <1>3 DEF TakeRecord, Refuse, stream
  <2>2. TypeInv'
    BY <1>1, <1>2, <2>1, TypeFrame DEF CsvInv, TypeInv
  <2>3. ReaderInv'
    BY <1>1, <1>2, <1>3, <2>1, ReaderSkips DEF CsvInv
  <2>4. CauseInv'
    BY <1>2, <2>1 DEF CauseInv
  <2>5. CountsInv'
    <3>1. /\ Len(rows) \in Nat /\ Len(batch) \in Nat /\ failed \in Nat /\ processed \in Nat
          /\ processed = Len(rows) /\ processed + failed + Len(batch) = pos - 2
      BY DEF CsvInv, TypeInv, CountsInv
    <3> QED  BY <1>1, <1>2, <2>1, <3>1 DEF CountsInv
  <2>6. loader = "nodes" => BatchesInv'
    BY <1>1, <1>2, <2>1 DEF CsvInv, BatchesInv
  <2>7. handing' => batch' # <<>>
    BY <2>1 DEF CsvInv
  <2> QED  BY <1>2, <2>2, <2>3, <2>4, <2>5, <2>6, <2>7, OffParallel
<1>4. CASE ~refused
  <2>1. /\ batch' = Append(batch, pos) /\ handing' = (Len(batch') >= BatchSize)
        /\ failed' = failed /\ outcome' = outcome
    BY <1>4 DEF TakeRecord
  <2>2. batch' \in Seq(2 .. Len(file)) /\ Len(batch') = Len(batch) + 1 /\ Len(batch) \in Nat
    BY <1>2, <2>1, AppendRange DEF CsvInv, TypeInv
  <2>3. TypeInv'
    BY <1>1, <1>2, <2>1, <2>2, TypeFrame DEF CsvInv, TypeInv
  <2>4. ReaderInv'
    BY <1>1, <1>2, <1>4, <2>1, ReaderTakes DEF CsvInv
  <2>5. CauseInv'
    BY <2>1 DEF CauseInv
  <2>6. CountsInv'
    <3>1. /\ Len(rows) \in Nat /\ failed \in Nat /\ processed \in Nat
          /\ processed = Len(rows) /\ processed + failed + Len(batch) = pos - 2
      BY DEF CsvInv, TypeInv, CountsInv
    <3> QED  BY <1>1, <1>2, <2>1, <2>2, <3>1 DEF CountsInv
  <2>7. loader = "nodes" => BatchesInv'
    <3> SUFFICES ASSUME loader = "nodes"
                 PROVE  BatchesInv'
      OBVIOUS
    <3>1. Len(batch) < BatchSize /\ Len(rows) % BatchSize = 0
      BY <1>1, <1>2 DEF CsvInv, BatchesInv
    <3> DEFINE l == Len(batch')
    <3>2. l \in Nat /\ (handing' <=> l >= BatchSize) /\ l < BatchSize + 1 /\ BatchSize \in Nat
      <4>1. handing' <=> l >= BatchSize
        BY <2>1
      <4>2. l \in Nat /\ BatchSize \in Nat /\ l < BatchSize + 1
        BY <2>2, <3>1, BatchSizeAssumption
      <4> QED  BY <4>1, <4>2
    <3> HIDE DEF l
    <3>3. (handing' => l = BatchSize) /\ (~handing' => l < BatchSize)
      BY <3>2
    <3> USE DEF l
    <3> QED  BY <1>1, <3>1, <3>3 DEF BatchesInv
  <2>8. batch' # <<>>
    BY <2>2, EmptyInOrder
  <2> QED  BY <1>2, <2>3, <2>4, <2>5, <2>6, <2>7, <2>8, OffParallel
<1> QED  BY <1>3, <1>4

\* The end of the file, on the streaming path.
LEMMA StepStreamEnd ==
  ASSUME CsvInv, StreamEnd
  PROVE  CsvInv'
<1>1. /\ outcome = "running" /\ HeaderFits /\ path = "streaming" /\ ~handing /\ ~(pos <= Len(file))
      /\ UNCHANGED <<input, pos, batch, rows, failed, processed, blocks, joined>>
      /\ \/ batch = <<>> /\ outcome' = "ok" /\ handing' = handing
         \/ batch # <<>> /\ outcome' = outcome /\ handing' = TRUE
  BY DEF StreamEnd, On, Running, AtRecord, results, threads
<1>2. /\ pos = Len(file) + 1 /\ Wanted' = Wanted
      /\ file' = file /\ path' = path /\ loader' = loader /\ ignore' = ignore
      /\ UNCHANGED <<input, threads>>
  <2>1. pos \in 2 .. Len(file) + 1 /\ Len(file) \in Nat
    BY FileFacts DEF CsvInv, TypeInv
  <2>2. pos = Len(file) + 1
    BY <1>1, <2>1
  <2> QED  BY <1>1, <2>2, SameInput DEF threads, input
<1>3. TypeInv'
  BY <1>1, <1>2, TypeFrame DEF CsvInv, TypeInv
<1>4. ReaderInv'
  BY <1>1, <1>2 DEF CsvInv, ReaderInv, InFileOrder, Fits
<1>5. CauseInv'
  BY <1>1 DEF CauseInv
<1>6. CountsInv'
  BY <1>1, <1>2 DEF CsvInv, CountsInv
<1>7. loader = "nodes" => BatchesInv'
  BY <1>1, <1>2, EmptyInOrder DEF CsvInv, BatchesInv
<1> QED  BY <1>1, <1>2, <1>3, <1>4, <1>5, <1>6, <1>7, OffParallel

\* All of a batch of nodes, or nothing.
LEMMA StepHandOverNodes ==
  ASSUME CsvInv, HandOverNodes
  PROVE  CsvInv'
<1>1. /\ outcome = "running" /\ HeaderFits /\ path = "streaming" /\ loader = "nodes" /\ handing
      /\ UNCHANGED <<input, pos, failed, blocks, joined>>
  BY DEF HandOverNodes, On, Running, InsertNodes, threads
<1>2. /\ Wanted' = Wanted
      /\ file' = file /\ path' = path /\ loader' = loader /\ ignore' = ignore
      /\ UNCHANGED <<input, threads>>
  BY <1>1, SameInput DEF threads, input
<1>3. /\ Len(rows) \in Nat /\ Len(batch) \in Nat /\ failed \in Nat /\ processed \in Nat
      /\ rows \in Seq(2 .. Len(file)) /\ batch \in Seq(2 .. Len(file))
      /\ processed = Len(rows) /\ processed + failed + Len(batch) = pos - 2
      /\ handing /\ batch # <<>> /\ Len(rows) % BatchSize = 0
      /\ Len(batch) = BatchSize \/ pos = Len(file) + 1
  BY <1>1 DEF CsvInv, TypeInv, Kept, CountsInv, BatchesInv
<1>4. CASE \A n \in DOMAIN batch : Fits(batch[n])
  <2>1. /\ rows' = rows \o batch /\ processed' = processed + Len(batch)
        /\ batch' = <<>> /\ handing' = FALSE /\ outcome' = outcome
    BY <1>4 DEF HandOverNodes, InsertNodes
  <2>2. rows' \in Seq(2 .. Len(file)) /\ Len(rows') = Len(rows) + Len(batch)
    BY <1>3, <2>1
  <2>3. TypeInv'
    <3>1. batch' \in Seq(2 .. Len(file)) /\ processed' \in Nat
      BY <1>3, <2>1
    <3> QED  BY <1>1, <1>2, <2>1, <2>2, <3>1, TypeFrame DEF CsvInv, TypeInv, Kept
  <2>4. ReaderInv'
    BY <1>1, <1>4, <2>1, ReaderInserts DEF CsvInv
  <2>5. CauseInv'
    BY <1>1, <2>1 DEF CauseInv
  <2>6. CountsInv'
    BY <1>1, <1>3, <2>1, <2>2, EmptyInOrder DEF CountsInv
  <2>7. BatchesInv'
    <3>1. Len(batch) = BatchSize => Len(rows') % BatchSize = 0
      BY <1>3, <2>2, OneBatchMore
    <3> QED  BY <1>1, <1>2, <1>3, <2>1, <3>1, EmptyInOrder, BatchSizeAssumption DEF BatchesInv
  <2>8. path # "parallel" /\ (handing' => batch' # <<>>)
    BY <1>1, <2>1
  <2> QED  BY <1>1, <1>2, <2>3, <2>4, <2>5, <2>6, <2>7, <2>8, OffParallel
<1>5. CASE ~\A n \in DOMAIN batch : Fits(batch[n])
  <2>1. outcome' = "error" /\ UNCHANGED <<rows, processed, batch, handing>>
    BY <1>5 DEF HandOverNodes, InsertNodes, stream
  <2>2. TypeInv'
    BY <1>1, <1>2, <2>1, TypeFrame DEF CsvInv, TypeInv
  <2>3. ReaderInv'
    BY <1>1, <1>2, <2>1 DEF CsvInv, ReaderInv, InFileOrder, Fits
  <2>4. CauseInv'
    <3>1. PICK n \in DOMAIN batch : ~Fits(batch[n])
      BY <1>5
    <3>2. batch[n] \in 2 .. Len(file) /\ file[batch[n]].kind = "unfit"
      BY <1>3, <3>1 DEF Fits
    <3> QED  BY <1>1, <1>2, <3>2 DEF CauseInv
  <2>5. CountsInv'
    BY <2>1 DEF CountsInv
  <2>6. BatchesInv'
    BY <1>1, <1>2, <1>3, <2>1 DEF BatchesInv
  <2>7. path # "parallel" /\ (handing' => batch' # <<>>)
    BY <1>1, <1>3, <2>1
  <2> QED  BY <1>1, <1>2, <2>2, <2>3, <2>4, <2>5, <2>6, <2>7, OffParallel
<1> QED  BY <1>4, <1>5

\* One relationship of a batch.
LEMMA StepHandOverRels ==
  ASSUME CsvInv, HandOverRels
  PROVE  CsvInv'
<1>1. /\ outcome = "running" /\ HeaderFits /\ path = "streaming" /\ loader = "rels"
      /\ UNCHANGED <<input, pos, blocks, joined>>
      /\ batch' = Tail(batch) /\ handing' = (batch' # <<>>)
      /\ \/ /\ Fits(Head(batch)) /\ rows' = Append(rows, Head(batch))
            /\ processed' = processed + 1 /\ UNCHANGED <<failed, outcome>>
         \/ /\ ~Fits(Head(batch)) /\ UNCHANGED <<rows, processed>>
            /\ \/ ignore /\ failed' = failed + 1 /\ outcome' = outcome
               \/ ~ignore /\ outcome' = "error" /\ failed' = failed
      /\ batch # <<>>
  BY DEF HandOverRels, On, Running, InsertRel, Refuse, threads, CsvInv
<1>2. /\ file' = file /\ path' = path /\ loader' = loader /\ ignore' = ignore
      /\ UNCHANGED <<input, threads>>
  BY <1>1 DEF threads, input
<1>3. /\ Len(rows) \in Nat /\ Len(batch) \in Nat /\ failed \in Nat /\ processed \in Nat
      /\ rows \in Seq(2 .. Len(file)) /\ batch \in Seq(2 .. Len(file))
      /\ processed = Len(rows) /\ processed + failed + Len(batch) = pos - 2
  BY <1>1 DEF CsvInv, TypeInv, Kept, CountsInv
<1>4. Head(batch) \in 2 .. Len(file) /\ batch' \in Seq(2 .. Len(file)) /\ Len(batch') = Len(batch) - 1
  <2>1. batch # <<>> /\ batch' = Tail(batch)
    BY <1>1
  <2> QED  BY <1>3, <2>1
<1>5. /\ rows' \in Seq(2 .. Len(file)) /\ failed' \in Nat /\ processed' \in Nat
      /\ outcome' # "error" => processed' = Len(rows') /\ processed' + failed' + Len(batch') = pos - 2
  <2>1. /\ Append(rows, Head(batch)) \in Seq(2 .. Len(file))
        /\ Len(Append(rows, Head(batch))) = Len(rows) + 1
    BY <1>3, <1>4, AppendRange
  <2>2. pos \in Nat /\ Len(batch') = Len(batch) - 1
    BY <1>4, FileFacts DEF CsvInv, TypeInv
  <2>3. CASE rows' = Append(rows, Head(batch)) /\ processed' = processed + 1 /\ failed' = failed
    BY <1>3, <2>1, <2>2, <2>3
  <2>4. CASE rows' = rows /\ processed' = processed /\ failed' = failed + 1
    BY <1>3, <2>2, <2>4
  <2>5. CASE rows' = rows /\ processed' = processed /\ failed' = failed /\ outcome' = "error"
    BY <1>3, <2>5
  <2> QED  BY <1>1, <2>3, <2>4, <2>5
<1>6. TypeInv'
  BY <1>1, <1>2, <1>4, <1>5, TypeFrame DEF CsvInv, TypeInv, Kept
<1>7. ReaderInv'
  BY <1>1, ReaderInsertsOne DEF CsvInv
<1>8. CauseInv'
  BY <1>1, <1>2 DEF CauseInv
<1>9. CountsInv'
  BY <1>1, <1>5 DEF CountsInv
<1> QED  BY <1>1, <1>2, <1>6, <1>7, <1>8, <1>9, OffParallel

\* A turn of the loop of the sequential loaders.
LEMMA StepKeepRecord ==
  ASSUME CsvInv, path = "sequential", HeaderFits, outcome = "running", pos <= Len(file),
         NEW refused \in BOOLEAN, KeepRecord(refused),
         (ReaderRefuses(pos) \/ refused) <=> pos \notin Wanted
  PROVE  CsvInv'
<1>1. /\ pos' = pos + 1
      /\ UNCHANGED <<input, batch, handing, blocks, joined>>
  BY DEF KeepRecord, stream, threads
<1>2. /\ pos \in 2 .. Len(file) /\ pos' \in 2 .. Len(file) + 1 /\ Len(file) \in Nat
      /\ file' = file /\ path' = path /\ loader' = loader /\ ignore' = ignore
      /\ UNCHANGED <<input, threads>> /\ path # "parallel" /\ path # "streaming"
  BY <1>1, FileFacts DEF CsvInv, TypeInv, threads, input
<1>3. processed' \in Nat
  BY BatchSizeAssumption DEF KeepRecord, CsvInv, TypeInv
<1>4. CASE pos \notin Wanted
  <2>1. /\ rows' = rows /\ failed' = (IF ignore THEN failed + 1 ELSE failed)
        /\ outcome' = IF ignore THEN outcome ELSE "error"
    BY <1>4 DEF KeepRecord, Refuse
  <2>2. TypeInv'
    BY <1>1, <1>2, <1>3, <2>1, TypeFrame DEF CsvInv, TypeInv
  <2>3. ReaderInv'
    BY <1>1, <1>2, <1>4, <2>1, ReaderSkips DEF CsvInv
  <2>4. CauseInv'
    BY <1>2, <2>1 DEF CauseInv
  <2>5. handing' => batch' # <<>>
    BY <1>1 DEF CsvInv
  <2> QED  BY <1>2, <2>2, <2>3, <2>4, <2>5, OffParallel
<1>5. CASE pos \in Wanted
  <2>1. rows' = Append(rows, pos) /\ failed' = failed /\ outcome' = outcome
    BY <1>5 DEF KeepRecord
  <2>2. rows' \in Seq(2 .. Len(file))
    BY <1>2, <2>1, AppendRange DEF CsvInv, TypeInv, Kept
  <2>3. TypeInv'
    BY <1>1, <1>2, <1>3, <2>1, <2>2, TypeFrame DEF CsvInv, TypeInv, Kept
  <2>4. ReaderInv'
    BY <1>1, <1>2, <1>5, <2>1, ReaderKeeps DEF CsvInv
  <2>5. CauseInv'
    BY <1>2, <2>1 DEF CauseInv
  <2>6. handing' => batch' # <<>>
    BY <1>1 DEF CsvInv
  <2> QED  BY <1>2, <2>3, <2>4, <2>5, <2>6, OffParallel
<1> QED  BY <1>4, <1>5

\* The end of the file, on the sequential path.
LEMMA StepLoadEnd ==
  ASSUME CsvInv, LoadEnd
  PROVE  CsvInv'
<1>1. /\ outcome = "running" /\ outcome' = "ok" /\ HeaderFits /\ path = "sequential"
      /\ ~(pos <= Len(file)) /\ processed' = processed + (Len(rows) % BatchSize)
      /\ UNCHANGED <<input, pos, batch, handing, rows, failed, blocks, joined>>
  BY DEF LoadEnd, On, Running, AtRecord, stream, threads
<1>2. /\ pos = Len(file) + 1 /\ Wanted' = Wanted
      /\ file' = file /\ path' = path /\ loader' = loader /\ ignore' = ignore
      /\ UNCHANGED <<input, threads>>
  <2>1. pos \in 2 .. Len(file) + 1 /\ Len(file) \in Nat
    BY FileFacts DEF CsvInv, TypeInv
  <2>2. pos = Len(file) + 1
    BY <1>1, <2>1
  <2> QED  BY <1>1, <2>2, SameInput DEF threads, input
<1>3. processed' \in Nat
  BY <1>1, BatchSizeAssumption DEF CsvInv, TypeInv
<1>4. TypeInv'
  BY <1>1, <1>2, <1>3, TypeFrame DEF CsvInv, TypeInv
<1>5. ReaderInv'
  BY <1>1, <1>2 DEF CsvInv, ReaderInv, InFileOrder, Fits
<1>6. CauseInv'
  BY <1>1 DEF CauseInv
<1>7. handing' => batch' # <<>>
  BY <1>1 DEF CsvInv
<1>8. path # "parallel" /\ path # "streaming"
  BY <1>1
<1> QED  BY <1>1, <1>2, <1>4, <1>5, <1>6, <1>7, <1>8, OffParallel

-----------------------------------------------------------------------------
(* The blocks of the parallel path *)

\* The first record of a set, or the end, exists.
LEMMA FirstOfFacts ==
  ASSUME NEW S, NEW end \in Nat, end >= 2
  PROVE  /\ FirstOf(S, end) \in 2 .. end
         /\ FirstOf(S, end) \in S \/ FirstOf(S, end) = end
         /\ \A j \in 2 .. FirstOf(S, end) - 1 : j \notin S
<1> DEFINE T == {i \in 2 .. end : i \in S \/ i = end}
<1>1. T \in SUBSET Nat /\ end \in T
  OBVIOUS
<1>2. PICK m \in T : \A i \in T : m <= i
  <2> HIDE DEF T
  <2>1. PICK m \in T : \A i \in T : ~(<<i, m>> \in OpToRel(<, Nat))
    BY <1>1, NatLessThanWellFounded, WFMin
  <2>2. \A i \in T : ~(i < m)
    BY <1>1, <2>1 DEF OpToRel
  <2> QED  BY <1>1, <2>2
<1>3. m \in 2 .. end /\ (m \in S \/ m = end) /\ \A j \in 2 .. m - 1 : j \notin S
  <2>1. \A j \in 2 .. m - 1 : j \in S => j \in T
    BY <1>1
  <2> QED  BY <1>1, <1>2, <2>1
<1> QED  BY <1>3 DEF FirstOf

\* The blocks cover the file.
LEMMA BlocksCover ==
  ASSUME InputOK
  PROVE  /\ NumBlocks \in Nat /\ file_size <= NumBlocks * BlockSize
         /\ \A k \in Blocks : k \in Nat /\ k + 1 \in 0 .. NumBlocks
<1> DEFINE y == file_size + BlockSize - 1
           q == y \div BlockSize
<1>1. y \in Nat /\ file_size \in Nat /\ BlockSize \in Nat /\ BlockSize > 0
  BY FileFacts, BlockSizeAssumption
<1>2. q \in Nat /\ q * BlockSize <= y /\ y < q * BlockSize + BlockSize
  <2> HIDE DEF y
  <2> QED  BY <1>1
<1>3. q * BlockSize \in Nat
  <2> HIDE DEF q
  <2> QED  BY <1>1, <1>2
<1>4. file_size <= q * BlockSize
  BY <1>1, <1>2, <1>3
<1>5. NumBlocks = q
  BY DEF NumBlocks
<1> QED  BY <1>2, <1>4, <1>5 DEF Blocks

\* The search for a newline ends at the next line, or at the end of the file.
LEMMA SeekFacts ==
  ASSUME InputOK, NEW o \in Nat
  PROVE  LET l == SeekToRowStart(o)
         IN  /\ l \in Nat /\ l <= file_size /\ (l \in lines \/ l = file_size)
             /\ l > o \/ l = file_size
             /\ \A m \in lines : m > o => l <= m
<1> DEFINE T == {l \in lines \cup {file_size} : l > o \/ l = file_size}
<1>1. T \in SUBSET Nat /\ file_size \in T /\ \A l \in T : l <= file_size
  BY FileFacts
<1>2. PICK n \in T : \A i \in T : n <= i
  <2> HIDE DEF T
  <2>1. PICK n \in T : \A i \in T : ~(<<i, n>> \in OpToRel(<, Nat))
    BY <1>1, NatLessThanWellFounded, WFMin
  <2>2. \A i \in T : ~(i < n)
    BY <1>1, <2>1 DEF OpToRel
  <2> QED  BY <1>1, <2>2
<1>3. /\ n \in lines \cup {file_size} /\ (n > o \/ n = file_size)
      /\ \A m \in lines : m > o => n <= m
  BY <1>2
<1> DEFINE l == SeekToRowStart(o)
<1>4. /\ l \in lines \cup {file_size} /\ (l > o \/ l = file_size)
      /\ \A m \in lines : m > o => l <= m
  BY <1>3 DEF SeekToRowStart
<1> HIDE DEF l
<1>5. l \in Nat /\ l <= file_size
  BY <1>4, FileFacts
<1> QED  BY <1>4, <1>5 DEF l

\* A later block starts with a line.
LEMMA ActualStartFacts ==
  ASSUME InputOK, NEW k \in Nat
  PROVE  /\ k * BlockSize \in Nat /\ ActualStart(k) \in Nat /\ ActualStart(k) <= file_size
         /\ k = 0 => ActualStart(k) = 0
         /\ k # 0 => /\ ActualStart(k) \in lines \/ ActualStart(k) = file_size
                     /\ ActualStart(k) > k * BlockSize \/ ActualStart(k) = file_size
                     /\ \A m \in lines : m > k * BlockSize => ActualStart(k) <= m
<1>1. k * BlockSize \in Nat /\ file_size \in Nat
  BY BlockSizeAssumption, FileFacts
<1>2. CASE k = 0
  BY <1>1, <1>2 DEF ActualStart
<1>3. CASE k # 0
  <2>1. ActualStart(k) = SeekToRowStart(k * BlockSize)
    BY <1>3 DEF ActualStart, BlockStart
  <2> QED  BY <1>1, <1>3, <2>1, SeekFacts
<1> QED  BY <1>2, <1>3

\* The records in front of a later block are those that start in front of its line.
LEMMA FirstRowAt ==
  ASSUME InputOK, NEW k \in Nat
  PROVE  /\ FirstRow(k) \in 2 .. Len(file) + 1
         /\ k # 0 => \A i \in 2 .. Len(file) : i < FirstRow(k) <=> StartOf(i) < ActualStart(k)
         /\ \A i \in 2 .. Len(file) : FirstRow(k) <= i => ActualStart(k) <= StartOf(i)
<1> DEFINE S == {i \in 2 .. Len(file) : StartOf(i) >= ActualStart(k)}
           f == FirstRow(k)
<1>1. Len(file) \in Nat /\ Len(file) >= 1 /\ ActualStart(k) \in Nat
  BY FileFacts, ActualStartFacts
<1>2. \A i \in 2 .. Len(file) : StartOf(i) \in Nat
  <2> TAKE i \in 2 .. Len(file)
  <2>1. i \in 1 .. Len(file)
    OBVIOUS
  <2> QED  BY <2>1, FileFacts
<1>3. CASE k = 0
  <2>1. f = 2 /\ ActualStart(k) = 0
    BY <1>3, ActualStartFacts DEF FirstRow
  <2> QED  BY <1>1, <1>2, <1>3, <2>1
<1>4. CASE k # 0
  <2>1. f = FirstOf(S, Len(file) + 1)
    BY <1>4 DEF FirstRow
  <2>2. f \in 2 .. Len(file) + 1 /\ (f \in S \/ f = Len(file) + 1) /\ \A j \in 2 .. f - 1 : j \notin S
    <3> HIDE DEF S, f
    <3>1. Len(file) + 1 \in Nat /\ Len(file) + 1 >= 2
      BY <1>1
    <3> QED  BY <2>1, <3>1, FirstOfFacts
  <2> HIDE DEF f
  <2> SUFFICES ASSUME NEW i \in 2 .. Len(file)
               PROVE  i < f <=> StartOf(i) < ActualStart(k)
    BY <1>1, <1>2, <1>4, <2>2 DEF f
  <2>3. StartOf(i) < ActualStart(k) <=> i \notin S
    BY <1>1, <1>2
  <2>4. CASE i < f
    BY <1>1, <2>2, <2>3, <2>4
  <2>5. CASE i >= f
    <3>1. f \in S /\ f \in 2 .. Len(file)
      BY <1>1, <2>2, <2>5
    <3>2. StartOf(f) >= ActualStart(k) /\ StartOf(f) <= StartOf(i)
      <4>1. f = i \/ f \in 1 .. i - 1
        BY <2>5, <3>1
      <4>2. f \in 1 .. i - 1 => StartOf(f) <= StartOf(i)
        BY FileFacts
      <4> QED  BY <1>2, <3>1, <4>1, <4>2
    <3> QED  BY <1>1, <1>2, <2>2, <2>5, <3>1, <3>2
  <2> QED  BY <1>1, <2>2, <2>4, <2>5
<1> QED  BY <1>3, <1>4

\* If records begin lines, those in front of block k are the records that start
\* at its first byte or before it.
LEMMA FirstRowFacts ==
  ASSUME InputOK, RowsBeginLines, NEW k \in Nat, k # 0
  PROVE  \A i \in 2 .. Len(file) : i < FirstRow(k) <=> StartOf(i) <= k * BlockSize
<1> SUFFICES ASSUME NEW i \in 2 .. Len(file)
             PROVE  StartOf(i) < ActualStart(k) <=> StartOf(i) <= k * BlockSize
  BY FirstRowAt
<1>1. /\ k * BlockSize \in Nat /\ ActualStart(k) \in Nat
      /\ ActualStart(k) > k * BlockSize \/ ActualStart(k) = file_size
      /\ \A m \in lines : m > k * BlockSize => ActualStart(k) <= m
  BY ActualStartFacts
<1>2. StartOf(i) \in Nat /\ StartOf(i) < file_size /\ file_size \in Nat
  <2>1. i \in 1 .. Len(file)
    OBVIOUS
  <2> QED  BY <2>1, FileFacts
<1>3. StartOf(i) = 0 \/ StartOf(i) \in lines
  BY DEF RowsBeginLines
<1> QED  BY <1>1, <1>2, <1>3

\* The first block starts with the first record, and none follows the last block.
LEMMA FirstRowEnds ==
  ASSUME InputOK
  PROVE  FirstRow(0) = 2 /\ (RowsBeginLines => FirstRow(NumBlocks) = Len(file) + 1)
<1>1. FirstRow(0) = 2
  BY DEF FirstRow
<1> DEFINE f == FirstRow(NumBlocks)
<1>2. f \in 2 .. Len(file) + 1 /\ Len(file) \in Nat
  BY FirstRowAt, BlocksCover, FileFacts
<1>3. ASSUME RowsBeginLines, f \in 2 .. Len(file)
      PROVE  FALSE
  <2>1. f \in 1 .. Len(file) /\ ~(f < f)
    BY <1>3
  <2>2. StartOf(f) < file_size /\ StartOf(f) \in Nat /\ file_size \in Nat
    BY <1>3, <2>1, FileFacts
  <2>3. NumBlocks \in Nat /\ NumBlocks * BlockSize \in Nat /\ file_size <= NumBlocks * BlockSize
    BY BlocksCover, ActualStartFacts
  <2>4. NumBlocks # 0
    <3>1. NumBlocks = 0 => NumBlocks * BlockSize = 0
      BY BlockSizeAssumption
    <3> QED  BY <2>2, <2>3, <3>1
  <2>5. ~(StartOf(f) <= NumBlocks * BlockSize)
    BY <1>3, <2>1, <2>3, <2>4, FirstRowFacts
  <2> QED  BY <2>2, <2>3, <2>5
<1> QED  BY <1>1, <1>2, <1>3

\* The end of a block and of its slice.
LEMMA EndFacts ==
  ASSUME InputOK, NEW k \in Blocks
  PROVE  /\ k \in Nat /\ k + 1 \in Nat /\ k + 1 # 0 /\ k * BlockSize \in Nat /\ file_size \in Nat
         /\ BlockSize \in Nat /\ BlockSize > 0
         /\ (k + 1) * BlockSize = k * BlockSize + BlockSize
         /\ BlockEnd(k) = IF k * BlockSize + BlockSize < file_size
                          THEN k * BlockSize + BlockSize ELSE file_size
         /\ BlockEnd(k) \in Nat /\ SliceEnd(k) \in Nat
         /\ \A n \in Nat : n < file_size /\ n <= BlockEnd(k) => n < SliceEnd(k)
<1>1. k \in Nat /\ BlockSize \in Nat /\ BlockSize > 0 /\ file_size \in Nat
  BY BlocksCover, BlockSizeAssumption, FileFacts
<1>2. k * BlockSize \in Nat /\ (k + 1) * BlockSize = k * BlockSize + BlockSize
  BY <1>1
<1>3. BlockEnd(k) = IF k * BlockSize + BlockSize < file_size
                    THEN k * BlockSize + BlockSize ELSE file_size
  BY DEF BlockEnd, BlockStart
<1>4. BlockEnd(k) \in Nat
  BY <1>1, <1>2, <1>3
<1>5. SliceEnd(k) \in Nat /\ \A n \in Nat : n < file_size /\ n <= BlockEnd(k) => n < SliceEnd(k)
  BY <1>1, <1>4 DEF SliceEnd
<1> QED  BY <1>1, <1>2, <1>3, <1>4, <1>5

\* A block goes on to the first record of the next one, or if a line break
\* crosses its end, to the record behind that.
LEMMA InBlockFacts ==
  ASSUME InputOK, RowsBeginLines, NEW k \in Blocks
  PROVE  /\ FirstRow(k) <= FirstRow(k + 1)
         /\ \A i \in 2 .. Len(file) : i < FirstRow(k + 1) <=> StartOf(i) <= BlockEnd(k)
         /\ \A i \in 2 .. Len(file) + 1 : FirstRow(k) <= i /\ i < FirstRow(k + 1) => InBlock(k, i)
         /\ BreaksInBlocks =>
              \A i \in 2 .. Len(file) + 1 : FirstRow(k) <= i /\ InBlock(k, i) => i < FirstRow(k + 1)
<1> DEFINE a == FirstRow(k)
           b == FirstRow(k + 1)
<1>1. /\ k \in Nat /\ k + 1 \in Nat /\ k + 1 # 0 /\ k * BlockSize \in Nat
      /\ BlockSize \in Nat /\ BlockSize > 0 /\ BlockEnd(k) \in Nat
      /\ file_size \in Nat /\ Len(file) \in Nat /\ Len(file) >= 1
  BY EndFacts, FileFacts
<1>2. \A i \in 2 .. Len(file) : i \in 1 .. Len(file) /\ StartOf(i) \in Nat /\ StartOf(i) < file_size
  <2> TAKE i \in 2 .. Len(file)
  <2>1. i \in 1 .. Len(file)
    OBVIOUS
  <2> QED  BY <2>1, FileFacts
<1>3. a \in 2 .. Len(file) + 1 /\ b \in 2 .. Len(file) + 1
  BY <1>1, FirstRowAt
<1>4. \A i \in 2 .. Len(file) : i < b <=> StartOf(i) <= k * BlockSize + BlockSize
  BY <1>1, EndFacts, FirstRowFacts
<1>5. \A i \in 2 .. Len(file) : i < b <=> StartOf(i) <= BlockEnd(k)
  <2> HIDE DEF b
  <2>1. BlockEnd(k) = IF k * BlockSize + BlockSize < file_size
                      THEN k * BlockSize + BlockSize ELSE file_size
    BY EndFacts
  <2> QED  BY <1>1, <1>2, <1>4, <2>1
<1>6. a <= b
  <2>1. ASSUME b < a
        PROVE  FALSE
    <3>1. b \in 2 .. Len(file) /\ ~(b < b)
      BY <1>1, <1>3, <2>1
    <3>2. k # 0
      BY <1>3, <2>1, FirstRowEnds
    <3>3. StartOf(b) <= k * BlockSize
      BY <1>1, <2>1, <3>1, <3>2, FirstRowFacts
    <3>4. ~(StartOf(b) <= k * BlockSize + BlockSize)
      BY <1>4, <3>1
    <3>5. StartOf(b) \in Nat
      BY <1>2, <3>1
    <3> QED  BY <1>1, <3>3, <3>4, <3>5
  <2> QED  BY <1>3, <2>1
<1>7. ASSUME NEW i \in 2 .. Len(file) + 1, a <= i
      PROVE  i < b => InBlock(k, i)
  <2> SUFFICES ASSUME i < b
               PROVE  InBlock(k, i)
    OBVIOUS
  <2>1. i \in 2 .. Len(file) /\ i - 1 \in 1 .. i - 1
    BY <1>1, <1>3
  <2>2. StartOf(i) <= BlockEnd(k) /\ StartOf(i) \in Nat /\ StartOf(i) < SliceEnd(k)
    BY <1>2, <1>5, <2>1, EndFacts
  <2>3. Behind(i - 1) \in Nat /\ Behind(i - 1) <= StartOf(i)
    BY <2>1, FileFacts
  <2>4. ActualStart(k) \in Nat /\ ActualStart(k) <= StartOf(i)
    BY <1>1, <1>7, <2>1, ActualStartFacts, FirstRowAt
  <2>5. Position(k, i) <= BlockEnd(k)
    BY <1>1, <2>2, <2>3, <2>4 DEF Position
  <2> QED  BY <2>1, <2>2, <2>5 DEF InBlock
<1>8. ASSUME BreaksInBlocks, NEW i \in 2 .. Len(file) + 1, a <= i, InBlock(k, i), ~(i < b)
      PROVE  FALSE
  <2>1. i \in 2 .. Len(file) /\ i - 1 \in 1 .. i - 1 /\ i - 1 \in 1 .. Len(file)
    BY <1>1, <1>8 DEF InBlock
  <2>2. StartOf(i) \in Nat /\ BlockEnd(k) < StartOf(i) /\ Position(k, i) <= BlockEnd(k)
    BY <1>1, <1>2, <1>5, <1>8, <2>1 DEF InBlock
  <2>3. ~(Behind(i - 1) <= BlockEnd(k))
    BY <1>8, <2>1, <2>2 DEF BreaksInBlocks
  <2>4. k # 0 /\ i = a /\ ActualStart(k) <= BlockEnd(k)
    BY <2>2, <2>3 DEF Position
  <2>5. ActualStart(k) \in Nat /\ ActualStart(k) <= StartOf(i) /\ ActualStart(k) < file_size
    <3>1. StartOf(i) < file_size
      BY <1>2, <2>1
    <3>2. ActualStart(k) \in Nat
      BY <1>1, ActualStartFacts
    <3> QED  BY <1>1, <2>2, <2>4, <3>1, <3>2
  <2>6. ActualStart(k) \in lines
    BY <1>1, <2>4, <2>5, ActualStartFacts
  <2>7. StartOf(i - 1) < ActualStart(k) /\ StartOf(i - 1) \in Nat /\ file[i - 1].stop \in Nat
    <3>1. StartOf(i - 1) \in Nat /\ file[i - 1].stop \in Nat
      BY <2>1, FileFacts
    <3>2. CASE i = 2
      <4>1. StartOf(i - 1) = 0 /\ ActualStart(k) > 0
        BY <2>6, <3>2, FileFacts
      <4> QED  BY <3>1, <4>1
    <3>3. CASE i # 2
      <4>1. i - 1 \in 2 .. Len(file) /\ i - 1 < a
        BY <2>1, <2>4, <3>3
      <4> QED  BY <1>1, <2>4, <3>1, <4>1, FirstRowAt
    <3> QED  BY <3>2, <3>3
  <2>8. file[i - 1].stop < ActualStart(k)
    BY <2>1, <2>5, <2>6, <2>7, FileFacts
  <2> QED  BY <1>1, <2>3, <2>4, <2>5, <2>7, <2>8 DEF Behind
<1> QED  BY <1>5, <1>6, <1>7, <1>8

\* A line ends less than a block behind its beginning.
LEMMA LinesAreShort ==
  ASSUME InputOK, LinesFitBlocks, NEW o \in Nat, NEW l \in Nat, l > 0,
         l \in lines \/ l = file_size, \A m \in lines : m > o => l <= m
  PROVE  l < o + BlockSize
<1>1. PICK m \in {0} \cup lines : m < l /\ l - m < BlockSize
  BY DEF LinesFitBlocks
<1>2. m \in Nat /\ BlockSize \in Nat
  BY <1>1, FileFacts, BlockSizeAssumption
<1>3. m <= o
  BY <1>1, <1>2
<1> QED  BY <1>1, <1>2, <1>3

\* No record starts in a block that is empty, if lines are shorter than blocks.
LEMMA EmptyBlockFacts ==
  ASSUME InputOK, Lined, NEW k \in Blocks, EmptyBlock(k)
  PROVE  FirstRow(k + 1) = FirstRow(k)
<1> DEFINE a == FirstRow(k)
           b == FirstRow(k + 1)
           e == k * BlockSize + BlockSize
<1>1. /\ k \in Nat /\ k + 1 \in Nat /\ k * BlockSize \in Nat /\ file_size \in Nat
      /\ BlockSize \in Nat /\ BlockSize > 0 /\ Len(file) \in Nat
      /\ BlockEnd(k) = (IF e < file_size THEN e ELSE file_size)
  BY EndFacts, FileFacts
<1>2. a \in 2 .. Len(file) + 1 /\ b \in 2 .. Len(file) + 1 /\ a <= b
  BY <1>1, FirstRowAt, InBlockFacts DEF Lined
<1>3. ASSUME a < b
      PROVE  FALSE
  <2>1. a \in 2 .. Len(file) /\ a \in 1 .. Len(file)
    BY <1>1, <1>2, <1>3
  <2>2. /\ StartOf(a) \in Nat /\ StartOf(a) < file_size /\ ActualStart(k) <= StartOf(a)
        /\ ActualStart(k) \in Nat
    <3>1. StartOf(a) \in Nat /\ StartOf(a) < file_size
      BY <2>1, FileFacts
    <3>2. a <= a
      BY <2>1
    <3> HIDE DEF a
    <3>3. ActualStart(k) <= StartOf(a) /\ ActualStart(k) \in Nat
      BY <1>1, <2>1, <3>2, FirstRowAt, ActualStartFacts DEF a
    <3> QED  BY <3>1, <3>3
  <2>3. ActualStart(k) >= BlockEnd(k) /\ e < file_size /\ BlockEnd(k) = e
    <3> HIDE DEF e, a
    <3> QED  BY <1>1, <2>2 DEF EmptyBlock
  <2>4. k # 0
    BY <1>1, <2>3, ActualStartFacts
  <2>5. ActualStart(k) < k * BlockSize + BlockSize
    <3>1. /\ ActualStart(k) \in lines \/ ActualStart(k) = file_size
          /\ \A m \in lines : m > k * BlockSize => ActualStart(k) <= m
      BY <1>1, <2>4, ActualStartFacts
    <3>2. ActualStart(k) > 0
      BY <1>1, <2>2, <2>3
    <3> QED  BY <1>1, <2>2, <3>1, <3>2, LinesAreShort DEF Lined
  <2> QED  BY <1>1, <2>2, <2>3, <2>5
<1> QED  BY <1>2, <1>3

\* A record of a block is not cut off, if lines are shorter than blocks.
LEMMA NotCutOff ==
  ASSUME InputOK, Lined, NEW k \in Blocks, NEW i \in 2 .. Len(file), StartOf(i) <= BlockEnd(k)
  PROVE  ~CutOff(k, i)
<1> DEFINE l == SeekToRowStart(StartOf(i))
<1>1. /\ i \in 1 .. Len(file) /\ StartOf(i) \in Nat /\ file[i].stop \in Nat
      /\ StartOf(i) < file[i].stop /\ file[i].stop <= file_size
      /\ StartOf(i) < file_size /\ file_size \in Nat
  <2>1. i \in 1 .. Len(file)
    OBVIOUS
  <2> QED  BY <2>1, FileFacts
<1>2. /\ l \in Nat /\ l <= file_size /\ (l \in lines \/ l = file_size)
      /\ l > StartOf(i) \/ l = file_size
      /\ \A m \in lines : m > StartOf(i) => l <= m
  BY <1>1, SeekFacts
<1> HIDE DEF l
<1>3. l < StartOf(i) + BlockSize
  BY <1>1, <1>2, LinesAreShort DEF Lined
<1>4. file[i].stop <= l
  BY <1>1, <1>2, FileFacts
<1>5. BlockEnd(k) \in Nat /\ BlockSize \in Nat
  BY EndFacts
<1> QED  BY <1>1, <1>2, <1>3, <1>4, <1>5 DEF CutOff, SliceEnd

\* A thread keeps the records of its block that are wanted.
LEMMA BlockRefuses ==
  ASSUME InputOK, path = "parallel", Lined, NEW k \in Blocks, ~QuotedNewline(k),
         NEW i \in 2 .. Len(file), FirstRow(k) <= i, i < FirstRow(k + 1)
  PROVE  ~CutOff(k, i) /\ (RowRefused(i) <=> i \notin Wanted)
<1>1. /\ k \in Nat /\ i \in 1 .. Len(file) /\ i \in DOMAIN file /\ Len(file) \in Nat
      /\ SliceEnd(k) \in Nat
  BY EndFacts, FileFacts
<1>2. StartOf(i) \in Nat /\ StartOf(i) < file_size
  BY <1>1, FileFacts
<1>3. StartOf(i) <= BlockEnd(k) /\ StartOf(i) < SliceEnd(k)
  BY <1>2, InBlockFacts, EndFacts DEF Lined
<1>4. ActualStart(k) \in Nat /\ ActualStart(k) <= StartOf(i)
  BY <1>1, ActualStartFacts, FirstRowAt
<1>5. StartOf(i) \in ActualStart(k) .. SliceEnd(k) - 1
  BY <1>1, <1>2, <1>3, <1>4
<1>6. file[i].kind # "multiline"
  BY <1>1, <1>5 DEF QuotedNewline
<1>7. ~CutOff(k, i)
  BY <1>3, NotCutOff
<1>8. file[i].kind \in Kinds /\ loader \in {"nodes", "rels"}
  BY FileFacts DEF InputOK
<1>9. RowRefused(i) <=> i \notin Wanted
  BY <1>6, <1>8 DEF RowRefused, NodeRowRefused, RelRowRefused, RelRecordRefused,
     FieldRefused,
     Wanted, Unwanted
<1> QED  BY <1>7, <1>9

\* What is read up to a record depends on the result of the block only.
LEMMA BlockFrame ==
  ASSUME UNCHANGED input, NEW k \in Blocks, InputOK, blocks'[k] = blocks[k], BlockInv(k)
  PROVE  BlockInv(k)'
<1>1. k \in Nat /\ k + 1 \in Nat
  BY BlocksCover
<1>2. /\ FirstRow(k)' = FirstRow(k) /\ QuotedNewline(k)' = QuotedNewline(k)
      /\ FirstRow(k + 1)' = FirstRow(k + 1) /\ Wanted' = Wanted
      /\ Lined' = Lined /\ Exact' = Exact /\ HasMultiline' = HasMultiline
      /\ file' = file /\ ignore' = ignore
  BY <1>1, SameInput DEF input
<1> QED  BY <1>2 DEF BlockInv, ReadAll, Taken, ReadUpTo, Holds, AllWanted, InFileOrder

\* A step of a thread touches its own block only, and nothing is joined yet.
LEMMA ThreadStep ==
  ASSUME CsvInv, path = "parallel", outcome = "running", HeaderFits, NEW k \in Blocks,
         blocks[k].state # "done", NEW r \in BlockResult, blocks' = [blocks EXCEPT ![k] = r],
         UNCHANGED <<input, outcome, pos, stream, results, joined>>, BlockInv(k)'
  PROVE  CsvInv'
<1>1. /\ UNCHANGED <<batch, handing, rows, failed, processed>>
      /\ path' = path /\ loader' = loader /\ file' = file /\ ignore' = ignore
  BY DEF stream, results, input
<1>2. /\ InputOK /\ InputOK' /\ HeaderFits' /\ Blocks' = Blocks /\ NumBlocks' = NumBlocks
      /\ BlockResult' = BlockResult /\ Kept' = Kept
      /\ Lined' = Lined /\ Exact' = Exact /\ Wanted' = Wanted
      /\ FirstRow(0)' = FirstRow(0)
  BY SameInput DEF CsvInv, TypeInv
<1>3. blocks \in [Blocks -> BlockResult]
  BY DEF CsvInv, TypeInv
<1>4. blocks' \in [Blocks -> BlockResult] /\ \A l \in Blocks : l # k => blocks'[l] = blocks[l]
  BY <1>3
<1>5. joined = 0
  <2>1. ~AllIn({"done"})
    BY DEF AllIn
  <2> QED  BY <2>1, BlocksCover, <1>2 DEF CsvInv, JoinedInv, TypeInv
<1>6. TypeInv'
  BY <1>1, <1>2, <1>4 DEF CsvInv, TypeInv
<1>7. JoinedInv'
  <2>1. JoinedInv
    BY DEF CsvInv
  <2> QED  BY <1>1, <1>2, <1>5, <2>1 DEF JoinedInv, Taken, Holds, AllWanted, InFileOrder
<1>8. \A l \in Blocks : BlockInv(l)'
  <2> TAKE l \in Blocks
  <2>1. CASE l = k
    BY <2>1
  <2>2. CASE l # k
    <3>1. BlockInv(l) /\ blocks'[l] = blocks[l]
      BY <1>4, <2>2 DEF CsvInv
    <3> QED  BY <1>2, <3>1, BlockFrame
  <2> QED  BY <2>1, <2>2
<1>9. (\A l \in Blocks : BlockInv(l))'
  BY <1>2, <1>8
<1>10. CauseInv'
  BY <1>1 DEF CauseInv
<1>11. handing' => batch' # <<>>
  BY <1>1 DEF CsvInv
<1>12. path' = "parallel"
  BY <1>1
<1> QED  BY <1>2, <1>6, <1>7, <1>9, <1>10, <1>11, <1>12 DEF CsvInv

\* A quoted newline in the part of a block is one in the file.
LEMMA QuotedIsMultiline ==
  ASSUME InputOK, NEW k, QuotedNewline(k)
  PROVE  HasMultiline
<1>1. PICK i \in DOMAIN file : file[i].kind = "multiline"
  BY DEF QuotedNewline
<1>2. i # 1
  BY <1>1, FileFacts DEF HeaderKinds
<1>3. i \in 2 .. Len(file)
  BY <1>1, <1>2, FileFacts
<1> QED  BY <1>1, <1>3 DEF HasMultiline

\* A thread begins a block.
LEMMA StepStartBlock ==
  ASSUME CsvInv, NEW k \in Blocks, StartBlock(k)
  PROVE  CsvInv'
<1> DEFINE r == blocks[k]
           s == IF EmptyBlock(k) THEN [r EXCEPT !.state = "done"]
                ELSE IF QuotedNewline(k) THEN [r EXCEPT !.state = "failed"]
                ELSE [r EXCEPT !.state = "reading", !.next = FirstRow(k)]
<1>1. /\ outcome = "running" /\ HeaderFits /\ path = "parallel" /\ r.state = "waiting"
      /\ blocks' = [blocks EXCEPT ![k] = s]
      /\ UNCHANGED <<input, outcome, pos, stream, results, joined>>
  BY DEF StartBlock, On, Running
<1>2. /\ InputOK /\ blocks \in [Blocks -> BlockResult] /\ r \in BlockResult
      /\ r.parsed = <<>> /\ r.errors = 0 /\ k \in Nat /\ k + 1 \in Nat
  BY <1>1, BlocksCover DEF CsvInv, TypeInv, BlockInv
<1>3. FirstRow(k) \in 2 .. Len(file) + 1 /\ FirstRow(k + 1) \in 2 .. Len(file) + 1 /\ FirstRow(k) \in Nat
  <2>1. FirstRow(k) \in 2 .. Len(file) + 1 /\ FirstRow(k + 1) \in 2 .. Len(file) + 1
    BY <1>2, FirstRowAt
  <2>2. Len(file) \in Nat
    BY <1>2, FileFacts
  <2> QED  BY <2>1, <2>2
<1>4. /\ s \in BlockResult /\ s.parsed = <<>> /\ s.errors = 0
      /\ EmptyBlock(k) => s.state = "done"
      /\ ~EmptyBlock(k) /\ QuotedNewline(k) => s.state = "failed"
      /\ ~EmptyBlock(k) /\ ~QuotedNewline(k) => s.state = "reading" /\ s.next = FirstRow(k)
  BY <1>2, <1>3 DEF BlockResult
<1> HIDE DEF r, s
<1>5. blocks'[k] = s
  BY <1>1, <1>2
<1>6. /\ FirstRow(k)' = FirstRow(k) /\ QuotedNewline(k)' = QuotedNewline(k)
      /\ FirstRow(k + 1)' = FirstRow(k + 1) /\ Wanted' = Wanted
      /\ Lined' = Lined /\ Exact' = Exact /\ HasMultiline' = HasMultiline
      /\ file' = file /\ ignore' = ignore
  BY <1>1, <1>2, SameInput DEF input
<1>7. /\ InFileOrder(s.parsed) /\ Range(s.parsed) = {} /\ Len(s.parsed) + s.errors = 0
      /\ {i \in Wanted : FirstRow(k) <= i /\ i < FirstRow(k)} = {}
      /\ FirstRow(k) .. FirstRow(k) - 1 = {} /\ FirstRow(k) - FirstRow(k) = 0
      /\ FirstRow(k) <= FirstRow(k)
  <2>1. Wanted \subseteq Nat
    BY <1>2, FileFacts DEF Wanted
  <2>2. \A i \in Wanted : ~(FirstRow(k) <= i /\ i < FirstRow(k))
    BY <1>3, <2>1
  <2>3. InFileOrder(s.parsed) /\ Range(s.parsed) = {} /\ Len(s.parsed) + s.errors = 0
    BY <1>4, EmptyInOrder
  <2>4. /\ FirstRow(k) .. FirstRow(k) - 1 = {} /\ FirstRow(k) - FirstRow(k) = 0
        /\ FirstRow(k) <= FirstRow(k)
    BY <1>3
  <2> QED  BY <2>2, <2>3, <2>4
<1>8. Lined => (EmptyBlock(k) => FirstRow(k + 1) = FirstRow(k)) /\ FirstRow(k) <= FirstRow(k + 1)
  BY <1>2, EmptyBlockFacts, InBlockFacts DEF Lined
<1>9. QuotedNewline(k) => HasMultiline
  BY <1>2, QuotedIsMultiline
<1>10. Exact => Lined
  BY DEF Exact
<1>11. BlockInv(k)'
  <2>1. \A j \in FirstRow(k) .. FirstRow(k + 1) - 1 : ~(j < FirstRow(k))
    BY <1>3
  <2>2. CASE EmptyBlock(k)
    <3>1. Lined => ReadAll(k, FirstRow(k + 1))'
      BY <1>5, <1>6, <1>7, <1>8, <2>1, <2>2 DEF ReadAll
    <3>2. Exact => ReadUpTo(k, FirstRow(k + 1))'
      BY <1>5, <1>6, <1>7, <1>8, <1>10, <2>2 DEF ReadUpTo, Holds, AllWanted, InFileOrder
    <3> QED  BY <1>4, <1>5, <1>6, <2>2, <3>1, <3>2 DEF BlockInv
  <2>3. CASE ~EmptyBlock(k) /\ QuotedNewline(k)
    BY <1>4, <1>5, <1>6, <1>9, <2>3 DEF BlockInv
  <2>4. CASE ~EmptyBlock(k) /\ ~QuotedNewline(k)
    <3>1. s.state = "reading" /\ s.next = FirstRow(k)
      BY <1>4, <2>4
    <3>2. ReadAll(k, blocks[k].next)'
      BY <1>5, <1>6, <1>7, <2>1, <3>1 DEF ReadAll
    <3>3. Exact => ReadUpTo(k, blocks[k].next)'
      BY <1>5, <1>6, <1>7, <1>8, <1>10, <3>1 DEF ReadUpTo, Holds, AllWanted, InFileOrder
    <3> QED  BY <1>3, <1>5, <1>6, <2>4, <3>1, <3>2, <3>3 DEF BlockInv
  <2> QED  BY <2>2, <2>3, <2>4
<1>12. blocks[k].state # "done"
  BY <1>1 DEF r
<1> QED  BY <1>1, <1>4, <1>11, <1>12, ThreadStep

\* A thread reads a record.
LEMMA StepReadRow ==
  ASSUME CsvInv, NEW k \in Blocks, ReadRow(k)
  PROVE  CsvInv'
<1> DEFINE r == blocks[k]
           i == r.next
           a == FirstRow(k)
           b == FirstRow(k + 1)
           x == Row(k, i)
<1>1. /\ outcome = "running" /\ HeaderFits /\ path = "parallel" /\ r.state = "reading"
      /\ InBlock(k, i)
      /\ UNCHANGED <<input, outcome, pos, stream, results, joined>>
  BY DEF ReadRow, On, Running
<1>2. PICK refused \in BOOLEAN :
        /\ ~CutOff(k, i) => refused = RowRefused(i)
        /\ blocks' = [blocks EXCEPT ![k] = NextRow(k, r, refused)]
  <2>1. RowRefused(i) \in BOOLEAN
    BY DEF RowRefused, NodeRowRefused, RelRowRefused, RelRecordRefused, FieldRefused
  <2> QED  BY <2>1 DEF ReadRow
<1> DEFINE s == NextRow(k, r, refused)
<1>3. /\ InputOK /\ blocks \in [Blocks -> BlockResult] /\ r \in BlockResult
      /\ ~QuotedNewline(k) /\ i \in 2 .. Len(file) + 1 /\ k \in Nat /\ k + 1 \in Nat
      /\ Lined => ReadAll(k, i)
      /\ Exact => ReadUpTo(k, i)
  BY <1>1, BlocksCover DEF CsvInv, TypeInv, BlockInv
<1>4. Len(file) \in Nat /\ ignore \in BOOLEAN
  BY <1>3, FileFacts DEF InputOK
<1>5. a \in 2 .. Len(file) + 1 /\ b \in 2 .. Len(file) + 1 /\ i \in 2 .. Len(file)
  <2>1. i <= Len(file)
    BY <1>1 DEF InBlock
  <2>2. a \in 2 .. Len(file) + 1 /\ b \in 2 .. Len(file) + 1
    BY <1>3, FirstRowAt
  <2>3. i \in 2 .. Len(file)
    <3> HIDE DEF i
    <3> QED  BY <1>3, <1>4, <2>1
  <2> QED  BY <2>2, <2>3
<1>6. r.parsed \in Seq(0 .. Len(file)) /\ r.errors \in Nat /\ Len(r.parsed) \in Nat
  BY <1>3 DEF BlockResult
<1>7. x \in 0 .. Len(file)
  <2> HIDE DEF i
  <2> QED  BY <1>4, <1>5 DEF Row, Remnant
<1>8. /\ ~refused => s = [r EXCEPT !.next = i + 1, !.parsed = Append(r.parsed, x)]
      /\ refused /\ ignore => s = [r EXCEPT !.next = i + 1, !.errors = r.errors + 1]
      /\ refused /\ ~ignore => s = [r EXCEPT !.state = "failed"]
  BY <1>3 DEF NextRow, BlockResult
<1>9. /\ ~refused => /\ s.state = "reading" /\ s.parsed = Append(r.parsed, x)
                     /\ s.errors = r.errors /\ s.next = i + 1
      /\ refused /\ ignore => /\ s.state = "reading" /\ s.parsed = r.parsed
                              /\ s.errors = r.errors + 1 /\ s.next = i + 1
      /\ refused /\ ~ignore => s.state = "failed"
  <2> HIDE DEF s, i, x
  <2> QED  BY <1>1, <1>3, <1>8 DEF BlockResult
<1>10. s \in BlockResult
  <2>1. Append(r.parsed, x) \in Seq(0 .. Len(file))
    <3> HIDE DEF x
    <3> QED  BY <1>6, <1>7, AppendRange
  <2>2. i + 1 \in Nat /\ r.errors + 1 \in Nat
    BY <1>3, <1>4, <1>6
  <2> HIDE DEF s, i, x
  <2> QED  BY <1>3, <1>4, <1>8, <2>1, <2>2 DEF BlockResult
<1>11. blocks'[k] = s
  <2>1. blocks' = [blocks EXCEPT ![k] = s]
    BY <1>2
  <2> HIDE DEF s
  <2> QED  BY <1>3, <2>1
<1>12. /\ FirstRow(k)' = a /\ QuotedNewline(k)' = QuotedNewline(k)
       /\ FirstRow(k + 1)' = b /\ Wanted' = Wanted
       /\ Lined' = Lined /\ Exact' = Exact /\ HasMultiline' = HasMultiline
       /\ file' = file /\ ignore' = ignore
  BY <1>1, <1>3, SameInput DEF input
<1> HIDE DEF s
<1>13. Exact => Lined
  BY DEF Exact
<1>14. Lined /\ a <= i /\ i < b => x = i /\ (refused <=> i \notin Wanted)
  <2> SUFFICES ASSUME Lined, a <= i, i < b
               PROVE  x = i /\ (refused <=> i \notin Wanted)
    OBVIOUS
  <2>1. ~CutOff(k, i) /\ (RowRefused(i) <=> i \notin Wanted)
    BY <1>1, <1>3, <1>5, BlockRefuses
  <2> QED  BY <1>2, <2>1 DEF Row
<1>15. Exact => i < b
  BY <1>1, <1>3, <1>13, InBlockFacts DEF ReadAll, Exact, Lined
<1> HIDE DEF a, b, i, x
<1>16. ~refused => Range(s.parsed) = Range(r.parsed) \cup {x} /\ Len(s.parsed) = Len(r.parsed) + 1
  <2>1. /\ Range(Append(r.parsed, x)) = Range(r.parsed) \cup {x}
        /\ Len(Append(r.parsed, x)) = Len(r.parsed) + 1
    <3> HIDE DEF r
    <3> QED  BY <1>6, <1>7, AppendRange
  <2> QED  BY <1>9, <2>1
<1>17. Lined /\ (~refused \/ ignore) => ReadAll(k, blocks[k].next)'
  <2> SUFFICES ASSUME Lined, ~refused \/ ignore
               PROVE  ReadAll(k, blocks[k].next)'
    OBVIOUS
  <2>1. a <= i /\ \A j \in a .. b - 1 : j < i => Taken(r.parsed, j)
    BY <1>3 DEF ReadAll, a, b
  <2>2. s.next = i + 1 /\ a <= i + 1
    BY <1>4, <1>5, <1>9, <2>1
  <2>3. ASSUME NEW j \in a .. b - 1, j < i + 1
        PROVE  Taken(s.parsed, j)
    <3>1. CASE j < i
      <4>1. Range(r.parsed) \subseteq Range(s.parsed)
        BY <1>9, <1>16
      <4> QED  BY <2>1, <3>1, <4>1 DEF Taken
    <3>2. CASE ~(j < i)
      <4>1. j = i /\ i < b
        BY <1>4, <1>5, <2>3, <3>2
      <4>2. x = i /\ (refused <=> i \notin Wanted)
        BY <1>14, <2>1, <4>1
      <4>3. ~refused => i \in Range(s.parsed)
        BY <1>16, <4>2
      <4> QED  BY <4>1, <4>2, <4>3 DEF Taken
    <3> QED  BY <3>1, <3>2
  <2> QED  BY <1>11, <1>12, <2>2, <2>3 DEF ReadAll, Taken
<1>18. Exact /\ (~refused \/ ignore) => ReadUpTo(k, blocks[k].next)'
  <2> SUFFICES ASSUME Exact, ~refused \/ ignore
               PROVE  ReadUpTo(k, blocks[k].next)'
    OBVIOUS
  <2>1. /\ a <= i /\ i < b /\ InFileOrder(r.parsed)
        /\ Range(r.parsed) = {j \in Wanted : a <= j /\ j < i}
        /\ ~ignore => \A j \in a .. i - 1 : j \in Wanted
        /\ Len(r.parsed) + r.errors = i - a
    BY <1>3, <1>15 DEF ReadUpTo, Holds, AllWanted, a
  <2>2. x = i /\ (refused <=> i \notin Wanted) /\ Wanted \subseteq Nat
    BY <1>4, <1>13, <1>14, <2>1 DEF Wanted
  <2>3. InFileOrder(s.parsed)
    <3>1. \A n \in DOMAIN r.parsed : r.parsed[n] < i
      <4> TAKE n \in DOMAIN r.parsed
      <4>1. r.parsed[n] \in {j \in Wanted : a <= j /\ j < i}
        BY <2>1, InRange
      <4> QED  BY <4>1
    <3>2. 0 .. Len(file) \in SUBSET Int
      BY <1>4
    <3>3. ~refused => InFileOrder(Append(r.parsed, i))
      BY <1>6, <1>7, <2>1, <2>2, <3>1, <3>2, AppendInOrder
    <3> QED  BY <1>9, <2>1, <2>2, <3>3
  <2>4. Range(s.parsed) = {j \in Wanted : a <= j /\ j < i + 1}
    <3>1. \A j \in Wanted : j < i + 1 <=> j < i \/ j = i
      BY <1>5, <2>2
    <3> QED  BY <1>9, <1>16, <2>1, <2>2, <3>1
  <2>5. ~ignore => \A j \in a .. (i + 1) - 1 : j \in Wanted
    BY <1>4, <1>5, <2>1, <2>2
  <2>6. /\ s.next = i + 1 /\ a <= i + 1 /\ i + 1 <= b
        /\ Len(s.parsed) + s.errors = (i + 1) - a
    <3>1. s.next = i + 1 /\ a <= i + 1 /\ i + 1 <= b
      BY <1>4, <1>5, <1>9, <2>1
    <3>2. Len(s.parsed) + s.errors = (i + 1) - a
      <4>1. /\ Len(r.parsed) \in Nat /\ r.errors \in Nat /\ a \in Nat /\ i \in Nat
            /\ Len(r.parsed) + r.errors = i - a
        BY <1>4, <1>5, <1>6, <2>1
      <4>2. \/ Len(s.parsed) = Len(r.parsed) + 1 /\ s.errors = r.errors
            \/ Len(s.parsed) = Len(r.parsed) /\ s.errors = r.errors + 1
        BY <1>9, <1>16
      <4> HIDE DEF r
      <4> QED  BY <4>1, <4>2
    <3> QED  BY <3>1, <3>2
  <2> QED  BY <1>11, <1>12, <2>3, <2>4, <2>5, <2>6 DEF ReadUpTo, Holds, AllWanted, InFileOrder
<1>19. BlockInv(k)'
  <2>1. CASE ~refused \/ ignore
    <3>1. s.state = "reading" /\ s.next \in 2 .. Len(file) + 1
      BY <1>4, <1>5, <1>9, <2>1
    <3> QED  BY <1>3, <1>11, <1>12, <1>17, <1>18, <2>1, <3>1 DEF BlockInv
  <2>2. CASE refused /\ ~ignore
    <3>1. s.state = "failed"
      BY <1>9, <2>2
    <3> QED  BY <1>11, <1>12, <2>2, <3>1 DEF BlockInv
  <2> QED  BY <1>4, <2>1, <2>2
<1>20. blocks[k].state # "done"
  BY <1>1
<1> QED  BY <1>1, <1>2, <1>10, <1>19, <1>20, ThreadStep DEF s

\* A thread finds that its block is at its end.
LEMMA StepEndBlock ==
  ASSUME CsvInv, NEW k \in Blocks, EndBlock(k)
  PROVE  CsvInv'
<1> DEFINE r == blocks[k]
           s == [r EXCEPT !.state = "done"]
           a == FirstRow(k)
           b == FirstRow(k + 1)
<1>1. /\ outcome = "running" /\ HeaderFits /\ path = "parallel" /\ r.state = "reading"
      /\ ~InBlock(k, r.next) /\ blocks' = [blocks EXCEPT ![k].state = "done"]
      /\ UNCHANGED <<input, outcome, pos, stream, results, joined>>
  BY DEF EndBlock, On, Running
<1>2. /\ InputOK /\ blocks \in [Blocks -> BlockResult] /\ r \in BlockResult
      /\ r.next \in 2 .. Len(file) + 1 /\ k \in Nat /\ k + 1 \in Nat
      /\ Lined => ReadAll(k, r.next)
      /\ Exact => ReadUpTo(k, r.next)
  BY <1>1, BlocksCover DEF CsvInv, TypeInv, BlockInv
<1>3. Len(file) \in Nat /\ a \in 2 .. Len(file) + 1 /\ b \in 2 .. Len(file) + 1
  BY <1>2, FileFacts, FirstRowAt
<1>4. /\ s \in BlockResult /\ s.state = "done" /\ s.parsed = r.parsed /\ s.errors = r.errors
      /\ blocks' = [blocks EXCEPT ![k] = s] /\ blocks'[k] = s
  BY <1>1, <1>2 DEF BlockResult
<1>5. /\ FirstRow(k)' = a /\ FirstRow(k + 1)' = b /\ Wanted' = Wanted
      /\ Lined' = Lined /\ Exact' = Exact /\ file' = file /\ ignore' = ignore
  BY <1>1, <1>2, SameInput DEF input
<1> HIDE DEF s
<1>6. Lined => a <= b /\ b <= r.next
  <2> SUFFICES ASSUME Lined
               PROVE  a <= b /\ b <= r.next
    OBVIOUS
  <2>1. a <= b /\ (a <= r.next /\ r.next < b => InBlock(k, r.next))
    BY <1>2, InBlockFacts DEF Lined
  <2>2. a <= r.next
    BY <1>2 DEF ReadAll
  <2> QED  BY <1>1, <1>2, <1>3, <2>1, <2>2
<1>7. Exact => r.next = b
  BY <1>2, <1>3, <1>6 DEF Exact, ReadUpTo
<1> HIDE DEF a, b
<1>8. Lined => ReadAll(k, FirstRow(k + 1))'
  <2> SUFFICES ASSUME Lined
               PROVE  ReadAll(k, FirstRow(k + 1))'
    OBVIOUS
  <2>1. \A j \in a .. b - 1 : j < r.next => Taken(r.parsed, j)
    BY <1>2 DEF ReadAll, a, b
  <2>2. \A j \in a .. b - 1 : j < r.next
    BY <1>2, <1>3, <1>6
  <2> QED  BY <1>4, <1>5, <1>6, <2>1, <2>2 DEF ReadAll, Taken
<1>9. Exact => ReadUpTo(k, FirstRow(k + 1))'
  <2> SUFFICES ASSUME Exact
               PROVE  ReadUpTo(k, FirstRow(k + 1))'
    OBVIOUS
  <2>1. /\ a <= b /\ b <= b /\ InFileOrder(r.parsed)
        /\ Range(r.parsed) = {j \in Wanted : a <= j /\ j < b}
        /\ ~ignore => \A j \in a .. b - 1 : j \in Wanted
        /\ Len(r.parsed) + r.errors = b - a
    BY <1>2, <1>3, <1>7 DEF ReadUpTo, Holds, AllWanted, a, b
  <2> HIDE DEF r
  <2> QED  BY <1>4, <1>5, <2>1 DEF ReadUpTo, Holds, AllWanted, InFileOrder
<1>10. BlockInv(k)'
  BY <1>4, <1>5, <1>8, <1>9 DEF BlockInv
<1>11. blocks[k].state # "done"
  BY <1>1
<1> QED  BY <1>1, <1>4, <1>10, <1>11, ThreadStep

\* A step that changes neither the threads nor what is joined.
LEMMA CollectFrame ==
  ASSUME CsvInv, path = "parallel", HeaderFits, UNCHANGED <<input, pos, stream, rows, failed, threads>>,
         processed' \in Nat, outcome' \in {"running", "ok", "error"}, CauseInv',
         outcome' = "error" => joined = 0,
         outcome' = "ok" => joined = NumBlocks /\ processed' = Len(rows)
  PROVE  CsvInv'
<1>1. /\ UNCHANGED <<input, pos, batch, handing, rows, failed, blocks, joined>>
      /\ path' = path /\ loader' = loader /\ file' = file /\ ignore' = ignore
  BY DEF stream, threads, input
<1>2. /\ InputOK /\ InputOK' /\ HeaderFits' /\ Blocks' = Blocks /\ NumBlocks' = NumBlocks
      /\ BlockResult' = BlockResult /\ Kept' = Kept
      /\ Lined' = Lined /\ Exact' = Exact /\ Wanted' = Wanted
      /\ FirstRow(joined)' = FirstRow(joined) /\ joined \in Nat
  <2>1. joined \in Nat
    BY BlocksCover DEF CsvInv, TypeInv
  <2>2. FirstRow(joined)' = FirstRow(joined)
    <3>1. PICK n \in Nat : n = joined
      BY <2>1
    <3>2. FirstRow(n)' = FirstRow(n)
      BY <3>1, <1>1, SameInput
    <3> QED  BY <3>1, <3>2, <1>1
  <2> QED  BY <1>1, <2>1, <2>2, SameInput DEF CsvInv, TypeInv
<1>3. TypeInv'
  <2>1. UNCHANGED <<input, threads>>
    BY <1>1 DEF threads
  <2> QED  BY <1>1, <2>1, TypeFrame DEF CsvInv, TypeInv
<1>4. JoinedInv'
  <2>1. JoinedInv
    BY DEF CsvInv
  <2> QED  BY <1>1, <1>2, <2>1 DEF JoinedInv, Taken, Holds, AllWanted, InFileOrder, AllIn
<1>5. \A k \in Blocks : BlockInv(k)'
  BY <1>1, <1>2, BlockFrame DEF CsvInv
<1>6. (\A k \in Blocks : BlockInv(k))'
  BY <1>2, <1>5
<1>7. handing' => batch' # <<>>
  BY <1>1 DEF CsvInv
<1> QED  BY <1>1, <1>2, <1>3, <1>4, <1>6, <1>7 DEF CsvInv

\* One of the blocks has failed.
LEMMA StepCollectError ==
  ASSUME CsvInv, CollectError
  PROVE  CsvInv'
<1>1. /\ outcome = "running" /\ HeaderFits /\ path = "parallel" /\ outcome' = "error"
      /\ AllIn({"done", "failed"}) /\ ~AllIn({"done"})
      /\ UNCHANGED <<input, pos, stream, rows, failed, processed, threads>>
  BY DEF CollectError, On, Running, results
<1>2. joined = 0
  BY <1>1, BlocksCover DEF CsvInv, TypeInv, JoinedInv
<1>3. CauseInv'
  <2> SUFFICES ASSUME ignore
               PROVE  HasMultiline
    BY <1>1 DEF CauseInv, HasMultiline, input
  <2>1. PICK k \in Blocks : blocks[k].state = "failed"
    BY <1>1 DEF AllIn
  <2> QED  BY <1>1, <2>1 DEF CsvInv, BlockInv
<1>4. processed' \in Nat
  BY <1>1 DEF CsvInv, TypeInv
<1> QED  BY <1>1, <1>2, <1>3, <1>4, CollectFrame

\* The results are counted.
LEMMA StepCollect ==
  ASSUME CsvInv, Collect
  PROVE  CsvInv'
<1>1. /\ outcome = "running" /\ HeaderFits /\ path = "parallel" /\ outcome' = "ok"
      /\ joined = NumBlocks /\ processed' = Len(rows)
      /\ UNCHANGED <<input, pos, stream, rows, failed, threads>>
  BY DEF Collect, On, Running
<1>2. CauseInv' /\ processed' \in Nat
  BY <1>1 DEF CauseInv, CsvInv, TypeInv
<1> QED  BY <1>1, <1>2, CollectFrame

\* The result of the next block goes behind the others.
LEMMA StepJoinBlock ==
  ASSUME CsvInv, JoinBlock
  PROVE  CsvInv'
<1>1. /\ outcome = "running" /\ HeaderFits /\ path = "parallel"
      /\ AllIn({"done"}) /\ joined < NumBlocks
      /\ rows' = rows \o blocks[joined].parsed /\ failed' = failed + blocks[joined].errors
      /\ joined' = joined + 1
      /\ UNCHANGED <<input, outcome, pos, batch, handing, processed, blocks>>
      /\ path' = path /\ loader' = loader /\ file' = file /\ ignore' = ignore
  BY DEF JoinBlock, On, Running, stream, input
<1>2. PICK k \in Nat : k = joined /\ k \in Blocks /\ k + 1 \in 0 .. NumBlocks
  <2>1. joined \in 0 .. NumBlocks /\ NumBlocks \in Nat
    BY BlocksCover DEF CsvInv, TypeInv
  <2>2. joined \in Nat /\ joined \in 0 .. NumBlocks - 1 /\ joined + 1 \in 0 .. NumBlocks
    BY <1>1, <2>1
  <2> QED  BY <2>2 DEF Blocks
<1> DEFINE r == blocks[k]
           a == FirstRow(k)
           b == FirstRow(k + 1)
<1>3. /\ InputOK /\ InputOK' /\ HeaderFits' /\ Blocks' = Blocks /\ NumBlocks' = NumBlocks
      /\ BlockResult' = BlockResult /\ Kept' = Kept
      /\ Lined' = Lined /\ Exact' = Exact /\ Wanted' = Wanted
      /\ FirstRow(k + 1)' = b
  BY <1>1, SameInput DEF CsvInv, TypeInv
<1>4. /\ rows \in Seq(0 .. Len(file)) /\ r.parsed \in Seq(0 .. Len(file)) /\ r.errors \in Nat
      /\ failed \in Nat /\ r.state = "done"
  BY <1>1, <1>2 DEF CsvInv, TypeInv, Kept, BlockResult, AllIn
<1>5. rows' = rows \o r.parsed /\ failed' = failed + r.errors /\ joined' = k + 1
  BY <1>1, <1>2
<1>6. rows' \in Seq(0 .. Len(file)) /\ Len(rows') = Len(rows) + Len(r.parsed) /\ failed' \in Nat
  BY <1>4, <1>5
<1>7. TypeInv'
  <2>1. rows' \in Seq(Kept)
    BY <1>1, <1>6 DEF Kept
  <2> QED  BY <1>1, <1>2, <1>3, <1>5, <1>6, <2>1 DEF CsvInv, TypeInv
<1>8. /\ Exact => Holds(rows, 2, a) /\ AllWanted(2, a) /\ Len(rows) + failed = a - 2
      /\ Exact => ReadUpTo(k, b)
      /\ Lined => ReadAll(k, b) /\ \A j \in 2 .. a - 1 : Taken(rows, j)
  BY <1>1, <1>2, <1>4 DEF CsvInv, JoinedInv, BlockInv
<1>9. a \in 2 .. Len(file) + 1 /\ b \in 2 .. Len(file) + 1 /\ Len(file) \in Nat
  BY <1>2, <1>3, FirstRowAt, FileFacts
<1>10. ASSUME Exact
       PROVE  /\ InFileOrder(rows') /\ Range(rows') = {i \in Wanted : 2 <= i /\ i < b}
              /\ ~ignore => \A i \in 2 .. b - 1 : i \in Wanted
              /\ Len(rows') + failed' = b - 2
  <2>1. /\ InFileOrder(rows) /\ Range(rows) = {i \in Wanted : 2 <= i /\ i < a}
        /\ InFileOrder(r.parsed) /\ Range(r.parsed) = {i \in Wanted : a <= i /\ i < b}
        /\ Len(rows) + failed = a - 2 /\ Len(r.parsed) + r.errors = b - a
        /\ a <= b
    BY <1>8, <1>10 DEF Holds, ReadUpTo
  <2> HIDE DEF r, a, b
  <2>2. \A m \in DOMAIN rows, n \in DOMAIN r.parsed : rows[m] < r.parsed[n]
    <3> TAKE m \in DOMAIN rows, n \in DOMAIN r.parsed
    <3>1. rows[m] \in {i \in Wanted : 2 <= i /\ i < a}
      BY <2>1, InRange
    <3>2. r.parsed[n] \in {i \in Wanted : a <= i /\ i < b}
      BY <2>1, InRange
    <3>3. Wanted \subseteq Nat
      BY <1>9 DEF Wanted
    <3>4. rows[m] \in Nat /\ rows[m] < a
      BY <3>1, <3>3
    <3>5. r.parsed[n] \in Nat /\ a <= r.parsed[n]
      BY <3>2, <3>3
    <3>6. \A x, y, z \in Int : x < y /\ y <= z => x < z
      OBVIOUS
    <3>7. a \in Int
      BY <1>9
    <3> QED  BY <3>4, <3>5, <3>6, <3>7
  <2>3. InFileOrder(rows') /\ Range(rows') = Range(rows) \cup Range(r.parsed)
    <3>1. 0 .. Len(file) \in SUBSET Int
      BY <1>9
    <3> QED  BY <1>4, <1>5, <2>1, <2>2, <3>1, ConcatInOrder
  <2>4. Range(rows') = {i \in Wanted : 2 <= i /\ i < b}
    <3>1. \A i \in Wanted : 2 <= i /\ i < b <=> (2 <= i /\ i < a) \/ (a <= i /\ i < b)
      BY <1>9, <2>1 DEF Wanted
    <3> HIDE DEF Wanted
    <3> QED  BY <2>1, <2>3, <3>1
  <2>5. ~ignore => \A i \in 2 .. b - 1 : i \in Wanted
    <3>1. ~ignore => /\ \A i \in 2 .. a - 1 : i \in Wanted
                     /\ \A i \in a .. b - 1 : i \in Wanted
      BY <1>8, <1>10 DEF AllWanted, ReadUpTo, a, b
    <3>2. \A i \in 2 .. b - 1 : i \in 2 .. a - 1 \/ i \in a .. b - 1
      BY <1>9
    <3> QED  BY <3>1, <3>2
  <2>6. Len(rows') + failed' = b - 2
    <3>1. Len(rows) \in Nat /\ Len(r.parsed) \in Nat
      BY <1>4
    <3>2. \A x, y, z, w \in Int : x + z = a - 2 /\ y + w = b - a => x + y + (z + w) = b - 2
      BY <1>9
    <3>3. failed \in Int /\ r.errors \in Int /\ Len(rows) \in Int /\ Len(r.parsed) \in Int
      BY <1>4, <3>1
    <3>4. Len(rows) + Len(r.parsed) + (failed + r.errors) = b - 2
      BY <2>1, <3>2, <3>3
    <3> QED  BY <1>5, <1>6, <3>4
  <2> QED  BY <2>3, <2>4, <2>5, <2>6
<1>11. ASSUME Lined, NEW j \in 2 .. b - 1
       PROVE  Taken(rows', j)
  <2>1. \A n \in DOMAIN rows : n \in DOMAIN rows' /\ rows'[n] = rows[n]
    <3> HIDE DEF r
    <3> QED  BY <1>4, <1>5, ConcatPlaces
  <2>2. \A n \in DOMAIN r.parsed : Len(rows) + n \in DOMAIN rows' /\ rows'[Len(rows) + n] = r.parsed[n]
    <3> DEFINE p == r.parsed
               S == 0 .. Len(file)
    <3>1. rows \in Seq(S) /\ p \in Seq(S) /\ rows' = rows \o p
      BY <1>4, <1>5
    <3> HIDE DEF p, S
    <3>2. \A n \in DOMAIN p : Len(rows) + n \in DOMAIN (rows \o p) /\ (rows \o p)[Len(rows) + n] = p[n]
      BY <3>1, ConcatPlaces
    <3>3. \A n \in DOMAIN p : Len(rows) + n \in DOMAIN rows' /\ rows'[Len(rows) + n] = p[n]
      BY <3>1, <3>2, Zenon
    <3> QED  BY <3>3 DEF p
  <2>3. Range(rows) \subseteq Range(rows') /\ Range(r.parsed) \subseteq Range(rows')
    BY <2>1, <2>2 DEF Range
  <2>4. CASE j < a
    BY <1>8, <1>9, <1>11, <2>3, <2>4 DEF Taken
  <2>5. CASE ~(j < a)
    <3>1. j \in a .. b - 1 /\ j < b
      BY <1>9, <2>5
    <3>2. Taken(r.parsed, j)
      BY <1>8, <1>11, <3>1 DEF ReadAll
    <3> QED  BY <2>3, <3>2 DEF Taken
  <2> QED  BY <2>4, <2>5
<1>12. JoinedInv'
  <2>1. AllIn({"done"})'
    BY <1>1, <1>3 DEF AllIn
  <2>2. joined' > 0 /\ joined' # 0
    BY <1>2, <1>5
  <2>3. FirstRow(joined)' = b
    BY <1>3, <1>5
  <2> HIDE DEF r, a, b
  <2>4. Lined' => \A j \in 2 .. b - 1 : Taken(rows, j)'
    BY <1>1, <1>3, <1>11 DEF Taken
  <2> QED  BY <1>1, <1>3, <1>10, <2>1, <2>2, <2>3, <2>4 DEF JoinedInv, Holds, AllWanted, InFileOrder
<1>13. \A l \in Blocks : BlockInv(l)'
  BY <1>1, <1>3, BlockFrame DEF CsvInv
<1>14. (\A l \in Blocks : BlockInv(l))'
  BY <1>3, <1>13
<1>15. CauseInv' /\ (handing' => batch' # <<>>)
  BY <1>1 DEF CsvInv, CauseInv
<1> QED  BY <1>1, <1>3, <1>7, <1>12, <1>14, <1>15 DEF CsvInv

\* A step that changes nothing, or refuses a file with a bad header.
LEMMA StepOutcome ==
  ASSUME CsvInv, UNCHANGED <<input, pos, stream, results, threads>>,
         outcome' = outcome \/ (~HeaderFits /\ outcome' = "error")
  PROVE  CsvInv'
<1>1. UNCHANGED <<input, pos, batch, handing, rows, failed, processed, blocks, joined>>
  BY DEF stream, results, threads
<1>2. TypeInv'
  <2>1. UNCHANGED <<input, threads>>
    BY <1>1 DEF threads
  <2> QED  BY <1>1, <2>1, TypeFrame DEF CsvInv, TypeInv
<1>3. /\ path' = path /\ loader' = loader /\ file' = file /\ ignore' = ignore
      /\ Wanted' = Wanted /\ HeaderFits' = HeaderFits /\ Blocks' = Blocks
      /\ NumBlocks' = NumBlocks /\ Lined' = Lined /\ Exact' = Exact
  BY <1>1, SameInput DEF input
<1>4. CauseInv'
  BY <1>1, <1>3 DEF CsvInv, CauseInv
<1>5. path # "parallel" => ReaderInv'
  <2>1. ~HeaderFits => rows = <<>>
    BY DEF CsvInv
  <2> QED  BY <1>1, <1>3 DEF CsvInv, ReaderInv, InFileOrder, Fits
<1>6. path = "streaming" => CountsInv'
  BY <1>1, <1>3 DEF CsvInv, CountsInv
<1>7. path = "streaming" /\ loader = "nodes" => BatchesInv'
  <2>1. rows = <<>> => Len(rows) % BatchSize = 0
    BY BatchSizeAssumption
  <2> QED  BY <1>1, <1>3, <2>1 DEF CsvInv, BatchesInv
<1>8. path = "parallel" => JoinedInv'
  <2> SUFFICES ASSUME path = "parallel"
               PROVE  JoinedInv'
    OBVIOUS
  <2>1. PICK n \in Nat : n = joined
    BY BlocksCover DEF CsvInv, TypeInv
  <2>2. FirstRow(n)' = FirstRow(n)
    BY <1>1, SameInput
  <2>3. JoinedInv /\ (~HeaderFits => joined = 0)
    BY DEF CsvInv
  <2> QED  BY <1>1, <1>3, <2>1, <2>2, <2>3 DEF JoinedInv, Taken, Holds, AllWanted, InFileOrder, AllIn
<1>9. path = "parallel" => (\A k \in Blocks : BlockInv(k))'
  BY <1>1, <1>3, BlockFrame DEF CsvInv, TypeInv
<1>10. (handing' => batch' # <<>>) /\ (~HeaderFits' => joined' = 0 /\ rows' = <<>>)
  BY <1>1, <1>3 DEF CsvInv
<1> QED  BY <1>2, <1>3, <1>4, <1>5, <1>6, <1>7, <1>8, <1>9, <1>10 DEF CsvInv

-----------------------------------------------------------------------------
(* The theorems *)

\* The invariant holds at the start.
LEMMA InitCsv == Init => CsvInv
<1> SUFFICES ASSUME Init
             PROVE  CsvInv
  OBVIOUS
<1>1. /\ ignore \in BOOLEAN /\ outcome = "running" /\ pos = 2 /\ batch = <<>> /\ handing = FALSE
      /\ rows = <<>> /\ failed = 0 /\ processed = 0 /\ joined = 0
      /\ blocks = [k \in Blocks |-> [state |-> "waiting", next |-> 2, parsed |-> <<>>, errors |-> 0]]
  BY DEF Init
<1>2. InputOK /\ ReaderInv
  BY InitReader
<1>3. Len(file) \in Nat /\ Len(file) >= 1 /\ NumBlocks \in Nat /\ FirstRow(0) = 2
      /\ <<>> \in Seq(Kept)
  BY <1>2, FileFacts, BlocksCover, FirstRowEnds
<1>4. TypeInv
  <2>1. [state |-> "waiting", next |-> 2, parsed |-> <<>>, errors |-> 0] \in BlockResult
    BY DEF BlockResult
  <2>2. <<>> \in Seq(2 .. Len(file)) /\ pos \in 2 .. Len(file) + 1 /\ 0 \in 0 .. NumBlocks
    BY <1>1, <1>3
  <2>3. blocks \in [Blocks -> BlockResult]
    BY <1>1, <2>1
  <2> QED  BY <1>1, <1>2, <1>3, <2>2, <2>3 DEF TypeInv
<1>5. CountsInv
  BY <1>1, EmptyInOrder DEF CountsInv
<1>6. BatchesInv
  BY <1>1, EmptyInOrder, BatchSizeAssumption DEF BatchesInv
<1>7. JoinedInv
  <2>1. /\ Holds(rows, 2, FirstRow(joined)) /\ AllWanted(2, FirstRow(joined))
        /\ 2 .. FirstRow(joined) - 1 = {}
    <3>1. \A i \in Wanted : ~(2 <= i /\ i < 2)
      BY <1>3 DEF Wanted
    <3> QED  BY <1>1, <1>3, <3>1, EmptyInOrder DEF Holds, AllWanted
  <2> QED  BY <1>1, <1>3, <2>1, EmptyInOrder DEF JoinedInv
<1>8. \A k \in Blocks : BlockInv(k)
  BY <1>1 DEF BlockInv
<1> QED  BY <1>1, <1>2, <1>4, <1>5, <1>6, <1>7, <1>8 DEF CsvInv, CauseInv

\* No step leaves the invariant.
LEMMA StepCsv == CsvInv /\ [Next]_vars => CsvInv'
<1> SUFFICES ASSUME CsvInv, [Next]_vars
             PROVE  CsvInv'
  OBVIOUS
<1>1. InputOK /\ pos \in 2 .. Len(file) + 1 /\ Len(file) \in Nat
  BY FileFacts DEF CsvInv, TypeInv
<1>2. pos <= Len(file) => pos \in 2 .. Len(file)
  BY <1>1
<1>3. CASE BadHeader
  BY <1>3, StepOutcome DEF BadHeader
<1>4. CASE StreamNode
  <2> DEFINE refused == ReaderRefuses(pos) \/ NodeRecordRefused(pos)
  <2>1. path = "streaming" /\ HeaderFits /\ outcome = "running" /\ TakeRecord(refused)
    BY <1>4 DEF StreamNode, On, Running
  <2>2. pos <= Len(file) => IF refused THEN pos \notin Wanted ELSE pos \in Wanted \/ ~Fits(pos)
    BY <1>1, <1>2, <1>4, StreamRefuses DEF StreamNode, On
  <2>3. refused \in BOOLEAN
    BY DEF ReaderRefuses, NodeRecordRefused
  <2> HIDE DEF refused
  <2> QED  BY <2>1, <2>2, <2>3, StepTakeRecord
<1>5. CASE StreamRel
  <2> DEFINE refused == ReaderRefuses(pos) \/ RelStreamRecordRefused(pos)
  <2>1. path = "streaming" /\ HeaderFits /\ outcome = "running" /\ TakeRecord(refused)
    BY <1>5 DEF StreamRel, On, Running
  <2>2. pos <= Len(file) => IF refused THEN pos \notin Wanted ELSE pos \in Wanted \/ ~Fits(pos)
    BY <1>1, <1>2, <1>5, StreamRefuses DEF StreamRel, On
  <2>3. refused \in BOOLEAN
    BY DEF ReaderRefuses, RelStreamRecordRefused
  <2> HIDE DEF refused
  <2> QED  BY <2>1, <2>2, <2>3, StepTakeRecord
<1>6. CASE LoadNode
  <2> DEFINE refused == NodeRecordRefused(pos)
  <2>1. /\ path = "sequential" /\ HeaderFits /\ outcome = "running" /\ pos <= Len(file)
        /\ KeepRecord(refused)
    BY <1>6 DEF LoadNode, On, Running, AtRecord
  <2>2. (ReaderRefuses(pos) \/ refused) <=> pos \notin Wanted
    BY <1>1, <1>2, <1>6, <2>1, LoadRefuses DEF LoadNode, On
  <2>3. refused \in BOOLEAN
    BY DEF NodeRecordRefused
  <2> HIDE DEF refused
  <2> QED  BY <2>1, <2>2, <2>3, StepKeepRecord
<1>7. CASE LoadRel
  <2> DEFINE refused == RelRecordRefused(pos)
  <2>1. /\ path = "sequential" /\ HeaderFits /\ outcome = "running" /\ pos <= Len(file)
        /\ KeepRecord(refused)
    BY <1>7 DEF LoadRel, On, Running, AtRecord
  <2>2. (ReaderRefuses(pos) \/ refused) <=> pos \notin Wanted
    BY <1>1, <1>2, <1>7, <2>1, LoadRefuses DEF LoadRel, On
  <2>3. refused \in BOOLEAN
    BY DEF RelRecordRefused
  <2> HIDE DEF refused
  <2> QED  BY <2>1, <2>2, <2>3, StepKeepRecord
<1>8. CASE StreamEnd
  BY <1>8, StepStreamEnd
<1>9. CASE HandOverNodes
  BY <1>9, StepHandOverNodes
<1>10. CASE HandOverRels
  BY <1>10, StepHandOverRels
<1>11. CASE LoadEnd
  BY <1>11, StepLoadEnd
<1>12. CASE \E k \in Blocks : StartBlock(k) \/ ReadRow(k) \/ EndBlock(k)
  BY <1>12, StepStartBlock, StepReadRow, StepEndBlock
<1>13. CASE CollectError
  BY <1>13, StepCollectError
<1>14. CASE JoinBlock
  BY <1>14, StepJoinBlock
<1>15. CASE Collect
  BY <1>15, StepCollect
<1>16. CASE Done \/ UNCHANGED vars
  BY <1>16, StepOutcome DEF Done, vars
<1> QED
  BY <1>3, <1>4, <1>5, <1>6, <1>7, <1>8, <1>9, <1>10, <1>11, <1>12, <1>13, <1>14, <1>15,
     <1>16
     DEF Next

\* The invariant of every load.
LEMMA CsvInvariant == Spec => []CsvInv
<1> QED  BY InitCsv, StepCsv, PTL DEF Spec

\* Where a load that succeeds stands.
LEMMA AtTheEnd ==
  ASSUME CsvInv, outcome = "ok", path = "parallel" => Exact
  PROVE  /\ InFileOrder(rows) /\ Range(rows) = Wanted
         /\ ~ignore => Wanted = 2 .. Len(file)
         /\ path # "sequential" => processed = Len(rows) /\ processed + failed = Len(file) - 1
<1>1. /\ InputOK /\ Len(file) \in Nat /\ Len(file) >= 1 /\ Wanted \subseteq 2 .. Len(file)
      /\ Len(rows) \in Nat /\ failed \in Nat /\ processed \in Nat
  BY FileFacts DEF CsvInv, TypeInv, Wanted
<1>2. \A i \in Wanted : 2 <= i /\ i < Len(file) + 1
  BY <1>1
<1>3. (~ignore => \A i \in 2 .. Len(file) : i \in Wanted) => (~ignore => Wanted = 2 .. Len(file))
  BY <1>1
<1>4. CASE path # "parallel"
  <2>1. ReaderInv /\ pos = Len(file) + 1 /\ batch = <<>> /\ Range(batch) = {} /\ Len(batch) = 0
    BY <1>4, EmptyInOrder DEF CsvInv, ReaderInv
  <2>2. InFileOrder(rows) /\ Range(rows) = Wanted
    BY <1>2, <2>1 DEF ReaderInv
  <2>3. ~ignore => \A i \in 2 .. Len(file) : i \in Wanted
    <3>1. pos - 1 = Len(file)
      BY <1>1, <2>1
    <3> QED  BY <2>1, <3>1 DEF ReaderInv
  <2>4. path = "streaming" => processed = Len(rows) /\ processed + failed = Len(file) - 1
    <3>1. path = "streaming" => processed = Len(rows) /\ processed + failed + Len(batch) = pos - 2
      BY DEF CsvInv, CountsInv
    <3> QED  BY <1>1, <2>1, <3>1
  <2>5. path = "streaming" \/ path = "sequential"
    BY <1>1, <1>4 DEF InputOK
  <2> QED  BY <1>3, <2>2, <2>3, <2>4, <2>5
<1>5. CASE path = "parallel"
  <2>1. /\ JoinedInv /\ Exact /\ joined = NumBlocks /\ processed = Len(rows)
        /\ FirstRow(joined) = Len(file) + 1
    BY <1>1, <1>5, FirstRowEnds DEF CsvInv, JoinedInv, Exact, Lined
  <2>2. /\ InFileOrder(rows) /\ Range(rows) = {i \in Wanted : 2 <= i /\ i < Len(file) + 1}
        /\ ~ignore => \A i \in 2 .. (Len(file) + 1) - 1 : i \in Wanted
        /\ Len(rows) + failed = (Len(file) + 1) - 2
    BY <2>1 DEF JoinedInv, Holds, AllWanted
  <2>3. Range(rows) = Wanted
    BY <1>2, <2>2
  <2>4. (Len(file) + 1) - 1 = Len(file)
    BY <1>1
  <2>5. processed + failed = Len(file) - 1
    BY <1>1, <2>1, <2>2
  <2> QED  BY <1>3, <2>1, <2>2, <2>3, <2>4, <2>5
<1> QED  BY <1>4, <1>5

\* Where a parallel load that succeeds stands if a record may be read twice.
LEMMA NothingLost ==
  ASSUME CsvInv, outcome = "ok", path = "parallel", Lined
  PROVE  Wanted \subseteq Range(rows) /\ (~ignore => Wanted = 2 .. Len(file))
<1>1. InputOK /\ Len(file) \in Nat /\ Wanted \subseteq 2 .. Len(file)
  BY FileFacts DEF CsvInv, TypeInv, Wanted
<1>2. JoinedInv /\ joined = NumBlocks /\ FirstRow(joined) = Len(file) + 1
  BY <1>1, FirstRowEnds DEF CsvInv, JoinedInv, Lined
<1>3. \A j \in 2 .. (Len(file) + 1) - 1 : Taken(rows, j)
  BY <1>2 DEF JoinedInv
<1>4. \A j \in 2 .. Len(file) : Taken(rows, j)
  BY <1>1, <1>3
<1> QED  BY <1>1, <1>4 DEF Taken

\* A load that succeeds has every record that can be loaded, for all lengths of
\* batches and blocks, whichever thread finishes first: in parallel if lines are
\* shorter than blocks and records begin lines.  It has each of them once and in
\* the order of the file, in parallel if besides no line break crosses the end
\* of a block.
THEOREM WholeFileLoads == Spec => []LoadsFile
<1>1. ASSUME CsvInv
      PROVE  LoadsFile
  <2> SUFFICES ASSUME outcome = "ok", path = "parallel" => LinesFitBlocks /\ RowsBeginLines
               PROVE  /\ Wanted \subseteq Range(rows)
                      /\ ~ignore => Wanted = 2 .. Len(file)
                      /\ (path = "parallel" => BreaksInBlocks) =>
                           InFileOrder(rows) /\ Range(rows) = Wanted
    BY DEF LoadsFile
  <2>1. CASE path = "parallel" => BreaksInBlocks
    <3>1. path = "parallel" => Exact
      BY <2>1 DEF Exact, Lined
    <3> QED  BY <1>1, <3>1, AtTheEnd
  <2>2. CASE path = "parallel" /\ ~BreaksInBlocks
    BY <1>1, <2>2, NothingLost DEF Lined
  <2> QED  BY <2>1, <2>2
<1> QED  BY <1>1, CsvInvariant, PTL

\* The counts of a load that succeeds add up to the records of the file, under
\* the same conditions on the file.
THEOREM CountsAgree == Spec => []CountsAddUp
<1>1. CsvInv => CountsAddUp
  BY AtTheEnd DEF CountsAddUp, Exact, Lined
<1> QED  BY <1>1, CsvInvariant, PTL

\* A load that fails leaves the first of the records, for nodes whole batches
\* of them, and with ignore_errors it fails for three reasons only.
THEOREM FailuresLeavePrefix == Spec => []FailureLeavesPrefix
<1>1. ASSUME CsvInv, outcome = "error"
      PROVE  /\ InFileOrder(rows)
             /\ \E n \in 2 .. Len(file) + 1 : Range(rows) = {i \in Wanted : i < n}
             /\ loader = "nodes" /\ path = "streaming" => Len(rows) % BatchSize = 0
  <2>1. CASE path # "parallel"
    <3>1. TypeInv /\ ReaderInv
      BY <1>1, <2>1 DEF CsvInv
    <3>2. loader = "nodes" /\ path = "streaming" => Len(rows) % BatchSize = 0
      BY <1>1 DEF CsvInv, BatchesInv
    <3> QED  BY <2>1, <3>1, <3>2, RowsArePrefix DEF ReaderInv
  <2>2. CASE path = "parallel"
    <3>1. rows = <<>> /\ Len(file) \in Nat /\ Len(file) >= 1
      BY <1>1, <2>2, FileFacts DEF CsvInv, JoinedInv, TypeInv
    <3>2. {i \in Wanted : i < 2} = {} /\ 2 \in 2 .. Len(file) + 1
      BY <3>1 DEF Wanted
    <3> QED  BY <2>2, <3>1, <3>2, EmptyInOrder
  <2> QED  BY <2>1, <2>2
<1>2. CsvInv => FailureLeavesPrefix
  BY <1>1 DEF FailureLeavesPrefix, CsvInv, CauseInv
<1> QED  BY <1>2, CsvInvariant, PTL
=============================================================================
