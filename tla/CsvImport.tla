----------------------------- MODULE CsvImport ------------------------------
(***************************************************************************)
(* Loading a CSV file (src/storage/csv, import_nodes and                   *)
(* import_relationships of src/lib.rs).  NodeLoader and RelLoader read a   *)
(* file on one of three paths:                                             *)
(*                                                                         *)
(*   "streaming"   load_streaming: batches of BatchSize rows go to         *)
(*                 NodeTable::insert_batch, or are looked up and inserted  *)
(*                 into the relationship table one by one                  *)
(*   "sequential"  load_sequential: all rows are returned                  *)
(*   "parallel"    load_parallel: parallel_read_all cuts the file into     *)
(*                 blocks of BlockSize bytes that threads process in any   *)
(*                 order                                                   *)
(*                                                                         *)
(* A record has the offset of its first byte, the offset behind its last   *)
(* byte, and a kind: "good"; "short", some trailing fields are missing     *)
(* (they read as null where the reader allows it); "bad", a field does not *)
(* parse; "keyless", a relationship with an empty FROM or TO; "garbled",   *)
(* not UTF-8; "multiline", a quoted field holds a newline; "unfit",        *)
(* well-formed but refused by the table (a duplicate key, an end that does *)
(* not exist).  Records are known by their position in the file.           *)
(*                                                                         *)
(* file[1] is the header, at the first byte of the file, of kind "good",   *)
(* "bad" (a column is missing) or "othercase" (FROM and TO are spelled in  *)
(* lower case).  Without has_header it has no bytes: the kind is that of   *)
(* the first line, which validate_headers reads all the same.              *)
(*                                                                         *)
(* What is between two records is a line break ("\n", "\r\n" or "\r") and  *)
(* any number of blank lines.  The CSV reader takes a record to end with   *)
(* the "\r" or "\n" behind it and skips the rest when it is asked for the  *)
(* next one; the parallel reader searches for "\n" only, and `lines` has   *)
(* the offsets that follow one.                                            *)
(***************************************************************************)
EXTENDS Integers, Sequences, Functions

CONSTANTS
  Inputs,      \* the files, with the loader and the path of each
  BatchSize,   \* CsvImportConfig.batch_size
  BlockSize    \* CsvImportConfig.block_size

ASSUME BatchSizeAssumption == BatchSize \in Nat \ {0}
ASSUME BlockSizeAssumption == BlockSize \in Nat \ {0}

HeaderKinds == {"good", "bad", "othercase"}
Kinds == {"good", "short", "bad", "keyless", "garbled", "multiline", "unfit"}
Record == [start : Nat, stop : Nat, kind : HeaderKinds \cup Kinds]

\* The header and the records f of a file of the given size, with a line break
\* between any two; no line of ls begins inside a record or directly behind it.
LaidOut(f, ls, size) ==
  /\ f \in Seq(Record) /\ f # <<>> /\ ls \subseteq 1 .. size /\ size \in Nat
  /\ f[1].start = 0 /\ f[1].kind \in HeaderKinds /\ f[1].stop <= size
  /\ \A i \in 2 .. Len(f) :
       /\ f[i].kind \in Kinds /\ f[i].start < f[i].stop /\ f[i].stop <= size
       /\ \A j \in 1 .. i - 1 : f[j].stop < f[i].start \/ f[j].stop = 0
  /\ \A l \in ls, i \in DOMAIN f : l <= f[i].start \/ f[i].stop < l

ASSUME InputsAssumption ==
  \A in \in Inputs : /\ in.loader \in {"nodes", "rels"}
                     /\ in.path \in {"streaming", "sequential", "parallel"}
                     /\ LaidOut(in.file, in.lines, in.file_size)

VARIABLES
  loader,     \* "nodes" or "rels"
  path,       \* the path taken
  file,       \* the header and the records
  lines,      \* the offsets at which a line begins, behind a "\n"
  file_size,  \* the number of bytes
  ignore,     \* CsvImportConfig.ignore_errors
  outcome,    \* "running", "ok" or "error"
  pos,        \* the next record of the reader
  batch,      \* the rows parsed and not yet in the table
  handing,    \* the batch has been handed over to the callback
  rows,       \* the rows in the table, or in the vector that is returned
  failed,     \* ImportProgress.rows_failed and the callback's total_failed
  processed,  \* ImportProgress.rows_processed
  blocks,     \* the threads that process the blocks, with their results
  joined      \* how many results have been joined

input == <<loader, path, file, lines, file_size, ignore>>
stream == <<batch, handing>>
results == <<rows, failed, processed>>
threads == <<blocks, joined>>
vars == <<input, outcome, pos, stream, results, threads>>

\* The offset of the first byte of file[i], or of the end of the file.
StartOf(i) == IF i > Len(file) THEN file_size ELSE file[i].start

\* Where the CSV reader stands once it has read file[i].
Behind(i) == IF file[i].stop = 0 THEN 0 ELSE file[i].stop + 1

\* The blocks of parallel_read_all.
NumBlocks == (file_size + BlockSize - 1) \div BlockSize
Blocks == 0 .. NumBlocks - 1

-----------------------------------------------------------------------------
(* Records *)

\* reader.records() returns an error: build_reader is flexible only if
\* errors are ignored.
ReaderRefuses(i) ==
  file[i].kind = "garbled" \/ (file[i].kind = "short" /\ ~ignore)

\* parse_record of NodeLoader, with its parse_field.
NodeRecordRefused(i) == file[i].kind = "bad"

\* parse_field_with_interner, for a property of a relationship.
FieldRefused(i) == file[i].kind = "bad"

\* parse_record and parse_relationship_record of RelLoader: an end must not
\* be empty.
RelRecordRefused(i) == file[i].kind = "keyless" \/ FieldRefused(i)
RelStreamRecordRefused(i) == file[i].kind = "keyless" \/ FieldRefused(i)

\* The closures parse_row of load_parallel read bytes, from a reader that is
\* always flexible.
NodeRowRefused(i) == file[i].kind = "garbled" \/ FieldRefused(i)
RelRowRefused(i) == file[i].kind = "garbled" \/ RelRecordRefused(i)
RowRefused(i) == IF loader = "nodes" THEN NodeRowRefused(i) ELSE RelRowRefused(i)

-----------------------------------------------------------------------------
(* Headers *)

\* validate_headers: NodeLoader wants every column under its name, RelLoader
\* finds FROM and TO in any case.
NodeHeaderFits == file[1].kind = "good"
RelHeaderFits == file[1].kind \in {"good", "othercase"}

\* find_column_indices, which load_streaming of RelLoader uses instead.
RelStreamHeaderFits == file[1].kind = "good"

HeaderFits ==
  CASE loader = "nodes" -> NodeHeaderFits
    [] path = "streaming" -> RelStreamHeaderFits
    [] OTHER -> RelHeaderFits

\* load and load_streaming.
Init ==
  /\ \E in \in Inputs : /\ loader = in.loader /\ path = in.path
                        /\ file = in.file /\ lines = in.lines /\ file_size = in.file_size
  /\ ignore \in BOOLEAN
  /\ outcome = "running"
  /\ pos = 2
  /\ batch = <<>> /\ handing = FALSE
  /\ rows = <<>> /\ failed = 0 /\ processed = 0
  /\ blocks = [k \in Blocks |-> [state |-> "waiting", next |-> 2, parsed |-> <<>>, errors |-> 0]]
  /\ joined = 0

Running == outcome = "running"
On(l, p) == Running /\ HeaderFits /\ loader = l /\ path = p
AtRecord == pos <= Len(file)

\* A file without the right columns is refused before anything is read.
BadHeader ==
  /\ Running /\ ~HeaderFits
  /\ outcome' = "error"
  /\ UNCHANGED <<input, pos, stream, results, threads>>

\* A record that cannot be read or parsed ends the load or is counted.
Refuse ==
  /\ IF ignore THEN failed' = failed + 1 /\ UNCHANGED outcome
     ELSE outcome' = "error" /\ UNCHANGED failed

-----------------------------------------------------------------------------
(* load_streaming *)

\* Seeded fault: a record that was skipped is read again.
TakeRecordAgain(refused) ==
  /\ ~handing /\ AtRecord
  /\ IF refused
     THEN /\ outcome' = IF ignore THEN outcome ELSE "error"
          /\ UNCHANGED <<pos, batch, handing, failed>>
     ELSE /\ pos' = pos + 1
          /\ batch' = Append(batch, pos)
          /\ handing' = (Len(batch') >= BatchSize)
          /\ UNCHANGED <<failed, outcome>>
  /\ UNCHANGED <<input, rows, processed, threads>>

\* One turn of the loop over the records; a full batch goes to the callback.
TakeRecord(refused) ==
  /\ ~handing /\ AtRecord
  /\ pos' = pos + 1
  /\ IF refused
     THEN Refuse /\ UNCHANGED stream
     ELSE /\ batch' = Append(batch, pos)
          /\ handing' = (Len(batch') >= BatchSize)
          /\ UNCHANGED <<failed, outcome>>
  /\ UNCHANGED <<input, rows, processed, threads>>

StreamNode ==
  /\ On("nodes", "streaming")
  /\ TakeRecord(ReaderRefuses(pos) \/ NodeRecordRefused(pos))

StreamRel ==
  /\ On("rels", "streaming")
  /\ TakeRecord(ReaderRefuses(pos) \/ RelStreamRecordRefused(pos))

\* The rest of the rows is the last batch.
StreamEnd ==
  /\ On(loader, "streaming") /\ ~handing /\ ~AtRecord
  /\ IF batch = <<>>
     THEN outcome' = "ok" /\ UNCHANGED handing
     ELSE handing' = TRUE /\ UNCHANGED outcome
  /\ UNCHANGED <<input, pos, batch, results, threads>>

Fits(i) == file[i].kind # "unfit"

\* Seeded fault: the rows in front of the one that does not fit stay.
InsertNodesPartly ==
  /\ IF \A n \in DOMAIN batch : Fits(batch[n])
     THEN /\ rows' = rows \o batch
          /\ processed' = processed + Len(batch)
          /\ batch' = <<>> /\ handing' = FALSE
          /\ UNCHANGED outcome
     ELSE IF Fits(batch[1])
     THEN /\ rows' = Append(rows, batch[1])
          /\ batch' = Tail(batch)
          /\ UNCHANGED <<outcome, processed, handing>>
     ELSE outcome' = "error" /\ UNCHANGED <<rows, processed, stream>>
  /\ UNCHANGED <<input, pos, failed, threads>>

\* NodeTable::insert_batch: all of the batch or nothing.
InsertNodes ==
  /\ IF \A n \in DOMAIN batch : Fits(batch[n])
     THEN /\ rows' = rows \o batch
          /\ processed' = processed + Len(batch)
          /\ batch' = <<>> /\ handing' = FALSE
          /\ UNCHANGED outcome
     ELSE outcome' = "error" /\ UNCHANGED <<rows, processed, stream>>
  /\ UNCHANGED <<input, pos, failed, threads>>

\* The callback of import_nodes, and progress.update.
HandOverNodes == On("nodes", "streaming") /\ handing /\ InsertNodes

\* Seeded fault: a row that is skipped is counted as failed and as inserted.
InsertRelCountingAll ==
  /\ processed' = processed + 1
  /\ IF Fits(Head(batch))
     THEN rows' = Append(rows, Head(batch)) /\ UNCHANGED <<failed, outcome>>
     ELSE Refuse /\ UNCHANGED rows
  /\ batch' = Tail(batch) /\ handing' = (batch' # <<>>)
  /\ UNCHANGED <<input, pos, threads>>

\* One turn of the loop in the callback of import_relationships, with its own
\* counts: an end that is missing is an error, or the row is skipped.
InsertRel ==
  /\ IF Fits(Head(batch))
     THEN /\ rows' = Append(rows, Head(batch)) /\ processed' = processed + 1
          /\ UNCHANGED <<failed, outcome>>
     ELSE Refuse /\ UNCHANGED <<rows, processed>>
  /\ batch' = Tail(batch) /\ handing' = (batch' # <<>>)
  /\ UNCHANGED <<input, pos, threads>>

HandOverRels == On("rels", "streaming") /\ handing /\ InsertRel

-----------------------------------------------------------------------------
(* load_sequential *)

\* One turn of the loop: after a record that was read, progress.update
\* counts a batch if the number of rows is a multiple of the batch size.
KeepRecord(refused) ==
  /\ pos' = pos + 1
  /\ IF ReaderRefuses(pos)
     THEN Refuse /\ UNCHANGED <<rows, processed>>
     ELSE /\ IF refused
             THEN Refuse /\ UNCHANGED rows
             ELSE rows' = Append(rows, pos) /\ UNCHANGED <<failed, outcome>>
          /\ processed' = IF outcome' # "error" /\ Len(rows') % BatchSize = 0
                          THEN processed + BatchSize ELSE processed
  /\ UNCHANGED <<input, stream, threads>>

LoadNode == On("nodes", "sequential") /\ AtRecord /\ KeepRecord(NodeRecordRefused(pos))
LoadRel == On("rels", "sequential") /\ AtRecord /\ KeepRecord(RelRecordRefused(pos))

LoadEnd ==
  /\ On(loader, "sequential") /\ ~AtRecord
  /\ processed' = processed + (Len(rows) % BatchSize)
  /\ outcome' = "ok"
  /\ UNCHANGED <<input, pos, stream, rows, failed, threads>>

-----------------------------------------------------------------------------
(* load_parallel *)

\* BlockAssignment::new.
BlockStart(k) == k * BlockSize
BlockEnd(k) == IF BlockStart(k) + BlockSize < file_size THEN BlockStart(k) + BlockSize ELSE file_size

\* Seeded fault: the search for a newline starts one byte early.
SeekOneEarly(offset) ==
  CHOOSE l \in lines \cup {file_size} :
    /\ l >= offset \/ l = file_size
    /\ \A m \in lines : m >= offset => l <= m

\* seek_to_row_start: the line that begins behind the first newline at or
\* after the offset, or the end of the file.
SeekToRowStart(offset) ==
  CHOOSE l \in lines \cup {file_size} :
    /\ l > offset \/ l = file_size
    /\ \A m \in lines : m > offset => l <= m

\* The byte at which a block starts, and the byte behind its slice, which
\* reaches one block past its end.
ActualStart(k) == IF k = 0 THEN 0 ELSE SeekToRowStart(BlockStart(k))
SliceEnd(k) == IF BlockEnd(k) + BlockSize < file_size THEN BlockEnd(k) + BlockSize ELSE file_size

\* The first record of a block; the first block skips the header.
FirstOf(S, end) ==
  CHOOSE i \in 2 .. end : (i \in S \/ i = end) /\ \A j \in 2 .. i - 1 : j \notin S
FirstRow(k) ==
  IF k = 0 THEN 2
  ELSE FirstOf({i \in 2 .. Len(file) : StartOf(i) >= ActualStart(k)}, Len(file) + 1)

EmptyBlock(k) == ActualStart(k) >= file_size \/ ActualStart(k) >= BlockEnd(k)

\* has_quoted_newline on the slice of a block, from where it starts.  (A later
\* block may start inside the quotes and read nonsense, but the block in which
\* the record starts has refused the file.)
QuotedNewline(k) ==
  \E i \in DOMAIN file :
    file[i].kind = "multiline" /\ StartOf(i) \in ActualStart(k) .. SliceEnd(k) - 1

\* A thread begins a block, in any order.  A quoted newline is fatal whether
\* or not errors are ignored.
StartBlock(k) ==
  /\ On(loader, "parallel") /\ blocks[k].state = "waiting"
  /\ blocks' = [blocks EXCEPT ![k] =
       IF EmptyBlock(k) THEN [@ EXCEPT !.state = "done"]
       ELSE IF QuotedNewline(k) THEN [@ EXCEPT !.state = "failed"]
       ELSE [@ EXCEPT !.state = "reading", !.next = FirstRow(k)]]
  /\ UNCHANGED <<input, outcome, pos, stream, results, joined>>

\* byte_record.position(): where the reader of the block stood before it read
\* the record, that is, in front of the blank lines and of the "\n" of a "\r\n".
Position(k, i) == IF k > 0 /\ i = FirstRow(k) THEN ActualStart(k) ELSE Behind(i - 1)

\* A block goes on to the last record of its slice that the reader comes to
\* before the end of the block or at it.
InBlock(k, i) == i <= Len(file) /\ StartOf(i) < SliceEnd(k) /\ Position(k, i) <= BlockEnd(k)

\* A record of which the end is behind the slice is cut off: what is left of
\* it may parse, but not as the record it was, and counts as record 0.
CutOff(k, i) == file[i].stop > SliceEnd(k)
Remnant == 0
Row(k, i) == IF CutOff(k, i) THEN Remnant ELSE i

\* One turn of the loop of process_block, for what the block has read so far.
NextRow(k, r, refused) ==
  IF ~refused THEN [r EXCEPT !.next = @ + 1, !.parsed = Append(@, Row(k, r.next))]
  ELSE IF ignore THEN [r EXCEPT !.next = @ + 1, !.errors = @ + 1]
  ELSE [r EXCEPT !.state = "failed"]

ReadRow(k) ==
  LET i == blocks[k].next IN
  /\ On(loader, "parallel") /\ blocks[k].state = "reading" /\ InBlock(k, i)
  /\ \E refused \in IF CutOff(k, i) THEN BOOLEAN ELSE {RowRefused(i)} :
       blocks' = [blocks EXCEPT ![k] = NextRow(k, @, refused)]
  /\ UNCHANGED <<input, outcome, pos, stream, results, joined>>

\* The break out of the loop, or its end.
EndBlock(k) ==
  /\ On(loader, "parallel") /\ blocks[k].state = "reading" /\ ~InBlock(k, blocks[k].next)
  /\ blocks' = [blocks EXCEPT ![k].state = "done"]
  /\ UNCHANGED <<input, outcome, pos, stream, results, joined>>

AllIn(states) == \A k \in Blocks : blocks[k].state \in states

\* Once all threads are through, parallel_read_all returns an error of one of
\* them, ...
CollectError ==
  /\ On(loader, "parallel") /\ AllIn({"done", "failed"}) /\ ~AllIn({"done"})
  /\ outcome' = "error"
  /\ UNCHANGED <<input, pos, stream, results, threads>>

\* ... or joins the results in the order of the blocks, ...
JoinBlock ==
  /\ On(loader, "parallel") /\ AllIn({"done"}) /\ joined < NumBlocks
  /\ rows' = rows \o blocks[joined].parsed
  /\ failed' = failed + blocks[joined].errors
  /\ joined' = joined + 1
  /\ UNCHANGED <<input, outcome, pos, stream, processed, blocks>>

\* ... and load_parallel counts them.
Collect ==
  /\ On(loader, "parallel") /\ joined = NumBlocks
  /\ processed' = Len(rows)
  /\ outcome' = "ok"
  /\ UNCHANGED <<input, pos, stream, rows, failed, threads>>

\* The load has returned.
Done == ~Running /\ UNCHANGED vars

Next ==
  \/ BadHeader
  \/ StreamNode \/ StreamRel \/ StreamEnd \/ HandOverNodes \/ HandOverRels
  \/ LoadNode \/ LoadRel \/ LoadEnd
  \/ \E k \in Blocks : StartBlock(k) \/ ReadRow(k) \/ EndBlock(k)
  \/ CollectError \/ JoinBlock \/ Collect
  \/ Done

\* No loop waits for anything: a load that is under way goes on.
Spec == Init /\ [][Next]_vars /\ WF_vars(Next)

-----------------------------------------------------------------------------
(* Properties *)

\* The records that cannot be taken over, and the others.
Unwanted(i) ==
  \/ file[i].kind \in {"bad", "garbled"}
  \/ file[i].kind = "keyless" /\ loader = "rels"
  \/ file[i].kind = "short" /\ ~ignore /\ path # "parallel"
  \/ file[i].kind = "unfit" /\ path = "streaming"
  \/ file[i].kind = "multiline" /\ path = "parallel"
Wanted == {i \in 2 .. Len(file) : ~Unwanted(i)}

InFileOrder(s) == \A m, n \in DOMAIN s : m < n => s[m] < s[n]

\* The parallel reader is meant for lines shorter than a block and for records
\* with a newline in front of them.  It is thrown by a line break with the end
\* of a block inside it, which takes "\r\n" or a blank line.
LinesFitBlocks ==
  \A l \in (lines \cup {file_size}) \ {0} :
    \E o \in {0} \cup lines : o < l /\ l - o < BlockSize
RowsBeginLines == \A i \in 2 .. Len(file) : StartOf(i) \in {0} \cup lines
BreaksInBlocks ==
  \A k \in Blocks, i \in 2 .. Len(file) : ~(Behind(i - 1) <= BlockEnd(k) /\ BlockEnd(k) < StartOf(i))

\* A load that succeeds has every record that can be loaded, and without
\* ignore_errors there is no other, whatever the batches, the block boundaries
\* and the order in which the threads finish.  It has them once and in the
\* order of the file, in parallel if no line break crosses a block boundary.
LoadsFile ==
  outcome = "ok" /\ (path = "parallel" => LinesFitBlocks /\ RowsBeginLines) =>
    /\ Wanted \subseteq Range(rows)
    /\ ~ignore => Wanted = 2 .. Len(file)
    /\ (path = "parallel" => BreaksInBlocks) => InFileOrder(rows) /\ Range(rows) = Wanted

\* A load that fails has inserted a part of the file: the first of the records
\* that can be loaded, in their order, and for nodes whole batches.  A load
\* that may skip records fails only for the header, for a key that is there
\* already, or for a quoted newline in a parallel load.
FailureLeavesPrefix ==
  outcome = "error" =>
    /\ InFileOrder(rows)
    /\ \E n \in 2 .. Len(file) + 1 : Range(rows) = {i \in Wanted : i < n}
    /\ loader = "nodes" /\ path = "streaming" => Len(rows) % BatchSize = 0
    /\ ignore /\ HeaderFits =>
         \E i \in 2 .. Len(file) :
           \/ loader = "nodes" /\ path = "streaming" /\ file[i].kind = "unfit"
           \/ path = "parallel" /\ file[i].kind = "multiline"

\* The counts of the ImportResult add up to the records of the file.
CountsAddUp ==
  /\ outcome = "ok" /\ path # "sequential"
  /\ path = "parallel" => LinesFitBlocks /\ RowsBeginLines /\ BreaksInBlocks
  =>
    processed = Len(rows) /\ processed + failed = Len(file) - 1

\* Every load returns.
LoadReturns == <>(outcome # "running")

-----------------------------------------------------------------------------
(* What the documents say and the code does not do.                        *)

\* "Number of rows successfully imported." (src/storage/csv/mod.rs:516)
RowsImportedIsRows == outcome = "ok" => processed = Len(rows)

\* "A vector of all parsed rows in file order" (src/storage/csv/parallel.rs:546)
AllRowsRead == outcome = "ok" => Len(rows) + failed = Len(file) - 1
RowsInFileOrder == outcome = "ok" => InFileOrder(rows)
=============================================================================
