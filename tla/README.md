# A TLA+ model of ruzu

ruzu is an embedded graph database in Rust: Cypher statements over node and
relationship tables, kept in memory, saved to a paged data file by checkpoints
and protected by a write-ahead log (WAL). This directory holds its formal
specification: TLA+ modules translated from the code under `src/src/`, the TLC
configurations that check them on small instances, and TLAPS proofs that hold
for all instances. `PROJECT.json` maps every definition to the lines it models.

    tlc -workers 2 -config MCDatabase_recovery.cfg MCDatabase
    tlapm DatabaseProofs.tla

## 1. The system

| Component | State | Operations | Hard behaviours | What makes it correct |
|---|---|---|---|---|
| Database (`lib.rs`) | catalog, node tables, relationship tables, `dirty`, `next_tx_id`, header | `open`, `execute` (CREATE NODE/REL TABLE, CREATE, MATCH..CREATE, COPY, MATCH), `checkpoint`, `close`, `drop` | a crash between any two writes; recovery of a recovered database | acknowledged rows survive; keys stay unique; edges keep joining the same nodes; the log is cut only when all is saved |
| Write-ahead log (`storage/wal`) | `wal.log`, a `BufWriter`, LSN | append, flush, sync, truncate, read, analyze, replay | torn tail; ids that repeat between sessions; replay over data that already contains the change | committed and only committed transactions are replayed |
| Catalog (`catalog/schema.rs`) | tables by name and by id | create and look up tables | ids handed out again after lost DDL | a record of the log names the table it was written for |
| Node table (`storage/table.rs`) | columns of rows, key check | `insert`, `insert_batch`, `find_by_pk` | a batch that is refused half-way | no key twice |
| Relationship table (`storage/rel_table.rs`) | CSR node groups, forward and backward; properties by relationship id | `insert`, `insert_batch`, traversal, to and from data | offset shifting in both directions; a batch refused half-way; ids after a reload | both directions describe the same edge list |
| Buffer pool (`storage/buffer_pool`) | frames, page table, eviction queue | `pin`, `new_page`, unpin (drop), `flush_page`, `flush_all` | threads (`&self`); four kinds of locks; I/O errors; a full pool | a page holds what was last written to it; pinned pages stay |
| Page state (`page_state.rs`) | one atomic word | lock, mark, unlock, optimistic read | compare-and-swap races, version wrap | at most one holder |
| Data file (`storage/page`, `storage/mod.rs`) | header with page ranges; pages | read, write, allocate, migration from version 1, multi-page sections | relocation of growing sections; overlapping ranges | ranges never overlap; the header points at complete sections |
| CSV import (`storage/csv`) | file position, batches, progress, results of blocks | node and relationship import: sequential, streaming or parallel | rows at block boundaries, errors in the middle, threads that finish in any order | every row is taken once and in order; a failure leaves a prefix |
| Query execution (`lib.rs`, `executor`) | the queue of paths, the rows found | scan, one hop, paths of variable length, ORDER BY, SKIP, LIMIT, aggregates | cycles, parallel edges, nulls, sums beyond an i64 | one row for every match |
| Binder, planner, optimizer (`binder`, `planner`) | scope, query graph, plan | bind, plan, rewrite | rules that look at the root and run once; folding of nulls | a rewrite keeps rows and columns |
| Vectorized evaluator (`executor/vectorized`) | none | evaluate an expression on a batch | nulls and types | the meaning of a predicate in `Planner` |
| Parser, DataFusion bridge, `VmRegion` | none | conversions | none | not modelled |

How they interact: `Database` owns all of them and takes `&mut self`, so
statements run one at a time; the concurrency of a database is the crash. A
statement that creates a node or an edge appends Begin, the insertion and
Commit to the WAL's buffer and flushes it. DDL and imports only change memory.
`checkpoint` serialises every section into pages of the buffer pool, calls
`flush_all`, appends a Checkpoint record and truncates the log. `open` loads
the sections named by the header and replays the log, and does not truncate it.
The buffer pool is the one component made for several threads: its operations
take `&self`, and a test of the repository
(`tests/integration_tests.rs`, `test_buffer_pool_concurrent_pin_unpin`) shares
it between four.

The hazards are listed at their lines in `PROJECT.json`.

## 2. Modules

| Module | Models |
|---|---|
| `Database` | `lib.rs` with WAL, catalog, tables, import, checkpoint, crash and recovery |
| `MCDatabase` | its TLC instances |
| `DatabaseProofs` | type correctness of `Database`, unique keys and durability of nodes; that recovery keeps relationships and reopening shows the session |
| `BufferPool` | `storage/buffer_pool` and the disk manager below it, thread by thread |
| `PageStore` | abstract: what a page cache promises |
| `DataFile` | `data.ruzu`: header versions, page ranges, multi-page sections, allocation, flushing, migration |
| `RelTable` | `storage/rel_table.rs`: the CSR node groups |
| `EdgeList` | abstract: a relationship table is a list of edges |
| `CsvImport` | `storage/csv`: both loaders on their three paths |
| `Query` | MATCH as `Database` executes it |
| `PageState` | `page_state.rs`: the atomic word, access by access |
| `Planner` | `binder`, `planner` and the vectorized evaluator |
| `RelTableProofs` | both indexes of `RelTable`, and that it implements `EdgeList` |
| `DataFileProofs` | page ranges and checkpoints of `DataFile` |
| `BufferPoolProofs` | `BufferPool` with one thread, then with one writer and any number of readers; that it implements `PageStore` |
| `CsvImportProofs` | every theorem about `CsvImport`: its three safety properties |
| `QueryProofs` | every theorem about `Query`: its three safety properties |
| `PlannerProofs` | every theorem about `Planner`: its three properties |
| `PageStateProofs` | mutual exclusion, the dirty mark and optimistic reads of `PageState` |
| `MC...` | the TLC instance of each of these modules |

### Database

State: the fields of `struct Database` (`catalog`, `nodes`, `rels`, `dirty`,
`nextTx`), the statement being executed (`stmt`, `pc`), the log buffer and file
(`walBuf`, `walFile`), and the sections of `data.ruzu` (`dHeader`, `dCatalog`,
`dNodes`, `dRels`; `dTorn` are sections of which only some pages are
overwritten). History variables (`acked`, `edges`, `committed`, `tried`,
`sent`, `orphaned`) record what callers were told; `ddlLost` records that a
crash came while the catalog in memory was not the one in the file, so that a
CREATE TABLE, which is not logged, is lost.

Every operation is an action. Operations that make several writes are cut
exactly where a crash can separate them:

    CREATE, MATCH..CREATE   Execute... (buffer the records), Finish... (flush, return)
    COPY                    ImportNodes / ImportRelationships, then one ...Step per row
    checkpoint, close       BeginCheckpoint, TearSection / FlushPage in any order
                            (flush_all iterates a hash map), LogCheckpoint, TruncateWal
    open                    OpenNew | OpenFails | LoadDatabase, ReplayRecord..., FinishOpen

`Crash` may happen in any state in which the process lives. It loses memory and
leaves of the log buffer a prefix (all or nothing, unless a row is larger than
the 8 KiB buffer: `LargeRows`) and possibly a torn record (`TornTails`: the
length prefix cut, or the data behind it).

Abstractions:

* a row is its primary key; a row that `insert` refuses although replay accepts
  it (a column missing from CREATE is logged as Null) has the shape
  "incomplete";
* a table id is the table's position in the catalog: ids are handed out in
  order and nothing drops a table;
* a batch of an import is one row; the batch size changes only how many rows
  an aborted import leaves. A row that does not parse behaves as one that is
  refused, or skipped under `ignore_errors`;
* a section is rewritten in place; that it moves when it grows is in
  `DataFile`. Dirty pages that the pool evicts during a
  checkpoint reach the file early, which is a `FlushPage` or `TearSection`;
* the process dies, the machine does not: what `write` returned from is kept,
  as the code has no other promise for statements (it flushes, it does not
  sync). There are no I/O errors in this module;
* a catalog or relationship section with old and new pages never decodes, so
  the database does not open. In the code it might also decode to something
  that was never saved; this is not modelled;
* bytes that follow a cut length prefix do not decode, so the log is then
  unreadable.

### BufferPool

A step is what a thread does between two lock acquisitions. Locks that are held
while another is awaited are variables (`tableR`, `frameW`, `queueL`, `diskL`);
a lock that is released before the next one is taken makes its critical section
one step. `find_or_evict_frame` looks at one frame per step, `evict_frame` pops
one frame per step, `flush_all` flushes the pages in any order. Reads, writes
and allocations of the disk manager may fail (`MaxErrors`). The contents of a
page is the number of the write that produced it. A thread pins only pages whose ids it was
given (`known`) and does not pin a page twice. Writing through the slice of
`data_mut` is a step after the one that marks the frame dirty; a caller that
keeps the slice across a call to `flush_all` of its own is not modelled (no
caller in the repository does). Not modelled: `allocate_page_range` (it touches
no frame), the counters.

### DataFile

Below `Database`: what a checkpoint does to the pages of the file. A section
(catalog, nodes, relationships) is a version and a length; it is written with a
length prefix of four bytes into the pages of its range, and gets a new range
when it needs more pages than it has. `dirty` is the part of the buffer pool
that is not in the file; `FlushPage` writes one page of it, in any order, and
`Stop` ends the process anywhere. `Init` also starts from files that earlier
formats left: version 2 differs from version 3 in its number only; version 1
knows no relationships, and its file is taken to end with page 2, the last page
it used.

### RelTable and EdgeList

A table is a record of the fields of `RelTable`: two maps of node groups with
`offsets`, `neighbors` and `rel_ids`, the next id, and the properties by id.
`insert_batch` validates all rows first and then inserts one per step. `Save`
and `Load` are `to_data` and `from_data`. `RelTable` implements `EdgeList`, in
which an edge's id is its position: the view of relationships that `Database`
has.

### CsvImport

A file is a header, records and line breaks. A record has the offsets of its
first byte and behind its last one, and a kind that says which check refuses it
(the comment in the module lists them); `lines` has the offsets behind a `"\n"`.
So line breaks may be `"\n"`, `"\r\n"` or `"\r"`, with blank lines between, and a
file may have no header: then the kind of `file[1]` is that of the first line,
which `validate_headers` reads all the same, and it has no bytes. The streaming and sequential paths take one record per step. A full batch is handed
to the callback of the import: `HandOverNodes` inserts all of it or nothing,
`HandOverRels` takes one relationship per step, so a failure can leave half of
a batch. On the parallel path every block has a thread that begins
(`StartBlock`), reads one row per step (`ReadRow`) and ends (`EndBlock`),
interleaved with the others; when all are through, `CollectError` returns an
error of one of them or `JoinBlock` appends the results in the order of the
blocks. `seek_to_row_start`, the end of a block, the data beyond the block that
it may read and the refusal of quoted newlines are modelled in bytes. Two readers
meet there: the CSV reader ends a record at the `"\r"` or `"\n"` behind it and
skips the rest of the line break when it is asked for the next record, so that
the position it reports (`Position`) is in front of that rest; `seek_to_row_start`
looks for `"\n"` only. A record that the data of a block cuts off may be
refused or read as another one (`Remnant`). Not modelled: blank lines in front of
the header, and `skip_rows`, which the loaders ignore.

### Query

The input is a database and a query; both are fixed for the run, because a
statement borrows the database. A scan takes one source per step, a hop one edge
of its source, the search for paths one edge of the entry at the head of the queue,
and ORDER BY one row, which `sort_by` inserts behind the rows it is not less than
(the library sorts longer slices by merging; both are stable). Values are typed,
with null; `Value::compare`, with the closure given to `sort_by`, and the
promotion of integers are as in the code. An integer that is compared with a float
becomes the float next to it (`AsFloat`, exact up to `FloatExact`, 2^53 in the
code). NaN, which a CSV file can hold, has no order (`Compare`). The other floats
of the model are whole numbers. SUM, MIN and MAX are recursive functions
of the number of rows, one step of the iterator each. Integers wrap at `IntLimit` (2^63 in the code), as in a release build; a debug
build panics there. One property per variable; `AVG` is kept as sum and count.

### PageState

Every operation is a load and a compare-and-swap, two steps; a failed swap
returns or tries again, as each operation does. The version is a number below
`VersionLimit` (2^56 in the code) that is or-ed into the word without a mask,
so it can reach into the state. Clients keep the protocol of the
documentation. The buffer pool does not use this component yet.

### Planner

`Binder::bind_node` and `bind_relationship` grow a scope and a query graph;
`Planner::plan` makes a chain of operators, so a plan is a sequence;
`optimize_with_tracking` applies one rule per step, and the result is optimised
once more. The functions that recurse on an expression (`try_evaluate_constant`,
`simplify_predicate`, `collect_columns_from_expr`, `evaluate`) are recursive
functions over `Expressions`, a constant that stands for the type
`BoundExpression`: a set of well-formed expressions that contains their parts,
with a `Depth` that is smaller for the parts, and what simplification makes of
them. The instance takes the predicates of its queries, closes them under parts,
and TLC evaluates the assumptions.
`VectorizedEvaluator::evaluate`, on one row, is the meaning of a predicate: Arrow's
`and` and `or` are null as soon as one side is, and its comparisons use the total
order of floats, in which -0.0 is less than 0.0 and a NaN equals itself. The
content of a float is its place in this order. `EvaluateComparison`, with which
the optimizer folds two literals, asks `partial_cmp` instead: -0.0 and 0.0 are the
same, and a NaN is not ordered. Left out:
arithmetic, aggregates, joins and unions (which `Planner::plan` never makes),
and the text of EXPLAIN. `Database::execute` does not call the planner.

## 3. Runs

### Passing

| Run | Instance | Shows |
|---|---|---|
| `recovery` | one node table, one relationship table, 2 keys, 5 statements, 2 crashes; 910 000 states | `UniqueKeys`, `AckedNodesVisible`, `EdgesRecovered`, `ReopenRestores`, `CallsReturn` |
| `faults` | 3 statements, one import of at most 2 rows, 2 crashes, refused and oversized rows, torn log tails, torn catalog and relationship sections; 660 000 states | `TypeOK`, `DurabilityInv`, `TruncatesOnlySaved` |
| `pool_seq` | one thread, 2 frames, 3 pages, 3 handles, 2 writes, one I/O error; 170 000 states | `TypeOK`, `PoolConsistent`, `FullMeansPinned`, `FlushAllSaves`, `ImplementsPageStore`, `CallsReturn` |
| `pool_shared` | a writer and a reader, every page resident; 30 000 states | `HandlesValid`, `FlushAllSaves`, `CallsReturn` |
| `datafile` | pages of 8 bytes, sections of 4, 5 and 13 bytes (one page exactly, one byte more, three pages), 2 updates, 2 stops, a new file or one of version 2 or 3; 2 100 000 states | `RangesSound`, `SaveNeverFails`, `OldOrNew`, `ReopenLoads` |
| `rel_table` | 3 nodes in groups of 2, 3 edges, batches of up to 2, property lists of the right and of the wrong length; 9 000 states | `CsrValid`, `DirectionsAgree`, `BatchNeverHalf`, `ImplementsEdgeList` |
| `csv_import` | every file of up to 3 records of every kind, batches of 2; for the parallel path up to 4 records of 1 or 2 bytes in blocks of 4, with LF, CRLF, CR and blank lines, with and without a header; 262 000 states | `LoadsFile`, `FailureLeavesPrefix`, `CountsAddUp`, `LoadReturns` |
| `query` | paths with 4 pairs of bounds on every graph of 3 nodes with up to 2 edges out of each; hops with every filter; columns of up to 3 values, null and NaN among them, integers from -8 to 7, floats exact up to 4; 429 000 states | `PathsExact`, `WindowOfSorted`, `AggregatesSound`, `QueryReturns` |
| `page_state` | 2 threads, one reader, 3 versions; 580 000 states | `Exclusive`, `OptimisticReadSound`, `DirtyNeverOverwritten`, `LockFree` |
| `planner` | patterns of up to 2 nodes and 2 relationships, predicates up to NOT over AND and OR, NaN and both zeros among the literals, 2 passes; 1 170 000 states | `DefiniteRowsKept`, `ColumnsKept`, `FixedPoint` |

Five statements are what it takes to create both tables, two nodes and an edge;
two crashes let the second one hit the recovery, or the session after the
recovery, of the first. In `pool_seq` a third page forces an eviction, three
handles can ask for more pages than there are frames, and the one error can hit
every read, write and allocation. In `pool_shared` the writer also allocates a
page, so the page table is written while the reader uses it; nothing is evicted,
which is the situation of the repository's own concurrency test. In `datafile`
the lengths make a section fill its page, need one more and need three, and
the second stop hits the file a first stop left. In `rel_table` the third node
opens a second group and an edge is inserted in front of others. In
`csv_import` a row can end at, before and behind each block boundary, a line
break can have the boundary inside it, and
batches are full, partly full and empty. In `query` the graphs have every cycle,
self-loop and parallel edge of three nodes, partial sums leave the integers
and come back, and 5 becomes the float 4. In `planner` `Infinity = 2` leaves room
for -0.0, 0.0, one number between the infinities and a NaN (3). In `page_state` the version runs over while others are in the
middle of an operation.

What the properties leave out, and why:

* `EdgesRecovered` says nothing once a crash has lost a CREATE TABLE: see
  `AllEdgesRecovered` below, which needs a sixth statement to fail.
* On the parallel path `LoadsFile` and `CountsAddUp` ask for lines shorter than a
  block (`LinesFitBlocks`) and for records at the start of a line
  (`RowsBeginLines`: not behind a single `"\r"`), and, for a row to be read only
  once, that no line break has the end of a block inside it (`BreaksInBlocks`),
  which takes CRLF or a blank line. `CountsAddUp` does not speak of the
  sequential path. See below.
* `PathsExact` is about relationships within one table. With two, the cycle
  check compares offsets of different tables.
* `WindowOfSorted` is about columns of one type, as a table has them, without null
  and NaN; `AggregatesSound` about filters that compare with a float only integers
  that are floats (`FilterExact`), and its bounds about columns without NaN: `MIN` of
  a NaN and a number is the NaN if it comes first.
* `DefiniteRowsKept` says nothing of rows on which the predicate as written is
  null or fails: `NOT (1 = NULL)` is null to the evaluator and folds to true. Nor
  does it if the predicate compares literals that the two orders of floats decide
  differently (`OrdersAgree`): `0.0 = -0.0` is false to the evaluator and folds to
  true, `NaN = NaN` is true and folds to false. TLC refutes the property without
  this condition.
* `FixedPoint` is about the plan. `ProjectionPushdownRule` reports a change on
  an optimised plan although it makes none.

Every passing property has a seeded fault, an operator `...Not`, `...Early`,
`...Stuck` and so on beside the definition it replaces, under which TLC refutes it.

### Disagreements between the documents and the code

Two of them have a run with one property, a sentence of the repository's
documents; TLC shows the behaviour that contradicts it, and `PROJECT.json`
quotes the lines.

| Run | What happens |
|---|---|
| `relocation` | A section that grew is written to new pages, and `flush_all` writes the header in no particular order: a stop can leave a header that points at pages never written. |
| `long_rows` | A parallel load of rows of 3 and 4 bytes in blocks of 4. The block of a row that fills it has no row that starts inside and counts as empty, although the row that starts at its end is its own; the next block skips that row, and the load returns Ok without it. Rows must be shorter than a block (64 KB at least), which nothing checks. |

The other disagreements are stated as properties at the end of their modules, or
are a passing property on another instance. TLC refutes each of them; a cfg with
the instance named here and the property as its INVARIANT shows the behaviour.

| Property | Instance | What happens |
|---|---|---|
| `NoNodeOrphaned` (`Database`) | `recovery` | CREATE NODE TABLE is not logged. A crash before the next checkpoint loses the table, and with it committed rows (`specs/002-persistent-storage/spec.md:36`). |
| `UncommittedRolledBack` (`Database`) | `recovery` with `LargeRows = TRUE` | Transaction ids restart at 1 in each session while the log is kept. A torn transaction is committed by the Commit record of an earlier one with the same id (`specs/002-persistent-storage/spec.md:37`). |
| `EdgesOnce` (`Database`) | `recovery` | A crash after `flush_all` and before the truncation: the relationships are replayed over data that has them (`specs/001-fix-rel-persistence/spec.md:43`). |
| `CheckpointedReopens` (`Database`) | `recovery` | The relationship page is written and the catalog page is not: every open returns `RelTableCorrupted` (`specs/002-persistent-storage/spec.md:28`). |
| `RowsInTheirTable` (`Database`) | `recovery` with two node tables and no relationship table | After lost DDL a table id is used again: rows of the lost table are replayed into the new one (`specs/002-persistent-storage/spec.md:28`). |
| `AckedNodesVisible` (`Database`) | `recovery` with `MultiPage = {"nodes"}` | A node section of several pages, half overwritten, is read as empty, without an error (`specs/007-multi-page-storage/spec.md:118`). |
| `EdgesRecovered` (`Database`) | `recovery` with `MaxImports = 1` | Relationships are logged by row offset and imported rows are not logged: after a crash the offsets name other rows (`specs/001-fix-rel-persistence/spec.md:52`). |
| `AllEdgesRecovered` (`Database`) | `recovery` with `MaxStmts = 6` | After lost DDL the id of a table is given again. The log still has a node of the lost table, which recovery puts in front of the rows of the new one, where the offset of a relationship then names it (`specs/001-fix-rel-persistence/spec.md:52`). |
| `HandlesValid` (`BufferPool`) | `pool_shared` with `Warm = FALSE`, `StartPages = 2` | Two threads that miss at the same time are given the same empty frame (`specs/002-persistent-storage/spec.md:86`). |
| `RangesDisjoint` (`DataFile`) | `datafile` with `StartVersions = {1}` | The range (3, 1) that migration gives to relationships is beyond the file, and the next allocation hands out page 3 again (`src/storage/mod.rs:220`). |
| `RowsImportedIsRows` (`CsvImport`) | `csv_import` (the sequential path) | `rows_imported` counts skipped rows too. |
| `RowsInFileOrder` (`CsvImport`) | `long_rows` with `RowLens = {1, 2}`, `Styles = {"crlf"}` | `process_block` ends a block by the position of the reader in front of a record, which is the `"\n"` of the CRLF before it. If that `"\n"` is the first byte of the next block, the row behind it is read by the block and again by the next one, and the load returns Ok with the row twice (`src/storage/csv/parallel.rs:456,546`, `specs/003-optimize-csv-import/research.md:30`). |
| `RowsInFileOrder` (`CsvImport`) | `long_rows` with `RowLens = {1, 5}` | A row that goes on beyond the block after its own is cut off, and what is left may be read as another row (`long_rows` shows the other way to lose a row). |
| `FilterApplies` (`Query`) | `query` with `PathFilters <- MCFilter` | A path query ignores its WHERE clause (`specs/005-query-engine/spec.md:69,71`). |
| `NullsLast` (`Query`) | `query` with `OrderValues <- MCNullValues` | A null is equal to every value for `sort_by` (`specs/005-query-engine/research.md:572`). |
| `SortedByNumber` (`Query`) | `query` with `OrderValues <- MCNaNValues` | A NaN is equal to every number for `sort_by`, so that 1, NaN, 2 is descending. The documents say that NaN is refused (`specs/006-add-datatypes/spec.md:98,99`), but the CSV loaders take it. |
| `DefiniteRowsKept` (`Planner`) without `OrdersAgree` | `planner` | Folding and evaluation order -0.0, 0.0 and NaN differently, so a filter on such literals keeps other rows once it is folded. |
| `AlwaysFalseIsEmpty` (`Planner`) | `planner` | WHERE 1 = 0 becomes an empty plan only when the filter is the root of the plan and its input is not a scan; with RETURN no filter is pushed down or folded (`specs/005-query-engine/spec.md:20,22`). |

Smaller ones, visible in the definitions: `unlock_to_marked` is documented to
panic if the page is not locked and never does (`NewWord`); `validate_headers`
accepts FROM and TO in any case where the streaming path then finds only the
exact spelling (`RelStreamHeaderFits`); `Planner::plan` scans only the first
node of a pattern and both extends and expands a relationship with bounds
(`Hop`); `bind_relationship` accepts a relationship variable as an end.

A second consequence of sharing the pool between threads that miss:
`CallsReturn` fails on that instance as well. `unpin` holds the frame and waits
for the queue while `evict_frame` holds the queue and waits for the frame; a hit
in `pin` (page table, then frame) and `flush_page` (disk manager, then frame)
meet `evict_frame` in the same way. `Database` itself uses the pool from one
thread.

### Fairness

`Database`: `WF_vars(Running)`. A call that has started runs until it returns or
the process dies; nothing makes a caller call. For the same reason
`CHECK_DEADLOCK FALSE`: a behaviour ends when its bounds are used up and the
caller stops, or when `open` has failed.

`BufferPool`: `SF_vars(Run(t))` for each thread. A thread inside a call is
scheduled, and a lock that becomes free again and again is eventually granted:
parking_lot's locks are eventually fair. No fairness on `Call`. Deadlock
is checked: an idle writer can always call `flush_all`, so a deadlock would be a
real one.

`CsvImport` and `Query`: `WF_vars(Next)`. A load and a query are single calls
in which nothing waits; the threads of a parallel load are joined. `PageState`:
`WF_vars(InCall(t))`, a thread inside an operation is scheduled; none for
callers. `RelTable`, `DataFile` and `Planner` have no liveness property and no
fairness. `planner` does not check deadlock: a query that failed to bind, or
was optimised twice, is over.

## 4. Proofs

Each theorem holds for every value of the constants that satisfies the named
assumptions of its module (`...Assumption`) and the condition in the last
column. The conditions are not for the provers' convenience: TLC refutes the
property, or for a group of theorems one of the properties, on an instance
without the condition.

| Theorem | Says | Condition |
|---|---|---|
| `TypeCorrect` | `Database`: `[]TypeOK` | |
| `UniqueKeysHold` | `[]UniqueKeys` | |
| `Durability`, `AcknowledgedNodesSurvive` | `[]DurabilityInv`, `[]AckedNodesVisible` | the node section fits one page |
| `TruncatesOnlySavedHolds` | `TruncatesOnlySaved` | |
| `RecoveryInvariant`, `EdgesSurvive` | `[]RecoveryInv`, `[]EdgesRecovered` | `LoggedOnly` |
| `ReopeningRestores` | `[]ReopenRestores` | `StatementsLogged` |
| `CsrStaysValid`, `IndexesAgree` | `RelTable`: `[]CsrValid`, `[]DirectionsAgree` | |
| `BatchIsWhole` | `BatchNeverHalf` | |
| `RefinesEdgeList` | `RelTable` implements `EdgeList` | |
| `LayoutSound`, `NoSaveFails`, `OldCopiesStay` | `DataFile`: `[]RangesSound`, `[]SaveNeverFails`, `[]OldOrNew` | no file of version 1 |
| `ReopenLoadsAcked` | `ReopenLoads` | no file of version 1 |
| `PoolTyped`, `PinnedPagesStay`, `PoolStaysConsistent`, `FullOnlyWhenPinned` | `BufferPool`: `[]TypeOK`, `[]HandlesValid`, `[]PoolConsistent`, `[]FullMeansPinned` | one thread |
| `FlushSavesEveryPage` | `FlushAllSaves` | one thread |
| `RefinesPageStore` | `BufferPool` implements `PageStore` | one thread |
| `SharedPagesStay`, `SharedPoolConsistent`, `SharedFlushSaves`, `SharedRefinesPageStore` | the same four for several threads | one writer, every page has a frame |
| `MutualExclusion`, `OptimisticReadsHold` | `PageState`: `[]Exclusive`, `[]OptimisticReadSound` | |
| `DirtyMarksKept` | `DirtyNeverOverwritten` | |
| `WholeFileLoads`, `CountsAgree` | `CsvImport`: `[]LoadsFile`, `[]CountsAddUp` | in the properties: in parallel, lines shorter than blocks and no line break across the end of one |
| `FailuresLeavePrefix` | `[]FailureLeavesPrefix` | |
| `PlanFollowsRules` | `Planner`: `[]PlannerInv` | |
| `RowsKept` | `[]DefiniteRowsKept` | in the property: `OrdersAgree` |
| `SchemaKept` | `[]ColumnsKept` | |
| `OnePassEnough` | `FixedPoint` | |
| `PathsFound` | `Query`: `[]PathsExact` | |
| `AggregatesRight` | `[]AggregatesSound` | in the property: `FilterExact` |
| `WindowsRight` | `[]WindowOfSorted` | in the property: no null and no NaN in the columns of ORDER BY |

### Database: nodes

`UniqueKeys` needs only the shape of a step: every step leaves a node table as
it is, empties it, replaces it by what the data file has, or appends a key the
table does not contain (`NodeTableSteps`), and the data file's copy is only ever
replaced by the table.

`AckedNodesVisible` is not inductive: it speaks of idle states only, and says
nothing of how an acknowledged row gets through a crash. `DurabilityInv` is the
strengthening, and each part closes a gap:

* `AckedDurable`: the row is in the data file, or a committed record in the log
  inserts it *under the id its table has in the catalog at hand*. This is the
  central claim.
* `CatalogInv`: the catalog of the file is a prefix of the one in memory and no
  table has two ids. Without it, a record could change its table when memory
  is lost.
* `AckedInMemory`: during replay, the row is in memory already or its record is
  still to come. It carries the claim through the recovery.
* `FlushInv`: what a checkpoint no longer has to flush equals memory. So when
  nothing is left to flush the log may go.
* `StmtInv`: the buffered records of a CREATE name the row it will insert.

The step lemmas use one monotonicity fact (`Grows`): while the log and the
catalog only grow, committed records stay committed and keep their tables. Only
`TruncateWal` shortens the log, and there `FlushInv` gives that every
acknowledged row is saved. TLC checks `DurabilityInv` in the run `faults`.

### Database: relationships

A relationship is two row offsets, so it survives only if recovery rebuilds the
rows *in their order*. The invariant must therefore say what the log makes of
the data file. `RecoveryInv` does so with a witness, and not with the recursive
function of the next section: `RowsInv` says that
there is a function `h` from `0..Len(walFile)` to the contents of the node
tables that starts with the data file's rows and takes one record at a time
(`Replays`); that memory is a point on this way, its end once the replay is
over; and that every relationship joins the right rows at its end. Each action
then gives the next `h`: a statement extends it by its three records
(`ReplaysEntry`), DDL keeps it although the catalog grows (`ReplaysWider`), the
flush of the node section makes it constant, because replaying a record whose
node is there changes nothing (`ReplaysQuiet`), and `ReplayRecord` walks along
it. The other parts: records name tables of the catalog, and are committed
(`RecordsInv`); what a table unknown to the catalog holds is nothing
(`TablesInv`); a relationship is in the data file or in the log (`PairsInv`);
the buffer has exactly the records of the statement under way (`BufferInv`).

`LoggedOnly` says that all that changes a node table is in the log, whole:
no imports (they are not logged, section 3), no row larger than the log's
buffer (a torn transaction may be replayed with the next session's ids, section
3), no CREATE without all columns (its record is replayed although the statement
failed), and a node section of one page. TLC refutes `EdgesRecovered` on `recovery`
when any one of the four is dropped. The invariant speaks only of
behaviours in which no crash has lost a CREATE TABLE (`ddlLost`). `EdgesRecovered`
has the same condition: without it the property passes with five statements and
fails with six, as the attempt to prove it showed.

TLC checked `RecoveryInv`, with the recursive function in the place of `h`, on
`recovery`, on the same with `MultiPage = {"catalog", "rels"}`, and with two node
tables. `EdgesSurvive` does not imply that an edge is there only once: it may be
replayed over data that has it (`EdgesOnce`).

### Database: reopening

`ReopenRestores` compares the session with `Reopened`, the last value of the
recursive function `Replayed`: the log replayed over the data file, record by
record. Two things have to be proved.

*What `Replayed` is.* tlapm sees the definition as a `CHOOSE` of a function that
satisfies its equation, so there must be one, and any two must agree.
`WayExists` and `WayUnique` say so for every sequence of steps, by induction on
its length. The library's induction theorems take an operator, which no prover
here can instantiate; `AllNumbers` states induction with a set in its place, and
follows from `LeastNumber`, which is `WFMin` for the numbers. `ReplayedSteps` is
the result: `Replayed` has the type, the first value and the steps it is
written with. `ReplayedEntry` is what the proof uses it for: a transaction
more at the end of the log applies its insertion to what the log made before,
and changes nothing of what it made before. That needs `AllCommitted`:
transaction ids start again in every session, so a commit could otherwise
commit an insertion that an earlier session left without one.

*The invariant* `ReopenInv`. `PrefixInv`: the data file knows a prefix of the
catalog, and no table twice, so a record's id means the same table in both, or a table
the file does not have. `LogInv`: only whole transactions reach the log.
`ShowsInv`: a recovery under way is at `Replayed[replayPos - 1]`; an idle session
is at `Reopened`; during a statement the difference between the two is exactly
what waits in the buffer (`Pending`): nothing yet for a node, whose row follows
the flush, and one edge for a relationship, which is in memory before it is in
the log. During a checkpoint it claims nothing, because there `Reopened` changes
with every page; at its end the log is empty and the file has everything
(`FlushInv`). So the crash in the middle of a checkpoint needs no argument of
its own: the session is gone, and the next one starts from what the files give.

`StatementsLogged` is `LoggedOnly` without the last condition: sections may have
any number of pages, since an open that succeeds is all the property speaks of.
TLC refutes `ReopenRestores` on `recovery` when any one of its three parts is
dropped, checked `ReopenInv` with four statements and `MultiPage = {"nodes", "rels"}`,
and the property with all three sections of several pages.

### RelTable

`CsrValid` alone is not inductive: an insertion shifts the offsets behind it, and
that the shifted group is valid needs the exact effect of `Vec::insert` on the
three vectors (`InsertAtProperties`). `TableInv` adds what the other properties
need: an entry of one index has its counterpart in the other (`BothWays`), ids
ascend within a node's range (`InOrder`) and occur once (`IdsOnce`), and each
edge is found by iterating over the nodes (`AllIterated`). The proof goes from one
group to one index to the table. The saved table is the image of one that
satisfies the invariant (`SavedOK`), so loading needs no argument about
conversion beyond `from_data(to_data(t)) = t`. For `RefinesEdgeList` the position
of an edge in the list is its id, and a step of the table is a step of the list
or a stutter; the cardinalities come from the theorems about finite sets.

### DataFile

The inductive invariant is `DataFileInv`. `FileInv` says that the file is a
sequence of pages and that ranges, those in memory and those of the header in the
file, lie inside it and do not overlap; `DirtyInv` that a page of a section is in
the pool until the file has it as the checkpoint wants it, so an empty pool is a
complete checkpoint; `OldCopies` that until the header is written a section that
moves still has its old pages; `AckInv` that between checkpoints the file yields
what was acknowledged.

The condition is `1 \notin StartVersions`: migration from version 1 gives the
relationships page 3, which the next allocation hands out again, and TLC refutes
`RangesSound`, `OldOrNew` and `ReopenLoads` there. `LengthsAssumption` asks that some
section length fits a page with its prefix, which the empty section of a new
database does.

### BufferPool

With one thread (`Threads = {t}`), which is how `Database` uses it: it owns the
pool and calls it through `&mut self`. `PoolConsistent` speaks of states
between calls; `SeqInv` adds what each call knows at each of its labels: in `pin`
the page stays missing until it is installed, and a frame taken from the queue is
unpinned and belongs to nobody (`PinInv`); `data_mut` has a dirty frame before it
writes (`WriteInv`); `flush_all` has saved what is not in its list any more
(`FlushInv`). A frame that is not dirty holds what the file holds (`FileAgrees`), which
makes eviction without a write sound, and an unpinned page is in the queue or was
stranded by a failed write (`QueueHolds`), which is `FullMeansPinned`. Capacity,
pages, handles and the number of I/O errors are arbitrary.

With several threads, one of which writes, allocates and flushes while the others
pin and unpin, the pages are resident at the start (`Warm`) and
`MaxPages <= Capacity`. This is the situation of
`test_buffer_pool_concurrent_pin_unpin`. The conditions are needed because
`find_or_evict_frame` does not reserve the frame it returns: two threads that miss
get the same one (section 3), and two writers break `FlushAllSaves`, as one may write
a page while the other flushes it. `SharedInv` says that every known page has its place
and keeps it (`PagesPlaced`), that a handle points there, and that the pin count of
a frame is the number of handles of *all* threads (`Counted`), which needs the
cardinality of a union over threads; readers never leave the labels of a hit
(`OthersRead`), so what the writer knows at its labels is not disturbed (`Flushes`).
`FullMeansPinned` is not claimed here: nothing is ever full.

### PageState

`Exclusive` is strengthened to `ExclusiveInv`: a thread inside an operation loaded
a word whose state the operation accepts (`CallsAccepted`), and only the holder is
inside an operation that gives the lock back (`ReleasersHold`). A swap succeeds
only on the word that was loaded, so a lock is taken only where nobody holds it; a
version that runs over cannot unlock a page, because or-ing a bit into Locked
leaves it as it is (`JoinIsWord`).

For optimistic reads `ReadInv` counts: until it validates, a reader's version and
the number of steps since then give the version of the word (`VersionsCounted`),
and whoever may have disturbed the data has raised the version after the reader
looked (`DisturbedLate`). So equal versions mean no step, unless there were
`VersionLimit` of them. A reset stores the version it loaded plus one, which is
the next one only because the lock keeps others from raising it (`ResetFresh`). The
only assumption is that there is more than one version.

### CsvImport

The properties speak of loads that have returned; `CsvInv` says what has been
dealt with before that. On the streaming and the sequential path it is the
records in front of `pos`: the rows and the batch are in the order of the file,
the batch behind the rows, and together they hold what is wanted of those records
(`ReaderInv`); rows, batch and failures count them all (`CountsInv`); batches of
nodes are whole (`BatchesInv`), because a batch is handed over when it is full or
at the end of the file.

On the parallel path block `k` owns the records from `FirstRow(k)` up to
`FirstRow(k + 1)`. The invariant has two readings of what a thread has done, for
two kinds of files. `ReadAll`: its records in front of `next` are taken; this needs
`Lined`, that lines are shorter than blocks and records begin lines. `ReadUpTo`:
they are taken once, in order, and no other; this needs `Exact`, that besides
no line break has the end of a block inside it. `JoinedInv` says both of the rows
joined. The core are facts about blocks. The loop of a block does not end in front of
the next block's first record, and ends exactly there if the file is `Exact`
(`InBlockFacts`): otherwise the thread goes one record further, which is the row read
twice of section 3. A block that counts as empty owns nothing
(`EmptyBlockFacts`), and no record is cut off (`NotCutOff`); both need lines
shorter than blocks, as the block of a row that fills it is empty and owns
the next row (section 3, `long_rows`). In a file with `"\n"` line breaks and without
blank lines no line break has anything inside it, so there `Exact` is only the
condition on the lengths. TLC checked `CsvInv` on the instance of `csv_import`.

The only assumptions are that batches and blocks are not empty and that the
records of a file lie one behind the other with a line break between any two,
outside of which no line begins (`InputsAssumption`). Lengths, kinds,
line breaks and their order are arbitrary, and so are the interleaving of the
threads and the records at which they fail.

### Query

`PathsExact` counts paths of edges, while a row has only the two ends and an entry
of the queue only its nodes: between the same nodes there may be parallel edges.
`PathInv` therefore has two witnesses, as `RecoveryInv` has one: a function `F`
from the rows and a function `G` from the entries of the queue to paths of edges
(`SearchInv`). `RowsInv` says that the rows stand for different matches, `QueueInv`
that the entries stand for different paths (`Walk`: no node occurs twice, which is
the cycle check) from the source that is being searched. The core is `MatchInv`: a
match from a source that has been taken is either among the rows or still
`Awaited`, never both, where a path is awaited if it goes on from an entry, and if that
entry is being expanded, by an edge that has not been looked at. That a match is
awaited by one entry only, so that taking the edge moves it as a whole, holds
because the paths of the queue begin none of each other, except for the head with
the paths it has pushed (`BeginsLater`). At the end the queue is empty and nothing is
awaited, so `F` is a bijection between the rows from `s` to `d` and the matches from
`s` to `d`, and the cardinalities agree (`AllMatches`).

*Aggregates.* `ScanInv` says that the rows are the selected rows of the table below
the next source, in ascending order (`InOrder`), and at the end that the aggregates
are values of three recursive functions of the rows. tlapm sees each of them as a
`CHOOSE`, as `Replayed` above: `WayExists` gives a function with the equations for
any sequence of steps, `SumDefined` and `ExtremesDefined` conclude that `SumTo`,
`LeastTo` and `GreatestTo` have them. What they compute is induction on a number of
rows again. SUM wraps at every addition, so `SumTo` is only the sum modulo
2 * `IntLimit`; it is the sum itself whenever that is an i64 (`WrapFacts`), whatever
the partial sums were. The sum runs over the rows, `SumBefore` over the table:
`SumFound` goes from one to the other row by row. The counts are bijections.

*Order.* `CompareRows` decides by the first item that tells two rows apart. `LexOrder`
and `LexTransitive` say of sequences of integers that their lexicographic order is
total and transitive, and `OrderFacts` that it is the order of the closure, and that
`Before` is this order with the row's number as the last component. `SortInv` says
that during the sort there is a permutation `p` (`Placed`): row `i` is at place
`p[i]`, and `p` is monotone in `Before`. `PlaceOfNext` is the step: the rows that
the next one is not less than are exactly those before it, because it comes after
them in the scan, and they are the places `1 .. at`, because the order is transitive.
This is where stability is used. At the end the place of a row is one more
than the number of rows before it, which is what `IsWindow` says, and SKIP and LIMIT
leave the places in between (`PlacesBetween`, `WindowPlaced`).

The assumption `InputsAssumption` says what parser, catalog and tables guarantee: rows
are numbered from 0, edges are finite lists, a key finds at most one row and is not
used by a scan, values have a type and operators, aggregates and directions are those of the
language, SKIP and LIMIT are integers, negative ones included. The content of a value is an integer
that stands for it in the order of its type. Of the rounding of integers to floats
`FloatAssumption` says only that it is exact up to `FloatExact`; `Exact` is the condition that
the two numbers of a comparison are the ones that were written. Graph, bounds, filters, columns and
sources are arbitrary; the adjacency lists may have loops, cycles and parallel edges.
`PathsFound` does not need the condition of `PathsExact` that there is one node table,
but with two tables an offset is not a node, and the statement would not be the one
that is meant.

### Planner

The claims are about expressions of any depth, so there are two parts: what the
recursive functions compute, and what the rounds of the optimizer make of a plan.

*Expressions.* A recursive function is a `CHOOSE` to tlapm, again.
`RecursionExists` gives a function with the equations whenever the value at an
expression depends on the values at expressions of less depth only: functions that
are right below any given depth exist and agree (`Agree`), by induction on the
depth, and together they are one. `ConstantDefined`, `ColumnsDefined` and
`EvaluateDefined` apply it; `SimplifyDefined` builds its function alone, because
the values of `SimplifyPredicate` are in no set known before. A claim about all
expressions is then proved for one of those for which it fails that no other is
less deep than (`Shallowest`).

`DefiniteRowsKept` is about rows on which the predicate is true or false, and that is
what the induction needs: AND, OR and NOT are definite exactly if every operand
is (`CombineFacts`), since Arrow's operators give null with one null operand and
every operand is evaluated. `ConstantSound`: a constant is what the evaluator
returns, where it returns a definite value at all and `OrdersAgree` holds, so that on two
literals `partial_cmp` gives what the total order gives. `SimplifySound`: the simplified predicate
has the same value on such a row, and decides no comparison that the original does not
(`FoldedShrink`); dropping an operand that is constant may make
more rows definite, never other ones different. The converse is false and not claimed:
`NOT (1 = NULL)` folds to true. `ColumnsShrink`: simplification reads no new
column. `Idempotent`: simplifying again changes nothing, and what is left is
constant only if it is a literal.

*Plans.* The rules look at the root only, so most of them never apply: `Turn`
names the only rule that changes the plan of a query, and `Rounds` shows for each
form of a plan (`PlanForms`) that the rules before and after it, and all four on
a second pass, leave the plan alone. For the third rule this is `Idempotent`.
`PlannerInv` says that the plan is `PlanOf(q)` until that round and `Optimised(q)`
after it, and that a graph that was bound has a scan at its bottom. The
properties are then claims about two plans: a filter that is pushed into the scan
or simplified selects the same rows (`OptimisedSelects`), and the columns that are
read and returned stay (`PushedFilterColumns`, `PushedProjectionColumns`,
`SimplifiedFilterColumns`; the second is where a column that a clause still reads
could be lost).

Assumed are that expressions are finite trees made by their constructors, NOT with
one operand (`ExpressionsAssumption`, `SimplifiedAssumption`), and that columns have
names (`SchemasAssumption`), which tells the column of a whole variable from
the others. `Infinity` is any positive number (`InfinityAssumption`).

### Form of the definitions

tlapm 1.4.5 translates a CASE without OTHER to its SMT backend without its last
arm, so that two of them that differ there count as equal, and loses count of
the bound function in the arms of a CASE inside a recursive function. In the modules with
theorems every CASE therefore ends in OTHER and recursive functions are written
with IF.

### Only model-checked

* Liveness (`CallsReturn`, `LockFree`, `LoadReturns`, `QueryReturns`): out of the
  prover's reach.
* The pool with several writers, or with threads that miss: not true.

## 5. Plan

Modelled: all components with state of their own, except the ones below. Open is a
smaller thing: the lemmas about sequences that grow and pages of a range occur in
several of the proof modules and could be stated once.

### Not modelled

* The Cypher parser: text to syntax tree by a parser generator, no state.
* `VmRegion`: a wrapper over mmap that nothing uses.
* The DataFusion bridge and the Arrow batches: adapters to a third-party engine.
* Conversions of values to and from text, error messages, EXPLAIN output,
  statistics counters, progress callbacks, the string interner and the memory
  mapping of CSV files.
* `Checkpointer::checkpoint`, the executor's `extend` operator and the physical
  plan: nothing calls them.
