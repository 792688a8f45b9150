------------------------------ MODULE Database ------------------------------
(***************************************************************************)
(* The durability core of ruzu: struct Database of src/lib.rs with its     *)
(* write-ahead log (storage/wal), its checkpoint and its crash recovery.   *)
(*                                                                         *)
(* One process owns the database (every operation takes &mut self), so the *)
(* only concurrency is a crash between two writes.  Every operation is an  *)
(* action; an operation that writes several files, or several pages, is    *)
(* cut where a crash can separate the writes:                              *)
(*                                                                         *)
(*   a logged statement   ExecuteCreateNode, ExecuteMatchCreate buffer the *)
(*                        records; FinishStatement flushes them            *)
(*   a checkpoint         BeginCheckpoint; FlushPage for every section;    *)
(*                        LogCheckpoint; TruncateWal                       *)
(*   an open              LoadDatabase; ReplayRecord for every record;     *)
(*                        FinishOpen                                       *)
(*                                                                         *)
(* A crash kills the process: memory and the BufWriter are lost, what was  *)
(* handed to the operating system stays.                                   *)
(*                                                                         *)
(* A node row is its primary key, a relationship the pair of row offsets   *)
(* it connects (numbered from 1), a table id the position of the table in  *)
(* the catalog (ids are handed out in order and no table is ever dropped). *)
(***************************************************************************)
EXTENDS Naturals, Sequences

CONSTANTS
  NodeTables,   \* names of node tables
  RelTables,    \* names of relationship tables
  Endpoints,    \* Endpoints[r] = <<source table, destination table>> of r
  Keys,         \* primary key values
  RowShapes,    \* "complete", "incomplete": does CREATE give every column
  LargeRows,    \* may a row exceed the 8 KiB buffer of the log's BufWriter
  MultiPage,    \* sections of the data file longer than one page
  TornTails,    \* what a crash may leave of the record being written
  MaxStmts,     \* bound on the statements of a behaviour
  MaxImports,   \* bound on the CSV imports of a behaviour
  MaxCrashes    \* bound on the crashes of a behaviour

ASSUME NamesAssumption == NodeTables \cap RelTables = {}
ASSUME EndpointsAssumption == Endpoints \in [RelTables -> NodeTables \X NodeTables]
ASSUME ShapesAssumption == RowShapes \subseteq {"complete", "incomplete"}
ASSUME LargeRowsAssumption == LargeRows \in BOOLEAN
ASSUME MultiPageAssumption == MultiPage \subseteq {"catalog", "nodes", "rels"}
ASSUME TailsAssumption == TornTails \subseteq {"partial", "stub"}
ASSUME BoundsAssumption == MaxStmts \in Nat /\ MaxImports \in Nat /\ MaxCrashes \in Nat

VARIABLES
  pc,        \* what the process is doing
  closing,   \* the checkpoint under way was called by close
  catalog,   \* Database.catalog: the tables in order of their ids
  nodes,     \* Database.tables: the rows of each node table
  rels,      \* Database.rel_tables: the edges of each relationship table
  dirty,     \* Database.dirty
  nextTx,    \* Database.next_tx_id
  stmt,      \* the statement being executed
  walBuf,    \* records in the BufWriter of the WalWriter
  replayPos, \* the next record of the log replay_wal looks at
  unflushed, \* sections of the checkpoint flush_all has not written yet
  walFile,   \* the records of wal.log
  dExists,   \* data.ruzu exists
  dHeader,   \* page 0 holds a database header
  dCatalog,  \* the catalog section of data.ruzu
  dNodes,    \* its node section
  dRels,     \* its relationship section
  dRelNames, \* the relationship tables that section has an entry for
  dTorn,     \* sections of which only some pages were overwritten
  stmts, imports, crashes,   \* how often each happened (bounds)
  acked,     \* history: <<t, k>> whose CREATE returned Ok
  orphaned,  \* history: those of them whose table an open did not find
  committed, \* history: <<t, k>> whose Commit record reached the log, or imported
  tried,     \* history: <<t, k>> any CREATE or import named
  edges,     \* history: relationships whose CREATE returned Ok
  sent,      \* history: how many edges statements put into each table
  ddlLost    \* history: a crash lost a CREATE TABLE

memVars   == <<catalog, nodes, rels, dirty, nextTx, stmt, walBuf>>
diskVars  == <<dExists, dHeader, dCatalog, dNodes, dRels, dRelNames, dTorn>>
boundVars == <<stmts, imports, crashes>>
histVars  == <<acked, orphaned, committed, tried, edges, sent, ddlLost>>
vars == <<pc, closing, catalog, nodes, rels, dirty, nextTx, stmt, walBuf, replayPos,
          unflushed, walFile, dExists, dHeader, dCatalog, dNodes, dRels, dRelNames,
          dTorn, stmts, imports, crashes, acked, orphaned, committed, tried, edges,
          sent, ddlLost>>

-----------------------------------------------------------------------------
(* Data.                                                                   *)

Tables   == NodeTables \cup RelTables
Sections == {"header", "catalog", "nodes", "rels"}
Rows(s)  == {s[i] : i \in DOMAIN s}

Edge == Nat \X Nat
EdgeInfo == [rel : RelTables, src : Nat, dst : Nat, from : NodeTables \X Keys,
             to : NodeTables \X Keys]

\* WalRecord and WalPayload.  A "partial" record is one whose length prefix
\* was written and whose data was not; a "stub" is a part of a length prefix.
BeginRec(tx)          == [type |-> "begin", tx |-> tx]
CommitRec(tx)         == [type |-> "commit", tx |-> tx]
CheckpointRec         == [type |-> "checkpoint", tx |-> 0]
NodeRec(tx, id, k)    == [type |-> "node", tx |-> tx, id |-> id, key |-> k]
RelRec(tx, id, s, d)  == [type |-> "rel", tx |-> tx, id |-> id, src |-> s, dst |-> d]
TornRec(kind)         == [type |-> kind, tx |-> 0]
WalRecord ==
  [type : {"begin", "commit", "checkpoint", "partial", "stub"}, tx : Nat]
    \cup [type : {"node"}, tx : Nat, id : Nat, key : Keys]
    \cup [type : {"rel"}, tx : Nat, id : Nat, src : Nat, dst : Nat]

NoStmt == [kind |-> "none"]
Stmt == {NoStmt}
  \cup [kind : {"node"}, table : NodeTables, key : Keys, shape : RowShapes]
  \cup [kind : {"rel"}, edge : EdgeInfo]
  \cup [kind : {"importNodes"}, table : NodeTables, left : Seq(Keys), some : BOOLEAN]
  \cup [kind : {"importRels"}, table : RelTables, left : Seq(Keys \X Keys),
        ignoreErrors : BOOLEAN, some : BOOLEAN]

EmptyNodes == [t \in NodeTables |-> <<>>]
EmptyRels  == [r \in RelTables |-> <<>>]

-----------------------------------------------------------------------------
(* Reading the log (WalReader, WalReplayer).                               *)

\* read_record: data or checksum that ends early is an error, a length
\* prefix that ends early is the end of the log; bytes appended after it
\* make the prefix complete and what follows undecodable.
Readable(w) ==
  \A i \in DOMAIN w : /\ w[i].type # "partial"
                      /\ w[i].type = "stub" => i = Len(w)

\* WalReplayer::analyze: transaction ids with a Commit anywhere in the log.
CommittedTxs(w) == {w[i].tx : i \in {j \in DOMAIN w : w[j].type = "commit"}}

\* NodeTable::insert refuses a key it has.
Fresh(rows, k) == k \notin Rows(rows)

\* Seeded fault: replay inserts without the key check.
InsertUnchecked(rows, k) == Append(rows, k)

InsertIfFresh(rows, k) == IF Fresh(rows, k) THEN Append(rows, k) ELSE rows

\* apply_wal_record for TableInsertion: the table is found by its id, the
\* result of insert is ignored.
ReplayNodes(cat, nd, r) ==
  IF r.type = "node" /\ r.id \in DOMAIN cat /\ cat[r.id] \in NodeTables
  THEN [nd EXCEPT ![cat[r.id]] = InsertIfFresh(@, r.key)]
  ELSE nd

\* Seeded fault: relationship records are looked up among the node tables.
ReplayRelsAsNodes(cat, rl, r) ==
  IF r.type = "rel" /\ r.id \in DOMAIN cat /\ cat[r.id] \in NodeTables \cap DOMAIN rl
  THEN [rl EXCEPT ![cat[r.id]] = Append(@, <<r.src, r.dst>>)]
  ELSE rl

\* apply_wal_record for RelInsertion: nothing tells an edge from a copy.
ReplayRels(cat, rl, r) ==
  IF r.type = "rel" /\ r.id \in DOMAIN cat /\ cat[r.id] \in RelTables
  THEN [rl EXCEPT ![cat[r.id]] = Append(@, <<r.src, r.dst>>)]
  ELSE rl

-----------------------------------------------------------------------------
(* Opening (Database::open).                                               *)

Init ==
  /\ pc = "down" /\ closing = FALSE
  /\ catalog = <<>> /\ nodes = EmptyNodes /\ rels = EmptyRels
  /\ dirty = FALSE /\ nextTx = 1 /\ stmt = NoStmt /\ walBuf = <<>>
  /\ replayPos = 1 /\ unflushed = {} /\ walFile = <<>>
  /\ dExists = FALSE /\ dHeader = FALSE /\ dCatalog = <<>>
  /\ dNodes = EmptyNodes /\ dRels = EmptyRels /\ dRelNames = {} /\ dTorn = {}
  /\ stmts = 0 /\ imports = 0 /\ crashes = 0
  /\ acked = {} /\ orphaned = {} /\ committed = {} /\ tried = {} /\ edges = {}
  /\ sent = [r \in RelTables |-> 0] /\ ddlLost = FALSE

\* open with no data.ruzu: the file is created with four zero pages; the
\* header stays in memory until the first checkpoint.
OpenNew ==
  /\ pc = "down" /\ ~dExists
  /\ dExists' = TRUE
  /\ pc' = "idle" /\ dirty' = TRUE /\ nextTx' = 1
  /\ UNCHANGED <<closing, catalog, nodes, rels, stmt, walBuf, replayPos, unflushed,
                 walFile, dHeader, dCatalog, dNodes, dRels, dRelNames, dTorn>>
  /\ UNCHANGED <<boundVars, histVars>>

\* load_database, load_rel_table_data and WalReplayer::analyze return an
\* error: no header on page 0, a section that does not decode, relationship
\* data of a table the catalog does not have, a log that does not parse.  Half
\* old and half new pages of a section are taken never to decode.
LoadFails ==
  \/ ~dHeader
  \/ dTorn \cap {"catalog", "rels"} # {}
  \/ ~(dRelNames \subseteq Rows(dCatalog))
  \/ ~Readable(walFile)

OpenFails ==
  /\ pc = "down" /\ dExists /\ LoadFails
  /\ pc' = "failed"
  /\ UNCHANGED <<closing, memVars, replayPos, unflushed, walFile, diskVars, boundVars,
                 histVars>>

\* load_table_data: rows of tables the catalog does not have are dropped,
\* and a node section that does not decode counts as empty.
LoadedNodes ==
  [t \in NodeTables |->
     IF t \in Rows(dCatalog) /\ "nodes" \notin dTorn THEN dNodes[t] ELSE <<>>]

\* load_rel_table_data.
LoadedRels ==
  [r \in RelTables |-> IF r \in Rows(dCatalog) THEN dRels[r] ELSE <<>>]

LoadDatabase ==
  /\ pc = "down" /\ dExists /\ ~LoadFails
  /\ pc' = "replay" /\ replayPos' = 1
  /\ catalog' = dCatalog /\ nodes' = LoadedNodes /\ rels' = LoadedRels
  /\ acked' = {x \in acked : x[1] \in Rows(dCatalog)}
  /\ orphaned' = orphaned \cup {x \in acked : x[1] \notin Rows(dCatalog)}
  /\ edges' = {e \in edges : {e.rel, e.from[1], e.to[1]} \subseteq Rows(dCatalog)}
  /\ UNCHANGED <<closing, dirty, nextTx, stmt, walBuf, unflushed, walFile, diskVars,
                 boundVars, committed, tried, sent, ddlLost>>

\* Seeded fault: a record that is not applied is not stepped over.
ReplayRecordStuck ==
  /\ pc = "replay" /\ replayPos \in DOMAIN walFile
  /\ walFile[replayPos].tx \in CommittedTxs(walFile)
  /\ nodes' = ReplayNodes(catalog, nodes, walFile[replayPos])
  /\ rels' = ReplayRels(catalog, rels, walFile[replayPos])
  /\ replayPos' = replayPos + 1
  /\ UNCHANGED <<pc, closing, catalog, dirty, nextTx, stmt, walBuf, unflushed, walFile,
                 diskVars, boundVars, histVars>>

\* replay_wal: one record of the log, applied if its transaction committed.
ReplayRecord ==
  /\ pc = "replay" /\ replayPos \in DOMAIN walFile
  /\ LET r == walFile[replayPos] IN
       IF r.tx \in CommittedTxs(walFile)
       THEN nodes' = ReplayNodes(catalog, nodes, r) /\ rels' = ReplayRels(catalog, rels, r)
       ELSE UNCHANGED <<nodes, rels>>
  /\ replayPos' = replayPos + 1
  /\ UNCHANGED <<pc, closing, catalog, dirty, nextTx, stmt, walBuf, unflushed, walFile,
                 diskVars, boundVars, histVars>>

\* The log is left as it is, the database is clean, and both counters start
\* again at 1.
FinishOpen ==
  /\ pc = "replay" /\ replayPos \notin DOMAIN walFile
  /\ pc' = "idle" /\ dirty' = FALSE /\ nextTx' = 1 /\ replayPos' = 1
  /\ UNCHANGED <<closing, catalog, nodes, rels, stmt, walBuf, unflushed, walFile,
                 diskVars, boundVars, histVars>>

-----------------------------------------------------------------------------
(* Statements.  A statement that fails before it changes anything is not   *)
(* an action.                                                              *)

\* Every statement is counted against MaxStmts.
StartStatement ==
  /\ pc = "idle" /\ stmts < MaxStmts
  /\ stmts' = stmts + 1
  /\ UNCHANGED <<closing, replayPos, unflushed, diskVars, crashes>>

\* execute_create_node_table: in memory only, nothing is logged.
ExecuteCreateNodeTable(t) ==
  /\ StartStatement
  /\ t \notin Rows(catalog)
  /\ catalog' = Append(catalog, t)
  /\ nodes' = [nodes EXCEPT ![t] = <<>>]
  /\ dirty' = TRUE
  /\ UNCHANGED <<pc, rels, nextTx, stmt, walBuf, walFile, imports, histVars>>

\* execute_create_rel_table.
ExecuteCreateRelTable(r) ==
  /\ StartStatement
  /\ r \notin Rows(catalog)
  /\ {Endpoints[r][1], Endpoints[r][2]} \subseteq Rows(catalog)
  /\ catalog' = Append(catalog, r)
  /\ rels' = [rels EXCEPT ![r] = <<>>]
  /\ dirty' = TRUE
  /\ UNCHANGED <<pc, nodes, nextTx, stmt, walBuf, walFile, imports, histVars>>

\* execute_create_node up to the flush: the row is logged before it is
\* checked; a column the statement leaves out is logged as Null.
ExecuteCreateNode(id, k, shape) ==
  /\ StartStatement
  /\ id \in DOMAIN catalog /\ catalog[id] \in NodeTables
  /\ walBuf' = <<BeginRec(nextTx), NodeRec(nextTx, id, k), CommitRec(nextTx)>>
  /\ nextTx' = nextTx + 1
  /\ stmt' = [kind |-> "node", table |-> catalog[id], key |-> k, shape |-> shape]
  /\ tried' = tried \cup {<<catalog[id], k>>}
  /\ pc' = "log"
  /\ UNCHANGED <<catalog, nodes, rels, dirty, walFile, imports, acked, orphaned,
                 committed, edges, sent, ddlLost>>

\* NodeTable::insert as CREATE calls it: every column given, a new key.
Accepts(s) == s.shape = "complete" /\ Fresh(nodes[s.table], s.key)

\* The rest of execute_create_node: flush the log, insert the row; if the
\* insert is refused the records stay in the log.
FinishCreateNode ==
  /\ pc = "log" /\ stmt.kind = "node"
  /\ walFile' = walFile \o walBuf /\ walBuf' = <<>>
  /\ IF Accepts(stmt)
     THEN /\ nodes' = [nodes EXCEPT ![stmt.table] = Append(@, stmt.key)]
          /\ dirty' = TRUE
          /\ acked' = acked \cup {<<stmt.table, stmt.key>>}
     ELSE UNCHANGED <<nodes, dirty, acked>>
  /\ committed' = committed \cup {<<stmt.table, stmt.key>>}
  /\ stmt' = NoStmt /\ pc' = "idle"
  /\ UNCHANGED <<closing, catalog, rels, nextTx, replayPos, unflushed, diskVars,
                 boundVars, orphaned, tried, edges, sent, ddlLost>>

\* execute_match_create up to the flush: the edge is in memory before it is
\* logged.  The labels of the pattern are not compared with the endpoints
\* of the relationship table.
ExecuteMatchCreate(id, sl, dl, s, d) ==
  /\ StartStatement
  /\ id \in DOMAIN catalog /\ catalog[id] \in RelTables
  /\ sl \in Rows(catalog) /\ dl \in Rows(catalog)
  /\ s \in DOMAIN nodes[sl] /\ d \in DOMAIN nodes[dl]
  /\ rels' = [rels EXCEPT ![catalog[id]] = Append(@, <<s, d>>)]
  /\ walBuf' = <<BeginRec(nextTx), RelRec(nextTx, id, s, d), CommitRec(nextTx)>>
  /\ nextTx' = nextTx + 1
  /\ stmt' = [kind |-> "rel",
              edge |-> [rel |-> catalog[id], src |-> s, dst |-> d,
                        from |-> <<sl, nodes[sl][s]>>, to |-> <<dl, nodes[dl][d]>>]]
  /\ sent' = [sent EXCEPT ![catalog[id]] = @ + 1]
  /\ pc' = "log"
  /\ UNCHANGED <<catalog, nodes, dirty, walFile, imports, acked, orphaned, committed,
                 tried, edges, ddlLost>>

\* Seeded fault: the records are dropped instead of flushed.
FinishMatchCreateUnlogged ==
  /\ pc = "log" /\ stmt.kind = "rel"
  /\ walBuf' = <<>>
  /\ dirty' = TRUE
  /\ edges' = edges \cup {stmt.edge}
  /\ stmt' = NoStmt /\ pc' = "idle"
  /\ UNCHANGED <<closing, catalog, nodes, rels, nextTx, replayPos, unflushed, walFile,
                 diskVars, boundVars, acked, orphaned, committed, tried, sent, ddlLost>>

\* The rest of execute_match_create.
FinishMatchCreate ==
  /\ pc = "log" /\ stmt.kind = "rel"
  /\ walFile' = walFile \o walBuf /\ walBuf' = <<>>
  /\ dirty' = TRUE
  /\ edges' = edges \cup {stmt.edge}
  /\ stmt' = NoStmt /\ pc' = "idle"
  /\ UNCHANGED <<closing, catalog, nodes, rels, nextTx, replayPos, unflushed,
                 diskVars, boundVars, acked, orphaned, committed, tried, sent, ddlLost>>

-----------------------------------------------------------------------------
(* CSV import: rows go into memory one batch (here one row) at a time and  *)
(* are never logged.                                                       *)

StartImport(import) ==
  /\ pc = "idle" /\ imports < MaxImports
  /\ imports' = imports + 1
  /\ stmt' = import /\ pc' = "import"
  /\ UNCHANGED <<closing, catalog, nodes, rels, dirty, nextTx, walBuf, replayPos,
                 unflushed, walFile, diskVars, stmts, crashes, acked, orphaned,
                 committed, edges, sent, ddlLost>>

\* import_nodes, for a file with the keys ks.
ImportNodes(t, ks) ==
  /\ t \in Rows(catalog)
  /\ tried' = tried \cup {<<t, k>> : k \in Rows(ks)}
  /\ StartImport([kind |-> "importNodes", table |-> t, left |-> ks, some |-> FALSE])

\* import_relationships, for a file with the key pairs ps.
ImportRelationships(r, ps, ignoreErrors) ==
  /\ r \in Rows(catalog)
  /\ UNCHANGED tried
  /\ StartImport([kind |-> "importRels", table |-> r, left |-> ps,
                  ignoreErrors |-> ignoreErrors, some |-> FALSE])

\* An import ends: dirty is set only on the way out of a successful one.
EndImport(ok) ==
  /\ dirty' = (dirty \/ (ok /\ stmt.some))
  /\ stmt' = NoStmt /\ pc' = "idle"
  /\ UNCHANGED <<nodes, rels, committed, sent>>

\* insert_batch takes the next row, or refuses it and the import stops with
\* an error, leaving the rows before it where they are.
ImportNodesStep ==
  /\ pc = "import" /\ stmt.kind = "importNodes"
  /\ \/ stmt.left = <<>> /\ EndImport(TRUE)
     \/ stmt.left # <<>> /\ ~Fresh(nodes[stmt.table], Head(stmt.left)) /\ EndImport(FALSE)
     \/ /\ stmt.left # <<>> /\ Fresh(nodes[stmt.table], Head(stmt.left))
        /\ nodes' = [nodes EXCEPT ![stmt.table] = Append(@, Head(stmt.left))]
        /\ committed' = committed \cup {<<stmt.table, Head(stmt.left)>>}
        /\ stmt' = [stmt EXCEPT !.left = Tail(@), !.some = TRUE]
        /\ UNCHANGED <<pc, dirty, rels, sent>>
  /\ UNCHANGED <<closing, catalog, nextTx, walBuf, replayPos, unflushed, walFile,
                 diskVars, boundVars, acked, orphaned, tried, edges, ddlLost>>

\* find_by_pk of both keys in the endpoint tables of r.
Resolves(r, p, s, d) ==
  /\ nodes[Endpoints[r][1]][s] = p[1]
  /\ nodes[Endpoints[r][2]][d] = p[2]

Dangling(r, p) ==
  \/ p[1] \notin Rows(nodes[Endpoints[r][1]])
  \/ p[2] \notin Rows(nodes[Endpoints[r][2]])

\* The loop of import_relationships: a pair with an unknown key is skipped
\* under ignore_errors and ends the import otherwise.
ImportRelsStep ==
  /\ pc = "import" /\ stmt.kind = "importRels"
  /\ \/ stmt.left = <<>> /\ EndImport(TRUE)
     \/ /\ stmt.left # <<>> /\ Dangling(stmt.table, Head(stmt.left))
        /\ ~stmt.ignoreErrors /\ EndImport(FALSE)
     \/ /\ stmt.left # <<>> /\ Dangling(stmt.table, Head(stmt.left))
        /\ stmt.ignoreErrors
        /\ stmt' = [stmt EXCEPT !.left = Tail(@)]
        /\ UNCHANGED <<pc, dirty, nodes, rels, committed, sent>>
     \/ /\ stmt.left # <<>>
        /\ \E s \in DOMAIN nodes[Endpoints[stmt.table][1]],
             d \in DOMAIN nodes[Endpoints[stmt.table][2]] :
             /\ Resolves(stmt.table, Head(stmt.left), s, d)
             /\ rels' = [rels EXCEPT ![stmt.table] = Append(@, <<s, d>>)]
        /\ sent' = [sent EXCEPT ![stmt.table] = @ + 1]
        /\ stmt' = [stmt EXCEPT !.left = Tail(@), !.some = TRUE]
        /\ UNCHANGED <<pc, dirty, nodes, committed>>
  /\ UNCHANGED <<closing, catalog, nextTx, walBuf, replayPos, unflushed, walFile,
                 diskVars, boundVars, acked, orphaned, tried, edges, ddlLost>>

-----------------------------------------------------------------------------
(* Checkpoint, close and crash.                                            *)

\* The process is gone: nothing of its memory is left.
LoseMemory ==
  /\ pc' = "down" /\ closing' = FALSE
  /\ catalog' = <<>> /\ nodes' = EmptyNodes /\ rels' = EmptyRels
  /\ dirty' = FALSE /\ nextTx' = 1 /\ stmt' = NoStmt /\ walBuf' = <<>>
  /\ replayPos' = 1 /\ unflushed' = {}

\* save_all_data and save_header fill the pages of the buffer pool.
BeginCheckpoint(forClose) ==
  /\ pc = "idle"
  /\ pc' = "flush" /\ closing' = forClose /\ unflushed' = Sections
  /\ UNCHANGED <<memVars, replayPos, walFile, diskVars, boundVars, histVars>>

Checkpoint == BeginCheckpoint(FALSE)

\* close (also from drop) checkpoints only a dirty database.
Close ==
  \/ dirty /\ BeginCheckpoint(TRUE)
  \/ /\ pc = "idle" /\ ~dirty /\ LoseMemory
     /\ UNCHANGED <<walFile, diskVars, boundVars, histVars>>

Changes(s) ==
  \/ s = "catalog" /\ dCatalog # catalog
  \/ s = "nodes" /\ dNodes # nodes
  \/ s = "rels" /\ dRels # rels

\* flush_all writes the pages in the order of a hash map.  A section of one
\* page changes at once; one of several pages is torn in between.
TearSection(s) ==
  /\ pc = "flush" /\ s \in unflushed \cap MultiPage /\ s \notin dTorn /\ Changes(s)
  /\ dTorn' = dTorn \cup {s}
  /\ UNCHANGED <<pc, closing, memVars, replayPos, unflushed, walFile, dExists, dHeader,
                 dCatalog, dNodes, dRels, dRelNames, boundVars, histVars>>

\* Seeded fault: the relationship section lists every table.
FlushPageAllNames(s) ==
  /\ pc = "flush" /\ s \in unflushed
  /\ unflushed' = unflushed \ {s} /\ dTorn' = dTorn \ {s}
  /\ dHeader' = (dHeader \/ s = "header")
  /\ dCatalog' = IF s = "catalog" THEN catalog ELSE dCatalog
  /\ dNodes' = IF s = "nodes" THEN nodes ELSE dNodes
  /\ dRels' = IF s = "rels" THEN rels ELSE dRels
  /\ dRelNames' = IF s = "rels" THEN Rows(catalog) ELSE dRelNames
  /\ UNCHANGED <<pc, closing, memVars, replayPos, walFile, dExists, boundVars, histVars>>

\* One page (or the last page of a section) reaches the file.
FlushPage(s) ==
  /\ pc = "flush" /\ s \in unflushed
  /\ unflushed' = unflushed \ {s} /\ dTorn' = dTorn \ {s}
  /\ dHeader' = (dHeader \/ s = "header")
  /\ dCatalog' = IF s = "catalog" THEN catalog ELSE dCatalog
  /\ dNodes' = IF s = "nodes" THEN nodes ELSE dNodes
  /\ dRels' = IF s = "rels" THEN rels ELSE dRels
  /\ dRelNames' = IF s = "rels" THEN Rows(catalog) \cap RelTables ELSE dRelNames
  /\ UNCHANGED <<pc, closing, memVars, replayPos, walFile, dExists, boundVars, histVars>>

\* Seeded fault: the log is cut before all pages are flushed.
LogCheckpointEarly ==
  /\ pc = "flush"
  /\ walFile' = Append(walFile, CheckpointRec)
  /\ pc' = "truncate"
  /\ UNCHANGED <<closing, memVars, replayPos, unflushed, diskVars, boundVars, histVars>>

\* checkpoint appends and syncs a Checkpoint record ...
LogCheckpoint ==
  /\ pc = "flush" /\ unflushed = {}
  /\ walFile' = Append(walFile, CheckpointRec)
  /\ pc' = "truncate"
  /\ UNCHANGED <<closing, memVars, replayPos, unflushed, diskVars, boundVars, histVars>>

\* ... and then cuts the log down to its header.
TruncateWal ==
  /\ pc = "truncate"
  /\ walFile' = <<>>
  /\ IF closing
     THEN LoseMemory
     ELSE /\ pc' = "idle" /\ dirty' = FALSE
          /\ UNCHANGED <<closing, catalog, nodes, rels, nextTx, stmt, walBuf, replayPos,
                         unflushed>>
  /\ UNCHANGED <<diskVars, boundVars, histVars>>

\* How many of the buffered records a crash may find written: the flush is
\* one write, but a row larger than the BufWriter goes out piece by piece.
Written == IF LargeRows THEN 0..Len(walBuf) ELSE {0, Len(walBuf)}

\* The process dies.  The first n buffered records, and perhaps a part of the
\* next one, are in the file.
Crash ==
  /\ pc \notin {"down", "failed"} /\ crashes < MaxCrashes
  /\ crashes' = crashes + 1
  /\ \E n \in Written :
       /\ \/ walFile' = walFile \o SubSeq(walBuf, 1, n)
          \/ /\ LargeRows /\ n < Len(walBuf)
             /\ \E kind \in TornTails :
                  walFile' = walFile \o SubSeq(walBuf, 1, n) \o <<TornRec(kind)>>
       /\ committed' = IF stmt.kind = "node" /\ n = Len(walBuf)
                       THEN committed \cup {<<stmt.table, stmt.key>>} ELSE committed
  /\ ddlLost' = (ddlLost \/ catalog # dCatalog)
  /\ LoseMemory
  /\ UNCHANGED <<diskVars, stmts, imports, acked, orphaned, tried, edges, sent>>

-----------------------------------------------------------------------------
(* MaxImportRows bounds the rows of an imported file.                      *)

MaxImportRows == 2
FilesOf(S) == UNION {[1..n -> S] : n \in 1..MaxImportRows}

Statement ==
  \/ \E t \in NodeTables : ExecuteCreateNodeTable(t)
  \/ \E r \in RelTables : ExecuteCreateRelTable(r)
  \/ \E id \in DOMAIN catalog, k \in Keys, shape \in RowShapes :
       ExecuteCreateNode(id, k, shape)
  \/ \E id \in DOMAIN catalog, sl, dl \in NodeTables :
       \E s \in DOMAIN nodes[sl], d \in DOMAIN nodes[dl] :
         ExecuteMatchCreate(id, sl, dl, s, d)

Import ==
  \/ \E t \in NodeTables, ks \in FilesOf(Keys) : ImportNodes(t, ks)
  \/ \E r \in RelTables, ps \in FilesOf(Keys \X Keys), ie \in BOOLEAN :
       ImportRelationships(r, ps, ie)

\* What the process does by itself once a call has started.
Running ==
  \/ ReplayRecord \/ FinishOpen
  \/ FinishCreateNode \/ FinishMatchCreate
  \/ ImportNodesStep \/ ImportRelsStep
  \/ \E s \in Sections : TearSection(s) \/ FlushPage(s)
  \/ LogCheckpoint \/ TruncateWal

Next ==
  \/ OpenNew \/ OpenFails \/ LoadDatabase
  \/ Statement \/ Import
  \/ Running
  \/ Checkpoint \/ Close
  \/ Crash

\* A call that has started runs until it returns or the process dies; that
\* a caller opens the database or issues a statement is not assumed.
Spec == Init /\ [][Next]_vars /\ WF_vars(Running)

-----------------------------------------------------------------------------
(* Properties.                                                             *)

MemTypeOK ==
  /\ pc \in {"down", "replay", "idle", "log", "import", "flush", "truncate", "failed"}
  /\ closing \in BOOLEAN /\ dirty \in BOOLEAN
  /\ catalog \in Seq(Tables)
  /\ nodes \in [NodeTables -> Seq(Keys)]
  /\ rels \in [RelTables -> Seq(Edge)]
  /\ nextTx \in Nat /\ replayPos \in Nat \ {0}
  /\ stmt \in Stmt
  /\ unflushed \subseteq Sections

LogTypeOK == walBuf \in Seq(WalRecord) /\ walFile \in Seq(WalRecord)

DiskTypeOK ==
  /\ dExists \in BOOLEAN /\ dHeader \in BOOLEAN
  /\ dCatalog \in Seq(Tables)
  /\ dNodes \in [NodeTables -> Seq(Keys)]
  /\ dRels \in [RelTables -> Seq(Edge)]
  /\ dRelNames \subseteq RelTables
  /\ dTorn \subseteq Sections

HistTypeOK ==
  /\ stmts \in Nat /\ imports \in Nat /\ crashes \in Nat
  /\ acked \subseteq NodeTables \X Keys /\ orphaned \subseteq NodeTables \X Keys
  /\ committed \subseteq NodeTables \X Keys /\ tried \subseteq NodeTables \X Keys
  /\ edges \subseteq EdgeInfo
  /\ sent \in [RelTables -> Nat]
  /\ ddlLost \in BOOLEAN

\* Every variable stays in its type.
TypeOK == MemTypeOK /\ LogTypeOK /\ DiskTypeOK /\ HistTypeOK

Distinct(s) == \A i, j \in DOMAIN s : s[i] = s[j] => i = j

\* No primary key occurs twice in a node table, in memory or in the data
\* file, although recovery replays records that the data file may already
\* contain, once per open (NodeTable::insert, apply_wal_record).
UniqueKeys == \A t \in NodeTables : Distinct(nodes[t]) /\ Distinct(dNodes[t])

\* A node whose CREATE returned Ok, in a table whose definition has reached
\* the data file, is there in every later session: whatever the moment of
\* the crash, the data file or the log still has it (WAL written before
\* the row, log cut only after all pages are flushed).
AckedNodesVisible ==
  pc = "idle" => \A x \in acked : x[2] \in Rows(nodes[x[1]])

\* Record i of the log w inserts node x, and its transaction committed.
Inserts(cat, w, i, x) ==
  /\ w[i].type = "node" /\ w[i].tx \in CommittedTxs(w)
  /\ w[i].id \in DOMAIN cat /\ cat[w[i].id] = x[1] /\ w[i].key = x[2]

Logged(cat, x) == \E i \in DOMAIN walFile : Inserts(cat, walFile, i, x)
Saved(x) == x[1] \in Rows(dCatalog) /\ x[2] \in Rows(dNodes[x[1]])
Up == pc \notin {"down", "failed"}

\* No table has two ids, and the data file knows a prefix of the catalog.
CatalogInv ==
  /\ ~dExists => pc = "down" /\ dCatalog = <<>> /\ acked = {}
  /\ Distinct(catalog) /\ Distinct(dCatalog)
  /\ Up => \A i \in DOMAIN dCatalog : i \in DOMAIN catalog /\ catalog[i] = dCatalog[i]

\* An acknowledged node is in the data file or in the log.
AckedDurable ==
  \A x \in acked :
    /\ Up => x[1] \in Rows(catalog) /\ (Saved(x) \/ Logged(catalog, x))
    /\ ~Up /\ x[1] \in Rows(dCatalog) => Saved(x) \/ Logged(dCatalog, x)

\* It is in memory, or the replay has its record still to come.
AckedInMemory ==
  /\ Up /\ pc # "replay" => \A x \in acked : x[2] \in Rows(nodes[x[1]])
  /\ pc = "replay" =>
       \A x \in acked :
         \/ x[2] \in Rows(nodes[x[1]])
         \/ \E i \in DOMAIN walFile : i >= replayPos /\ Inserts(catalog, walFile, i, x)

\* A checkpoint has saved what it no longer has to flush.
FlushInv ==
  pc \in {"flush", "truncate"} =>
    /\ pc = "truncate" => unflushed = {}
    /\ "header" \notin unflushed => dHeader
    /\ "catalog" \notin unflushed => dCatalog = catalog
    /\ "nodes" \notin unflushed => dNodes = nodes
    /\ "rels" \notin unflushed => dRels = rels
    /\ dTorn \subseteq unflushed

\* The records of the CREATE under way name the row it will insert.
StmtInv ==
  pc = "log" /\ stmt.kind = "node" =>
    \E id \in DOMAIN catalog :
      /\ catalog[id] = stmt.table /\ Len(walBuf) = 3
      /\ walBuf[2] = NodeRec(walBuf[2].tx, id, stmt.key)
      /\ walBuf[3] = CommitRec(walBuf[2].tx)

\* Why no acknowledged node is lost, state by state: at every moment it is
\* in the data file or in the log under the id its table has there, and
\* whatever is cut from the log is in the data file.
DurabilityInv ==
  /\ CatalogInv /\ AckedDurable /\ AckedInMemory /\ FlushInv /\ StmtInv
  /\ "nodes" \in MultiPage \/ "nodes" \notin dTorn

\* Every relationship is there and joins the two nodes it was created
\* between.
EdgesStand ==
  \A e \in edges :
    /\ <<e.src, e.dst>> \in Rows(rels[e.rel])
    /\ e.src \in DOMAIN nodes[e.from[1]] /\ nodes[e.from[1]][e.src] = e.from[2]
    /\ e.dst \in DOMAIN nodes[e.to[1]] /\ nodes[e.to[1]][e.dst] = e.to[2]

\* A relationship whose CREATE returned Ok is there in every later session
\* and still joins the two nodes it was created between, although the log
\* stores row offsets and recovery rebuilds the rows.  Not so once a crash
\* has lost a CREATE TABLE: AllEdgesRecovered, below.
EdgesRecovered == pc = "idle" /\ ~ddlLost => EdgesStand

\* replay_wal: the tables s after one record of the log w.
Replay(cat, s, r, w) ==
  IF r.tx \in CommittedTxs(w)
  THEN [nodes |-> ReplayNodes(cat, s.nodes, r), rels |-> ReplayRels(cat, s.rels, r)] ELSE s

\* The tables s after each of the records of w.
Replayed(cat, s, w) ==
  LET f[n \in 0..Len(w)] == IF n = 0 THEN s ELSE Replay(cat, f[n - 1], w[n], w) IN f

\* What the database would show if it were opened now.
Reopened ==
  Replayed(dCatalog, [nodes |-> LoadedNodes, rels |-> LoadedRels], walFile)[Len(walFile)]

\* Killing the process between two statements and opening the database again
\* shows the same rows in the same order, and the same edges, for every table
\* the data file knows, and opening it does not depend on how often it was
\* opened before: the log is replayed again each time (replay_wal).
ReopenRestores ==
  pc = "idle" /\ dExists /\ ~LoadFails =>
    \A t \in Rows(dCatalog) :
      \/ t \in NodeTables /\ Reopened.nodes[t] = nodes[t]
      \/ t \in RelTables /\ Reopened.rels[t] = rels[t]

\* The log is cut only when the data file holds everything memory holds
\* (checkpoint: save, flush_all, then truncate).
TruncatesOnlySaved ==
  [][Len(walFile') < Len(walFile) =>
       /\ dHeader /\ dTorn = {}
       /\ dCatalog = catalog /\ dNodes = nodes /\ dRels = rels]_vars

\* Every call returns unless the process dies: recovery reads a finite log,
\* an import a finite file, and a checkpoint flushes a finite set of pages.
CallsReturn ==
  pc \in {"replay", "log", "import", "flush", "truncate"} ~> pc \in {"idle", "down"}

-----------------------------------------------------------------------------
(* What the documents say and the code does not do.                        *)

\* "Given a committed transaction that wrote 100 nodes, when the process
\* crashes before checkpoint, then after restart, all 100 nodes are present"
\* (specs/002-persistent-storage/spec.md:36): no acknowledged node is lost
\* with its table.
NoNodeOrphaned == orphaned = {}

\* "Given a transaction that creates relationships and is committed, when
\* the database crashes after commit and restarts, then all committed
\* relationships are recovered" (specs/001-fix-rel-persistence/spec.md:52):
\* also after a table was lost and created again.
AllEdgesRecovered == pc = "idle" => EdgesStand

\* "Given an uncommitted transaction in progress, when the process crashes,
\* then after restart, the partial writes are rolled back"
\* (specs/002-persistent-storage/spec.md:37).
UncommittedRolledBack ==
  pc = "idle" => \A t \in NodeTables : \A k \in Rows(nodes[t]) : <<t, k>> \in committed

\* "On restart, the database should recover to the last committed state
\* without corrupted relationship data"
\* (specs/001-fix-rel-persistence/spec.md:43): no more edges than statements
\* created.
EdgesOnce == pc = "idle" => \A r \in RelTables : Len(rels[r]) <= sent[r]

\* "I want the database to recover gracefully from unexpected shutdowns"
\* (specs/002-persistent-storage/spec.md:28): a database whose header has
\* reached the data file opens.
CheckpointedReopens == pc = "failed" => ~dHeader

\* "... and the database remains consistent"
\* (specs/002-persistent-storage/spec.md:28): a table holds only rows some
\* statement put into that table.
RowsInTheirTable ==
  pc = "idle" => \A t \in NodeTables : \A k \in Rows(nodes[t]) : <<t, k>> \in tried

=============================================================================
