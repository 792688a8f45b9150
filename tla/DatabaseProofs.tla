--------------------------- MODULE DatabaseProofs ---------------------------
(***************************************************************************)
(* Proofs about module Database, for every number of tables, keys,         *)
(* statements, imports and crashes: the types, and what recovery           *)
(* guarantees, that no primary key is ever duplicated and that no          *)
(* acknowledged node of a table the data file knows is ever lost; then     *)
(* what an open makes of the data file and the log.                        *)
(*                                                                         *)
(* EdgesSurvive: recovery gives back the rows in their order, so an edge,  *)
(* which the log and the data file keep as two row offsets, still joins the*)
(* nodes it was created between, under the conditions of LoggedOnly.  The  *)
(* invariant has a witness: a function h whose value at i is what the node *)
(* tables are when the first i records have been replayed (Replays).  A    *)
(* statement extends h, a checkpoint makes it constant, and the recovery   *)
(* walks along it.                                                         *)
(*                                                                         *)
(* ReopeningRestores: between two statements the session is what the next  *)
(* open would show, under the conditions of StatementsLogged.  Here the    *)
(* property itself speaks of the recursive function Replayed, so its values*)
(* are needed: they are built step by step up to any length of the log     *)
(* (WayExists, WayUnique), by induction, which rests on the least element  *)
(* of a set of numbers (WFMin of module WellFoundedInduction).             *)
(***************************************************************************)
EXTENDS Database, SequenceTheorems, WellFoundedInduction, TLAPS

-----------------------------------------------------------------------------
(* Types.                                                                  *)

\* The records the writer makes are WAL records.
LEMMA RecordTypes ==
  ASSUME NEW tx \in Nat, NEW id \in Nat, NEW k \in Keys, NEW s \in Nat, NEW d \in Nat
  PROVE  /\ BeginRec(tx) \in WalRecord
         /\ CommitRec(tx) \in WalRecord
         /\ CheckpointRec \in WalRecord
         /\ NodeRec(tx, id, k) \in WalRecord
         /\ RelRec(tx, id, s, d) \in WalRecord
         /\ \A kind \in TornTails : TornRec(kind) \in WalRecord
  BY TailsAssumption DEF BeginRec, CommitRec, CheckpointRec, NodeRec, RelRec, TornRec,
     WalRecord

\* A replayed record leaves the node tables tables of keys.
LEMMA ReplayNodesType ==
  ASSUME NEW cat \in Seq(Tables), NEW nd \in [NodeTables -> Seq(Keys)], NEW r \in WalRecord
  PROVE  ReplayNodes(cat, nd, r) \in [NodeTables -> Seq(Keys)]
<1>1. CASE r.type = "node" /\ r.id \in DOMAIN cat /\ cat[r.id] \in NodeTables
  <2>1. r.key \in Keys
    BY <1>1 DEF WalRecord
  <2>2. nd[cat[r.id]] \in Seq(Keys)
    BY <1>1
  <2>3. InsertIfFresh(nd[cat[r.id]], r.key) \in Seq(Keys)
    BY <2>1, <2>2 DEF InsertIfFresh
  <2>. QED
    BY <1>1, <2>3 DEF ReplayNodes
<1>2. CASE ~(r.type = "node" /\ r.id \in DOMAIN cat /\ cat[r.id] \in NodeTables)
  BY <1>2 DEF ReplayNodes
<1>. QED  BY <1>1, <1>2

\* A replayed record leaves the relationship tables tables of edges.
LEMMA ReplayRelsType ==
  ASSUME NEW cat \in Seq(Tables), NEW rl \in [RelTables -> Seq(Edge)], NEW r \in WalRecord
  PROVE  ReplayRels(cat, rl, r) \in [RelTables -> Seq(Edge)]
<1>1. CASE r.type = "rel" /\ r.id \in DOMAIN cat /\ cat[r.id] \in RelTables
  <2>1. <<r.src, r.dst>> \in Edge
    BY <1>1 DEF WalRecord, Edge
  <2>2. rl[cat[r.id]] \in Seq(Edge)
    BY <1>1
  <2>3. Append(rl[cat[r.id]], <<r.src, r.dst>>) \in Seq(Edge)
    BY <2>1, <2>2
  <2>. QED
    BY <1>1, <2>3 DEF ReplayRels
<1>2. CASE ~(r.type = "rel" /\ r.id \in DOMAIN cat /\ cat[r.id] \in RelTables)
  BY <1>2 DEF ReplayRels
<1>. QED  BY <1>1, <1>2

\* The empty tables are well typed.
LEMMA EmptyType ==
  /\ EmptyNodes \in [NodeTables -> Seq(Keys)]
  /\ EmptyRels \in [RelTables -> Seq(Edge)]
  BY DEF EmptyNodes, EmptyRels

\* The initial state is well typed.
LEMMA InitType == Init => TypeOK
<1> SUFFICES ASSUME Init PROVE TypeOK
  OBVIOUS
<1> USE DEF Init
<1>0. closing \in BOOLEAN /\ dirty \in BOOLEAN /\ dExists \in BOOLEAN /\ dHeader \in BOOLEAN
  BY Zenon
<1>1. MemTypeOK
  <2>1. catalog \in Seq(Tables) /\ nextTx \in Nat /\ replayPos \in Nat \ {0}
    OBVIOUS
  <2>2. unflushed \subseteq Sections /\ stmt \in Stmt
    BY DEF Stmt
  <2>. QED
    BY <1>0, <2>1, <2>2, EmptyType, Zenon DEF MemTypeOK
<1>2. LogTypeOK
  BY DEF LogTypeOK
<1>3. DiskTypeOK
  <2>1. dCatalog \in Seq(Tables) /\ dRelNames \subseteq RelTables /\ dTorn \subseteq Sections
    OBVIOUS
  <2>. QED
    BY <1>0, <2>1, EmptyType, Zenon DEF DiskTypeOK
<1>4. HistTypeOK
  BY DEF HistTypeOK
<1>. QED
  BY <1>1, <1>2, <1>3, <1>4 DEF TypeOK

\* Opening preserves the types.
LEMMA OpenType ==
  ASSUME TypeOK, OpenNew \/ OpenFails \/ LoadDatabase \/ FinishOpen
  PROVE  TypeOK'
<1> USE DEF TypeOK, boundVars, histVars, diskVars, memVars, MemTypeOK, LogTypeOK,
            DiskTypeOK, HistTypeOK
<1>1. CASE OpenNew
  BY <1>1 DEF OpenNew
<1>2. CASE OpenFails
  BY <1>2 DEF OpenFails
<1>3. CASE LoadDatabase
  BY <1>3 DEF LoadDatabase, LoadedNodes, LoadedRels
<1>4. CASE FinishOpen
  <2>1. dirty' \in BOOLEAN /\ closing' \in BOOLEAN
    BY <1>4, Zenon DEF FinishOpen
  <2>2. replayPos' \in Nat \ {0} /\ nextTx' \in Nat /\ pc' = "idle"
    BY <1>4 DEF FinishOpen
  <2>3. MemTypeOK'
    BY <1>4, <2>1, <2>2, Zenon DEF FinishOpen
  <2>. QED
    BY <1>4, <2>3, Zenon DEF FinishOpen
<1>. QED  BY <1>1, <1>2, <1>3, <1>4

\* Replaying a record preserves the types.
LEMMA ReplayType ==
  ASSUME TypeOK, ReplayRecord
  PROVE  TypeOK'
<1> DEFINE r == walFile[replayPos]
<1>1. r \in WalRecord
  BY DEF TypeOK, LogTypeOK, ReplayRecord
<1>2. nodes' \in [NodeTables -> Seq(Keys)]
  <2>1. ReplayNodes(catalog, nodes, r) \in [NodeTables -> Seq(Keys)]
    BY <1>1, ReplayNodesType DEF TypeOK, MemTypeOK
  <2>. QED
    BY <2>1 DEF TypeOK, MemTypeOK, ReplayRecord
<1>3. rels' \in [RelTables -> Seq(Edge)]
  <2>1. ReplayRels(catalog, rels, r) \in [RelTables -> Seq(Edge)]
    BY <1>1, ReplayRelsType DEF TypeOK, MemTypeOK
  <2>. QED
    BY <2>1 DEF TypeOK, MemTypeOK, ReplayRecord
<1>4. MemTypeOK'
  BY <1>2, <1>3 DEF TypeOK, MemTypeOK, ReplayRecord
<1>5. LogTypeOK' /\ DiskTypeOK' /\ HistTypeOK'
  BY DEF TypeOK, LogTypeOK, DiskTypeOK, HistTypeOK, ReplayRecord, boundVars, histVars,
     diskVars
<1>. QED
  BY <1>4, <1>5 DEF TypeOK

\* What a statement carries, by its kind.
LEMMA StmtFields ==
  ASSUME NEW s \in Stmt
  PROVE  /\ s.kind = "node" => s.table \in NodeTables /\ s.key \in Keys
         /\ s.kind = "rel" => s.edge \in EdgeInfo
         /\ s.kind = "importNodes" =>
              /\ s.table \in NodeTables /\ s.left \in Seq(Keys)
              /\ \A l \in Seq(Keys), b \in BOOLEAN :
                   /\ [s EXCEPT !.left = l] \in Stmt
                   /\ [s EXCEPT !.left = l, !.some = b] \in Stmt
         /\ s.kind = "importRels" =>
              /\ s.table \in RelTables /\ s.left \in Seq(Keys \X Keys)
              /\ \A l \in Seq(Keys \X Keys), b \in BOOLEAN :
                   /\ [s EXCEPT !.left = l] \in Stmt
                   /\ [s EXCEPT !.left = l, !.some = b] \in Stmt
<1>1. s.kind = "node" => s.table \in NodeTables /\ s.key \in Keys
  BY DEF Stmt, NoStmt
<1>2. s.kind = "rel" => s.edge \in EdgeInfo
  BY DEF Stmt, NoStmt
<1>3. s.kind = "importNodes" =>
        s \in [kind : {"importNodes"}, table : NodeTables, left : Seq(Keys), some : BOOLEAN]
  BY DEF Stmt, NoStmt
<1>4. s.kind = "importRels" =>
        s \in [kind : {"importRels"}, table : RelTables, left : Seq(Keys \X Keys),
              ignoreErrors : BOOLEAN, some : BOOLEAN]
  BY DEF Stmt, NoStmt
<1>. QED
  BY <1>1, <1>2, <1>3, <1>4 DEF Stmt

\* Statements preserve the types.
LEMMA StatementType ==
  ASSUME TypeOK, Statement
  PROVE  TypeOK'
<1> USE DEF TypeOK, StartStatement, histVars, diskVars
<1>1. ASSUME NEW t \in NodeTables, ExecuteCreateNodeTable(t) PROVE TypeOK'
  BY <1>1 DEF ExecuteCreateNodeTable, MemTypeOK, LogTypeOK, DiskTypeOK, HistTypeOK, Tables
<1>2. ASSUME NEW r \in RelTables, ExecuteCreateRelTable(r) PROVE TypeOK'
  BY <1>2, SMTT(60) DEF ExecuteCreateRelTable, MemTypeOK, LogTypeOK, DiskTypeOK,
     HistTypeOK, Tables
<1>3. ASSUME NEW id \in DOMAIN catalog, NEW k \in Keys, NEW shape \in RowShapes,
             ExecuteCreateNode(id, k, shape)
      PROVE  TypeOK'
  <2>1. id \in Nat /\ nextTx \in Nat
    BY DEF MemTypeOK
  <2>2. walBuf' \in Seq(WalRecord)
    BY <1>3, <2>1, RecordTypes DEF ExecuteCreateNode
  <2>3. stmt' \in Stmt
    BY <1>3 DEF ExecuteCreateNode, Stmt
  <2>4. MemTypeOK'
    BY <1>3, <2>1, <2>3 DEF ExecuteCreateNode, MemTypeOK
  <2>5. LogTypeOK' /\ DiskTypeOK'
    BY <1>3, <2>2 DEF ExecuteCreateNode, LogTypeOK, DiskTypeOK
  <2>6. HistTypeOK'
    BY <1>3 DEF ExecuteCreateNode, HistTypeOK
  <2>. QED
    BY <2>4, <2>5, <2>6
<1>4. ASSUME NEW id \in DOMAIN catalog, NEW sl \in NodeTables, NEW dl \in NodeTables,
             NEW s \in DOMAIN nodes[sl], NEW d \in DOMAIN nodes[dl],
             ExecuteMatchCreate(id, sl, dl, s, d)
      PROVE  TypeOK'
  <2>1. id \in Nat /\ nextTx \in Nat /\ s \in Nat /\ d \in Nat
    BY DEF MemTypeOK
  <2>3. nodes[sl][s] \in Keys /\ nodes[dl][d] \in Keys
    BY DEF MemTypeOK
  <2>2. walBuf' \in Seq(WalRecord)
    <3>1. /\ BeginRec(nextTx) \in WalRecord /\ CommitRec(nextTx) \in WalRecord
          /\ RelRec(nextTx, id, s, d) \in WalRecord
      BY <2>1, <2>3, RecordTypes
    <3>. QED
      BY <1>4, <3>1 DEF ExecuteMatchCreate
  <2>4. stmt' \in Stmt
    BY <1>4, <2>1, <2>3 DEF ExecuteMatchCreate, Stmt, EdgeInfo
  <2>5. <<s, d>> \in Edge
    BY <2>1 DEF Edge
  <2>6. rels' \in [RelTables -> Seq(Edge)]
    BY <1>4, <2>5 DEF ExecuteMatchCreate, MemTypeOK
  <2>7. MemTypeOK'
    BY <1>4, <2>1, <2>4, <2>6 DEF ExecuteMatchCreate, MemTypeOK
  <2>8. LogTypeOK' /\ DiskTypeOK'
    BY <1>4, <2>2 DEF ExecuteMatchCreate, LogTypeOK, DiskTypeOK
  <2>9. HistTypeOK'
    BY <1>4 DEF ExecuteMatchCreate, HistTypeOK, MemTypeOK
  <2>. QED
    BY <2>7, <2>8, <2>9
<1>. QED
  BY <1>1, <1>2, <1>3, <1>4 DEF Statement

\* Flushing a statement's records preserves the types.
LEMMA FinishType ==
  ASSUME TypeOK, FinishCreateNode \/ FinishMatchCreate
  PROVE  TypeOK'
<1> USE DEF TypeOK, boundVars, diskVars
<1>0. NoStmt \in Stmt /\ stmt \in Stmt
  BY DEF Stmt, MemTypeOK
<1>1. CASE FinishCreateNode
  <2>1. stmt.table \in NodeTables /\ stmt.key \in Keys
    BY <1>0, <1>1, StmtFields DEF FinishCreateNode
  <2>2. MemTypeOK'
    <3>1. nodes' \in [NodeTables -> Seq(Keys)]
      <4>1. Append(nodes[stmt.table], stmt.key) \in Seq(Keys)
        BY <2>1 DEF MemTypeOK
      <4>2. nodes' = [nodes EXCEPT ![stmt.table] = Append(nodes[stmt.table], stmt.key)]
              \/ nodes' = nodes
        BY <1>1 DEF FinishCreateNode
      <4>. QED
        BY <2>1, <4>1, <4>2 DEF MemTypeOK
    <3>2. dirty' = TRUE \/ dirty' = dirty
      BY <1>1 DEF FinishCreateNode
    <3>3. dirty' \in BOOLEAN
      BY <3>2, Zenon DEF MemTypeOK
    <3>. QED
      BY <1>0, <1>1, <3>1, <3>3 DEF FinishCreateNode, MemTypeOK
  <2>3. LogTypeOK' /\ DiskTypeOK'
    BY <1>1 DEF FinishCreateNode, LogTypeOK, DiskTypeOK
  <2>4. HistTypeOK'
    BY <1>1, <2>1 DEF FinishCreateNode, HistTypeOK
  <2>. QED
    BY <2>2, <2>3, <2>4
<1>2. CASE FinishMatchCreate
  <2>1. stmt.edge \in EdgeInfo
    BY <1>0, <1>2, StmtFields DEF FinishMatchCreate
  <2>. QED
    BY <1>0, <1>2, <2>1
    DEF FinishMatchCreate, MemTypeOK, LogTypeOK, DiskTypeOK, HistTypeOK
<1>. QED
  BY <1>1, <1>2

\* Starting an import preserves the types.
LEMMA ImportType ==
  ASSUME TypeOK, Import
  PROVE  TypeOK'
<1> USE DEF TypeOK, StartImport, diskVars
<1>1. ASSUME NEW t \in NodeTables, NEW ks \in FilesOf(Keys), ImportNodes(t, ks)
      PROVE  TypeOK'
  <2>1. ks \in Seq(Keys)
    <3>1. PICK n \in 1..MaxImportRows : ks \in [1..n -> Keys]
      BY DEF FilesOf
    <3>. QED
      BY <3>1, SeqDef DEF MaxImportRows
  <2>2. stmt' \in Stmt
    BY <1>1, <2>1 DEF ImportNodes, Stmt
  <2>3. tried' \subseteq NodeTables \X Keys
    BY <1>1, <2>1 DEF ImportNodes, Rows, HistTypeOK
  <2>. QED
    BY <1>1, <2>2, <2>3 DEF ImportNodes, MemTypeOK, LogTypeOK, DiskTypeOK, HistTypeOK
<1>2. ASSUME NEW r \in RelTables, NEW ps \in FilesOf(Keys \X Keys), NEW ie \in BOOLEAN,
             ImportRelationships(r, ps, ie)
      PROVE  TypeOK'
  <2>1. ps \in Seq(Keys \X Keys)
    <3>1. PICK n \in 1..MaxImportRows : ps \in [1..n -> Keys \X Keys]
      BY DEF FilesOf
    <3>. QED
      BY <3>1, SeqDef DEF MaxImportRows
  <2>2. stmt' \in Stmt
    BY <1>2, <2>1 DEF ImportRelationships, Stmt
  <2>. QED
    BY <1>2, <2>2, SMTT(60) DEF ImportRelationships, MemTypeOK, LogTypeOK, DiskTypeOK,
       HistTypeOK
<1>. QED
  BY <1>1, <1>2 DEF Import

\* One step of an import preserves the types.
LEMMA ImportStepType ==
  ASSUME TypeOK, ImportNodesStep \/ ImportRelsStep
  PROVE  TypeOK'
<1> USE DEF TypeOK, boundVars, diskVars
<1>0. NoStmt \in Stmt /\ stmt \in Stmt
  BY DEF Stmt, MemTypeOK
<1>1. LogTypeOK' /\ DiskTypeOK'
  BY DEF ImportNodesStep, ImportRelsStep, LogTypeOK, DiskTypeOK
<1>2. dirty' \in BOOLEAN
  BY DEF ImportNodesStep, ImportRelsStep, EndImport, MemTypeOK
<1>3. CASE ImportNodesStep
  <2>1. stmt.table \in NodeTables /\ stmt.left \in Seq(Keys)
    BY <1>0, <1>3, StmtFields DEF ImportNodesStep
  <2>2. CASE \E ok \in BOOLEAN : EndImport(ok)
    <3>1. MemTypeOK'
      BY <1>0, <1>2, <1>3, <2>2 DEF ImportNodesStep, EndImport, MemTypeOK
    <3>2. HistTypeOK'
      BY <1>3, <2>2 DEF ImportNodesStep, EndImport, HistTypeOK
    <3>. QED
      BY <1>1, <3>1, <3>2
  <2>3. CASE /\ stmt.left # <<>>
             /\ nodes' = [nodes EXCEPT ![stmt.table] = Append(@, Head(stmt.left))]
             /\ committed' = committed \cup {<<stmt.table, Head(stmt.left)>>}
             /\ stmt' = [stmt EXCEPT !.left = Tail(@), !.some = TRUE]
             /\ UNCHANGED <<pc, dirty, rels, sent>>
    <3>1. Head(stmt.left) \in Keys /\ Tail(stmt.left) \in Seq(Keys)
      BY <2>1, <2>3
    <3>2. stmt' \in Stmt
      <4>1. stmt.kind = "importNodes"
        BY <1>3 DEF ImportNodesStep
      <4>2. stmt' = [stmt EXCEPT !.left = Tail(stmt.left), !.some = TRUE]
        BY <2>3
      <4>. QED
        BY <1>0, <3>1, <4>1, <4>2, StmtFields
    <3>3. nodes' \in [NodeTables -> Seq(Keys)]
      BY <2>1, <2>3, <3>1 DEF MemTypeOK
    <3>4. MemTypeOK'
      BY <1>2, <1>3, <2>3, <3>2, <3>3 DEF ImportNodesStep, MemTypeOK
    <3>5. HistTypeOK'
      BY <1>3, <2>1, <2>3, <3>1 DEF ImportNodesStep, HistTypeOK
    <3>. QED
      BY <1>1, <3>4, <3>5
  <2>. QED
    BY <1>3, <2>2, <2>3 DEF ImportNodesStep
<1>4. CASE ImportRelsStep
  <2>1. stmt.table \in RelTables /\ stmt.left \in Seq(Keys \X Keys) /\ stmt.kind = "importRels"
    BY <1>0, <1>4, StmtFields DEF ImportRelsStep
  <2>2. CASE \E ok \in BOOLEAN : EndImport(ok)
    <3>1. MemTypeOK'
      BY <1>0, <1>2, <1>4, <2>2 DEF ImportRelsStep, EndImport, MemTypeOK
    <3>2. HistTypeOK'
      BY <1>4, <2>2 DEF ImportRelsStep, EndImport, HistTypeOK
    <3>. QED
      BY <1>1, <3>1, <3>2
  <2>3. CASE /\ stmt.left # <<>>
             /\ stmt' = [stmt EXCEPT !.left = Tail(@)]
             /\ UNCHANGED <<pc, dirty, nodes, rels, committed, sent>>
    <3>1. stmt' \in Stmt
      <4>1. Tail(stmt.left) \in Seq(Keys \X Keys)
        BY <2>1, <2>3
      <4>2. stmt' = [stmt EXCEPT !.left = Tail(stmt.left)]
        BY <2>3
      <4>. QED
        BY <1>0, <2>1, <4>1, <4>2, StmtFields
    <3>2. MemTypeOK'
      BY <1>2, <1>4, <2>3, <3>1 DEF ImportRelsStep, MemTypeOK
    <3>3. HistTypeOK'
      BY <1>4, <2>3 DEF ImportRelsStep, HistTypeOK
    <3>. QED
      BY <1>1, <3>2, <3>3
  <2>4. ASSUME NEW s \in DOMAIN nodes[Endpoints[stmt.table][1]],
               NEW d \in DOMAIN nodes[Endpoints[stmt.table][2]],
               stmt.left # <<>>,
               rels' = [rels EXCEPT ![stmt.table] = Append(@, <<s, d>>)],
               sent' = [sent EXCEPT ![stmt.table] = @ + 1],
               stmt' = [stmt EXCEPT !.left = Tail(@), !.some = TRUE],
               UNCHANGED <<pc, dirty, nodes, committed>>
        PROVE  TypeOK'
    <3>1. stmt' \in Stmt
      <4>1. Tail(stmt.left) \in Seq(Keys \X Keys)
        BY <2>1, <2>4
      <4>2. stmt' = [stmt EXCEPT !.left = Tail(stmt.left), !.some = TRUE]
        BY <2>4
      <4>. QED
        BY <1>0, <2>1, <4>1, <4>2, StmtFields
    <3>2. <<s, d>> \in Edge
      BY <2>1, EndpointsAssumption DEF Edge, MemTypeOK
    <3>3. rels' \in [RelTables -> Seq(Edge)]
      BY <2>1, <2>4, <3>2 DEF MemTypeOK
    <3>4. MemTypeOK'
      BY <1>2, <1>4, <2>4, <3>1, <3>3 DEF ImportRelsStep, MemTypeOK
    <3>5. HistTypeOK'
      <4>1. sent \in [RelTables -> Nat] /\ sent[stmt.table] + 1 \in Nat
        BY <2>1 DEF HistTypeOK
      <4>2. sent' \in [RelTables -> Nat]
        BY <2>1, <2>4, <4>1
      <4>3. UNCHANGED <<stmts, imports, crashes, acked, orphaned, committed, tried, edges,
                        ddlLost>>
        BY <1>4, <2>4 DEF ImportRelsStep, boundVars
      <4>. QED
        BY <4>2, <4>3 DEF HistTypeOK
    <3>. QED
      BY <1>1, <3>4, <3>5
  <2>. QED
    BY <1>4, <2>2, <2>3, <2>4 DEF ImportRelsStep
<1>. QED
  BY <1>3, <1>4

\* A process that is gone is well typed.
LEMMA LoseMemoryType ==
  ASSUME LoseMemory
  PROVE  MemTypeOK' /\ walBuf' = <<>>
<1>1. closing' \in BOOLEAN /\ dirty' \in BOOLEAN
  BY Zenon DEF LoseMemory
<1>2. stmt' \in Stmt /\ catalog' \in Seq(Tables) /\ unflushed' \subseteq Sections
  BY DEF LoseMemory, Stmt
<1>3. nextTx' \in Nat /\ replayPos' \in Nat \ {0}
  BY DEF LoseMemory
<1>. QED
  BY <1>1, <1>2, <1>3, EmptyType, Zenon DEF LoseMemory, MemTypeOK

\* Checkpoint and close preserve the types.
LEMMA CheckpointType ==
  ASSUME TypeOK,
         \/ Checkpoint \/ Close \/ LogCheckpoint \/ TruncateWal
         \/ \E s \in Sections : TearSection(s) \/ FlushPage(s)
  PROVE  TypeOK'
<1> USE DEF TypeOK, memVars, boundVars, histVars, diskVars
<1>1. ASSUME NEW b \in BOOLEAN, BeginCheckpoint(b) PROVE TypeOK'
  BY <1>1 DEF BeginCheckpoint, MemTypeOK, LogTypeOK, DiskTypeOK, HistTypeOK
<1>2. CASE Close
  <2>1. CASE BeginCheckpoint(TRUE)
    BY <1>1, <2>1, Zenon
  <2>2. CASE LoseMemory /\ UNCHANGED <<walFile, diskVars, boundVars, histVars>>
    BY <2>2, LoseMemoryType DEF LogTypeOK, DiskTypeOK, HistTypeOK
  <2>. QED
    BY <1>2, <2>1, <2>2 DEF Close
<1>3. CASE LogCheckpoint
  <2>1. CheckpointRec \in WalRecord
    BY DEF CheckpointRec, WalRecord
  <2>. QED
    BY <1>3, <2>1 DEF LogCheckpoint, MemTypeOK, LogTypeOK, DiskTypeOK, HistTypeOK
<1>4. CASE TruncateWal
  <2>1. MemTypeOK' /\ walBuf' \in Seq(WalRecord)
    <3>1. CASE closing
      BY <1>4, <3>1, LoseMemoryType DEF TruncateWal
    <3>2. CASE ~closing
      <4>1. dirty' \in BOOLEAN
        BY <1>4, <3>2, Zenon DEF TruncateWal
      <4>. QED
        BY <1>4, <3>2, <4>1 DEF TruncateWal, MemTypeOK, LogTypeOK
    <3>. QED
      BY <3>1, <3>2
  <2>. QED
    BY <1>4, <2>1 DEF TruncateWal, LogTypeOK, DiskTypeOK, HistTypeOK
<1>5. ASSUME NEW s \in Sections, TearSection(s) PROVE TypeOK'
  BY <1>5 DEF TearSection, MemTypeOK, LogTypeOK, DiskTypeOK, HistTypeOK
<1>6. ASSUME NEW s \in Sections, FlushPage(s) PROVE TypeOK'
  <2>1. dHeader' \in BOOLEAN
    BY <1>6, Zenon DEF FlushPage
  <2>2. DiskTypeOK'
    BY <1>6, <2>1 DEF FlushPage, DiskTypeOK, MemTypeOK
  <2>. QED
    BY <1>6, <2>2 DEF FlushPage, MemTypeOK, LogTypeOK, HistTypeOK
<1>. QED
  BY <1>1, <1>2, <1>3, <1>4, <1>5, <1>6 DEF Checkpoint

\* A crash preserves the types.
LEMMA CrashType ==
  ASSUME TypeOK, Crash
  PROVE  TypeOK'
<1> USE DEF TypeOK, diskVars
<1>1. MemTypeOK' /\ walBuf' = <<>>
  BY LoseMemoryType DEF Crash
<1>2. PICK n \in Written :
        /\ \/ walFile' = walFile \o SubSeq(walBuf, 1, n)
           \/ \E kind \in TornTails :
                walFile' = walFile \o SubSeq(walBuf, 1, n) \o <<TornRec(kind)>>
        /\ committed' = IF stmt.kind = "node" /\ n = Len(walBuf)
                        THEN committed \cup {<<stmt.table, stmt.key>>} ELSE committed
  BY DEF Crash
<1>3. SubSeq(walBuf, 1, n) \in Seq(WalRecord)
  <2>1. n \in 0..Len(walBuf)
    BY DEF Written, LogTypeOK
  <2>. QED
    BY <2>1, SubSeqProperties DEF LogTypeOK
<1>4. walFile' \in Seq(WalRecord)
  <2>1. \A kind \in TornTails : TornRec(kind) \in WalRecord
    BY TailsAssumption DEF TornRec, WalRecord
  <2>2. \A a, b \in Seq(WalRecord) : a \o b \in Seq(WalRecord)
    OBVIOUS
  <2>3. walFile \o SubSeq(walBuf, 1, n) \in Seq(WalRecord)
    BY <1>3, <2>2, Zenon DEF LogTypeOK
  <2>4. \A kind \in TornTails : <<TornRec(kind)>> \in Seq(WalRecord)
    BY <2>1
  <2>. QED
    BY <1>2, <2>2, <2>3, <2>4, Zenon
<1>5. committed' \subseteq NodeTables \X Keys
  <2>1. stmt.kind = "node" => stmt.table \in NodeTables /\ stmt.key \in Keys
    BY StmtFields DEF MemTypeOK
  <2>. QED
    BY <1>2, <2>1 DEF HistTypeOK
<1>6. DiskTypeOK' /\ HistTypeOK'
  BY <1>5 DEF Crash, DiskTypeOK, HistTypeOK
<1>. QED
  BY <1>1, <1>4, <1>6 DEF LogTypeOK

\* Every step preserves the types.
LEMMA NextType == TypeOK /\ [Next]_vars => TypeOK'
<1> SUFFICES ASSUME TypeOK, [Next]_vars PROVE TypeOK'
  OBVIOUS
<1>1. CASE UNCHANGED vars
  BY <1>1 DEF vars, TypeOK, MemTypeOK, LogTypeOK, DiskTypeOK, HistTypeOK
<1>2. CASE Next
  BY <1>2, OpenType, ReplayType, StatementType, FinishType, ImportType, ImportStepType,
     CheckpointType, CrashType
  DEF Next, Running
<1>. QED
  BY <1>1, <1>2

\* Every reachable state is well typed, whatever the tables, the keys and
\* the number of statements, imports and crashes.
THEOREM TypeCorrect == Spec => []TypeOK
<1>1. Init => TypeOK
  BY InitType
<1>2. TypeOK /\ [Next]_vars => TypeOK'
  BY NextType
<1>. QED
  BY <1>1, <1>2, PTL DEF Spec

-----------------------------------------------------------------------------
(* Sequences.                                                              *)

\* What Append adds to the elements of a sequence.
LEMMA AppendRows ==
  ASSUME NEW S, NEW s \in Seq(S), NEW x \in S
  PROVE  /\ Append(s, x) \in Seq(S)
         /\ Rows(Append(s, x)) = Rows(s) \cup {x}
<1>1. /\ Append(s, x) \in Seq(S) /\ Len(Append(s, x)) = Len(s) + 1
      /\ \A i \in 1..Len(s) : Append(s, x)[i] = s[i]
      /\ Append(s, x)[Len(s) + 1] = x
  OBVIOUS
<1>2. DOMAIN s = 1..Len(s) /\ DOMAIN Append(s, x) = 1..(Len(s) + 1) /\ Len(s) \in Nat
  BY <1>1
<1>3. ASSUME NEW y \in Rows(Append(s, x)) PROVE y \in Rows(s) \cup {x}
  <2>1. PICK i \in 1..(Len(s) + 1) : y = Append(s, x)[i]
    BY <1>2, <1>3 DEF Rows
  <2>2. CASE i = Len(s) + 1
    BY <1>1, <2>1, <2>2
  <2>3. CASE i \in 1..Len(s)
    BY <1>1, <1>2, <2>1, <2>3 DEF Rows
  <2>. QED  BY <1>2, <2>1, <2>2, <2>3
<1>4. ASSUME NEW y \in Rows(s) \cup {x} PROVE y \in Rows(Append(s, x))
  <2>1. CASE y = x
    BY <1>1, <1>2, <2>1 DEF Rows
  <2>2. CASE y \in Rows(s)
    <3>1. PICK i \in 1..Len(s) : y = s[i]
      BY <1>2, <2>2 DEF Rows
    <3>2. i \in DOMAIN Append(s, x) /\ y = Append(s, x)[i]
      BY <1>1, <1>2, <3>1
    <3>. QED  BY <3>2 DEF Rows
  <2>. QED  BY <1>4, <2>1, <2>2
<1>. QED  BY <1>1, <1>3, <1>4

\* Appending a new element keeps the elements distinct.
LEMMA AppendDistinct ==
  ASSUME NEW S, NEW s \in Seq(S), NEW x \in S, Distinct(s), x \notin Rows(s)
  PROVE  Distinct(Append(s, x))
<1>1. /\ Len(Append(s, x)) = Len(s) + 1 /\ Append(s, x) \in Seq(S)
      /\ \A i \in 1..Len(s) : Append(s, x)[i] = s[i] /\ s[i] # x
      /\ Append(s, x)[Len(s) + 1] = x
  BY DEF Rows
<1>. QED  BY <1>1 DEF Distinct

-----------------------------------------------------------------------------
(* Primary keys.                                                           *)

\* What a step does to a node table.
NodeTableStep(t) ==
  \/ nodes'[t] = nodes[t]
  \/ nodes'[t] = <<>>
  \/ nodes'[t] = dNodes[t]
  \/ \E k \in Keys : Fresh(nodes[t], k) /\ nodes'[t] = Append(nodes[t], k)

\* Every step leaves a node table alone, empties it, loads it, or appends a
\* fresh key; the data file takes over what memory holds.
LEMMA NodeTableSteps ==
  ASSUME TypeOK, [Next]_vars, NEW t \in NodeTables
  PROVE  NodeTableStep(t) /\ (dNodes'[t] = dNodes[t] \/ dNodes'[t] = nodes[t])
<1> USE DEF memVars, diskVars, boundVars, histVars
<1>0. nodes \in [NodeTables -> Seq(Keys)] /\ stmt \in Stmt /\ EmptyNodes[t] = <<>>
  BY DEF TypeOK, MemTypeOK, EmptyNodes
<1>1. CASE UNCHANGED vars
  BY <1>1 DEF vars, NodeTableStep
<1>2. CASE OpenNew \/ OpenFails \/ LoadDatabase \/ FinishOpen
  BY <1>2 DEF OpenNew, OpenFails, LoadDatabase, LoadedNodes, FinishOpen, NodeTableStep
<1>3. CASE ReplayRecord
  <2> DEFINE r == walFile[replayPos]
  <2>1. r \in WalRecord
    BY <1>3 DEF TypeOK, LogTypeOK, ReplayRecord
  <2>2. r.type = "node" => r.key \in Keys
    BY <2>1 DEF WalRecord
  <2>3. nodes' = nodes \/ nodes' = ReplayNodes(catalog, nodes, r)
    BY <1>3 DEF ReplayRecord
  <2>4. NodeTableStep(t)
    BY <1>0, <2>2, <2>3 DEF ReplayNodes, InsertIfFresh, NodeTableStep
  <2>. QED  BY <1>3, <2>4 DEF ReplayRecord
<1>4. CASE Statement
  BY <1>0, <1>4 DEF Statement, StartStatement, ExecuteCreateNodeTable,
     ExecuteCreateRelTable,
     ExecuteCreateNode, ExecuteMatchCreate, NodeTableStep
<1>5. CASE FinishCreateNode
  <2>1. stmt.key \in Keys
    BY <1>0, <1>5, StmtFields DEF FinishCreateNode
  <2>2. NodeTableStep(t)
    BY <1>0, <1>5, <2>1 DEF FinishCreateNode, Accepts, NodeTableStep
  <2>. QED  BY <1>5, <2>2 DEF FinishCreateNode
<1>6. CASE FinishMatchCreate \/ Import \/ LogCheckpoint \/ Checkpoint
  BY <1>6 DEF FinishMatchCreate, Import, ImportNodes, ImportRelationships, StartImport,
     LogCheckpoint, Checkpoint, BeginCheckpoint, NodeTableStep
<1>7. CASE ImportNodesStep
  <2>1. stmt.left \in Seq(Keys)
    BY <1>0, <1>7, StmtFields DEF ImportNodesStep
  <2>2. stmt.left # <<>> => Head(stmt.left) \in Keys
    BY <2>1
  <2>3. NodeTableStep(t)
    BY <1>0, <1>7, <2>2 DEF ImportNodesStep, EndImport, NodeTableStep
  <2>. QED  BY <1>7, <2>3 DEF ImportNodesStep
<1>8. CASE ImportRelsStep
  BY <1>8 DEF ImportRelsStep, EndImport, NodeTableStep
<1>9. CASE Close \/ TruncateWal \/ Crash
  BY <1>0, <1>9 DEF Close, TruncateWal, Crash, LoseMemory, BeginCheckpoint, NodeTableStep
<1>10. CASE \E s \in Sections : TearSection(s) \/ FlushPage(s)
  BY <1>10 DEF TearSection, FlushPage, NodeTableStep
<1>. QED
  BY <1>1, <1>2, <1>3, <1>4, <1>5, <1>6, <1>7, <1>8, <1>9, <1>10 DEF Next, Running

\* In every reachable state the primary keys of a node table are distinct,
\* in memory and in the data file.
THEOREM UniqueKeysHold == Spec => []UniqueKeys
<1>1. Init => UniqueKeys
  <2>1. Distinct(<<>>)
    BY DEF Distinct
  <2>2. \A t \in NodeTables : EmptyNodes[t] = <<>>
    BY DEF EmptyNodes
  <2>. QED
    BY <2>1, <2>2, Zenon DEF Init, UniqueKeys
<1>2. TypeOK /\ UniqueKeys /\ [Next]_vars => UniqueKeys'
  <2> SUFFICES ASSUME TypeOK, UniqueKeys, [Next]_vars, NEW t \in NodeTables
               PROVE  Distinct(nodes'[t]) /\ Distinct(dNodes'[t])
    BY DEF UniqueKeys
  <2>1. NodeTableStep(t) /\ (dNodes'[t] = dNodes[t] \/ dNodes'[t] = nodes[t])
    BY NodeTableSteps
  <2>2. Distinct(nodes[t]) /\ Distinct(dNodes[t]) /\ nodes[t] \in Seq(Keys)
    BY DEF UniqueKeys, TypeOK, MemTypeOK
  <2>3. ASSUME NEW k \in Keys, Fresh(nodes[t], k) PROVE Distinct(Append(nodes[t], k))
    BY <2>2, <2>3, AppendDistinct DEF Fresh
  <2>4. Distinct(<<>>)
    BY DEF Distinct
  <2>. QED
    BY <2>1, <2>2, <2>3, <2>4 DEF NodeTableStep
<1>. QED
  BY <1>1, <1>2, TypeCorrect, PTL DEF Spec
-----------------------------------------------------------------------------
(* Durability.  The log and the catalog only grow, except where the log is *)
(* cut; a record that inserts a node in a short log and a short catalog    *)
(* still does in longer ones.                                              *)

Grows(a, b) == \A i \in DOMAIN a : i \in DOMAIN b /\ b[i] = a[i]

\* A longer sequence has the elements of the shorter one.
LEMMA GrowsRows == ASSUME NEW a, NEW b, Grows(a, b) PROVE Rows(a) \subseteq Rows(b)
  BY DEF Grows, Rows

\* A sequence extends itself.
LEMMA GrowsSame == ASSUME NEW a PROVE Grows(a, a)
  BY DEF Grows

\* Concatenation extends a sequence.
LEMMA GrowsConcat ==
  ASSUME NEW S, NEW a \in Seq(S), NEW b \in Seq(S) PROVE Grows(a, a \o b)
<1>1. /\ a \o b \in Seq(S) /\ Len(a \o b) = Len(a) + Len(b) /\ Len(a) \in Nat
      /\ Len(b) \in Nat /\ \A i \in 1..Len(a) : (a \o b)[i] = a[i]
  OBVIOUS
<1>2. DOMAIN a = 1..Len(a) /\ DOMAIN (a \o b) = 1..(Len(a) + Len(b))
  BY <1>1
<1>. QED  BY <1>1, <1>2 DEF Grows

\* Append extends a sequence.
LEMMA GrowsAppend ==
  ASSUME NEW S, NEW a \in Seq(S), NEW x \in S PROVE Grows(a, Append(a, x))
<1>1. /\ Append(a, x) \in Seq(S) /\ Len(Append(a, x)) = Len(a) + 1 /\ Len(a) \in Nat
      /\ \A i \in 1..Len(a) : Append(a, x)[i] = a[i]
  OBVIOUS
<1>2. DOMAIN a = 1..Len(a) /\ DOMAIN Append(a, x) = 1..(Len(a) + 1)
  BY <1>1
<1>. QED  BY <1>1, <1>2 DEF Grows

\* A record that inserts x goes on doing so.
LEMMA InsertsGrows ==
  ASSUME NEW c1, NEW c2, NEW w1, NEW w2, NEW i \in DOMAIN w1, NEW x,
         Grows(c1, c2), Grows(w1, w2), Inserts(c1, w1, i, x)
  PROVE  i \in DOMAIN w2 /\ Inserts(c2, w2, i, x)
<1>1. CommittedTxs(w1) \subseteq CommittedTxs(w2)
  BY DEF CommittedTxs, Grows
<1>2. i \in DOMAIN w2 /\ w2[i] = w1[i]
  BY DEF Grows
<1>. QED  BY <1>1, <1>2 DEF Inserts, Grows

\* A table has the same id in the data file as in memory, so a record that
\* inserts x under the catalog in memory does so under the saved one.
LEMMA InsertsSaved ==
  ASSUME NEW c1, NEW c2, NEW w, NEW i \in DOMAIN w, NEW x,
         Grows(c1, c2), Distinct(c2), x[1] \in Rows(c1), Inserts(c2, w, i, x)
  PROVE  Inserts(c1, w, i, x)
<1>1. PICK j \in DOMAIN c1 : c1[j] = x[1]
  BY DEF Rows
<1>2. j \in DOMAIN c2 /\ c2[j] = x[1]
  BY <1>1 DEF Grows
<1>3. w[i].id = j
  BY <1>2 DEF Inserts, Distinct
<1>. QED  BY <1>1, <1>3 DEF Inserts

\* What the database is proved to have, beside its types.
IInv == TypeOK /\ DurabilityInv

\* While the process runs, a step that keeps the data file, only adds to the
\* catalog, the log and the rows, and acknowledges only a node it has both
\* logged and inserted, keeps the acknowledged nodes.
LEMMA KeepDurable ==
  ASSUME IInv, pc \in {"idle", "log", "import"},
         pc' \in {"idle", "log", "import", "flush"},
         UNCHANGED diskVars,
         Grows(catalog, catalog'), Distinct(catalog'), Grows(walFile, walFile'),
         \A t \in Rows(catalog) \cap NodeTables : Rows(nodes[t]) \subseteq Rows(nodes'[t]),
         \A x \in acked' :
           \/ x \in acked
           \/ /\ x[1] \in Rows(catalog') /\ x[2] \in Rows(nodes'[x[1]])
              /\ \E i \in DOMAIN walFile' : Inserts(catalog', walFile', i, x)
  PROVE  CatalogInv' /\ AckedDurable' /\ AckedInMemory'
<1> USE DEF IInv, DurabilityInv, diskVars
<1>0. Up /\ Up' /\ pc # "replay" /\ pc' # "replay"
  BY DEF Up
<1>1. \A x \in acked : x[1] \in NodeTables
  BY DEF TypeOK, HistTypeOK
<1>2. CatalogInv'
  <2>1. dExists /\ Grows(dCatalog, catalog) /\ Distinct(dCatalog)
    BY <1>0 DEF CatalogInv, Grows, Up
  <2>2. Grows(dCatalog, catalog')
    BY <2>1 DEF Grows
  <2>. QED
    BY <2>1, <2>2 DEF CatalogInv, Grows
<1>3. ASSUME NEW x \in acked
      PROVE  /\ x[1] \in Rows(catalog) /\ x[1] \in Rows(catalog')
             /\ Saved(x)' \/ Logged(catalog, x)'
             /\ x[2] \in Rows(nodes'[x[1]])
  <2>1. x[1] \in Rows(catalog) /\ (Saved(x) \/ Logged(catalog, x))
    BY <1>0, <1>3 DEF AckedDurable
  <2>2. x[1] \in Rows(catalog')
    BY <2>1, GrowsRows
  <2>3. Saved(x) => Saved(x)'
    BY DEF Saved
  <2>4. Logged(catalog, x) => Logged(catalog, x)'
    BY InsertsGrows DEF Logged
  <2>5. x[2] \in Rows(nodes'[x[1]])
    BY <1>0, <1>1, <1>3, <2>1 DEF AckedInMemory
  <2>. QED
    BY <2>1, <2>2, <2>3, <2>4, <2>5
<1>4. AckedDurable'
  BY <1>0, <1>3 DEF AckedDurable, Logged
<1>5. AckedInMemory'
  BY <1>0, <1>3 DEF AckedInMemory
<1>. QED
  BY <1>2, <1>4, <1>5

\* The process dies or is closed: what was added to the log stays, and the
\* acknowledged nodes of the tables the data file knows are still there.
LEMMA DownDurable ==
  ASSUME IInv, Up, LoseMemory, UNCHANGED diskVars, UNCHANGED acked, Grows(walFile, walFile')
  PROVE  DurabilityInv'
<1> USE DEF IInv, DurabilityInv, diskVars
<1>0. ~Up' /\ pc' = "down" /\ Distinct(catalog')
  BY DEF LoseMemory, Up, Distinct
<1>1. dExists /\ Grows(dCatalog, catalog) /\ Distinct(catalog)
  BY DEF CatalogInv, Grows, Up
<1>2. CatalogInv'
  BY <1>0, <1>1 DEF CatalogInv
<1>3. AckedDurable'
  <2> SUFFICES ASSUME NEW x \in acked, x[1] \in Rows(dCatalog)
               PROVE  Saved(x)' \/ Logged(dCatalog, x)'
    BY <1>0 DEF AckedDurable
  <2>1. Saved(x) \/ Logged(catalog, x)
    BY DEF AckedDurable
  <2>2. Saved(x) => Saved(x)'
    BY DEF Saved
  <2>3. Logged(catalog, x) => Logged(dCatalog, x)
    BY <1>1, InsertsSaved DEF Logged
  <2>4. Logged(dCatalog, x) => Logged(dCatalog, x)'
    BY InsertsGrows, GrowsSame DEF Logged
  <2>. QED  BY <2>1, <2>2, <2>3, <2>4
<1>4. AckedInMemory' /\ FlushInv' /\ StmtInv'
  BY <1>0 DEF AckedInMemory, FlushInv, StmtInv
<1>. QED
  BY <1>2, <1>3, <1>4

-----------------------------------------------------------------------------
(* Each operation keeps the acknowledged nodes.                            *)

\* Opening: the saved nodes are loaded, the others are still to be replayed.
LEMMA OpenDurable ==
  ASSUME IInv, "nodes" \notin MultiPage, OpenNew \/ OpenFails \/ LoadDatabase
  PROVE  DurabilityInv'
<1> USE DEF IInv, DurabilityInv, diskVars, memVars, histVars
<1>1. CASE OpenNew
  <2>1. acked' = {} /\ dCatalog' = <<>> /\ dExists' /\ pc' = "idle" /\ Distinct(catalog')
    BY <1>1 DEF OpenNew, CatalogInv
  <2>2. CatalogInv'
    BY <1>1, <2>1 DEF OpenNew, CatalogInv
  <2>3. AckedDurable' /\ AckedInMemory' /\ FlushInv' /\ StmtInv'
    BY <2>1 DEF AckedDurable, AckedInMemory, FlushInv, StmtInv
  <2>. QED
    BY <1>1, <2>2, <2>3 DEF OpenNew
<1>2. CASE OpenFails
  <2>1. pc = "down" /\ pc' = "failed" /\ dExists
    BY <1>2 DEF OpenFails
  <2>2. CatalogInv' /\ AckedDurable'
    BY <1>2, <2>1 DEF OpenFails, CatalogInv, AckedDurable, Up, Saved, Logged
  <2>3. AckedInMemory' /\ FlushInv' /\ StmtInv'
    BY <2>1 DEF AckedInMemory, FlushInv, StmtInv, Up
  <2>. QED
    BY <1>2, <2>2, <2>3 DEF OpenFails
<1>3. CASE LoadDatabase
  <2>1. /\ pc = "down" /\ pc' = "replay" /\ dExists /\ dExists' /\ catalog' = dCatalog
        /\ replayPos' = 1 /\ walFile' = walFile /\ dCatalog' = dCatalog /\ dNodes' = dNodes
        /\ nodes' = LoadedNodes /\ ~Up /\ Up' /\ dTorn' = dTorn
    BY <1>3 DEF LoadDatabase, Up
  <2>2. CatalogInv'
    BY <2>1 DEF CatalogInv
  <2>3. ASSUME NEW x \in acked'
        PROVE  /\ x[1] \in Rows(dCatalog) /\ x[1] \in NodeTables
               /\ Saved(x) \/ Logged(dCatalog, x)
    BY <1>3, <2>1, <2>3 DEF LoadDatabase, AckedDurable, TypeOK, HistTypeOK
  <2>4. AckedDurable'
    BY <2>1, <2>3 DEF AckedDurable, Saved, Logged
  <2>5. ASSUME NEW x \in acked', Saved(x) PROVE x[2] \in Rows(nodes'[x[1]])
    BY <2>1, <2>3, <2>5 DEF LoadedNodes, Saved
  <2>6. ASSUME NEW x \in acked', Logged(dCatalog, x)
        PROVE  \E i \in DOMAIN walFile' : i >= replayPos' /\ Inserts(catalog', walFile', i, x)
    <3>1. PICK i \in DOMAIN walFile : Inserts(dCatalog, walFile, i, x)
      BY <2>6 DEF Logged
    <3>2. i >= 1
      BY DEF TypeOK, LogTypeOK
    <3>. QED  BY <2>1, <3>1, <3>2
  <2>7. AckedInMemory'
    BY <2>1, <2>3, <2>5, <2>6 DEF AckedInMemory
  <2>8. FlushInv' /\ StmtInv'
    BY <2>1 DEF FlushInv, StmtInv
  <2>. QED
    BY <2>1, <2>2, <2>4, <2>7, <2>8
<1>. QED  BY <1>1, <1>2, <1>3

\* A replayed record only adds rows, and adds the one it names.
LEMMA ReplayAdds ==
  ASSUME NEW cat, NEW nd \in [NodeTables -> Seq(Keys)], NEW r \in WalRecord, NEW t \in NodeTables
  PROVE  /\ Rows(nd[t]) \subseteq Rows(ReplayNodes(cat, nd, r)[t])
         /\ r.type = "node" /\ r.id \in DOMAIN cat /\ cat[r.id] = t
              => r.key \in Rows(ReplayNodes(cat, nd, r)[t])
<1>1. r.type = "node" => r.key \in Keys
  BY DEF WalRecord
<1>2. nd[t] \in Seq(Keys)
  OBVIOUS
<1>3. ASSUME NEW k \in Keys
      PROVE  Rows(nd[t]) \subseteq Rows(InsertIfFresh(nd[t], k)) /\ k \in Rows(InsertIfFresh(nd[t], k))
  <2>1. Rows(Append(nd[t], k)) = Rows(nd[t]) \cup {k}
    BY <1>2, AppendRows
  <2>. QED  BY <2>1 DEF InsertIfFresh, Fresh
<1>4. CASE r.type = "node" /\ r.id \in DOMAIN cat /\ cat[r.id] \in NodeTables
  BY <1>1, <1>3, <1>4 DEF ReplayNodes
<1>5. CASE ~(r.type = "node" /\ r.id \in DOMAIN cat /\ cat[r.id] \in NodeTables)
  BY <1>5 DEF ReplayNodes
<1>. QED  BY <1>4, <1>5

\* Replaying: a record is applied before it is stepped over, and the replay
\* ends only when no record is left.
LEMMA ReplayDurable ==
  ASSUME IInv, ReplayRecord \/ FinishOpen
  PROVE  DurabilityInv'
<1> USE DEF IInv, DurabilityInv, diskVars, histVars
<1>1. /\ pc = "replay" /\ pc' \in {"replay", "idle"} /\ dExists' = dExists /\ dTorn' = dTorn
      /\ catalog' = catalog /\ walFile' = walFile /\ acked' = acked
      /\ dCatalog' = dCatalog /\ dNodes' = dNodes
  BY DEF ReplayRecord, FinishOpen
<1>2. CatalogInv' /\ AckedDurable' /\ FlushInv' /\ StmtInv'
  BY <1>1 DEF CatalogInv, AckedDurable, FlushInv, StmtInv, Up, Saved, Logged
<1>3. ASSUME NEW x \in acked
      PROVE  /\ x[1] \in NodeTables
             /\ \/ x[2] \in Rows(nodes[x[1]])
                \/ \E i \in DOMAIN walFile : i >= replayPos /\ Inserts(catalog, walFile, i, x)
  BY <1>1, <1>3 DEF AckedInMemory, TypeOK, HistTypeOK
<1>4. CASE ReplayRecord
  <2> DEFINE r == walFile[replayPos]
  <2>1. r \in WalRecord /\ nodes \in [NodeTables -> Seq(Keys)] /\ replayPos \in Nat
    BY <1>4 DEF ReplayRecord, TypeOK, LogTypeOK, MemTypeOK
  <2>2. /\ r.tx \in CommittedTxs(walFile) => nodes' = ReplayNodes(catalog, nodes, r)
        /\ r.tx \notin CommittedTxs(walFile) => nodes' = nodes
    BY <1>4 DEF ReplayRecord
  <2>3. ASSUME NEW x \in acked
        PROVE  \/ x[2] \in Rows(nodes'[x[1]])
               \/ \E i \in DOMAIN walFile : i >= replayPos + 1 /\ Inserts(catalog, walFile, i, x)
    <3> HIDE DEF r
    <3>1. CASE x[2] \in Rows(nodes[x[1]])
      BY <1>3, <2>1, <2>2, <2>3, <3>1, ReplayAdds
    <3>2. ASSUME NEW i \in DOMAIN walFile, i >= replayPos, Inserts(catalog, walFile, i, x)
          PROVE  \/ x[2] \in Rows(nodes'[x[1]])
                 \/ i >= replayPos + 1
      <4>1. CASE i = replayPos
        <5>1. /\ r.type = "node" /\ r.tx \in CommittedTxs(walFile)
              /\ r.id \in DOMAIN catalog /\ catalog[r.id] = x[1] /\ r.key = x[2]
          BY <3>2, <4>1 DEF Inserts, r
        <5>. QED  BY <1>3, <2>1, <2>2, <2>3, <5>1, ReplayAdds
      <4>2. CASE i # replayPos
        <5>1. i \in Nat
          BY DEF TypeOK, LogTypeOK
        <5>. QED  BY <2>1, <3>2, <4>2, <5>1
      <4>. QED  BY <4>1, <4>2
    <3>. QED  BY <1>3, <2>3, <3>1, <3>2
  <2>4. pc' = "replay" /\ replayPos' = replayPos + 1
    BY <1>1, <1>4 DEF ReplayRecord
  <2>5. AckedInMemory'
    BY <1>1, <2>3, <2>4 DEF AckedInMemory
  <2>. QED  BY <1>1, <1>2, <2>5
<1>5. CASE FinishOpen
  <2>1. ASSUME NEW i \in DOMAIN walFile PROVE ~(i >= replayPos)
    BY <1>5 DEF FinishOpen, TypeOK, LogTypeOK, MemTypeOK
  <2>2. pc' = "idle" /\ nodes' = nodes
    BY <1>5 DEF FinishOpen
  <2>3. AckedInMemory'
    BY <1>1, <1>3, <2>1, <2>2 DEF AckedInMemory
  <2>. QED  BY <1>1, <1>2, <2>3
<1>. QED  BY <1>4, <1>5

\* Statements up to their flush.
LEMMA StatementDurable ==
  ASSUME IInv, Statement
  PROVE  DurabilityInv'
<1> USE DEF IInv, DurabilityInv, StartStatement
<1>0. catalog \in Seq(Tables) /\ nodes \in [NodeTables -> Seq(Keys)] /\ Distinct(catalog)
  BY DEF TypeOK, MemTypeOK, CatalogInv
<1>1. ASSUME NEW t \in NodeTables, ExecuteCreateNodeTable(t) PROVE DurabilityInv'
  <2>1. t \in Tables /\ t \notin Rows(catalog) /\ catalog' = Append(catalog, t)
    BY <1>1 DEF ExecuteCreateNodeTable, Tables
  <2>2. Grows(catalog, catalog') /\ Distinct(catalog')
    BY <1>0, <2>1, GrowsAppend, AppendDistinct
  <2>3. \A u \in Rows(catalog) \cap NodeTables : Rows(nodes[u]) \subseteq Rows(nodes'[u])
    BY <1>0, <1>1, <2>1 DEF ExecuteCreateNodeTable
  <2>4. /\ pc = "idle" /\ pc' = "idle" /\ UNCHANGED diskVars /\ walFile' = walFile
        /\ acked' = acked
    BY <1>1 DEF ExecuteCreateNodeTable, histVars
  <2>5. CatalogInv' /\ AckedDurable' /\ AckedInMemory'
    BY <2>2, <2>3, <2>4, GrowsSame, KeepDurable
  <2>. QED  BY <2>4, <2>5 DEF FlushInv, StmtInv, diskVars
<1>2. ASSUME NEW r \in RelTables, ExecuteCreateRelTable(r) PROVE DurabilityInv'
  <2>1. r \in Tables /\ r \notin Rows(catalog) /\ catalog' = Append(catalog, r)
    BY <1>2 DEF ExecuteCreateRelTable, Tables
  <2>2. Grows(catalog, catalog') /\ Distinct(catalog')
    BY <1>0, <2>1, GrowsAppend, AppendDistinct
  <2>4. /\ pc = "idle" /\ pc' = "idle" /\ UNCHANGED diskVars /\ walFile' = walFile
        /\ acked' = acked /\ nodes' = nodes
    BY <1>2 DEF ExecuteCreateRelTable, histVars
  <2>5. CatalogInv' /\ AckedDurable' /\ AckedInMemory'
    BY <2>2, <2>4, GrowsSame, KeepDurable
  <2>. QED  BY <2>4, <2>5 DEF FlushInv, StmtInv, diskVars
<1>3. ASSUME NEW id \in DOMAIN catalog, NEW k \in Keys, NEW shape \in RowShapes,
             ExecuteCreateNode(id, k, shape)
      PROVE  DurabilityInv'
  <2>1. /\ pc = "idle" /\ pc' = "log" /\ UNCHANGED diskVars /\ walFile' = walFile
        /\ acked' = acked /\ nodes' = nodes /\ catalog' = catalog
    BY <1>3 DEF ExecuteCreateNode
  <2>2. CatalogInv' /\ AckedDurable' /\ AckedInMemory'
    BY <1>0, <2>1, GrowsSame, KeepDurable
  <2>3. StmtInv'
    <3>1. /\ stmt'.table = catalog'[id] /\ stmt'.key = k /\ id \in DOMAIN catalog'
          /\ Len(walBuf') = 3 /\ walBuf'[2] = NodeRec(nextTx, id, k)
          /\ walBuf'[3] = CommitRec(nextTx)
      BY <1>3, <2>1 DEF ExecuteCreateNode
    <3>2. walBuf'[2].tx = nextTx
      BY <3>1 DEF NodeRec
    <3>. QED  BY <3>1, <3>2 DEF StmtInv
  <2>. QED  BY <2>1, <2>2, <2>3 DEF FlushInv, diskVars
<1>4. ASSUME NEW id \in DOMAIN catalog, NEW sl \in NodeTables, NEW dl \in NodeTables,
             NEW s \in DOMAIN nodes[sl], NEW d \in DOMAIN nodes[dl],
             ExecuteMatchCreate(id, sl, dl, s, d)
      PROVE  DurabilityInv'
  <2>1. /\ pc = "idle" /\ pc' = "log" /\ UNCHANGED diskVars /\ walFile' = walFile
        /\ acked' = acked /\ nodes' = nodes /\ catalog' = catalog /\ stmt'.kind = "rel"
    BY <1>4 DEF ExecuteMatchCreate
  <2>2. CatalogInv' /\ AckedDurable' /\ AckedInMemory'
    BY <1>0, <2>1, GrowsSame, KeepDurable
  <2>. QED  BY <2>1, <2>2 DEF FlushInv, StmtInv, diskVars
<1>. QED
  BY <1>1, <1>2, <1>3, <1>4 DEF Statement

\* The records a CREATE flushes insert its node under the id of its table.
LEMMA FlushedInserts ==
  ASSUME IInv, pc = "log", stmt.kind = "node"
  PROVE  /\ stmt.table \in Rows(catalog)
         /\ \E i \in DOMAIN (walFile \o walBuf) :
              Inserts(catalog, walFile \o walBuf, i, <<stmt.table, stmt.key>>)
<1> DEFINE w == walFile \o walBuf
           n == Len(walFile)
<1>1. PICK id \in DOMAIN catalog :
        /\ catalog[id] = stmt.table /\ Len(walBuf) = 3
        /\ walBuf[2] = NodeRec(walBuf[2].tx, id, stmt.key)
        /\ walBuf[3] = CommitRec(walBuf[2].tx)
  BY DEF IInv, DurabilityInv, StmtInv
<1>2. /\ n \in Nat /\ w \in Seq(WalRecord) /\ Len(w) = n + 3
      /\ w[n + 2] = walBuf[2] /\ w[n + 3] = walBuf[3]
  <2>1. /\ walFile \in Seq(WalRecord) /\ walBuf \in Seq(WalRecord)
    BY DEF IInv, TypeOK, LogTypeOK
  <2>2. /\ Len(w) = n + Len(walBuf) /\ n \in Nat /\ w \in Seq(WalRecord)
    BY <2>1
  <2>3. ASSUME NEW i \in 1..Len(walBuf) PROVE w[n + i] = walBuf[i]
    <3>1. n + i \in 1..(n + Len(walBuf)) /\ ~(n + i <= n) /\ (n + i) - n = i
      BY <2>1, <2>2
    <3>. QED  BY <2>1, <2>2, <3>1
  <2>4. 2 \in 1..Len(walBuf) /\ 3 \in 1..Len(walBuf)
    BY <1>1
  <2>. QED  BY <1>1, <2>2, <2>3, <2>4
<1>3. n + 2 \in DOMAIN w /\ n + 3 \in DOMAIN w
  BY <1>2
<1>4. w[n + 3].type = "commit" /\ w[n + 3].tx = w[n + 2].tx
  BY <1>1, <1>2 DEF CommitRec
<1>5. w[n + 2].tx \in CommittedTxs(w)
  BY <1>3, <1>4 DEF CommittedTxs
<1>6. w[n + 2].type = "node" /\ w[n + 2].id = id /\ w[n + 2].key = stmt.key
  BY <1>1, <1>2 DEF NodeRec
<1>7. Inserts(catalog, w, n + 2, <<stmt.table, stmt.key>>)
  BY <1>1, <1>5, <1>6 DEF Inserts
<1>. QED
  BY <1>1, <1>3, <1>7 DEF Rows

\* The flush of a statement: a CREATE is acknowledged when its record is in
\* the log and its row in memory.
LEMMA FinishDurable ==
  ASSUME IInv, FinishCreateNode \/ FinishMatchCreate
  PROVE  DurabilityInv'
<1> USE DEF IInv, DurabilityInv
<1>0. /\ catalog \in Seq(Tables) /\ nodes \in [NodeTables -> Seq(Keys)] /\ Distinct(catalog)
      /\ walFile \in Seq(WalRecord) /\ walBuf \in Seq(WalRecord) /\ stmt \in Stmt
  BY DEF TypeOK, MemTypeOK, LogTypeOK, CatalogInv
<1>1. /\ pc = "log" /\ pc' = "idle" /\ UNCHANGED diskVars /\ catalog' = catalog
      /\ walFile' = walFile \o walBuf
  BY DEF FinishCreateNode, FinishMatchCreate
<1>2. Grows(walFile, walFile') /\ Grows(catalog, catalog')
  BY <1>0, <1>1, GrowsConcat, GrowsSame
<1>3. CASE FinishCreateNode
  <2> DEFINE x == <<stmt.table, stmt.key>>
  <2>1. stmt.kind = "node" /\ stmt.table \in NodeTables /\ stmt.key \in Keys
    BY <1>0, <1>3, StmtFields DEF FinishCreateNode
  <2>2. /\ stmt.table \in Rows(catalog)
        /\ \E i \in DOMAIN walFile' : Inserts(catalog', walFile', i, x)
    BY <1>1, <2>1, FlushedInserts
  <2>3. \/ nodes' = nodes /\ acked' = acked
        \/ /\ nodes' = [nodes EXCEPT ![stmt.table] = Append(@, stmt.key)]
           /\ acked' = acked \cup {x}
    BY <1>3 DEF FinishCreateNode
  <2>4. Rows(Append(nodes[stmt.table], stmt.key)) = Rows(nodes[stmt.table]) \cup {stmt.key}
    BY <1>0, <2>1, AppendRows
  <2>5. \A t \in Rows(catalog) \cap NodeTables : Rows(nodes[t]) \subseteq Rows(nodes'[t])
    BY <1>0, <2>1, <2>3, <2>4
  <2>6. \A y \in acked' : y \in acked \/ (y = x /\ x[2] \in Rows(nodes'[x[1]]))
    BY <1>0, <2>1, <2>3, <2>4
  <2>7. \A y \in acked' :
          \/ y \in acked
          \/ /\ y[1] \in Rows(catalog') /\ y[2] \in Rows(nodes'[y[1]])
             /\ \E i \in DOMAIN walFile' : Inserts(catalog', walFile', i, y)
    <3>1. ASSUME NEW y \in acked', y \notin acked
          PROVE  /\ y[1] \in Rows(catalog') /\ y[2] \in Rows(nodes'[y[1]])
                 /\ \E i \in DOMAIN walFile' : Inserts(catalog', walFile', i, y)
      <4>1. y = x /\ y[1] = stmt.table /\ y[2] \in Rows(nodes'[y[1]])
        BY <2>6, <3>1
      <4>2. \E i \in DOMAIN walFile' : Inserts(catalog', walFile', i, y)
        BY <2>2, <4>1, Zenon
      <4>. QED  BY <1>1, <2>2, <4>1, <4>2
    <3>. QED  BY <3>1
  <2>8. CatalogInv' /\ AckedDurable' /\ AckedInMemory'
    BY <1>0, <1>1, <1>2, <2>5, <2>7, KeepDurable
  <2>. QED  BY <1>1, <2>8 DEF FlushInv, StmtInv, diskVars
<1>4. CASE FinishMatchCreate
  <2>1. nodes' = nodes /\ acked' = acked
    BY <1>4 DEF FinishMatchCreate
  <2>2. CatalogInv' /\ AckedDurable' /\ AckedInMemory'
    BY <1>0, <1>1, <1>2, <2>1, KeepDurable
  <2>. QED  BY <1>1, <2>2 DEF FlushInv, StmtInv, diskVars
<1>. QED  BY <1>3, <1>4

\* Imports only add rows.
LEMMA ImportDurable ==
  ASSUME IInv, Import \/ ImportNodesStep \/ ImportRelsStep
  PROVE  DurabilityInv'
<1> USE DEF IInv, DurabilityInv
<1>0. nodes \in [NodeTables -> Seq(Keys)] /\ Distinct(catalog) /\ stmt \in Stmt
  BY DEF TypeOK, MemTypeOK, CatalogInv
<1>1. /\ pc \in {"idle", "import"} /\ pc' \in {"idle", "import"} /\ UNCHANGED diskVars
      /\ catalog' = catalog /\ walFile' = walFile /\ acked' = acked
  <2>1. CASE Import
    BY <2>1 DEF Import, ImportNodes, ImportRelationships, StartImport
  <2>2. CASE ImportNodesStep
    BY <2>2 DEF ImportNodesStep, EndImport
  <2>3. CASE ImportRelsStep
    BY <2>3 DEF ImportRelsStep, EndImport
  <2>. QED  BY <2>1, <2>2, <2>3
<1>2. \A t \in NodeTables : Rows(nodes[t]) \subseteq Rows(nodes'[t])
  <2>1. CASE Import \/ ImportRelsStep
    <3>1. nodes' = nodes
      BY <2>1 DEF Import, ImportNodes, ImportRelationships, StartImport, ImportRelsStep,
         EndImport
    <3>. QED  BY <3>1
  <2>2. CASE ImportNodesStep
    <3>1. stmt.left \in Seq(Keys) /\ stmt.table \in NodeTables
      BY <1>0, <2>2, StmtFields DEF ImportNodesStep
    <3>2. \/ nodes' = nodes
          \/ /\ stmt.left # <<>>
             /\ nodes' = [nodes EXCEPT ![stmt.table] = Append(@, Head(stmt.left))]
      BY <2>2 DEF ImportNodesStep, EndImport
    <3>3. ASSUME stmt.left # <<>>
          PROVE  Rows(Append(nodes[stmt.table], Head(stmt.left)))
                   = Rows(nodes[stmt.table]) \cup {Head(stmt.left)}
      <4>1. Head(stmt.left) \in Keys
        BY <3>1, <3>3
      <4>. QED  BY <1>0, <3>1, <4>1, AppendRows
    <3>. QED  BY <1>0, <3>1, <3>2, <3>3
  <2>. QED  BY <2>1, <2>2
<1>3. CatalogInv' /\ AckedDurable' /\ AckedInMemory'
  BY <1>0, <1>1, <1>2, GrowsSame, KeepDurable
<1>. QED  BY <1>1, <1>3 DEF FlushInv, StmtInv, diskVars

\* A checkpoint saves what memory holds, section by section.
LEMMA CheckpointDurable ==
  ASSUME IInv, "nodes" \notin MultiPage,
         \/ \E forClose \in BOOLEAN : BeginCheckpoint(forClose)
         \/ \E s \in Sections : TearSection(s) \/ FlushPage(s)
         \/ LogCheckpoint
  PROVE  DurabilityInv'
<1> USE DEF IInv, DurabilityInv, memVars, histVars
<1>0. /\ catalog' = catalog /\ nodes' = nodes /\ rels' = rels /\ acked' = acked
      /\ pc \in {"idle", "flush"} /\ pc' \in {"flush", "truncate"} /\ Up /\ Up' /\ dExists
      /\ dExists' = dExists /\ Distinct(catalog) /\ Grows(dCatalog, catalog)
  BY DEF BeginCheckpoint, TearSection, FlushPage, LogCheckpoint, diskVars, CatalogInv,
     Grows, Up
<1>1. AckedInMemory' /\ StmtInv'
  BY <1>0 DEF AckedInMemory, StmtInv
<1>2. ASSUME NEW x \in acked
      PROVE  /\ x[1] \in Rows(catalog) /\ (Saved(x) \/ Logged(catalog, x))
             /\ x[2] \in Rows(nodes[x[1]])
  BY <1>0, <1>2 DEF AckedDurable, AckedInMemory
<1>3. ASSUME NEW forClose \in BOOLEAN, BeginCheckpoint(forClose) PROVE DurabilityInv'
  <2>1. UNCHANGED diskVars /\ walFile' = walFile /\ unflushed' = Sections /\ pc' = "flush"
    BY <1>3 DEF BeginCheckpoint
  <2>2. CatalogInv' /\ AckedDurable'
    BY <1>0, <1>2, <2>1 DEF CatalogInv, AckedDurable, Saved, Logged, diskVars
  <2>3. FlushInv'
    BY <2>1 DEF FlushInv, Sections, diskVars, TypeOK, DiskTypeOK
  <2>. QED  BY <1>1, <2>1, <2>2, <2>3 DEF diskVars
<1>4. ASSUME NEW s \in Sections, TearSection(s) PROVE DurabilityInv'
  <2>1. /\ dCatalog' = dCatalog /\ dNodes' = dNodes /\ dRels' = dRels /\ dHeader' = dHeader
        /\ walFile' = walFile /\ unflushed' = unflushed /\ pc = "flush" /\ pc' = "flush"
        /\ dTorn' = dTorn \cup {s} /\ s \in unflushed /\ s # "nodes"
    BY <1>4 DEF TearSection
  <2>2. CatalogInv' /\ AckedDurable'
    BY <1>0, <1>2, <2>1 DEF CatalogInv, AckedDurable, Saved, Logged
  <2>3. FlushInv'
    BY <1>0, <2>1 DEF FlushInv
  <2>. QED  BY <1>1, <2>1, <2>2, <2>3
<1>5. ASSUME NEW s \in Sections, FlushPage(s) PROVE DurabilityInv'
  <2>1. /\ walFile' = walFile /\ pc = "flush" /\ pc' = "flush"
        /\ unflushed' = unflushed \ {s} /\ dTorn' = dTorn \ {s}
        /\ dCatalog' = IF s = "catalog" THEN catalog ELSE dCatalog
        /\ dNodes' = IF s = "nodes" THEN nodes ELSE dNodes
        /\ dRels' = IF s = "rels" THEN rels ELSE dRels
        /\ s = "header" => dHeader'
        /\ dHeader => dHeader'
    BY <1>5 DEF FlushPage
  <2>2. Grows(dCatalog', catalog) /\ Grows(dCatalog, dCatalog') /\ Distinct(dCatalog')
    BY <1>0, <2>1, GrowsSame DEF CatalogInv
  <2>3. CatalogInv'
    BY <1>0, <2>2 DEF CatalogInv, Grows
  <2>4. ASSUME NEW x \in acked PROVE Saved(x) => Saved(x)'
    <3>1. Rows(dCatalog) \subseteq Rows(dCatalog')
      BY <2>2, GrowsRows
    <3>. QED  BY <1>2, <2>1, <2>4, <3>1 DEF Saved
  <2>5. AckedDurable'
    BY <1>0, <1>2, <2>1, <2>4 DEF AckedDurable, Logged
  <2>6. FlushInv'
    BY <1>0, <2>1 DEF FlushInv
  <2>. QED  BY <1>1, <2>1, <2>3, <2>5, <2>6
<1>6. CASE LogCheckpoint
  <2>1. /\ UNCHANGED diskVars /\ walFile' = Append(walFile, CheckpointRec)
        /\ pc = "flush" /\ pc' = "truncate" /\ unflushed = {} /\ unflushed' = {}
    BY <1>6 DEF LogCheckpoint
  <2>2. Grows(walFile, walFile')
    <3>1. CheckpointRec \in WalRecord
      BY DEF CheckpointRec, WalRecord
    <3>. QED  BY <2>1, <3>1, GrowsAppend DEF TypeOK, LogTypeOK
  <2>3. CatalogInv'
    BY <1>0, <2>1 DEF CatalogInv, diskVars
  <2>4. ASSUME NEW x \in acked PROVE Logged(catalog, x) => Logged(catalog, x)'
    BY <1>0, <2>2, GrowsSame, InsertsGrows DEF Logged
  <2>5. AckedDurable'
    BY <1>0, <1>2, <2>1, <2>4 DEF AckedDurable, Saved, diskVars
  <2>6. FlushInv'
    BY <1>0, <2>1 DEF FlushInv, diskVars
  <2>. QED  BY <1>1, <2>1, <2>3, <2>5, <2>6 DEF diskVars
<1>. QED  BY <1>3, <1>4, <1>5, <1>6

\* The log is cut only when every acknowledged node is in the data file.
LEMMA TruncateDurable ==
  ASSUME IInv, TruncateWal
  PROVE  DurabilityInv'
<1> USE DEF IInv, DurabilityInv, diskVars, histVars
<1>0. /\ pc = "truncate" /\ pc' \in {"idle", "down"} /\ UNCHANGED diskVars /\ acked' = acked
      /\ Up /\ (Up' <=> pc' = "idle")
  BY DEF TruncateWal, LoseMemory, Up
<1>1. dCatalog = catalog /\ dNodes = nodes /\ dExists /\ Distinct(catalog) /\ Distinct(<<>>)
  BY <1>0 DEF FlushInv, CatalogInv, Distinct
<1>2. \A x \in acked : x[1] \in Rows(catalog) /\ x[2] \in Rows(nodes[x[1]]) /\ Saved(x)
  BY <1>0, <1>1 DEF AckedDurable, AckedInMemory, Saved
<1>3. \/ pc' = "idle" /\ catalog' = catalog /\ nodes' = nodes
      \/ pc' = "down" /\ catalog' = <<>>
  BY DEF TruncateWal, LoseMemory
<1>4. CatalogInv'
  BY <1>0, <1>1, <1>3 DEF CatalogInv
<1>5. AckedDurable' /\ AckedInMemory'
  BY <1>0, <1>2, <1>3 DEF AckedDurable, AckedInMemory, Saved
<1>. QED
  BY <1>0, <1>4, <1>5 DEF FlushInv, StmtInv

\* A crash adds to the log at most what was buffered, and perhaps a tail.
LEMMA CrashDurable ==
  ASSUME IInv, Crash
  PROVE  DurabilityInv'
<1>1. Up /\ LoseMemory /\ UNCHANGED diskVars /\ UNCHANGED acked
  BY DEF Crash, Up
<1>2. walFile \in Seq(WalRecord) /\ walBuf \in Seq(WalRecord)
  BY DEF IInv, TypeOK, LogTypeOK
<1>3. PICK n \in Written :
        \/ walFile' = walFile \o SubSeq(walBuf, 1, n)
        \/ \E kind \in TornTails :
             walFile' = walFile \o SubSeq(walBuf, 1, n) \o <<TornRec(kind)>>
  BY DEF Crash
<1>4. n \in 0..Len(walBuf)
  BY <1>2 DEF Written
<1>5. SubSeq(walBuf, 1, n) \in Seq(WalRecord)
  BY <1>2, <1>4, SubSeqProperties
<1>6. walFile \o SubSeq(walBuf, 1, n) \in Seq(WalRecord)
  BY <1>2, <1>5
<1>7. Grows(walFile, walFile \o SubSeq(walBuf, 1, n))
  BY <1>2, <1>5, GrowsConcat
<1>8. ASSUME NEW kind \in TornTails
      PROVE  Grows(walFile \o SubSeq(walBuf, 1, n),
                   walFile \o SubSeq(walBuf, 1, n) \o <<TornRec(kind)>>)
  <2>1. TornRec(kind) \in WalRecord
    BY TailsAssumption DEF TornRec, WalRecord
  <2>2. <<TornRec(kind)>> \in Seq(WalRecord)
    BY <2>1
  <2>. QED  BY <1>6, <2>2, GrowsConcat
<1>9. Grows(walFile, walFile')
  BY <1>3, <1>7, <1>8 DEF Grows
<1>. QED  BY <1>1, <1>9, DownDurable

\* Durability is inductive as long as the node section fits one page.
LEMMA NextDurable ==
  ASSUME "nodes" \notin MultiPage, IInv, [Next]_vars
  PROVE  DurabilityInv'
<1>1. CASE UNCHANGED vars
  BY <1>1 DEF IInv, DurabilityInv, CatalogInv, AckedDurable, AckedInMemory, FlushInv,
     StmtInv, vars, Up, Saved, Logged
<1>2. CASE OpenNew \/ OpenFails \/ LoadDatabase
  BY <1>2, OpenDurable
<1>3. CASE ReplayRecord \/ FinishOpen
  BY <1>3, ReplayDurable
<1>4. CASE Statement
  BY <1>4, StatementDurable
<1>5. CASE FinishCreateNode \/ FinishMatchCreate
  BY <1>5, FinishDurable
<1>6. CASE Import \/ ImportNodesStep \/ ImportRelsStep
  BY <1>6, ImportDurable
<1>7. CASE Checkpoint \/ LogCheckpoint \/ (\E s \in Sections : TearSection(s) \/ FlushPage(s))
  BY <1>7, CheckpointDurable DEF Checkpoint
<1>8. CASE Close
  <2>1. CASE dirty /\ BeginCheckpoint(TRUE)
    BY <2>1, CheckpointDurable
  <2>2. CASE pc = "idle" /\ LoseMemory /\ UNCHANGED <<walFile, diskVars, boundVars, histVars>>
    BY <2>2, DownDurable, GrowsSame DEF Up, histVars
  <2>. QED  BY <1>8, <2>1, <2>2 DEF Close
<1>9. CASE TruncateWal
  BY <1>9, TruncateDurable
<1>10. CASE Crash
  BY <1>10, CrashDurable
<1>. QED
  BY <1>1, <1>2, <1>3, <1>4, <1>5, <1>6, <1>7, <1>8, <1>9, <1>10 DEF Next, Running

\* Nothing is acknowledged before the database exists.
LEMMA InitDurable == Init => DurabilityInv
<1> SUFFICES ASSUME Init PROVE DurabilityInv
  OBVIOUS
<1>1. pc = "down" /\ catalog = <<>> /\ dCatalog = <<>> /\ acked = {} /\ dTorn = {} /\ ~Up
  BY DEF Init, Up
<1>2. CatalogInv
  BY <1>1 DEF CatalogInv, Distinct
<1>. QED
  BY <1>1, <1>2 DEF DurabilityInv, AckedDurable, AckedInMemory, FlushInv, StmtInv

\* As long as the node section of the data file fits one page, an
\* acknowledged node is, in every reachable state, in the data file or in
\* the log under the id its table has there.
THEOREM Durability ==
  ASSUME "nodes" \notin MultiPage
  PROVE  Spec => []DurabilityInv
<1>1. TypeOK /\ TypeOK' /\ DurabilityInv /\ [Next]_vars => DurabilityInv'
  BY NextDurable DEF IInv
<1>. QED
  BY <1>1, InitDurable, TypeCorrect, PTL DEF Spec

\* Under the same condition a CREATE that returned Ok is never undone: the
\* node is there whenever the database is open, whatever crashes, replays,
\* imports and checkpoints came between, as long as its table is.
THEOREM AcknowledgedNodesSurvive ==
  ASSUME "nodes" \notin MultiPage
  PROVE  Spec => []AckedNodesVisible
<1>1. DurabilityInv => AckedNodesVisible
  BY DEF DurabilityInv, AckedInMemory, AckedNodesVisible, Up
<1>. QED
  BY <1>1, Durability, PTL

-----------------------------------------------------------------------------
(* Cutting the log.                                                        *)

\* The steps of a checkpoint save what it no longer has to flush.
LEMMA NextFlush ==
  ASSUME TypeOK, FlushInv, [Next]_vars
  PROVE  FlushInv'
<1> USE DEF memVars, diskVars, boundVars, histVars
<1>1. CASE UNCHANGED vars
  BY <1>1 DEF FlushInv, vars
<1>2. CASE pc' \notin {"flush", "truncate"}
  BY <1>2 DEF FlushInv
<1>3. CASE \E forClose \in BOOLEAN : BeginCheckpoint(forClose)
  <2>1. pc' = "flush" /\ unflushed' = Sections /\ dTorn' \subseteq Sections
    BY <1>3 DEF BeginCheckpoint, TypeOK, DiskTypeOK
  <2>. QED  BY <2>1 DEF FlushInv, Sections
<1>4. CASE \E s \in Sections : TearSection(s)
  BY <1>4 DEF TearSection, FlushInv
<1>5. ASSUME NEW s \in Sections, FlushPage(s) PROVE FlushInv'
  BY <1>5 DEF FlushPage, FlushInv
<1>6. CASE LogCheckpoint
  BY <1>6 DEF LogCheckpoint, FlushInv
<1>7. CASE OpenNew \/ OpenFails \/ LoadDatabase \/ ReplayRecord \/ FinishOpen
  BY <1>2, <1>7 DEF OpenNew, OpenFails, LoadDatabase, ReplayRecord, FinishOpen
<1>8. CASE Statement \/ Import
  BY <1>2, <1>8 DEF Statement, Import, ExecuteCreateNodeTable, ExecuteCreateRelTable,
     ExecuteCreateNode, ExecuteMatchCreate, StartStatement, ImportNodes,
     ImportRelationships, StartImport
<1>9. CASE FinishCreateNode \/ FinishMatchCreate \/ ImportNodesStep \/ ImportRelsStep
  BY <1>2, <1>9 DEF FinishCreateNode, FinishMatchCreate, ImportNodesStep, ImportRelsStep,
     EndImport
<1>10. CASE Close \/ TruncateWal \/ Crash
  BY <1>2, <1>3, <1>10 DEF Close, TruncateWal, Crash, LoseMemory
<1>. QED
  BY <1>1, <1>3, <1>4, <1>5, <1>6, <1>7, <1>8, <1>9, <1>10 DEF Next, Running, Checkpoint

\* Only TruncateWal makes the log shorter.
LEMMA OnlyTruncateShortens ==
  ASSUME TypeOK, [Next]_vars, ~TruncateWal
  PROVE  ~(Len(walFile') < Len(walFile))
<1> USE DEF memVars, diskVars, boundVars, histVars
<1>0. walFile \in Seq(WalRecord) /\ walBuf \in Seq(WalRecord) /\ Len(walFile) \in Nat
  BY DEF TypeOK, LogTypeOK
<1>1. CASE FinishCreateNode \/ FinishMatchCreate
  BY <1>0, <1>1 DEF FinishCreateNode, FinishMatchCreate
<1>2. CASE LogCheckpoint
  <2>1. CheckpointRec \in WalRecord
    BY DEF CheckpointRec, WalRecord
  <2>. QED  BY <1>0, <1>2, <2>1 DEF LogCheckpoint
<1>3. CASE Crash
  <2>1. PICK n \in Written :
          \/ walFile' = walFile \o SubSeq(walBuf, 1, n)
          \/ \E kind \in TornTails :
               walFile' = walFile \o SubSeq(walBuf, 1, n) \o <<TornRec(kind)>>
    BY <1>3 DEF Crash
  <2>2. n \in 0..Len(walBuf)
    BY <1>0 DEF Written
  <2>3. SubSeq(walBuf, 1, n) \in Seq(WalRecord)
    BY <1>0, <2>2, SubSeqProperties
  <2>4. \A kind \in TornTails : <<TornRec(kind)>> \in Seq(WalRecord)
    BY TailsAssumption DEF TornRec, WalRecord
  <2>5. Len(walFile \o SubSeq(walBuf, 1, n)) >= Len(walFile)
        /\ walFile \o SubSeq(walBuf, 1, n) \in Seq(WalRecord)
    BY <1>0, <2>3
  <2>6. ASSUME NEW a \in Seq(WalRecord), NEW b \in Seq(WalRecord)
        PROVE  Len(a \o b) >= Len(a) /\ Len(a) \in Nat /\ Len(a \o b) \in Nat
    OBVIOUS
  <2>7. CASE walFile' = walFile \o SubSeq(walBuf, 1, n)
    BY <1>0, <2>3, <2>6, <2>7
  <2>8. CASE \E kind \in TornTails :
               walFile' = walFile \o SubSeq(walBuf, 1, n) \o <<TornRec(kind)>>
    <3>1. PICK kind \in TornTails :
            walFile' = walFile \o SubSeq(walBuf, 1, n) \o <<TornRec(kind)>>
      BY <2>8
    <3>2. Len(walFile') >= Len(walFile \o SubSeq(walBuf, 1, n)) /\ Len(walFile') \in Nat
      BY <2>4, <2>5, <2>6, <3>1
    <3>3. Len(walFile \o SubSeq(walBuf, 1, n)) \in Nat
      BY <2>5
    <3>. QED  BY <1>0, <2>5, <3>2, <3>3
  <2>. QED  BY <2>1, <2>7, <2>8
<1>4. ASSUME walFile' = walFile PROVE ~(Len(walFile') < Len(walFile))
  BY <1>0, <1>4
<1>5. CASE UNCHANGED vars \/ OpenNew \/ OpenFails \/ LoadDatabase \/ ReplayRecord \/ FinishOpen
  BY <1>4, <1>5 DEF vars, OpenNew, OpenFails, LoadDatabase, ReplayRecord, FinishOpen
<1>6. CASE Statement \/ Import
  BY <1>4, <1>6 DEF Statement, Import, ExecuteCreateNodeTable, ExecuteCreateRelTable,
     ExecuteCreateNode, ExecuteMatchCreate, ImportNodes, ImportRelationships, StartImport
<1>7. CASE ImportNodesStep \/ ImportRelsStep
  BY <1>4, <1>7 DEF ImportNodesStep, ImportRelsStep
<1>8. CASE Checkpoint \/ Close \/ (\E s \in Sections : TearSection(s) \/ FlushPage(s))
  BY <1>4, <1>8 DEF Checkpoint, Close, BeginCheckpoint, TearSection, FlushPage
<1>. QED
  BY <1>1, <1>2, <1>3, <1>5, <1>6, <1>7, <1>8 DEF Next, Running

\* The log is cut only when the data file holds everything memory holds,
\* whatever the sizes of the sections.
THEOREM TruncatesOnlySavedHolds == Spec => TruncatesOnlySaved
<1>1. Init => FlushInv
  BY DEF Init, FlushInv
<1>2. TypeOK /\ FlushInv /\ [Next]_vars => FlushInv'
  BY NextFlush
<1>3. TypeOK /\ FlushInv /\ [Next]_vars =>
        [Len(walFile') < Len(walFile) =>
           /\ dHeader /\ dTorn = {}
           /\ dCatalog = catalog /\ dNodes = nodes /\ dRels = rels]_vars
  <2> SUFFICES ASSUME TypeOK, FlushInv, [Next]_vars, Len(walFile') < Len(walFile)
               PROVE  /\ dHeader /\ dTorn = {}
                      /\ dCatalog = catalog /\ dNodes = nodes /\ dRels = rels
    OBVIOUS
  <2>1. pc = "truncate"
    BY OnlyTruncateShortens DEF TruncateWal
  <2>. QED  BY <2>1 DEF FlushInv
<1>. QED
  BY <1>1, <1>2, <1>3, TypeCorrect, PTL DEF Spec, TruncatesOnlySaved


-----------------------------------------------------------------------------
(* Recovery.                                                               *)

\* All that changes a table is in the log: nothing is imported, a row fits the
\* buffer of the log and CREATE gives every column.
StatementsLogged == MaxImports = 0 /\ LargeRows = FALSE /\ RowShapes \subseteq {"complete"}

\* ... and a node section fits its page.
LoggedOnly == StatementsLogged /\ "nodes" \notin MultiPage

\* The catalog recovery works with.
Cat == IF Up THEN catalog ELSE dCatalog

\* A record was written for a table of the catalog cat, and is committed.
RecordKnown(cat, w, i) ==
  /\ w[i].type = "node" =>
       w[i].id \in DOMAIN cat /\ cat[w[i].id] \in NodeTables /\ w[i].tx \in CommittedTxs(w)
  /\ w[i].type = "rel" =>
       w[i].id \in DOMAIN cat /\ cat[w[i].id] \in RelTables /\ w[i].tx \in CommittedTxs(w)
\* All records of the log w are.
RecordsKnown(cat, w) == \A i \in DOMAIN w : RecordKnown(cat, w, i)

\* A table that the catalog does not have is empty.
UnknownEmpty(cat, nd) == \A t \in NodeTables \ Rows(cat) : nd[t] = <<>>

\* h[i] is what the node tables are when the first i records of w have been
\* replayed over base.
Replays(cat, base, w, h) ==
  /\ h \in [0..Len(w) -> [NodeTables -> Seq(Keys)]]
  /\ h[0] = base
  /\ \A i \in 1..Len(w) : h[i] = ReplayNodes(cat, h[i - 1], w[i])

\* The node a record inserts is there.
Applied(cat, nd, r) == r.type = "node" => r.key \in Rows(nd[cat[r.id]])

\* The edge e joins the rows it was created between.
Joined(nd, e) ==
  /\ e.src \in DOMAIN nd[e.from[1]] /\ nd[e.from[1]][e.src] = e.from[2]
  /\ e.dst \in DOMAIN nd[e.to[1]] /\ nd[e.to[1]][e.dst] = e.to[2]

\* The edge e as the relationship table keeps it.
Pair(e) == <<e.src, e.dst>>

\* A record of w that inserts the edge e.
Links(cat, r, e) ==
  /\ r.type = "rel" /\ r.id \in DOMAIN cat /\ cat[r.id] = e.rel
  /\ r.src = e.src /\ r.dst = e.dst

\* A session is under way and its replay has ended.
Settled == pc \in {"idle", "log", "flush", "truncate"}

\* Before the data file exists there is nothing.
NewDatabase ==
  ~dExists => pc = "down" /\ catalog = <<>> /\ dCatalog = <<>> /\ walFile = <<>>

\* The catalog of the data file is the one in memory unless a CREATE TABLE has
\* set dirty, and rows are only in tables the catalog has.
TablesInv ==
  /\ UnknownEmpty(Cat, nodes) /\ UnknownEmpty(Cat, dNodes)
  /\ pc = "replay" \/ (pc \in {"idle", "log"} /\ ~dirty) => dCatalog = catalog
  /\ pc # "import"

\* The log names tables of the catalog only, and its records are applied, up to
\* the point the replay has reached.
RecordsInv ==
  /\ RecordsKnown(Cat, walFile)
  /\ Settled => \A i \in DOMAIN walFile : Applied(catalog, nodes, walFile[i])
  /\ pc = "replay" =>
       /\ replayPos \in 1..Len(walFile) + 1
       /\ \A i \in 1..replayPos - 1 : Applied(catalog, nodes, walFile[i])

\* A statement that waits for its sync has its three records in the buffer; the
\* row of a relationship is in memory already.
BufferInv ==
  /\ pc # "log" => walBuf = <<>>
  /\ pc = "log" => \E tx \in Nat, id \in DOMAIN catalog :
       \/ /\ stmt.kind = "node" /\ catalog[id] = stmt.table
          /\ walBuf = <<BeginRec(tx), NodeRec(tx, id, stmt.key), CommitRec(tx)>>
       \/ LET e == stmt.edge IN
          /\ stmt.kind = "rel" /\ catalog[id] = e.rel
          /\ walBuf = <<BeginRec(tx), RelRec(tx, id, e.src, e.dst), CommitRec(tx)>>
          /\ Pair(e) \in Rows(rels[e.rel]) /\ Joined(nodes, e)

\* An edge is in the data file or in the log, and in memory once its record has
\* been replayed.
PairsInv ==
  \A e \in edges :
    /\ e.rel \in Rows(Cat)
    /\ Pair(e) \in Rows(dRels[e.rel]) \/ \E i \in DOMAIN walFile : Links(Cat, walFile[i], e)
    /\ Settled => Pair(e) \in Rows(rels[e.rel])
    /\ pc = "replay" =>
         \/ Pair(e) \in Rows(rels[e.rel])
         \/ \E i \in DOMAIN walFile : i >= replayPos /\ Links(Cat, walFile[i], e)

\* The rows in memory are a point on the way of h.
RowsAre(h) ==
  /\ Replays(Cat, dNodes, walFile, h)
  /\ Settled => nodes = h[Len(walFile)]
  /\ pc = "replay" => nodes = h[replayPos - 1]
  /\ \A e \in edges : Joined(h[Len(walFile)], e)

\* There is such a way.
RowsInv == \E h : RowsAre(h)

\* What recovery rests on, as long as no crash has lost a CREATE TABLE: the id
\* of a lost table is given again, and the old records then name the new table.
RecoverySound ==
  NewDatabase /\ TablesInv /\ RecordsInv /\ BufferInv /\ PairsInv /\ RowsInv

\* The inductive invariant.
RecoveryInv == ~ddlLost => RecoverySound

\* The type of nodes and dNodes.
NodeData == [NodeTables -> Seq(Keys)]

-----------------------------------------------------------------------------
(* Replaying one record.                                                   *)

\* A replayed record leaves the rows that are there where they are.
LEMMA ReplayExtends ==
  ASSUME NEW cat, NEW nd \in NodeData, NEW r \in WalRecord, NEW t \in NodeTables
  PROVE  Grows(nd[t], ReplayNodes(cat, nd, r)[t])
<1>1. nd[t] \in Seq(Keys)
  BY DEF NodeData
<1>2. CASE r.type = "node" /\ r.id \in DOMAIN cat /\ cat[r.id] \in NodeTables /\ cat[r.id] = t
  <2>1. r.key \in Keys
    BY <1>2 DEF WalRecord
  <2>2. ReplayNodes(cat, nd, r)[t] = InsertIfFresh(nd[t], r.key)
    BY <1>2 DEF ReplayNodes, NodeData
  <2>3. Grows(nd[t], Append(nd[t], r.key))
    BY <1>1, <2>1, GrowsAppend
  <2>. QED  BY <2>2, <2>3, GrowsSame DEF InsertIfFresh
<1>3. CASE ~(r.type = "node" /\ r.id \in DOMAIN cat /\ cat[r.id] \in NodeTables
             /\ cat[r.id] = t)
  <2>1. ReplayNodes(cat, nd, r)[t] = nd[t]
    BY <1>3 DEF ReplayNodes, NodeData
  <2>. QED  BY <2>1, GrowsSame
<1>. QED  BY <1>2, <1>3

\* A record whose node is there changes nothing.
LEMMA ReplayQuiet ==
  ASSUME NEW cat, NEW nd \in NodeData, NEW r \in WalRecord, Applied(cat, nd, r)
  PROVE  ReplayNodes(cat, nd, r) = nd
<1>1. CASE r.type = "node" /\ r.id \in DOMAIN cat /\ cat[r.id] \in NodeTables
  <2>1. InsertIfFresh(nd[cat[r.id]], r.key) = nd[cat[r.id]]
    BY <1>1 DEF Applied, InsertIfFresh, Fresh
  <2>2. ReplayNodes(cat, nd, r) = [nd EXCEPT ![cat[r.id]] = nd[cat[r.id]]]
    BY <1>1, <2>1 DEF ReplayNodes
  <2>. QED  BY <2>2 DEF NodeData
<1>2. CASE ~(r.type = "node" /\ r.id \in DOMAIN cat /\ cat[r.id] \in NodeTables)
  BY <1>2 DEF ReplayNodes
<1>. QED  BY <1>1, <1>2

\* A longer catalog does not change what a record of a known table does.
LEMMA ReplayWider ==
  ASSUME NEW c1, NEW c2, Grows(c1, c2), NEW nd, NEW r, r.type = "node" => r.id \in DOMAIN c1
  PROVE  ReplayNodes(c2, nd, r) = ReplayNodes(c1, nd, r)
BY DEF ReplayNodes, Grows

\* An edge goes on joining its nodes when rows are added.
LEMMA JoinedGrows ==
  ASSUME NEW nd, NEW nd2, NEW e, e \in EdgeInfo, Joined(nd, e),
         \A t \in NodeTables : Grows(nd[t], nd2[t])
  PROVE  Joined(nd2, e)
<1>1. e.from[1] \in NodeTables /\ e.to[1] \in NodeTables
  BY DEF EdgeInfo
<1>. QED  BY <1>1 DEF Joined, Grows

-----------------------------------------------------------------------------
(* Replaying the log.                                                      *)

\* Nothing to replay.
LEMMA ReplaysNothing ==
  ASSUME NEW cat, NEW base, base \in NodeData
  PROVE  Replays(cat, base, <<>>, [i \in 0..0 |-> base])
BY DEF Replays, NodeData

\* One record more.
LEMMA ReplaysStep ==
  ASSUME NEW cat, cat \in Seq(Tables), NEW base, NEW w, w \in Seq(WalRecord),
         NEW r, r \in WalRecord, NEW h, Replays(cat, base, w, h)
  PROVE  \E g : /\ Replays(cat, base, Append(w, r), g)
                /\ g[Len(w) + 1] = ReplayNodes(cat, h[Len(w)], r)
<1> DEFINE n == Len(w)
           x == ReplayNodes(cat, h[n], r)
           g == [i \in 0..n + 1 |-> IF i <= n THEN h[i] ELSE x]
<1>1. n \in Nat /\ h \in [0..n -> NodeData] /\ h[0] = base
      /\ \A i \in 1..n : h[i] = ReplayNodes(cat, h[i - 1], w[i])
  BY DEF Replays, NodeData
<1>2. x \in NodeData
  <2>1. h[n] \in NodeData
    BY <1>1
  <2>. QED  BY <2>1, ReplayNodesType DEF NodeData
<1>3. /\ Len(Append(w, r)) = n + 1 /\ Append(w, r)[n + 1] = r
      /\ \A i \in 1..n : Append(w, r)[i] = w[i]
  OBVIOUS
<1> HIDE DEF n, x
<1>4. g \in [0..n + 1 -> NodeData] /\ g[0] = base /\ g[n + 1] = x
  BY <1>1, <1>2
<1>5. ASSUME NEW i \in 1..n + 1 PROVE g[i] = ReplayNodes(cat, g[i - 1], Append(w, r)[i])
  <2>1. CASE i = n + 1
    BY <1>1, <1>3, <2>1 DEF x, n
  <2>2. CASE i \in 1..n
    BY <1>1, <1>3, <2>2
  <2>3. i = n + 1 \/ i \in 1..n
    BY <1>1
  <2>. QED  BY <2>1, <2>2, <2>3
<1> HIDE DEF g
<1>6. Replays(cat, base, Append(w, r), g)
  BY <1>3, <1>4, <1>5 DEF Replays, NodeData
<1>. QED  BY <1>4, <1>6 DEF n, x

\* The records of a transaction.
LEMMA EntryParts ==
  ASSUME NEW w, w \in Seq(WalRecord), NEW a \in WalRecord, NEW b \in WalRecord,
         NEW c \in WalRecord
  PROVE  LET v == w \o <<a, b, c>> IN
         /\ v = Append(Append(Append(w, a), b), c) /\ v \in Seq(WalRecord)
         /\ Len(v) = Len(w) + 3 /\ \A i \in 1..Len(w) : v[i] = w[i]
         /\ v[Len(w) + 1] = a /\ v[Len(w) + 2] = b /\ v[Len(w) + 3] = c
OBVIOUS

\* A transaction more: only its insertion counts.
LEMMA ReplaysEntry ==
  ASSUME NEW cat, cat \in Seq(Tables), NEW base, NEW w, w \in Seq(WalRecord),
         NEW tx \in Nat, NEW r, r \in WalRecord, NEW h, Replays(cat, base, w, h)
  PROVE  \E g : /\ Replays(cat, base, w \o <<BeginRec(tx), r, CommitRec(tx)>>, g)
                /\ g[Len(w) + 3] = ReplayNodes(cat, h[Len(w)], r)
<1> DEFINE a == BeginRec(tx)
           c == CommitRec(tx)
           w1 == Append(w, a)
           w2 == Append(w1, r)
           w3 == Append(w2, c)
<1>1. a \in WalRecord /\ c \in WalRecord /\ a.type = "begin" /\ c.type = "commit"
  BY DEF BeginRec, CommitRec, WalRecord
<1> HIDE DEF a, c
<1>2. /\ w1 \in Seq(WalRecord) /\ w2 \in Seq(WalRecord) /\ Len(w) \in Nat
      /\ Len(w1) = Len(w) + 1 /\ Len(w2) = Len(w) + 2
  BY <1>1
<1>w. w3 = w \o <<a, r, c>>
  BY <1>1, EntryParts
<1>3. \A nd : ReplayNodes(cat, nd, a) = nd /\ ReplayNodes(cat, nd, c) = nd
  BY <1>1 DEF ReplayNodes
<1>4. PICK g1 : /\ Replays(cat, base, w1, g1)
                /\ g1[Len(w) + 1] = ReplayNodes(cat, h[Len(w)], a)
  BY <1>1, ReplaysStep
<1> HIDE DEF w1
<1>5. PICK g2 : /\ Replays(cat, base, w2, g2)
                /\ g2[Len(w1) + 1] = ReplayNodes(cat, g1[Len(w1)], r)
  BY <1>2, <1>4, ReplaysStep
<1> HIDE DEF w2
<1>6. PICK g3 : /\ Replays(cat, base, w3, g3)
                /\ g3[Len(w2) + 1] = ReplayNodes(cat, g2[Len(w2)], c)
  <2>1. w2 \in Seq(WalRecord) /\ c \in WalRecord /\ Replays(cat, base, w2, g2)
    BY <1>1, <1>2, <1>5
  <2>. QED  BY <2>1, ReplaysStep
<1> HIDE DEF w3
<1>7. g3[Len(w) + 3] = ReplayNodes(cat, h[Len(w)], r)
  <2>1. g3[Len(w) + 3] = g2[Len(w) + 2]
    BY <1>2, <1>3, <1>6
  <2>2. g2[Len(w) + 2] = ReplayNodes(cat, g1[Len(w) + 1], r)
    BY <1>2, <1>5
  <2>. QED  BY <1>3, <1>4, <2>1, <2>2
<1>. QED  BY <1>w, <1>6, <1>7 DEF a, c

\* A log whose nodes are all there changes nothing.
LEMMA ReplaysQuiet ==
  ASSUME NEW cat, NEW base, base \in NodeData, NEW w, w \in Seq(WalRecord),
         \A i \in DOMAIN w : Applied(cat, base, w[i])
  PROVE  Replays(cat, base, w, [i \in 0..Len(w) |-> base])
<1>1. Len(w) \in Nat /\ DOMAIN w = 1..Len(w) /\ \A i \in 1..Len(w) : w[i] \in WalRecord
  OBVIOUS
<1>2. \A i \in 1..Len(w) : ReplayNodes(cat, base, w[i]) = base
  BY <1>1, ReplayQuiet
<1>. QED  BY <1>1, <1>2 DEF Replays, NodeData

\* A longer catalog does not change what a log of known tables does.
LEMMA ReplaysWider ==
  ASSUME NEW c1, NEW c2, Grows(c1, c2), NEW base, NEW w, w \in Seq(WalRecord),
         NEW h, Replays(c1, base, w, h), RecordsKnown(c1, w)
  PROVE  Replays(c2, base, w, h)
<1>1. \A i \in 1..Len(w) : w[i].type = "node" => w[i].id \in DOMAIN c1
  BY DEF RecordsKnown, RecordKnown
<1>2. \A i \in 1..Len(w) : ReplayNodes(c2, h[i - 1], w[i]) = ReplayNodes(c1, h[i - 1], w[i])
  BY <1>1, ReplayWider
<1>. QED  BY <1>2 DEF Replays

-----------------------------------------------------------------------------
(* The records of the log.                                                 *)

\* A record of a known table stays one when the catalog and the log grow.
LEMMA KnownGrows ==
  ASSUME NEW c1, NEW c2, NEW w1, NEW w2, Grows(c1, c2), Grows(w1, w2), RecordsKnown(c1, w1),
         NEW i, i \in DOMAIN w1
  PROVE  i \in DOMAIN w2 /\ w2[i] = w1[i] /\ RecordKnown(c2, w2, i)
<1>1. CommittedTxs(w1) \subseteq CommittedTxs(w2)
  BY DEF CommittedTxs, Grows
<1>2. i \in DOMAIN w2 /\ w2[i] = w1[i]
  BY DEF Grows
<1>3. RecordKnown(c1, w1, i)
  BY DEF RecordsKnown
<1>. QED  BY <1>1, <1>2, <1>3 DEF RecordKnown, Grows

\* A logged transaction leaves only records of known tables in the log.
LEMMA EntryKnown ==
  ASSUME NEW cat, NEW w, w \in Seq(WalRecord), RecordsKnown(cat, w), NEW tx \in Nat,
         NEW r, r \in WalRecord, r.tx = tx,
         r.type = "node" => r.id \in DOMAIN cat /\ cat[r.id] \in NodeTables,
         r.type = "rel" => r.id \in DOMAIN cat /\ cat[r.id] \in RelTables
  PROVE  RecordsKnown(cat, w \o <<BeginRec(tx), r, CommitRec(tx)>>)
<1> DEFINE a == BeginRec(tx)
           c == CommitRec(tx)
           v == w \o <<a, r, c>>
<1>1. a \in WalRecord /\ c \in WalRecord /\ a.type = "begin" /\ c.type = "commit" /\ c.tx = tx
  BY DEF BeginRec, CommitRec, WalRecord
<1> HIDE DEF a, c
<1>2. /\ v \in Seq(WalRecord) /\ Len(v) = Len(w) + 3 /\ \A i \in 1..Len(w) : v[i] = w[i]
      /\ v[Len(w) + 1] = a /\ v[Len(w) + 2] = r /\ v[Len(w) + 3] = c
  BY <1>1, EntryParts
<1> HIDE DEF v
<1>3. Len(w) \in Nat /\ DOMAIN w = 1..Len(w) /\ DOMAIN v = 1..Len(w) + 3
  BY <1>2
<1>4. Grows(w, v) /\ Grows(cat, cat)
  BY <1>2, <1>3 DEF Grows
<1>5. tx \in CommittedTxs(v)
  <2>1. Len(w) + 3 \in DOMAIN v
    BY <1>3
  <2>. QED  BY <1>1, <1>2, <2>1 DEF CommittedTxs
<1>6. ASSUME NEW i \in DOMAIN v PROVE RecordKnown(cat, v, i)
  <2>1. CASE i \in DOMAIN w
    BY <1>4, <2>1, KnownGrows
  <2>2. CASE i = Len(w) + 1
    BY <1>1, <1>2, <2>2 DEF RecordKnown
  <2>3. CASE i = Len(w) + 2
    BY <1>2, <1>5, <2>3 DEF RecordKnown
  <2>4. CASE i = Len(w) + 3
    BY <1>1, <1>2, <2>4 DEF RecordKnown
  <2>. QED  BY <1>3, <2>1, <2>2, <2>3, <2>4
<1>. QED  BY <1>6 DEF RecordsKnown, v, a, c

-----------------------------------------------------------------------------
(* What a step that leaves the log alone keeps.                            *)

\* A step that leaves log and data file alone keeps the way of the rows.
LEMMA KeepRows ==
  ASSUME LogTypeOK, RowsInv, RecordsInv, Grows(Cat, Cat'), dNodes' = dNodes,
         walFile' = walFile, edges' \subseteq edges, pc' # "replay",
         Settled' => Settled /\ nodes' = nodes
  PROVE  RowsInv'
<1>1. PICK h : RowsAre(h)
  BY DEF RowsInv
<1>2. Replays(Cat, dNodes, walFile, h) /\ RecordsKnown(Cat, walFile)
  BY <1>1 DEF RowsAre, RecordsInv
<1>3. Replays(Cat', dNodes, walFile, h)
  BY <1>2, ReplaysWider DEF LogTypeOK
<1>4. RowsAre(h)'
  BY <1>1, <1>3 DEF RowsAre
<1>. QED  BY <1>4 DEF RowsInv

\* The same for the edges, when the log may grow.
LEMMA KeepPairs ==
  ASSUME TypeOK, PairsInv, Grows(Cat, Cat'), Grows(walFile, walFile'), dRels' = dRels,
         edges' \subseteq edges, pc' # "replay",
         Settled' => /\ Settled
                     /\ \A r \in RelTables \cap Rows(Cat) : Rows(rels[r]) \subseteq Rows(rels'[r])
  PROVE  PairsInv'
<1> SUFFICES ASSUME NEW e \in edges
             PROVE  /\ e.rel \in Rows(Cat')
                    /\ \/ Pair(e) \in Rows(dRels[e.rel])
                       \/ \E i \in DOMAIN walFile' : Links(Cat', walFile'[i], e)
                    /\ Settled' => Pair(e) \in Rows(rels'[e.rel])
  BY DEF PairsInv
<1>1. e.rel \in RelTables
  BY DEF TypeOK, HistTypeOK, EdgeInfo
<1>2. /\ e.rel \in Rows(Cat)
      /\ Pair(e) \in Rows(dRels[e.rel]) \/ \E i \in DOMAIN walFile : Links(Cat, walFile[i], e)
      /\ Settled => Pair(e) \in Rows(rels[e.rel])
  BY DEF PairsInv
<1>3. e.rel \in Rows(Cat')
  BY <1>2, GrowsRows
<1>4. ASSUME NEW i \in DOMAIN walFile, Links(Cat, walFile[i], e)
      PROVE  i \in DOMAIN walFile' /\ Links(Cat', walFile'[i], e)
  BY <1>4 DEF Grows, Links
<1>. QED  BY <1>1, <1>2, <1>3, <1>4

\* The same for the records of the log.
LEMMA KeepRecords ==
  ASSUME RecordsInv, Grows(Cat, Cat'), walFile' = walFile, pc' # "replay",
         Settled' => /\ Settled
                     /\ \A t \in NodeTables \cap Rows(Cat) :
                          Rows(nodes[t]) \subseteq Rows(nodes'[t])
  PROVE  RecordsInv'
<1>1. RecordsKnown(Cat, walFile) /\ Grows(walFile, walFile)
  BY GrowsSame DEF RecordsInv
<1>2. RecordsKnown(Cat', walFile')
  BY <1>1, KnownGrows DEF RecordsKnown
<1>3. ASSUME Settled', NEW i \in DOMAIN walFile PROVE Applied(catalog', nodes', walFile[i])
  <2>1. Cat = catalog /\ Cat' = catalog' /\ Applied(catalog, nodes, walFile[i])
    BY <1>3 DEF RecordsInv, Settled, Cat, Up
  <2>2. RecordKnown(Cat, walFile, i)
    BY <1>1 DEF RecordsKnown
  <2>3. CASE walFile[i].type = "node"
    <3>1. PICK t : t = catalog[walFile[i].id]
      OBVIOUS
    <3>2. t \in NodeTables \cap Rows(Cat) /\ t = catalog'[walFile[i].id]
      BY <2>1, <2>2, <2>3, <3>1 DEF RecordKnown, Rows, Grows
    <3>. QED  BY <1>3, <2>1, <2>3, <3>1, <3>2 DEF Applied
  <2>4. CASE walFile[i].type # "node"
    BY <2>4 DEF Applied
  <2>. QED  BY <2>3, <2>4
<1>. QED  BY <1>2, <1>3 DEF RecordsInv

\* A step between two states without a replay that keeps the rows, the data of
\* the file and the log, and only adds edges and tables, keeps everything.
LEMMA KeepSound ==
  ASSUME IInv, RecoverySound, Settled, Settled', Grows(catalog, catalog'), nodes' = nodes,
         \A r \in RelTables \cap Rows(catalog) : Rows(rels[r]) \subseteq Rows(rels'[r]),
         UNCHANGED <<dExists, dNodes, dRels, walFile, edges>>, BufferInv',
         pc' \in {"idle", "log"} /\ ~dirty' => dCatalog' = catalog'
  PROVE  RecoverySound'
<1> USE DEF RecoverySound
<1>1. /\ Cat = catalog /\ Cat' = catalog' /\ pc' # "replay" /\ pc' # "import" /\ dExists
      /\ pc # "down"
  BY DEF Settled, Cat, Up, NewDatabase
<1>2. RowsInv'
  BY <1>1, KeepRows DEF IInv, TypeOK
<1>3. PairsInv'
  <2>1. Grows(walFile, walFile')
    BY GrowsSame
  <2>. QED  BY <1>1, <2>1, KeepPairs DEF IInv
<1>4. RecordsInv'
  BY <1>1, KeepRecords
<1>5. Rows(catalog) \subseteq Rows(catalog')
  BY GrowsRows
<1>6. TablesInv'
  BY <1>1, <1>5 DEF TablesInv, UnknownEmpty
<1>7. NewDatabase'
  BY <1>1 DEF NewDatabase
<1>. QED  BY <1>2, <1>3, <1>4, <1>6, <1>7

-----------------------------------------------------------------------------
(* Statements and pages.                                                   *)

\* No import ever starts.
LEMMA NoImport == ASSUME StatementsLogged, TypeOK PROVE ~Import
BY DEF StatementsLogged, TypeOK, HistTypeOK, Import, ImportNodes, ImportRelationships,
   StartImport

\* CREATE NODE TABLE and CREATE REL TABLE.
LEMMA TableSound ==
  ASSUME IInv, RecoverySound,
         (\E t \in NodeTables : ExecuteCreateNodeTable(t))
           \/ (\E r \in RelTables : ExecuteCreateRelTable(r))
  PROVE  RecoverySound'
<1> USE DEF StartStatement, diskVars, histVars
<1>1. catalog \in Seq(Tables) /\ nodes \in NodeData /\ rels \in [RelTables -> Seq(Edge)]
  BY DEF IInv, TypeOK, MemTypeOK, NodeData
<1>2. PICK x \in Tables : x \notin Rows(catalog) /\ catalog' = Append(catalog, x)
  BY DEF Tables, ExecuteCreateNodeTable, ExecuteCreateRelTable
<1>3. /\ pc = "idle" /\ pc' = "idle" /\ dirty' = TRUE /\ walBuf' = walBuf
      /\ UNCHANGED <<dExists, dNodes, dRels, walFile, edges>>
  BY DEF ExecuteCreateNodeTable, ExecuteCreateRelTable
<1>4. nodes' = nodes
  <2>1. CASE \E r \in RelTables : ExecuteCreateRelTable(r)
    BY <2>1 DEF ExecuteCreateRelTable
  <2>2. ASSUME NEW t \in NodeTables, ExecuteCreateNodeTable(t) PROVE nodes' = nodes
    <3>1. nodes[t] = <<>>
      BY <2>2, <1>3 DEF ExecuteCreateNodeTable, RecoverySound, TablesInv, UnknownEmpty,
         Cat, Up
    <3>2. nodes' = [nodes EXCEPT ![t] = nodes[t]]
      BY <2>2, <3>1 DEF ExecuteCreateNodeTable
    <3>. QED  BY <1>1, <3>2 DEF NodeData
  <2>. QED  BY <2>1, <2>2
<1>5. \A r \in RelTables \cap Rows(catalog) : Rows(rels[r]) \subseteq Rows(rels'[r])
  BY <1>1 DEF ExecuteCreateNodeTable, ExecuteCreateRelTable
<1>6. Grows(catalog, catalog')
  BY <1>1, <1>2, GrowsAppend
<1>7. BufferInv'
  BY <1>3 DEF RecoverySound, BufferInv
<1>8. Settled /\ Settled'
  BY <1>3 DEF Settled
<1>. QED
  BY <1>3, <1>4, <1>5, <1>6, <1>7, <1>8, KeepSound

\* CREATE, up to the flush of the log.
LEMMA CreateSound ==
  ASSUME IInv, RecoverySound, NEW id \in DOMAIN catalog, NEW k \in Keys,
         NEW shape \in RowShapes, ExecuteCreateNode(id, k, shape)
  PROVE  RecoverySound'
<1> USE DEF StartStatement, diskVars, ExecuteCreateNode
<1>1. nextTx \in Nat
  BY DEF IInv, TypeOK, MemTypeOK
<1>2. /\ pc = "idle" /\ pc' = "log" /\ catalog' = catalog /\ nodes' = nodes /\ rels' = rels
      /\ dirty' = dirty /\ UNCHANGED <<dExists, dNodes, dRels, dCatalog, walFile, edges>>
  OBVIOUS
<1>3. BufferInv'
  <2>1. /\ stmt'.kind = "node" /\ catalog'[id] = stmt'.table /\ stmt'.key = k
        /\ walBuf' = <<BeginRec(nextTx), NodeRec(nextTx, id, stmt'.key), CommitRec(nextTx)>>
    OBVIOUS
  <2>. QED  BY <1>1, <1>2, <2>1 DEF BufferInv
<1>4. Settled /\ Settled' /\ Grows(catalog, catalog')
  BY <1>2, GrowsSame DEF Settled
<1>5. pc' \in {"idle", "log"} /\ ~dirty' => dCatalog' = catalog'
  BY <1>2 DEF RecoverySound, TablesInv
<1>. QED
  BY <1>2, <1>3, <1>4, <1>5, KeepSound

\* MATCH..CREATE, up to the flush of the log.
LEMMA MatchSound ==
  ASSUME IInv, RecoverySound, NEW id \in DOMAIN catalog, NEW sl \in NodeTables,
         NEW dl \in NodeTables, NEW s \in DOMAIN nodes[sl], NEW d \in DOMAIN nodes[dl],
         ExecuteMatchCreate(id, sl, dl, s, d)
  PROVE  RecoverySound'
<1> USE DEF StartStatement, diskVars, ExecuteMatchCreate
<1>1. /\ nextTx \in Nat /\ rels \in [RelTables -> Seq(Edge)]
      /\ nodes[sl] \in Seq(Keys) /\ nodes[dl] \in Seq(Keys)
  BY DEF IInv, TypeOK, MemTypeOK
<1>2. /\ pc = "idle" /\ pc' = "log" /\ catalog' = catalog /\ nodes' = nodes
      /\ dirty' = dirty /\ UNCHANGED <<dExists, dNodes, dRels, dCatalog, walFile, edges>>
  OBVIOUS
<1>3. <<s, d>> \in Edge
  BY <1>1 DEF Edge
<1>4. PICK q \in RelTables : q = catalog[id]
  OBVIOUS
<1>5. /\ rels' = [rels EXCEPT ![q] = Append(rels[q], <<s, d>>)]
      /\ Rows(Append(rels[q], <<s, d>>)) = Rows(rels[q]) \cup {<<s, d>>}
  <2>1. rels[q] \in Seq(Edge)
    BY <1>1
  <2>. QED  BY <1>3, <1>4, <2>1, AppendRows
<1>6. <<s, d>> \in Rows(rels'[q]) /\ \A r \in RelTables : Rows(rels[r]) \subseteq Rows(rels'[r])
  BY <1>1, <1>5
<1>7. BufferInv'
  <2>1. PICK e : e = stmt'.edge
    OBVIOUS
  <2>2. /\ stmt'.kind = "rel" /\ e.rel = q /\ e.src = s /\ e.dst = d
        /\ e.from[1] = sl /\ e.from[2] = nodes[sl][s]
        /\ e.to[1] = dl /\ e.to[2] = nodes[dl][d]
    BY <1>4, <2>1
  <2>3. walBuf' = <<BeginRec(nextTx), RelRec(nextTx, id, e.src, e.dst), CommitRec(nextTx)>>
    BY <2>2
  <2>4. Pair(e) \in Rows(rels'[e.rel]) /\ Joined(nodes', e)
    BY <1>2, <1>6, <2>2 DEF Pair, Joined
  <2>5. catalog'[id] = e.rel /\ pc' = "log" /\ id \in DOMAIN catalog'
    BY <1>2, <1>4, <2>2
  <2> HIDE DEF ExecuteMatchCreate
  <2>. QED  BY <1>1, <2>1, <2>2, <2>3, <2>4, <2>5 DEF BufferInv
<1>8. Settled /\ Settled' /\ Grows(catalog, catalog')
  BY <1>2, GrowsSame DEF Settled
<1>9. pc' \in {"idle", "log"} /\ ~dirty' => dCatalog' = catalog'
  BY <1>2 DEF RecoverySound, TablesInv
<1>. QED
  BY <1>2, <1>6, <1>7, <1>8, <1>9, KeepSound

\* The beginning of a checkpoint, and pages that change neither rows nor edges.
LEMMA CalmSound ==
  ASSUME IInv, RecoverySound,
         \/ \E c \in BOOLEAN : BeginCheckpoint(c)
         \/ \E s \in Sections : TearSection(s)
         \/ \E s \in Sections \ {"nodes", "rels"} : FlushPage(s)
  PROVE  RecoverySound'
<1> USE DEF diskVars, memVars, histVars
<1>1. /\ pc \in {"idle", "flush"} /\ pc' = "flush" /\ catalog' = catalog /\ nodes' = nodes
      /\ rels' = rels /\ walBuf' = walBuf
      /\ UNCHANGED <<dExists, dNodes, dRels, walFile, edges>>
  BY DEF BeginCheckpoint, TearSection, FlushPage
<1>2. Settled /\ Settled' /\ Grows(catalog, catalog')
  BY <1>1, GrowsSame DEF Settled
<1>3. BufferInv'
  BY <1>1 DEF RecoverySound, BufferInv
<1>. QED
  BY <1>1, <1>2, <1>3, KeepSound

\* The node section reaches the file: from now on the log changes nothing.
LEMMA NodesSound ==
  ASSUME IInv, RecoverySound, FlushPage("nodes")
  PROVE  RecoverySound'
<1> USE DEF RecoverySound
<1>1. /\ pc = "flush" /\ pc' = "flush" /\ catalog' = catalog /\ nodes' = nodes
      /\ rels' = rels /\ walBuf' = walBuf /\ dNodes' = nodes
      /\ UNCHANGED <<dExists, dRels, dCatalog, walFile, edges>>
  BY DEF FlushPage, memVars, histVars
<1>2. Settled /\ Settled' /\ Cat = catalog /\ Cat' = catalog /\ dExists
  BY <1>1 DEF Settled, Cat, Up, NewDatabase
<1>3. Grows(catalog, catalog) /\ Grows(walFile, walFile)
  BY GrowsSame
<1>4. PairsInv' /\ RecordsInv'
  BY <1>1, <1>2, <1>3, KeepPairs, KeepRecords DEF IInv
<1>5. BufferInv' /\ NewDatabase' /\ TablesInv'
  BY <1>1, <1>2 DEF BufferInv, NewDatabase, TablesInv
<1>6. RowsInv'
  <2>1. walFile \in Seq(WalRecord) /\ nodes \in NodeData
    BY DEF IInv, TypeOK, MemTypeOK, LogTypeOK, NodeData
  <2>2. PICK n : n = nodes
    OBVIOUS
  <2>3. PICK k \in Nat : k = Len(walFile)
    BY <2>1
  <2> DEFINE g == [i \in 0..k |-> n]
  <2>4. \A i \in DOMAIN walFile : Applied(catalog, nodes, walFile[i])
    BY <1>2 DEF RecordsInv
  <2>5. Replays(catalog, n, walFile, g)
    BY <2>1, <2>2, <2>3, <2>4, ReplaysQuiet
  <2>6. g[k] = n
    OBVIOUS
  <2>7. \A e \in edges : Joined(n, e)
    BY <1>2, <2>2 DEF RowsInv, RowsAre
  <2> HIDE DEF g
  <2>8. RowsAre(g)'
    BY <1>1, <1>2, <2>2, <2>3, <2>5, <2>6, <2>7 DEF RowsAre
  <2>. QED  BY <2>8 DEF RowsInv
<1>. QED  BY <1>4, <1>5, <1>6

\* The relationship section reaches the file.
LEMMA RelsSound ==
  ASSUME IInv, RecoverySound, FlushPage("rels")
  PROVE  RecoverySound'
<1> USE DEF RecoverySound
<1>1. /\ pc = "flush" /\ pc' = "flush" /\ catalog' = catalog /\ nodes' = nodes
      /\ rels' = rels /\ walBuf' = walBuf /\ dRels' = rels
      /\ UNCHANGED <<dExists, dNodes, dCatalog, walFile, edges>>
  BY DEF FlushPage, memVars, histVars
<1>2. Settled /\ Settled' /\ Cat = catalog /\ Cat' = catalog /\ dExists
  BY <1>1 DEF Settled, Cat, Up, NewDatabase
<1>3. Grows(catalog, catalog)
  BY GrowsSame
<1>4. RowsInv' /\ RecordsInv'
  BY <1>1, <1>2, <1>3, KeepRows, KeepRecords DEF IInv, TypeOK
<1>5. PairsInv'
  BY <1>1, <1>2 DEF PairsInv
<1>6. BufferInv' /\ NewDatabase' /\ TablesInv'
  BY <1>1, <1>2 DEF BufferInv, NewDatabase, TablesInv
<1>. QED  BY <1>4, <1>5, <1>6

\* The checkpoint record is logged.
LEMMA LogCheckpointSound ==
  ASSUME IInv, RecoverySound, LogCheckpoint
  PROVE  RecoverySound'
<1> USE DEF RecoverySound
<1>1. /\ pc = "flush" /\ pc' = "truncate" /\ walFile' = Append(walFile, CheckpointRec)
      /\ UNCHANGED <<catalog, nodes, rels, walBuf, dExists, dNodes, dRels, dCatalog, edges>>
  BY DEF LogCheckpoint, memVars, diskVars, histVars
<1>2. Settled /\ Settled' /\ Cat = catalog /\ Cat' = catalog /\ dExists
  BY <1>1 DEF Settled, Cat, Up, NewDatabase
<1>3. walFile \in Seq(WalRecord) /\ catalog \in Seq(Tables)
  BY DEF IInv, TypeOK, MemTypeOK, LogTypeOK
<1>4. CheckpointRec \in WalRecord /\ CheckpointRec.type = "checkpoint"
  BY DEF CheckpointRec, WalRecord
<1>5. /\ Grows(catalog, catalog) /\ Grows(walFile, walFile')
      /\ \A i \in DOMAIN walFile' : i \in DOMAIN walFile \/ walFile'[i] = CheckpointRec
  BY <1>1, <1>3, <1>4, GrowsSame, GrowsAppend
<1>6. PairsInv'
  BY <1>1, <1>2, <1>5, KeepPairs DEF IInv
<1>7. BufferInv' /\ NewDatabase' /\ TablesInv'
  BY <1>1, <1>2 DEF BufferInv, NewDatabase, TablesInv
<1>8. RecordsInv'
  <2>1. RecordsKnown(catalog, walFile)
        /\ \A i \in DOMAIN walFile : Applied(catalog, nodes, walFile[i])
    BY <1>2 DEF RecordsInv
  <2>2. PICK w2 : w2 = walFile'
    OBVIOUS
  <2>3. ASSUME NEW i \in DOMAIN w2 PROVE RecordKnown(catalog, w2, i)
    <3>1. CASE i \in DOMAIN walFile
      BY <1>5, <2>1, <2>2, <3>1, KnownGrows
    <3>2. CASE w2[i] = CheckpointRec
      BY <1>4, <3>2 DEF RecordKnown
    <3>. QED  BY <1>5, <2>2, <3>1, <3>2
  <2>4. ASSUME NEW i \in DOMAIN w2 PROVE Applied(catalog, nodes, w2[i])
    BY <1>4, <1>5, <2>1, <2>2 DEF Applied, Grows
  <2>. QED  BY <1>1, <1>2, <2>2, <2>3, <2>4 DEF RecordsInv, RecordsKnown
<1>9. RowsInv'
  <2>1. PICK h : RowsAre(h)
    BY DEF RowsInv
  <2>2. PICK n \in Nat : n = Len(walFile) /\ Len(walFile') = n + 1
    BY <1>1, <1>3, <1>4
  <2>3. PICK g : /\ Replays(catalog, dNodes, walFile', g)
                 /\ g[n + 1] = ReplayNodes(catalog, h[n], CheckpointRec)
    BY <1>1, <1>2, <1>3, <1>4, <2>1, <2>2, ReplaysStep DEF RowsAre
  <2>4. g[n + 1] = h[n]
    BY <1>4, <2>3 DEF ReplayNodes
  <2>5. RowsAre(g)'
    BY <1>1, <1>2, <2>1, <2>2, <2>3, <2>4 DEF RowsAre
  <2>. QED  BY <2>5 DEF RowsInv
<1>. QED  BY <1>6, <1>7, <1>8, <1>9

-----------------------------------------------------------------------------
(* The end of the process.                                                 *)

\* The process is gone and no table with it: what is needed of the log and the
\* data file.
LEMMA DownSound ==
  ASSUME RecoverySound, LoseMemory, dExists, dExists' = dExists, dCatalog' = dCatalog,
         UnknownEmpty(dCatalog, dNodes'), RecordsKnown(dCatalog, walFile'),
         \A e \in edges' :
           /\ e.rel \in Rows(dCatalog)
           /\ \/ Pair(e) \in Rows(dRels'[e.rel])
              \/ \E i \in DOMAIN walFile' : Links(dCatalog, walFile'[i], e),
         \E h : /\ Replays(dCatalog, dNodes', walFile', h)
                /\ \A e \in edges' : Joined(h[Len(walFile')], e)
  PROVE  RecoverySound'
<1>1. pc' = "down" /\ Cat' = dCatalog /\ ~Settled' /\ nodes' = EmptyNodes /\ walBuf' = <<>>
  BY DEF LoseMemory, Cat, Up, Settled
<1>2. NewDatabase' /\ BufferInv'
  BY <1>1 DEF NewDatabase, BufferInv
<1>3. TablesInv'
  BY <1>1 DEF TablesInv, UnknownEmpty, EmptyNodes
<1>4. RecordsInv'
  BY <1>1 DEF RecordsInv
<1>5. PairsInv'
  BY <1>1 DEF PairsInv
<1>6. RowsInv'
  BY <1>1 DEF RowsInv, RowsAre
<1>. QED  BY <1>2, <1>3, <1>4, <1>5, <1>6 DEF RecoverySound

\* The log is as it was.
LEMMA LostSound ==
  ASSUME RecoverySound, Up, LoseMemory, dCatalog = catalog, UNCHANGED diskVars,
         walFile' = walFile, edges' = edges
  PROVE  RecoverySound'
<1>1. /\ dExists /\ dExists' = dExists /\ dCatalog' = dCatalog /\ dNodes' = dNodes
      /\ dRels' = dRels /\ Cat = dCatalog
  BY DEF diskVars, RecoverySound, NewDatabase, Up, Cat
<1>2. UnknownEmpty(dCatalog, dNodes') /\ RecordsKnown(dCatalog, walFile')
  BY <1>1 DEF RecoverySound, TablesInv, RecordsInv
<1>3. \A e \in edges' :
        /\ e.rel \in Rows(dCatalog)
        /\ \/ Pair(e) \in Rows(dRels'[e.rel])
           \/ \E i \in DOMAIN walFile' : Links(dCatalog, walFile'[i], e)
  BY <1>1 DEF RecoverySound, PairsInv
<1>4. \E h : /\ Replays(dCatalog, dNodes', walFile', h)
             /\ \A e \in edges' : Joined(h[Len(walFile')], e)
  BY <1>1 DEF RecoverySound, RowsInv, RowsAre
<1>. QED  BY <1>1, <1>2, <1>3, <1>4, DownSound

\* The log is cut: all it says is in the data file.
LEMMA TruncateSound ==
  ASSUME IInv, RecoverySound, TruncateWal
  PROVE  RecoverySound'
<1> USE DEF RecoverySound
<1>1. /\ pc = "truncate" /\ walFile' = <<>>
      /\ UNCHANGED <<dExists, dNodes, dRels, dCatalog, edges>>
  BY DEF TruncateWal, diskVars, histVars
<1>2. dCatalog = catalog /\ dNodes = nodes /\ dRels = rels
  BY <1>1 DEF IInv, DurabilityInv, FlushInv
<1>3. Settled /\ Cat = catalog /\ dExists
  BY <1>1 DEF Settled, Cat, Up, NewDatabase
<1>4. UnknownEmpty(dCatalog, dNodes) /\ RecordsKnown(dCatalog, <<>>)
  BY <1>2, <1>3 DEF TablesInv, RecordsKnown
<1>5. \A e \in edges : e.rel \in Rows(dCatalog) /\ Pair(e) \in Rows(dRels[e.rel])
  BY <1>2, <1>3 DEF PairsInv
<1>6. PICK h : /\ Replays(dCatalog, dNodes, <<>>, h) /\ h[0] = dNodes
               /\ \A e \in edges : Joined(h[0], e)
  <2>1. dNodes \in NodeData
    BY DEF IInv, TypeOK, DiskTypeOK, NodeData
  <2>2. \A e \in edges : Joined(dNodes, e)
    BY <1>2, <1>3 DEF RowsInv, RowsAre
  <2>3. PICK n : n = dNodes
    OBVIOUS
  <2> DEFINE g == [i \in 0..0 |-> n]
  <2>4. Replays(dCatalog, n, <<>>, g)
    BY <2>1, <2>3, ReplaysNothing
  <2>5. g[0] = n
    OBVIOUS
  <2> HIDE DEF g
  <2>. QED  BY <2>2, <2>3, <2>4, <2>5
<1>7. CASE closing
  <2>1. LoseMemory
    BY <1>7 DEF TruncateWal
  <2>. QED  BY <1>1, <1>3, <1>4, <1>5, <1>6, <2>1, DownSound
<1>8. CASE ~closing
  <2>1. /\ pc' = "idle"
        /\ UNCHANGED <<catalog, nodes, rels, walBuf>>
    BY <1>8 DEF TruncateWal
  <2>2. Settled' /\ Cat' = catalog
    BY <2>1 DEF Settled, Cat, Up
  <2>3. NewDatabase' /\ BufferInv'
    BY <1>1, <1>3, <2>1 DEF NewDatabase, BufferInv
  <2>4. TablesInv'
    BY <1>1, <1>2, <1>4, <2>1, <2>2 DEF TablesInv
  <2>5. RecordsInv'
    BY <1>1, <2>1 DEF RecordsInv, RecordsKnown
  <2>6. PairsInv'
    BY <1>1, <1>2, <1>5, <2>1, <2>2 DEF PairsInv
  <2>7. RowsAre(h)'
    BY <1>1, <1>2, <1>6, <2>1, <2>2 DEF RowsAre
  <2>. QED  BY <2>3, <2>4, <2>5, <2>6, <2>7 DEF RowsInv
<1>. QED  BY <1>7, <1>8

\* close, of a database that has nothing to save.
LEMMA CloseSound ==
  ASSUME IInv, RecoverySound, Close, pc' = "down"
  PROVE  RecoverySound'
<1>1. /\ pc = "idle" /\ ~dirty /\ LoseMemory /\ walFile' = walFile /\ UNCHANGED diskVars
      /\ edges' = edges
  BY DEF Close, BeginCheckpoint, histVars
<1>2. Up /\ dCatalog = catalog
  BY <1>1 DEF RecoverySound, TablesInv, Up
<1>. QED  BY <1>1, <1>2, LostSound

-----------------------------------------------------------------------------
(* A statement reaches the log.                                            *)

\* What the buffered records say, and what they add to the log.
LEMMA BufferLogged ==
  ASSUME IInv, RecoverySound, pc = "log", NEW w, w = walFile \o walBuf
  PROVE  \E r \in WalRecord :
    /\ Grows(walFile, w) /\ RecordsKnown(catalog, w)
    /\ \A i \in DOMAIN w : w[i] = r \/ w[i].type # "node" \/ i \in DOMAIN walFile
    /\ r \in Rows(w)
    /\ \E g : /\ Replays(catalog, dNodes, w, g)
              /\ g[Len(w)] = ReplayNodes(catalog, nodes, r)
    /\ \/ /\ stmt.kind = "node" /\ r.type = "node" /\ stmt.table \in NodeTables
          /\ r.id \in DOMAIN catalog /\ catalog[r.id] = stmt.table /\ r.key = stmt.key
       \/ /\ stmt.kind = "rel" /\ r.type = "rel" /\ stmt.edge \in EdgeInfo
          /\ Links(catalog, r, stmt.edge) /\ stmt.edge.rel \in Rows(catalog)
          /\ Pair(stmt.edge) \in Rows(rels[stmt.edge.rel]) /\ Joined(nodes, stmt.edge)
<1>1. /\ catalog \in Seq(Tables) /\ walFile \in Seq(WalRecord) /\ stmt \in Stmt
      /\ RowShapes \subseteq {"complete", "incomplete"}
  BY ShapesAssumption DEF IInv, TypeOK, MemTypeOK, LogTypeOK
<1>2. Settled /\ Cat = catalog
  BY DEF Settled, Cat, Up
<1>3. RecordsKnown(catalog, walFile)
  BY <1>2 DEF RecoverySound, RecordsInv
<1>4. PICK tx \in Nat, id \in DOMAIN catalog :
       \/ /\ stmt.kind = "node" /\ catalog[id] = stmt.table
          /\ walBuf = <<BeginRec(tx), NodeRec(tx, id, stmt.key), CommitRec(tx)>>
       \/ LET e == stmt.edge IN
          /\ stmt.kind = "rel" /\ catalog[id] = e.rel
          /\ walBuf = <<BeginRec(tx), RelRec(tx, id, e.src, e.dst), CommitRec(tx)>>
          /\ Pair(e) \in Rows(rels[e.rel]) /\ Joined(nodes, e)
  BY DEF RecoverySound, BufferInv
<1>5. id \in Nat
  BY <1>1
<1>6. PICK r : /\ r \in WalRecord /\ r.tx = tx /\ walBuf = <<BeginRec(tx), r, CommitRec(tx)>>
               /\ \/ /\ stmt.kind = "node" /\ r.type = "node" /\ stmt.table \in NodeTables
                     /\ r.id \in DOMAIN catalog /\ catalog[r.id] = stmt.table
                     /\ r.key = stmt.key
                  \/ /\ stmt.kind = "rel" /\ r.type = "rel" /\ stmt.edge \in EdgeInfo
                     /\ Links(catalog, r, stmt.edge) /\ stmt.edge.rel \in Rows(catalog)
                     /\ stmt.edge.rel \in RelTables
                     /\ Pair(stmt.edge) \in Rows(rels[stmt.edge.rel])
                     /\ Joined(nodes, stmt.edge)
  <2>1. CASE stmt.kind = "node"
    <3>1. stmt.table \in NodeTables /\ stmt.key \in Keys
      BY <1>1, <2>1, StmtFields
    <3>2. NodeRec(tx, id, stmt.key) \in WalRecord
      BY <1>5, <3>1 DEF NodeRec, WalRecord
    <3>. QED  BY <1>4, <2>1, <3>1, <3>2 DEF NodeRec
  <2>2. CASE stmt.kind = "rel"
    <3>1. stmt.edge \in EdgeInfo
      BY <1>1, <2>2, StmtFields
    <3>2. stmt.edge.src \in Nat /\ stmt.edge.dst \in Nat /\ stmt.edge.rel \in RelTables
      BY <3>1 DEF EdgeInfo
    <3>3. RelRec(tx, id, stmt.edge.src, stmt.edge.dst) \in WalRecord
      BY <1>5, <3>2 DEF RelRec, WalRecord
    <3>4. stmt.edge.rel \in Rows(catalog)
      BY <1>4, <2>2 DEF Rows
    <3>. QED  BY <1>4, <2>2, <3>1, <3>2, <3>3, <3>4 DEF RelRec, Links
  <2>. QED  BY <1>4, <2>1, <2>2
<1>7. BeginRec(tx) \in WalRecord /\ CommitRec(tx) \in WalRecord
      /\ BeginRec(tx).type = "begin" /\ CommitRec(tx).type = "commit"
  BY DEF BeginRec, CommitRec, WalRecord
<1>8. /\ Len(w) = Len(walFile) + 3 /\ w \in Seq(WalRecord)
      /\ \A i \in 1..Len(walFile) : w[i] = walFile[i]
      /\ w[Len(walFile) + 1] = BeginRec(tx) /\ w[Len(walFile) + 2] = r
      /\ w[Len(walFile) + 3] = CommitRec(tx)
  BY <1>1, <1>6, <1>7, EntryParts
<1>9. /\ Len(walFile) \in Nat /\ DOMAIN walFile = 1..Len(walFile)
      /\ DOMAIN w = 1..Len(walFile) + 3
  BY <1>1, <1>8
<1>10. Grows(walFile, w)
  BY <1>8, <1>9 DEF Grows
<1>11. RecordsKnown(catalog, w)
  <2>1. /\ r.type = "node" => r.id \in DOMAIN catalog /\ catalog[r.id] \in NodeTables
        /\ r.type = "rel" => r.id \in DOMAIN catalog /\ catalog[r.id] \in RelTables
    BY <1>6 DEF Links
  <2>. QED  BY <1>1, <1>3, <1>6, <2>1, EntryKnown
<1>12. \A i \in DOMAIN w : w[i] = r \/ w[i].type # "node" \/ i \in DOMAIN walFile
  <2>1. \A i \in DOMAIN w : \/ i \in DOMAIN walFile \/ i = Len(walFile) + 1
                            \/ i = Len(walFile) + 2 \/ i = Len(walFile) + 3
    BY <1>9
  <2>. QED  BY <1>7, <1>8, <2>1
<1>13. r \in Rows(w)
  <2>1. Len(walFile) + 2 \in DOMAIN w
    BY <1>9
  <2>. QED  BY <1>8, <2>1 DEF Rows
<1>14. \E g : /\ Replays(catalog, dNodes, w, g)
              /\ g[Len(w)] = ReplayNodes(catalog, nodes, r)
  <2>1. PICK h : RowsAre(h)
    BY DEF RecoverySound, RowsInv
  <2>2. Replays(catalog, dNodes, walFile, h) /\ nodes = h[Len(walFile)]
    BY <1>2, <2>1 DEF RowsAre
  <2>. QED  BY <1>1, <1>6, <1>8, <2>2, ReplaysEntry
<1>. QED  BY <1>6, <1>10, <1>11, <1>12, <1>13, <1>14

\* The insertion that a statement has logged is what the statement does.
LEMMA FinishIsReplay ==
  ASSUME LoggedOnly, IInv, NEW r, r \in WalRecord,
         \/ /\ FinishCreateNode /\ r.type = "node" /\ r.id \in DOMAIN catalog
            /\ catalog[r.id] = stmt.table /\ stmt.table \in NodeTables /\ r.key = stmt.key
         \/ FinishMatchCreate /\ r.type = "rel"
  PROVE  nodes' = ReplayNodes(catalog, nodes, r)
<1>1. CASE FinishMatchCreate /\ r.type = "rel"
  BY <1>1 DEF FinishMatchCreate, ReplayNodes
<1>2. CASE /\ FinishCreateNode /\ r.type = "node" /\ r.id \in DOMAIN catalog
           /\ catalog[r.id] = stmt.table /\ stmt.table \in NodeTables /\ r.key = stmt.key
  <2>1. stmt.shape = "complete"
    <3>1. stmt \in Stmt /\ stmt.kind = "node"
      BY <1>2 DEF IInv, TypeOK, MemTypeOK, FinishCreateNode
    <3>2. stmt \in [kind : {"node"}, table : NodeTables, key : Keys, shape : RowShapes]
      BY <3>1 DEF Stmt, NoStmt
    <3>. QED  BY <3>2 DEF LoggedOnly, StatementsLogged
  <2>2. nodes \in NodeData
    BY DEF IInv, TypeOK, MemTypeOK, NodeData
  <2>3. PICK t \in NodeTables, k \in Keys : t = stmt.table /\ k = stmt.key
    <3>1. r.key \in Keys
      BY <1>2 DEF WalRecord
    <3>. QED  BY <1>2, <3>1
  <2>4. ReplayNodes(catalog, nodes, r) = [nodes EXCEPT ![t] = InsertIfFresh(nodes[t], k)]
    BY <1>2, <2>3 DEF ReplayNodes
  <2>5. CASE Fresh(nodes[t], k)
    BY <1>2, <2>1, <2>3, <2>4, <2>5 DEF FinishCreateNode, Accepts, InsertIfFresh
  <2>6. CASE ~Fresh(nodes[t], k)
    <3>1. nodes' = nodes
      BY <1>2, <2>3, <2>6 DEF FinishCreateNode, Accepts
    <3>2. ReplayNodes(catalog, nodes, r) = [nodes EXCEPT ![t] = nodes[t]]
      BY <2>4, <2>6 DEF InsertIfFresh
    <3>. QED  BY <2>2, <3>1, <3>2 DEF NodeData
  <2>. QED  BY <2>5, <2>6
<1>. QED  BY <1>1, <1>2

\* CREATE and MATCH..CREATE return.
LEMMA FinishSound ==
  ASSUME LoggedOnly, IInv, RecoverySound, FinishCreateNode \/ FinishMatchCreate
  PROVE  RecoverySound'
<1> USE DEF diskVars
<1>1. /\ pc = "log" /\ pc' = "idle" /\ walBuf' = <<>> /\ walFile' = walFile \o walBuf
      /\ UNCHANGED <<catalog, rels, dExists, dNodes, dRels, dCatalog>>
      /\ FinishCreateNode => stmt.kind = "node" /\ edges' = edges
      /\ FinishMatchCreate => stmt.kind = "rel" /\ edges' = edges \cup {stmt.edge}
  BY DEF FinishCreateNode, FinishMatchCreate
<1>2. PICK w : w = walFile'
  OBVIOUS
<1>3. PICK r \in WalRecord :
        /\ Grows(walFile, w) /\ RecordsKnown(catalog, w)
        /\ \A i \in DOMAIN w : w[i] = r \/ w[i].type # "node" \/ i \in DOMAIN walFile
        /\ r \in Rows(w)
        /\ \E g : /\ Replays(catalog, dNodes, w, g)
                  /\ g[Len(w)] = ReplayNodes(catalog, nodes, r)
        /\ \/ /\ stmt.kind = "node" /\ r.type = "node" /\ stmt.table \in NodeTables
              /\ r.id \in DOMAIN catalog /\ catalog[r.id] = stmt.table /\ r.key = stmt.key
           \/ /\ stmt.kind = "rel" /\ r.type = "rel" /\ stmt.edge \in EdgeInfo
              /\ Links(catalog, r, stmt.edge) /\ stmt.edge.rel \in Rows(catalog)
              /\ Pair(stmt.edge) \in Rows(rels[stmt.edge.rel]) /\ Joined(nodes, stmt.edge)
  BY <1>1, <1>2, BufferLogged
<1>4. nodes' = ReplayNodes(catalog, nodes, r)
  BY <1>1, <1>3, FinishIsReplay
<1> HIDE DEF diskVars
<1>5. Settled /\ Settled' /\ Cat = catalog /\ Cat' = catalog /\ dExists /\ nodes \in NodeData
  BY <1>1 DEF Settled, Cat, Up, RecoverySound, NewDatabase, IInv, TypeOK, MemTypeOK,
     NodeData
<1>6. /\ \A t \in NodeTables :
           Grows(nodes[t], nodes'[t]) /\ Rows(nodes[t]) \subseteq Rows(nodes'[t])
      /\ Applied(catalog, nodes', r)
  <2>1. \A t \in NodeTables : Grows(nodes[t], nodes'[t])
    BY <1>4, <1>5, ReplayExtends
  <2>2. Applied(catalog, nodes', r)
    BY <1>3, <1>4, <1>5, ReplayAdds DEF Applied, NodeData
  <2>. QED  BY <2>1, <2>2, GrowsRows
<1>7. NewDatabase' /\ BufferInv'
  BY <1>1, <1>5 DEF NewDatabase, BufferInv
<1>8. TablesInv'
  <2>1. \A t \in NodeTables \ Rows(catalog) : nodes'[t] = nodes[t]
    <3>1. r.type = "node" => catalog[r.id] \in Rows(catalog)
      BY <1>3 DEF Rows
    <3>. QED  BY <1>4, <1>5, <3>1 DEF ReplayNodes, NodeData
  <2>2. ~dirty' => ~dirty
    BY DEF FinishCreateNode, FinishMatchCreate
  <2>. QED  BY <1>1, <1>5, <2>1, <2>2 DEF RecoverySound, TablesInv, UnknownEmpty
<1>9. RecordsInv'
  <2>1. ASSUME NEW i \in DOMAIN w PROVE Applied(catalog, nodes', w[i])
    <3>1. CASE i \in DOMAIN walFile /\ w[i].type = "node"
      <4>1. w[i] = walFile[i] /\ Applied(catalog, nodes, w[i]) /\ RecordKnown(catalog, w, i)
        BY <1>3, <1>5, <3>1 DEF RecoverySound, RecordsInv, Grows, RecordsKnown
      <4>. QED  BY <1>6, <4>1 DEF Applied, RecordKnown
    <3>2. CASE w[i] = r \/ w[i].type # "node"
      BY <1>6, <3>2 DEF Applied
    <3>. QED  BY <1>3, <3>1, <3>2
  <2>. QED  BY <1>1, <1>2, <1>3, <1>5, <2>1 DEF RecordsInv
<1>10. RowsInv'
  <2>1. PICK g : Replays(catalog, dNodes, w, g) /\ g[Len(w)] = nodes'
    BY <1>3, <1>4
  <2>2. \A e \in edges : Joined(nodes, e) /\ e \in EdgeInfo
    BY <1>5 DEF RecoverySound, RowsInv, RowsAre, IInv, TypeOK, HistTypeOK
  <2>3. \A e \in edges' : Joined(nodes, e) /\ e \in EdgeInfo
    BY <1>1, <1>3, <2>2
  <2>4. \A e \in edges' : Joined(nodes', e)
    BY <1>6, <2>3, JoinedGrows
  <2>5. RowsAre(g)'
    BY <1>1, <1>2, <1>5, <2>1, <2>4 DEF RowsAre
  <2>. QED  BY <2>5 DEF RowsInv
<1>11. PairsInv'
  <2>1. ASSUME NEW e \in edges
        PROVE  /\ e.rel \in Rows(catalog) /\ Pair(e) \in Rows(rels[e.rel])
               /\ \/ Pair(e) \in Rows(dRels[e.rel])
                  \/ \E i \in DOMAIN w : Links(catalog, w[i], e)
    BY <1>3, <1>5 DEF RecoverySound, PairsInv, Grows
  <2>2. ASSUME stmt.kind = "rel" PROVE \E i \in DOMAIN w : Links(catalog, w[i], stmt.edge)
    BY <1>3, <2>2 DEF Rows
  <2>3. ASSUME NEW e \in edges'
        PROVE  /\ e.rel \in Rows(catalog) /\ Pair(e) \in Rows(rels[e.rel])
               /\ \/ Pair(e) \in Rows(dRels[e.rel])
                  \/ \E i \in DOMAIN w : Links(catalog, w[i], e)
    BY <1>1, <1>3, <2>1, <2>2
  <2>. QED  BY <1>1, <1>2, <1>5, <2>3 DEF PairsInv
<1>. QED  BY <1>7, <1>8, <1>9, <1>10, <1>11 DEF RecoverySound

\* A crash: the log gets all the buffered records or none.
LEMMA CrashSound ==
  ASSUME LoggedOnly, IInv, RecoverySound, Crash, ~ddlLost'
  PROVE  RecoverySound'
<1>1. /\ Up /\ LoseMemory /\ UNCHANGED diskVars /\ edges' = edges /\ dCatalog = catalog
  BY DEF Crash, Up
<1>2. PICK n \in {0, Len(walBuf)} : walFile' = walFile \o SubSeq(walBuf, 1, n)
  BY DEF Crash, LoggedOnly, StatementsLogged, Written
<1>3. walBuf \in Seq(WalRecord) /\ walFile \in Seq(WalRecord)
  BY DEF IInv, TypeOK, LogTypeOK
<1>4. CASE pc # "log" \/ n = 0
  <2>1. walFile' = walFile
    BY <1>2, <1>3, <1>4 DEF RecoverySound, BufferInv
  <2>. QED  BY <1>1, <2>1, LostSound
<1>5. CASE pc = "log" /\ n = Len(walBuf)
  <2>1. walFile' = walFile \o walBuf
    BY <1>2, <1>3, <1>5
  <2>2. PICK w : w = walFile'
    OBVIOUS
  <2>3. PICK r \in WalRecord :
          /\ Grows(walFile, w) /\ RecordsKnown(catalog, w)
          /\ \E g : /\ Replays(catalog, dNodes, w, g)
                    /\ g[Len(w)] = ReplayNodes(catalog, nodes, r)
    BY <1>5, <2>1, <2>2, BufferLogged
  <2>4. Settled /\ Cat = catalog /\ dExists /\ nodes \in NodeData
    BY <1>5 DEF Settled, Cat, Up, RecoverySound, NewDatabase, IInv, TypeOK, MemTypeOK,
       NodeData
  <2>5. PICK g : Replays(catalog, dNodes, w, g) /\ g[Len(w)] = ReplayNodes(catalog, nodes, r)
    BY <2>3
  <2>6. \A e \in edges : Joined(g[Len(w)], e)
    <3>1. \A e \in edges : Joined(nodes, e) /\ e \in EdgeInfo
      BY <2>4 DEF RecoverySound, RowsInv, RowsAre, IInv, TypeOK, HistTypeOK
    <3>2. \A t \in NodeTables : Grows(nodes[t], g[Len(w)][t])
      BY <2>4, <2>5, ReplayExtends
    <3>. QED  BY <3>1, <3>2, JoinedGrows
  <2>7. \A e \in edges :
          /\ e.rel \in Rows(catalog)
          /\ \/ Pair(e) \in Rows(dRels[e.rel])
             \/ \E i \in DOMAIN w : Links(catalog, w[i], e)
    BY <2>3, <2>4 DEF RecoverySound, PairsInv, Grows
  <2>8. UnknownEmpty(catalog, dNodes)
    BY <2>4 DEF RecoverySound, TablesInv
  <2>9. /\ dExists' = dExists /\ dCatalog' = dCatalog /\ dNodes' = dNodes /\ dRels' = dRels
    BY <1>1 DEF diskVars
  <2>. QED
    BY <1>1, <2>2, <2>3, <2>4, <2>5, <2>6, <2>7, <2>8, <2>9, DownSound
<1>. QED  BY <1>4, <1>5

-----------------------------------------------------------------------------
(* Opening.                                                                *)

\* A new database.
LEMMA OpenNewSound ==
  ASSUME IInv, RecoverySound, OpenNew
  PROVE  RecoverySound'
<1>1. /\ pc = "down" /\ pc' = "idle" /\ ~dExists /\ dExists' /\ dirty'
      /\ UNCHANGED <<catalog, nodes, rels, walBuf, walFile, dNodes, dRels, dCatalog, edges>>
  BY DEF OpenNew, histVars
<1>2. catalog = <<>> /\ dCatalog = <<>> /\ walFile = <<>> /\ Cat = <<>> /\ Cat' = <<>>
  BY <1>1 DEF RecoverySound, NewDatabase, Cat, Up
<1>3. Rows(<<>>) = {}
  BY DEF Rows
<1>4. edges = {}
  BY <1>2, <1>3 DEF RecoverySound, PairsInv
<1>5. /\ nodes \in NodeData /\ dNodes \in NodeData
      /\ \A t \in NodeTables : nodes[t] = <<>> /\ dNodes[t] = <<>>
  BY <1>2, <1>3 DEF RecoverySound, TablesInv, UnknownEmpty, IInv, TypeOK, MemTypeOK,
     DiskTypeOK, NodeData
<1>6. nodes = dNodes
  BY <1>5 DEF NodeData
<1>7. NewDatabase' /\ BufferInv' /\ PairsInv'
  BY <1>1, <1>4 DEF NewDatabase, BufferInv, RecoverySound, PairsInv
<1>8. TablesInv' /\ RecordsInv'
  BY <1>1, <1>2, <1>5 DEF TablesInv, UnknownEmpty, RecordsInv, RecordsKnown
<1>9. RowsInv'
  <2>1. PICK n : n = dNodes
    OBVIOUS
  <2> DEFINE g == [i \in 0..0 |-> n]
  <2>2. Replays(<<>>, n, <<>>, g)
    BY <1>5, <2>1, ReplaysNothing
  <2>3. g[0] = n
    OBVIOUS
  <2> HIDE DEF g
  <2>4. RowsAre(g)'
    BY <1>1, <1>2, <1>4, <1>6, <2>1, <2>2, <2>3 DEF RowsAre
  <2>. QED  BY <2>4 DEF RowsInv
<1>. QED  BY <1>7, <1>8, <1>9 DEF RecoverySound

\* An open that fails changes nothing.
LEMMA OpenFailsSound ==
  ASSUME IInv, RecoverySound, OpenFails
  PROVE  RecoverySound'
<1>1. /\ pc = "down" /\ pc' = "failed" /\ dExists /\ dExists'
      /\ UNCHANGED <<catalog, nodes, rels, walBuf, walFile, dNodes, dRels, dCatalog, edges>>
  BY DEF OpenFails, memVars, diskVars, histVars
<1>2. ~Settled /\ ~Settled' /\ Cat = dCatalog /\ Cat' = dCatalog
  BY <1>1 DEF Settled, Cat, Up
<1>3. NewDatabase' /\ BufferInv' /\ TablesInv' /\ RecordsInv' /\ PairsInv'
  BY <1>1, <1>2 DEF RecoverySound, NewDatabase, BufferInv, TablesInv, RecordsInv, PairsInv
<1>4. RowsInv'
  <2>1. PICK h : RowsAre(h)
    BY DEF RecoverySound, RowsInv
  <2>2. RowsAre(h)'
    BY <1>1, <1>2, <2>1 DEF RowsAre
  <2>. QED  BY <2>2 DEF RowsInv
<1>. QED  BY <1>3, <1>4 DEF RecoverySound

\* The sections are read: the replay is at the beginning of its way.
LEMMA LoadSound ==
  ASSUME LoggedOnly, IInv, RecoverySound, LoadDatabase
  PROVE  RecoverySound'
<1>1. /\ pc = "down" /\ pc' = "replay" /\ dExists /\ dExists' /\ replayPos' = 1
      /\ catalog' = dCatalog /\ nodes' = LoadedNodes /\ rels' = LoadedRels
      /\ edges' \subseteq edges
      /\ UNCHANGED <<walBuf, walFile, dNodes, dRels, dCatalog>>
  BY DEF LoadDatabase, diskVars
<1>2. ~Settled' /\ Cat = dCatalog /\ Cat' = dCatalog
  BY <1>1 DEF Settled, Cat, Up
<1>3. walFile \in Seq(WalRecord) /\ dNodes \in NodeData
      /\ dRels \in [RelTables -> Seq(Edge)] /\ edges \subseteq EdgeInfo
  BY DEF IInv, TypeOK, LogTypeOK, DiskTypeOK, HistTypeOK, NodeData
<1>4. nodes' = dNodes
  <2>1. "nodes" \notin dTorn
    BY DEF LoggedOnly, IInv, DurabilityInv
  <2>2. \A t \in NodeTables : t \notin Rows(dCatalog) => dNodes[t] = <<>>
    BY <1>2 DEF RecoverySound, TablesInv, UnknownEmpty
  <2>. QED  BY <1>1, <1>3, <2>1, <2>2 DEF LoadedNodes, NodeData
<1>5. NewDatabase' /\ BufferInv'
  BY <1>1 DEF NewDatabase, BufferInv, RecoverySound
<1>6. TablesInv'
  BY <1>1, <1>2, <1>4 DEF RecoverySound, TablesInv
<1>7. RecordsInv'
  BY <1>1, <1>2, <1>3 DEF RecoverySound, RecordsInv
<1>8. PairsInv'
  <2>1. ASSUME NEW e \in edges'
        PROVE  /\ e.rel \in Rows(dCatalog)
               /\ \/ Pair(e) \in Rows(dRels[e.rel])
                  \/ \E i \in DOMAIN walFile : Links(dCatalog, walFile[i], e)
               /\ rels'[e.rel] = dRels[e.rel]
    <3>1. e \in edges /\ e.rel \in RelTables
      BY <1>1, <1>3 DEF EdgeInfo
    <3>. QED  BY <1>1, <1>2, <3>1 DEF RecoverySound, PairsInv, LoadedRels
  <2>2. \A i \in DOMAIN walFile : i >= 1
    BY <1>3
  <2>. QED  BY <1>1, <1>2, <2>1, <2>2 DEF PairsInv
<1>9. RowsInv'
  <2>1. PICK h : RowsAre(h)
    BY DEF RecoverySound, RowsInv
  <2>2. Replays(dCatalog, dNodes, walFile, h) /\ h[0] = dNodes
    BY <1>2, <2>1 DEF RowsAre, Replays
  <2>3. replayPos' - 1 = 0
    BY <1>1
  <2>4. RowsAre(h)'
    BY <1>1, <1>2, <1>4, <2>1, <2>2, <2>3 DEF RowsAre
  <2>. QED  BY <2>4 DEF RowsInv
<1>. QED  BY <1>5, <1>6, <1>7, <1>8, <1>9 DEF RecoverySound

\* One record is replayed.
LEMMA ReplaySound ==
  ASSUME IInv, RecoverySound, ReplayRecord
  PROVE  RecoverySound'
<1> DEFINE r == walFile[replayPos]
<1>1. /\ pc = "replay" /\ pc' = "replay" /\ replayPos' = replayPos + 1
      /\ replayPos \in DOMAIN walFile
      /\ UNCHANGED <<catalog, walBuf, walFile, dExists, dNodes, dRels, dCatalog, edges>>
      /\ r.tx \in CommittedTxs(walFile) =>
           nodes' = ReplayNodes(catalog, nodes, r) /\ rels' = ReplayRels(catalog, rels, r)
      /\ r.tx \notin CommittedTxs(walFile) => nodes' = nodes /\ rels' = rels
  BY DEF ReplayRecord, diskVars, histVars
<1>2. ~Settled' /\ Cat = catalog /\ Cat' = catalog /\ dExists
  BY <1>1 DEF Settled, Cat, Up, RecoverySound, NewDatabase
<1>3. /\ walFile \in Seq(WalRecord) /\ nodes \in NodeData /\ replayPos \in 1..Len(walFile)
      /\ rels \in [RelTables -> Seq(Edge)] /\ edges \subseteq EdgeInfo /\ r \in WalRecord
      /\ Len(walFile) \in Nat
  BY <1>1 DEF IInv, TypeOK, LogTypeOK, MemTypeOK, HistTypeOK, NodeData
<1>4. RecordsKnown(catalog, walFile) /\ RecordKnown(catalog, walFile, replayPos)
  BY <1>1, <1>2 DEF RecoverySound, RecordsInv, RecordsKnown
<1>5. nodes' = ReplayNodes(catalog, nodes, r)
  BY <1>1, <1>4 DEF RecordKnown, ReplayNodes
<1>6. rels' = ReplayRels(catalog, rels, r)
  BY <1>1, <1>4 DEF RecordKnown, ReplayRels
<1> HIDE DEF r
<1>7. /\ \A t \in NodeTables : Rows(nodes[t]) \subseteq Rows(nodes'[t])
      /\ Applied(catalog, nodes', r)
  <2>1. \A t \in NodeTables : Rows(nodes[t]) \subseteq Rows(nodes'[t])
    BY <1>3, <1>5, ReplayAdds DEF NodeData
  <2>2. r.type = "node" => r.id \in DOMAIN catalog /\ catalog[r.id] \in NodeTables
    BY <1>4 DEF RecordKnown, r
  <2>3. Applied(catalog, nodes', r)
    BY <1>3, <1>5, <2>2, ReplayAdds DEF Applied, NodeData
  <2>. QED  BY <2>1, <2>3
<1>8. \A q \in RelTables :
        /\ Rows(rels[q]) \subseteq Rows(rels'[q])
        /\ r.type = "rel" /\ r.id \in DOMAIN catalog /\ catalog[r.id] = q
             => <<r.src, r.dst>> \in Rows(rels'[q])
  <2> SUFFICES ASSUME NEW q \in RelTables
               PROVE  /\ Rows(rels[q]) \subseteq Rows(rels'[q])
                      /\ r.type = "rel" /\ r.id \in DOMAIN catalog /\ catalog[r.id] = q
                           => <<r.src, r.dst>> \in Rows(rels'[q])
    OBVIOUS
  <2>1. CASE r.type = "rel" /\ r.id \in DOMAIN catalog /\ catalog[r.id] = q
    <3>1. <<r.src, r.dst>> \in Edge /\ rels[q] \in Seq(Edge)
      BY <1>3, <2>1 DEF WalRecord, Edge
    <3>2. rels'[q] = Append(rels[q], <<r.src, r.dst>>)
      BY <1>3, <1>6, <2>1 DEF ReplayRels
    <3>3. Rows(Append(rels[q], <<r.src, r.dst>>)) = Rows(rels[q]) \cup {<<r.src, r.dst>>}
      BY <3>1, AppendRows
    <3>. QED  BY <3>2, <3>3
  <2>2. CASE ~(r.type = "rel" /\ r.id \in DOMAIN catalog /\ catalog[r.id] = q)
    BY <1>3, <1>6, <2>2 DEF ReplayRels
  <2>. QED  BY <2>1, <2>2
<1>9. NewDatabase' /\ BufferInv'
  BY <1>1, <1>2 DEF NewDatabase, BufferInv, RecoverySound
<1>10. TablesInv'
  <2>1. \A t \in NodeTables \ Rows(catalog) : nodes'[t] = nodes[t]
    <3>1. r.type = "node" => catalog[r.id] \in Rows(catalog)
      BY <1>4 DEF Rows, RecordKnown, r
    <3>. QED  BY <1>3, <1>5, <3>1 DEF ReplayNodes, NodeData
  <2>. QED  BY <1>1, <1>2, <2>1 DEF RecoverySound, TablesInv, UnknownEmpty
<1>11. RecordsInv'
  <2>1. ASSUME NEW i \in 1..replayPos PROVE Applied(catalog, nodes', walFile[i])
    <3>1. CASE i = replayPos
      BY <1>7, <3>1 DEF r
    <3>2. CASE i \in 1..replayPos - 1
      <4>1. Applied(catalog, nodes, walFile[i]) /\ RecordKnown(catalog, walFile, i)
        BY <1>1, <1>2, <1>3, <3>2 DEF RecoverySound, RecordsInv, RecordsKnown
      <4>. QED  BY <1>7, <4>1 DEF Applied, RecordKnown
    <3>. QED  BY <1>3, <3>1, <3>2
  <2>2. replayPos' \in 1..Len(walFile) + 1 /\ replayPos' - 1 = replayPos
    BY <1>1, <1>3
  <2>. QED  BY <1>1, <1>2, <1>4, <2>1, <2>2 DEF RecordsInv
<1>12. PairsInv'
  <2>1. ASSUME NEW e \in edges
        PROVE  \/ Pair(e) \in Rows(rels'[e.rel])
               \/ \E i \in DOMAIN walFile :
                    i >= replayPos + 1 /\ Links(catalog, walFile[i], e)
    <3>1. e.rel \in RelTables
      BY <1>3 DEF EdgeInfo
    <3>2. CASE Pair(e) \in Rows(rels[e.rel])
      BY <1>8, <3>1, <3>2
    <3>3. ASSUME NEW i \in DOMAIN walFile, i >= replayPos, Links(catalog, walFile[i], e)
          PROVE  i >= replayPos + 1 \/ Pair(e) \in Rows(rels'[e.rel])
      <4>1. CASE i = replayPos
        BY <1>8, <3>1, <3>3, <4>1 DEF Links, Pair, r
      <4>2. CASE i # replayPos
        <5>1. i \in Nat
          BY <1>3
        <5>. QED  BY <1>3, <3>3, <4>2, <5>1
      <4>. QED  BY <4>1, <4>2
    <3>4. \/ Pair(e) \in Rows(rels[e.rel])
          \/ \E i \in DOMAIN walFile : i >= replayPos /\ Links(catalog, walFile[i], e)
      BY <1>1, <1>2 DEF RecoverySound, PairsInv
    <3>. QED  BY <3>2, <3>3, <3>4
  <2>2. \A e \in edges :
          /\ e.rel \in Rows(catalog)
          /\ \/ Pair(e) \in Rows(dRels[e.rel])
             \/ \E i \in DOMAIN walFile : Links(catalog, walFile[i], e)
    BY <1>2 DEF RecoverySound, PairsInv
  <2>. QED  BY <1>1, <1>2, <2>1, <2>2 DEF PairsInv
<1>13. RowsInv'
  <2>1. PICK h : RowsAre(h)
    BY DEF RecoverySound, RowsInv
  <2>2. /\ Replays(catalog, dNodes, walFile, h) /\ nodes = h[replayPos - 1]
        /\ \A e \in edges : Joined(h[Len(walFile)], e)
    BY <1>1, <1>2, <2>1 DEF RowsAre
  <2>3. nodes' = h[replayPos]
    BY <1>3, <1>5, <2>2 DEF Replays, r
  <2>4. replayPos' - 1 = replayPos
    BY <1>1, <1>3
  <2>5. RowsAre(h)'
    BY <1>1, <1>2, <2>2, <2>3, <2>4 DEF RowsAre
  <2>. QED  BY <2>5 DEF RowsInv
<1>. QED  BY <1>9, <1>10, <1>11, <1>12, <1>13 DEF RecoverySound

\* The replay has come to the end of its way.
LEMMA FinishOpenSound ==
  ASSUME IInv, RecoverySound, FinishOpen
  PROVE  RecoverySound'
<1>1. /\ pc = "replay" /\ pc' = "idle" /\ replayPos \notin DOMAIN walFile
      /\ UNCHANGED <<catalog, nodes, rels, walBuf, walFile, dExists, dNodes, dRels,
                     dCatalog, edges>>
  BY DEF FinishOpen, diskVars, histVars
<1>2. Settled' /\ Cat = catalog /\ Cat' = catalog /\ dExists
  BY <1>1 DEF Settled, Cat, Up, RecoverySound, NewDatabase
<1>3. walFile \in Seq(WalRecord) /\ Len(walFile) \in Nat /\ replayPos = Len(walFile) + 1
  BY <1>1 DEF IInv, TypeOK, LogTypeOK, RecoverySound, RecordsInv
<1>4. NewDatabase' /\ BufferInv' /\ TablesInv'
  BY <1>1, <1>2 DEF NewDatabase, BufferInv, RecoverySound, TablesInv
<1>5. RecordsInv'
  BY <1>1, <1>2, <1>3 DEF RecoverySound, RecordsInv
<1>6. PairsInv'
  <2>1. \A i \in DOMAIN walFile : ~(i >= replayPos)
    BY <1>3
  <2>. QED  BY <1>1, <1>2, <2>1 DEF RecoverySound, PairsInv
<1>7. RowsInv'
  <2>1. PICK h : RowsAre(h)
    BY DEF RecoverySound, RowsInv
  <2>2. replayPos - 1 = Len(walFile)
    BY <1>3
  <2>3. RowsAre(h)'
    BY <1>1, <1>2, <2>1, <2>2 DEF RowsAre
  <2>. QED  BY <2>3 DEF RowsInv
<1>. QED  BY <1>4, <1>5, <1>6, <1>7 DEF RecoverySound

\* An empty database, and no log.
LEMMA InitRecovery == Init => RecoveryInv
<1> SUFFICES ASSUME Init PROVE RecoverySound
  BY DEF RecoveryInv
<1>1. /\ pc = "down" /\ catalog = <<>> /\ dCatalog = <<>> /\ walFile = <<>>
      /\ walBuf = <<>> /\ nodes = EmptyNodes /\ dNodes = EmptyNodes /\ edges = {}
  BY DEF Init
<1>2. NewDatabase /\ BufferInv /\ PairsInv
  BY <1>1 DEF NewDatabase, BufferInv, PairsInv
<1>3. TablesInv
  BY <1>1 DEF TablesInv, UnknownEmpty, EmptyNodes
<1>4. RecordsInv
  BY <1>1 DEF RecordsInv, RecordsKnown, Settled
<1>5. RowsInv
  <2>1. PICK w : w = walFile
    OBVIOUS
  <2>2. w \in Seq(WalRecord) /\ Len(w) = 0 /\ DOMAIN w = {}
    BY <1>1, <2>1
  <2>3. dNodes \in NodeData
    BY <1>1 DEF EmptyNodes, NodeData
  <2>4. Replays(Cat, dNodes, w, [i \in 0..Len(w) |-> dNodes])
    BY <2>2, <2>3, ReplaysQuiet
  <2>5. RowsAre([i \in 0..Len(w) |-> dNodes])
    BY <1>1, <2>1, <2>4 DEF RowsAre, Settled
  <2>. QED  BY <2>5 DEF RowsInv
<1>. QED  BY <1>2, <1>3, <1>4, <1>5 DEF RecoverySound

\* Every step preserves the invariant, as long as no CREATE TABLE was lost.
LEMMA NextSound ==
  ASSUME LoggedOnly, IInv, RecoverySound, [Next]_vars, ~ddlLost'
  PROVE  RecoverySound'
<1>1. CASE UNCHANGED vars
  BY <1>1 DEF vars, RecoverySound, NewDatabase, TablesInv, RecordsInv, BufferInv, PairsInv,
     RowsInv, RowsAre, Cat, Up, Settled
<1>2. CASE OpenNew \/ OpenFails \/ LoadDatabase
  BY <1>2, OpenNewSound, OpenFailsSound, LoadSound
<1>3. CASE ReplayRecord \/ FinishOpen
  BY <1>3, ReplaySound, FinishOpenSound
<1>4. CASE Statement
  BY <1>4, TableSound, CreateSound, MatchSound DEF Statement
<1>5. CASE FinishCreateNode \/ FinishMatchCreate
  BY <1>5, FinishSound
<1>6. CASE Import \/ ImportNodesStep \/ ImportRelsStep
  BY <1>6, NoImport DEF LoggedOnly, IInv, RecoverySound, TablesInv, ImportNodesStep,
     ImportRelsStep
<1>7. CASE Checkpoint \/ LogCheckpoint
  BY <1>7, CalmSound, LogCheckpointSound DEF Checkpoint
<1>8. CASE \E s \in Sections : TearSection(s) \/ FlushPage(s)
  BY <1>8, CalmSound, NodesSound, RelsSound
<1>9. CASE Close
  <2>1. CASE dirty /\ BeginCheckpoint(TRUE)
    BY <2>1, CalmSound
  <2>2. CASE LoseMemory
    BY <1>9, <2>2, CloseSound DEF LoseMemory
  <2>. QED  BY <1>9, <2>1, <2>2 DEF Close
<1>10. CASE TruncateWal
  BY <1>10, TruncateSound
<1>11. CASE Crash
  BY <1>11, CrashSound
<1>. QED
  BY <1>1, <1>2, <1>3, <1>4, <1>5, <1>6, <1>7, <1>8, <1>9, <1>10, <1>11 DEF Next, Running

\* A table once lost stays lost: only a crash sets ddlLost, and nothing
\* clears it.
LEMMA LostForGood == ASSUME TypeOK, [Next]_vars, ~ddlLost' PROVE ~ddlLost
<1>1. \/ UNCHANGED ddlLost
      \/ Crash
  <2>1. CASE Statement
    BY <2>1 DEF Statement, ExecuteCreateNodeTable, ExecuteCreateRelTable, ExecuteCreateNode,
       ExecuteMatchCreate, histVars
  <2>2. CASE Import
    BY <2>2 DEF Import, ImportNodes, ImportRelationships, StartImport
  <2>3. CASE Running
    BY <2>3 DEF Running, ReplayRecord, FinishOpen, FinishCreateNode, FinishMatchCreate,
       ImportNodesStep, ImportRelsStep, TearSection, FlushPage, LogCheckpoint, TruncateWal,
       histVars
  <2>4. CASE OpenNew \/ OpenFails \/ LoadDatabase \/ Checkpoint \/ Close
    BY <2>4 DEF OpenNew, OpenFails, LoadDatabase, Checkpoint, Close, BeginCheckpoint,
       histVars
  <2>. QED  BY <2>1, <2>2, <2>3, <2>4 DEF Next, vars
<1>2. CASE Crash
  BY <1>2 DEF Crash, TypeOK, HistTypeOK
<1>. QED  BY <1>1, <1>2

\* The recovery invariant holds in every state: the data file and the log
\* name only tables the catalog has, the rows in memory are what replaying
\* the log over the data file gives, and that is where the edges point.
THEOREM RecoveryInvariant ==
  ASSUME LoggedOnly
  PROVE  Spec => []RecoveryInv
<1>1. TypeOK /\ DurabilityInv /\ RecoveryInv /\ [Next]_vars => RecoveryInv'
  <2> SUFFICES ASSUME TypeOK, DurabilityInv, RecoveryInv, [Next]_vars, ~ddlLost'
               PROVE  RecoverySound'
    BY DEF RecoveryInv
  <2>. QED  BY LostForGood, NextSound DEF RecoveryInv, IInv
<1>2. Spec => []DurabilityInv
  BY Durability DEF LoggedOnly
<1>. QED
  BY <1>1, <1>2, InitRecovery, TypeCorrect, PTL DEF Spec

\* A relationship whose CREATE returned Ok is there in every later session,
\* and its two offsets still name the nodes it was created between
\* (apply_wal_record, replay_wal, load_rel_table, checkpoint).
THEOREM EdgesSurvive ==
  ASSUME LoggedOnly
  PROVE  Spec => []EdgesRecovered
<1>1. RecoveryInv => EdgesRecovered
  <2> SUFFICES ASSUME RecoverySound, pc = "idle" PROVE EdgesStand
    BY DEF RecoveryInv, EdgesRecovered
  <2>1. Settled
    BY DEF Settled
  <2>2. \A e \in edges : Pair(e) \in Rows(rels[e.rel])
    BY <2>1 DEF RecoverySound, PairsInv
  <2>3. \A e \in edges : Joined(nodes, e)
    BY <2>1 DEF RecoverySound, RowsInv, RowsAre
  <2>. QED  BY <2>2, <2>3 DEF EdgesStand, Pair, Joined
<1>. QED
  BY <1>1, RecoveryInvariant, PTL

-----------------------------------------------------------------------------
(* Induction                                                               *)

\* A set of numbers has a least one.
LEMMA LeastNumber ==
  ASSUME NEW T, T \subseteq Nat, T # {}
  PROVE  \E x \in T : \A y \in T : x <= y
<1> DEFINE R == {ss \in Nat \X Nat : ss[1] < ss[2]}
<1>1. IsWellFoundedOn(R, Nat)
  BY NatLessThanWellFounded DEF OpToRel
<1>2. \A x, y \in Nat : <<y, x>> \in R <=> y < x
  OBVIOUS
<1> HIDE DEF R
<1>3. PICK x \in T : \A y \in T : ~ (<<y, x>> \in R)
  BY <1>1, WFMin
<1>4. \A y \in T : x \in Nat /\ y \in Nat /\ ~(y < x)
  BY <1>2, <1>3
<1>5. \A y \in T : x <= y
  BY <1>4
<1> QED  BY <1>5

\* A set that has 0, and with a number the next one, has all of them.
LEMMA AllNumbers ==
  ASSUME NEW S, 0 \in S, \A n \in Nat : n \in S => n + 1 \in S
  PROVE  Nat \subseteq S
<1> DEFINE T == Nat \ S
<1> SUFFICES ASSUME T # {} PROVE FALSE
  OBVIOUS
<1>1. PICK x \in T : \A y \in T : x <= y
  BY LeastNumber
<1>2. x \in Nat /\ x # 0 /\ x \notin S
  OBVIOUS
<1>3. x - 1 \in Nat /\ x - 1 \notin T
  BY <1>1, <1>2
<1>4. (x - 1) + 1 \in S
  BY <1>3
<1> QED  BY <1>2, <1>4

\* h starts at b and takes the steps one by one; its values are in V.
Way(V, n, b, step, h) ==
  h \in [0..n -> V] /\ h[0] = b /\ \A i \in 1..n : h[i] = step[i][h[i - 1]]

\* There is such a way.
LEMMA WayExists ==
  ASSUME NEW V, NEW n \in Nat, NEW b \in V, NEW step \in [1..n -> [V -> V]]
  PROVE  \E h : Way(V, n, b, step, h)
<1> USE DEF Way
<1> DEFINE S == {k \in Nat : k <= n => \E h : Way(V, k, b, step, h)}
<1>1. 0 \in S
  <2>1. Way(V, 0, b, step, [i \in 0..0 |-> b])
    OBVIOUS
  <2> QED  BY <2>1
<1>2. ASSUME NEW k \in Nat, k \in S PROVE k + 1 \in S
  <2> SUFFICES ASSUME k + 1 <= n PROVE \E h : Way(V, k + 1, b, step, h)
    OBVIOUS
  <2>1. PICK h : Way(V, k, b, step, h)
    BY <1>2
  <2> DEFINE x == step[k + 1][h[k]]
             g == [i \in 0..k + 1 |-> IF i <= k THEN h[i] ELSE x]
  <2>2. k + 1 \in 1..n /\ h[k] \in V
    BY <2>1
  <2>3. x \in V
    BY <2>2
  <2>4. \A i \in 0..k : g[i] = h[i] /\ h[i] \in V
    BY <2>1
  <2>5. g[k + 1] = x
    OBVIOUS
  <2>6. g \in [0..k + 1 -> V] /\ g[0] = b
    BY <2>1, <2>3, <2>4
  <2>7. ASSUME NEW i \in 1..k + 1 PROVE g[i] = step[i][g[i - 1]]
    <3>1. CASE i = k + 1
      <4>1. i - 1 = k /\ g[k] = h[k]
        BY <2>4, <3>1
      <4> QED  BY <2>5, <3>1, <4>1
    <3>2. CASE i # k + 1
      <4>1. i \in 1..k /\ i \in 0..k /\ i - 1 \in 0..k
        BY <3>2
      <4>2. g[i] = h[i] /\ g[i - 1] = h[i - 1]
        BY <2>4, <4>1
      <4> QED  BY <2>1, <4>1, <4>2
    <3> QED  BY <3>1, <3>2
  <2>8. Way(V, k + 1, b, step, g)
    BY <2>6, <2>7
  <2> QED  BY <2>8
<1> HIDE DEF S
<1>3. Nat \subseteq S
  BY <1>1, <1>2, AllNumbers
<1>4. n \in S /\ n <= n
  BY <1>3
<1>5. \E h : Way(V, n, b, step, h)
  BY <1>4 DEF S
<1> QED  BY <1>5

\* g and h start alike and go on alike.
Alike(n, g, h) == g[0] = h[0] /\ \A i \in 1..n : g[i - 1] = h[i - 1] => g[i] = h[i]

\* Two ways that take the same steps are the same.
LEMMA WayUnique ==
  ASSUME NEW n \in Nat, NEW g, NEW h, Alike(n, g, h)
  PROVE  \A i \in 0..n : g[i] = h[i]
<1> DEFINE S == {k \in Nat : k <= n => g[k] = h[k]}
<1>1. 0 \in S
  BY DEF Alike
<1>2. ASSUME NEW k \in Nat, k \in S PROVE k + 1 \in S
  <2> SUFFICES ASSUME k + 1 <= n PROVE g[k + 1] = h[k + 1]
    OBVIOUS
  <2>1. k + 1 \in 1..n /\ (k + 1) - 1 = k /\ g[k] = h[k]
    BY <1>2
  <2> QED  BY <2>1 DEF Alike
<1> HIDE DEF S
<1>3. Nat \subseteq S
  BY <1>1, <1>2, AllNumbers
<1>4. \A i \in 0..n : i \in Nat /\ i <= n /\ i \in S
  BY <1>3
<1> QED  BY <1>4 DEF S

-----------------------------------------------------------------------------
(* What the log makes of the data file                                     *)

\* The tables, nodes and relationships together.
Contents == [nodes : NodeData, rels : [RelTables -> Seq(Edge)]]

\* Replaying a record of a transaction that committed.
Applying(cat, s, r) == [nodes |-> ReplayNodes(cat, s.nodes, r), rels |-> ReplayRels(cat, s.rels, r)]

\* No insertion of w is without its commit.
AllCommitted(w) ==
  \A i \in DOMAIN w : w[i].type \in {"node", "rel"} => w[i].tx \in CommittedTxs(w)

\* One record, in the types.
LEMMA ReplayOne ==
  ASSUME NEW cat \in Seq(Tables), NEW s \in Contents, NEW r \in WalRecord, NEW w
  PROVE  Applying(cat, s, r) \in Contents /\ Replay(cat, s, r, w) \in Contents
<1>1. s.nodes \in [NodeTables -> Seq(Keys)] /\ s.rels \in [RelTables -> Seq(Edge)]
  BY DEF Contents, NodeData
<1>2. ReplayNodes(cat, s.nodes, r) \in NodeData
  BY <1>1, ReplayNodesType DEF NodeData
<1>3. ReplayRels(cat, s.rels, r) \in [RelTables -> Seq(Edge)]
  BY <1>1, ReplayRelsType
<1>4. Applying(cat, s, r) \in Contents
  BY <1>2, <1>3 DEF Applying, Contents
<1>5. Replay(cat, s, r, w) = Applying(cat, s, r) \/ Replay(cat, s, r, w) = s
  BY DEF Replay, Applying
<1> QED  BY <1>4, <1>5

\* Records that insert nothing change nothing.
LEMMA ApplyingNothing ==
  ASSUME NEW cat, NEW s \in Contents, NEW r, r.type \notin {"node", "rel"}
  PROVE  Applying(cat, s, r) = s
BY DEF Applying, Contents, ReplayNodes, ReplayRels

\* When all insertions are committed every record is applied.
LEMMA ReplayCommitted ==
  ASSUME NEW cat, NEW s \in Contents, NEW w, AllCommitted(w), NEW i \in DOMAIN w
  PROVE  Replay(cat, s, w[i], w) = Applying(cat, s, w[i])
<1>1. CASE w[i].tx \in CommittedTxs(w)
  BY <1>1 DEF Replay, Applying
<1>2. CASE w[i].tx \notin CommittedTxs(w)
  BY <1>2, ApplyingNothing DEF Replay, AllCommitted
<1> QED  BY <1>1, <1>2

\* The recursive definition of Replayed has the value it is written for.
LEMMA ReplayedSteps ==
  ASSUME NEW cat \in Seq(Tables), NEW s \in Contents, NEW w \in Seq(WalRecord)
  PROVE  /\ Replayed(cat, s, w) \in [0..Len(w) -> Contents]
         /\ Replayed(cat, s, w)[0] = s
         /\ \A i \in 1..Len(w) : Replayed(cat, s, w)[i] = Replay(cat, Replayed(cat, s, w)[i - 1], w[i], w)
<1> DEFINE n == Len(w)
           step == [i \in 1..n |-> [x \in Contents |-> Replay(cat, x, w[i], w)]]
           Rec(f) == [i \in 0..n |-> IF i = 0 THEN s ELSE Replay(cat, f[i - 1], w[i], w)]
<1>1. n \in Nat /\ \A i \in 1..n : w[i] \in WalRecord
  OBVIOUS
<1>2. step \in [1..n -> [Contents -> Contents]]
  BY <1>1, ReplayOne
<1>3. PICK h \in [0..n -> Contents] : h[0] = s /\ \A i \in 1..n : h[i] = step[i][h[i - 1]]
  <2>1. n \in Nat /\ s \in Contents /\ step \in [1..n -> [Contents -> Contents]]
    BY <1>1, <1>2
  <2> HIDE DEF step, n, Contents
  <2>2. \E h : Way(Contents, n, s, step, h)
    BY <2>1, WayExists
  <2> QED  BY <2>2 DEF Way
<1>4. \A i \in 1..n : h[i] = Replay(cat, h[i - 1], w[i], w)
  <2>1. \A i \in 1..n : i - 1 \in 0..n
    BY <1>1
  <2> QED  BY <1>3, <2>1
<1>5. h = Rec(h)
  <2>1. \A i \in 0..n : i = 0 \/ i \in 1..n
    BY <1>1
  <2> HIDE DEF step, n
  <2> QED  BY <1>3, <1>4, <2>1
<1>6. Replayed(cat, s, w) = CHOOSE f : f = Rec(f)
  BY DEF Replayed
<1> DEFINE R == Replayed(cat, s, w)
<1>7. R = Rec(R)
  <2> HIDE DEF Rec
  <2> QED  BY <1>5, <1>6
<1>8. R[0] = s /\ \A i \in 1..n : R[i] = Replay(cat, R[i - 1], w[i], w)
  <2>1. 0 \in 0..n /\ \A i \in 1..n : i \in 0..n /\ i # 0
    BY <1>1
  <2> HIDE DEF R, n
  <2> QED  BY <1>7, <2>1
<1>9. \A i \in 0..n : R[i] = h[i]
  <2>1. n \in Nat /\ Alike(n, R, h)
    BY <1>1, <1>3, <1>4, <1>8 DEF Alike
  <2> HIDE DEF R, n
  <2> QED  BY <2>1, WayUnique
<1>10. R \in [0..n -> Contents]
  <2>1. R = [i \in 0..n |-> R[i]]
    BY <1>7
  <2> HIDE DEF R, n
  <2> QED  BY <1>3, <1>9, <2>1
<1> QED  BY <1>8, <1>10

\* The log w with one more transaction.
WithEntry(w, tx, r) == w \o <<BeginRec(tx), r, CommitRec(tx)>>

\* A transaction more in the log: only its insertion counts.
LEMMA ReplayedEntry ==
  ASSUME NEW cat \in Seq(Tables), NEW s \in Contents, NEW w \in Seq(WalRecord),
         AllCommitted(w), NEW tx \in Nat, NEW r \in WalRecord, r.tx = tx,
         NEW v, v = WithEntry(w, tx, r)
  PROVE  /\ AllCommitted(v)
         /\ Replayed(cat, s, v)[Len(v)] = Applying(cat, Replayed(cat, s, w)[Len(w)], r)
<1> DEFINE n == Len(w)
           a == BeginRec(tx)
           c == CommitRec(tx)
<1>1. a \in WalRecord /\ c \in WalRecord /\ a.type = "begin" /\ c.type = "commit" /\ c.tx = tx
  BY DEF BeginRec, CommitRec, WalRecord
<1>2. /\ v \in Seq(WalRecord) /\ Len(v) = n + 3 /\ n \in Nat
      /\ \A i \in 1..n : v[i] = w[i]
      /\ v[n + 1] = a /\ v[n + 2] = r /\ v[n + 3] = c
  BY <1>1, EntryParts DEF WithEntry
<1>3. DOMAIN v = 1..n + 3 /\ DOMAIN w = 1..n
  BY <1>2
<1> HIDE DEF n, a, c
<1>4. CommittedTxs(w) \subseteq CommittedTxs(v) /\ tx \in CommittedTxs(v)
  <2>1. \A i \in 1..n : i \in 1..n + 3
    BY <1>2
  <2>2. n + 3 \in 1..n + 3
    BY <1>2
  <2> QED  BY <1>1, <1>2, <1>3, <2>1, <2>2 DEF CommittedTxs
<1>5. AllCommitted(v)
  <2> SUFFICES ASSUME NEW i \in 1..n + 3, v[i].type \in {"node", "rel"}
               PROVE  v[i].tx \in CommittedTxs(v)
    BY <1>3 DEF AllCommitted
  <2>1. CASE i \in 1..n
    BY <1>2, <1>3, <1>4, <2>1 DEF AllCommitted
  <2>2. CASE i = n + 2
    BY <1>2, <1>4, <2>2
  <2>3. i \in 1..n \/ i = n + 1 \/ i = n + 2 \/ i = n + 3
    BY <1>2
  <2>4. i # n + 1 /\ i # n + 3
    BY <1>1, <1>2
  <2> QED  BY <2>1, <2>2, <2>3, <2>4
<1>6. PICK P : /\ P = Replayed(cat, s, w) /\ P \in [0..n -> Contents] /\ P[0] = s
               /\ \A i \in 1..n : P[i] = Replay(cat, P[i - 1], w[i], w)
  BY ReplayedSteps DEF n
<1>7. PICK Q : /\ Q = Replayed(cat, s, v) /\ Q \in [0..n + 3 -> Contents] /\ Q[0] = s
               /\ \A i \in 1..n + 3 : Q[i] = Replay(cat, Q[i - 1], v[i], v)
  <2>1. Len(v) = n + 3 /\ v \in Seq(WalRecord)
    BY <1>2
  <2>2. /\ Replayed(cat, s, v) \in [0..Len(v) -> Contents] /\ Replayed(cat, s, v)[0] = s
        /\ \A i \in 1..Len(v) : Replayed(cat, s, v)[i] = Replay(cat, Replayed(cat, s, v)[i - 1], v[i], v)
    BY <2>1, ReplayedSteps, SMTT(60)
  <2> QED  BY <2>1, <2>2
<1>8. \A i \in 1..n + 3 : Q[i] = Applying(cat, Q[i - 1], v[i]) /\ Q[i - 1] \in Contents
  <2> SUFFICES ASSUME NEW i \in 1..n + 3
               PROVE  Q[i] = Applying(cat, Q[i - 1], v[i]) /\ Q[i - 1] \in Contents
    OBVIOUS
  <2>1. i - 1 \in 0..n + 3 /\ i \in DOMAIN v
    BY <1>2, <1>3
  <2>2. Q[i - 1] \in Contents /\ Q[i] = Replay(cat, Q[i - 1], v[i], v)
    BY <1>7, <2>1
  <2>3. \A x \in Contents : Replay(cat, x, v[i], v) = Applying(cat, x, v[i])
    BY <1>5, <2>1, ReplayCommitted
  <2> QED  BY <2>2, <2>3
<1>9. \A i \in 1..n : P[i] = Applying(cat, P[i - 1], w[i])
  <2> SUFFICES ASSUME NEW i \in 1..n PROVE P[i] = Applying(cat, P[i - 1], w[i])
    OBVIOUS
  <2>1. i - 1 \in 0..n /\ i \in DOMAIN w
    BY <1>2, <1>3
  <2>2. P[i - 1] \in Contents /\ P[i] = Replay(cat, P[i - 1], w[i], w)
    BY <1>6, <2>1
  <2> QED  BY <2>1, <2>2, ReplayCommitted
<1>10. Q[n] = P[n]
  <2>1. n \in Nat /\ Q[0] = P[0] /\ \A i \in 1..n : i \in 1..n + 3
    BY <1>2, <1>6, <1>7
  <2>2. \A i \in 1..n : Q[i - 1] = P[i - 1] => Q[i] = P[i]
    BY <1>2, <1>8, <1>9, <2>1
  <2>3. Alike(n, Q, P)
    BY <2>1, <2>2 DEF Alike
  <2>4. \A i \in 0..n : Q[i] = P[i]
    BY <2>1, <2>3, WayUnique
  <2> QED  BY <1>2, <2>4
<1>11. /\ Q[n + 1] = Applying(cat, Q[n], a) /\ Q[n] \in Contents
       /\ Q[n + 2] = Applying(cat, Q[n + 1], r)
       /\ Q[n + 3] = Applying(cat, Q[n + 2], c) /\ Q[n + 2] \in Contents
  <2>1. n \in Nat
    BY <1>2
  <2>2. /\ n + 1 \in 1..n + 3 /\ n + 2 \in 1..n + 3 /\ n + 3 \in 1..n + 3
        /\ (n + 1) - 1 = n /\ (n + 2) - 1 = n + 1 /\ (n + 3) - 1 = n + 2
    BY <2>1
  <2> QED  BY <1>2, <1>8, <2>2
<1>12. Q[n + 1] = Q[n] /\ Q[n + 3] = Q[n + 2]
  BY <1>1, <1>11, ApplyingNothing
<1>13. Q[n + 3] = Applying(cat, P[n], r)
  BY <1>10, <1>11, <1>12
<1> QED  BY <1>2, <1>5, <1>6, <1>7, <1>13 DEF n

-----------------------------------------------------------------------------
(* Opening again                                                           *)

\* What an open starts from.
Loaded == [nodes |-> LoadedNodes, rels |-> LoadedRels]

\* The tables s are those of the session, as far as the data file knows them.
Shows(s) ==
  \A t \in Rows(dCatalog) : /\ t \in NodeTables => s.nodes[t] = nodes[t]
                            /\ t \in RelTables => s.rels[t] = rels[t]

\* The data file knows a prefix of the catalog, and no table twice.
PrefixInv ==
  /\ ~dExists => pc = "down" /\ dCatalog = <<>>
  /\ Distinct(catalog) /\ Distinct(dCatalog)
  /\ Up => Grows(dCatalog, catalog)

\* No insertion reaches the log without its commit.
LogInv == AllCommitted(walFile) /\ pc # "import" /\ (pc # "log" => walBuf = <<>>)

\* The statement under way has its transaction in the buffer: a node that will
\* be inserted when the log has it, a relationship that is in memory already.
Pending(tx, id, r) ==
  /\ walBuf = <<BeginRec(tx), r, CommitRec(tx)>> /\ r.tx = tx
  /\ \/ /\ stmt.kind = "node" /\ r = NodeRec(tx, id, stmt.key)
        /\ catalog[id] = stmt.table /\ stmt.shape = "complete" /\ Shows(Reopened)
     \/ /\ stmt.kind = "rel" /\ r.type = "rel" /\ Shows(Applying(dCatalog, Reopened, r))

\* The session is where the replay of the log over the data file would end; a
\* recovery under way is where it has got to.
ShowsInv ==
  /\ pc = "replay" =>
       /\ catalog = dCatalog /\ replayPos \in 1..Len(walFile) + 1
       /\ [nodes |-> nodes, rels |-> rels] = Replayed(dCatalog, Loaded, walFile)[replayPos - 1]
  /\ pc = "idle" => Shows(Reopened)
  /\ pc = "log" => \E tx \in Nat, id \in DOMAIN catalog, r \in WalRecord : Pending(tx, id, r)

\* The inductive invariant.
ReopenInv == PrefixInv /\ LogInv /\ ShowsInv

\* The types of what an open starts from and of what it comes to.
LEMMA ReopenedType ==
  ASSUME TypeOK
  PROVE  /\ Loaded \in Contents /\ Reopened \in Contents
         /\ dCatalog \in Seq(Tables) /\ walFile \in Seq(WalRecord) /\ Len(walFile) \in Nat
<1>1. /\ dCatalog \in Seq(Tables) /\ walFile \in Seq(WalRecord) /\ Len(walFile) \in Nat
      /\ dNodes \in [NodeTables -> Seq(Keys)] /\ dRels \in [RelTables -> Seq(Edge)]
  BY DEF TypeOK, LogTypeOK, DiskTypeOK
<1>2. Loaded \in Contents
  <2>1. LoadedNodes \in [NodeTables -> Seq(Keys)]
    BY <1>1 DEF LoadedNodes
  <2>2. LoadedRels \in [RelTables -> Seq(Edge)]
    BY <1>1 DEF LoadedRels
  <2> QED  BY <2>1, <2>2 DEF Loaded, Contents, NodeData
<1>3. Replayed(dCatalog, Loaded, walFile) \in [0..Len(walFile) -> Contents]
  BY <1>1, <1>2, ReplayedSteps
<1>4. Len(walFile) \in 0..Len(walFile)
  BY <1>1
<1> QED  BY <1>1, <1>2, <1>3, <1>4 DEF Reopened, Loaded

\* It depends on the files only.
LEMMA SameReopened ==
  ASSUME UNCHANGED <<diskVars, walFile>>
  PROVE  Reopened' = Reopened /\ Loaded' = Loaded
BY DEF Reopened, Loaded, LoadedNodes, LoadedRels, diskVars

\* The position of a table in the catalog is its position in the data file.
LEMMA IdKnown ==
  ASSUME PrefixInv, Up, NEW id \in DOMAIN catalog, NEW t \in Rows(dCatalog)
  PROVE  /\ catalog[id] = t => id \in DOMAIN dCatalog /\ dCatalog[id] = t
         /\ catalog[id] # t /\ id \in DOMAIN dCatalog => dCatalog[id] # t
<1>1. PICK j \in DOMAIN dCatalog : dCatalog[j] = t
  BY DEF Rows
<1>2. j \in DOMAIN catalog /\ catalog[j] = t
  BY <1>1 DEF PrefixInv, Grows
<1>3. catalog[id] = t => id = j
  BY <1>2 DEF PrefixInv, Distinct
<1> QED  BY <1>1, <1>3 DEF PrefixInv, Grows

\* The log gets the buffer: an open would replay the statement too.
LEMMA BufferCommitted ==
  ASSUME TypeOK, AllCommitted(walFile), NEW tx \in Nat, NEW id, NEW r \in WalRecord,
         Pending(tx, id, r), NEW v, v = walFile \o walBuf
  PROVE  /\ AllCommitted(v)
         /\ Replayed(dCatalog, Loaded, v)[Len(v)] = Applying(dCatalog, Reopened, r)
<1>1. v = WithEntry(walFile, tx, r) /\ r.tx = tx
  BY DEF Pending, WithEntry
<1>2. dCatalog \in Seq(Tables) /\ Loaded \in Contents /\ walFile \in Seq(WalRecord)
  BY ReopenedType
<1>3. /\ AllCommitted(v)
      /\ Replayed(dCatalog, Loaded, v)[Len(v)]
           = Applying(dCatalog, Replayed(dCatalog, Loaded, walFile)[Len(walFile)], r)
  BY <1>1, <1>2, ReplayedEntry
<1> QED  BY <1>3 DEF Reopened, Loaded

\* The catalog grows at its end, and a checkpoint saves all of it.
LEMMA NextPrefix ==
  ASSUME TypeOK, PrefixInv, LogInv, [Next]_vars
  PROVE  PrefixInv'
<1> USE DEF memVars, diskVars, boundVars, histVars, PrefixInv, Up
<1>1. CASE UNCHANGED vars
  BY <1>1 DEF vars
<1>2. CASE LoseMemory /\ UNCHANGED diskVars /\ dExists
  BY <1>2 DEF LoseMemory, Distinct
<1>3. catalog \in Seq(Tables)
  BY DEF TypeOK, MemTypeOK
<1>4. CASE OpenNew \/ OpenFails
  BY <1>4 DEF OpenNew, OpenFails, Grows
<1>5. CASE LoadDatabase
  BY <1>5, GrowsSame DEF LoadDatabase
<1>6. CASE UNCHANGED <<catalog, dCatalog, dExists>> /\ Up /\ dExists
  BY <1>6
<1>7. CASE (\E t \in NodeTables : ExecuteCreateNodeTable(t))
             \/ (\E r \in RelTables : ExecuteCreateRelTable(r))
  <2>1. PICK x \in Tables : x \notin Rows(catalog) /\ catalog' = Append(catalog, x)
    BY <1>7 DEF Tables, ExecuteCreateNodeTable, ExecuteCreateRelTable
  <2>2. pc = "idle" /\ pc' = "idle" /\ UNCHANGED <<dExists, dCatalog>>
    BY <1>7 DEF ExecuteCreateNodeTable, ExecuteCreateRelTable, StartStatement
  <2>3. Distinct(catalog') /\ Grows(catalog, catalog')
    BY <1>3, <2>1, AppendDistinct, GrowsAppend
  <2>4. Grows(dCatalog, catalog')
    BY <2>2, <2>3 DEF Grows
  <2> QED  BY <2>2, <2>3, <2>4
<1>8. ASSUME NEW s \in Sections, FlushPage(s) PROVE PrefixInv'
  <2>1. pc = "flush" /\ pc' = "flush" /\ UNCHANGED <<catalog, dExists>>
        /\ (dCatalog' = dCatalog \/ dCatalog' = catalog)
    BY <1>8 DEF FlushPage
  <2> QED  BY <2>1, GrowsSame
<1>9. CASE Statement
  <2>1. CASE \E id \in DOMAIN catalog, k \in Keys, shape \in RowShapes :
               ExecuteCreateNode(id, k, shape)
    BY <1>6, <2>1 DEF ExecuteCreateNode, StartStatement
  <2>2. CASE \E id \in DOMAIN catalog, sl, dl \in NodeTables :
               \E s \in DOMAIN nodes[sl], d \in DOMAIN nodes[dl] :
                 ExecuteMatchCreate(id, sl, dl, s, d)
    BY <1>6, <2>2 DEF ExecuteMatchCreate, StartStatement
  <2> QED  BY <1>7, <1>9, <2>1, <2>2 DEF Statement
<1>10. CASE Import
  BY <1>6, <1>10 DEF Import, ImportNodes, ImportRelationships, StartImport
<1>11. CASE ReplayRecord \/ FinishOpen \/ FinishCreateNode \/ FinishMatchCreate
  BY <1>6, <1>11 DEF ReplayRecord, FinishOpen, FinishCreateNode, FinishMatchCreate
<1>12. CASE ImportNodesStep \/ ImportRelsStep
  BY <1>12 DEF ImportNodesStep, ImportRelsStep, LogInv
<1>13. CASE LogCheckpoint \/ (\E s \in Sections : TearSection(s)) \/ Checkpoint
              \/ BeginCheckpoint(TRUE)
  BY <1>6, <1>13 DEF LogCheckpoint, TearSection, Checkpoint, BeginCheckpoint
<1>14. CASE TruncateWal \/ Close \/ Crash
  BY <1>2, <1>6, <1>13, <1>14 DEF TruncateWal, Close, Crash
<1> QED
  BY <1>1, <1>4, <1>5, <1>8, <1>9, <1>10, <1>11, <1>12, <1>13, <1>14 DEF Next, Running

\* Only whole transactions reach the log.
LEMMA NextLog ==
  ASSUME StatementsLogged, TypeOK, LogInv, ShowsInv, [Next]_vars
  PROVE  LogInv'
<1> USE DEF memVars, diskVars, boundVars, histVars
<1>1. CASE UNCHANGED vars
  BY <1>1 DEF vars, LogInv
<1>2. CASE pc' # "import" /\ walFile' = walFile /\ (pc' # "log" => walBuf' = <<>>)
  BY <1>2 DEF LogInv
<1>3. ~Import
  BY NoImport
<1>4. CASE OpenNew \/ OpenFails \/ LoadDatabase \/ ReplayRecord \/ FinishOpen
  BY <1>2, <1>4 DEF OpenNew, OpenFails, LoadDatabase, ReplayRecord, FinishOpen, LogInv
<1>5. CASE Statement
  BY <1>2, <1>5 DEF Statement, ExecuteCreateNodeTable, ExecuteCreateRelTable,
     ExecuteCreateNode, ExecuteMatchCreate, StartStatement, LogInv
<1>6. ASSUME pc = "log" PROVE AllCommitted(walFile \o walBuf)
  <2>1. PICK tx \in Nat, id \in DOMAIN catalog, r \in WalRecord : Pending(tx, id, r)
    BY <1>6 DEF ShowsInv
  <2> QED  BY <2>1, BufferCommitted DEF LogInv
<1>7. CASE FinishCreateNode \/ FinishMatchCreate
  <2>1. pc = "log" /\ walFile' = walFile \o walBuf /\ walBuf' = <<>> /\ pc' = "idle"
    BY <1>7 DEF FinishCreateNode, FinishMatchCreate
  <2> QED  BY <1>6, <2>1 DEF LogInv
<1>8. CASE ImportNodesStep \/ ImportRelsStep
  BY <1>8 DEF ImportNodesStep, ImportRelsStep, LogInv
<1>9. CASE Checkpoint \/ BeginCheckpoint(TRUE) \/ \E s \in Sections : TearSection(s) \/ FlushPage(s)
  BY <1>2, <1>9 DEF Checkpoint, BeginCheckpoint, TearSection, FlushPage, LogInv
<1>10. CASE LogCheckpoint
  <2>1. walFile \in Seq(WalRecord) /\ CheckpointRec \in WalRecord /\ CheckpointRec.type = "checkpoint"
    BY DEF TypeOK, LogTypeOK, CheckpointRec, WalRecord
  <2>2. walFile' = Append(walFile, CheckpointRec) /\ pc' = "truncate" /\ walBuf' = <<>>
    BY <1>10 DEF LogCheckpoint, LogInv
  <2>3. /\ Len(Append(walFile, CheckpointRec)) = Len(walFile) + 1 /\ Len(walFile) \in Nat
        /\ \A i \in 1..Len(walFile) : Append(walFile, CheckpointRec)[i] = walFile[i]
        /\ Append(walFile, CheckpointRec)[Len(walFile) + 1] = CheckpointRec
        /\ DOMAIN walFile = 1..Len(walFile)
        /\ DOMAIN Append(walFile, CheckpointRec) = 1..Len(walFile) + 1
    BY <2>1
  <2>4. PICK v : v = Append(walFile, CheckpointRec)
    OBVIOUS
  <2>5. PICK n \in Nat : n = Len(walFile)
    BY <2>3
  <2>6. /\ DOMAIN walFile = 1..n /\ DOMAIN v = 1..n + 1 /\ v[n + 1].type = "checkpoint"
        /\ \A i \in 1..n : v[i] = walFile[i]
    BY <2>1, <2>3, <2>4, <2>5
  <2>7. CommittedTxs(walFile) \subseteq CommittedTxs(v)
    <3>1. \A i \in 1..n : i \in 1..n + 1
      OBVIOUS
    <3> QED  BY <2>6, <3>1 DEF CommittedTxs
  <2>8. AllCommitted(v)
    <3>1. \A i \in 1..n + 1 : i \in 1..n \/ i = n + 1
      OBVIOUS
    <3> QED  BY <2>6, <2>7, <3>1 DEF AllCommitted, LogInv
  <2> QED  BY <2>2, <2>4, <2>8 DEF LogInv
<1>11. CASE TruncateWal
  <2>1. walFile' = <<>> /\ pc' \in {"idle", "down"} /\ walBuf' = <<>>
    BY <1>11 DEF TruncateWal, LoseMemory, LogInv
  <2> QED  BY <2>1 DEF LogInv, AllCommitted
<1>12. CASE Close
  BY <1>2, <1>9, <1>12 DEF Close, LoseMemory
<1>13. CASE Crash
  <2>1. pc' = "down" /\ walBuf' = <<>>
    BY <1>13 DEF Crash, LoseMemory
  <2>2. PICK n \in {0, Len(walBuf)} : walFile' = walFile \o SubSeq(walBuf, 1, n)
    BY <1>13 DEF Crash, StatementsLogged, Written
  <2>3. walFile \in Seq(WalRecord) /\ walBuf \in Seq(WalRecord)
    BY DEF TypeOK, LogTypeOK
  <2>4. walFile' = walFile \/ (pc = "log" /\ walFile' = walFile \o walBuf)
    <3>1. CASE n = 0
      BY <2>2, <2>3, <3>1
    <3>2. CASE n = Len(walBuf) /\ pc = "log"
      BY <2>2, <2>3, <3>2
    <3>3. CASE pc # "log"
      <4>1. walBuf = <<>> /\ n = 0
        BY <2>2, <3>3 DEF LogInv
      <4> QED  BY <3>1, <4>1
    <3> QED  BY <2>2, <3>1, <3>2, <3>3
  <2> QED  BY <1>6, <2>1, <2>4 DEF LogInv
<1> QED
  BY <1>1, <1>3, <1>4, <1>5, <1>7, <1>8, <1>9, <1>10, <1>11, <1>12, <1>13 DEF Next, Running

\* An open.
LEMMA OpenShows ==
  ASSUME TypeOK, PrefixInv, ShowsInv,
         OpenNew \/ LoadDatabase \/ ReplayRecord \/ FinishOpen
  PROVE  ShowsInv'
<1> DEFINE P == Replayed(dCatalog, Loaded, walFile)
<1>1. UNCHANGED <<dCatalog, dNodes, dRels, dTorn, walFile>>
  BY DEF OpenNew, LoadDatabase, ReplayRecord, FinishOpen, diskVars
<1>2. Reopened' = Reopened /\ Loaded' = Loaded
  BY <1>1 DEF Reopened, Loaded, LoadedNodes, LoadedRels
<1>3. /\ dCatalog \in Seq(Tables) /\ Loaded \in Contents /\ walFile \in Seq(WalRecord)
      /\ Len(walFile) \in Nat
  BY ReopenedType
<1>4. P[0] = Loaded /\ \A i \in 1..Len(walFile) : P[i] = Replay(dCatalog, P[i - 1], walFile[i], walFile)
  BY <1>3, ReplayedSteps
<1>5. Reopened = P[Len(walFile)]
  BY DEF Reopened, Loaded
<1>6. P' = P
  BY <1>1, <1>2
<1> HIDE DEF P
<1>7. CASE OpenNew
  <2>1. pc' = "idle" /\ dCatalog' = <<>>
    BY <1>7, <1>1 DEF OpenNew, PrefixInv
  <2> QED  BY <2>1 DEF ShowsInv, Shows, Rows
<1>8. CASE LoadDatabase
  <2>1. /\ pc' = "replay" /\ catalog' = dCatalog' /\ replayPos' = 1
        /\ [nodes |-> nodes', rels |-> rels'] = Loaded
    BY <1>1, <1>8 DEF LoadDatabase, Loaded
  <2>2. replayPos' - 1 = 0 /\ replayPos' \in 1..Len(walFile') + 1
    BY <1>1, <1>3, <2>1
  <2> QED  BY <1>4, <1>6, <2>1, <2>2 DEF ShowsInv, P
<1>9. CASE ReplayRecord
  <2>1. /\ pc = "replay" /\ replayPos \in 1..Len(walFile) /\ catalog = dCatalog
        /\ [nodes |-> nodes, rels |-> rels] = P[replayPos - 1]
    BY <1>3, <1>9 DEF ReplayRecord, ShowsInv, P
  <2>2. PICK s : s = P[replayPos - 1]
    OBVIOUS
  <2>3. s.nodes = nodes /\ s.rels = rels /\ s = [nodes |-> nodes, rels |-> rels]
    BY <2>1, <2>2
  <2>4. [nodes |-> nodes', rels |-> rels'] = Replay(dCatalog, s, walFile[replayPos], walFile)
    BY <1>9, <2>1, <2>3 DEF ReplayRecord, Replay
  <2>5. P[replayPos] = [nodes |-> nodes', rels |-> rels']
    BY <1>4, <2>1, <2>2, <2>4
  <2>6. pc' = "replay" /\ replayPos' = replayPos + 1 /\ catalog' = catalog
    BY <1>9 DEF ReplayRecord
  <2>7. replayPos' - 1 = replayPos /\ replayPos' \in 1..Len(walFile) + 1
    BY <1>3, <2>1, <2>6
  <2>8. [nodes |-> nodes', rels |-> rels'] = P'[replayPos' - 1]
    BY <1>6, <2>5, <2>7
  <2> QED  BY <1>1, <2>1, <2>6, <2>7, <2>8 DEF ShowsInv, P
<1>10. CASE FinishOpen
  <2>1. /\ pc = "replay" /\ replayPos \in 1..Len(walFile) + 1 /\ catalog = dCatalog
        /\ [nodes |-> nodes, rels |-> rels] = P[replayPos - 1]
        /\ replayPos \notin 1..Len(walFile)
    BY <1>3, <1>10 DEF FinishOpen, ShowsInv, P
  <2>2. replayPos - 1 = Len(walFile)
    BY <1>3, <2>1
  <2>3. Reopened = [nodes |-> nodes, rels |-> rels]
    BY <1>5, <2>1, <2>2
  <2>4. Reopened.nodes = nodes /\ Reopened.rels = rels
    BY <2>3
  <2>5. pc' = "idle" /\ nodes' = nodes /\ rels' = rels
    BY <1>10 DEF FinishOpen
  <2> QED  BY <1>2, <2>4, <2>5 DEF ShowsInv, Shows
<1> QED  BY <1>7, <1>8, <1>9, <1>10

\* CREATE NODE TABLE and CREATE REL TABLE: the data file has no such table.
LEMMA TableShows ==
  ASSUME TypeOK, PrefixInv, ShowsInv,
         (\E t \in NodeTables : ExecuteCreateNodeTable(t))
           \/ (\E r \in RelTables : ExecuteCreateRelTable(r))
  PROVE  ShowsInv'
<1>1. PICK x \in Tables :
        /\ x \notin Rows(catalog)
        /\ \A t \in NodeTables \ {x} : nodes'[t] = nodes[t]
        /\ \A t \in RelTables \ {x} : rels'[t] = rels[t]
  BY DEF Tables, ExecuteCreateNodeTable, ExecuteCreateRelTable, TypeOK, MemTypeOK
<1>2. pc = "idle" /\ pc' = "idle" /\ UNCHANGED <<diskVars, walFile>>
  BY DEF ExecuteCreateNodeTable, ExecuteCreateRelTable, StartStatement
<1>3. Reopened' = Reopened /\ dCatalog' = dCatalog
  BY <1>2, SameReopened DEF diskVars
<1>4. x \notin Rows(dCatalog)
  BY <1>1, <1>2, GrowsRows DEF PrefixInv, Up
<1> QED  BY <1>1, <1>2, <1>3, <1>4 DEF ShowsInv, Shows

\* CREATE, up to the flush of the log.
LEMMA CreateShows ==
  ASSUME StatementsLogged, TypeOK, PrefixInv, ShowsInv, NEW id \in DOMAIN catalog,
         NEW k \in Keys, NEW shape \in RowShapes, ExecuteCreateNode(id, k, shape)
  PROVE  ShowsInv'
<1>1. /\ pc = "idle" /\ pc' = "log" /\ UNCHANGED <<diskVars, walFile>>
      /\ catalog' = catalog /\ nodes' = nodes /\ rels' = rels
  BY DEF ExecuteCreateNode, StartStatement
<1>2. Reopened' = Reopened /\ dCatalog' = dCatalog
  BY <1>1, SameReopened DEF diskVars
<1>3. Shows(Reopened)'
  BY <1>1, <1>2 DEF ShowsInv, Shows
<1>4. nextTx \in Nat /\ id \in Nat /\ shape = "complete"
  BY DEF TypeOK, MemTypeOK, StatementsLogged
<1>5. PICK tx, r : tx \in Nat /\ tx = nextTx /\ r = NodeRec(tx, id, k)
  BY <1>4
<1>6. r \in WalRecord /\ r.tx = tx
  BY <1>4, <1>5 DEF NodeRec, WalRecord
<1>7. /\ walBuf' = <<BeginRec(tx), r, CommitRec(tx)>>
      /\ stmt'.kind = "node" /\ stmt'.key = k /\ stmt'.table = catalog[id]
      /\ stmt'.shape = "complete"
  BY <1>4, <1>5 DEF ExecuteCreateNode
<1>8. Pending(tx, id, r)'
  BY <1>1, <1>3, <1>5, <1>6, <1>7 DEF Pending
<1> QED  BY <1>1, <1>4, <1>5, <1>6, <1>8 DEF ShowsInv

\* MATCH..CREATE, up to the flush: the edge that memory has and the log has not
\* is the one in the buffer.
LEMMA MatchShows ==
  ASSUME TypeOK, PrefixInv, ShowsInv, NEW id \in DOMAIN catalog, NEW sl \in NodeTables,
         NEW dl \in NodeTables, NEW s \in DOMAIN nodes[sl], NEW d \in DOMAIN nodes[dl],
         ExecuteMatchCreate(id, sl, dl, s, d)
  PROVE  ShowsInv'
<1>1. /\ pc = "idle" /\ pc' = "log" /\ UNCHANGED <<diskVars, walFile>>
      /\ catalog' = catalog /\ nodes' = nodes /\ catalog[id] \in RelTables
      /\ rels' = [rels EXCEPT ![catalog[id]] = Append(@, <<s, d>>)]
      /\ walBuf' = <<BeginRec(nextTx), RelRec(nextTx, id, s, d), CommitRec(nextTx)>>
      /\ stmt'.kind = "rel"
  BY DEF ExecuteMatchCreate, StartStatement
<1>2. Reopened' = Reopened /\ dCatalog' = dCatalog
  BY <1>1, SameReopened DEF diskVars
<1>3. Shows(Reopened) /\ Up
  BY <1>1 DEF ShowsInv, Up
<1>4. /\ nextTx \in Nat /\ id \in Nat /\ s \in Nat /\ d \in Nat
      /\ rels \in [RelTables -> Seq(Edge)]
  BY DEF TypeOK, MemTypeOK
<1>5. PICK tx, r : tx \in Nat /\ tx = nextTx /\ r = RelRec(tx, id, s, d)
  BY <1>4
<1>6. /\ r \in WalRecord /\ r.tx = tx /\ r.type = "rel" /\ r.id = id
      /\ r.src = s /\ r.dst = d
  BY <1>4, <1>5 DEF RelRec, WalRecord
<1>7. PICK S \in Contents : S = Reopened
  BY ReopenedType
<1>8. S.rels \in [RelTables -> Seq(Edge)]
  BY <1>7 DEF Contents
<1>9. PICK A : A = Applying(dCatalog, S, r)
  OBVIOUS
<1>10. A.nodes = S.nodes
  BY <1>6, <1>9 DEF Applying, ReplayNodes
<1>11. A.rels = ReplayRels(dCatalog, S.rels, r)
  BY <1>9 DEF Applying
<1>12. ASSUME NEW t \in RelTables, t \in Rows(dCatalog) PROVE A.rels[t] = rels'[t]
  <2>1. S.rels[t] = rels[t]
    BY <1>3, <1>7, <1>12 DEF Shows
  <2>2. CASE catalog[id] = t
    <3>1. id \in DOMAIN dCatalog /\ dCatalog[id] = t
      BY <1>3, <1>12, <2>2, IdKnown
    <3>2. A.rels[t] = Append(S.rels[t], <<s, d>>)
      BY <1>6, <1>8, <1>11, <3>1 DEF ReplayRels
    <3>3. rels'[t] = Append(rels[t], <<s, d>>)
      BY <1>1, <1>4, <2>2
    <3> QED  BY <2>1, <3>2, <3>3
  <2>3. CASE catalog[id] # t
    <3>1. id \in DOMAIN dCatalog => dCatalog[id] # t
      BY <1>3, <1>12, <2>3, IdKnown
    <3>2. A.rels[t] = S.rels[t]
      BY <1>6, <1>8, <1>11, <3>1 DEF ReplayRels
    <3>3. rels'[t] = rels[t]
      BY <1>1, <1>4, <2>3
    <3> QED  BY <2>1, <3>2, <3>3
  <2> QED  BY <2>2, <2>3
<1>13. \A t \in NodeTables : t \in Rows(dCatalog) => A.nodes[t] = nodes'[t]
  BY <1>1, <1>3, <1>7, <1>10 DEF Shows
<1>14. A = Applying(dCatalog, Reopened, r)' /\ Shows(A)'
  <2>1. r' = r /\ A' = A
    OBVIOUS
  <2> QED  BY <1>2, <1>7, <1>9, <1>12, <1>13, <2>1 DEF Shows, Applying
<1>15. Pending(tx, id, r)'
  BY <1>1, <1>5, <1>6, <1>14 DEF Pending
<1> QED  BY <1>1, <1>4, <1>5, <1>6, <1>15 DEF ShowsInv

\* The log is flushed, and the node inserted: replaying its record inserts it too.
LEMMA FinishShows ==
  ASSUME TypeOK, PrefixInv, LogInv, ShowsInv, FinishCreateNode \/ FinishMatchCreate
  PROVE  ShowsInv'
<1>1. /\ pc = "log" /\ pc' = "idle" /\ walFile' = walFile \o walBuf
      /\ UNCHANGED <<diskVars, catalog, rels>>
  BY DEF FinishCreateNode, FinishMatchCreate
<1>2. PICK tx \in Nat, id \in DOMAIN catalog, r \in WalRecord : Pending(tx, id, r)
  BY <1>1 DEF ShowsInv
<1>3. Replayed(dCatalog, Loaded, walFile')[Len(walFile')] = Applying(dCatalog, Reopened, r)
  BY <1>1, <1>2, BufferCommitted DEF LogInv
<1>4. dCatalog' = dCatalog /\ Reopened' = Applying(dCatalog, Reopened, r)
  BY <1>1, <1>3 DEF Reopened, Loaded, LoadedNodes, LoadedRels, diskVars
<1>5. PICK S \in Contents : S = Reopened
  BY ReopenedType
<1>6. PICK A : A = Applying(dCatalog, S, r)
  OBVIOUS
<1>7. A.nodes = ReplayNodes(dCatalog, S.nodes, r) /\ A.rels = ReplayRels(dCatalog, S.rels, r)
  BY <1>6 DEF Applying
<1>8. CASE stmt.kind = "rel"
  <2>1. nodes' = nodes /\ Shows(A)
    BY <1>2, <1>5, <1>6, <1>8 DEF FinishCreateNode, FinishMatchCreate, Pending
  <2> QED  BY <1>1, <1>4, <1>5, <1>6, <2>1 DEF ShowsInv, Shows
<1>9. CASE stmt.kind = "node"
  <2>1. /\ r.type = "node" /\ r.id = id /\ r.key = stmt.key
        /\ catalog[id] = stmt.table /\ stmt.shape = "complete" /\ Shows(S)
    BY <1>2, <1>5, <1>9 DEF Pending, NodeRec
  <2>2. PICK t0 : t0 = stmt.table
    OBVIOUS
  <2>3. PICK k : k = stmt.key
    OBVIOUS
  <2>4. nodes' = IF Fresh(nodes[t0], k) THEN [nodes EXCEPT ![t0] = Append(@, k)] ELSE nodes
    BY <1>9, <2>1, <2>2, <2>3 DEF FinishCreateNode, FinishMatchCreate, Accepts
  <2>5. /\ nodes \in [NodeTables -> Seq(Keys)] /\ S.nodes \in [NodeTables -> Seq(Keys)]
    BY <1>5 DEF TypeOK, MemTypeOK, Contents, NodeData
  <2>6. Up
    BY <1>1 DEF Up
  <2>7. ASSUME NEW t \in NodeTables, t \in Rows(dCatalog) PROVE A.nodes[t] = nodes'[t]
    <3>1. S.nodes[t] = nodes[t]
      BY <2>1, <2>7 DEF Shows
    <3>2. CASE t0 = t
      <4>1. id \in DOMAIN dCatalog /\ dCatalog[id] = t
        BY <2>1, <2>2, <2>6, <2>7, <3>2, IdKnown
      <4>2. A.nodes[t] = InsertIfFresh(S.nodes[t], k)
        BY <1>7, <2>1, <2>3, <2>5, <4>1 DEF ReplayNodes
      <4>3. nodes'[t] = InsertIfFresh(nodes[t], k)
        BY <2>4, <2>5, <3>2 DEF InsertIfFresh
      <4> QED  BY <3>1, <4>2, <4>3
    <3>3. CASE t0 # t
      <4>1. id \in DOMAIN dCatalog => dCatalog[id] # t
        BY <2>1, <2>2, <2>6, <2>7, <3>3, IdKnown
      <4>2. A.nodes[t] = S.nodes[t]
        BY <1>7, <2>1, <2>5, <4>1 DEF ReplayNodes
      <4>3. nodes'[t] = nodes[t]
        BY <2>4, <2>5, <3>3
      <4> QED  BY <3>1, <4>2, <4>3
    <3> QED  BY <3>2, <3>3
  <2>8. \A t \in RelTables : t \in Rows(dCatalog) => A.rels[t] = rels[t]
    BY <1>7, <2>1 DEF ReplayRels, Shows
  <2> QED  BY <1>1, <1>4, <1>5, <1>6, <2>7, <2>8 DEF ShowsInv, Shows
<1> QED  BY <1>8, <1>9 DEF FinishCreateNode, FinishMatchCreate

\* The log is cut: the data file has all of it.
LEMMA TruncateShows ==
  ASSUME TypeOK, FlushInv, ShowsInv, TruncateWal, ~closing
  PROVE  ShowsInv'
<1>1. /\ pc' = "idle" /\ walFile' = <<>> /\ nodes' = nodes /\ rels' = rels
      /\ UNCHANGED diskVars
  BY DEF TruncateWal
<1>2. dNodes = nodes /\ dRels = rels /\ dTorn = {}
  BY DEF TruncateWal, FlushInv
<1>3. dCatalog \in Seq(Tables) /\ Loaded \in Contents
  BY ReopenedType
<1>4. PICK w : w = <<>>
  OBVIOUS
<1>5. w \in Seq(WalRecord) /\ Len(w) = 0
  BY <1>4
<1>6. Replayed(dCatalog, Loaded, w)[Len(w)] = Loaded
  BY <1>3, <1>5, ReplayedSteps
<1>7. Reopened' = Loaded
  BY <1>1, <1>4, <1>6 DEF Reopened, Loaded, LoadedNodes, LoadedRels, diskVars
<1>8. \A t \in Rows(dCatalog) : /\ t \in NodeTables => Loaded.nodes[t] = nodes[t]
                                /\ t \in RelTables => Loaded.rels[t] = rels[t]
  BY <1>2 DEF Loaded, LoadedNodes, LoadedRels
<1>9. dCatalog' = dCatalog
  BY <1>1 DEF diskVars
<1>10. Shows(Reopened)'
  BY <1>1, <1>7, <1>8, <1>9 DEF Shows
<1> QED  BY <1>1, <1>10 DEF ShowsInv

\* Every step.
LEMMA NextShows ==
  ASSUME StatementsLogged, TypeOK, FlushInv, ReopenInv, [Next]_vars
  PROVE  ShowsInv'
<1> USE DEF ReopenInv
<1>1. CASE UNCHANGED vars
  <2>1. Reopened' = Reopened /\ Loaded' = Loaded
    BY <1>1, SameReopened DEF vars, diskVars
  <2>2. UNCHANGED <<pc, catalog, nodes, rels, stmt, walBuf, replayPos, dCatalog, walFile>>
    BY <1>1 DEF vars
  <2> QED  BY <2>1, <2>2 DEF ShowsInv, Shows, Pending, Applying
<1>2. CASE pc' \notin {"replay", "idle", "log"}
  BY <1>2 DEF ShowsInv
<1>3. CASE OpenNew \/ LoadDatabase \/ ReplayRecord \/ FinishOpen
  BY <1>3, OpenShows
<1>4. CASE Statement
  BY <1>4, TableShows, CreateShows, MatchShows DEF Statement
<1>5. CASE FinishCreateNode \/ FinishMatchCreate
  BY <1>5, FinishShows
<1>6. CASE ImportNodesStep \/ ImportRelsStep
  BY <1>6 DEF ImportNodesStep, ImportRelsStep, LogInv
<1>7. CASE OpenFails \/ Import \/ Checkpoint \/ LogCheckpoint \/ Close \/ Crash
             \/ \E s \in Sections : TearSection(s) \/ FlushPage(s)
  BY <1>2, <1>7 DEF OpenFails, Import, ImportNodes, ImportRelationships, StartImport,
     Checkpoint, BeginCheckpoint, LogCheckpoint, Close, Crash, LoseMemory, TearSection, FlushPage
<1>8. CASE TruncateWal
  <2>1. CASE closing
    BY <1>2, <1>8, <2>1 DEF TruncateWal, LoseMemory
  <2> QED  BY <1>8, <2>1, TruncateShows
<1> QED  BY <1>1, <1>3, <1>4, <1>5, <1>6, <1>7, <1>8 DEF Next, Running

\* At the beginning there is neither a data file nor a log.
LEMMA InitReopen == Init => FlushInv /\ ReopenInv
BY DEF Init, FlushInv, ReopenInv, PrefixInv, LogInv, ShowsInv, Distinct, Up, AllCommitted

\* Killing the process between two statements and opening the database again
\* gives, for every table the data file knows, the same rows in the same order
\* and the same edges (replay_wal, apply_wal_record, checkpoint), however often
\* the log is replayed and wherever in its pages a checkpoint was cut off.
THEOREM ReopeningRestores ==
  ASSUME StatementsLogged
  PROVE  Spec => []ReopenRestores
<1>1. TypeOK /\ FlushInv /\ ReopenInv /\ [Next]_vars => FlushInv' /\ ReopenInv'
  BY NextFlush, NextPrefix, NextLog, NextShows DEF ReopenInv
<1>2. TypeOK /\ ReopenInv => ReopenRestores
  <2> SUFFICES ASSUME TypeOK, ReopenInv, pc = "idle", NEW t \in Rows(dCatalog)
               PROVE  \/ t \in NodeTables /\ Reopened.nodes[t] = nodes[t]
                      \/ t \in RelTables /\ Reopened.rels[t] = rels[t]
    BY DEF ReopenRestores
  <2>1. t \in Tables
    BY DEF Rows, TypeOK, DiskTypeOK
  <2> QED  BY <2>1 DEF Tables, ReopenInv, ShowsInv, Shows
<1> QED  BY <1>1, <1>2, InitReopen, TypeCorrect, PTL DEF Spec

=============================================================================
