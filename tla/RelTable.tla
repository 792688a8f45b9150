------------------------------ MODULE RelTable ------------------------------
(***************************************************************************)
(* RelTable of src/storage/rel_table.rs: relationships in two compressed   *)
(* sparse row (CSR) indexes.  The nodes are cut into groups of GroupSize;  *)
(* a group keeps the edges of its nodes in one vector, ordered by node,    *)
(* and in offsets[i] the place where the edges of its i-th node start.     *)
(* Vectors are indexed from 0 in the code: offsets[i] is offsets[i + 1]    *)
(* here.                                                                   *)
(***************************************************************************)
EXTENDS Integers, Sequences, FiniteSets, SequencesExt

CONSTANTS
  GroupSize,   \* NODE_GROUP_SIZE
  NumNodes,    \* node offsets are 0 .. NumNodes-1
  Columns,     \* the number of property columns of the schema
  PropLists,   \* property lists a caller may pass, of any length
  MaxEdges,    \* bound on the edges of a behaviour
  MaxBatch     \* bound on the length of a batch

ASSUME GroupSizeAssumption == GroupSize \in Nat \ {0}
ASSUME NumNodesAssumption == NumNodes \in Nat \ {0}
ASSUME ColumnsAssumption == Columns \in Nat
ASSUME RelBoundsAssumption == MaxEdges \in Nat /\ MaxBatch \in Nat

VARIABLES
  table,     \* the RelTable in memory
  saved,     \* the RelTableData the data file holds
  pending,   \* the rest of the batch insert_batch is inserting
  result     \* what the last call returned

vars == <<table, saved, pending, result>>

Error == -1
Nodes == 0 .. NumNodes - 1
GroupIds == 0 .. (NumNodes - 1) \div GroupSize
Edge == [src : Nodes, dst : Nodes, props : PropLists]

GroupOf(node) == node \div GroupSize
LocalOf(node) == node % GroupSize

-----------------------------------------------------------------------------
(* CsrNodeGroup *)

NewGroup(id) ==
  [group_id |-> id, num_nodes |-> 0, offsets |-> <<0>>,
   neighbors |-> <<>>, rel_ids |-> <<>>]

\* Seeded fault: a node added to a group with edges starts at 0.
ExtendedAtZero(g, n) ==
  IF g.num_nodes >= n THEN g
  ELSE [g EXCEPT !.num_nodes = n,
                 !.offsets = [i \in 1 .. n + 1 |->
                    IF i <= Len(@) THEN @[i] ELSE 0]]

\* The group with num_nodes raised to n: new nodes start, and end, at the
\* end of the edges.
Extended(g, n) ==
  IF g.num_nodes >= n THEN g
  ELSE [g EXCEPT !.num_nodes = n,
                 !.offsets = [i \in 1 .. n + 1 |->
                    IF i <= Len(@) THEN @[i] ELSE Len(g.neighbors)]]

\* ensure_forward_group, ensure_backward_group: groups is a map from ids.
EnsureGroup(groups, id, n) ==
  [k \in DOMAIN groups \cup {id} |->
    IF k # id THEN groups[k]
    ELSE Extended(IF id \in DOMAIN groups THEN groups[id] ELSE NewGroup(id), n)]

\* Seeded fault: the new edge becomes the first one of its node.
InsertEdgeFirst(g, local, neighbor, relId) ==
  IF local >= g.num_nodes THEN g
  ELSE LET at == g.offsets[local + 1] + 1
       IN  [g EXCEPT !.neighbors = InsertAt(@, at, neighbor),
                     !.rel_ids = InsertAt(@, at, relId),
                     !.offsets = [i \in DOMAIN @ |->
                        IF i >= local + 2 THEN @[i] + 1 ELSE @[i]]]

\* insert_edge: the edge becomes the last one of its node and every later
\* offset moves by one.  A node outside the group is refused.
InsertEdge(g, local, neighbor, relId) ==
  IF local >= g.num_nodes THEN g
  ELSE LET at == g.offsets[local + 2] + 1
       IN  [g EXCEPT !.neighbors = InsertAt(@, at, neighbor),
                     !.rel_ids = InsertAt(@, at, relId),
                     !.offsets = [i \in DOMAIN @ |->
                        IF i >= local + 2 THEN @[i] + 1 ELSE @[i]]]

\* get_neighbors and get_rel_ids, zipped as get_forward_edges returns them.
EdgesAt(g, local) ==
  LET from == g.offsets[local + 1] + 1
      to == g.offsets[local + 2]
  IN  [i \in 1 .. to - from + 1 |->
        <<g.neighbors[from + i - 1], g.rel_ids[from + i - 1]>>]

\* CsrNodeGroup::validate, which implies debug_assert_invariants for a group
\* with a node.
Valid(g) ==
  /\ g.offsets[1] = 0
  /\ Len(g.offsets) = g.num_nodes + 1
  /\ \A i \in 1 .. g.num_nodes : g.offsets[i] <= g.offsets[i + 1]
  /\ g.offsets[Len(g.offsets)] = Len(g.neighbors)
  /\ Len(g.rel_ids) = Len(g.neighbors)

-----------------------------------------------------------------------------
(* RelTable *)

NoMap == [x \in {} |-> {}]

NewTable ==
  [forward_groups |-> NoMap, backward_groups |-> NoMap,
   next_rel_id |-> 0, properties |-> NoMap]

\* get_forward_edges and get_backward_edges
TraverseFrom(groups, node) ==
  IF GroupOf(node) \in DOMAIN groups /\ LocalOf(node) < groups[GroupOf(node)].num_nodes
  THEN EdgesAt(groups[GroupOf(node)], LocalOf(node))
  ELSE <<>>

\* iter: every edge of the forward index with its source.
Iter(t) ==
  UNION { {[src |-> x[1] * GroupSize + x[2], dst |-> p[1], id |-> p[2]] :
              p \in ToSet(EdgesAt(t.forward_groups[x[1]], x[2]))} :
          x \in {y \in (DOMAIN t.forward_groups) \X (0 .. GroupSize - 1) :
                   y[2] < t.forward_groups[y[1]].num_nodes} }

\* RelTable::len
TableLen(t) ==
  FoldSet(LAMBDA id, n : n + Len(t.forward_groups[id].neighbors), 0,
          DOMAIN t.forward_groups)

\* get_properties: no entry is stored for an empty list.
PropsOf(t, id) == IF id \in DOMAIN t.properties THEN t.properties[id] ELSE <<>>

\* Ensuring the group of a node, and then inserting the edge at the node.
WithEdge(groups, node, neighbor, relId) ==
  [EnsureGroup(groups, GroupOf(node), LocalOf(node) + 1) EXCEPT
     ![GroupOf(node)] = InsertEdge(@, LocalOf(node), neighbor, relId)]

\* The body of insert once the property count is accepted.
Inserted(t, e) ==
  LET id == t.next_rel_id
  IN  [forward_groups |-> WithEdge(t.forward_groups, e.src, e.dst, id),
       backward_groups |-> WithEdge(t.backward_groups, e.dst, e.src, id),
       next_rel_id |-> id + 1,
       properties |->
         IF e.props = <<>> THEN t.properties
         ELSE [k \in DOMAIN t.properties \cup {id} |->
                IF k = id THEN e.props ELSE t.properties[k]]]

CountFits(e) == Len(e.props) = Columns

\* to_data drops the keys of the maps of groups, from_data rebuilds them
\* from the group ids.
ToData(t) ==
  [t EXCEPT !.forward_groups = {@[k] : k \in DOMAIN @},
            !.backward_groups = {@[k] : k \in DOMAIN @}]

ById(groups) ==
  [k \in {g.group_id : g \in groups} |-> CHOOSE g \in groups : g.group_id = k]

\* Seeded fault: a loaded table has its edges and not their properties.
FromDataBare(d) ==
  [d EXCEPT !.forward_groups = ById(@), !.backward_groups = ById(@),
            !.properties = NoMap]

FromData(d) ==
  [d EXCEPT !.forward_groups = ById(@), !.backward_groups = ById(@)]

-----------------------------------------------------------------------------
Init ==
  /\ table = NewTable
  /\ saved = ToData(NewTable)
  /\ pending = <<>>
  /\ result = 0

Idle == pending = <<>>

\* insert, as MATCH ... CREATE and replay_wal call it.
Insert(e) ==
  /\ Idle /\ table.next_rel_id < MaxEdges
  /\ IF CountFits(e)
     THEN table' = Inserted(table, e) /\ result' = table.next_rel_id
     ELSE table' = table /\ result' = Error
  /\ UNCHANGED <<saved, pending>>

\* Seeded fault: the counts are left to insert.
InsertBatchUnchecked(batch) ==
  /\ Idle /\ table.next_rel_id + Len(batch) <= MaxEdges
  /\ pending' = batch /\ result' = 0
  /\ UNCHANGED <<table, saved>>

\* insert_batch up to its loop: every property count is checked first.
InsertBatch(batch) ==
  /\ Idle /\ table.next_rel_id + Len(batch) <= MaxEdges
  /\ IF \A i \in DOMAIN batch : CountFits(batch[i])
     THEN pending' = batch /\ result' = 0
     ELSE pending' = <<>> /\ result' = Error
  /\ UNCHANGED <<table, saved>>

\* The loop of insert_batch: an error of insert ends it.
BatchStep ==
  /\ pending # <<>>
  /\ IF CountFits(Head(pending))
     THEN /\ table' = Inserted(table, Head(pending))
          /\ pending' = Tail(pending)
          /\ result' = table.next_rel_id
     ELSE pending' = <<>> /\ result' = Error /\ UNCHANGED table
  /\ UNCHANGED saved

\* save_all_data stores to_data of every table.
Save == Idle /\ saved' = ToData(table) /\ UNCHANGED <<table, pending, result>>

\* The process ends at any point and load_rel_table_data builds the table
\* again.
Load ==
  /\ table' = FromData(saved)
  /\ pending' = <<>>
  /\ UNCHANGED <<saved, result>>

Batches == UNION {[1 .. n -> Edge] : n \in 1 .. MaxBatch}

Next ==
  \/ \E e \in Edge : Insert(e)
  \/ \E b \in Batches : InsertBatch(b)
  \/ BatchStep
  \/ Save
  \/ Load

Spec == Init /\ [][Next]_vars

-----------------------------------------------------------------------------
(* Properties *)

\* Every group of both indexes is what validate accepts, so no traversal
\* reads outside its vectors, whatever the order in which nodes get their
\* first edge.
CsrValid ==
  \A groups \in {table.forward_groups, table.backward_groups} :
    \A id \in DOMAIN groups : groups[id].group_id = id /\ Valid(groups[id])

\* The two indexes hold the same edges: v is reached from u through r
\* forwards exactly if u is reached from v through r backwards.
BothWays(t) ==
  \A u, v \in Nodes, r \in 0 .. t.next_rel_id - 1 :
    Contains(TraverseFrom(t.forward_groups, u), <<v, r>>)
      <=> Contains(TraverseFrom(t.backward_groups, v), <<u, r>>)

\* The edges of a node come in the order in which they were inserted.
InOrder(t) ==
  \A groups \in {t.forward_groups, t.backward_groups}, u \in Nodes :
    IsSorted(TraverseFrom(groups, u), LAMBDA a, b : a[2] <= b[2])

\* The indexes agree with each other, traversals follow the order of
\* insertion, and len counts every edge.
DirectionsAgree ==
  BothWays(table) /\ InOrder(table) /\ TableLen(table) = table.next_rel_id

\* A batch that insert_batch accepted never stops halfway: the counts it
\* checked before the loop leave insert nothing to refuse.
BatchNeverHalf ==
  [][pending # <<>> => result' # Error]_vars

\* The edges of a table in the order of their ids, with their properties.
EdgesOf(t) ==
  [i \in 1 .. Cardinality(Iter(t)) |->
    LET e == CHOOSE x \in Iter(t) : x.id = i - 1
    IN  [src |-> e.src, dst |-> e.dst, props |-> PropsOf(t, i - 1)]]

List == INSTANCE EdgeList WITH
          PropLists <- {p \in PropLists : Len(p) = Columns},
          edges <- EdgesOf(table),
          saved <- EdgesOf(FromData(saved))

\* Inserting, traversing, saving and loading behave as a list of edges in
\* insertion order whose positions are the relationship ids.
ImplementsEdgeList == List!Spec
=============================================================================
