------------------------------ MODULE EdgeList ------------------------------
(***************************************************************************)
(* What a relationship table promises to the rest of the database: the     *)
(* edges in the order in which they were inserted, the n-th one with the   *)
(* relationship id n-1.  Module Database keeps its relationships this way. *)
(***************************************************************************)
EXTENDS Naturals, Sequences

CONSTANTS
  Nodes,       \* node offsets
  PropLists    \* the property lists that fit the schema

VARIABLES
  edges,       \* the edges of the table in memory
  saved,       \* the edges of the table in the data file
  pending      \* the edges of the batch being inserted

vars == <<edges, saved, pending>>

Edges == [src : Nodes, dst : Nodes, props : PropLists]

Init == edges = <<>> /\ saved = <<>> /\ pending = <<>>

Append1(e) ==
  /\ pending = <<>>
  /\ edges' = Append(edges, e)
  /\ UNCHANGED <<saved, pending>>

\* A batch is accepted as a whole, and then all of it is inserted.
Accept(batch) ==
  /\ pending = <<>>
  /\ pending' = batch
  /\ UNCHANGED <<edges, saved>>

AppendNext ==
  /\ pending # <<>>
  /\ edges' = Append(edges, Head(pending))
  /\ pending' = Tail(pending)
  /\ UNCHANGED saved

Save == pending = <<>> /\ saved' = edges /\ UNCHANGED <<edges, pending>>
Load == edges' = saved /\ pending' = <<>> /\ UNCHANGED saved

Next ==
  \/ \E e \in Edges : Append1(e)
  \/ pending' \in Seq(Edges) /\ Accept(pending')
  \/ AppendNext
  \/ Save
  \/ Load

Spec == Init /\ [][Next]_vars
=============================================================================
