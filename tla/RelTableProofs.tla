--------------------------- MODULE RelTableProofs ---------------------------
(***************************************************************************)
(* Theorems about RelTable.tla.  The invariant says of the table in memory *)
(* and of the saved one that both indexes are well formed (TableOK), that  *)
(* they hold the same edges between nodes (LinksNodes, BothWays) in the    *)
(* order of insertion (InOrder), each id once (IdsOnce), and that iter     *)
(* and len see all of them (AllIterated, LenCounts).  It is proved from    *)
(* what one operation does to one group, then to one index, then to the    *)
(* table.                                                                  *)
(***************************************************************************)
EXTENDS RelTable, SequenceTheorems, FiniteSetTheorems, TLAPS

-----------------------------------------------------------------------------
(* Nodes, groups and sequences *)

\* Its group and its place there identify a node.
LEMMA NodeOfGroup ==
  ASSUME NEW u \in Nat, NEW v \in Nat,
         GroupOf(u) = GroupOf(v), LocalOf(u) = LocalOf(v)
  PROVE  u = v
BY GroupSizeAssumption DEF GroupOf, LocalOf

\* A node is found in its group at its local place.
LEMMA GroupLocal ==
  ASSUME NEW u \in Nat
  PROVE  /\ GroupOf(u) \in Nat /\ LocalOf(u) \in 0 .. GroupSize - 1
         /\ u = GroupOf(u) * GroupSize + LocalOf(u)
BY GroupSizeAssumption DEF GroupOf, LocalOf

\* A place of a group belongs to one node of that group.
LEMMA LocalGroup ==
  ASSUME NEW id \in Nat, NEW l \in 0 .. GroupSize - 1
  PROVE  /\ id * GroupSize + l \in Nat
         /\ GroupOf(id * GroupSize + l) = id
         /\ LocalOf(id * GroupSize + l) = l
BY GroupSizeAssumption DEF GroupOf, LocalOf

\* Vec::insert: what stood at i and later moves up by one.
LEMMA InsertAtProperties ==
  ASSUME NEW s \in Seq(Nat), NEW i \in 1 .. Len(s) + 1, NEW e \in Nat
  PROVE  /\ InsertAt(s, i, e) \in Seq(Nat)
         /\ Len(InsertAt(s, i, e)) = Len(s) + 1
         /\ \A j \in 1 .. Len(s) + 1 :
              InsertAt(s, i, e)[j] =
                IF j < i THEN s[j] ELSE IF j = i THEN e ELSE s[j - 1]
<1> DEFINE a == SubSeq(s, 1, i - 1)
           b == SubSeq(s, i, Len(s))
<1>0. Len(s) \in Nat /\ i \in Int /\ \A j \in 1 .. Len(s) : s[j] \in Nat
  OBVIOUS
<1>1. /\ a \in Seq(Nat) /\ Len(a) = i - 1
      /\ \A j \in 1 .. i - 1 : a[j] = s[j]
  BY <1>0, SubSeqProperties
<1>2. /\ b \in Seq(Nat) /\ Len(b) = Len(s) - i + 1
      /\ \A j \in 1 .. Len(s) - i + 1 : b[j] = s[i + j - 1]
  BY <1>0, SubSeqProperties
<1>3. <<e>> \in Seq(Nat) /\ Len(<<e>>) = 1 /\ <<e>>[1] = e
  OBVIOUS
<1> HIDE DEF a, b
<1> DEFINE c == a \o <<e>>
<1>4. /\ c \in Seq(Nat) /\ Len(c) = i
      /\ \A j \in 1 .. i : c[j] = IF j < i THEN s[j] ELSE e
  BY <1>0, <1>1, <1>3, ConcatProperties
<1> HIDE DEF c
<1>5. /\ c \o b \in Seq(Nat) /\ Len(c \o b) = Len(c) + Len(b)
      /\ \A j \in 1 .. Len(c) + Len(b) :
           (c \o b)[j] = IF j <= Len(c) THEN c[j] ELSE b[j - Len(c)]
  BY <1>2, <1>4, ConcatProperties
<1>6. InsertAt(s, i, e) = c \o b
  BY DEF InsertAt, a, b, c
<1> QED
  BY <1>0, <1>2, <1>4, <1>5, <1>6, SMTT(60)

-----------------------------------------------------------------------------
(* One group *)

\* The fields of CsrNodeGroup.
GroupRecord ==
  [group_id : Nat, num_nodes : 0 .. GroupSize, offsets : Seq(Nat),
   neighbors : Seq(Nat), rel_ids : Seq(Nat)]

\* A group in order: its offsets start at 0, ascend and end at the number of
\* its edges.  It is what validate accepts, with the types of the fields.
GroupOK(g) ==
  /\ g \in GroupRecord
  /\ Len(g.offsets) = g.num_nodes + 1
  /\ g.offsets[1] = 0
  /\ \A i, j \in 1 .. g.num_nodes + 1 : i <= j => g.offsets[i] <= g.offsets[j]
  /\ g.offsets[g.num_nodes + 1] = Len(g.neighbors)
  /\ Len(g.rel_ids) = Len(g.neighbors)

\* What GroupOK says, one fact for each field and each index.
LEMMA GroupFacts ==
  ASSUME NEW g, GroupOK(g)
  PROVE  /\ g.num_nodes \in Nat /\ g.num_nodes <= GroupSize
         /\ g.offsets \in Seq(Nat) /\ Len(g.offsets) = g.num_nodes + 1
         /\ g.neighbors \in Seq(Nat) /\ Len(g.neighbors) \in Nat
         /\ g.rel_ids \in Seq(Nat) /\ Len(g.rel_ids) = Len(g.neighbors)
         /\ g.offsets[1] = 0
         /\ g.offsets[g.num_nodes + 1] = Len(g.neighbors)
         /\ \A i \in 1 .. g.num_nodes + 1 :
              g.offsets[i] \in Nat /\ g.offsets[i] <= Len(g.neighbors)
         /\ \A i, j \in 1 .. g.num_nodes + 1 : i <= j => g.offsets[i] <= g.offsets[j]
         /\ \A i \in 1 .. Len(g.neighbors) : g.neighbors[i] \in Nat /\ g.rel_ids[i] \in Nat
<1>1. /\ g.num_nodes \in Nat /\ g.num_nodes <= GroupSize
      /\ g.offsets \in Seq(Nat) /\ g.neighbors \in Seq(Nat) /\ g.rel_ids \in Seq(Nat)
  BY GroupSizeAssumption DEF GroupOK, GroupRecord
<1>2. /\ Len(g.offsets) = g.num_nodes + 1 /\ Len(g.rel_ids) = Len(g.neighbors)
      /\ g.offsets[1] = 0 /\ g.offsets[g.num_nodes + 1] = Len(g.neighbors)
      /\ \A i, j \in 1 .. g.num_nodes + 1 : i <= j => g.offsets[i] <= g.offsets[j]
  BY DEF GroupOK
<1>3. Len(g.neighbors) \in Nat /\ Len(g.rel_ids) \in Nat
  BY <1>1, LenProperties
<1>4. \A i \in 1 .. g.num_nodes + 1 : g.offsets[i] \in Nat
  BY <1>1, <1>2, ElementOfSeq
<1>5. \A i \in 1 .. g.num_nodes + 1 : g.offsets[i] <= Len(g.neighbors)
  <2> TAKE i \in 1 .. g.num_nodes + 1
  <2>1. g.num_nodes + 1 \in 1 .. g.num_nodes + 1 /\ i <= g.num_nodes + 1
    BY <1>1
  <2> QED
    BY <1>2, <2>1
<1>6. \A i \in 1 .. Len(g.neighbors) : g.neighbors[i] \in Nat /\ g.rel_ids[i] \in Nat
  BY <1>1, <1>2, ElementOfSeq
<1> QED
  BY <1>1, <1>2, <1>3, <1>4, <1>5, <1>6

\* validate accepts a group that is in order.
LEMMA GroupOKValid ==
  ASSUME NEW g, GroupOK(g) PROVE Valid(g)
<1>1. g.num_nodes \in Nat
  BY GroupFacts
<1>2. \A i \in 1 .. g.num_nodes : i \in 1 .. g.num_nodes + 1 /\ i + 1 \in 1 .. g.num_nodes + 1
  BY <1>1
<1>3. \A i \in 1 .. g.num_nodes : g.offsets[i] <= g.offsets[i + 1]
  BY <1>1, <1>2, GroupFacts
<1> QED
  BY <1>3, GroupFacts DEF Valid

\* get_neighbors and get_rel_ids read inside the vectors.
LEMMA EdgesAtType ==
  ASSUME NEW g, GroupOK(g), NEW l \in 0 .. g.num_nodes - 1
  PROVE  /\ EdgesAt(g, l) \in Seq(Nat \X Nat)
         /\ Len(EdgesAt(g, l)) = g.offsets[l + 2] - g.offsets[l + 1]
         /\ \A i \in 1 .. Len(EdgesAt(g, l)) :
              EdgesAt(g, l)[i] = <<g.neighbors[g.offsets[l + 1] + i],
                                   g.rel_ids[g.offsets[l + 1] + i]>>
<1> DEFINE x == g.offsets[l + 1]
           y == g.offsets[l + 2]
           m == Len(g.neighbors)
           n == y - (x + 1) + 1
           E == [i \in 1 .. n |-> <<g.neighbors[x + 1 + i - 1], g.rel_ids[x + 1 + i - 1]>>]
<1>1. /\ x \in Nat /\ y \in Nat /\ x <= y /\ y <= m
      /\ m \in Nat /\ Len(g.rel_ids) = m
  <2>1. l + 1 \in 1 .. g.num_nodes + 1 /\ l + 2 \in 1 .. g.num_nodes + 1 /\ l + 1 <= l + 2
    BY GroupFacts
  <2> QED
    BY <2>1, GroupFacts
<1>2. EdgesAt(g, l) = E
  BY DEF EdgesAt
<1>3. \A i \in 1 .. m : g.neighbors[i] \in Nat /\ g.rel_ids[i] \in Nat
  BY GroupFacts
<1> HIDE DEF x, y, m
<1>4. n \in Nat /\ n = y - x
  BY <1>1
<1>5. \A i \in 1 .. n : x + 1 + i - 1 \in 1 .. m /\ x + 1 + i - 1 = x + i
  BY <1>1
<1> HIDE DEF n
<1>6. \A i \in 1 .. n : /\ g.neighbors[x + 1 + i - 1] \in Nat
                         /\ g.rel_ids[x + 1 + i - 1] \in Nat
  BY <1>3, <1>5
<1>7. E \in [1 .. n -> Nat \X Nat]
  BY <1>6
<1>8. \A i \in 1 .. n : E[i] = <<g.neighbors[x + i], g.rel_ids[x + i]>>
  BY <1>5
<1> HIDE DEF E
<1>9. E \in Seq(Nat \X Nat) /\ Len(E) = n
  BY <1>4, <1>7
<1> QED
  BY <1>2, <1>4, <1>8, <1>9 DEF x, y

\* CsrNodeGroup::new is in order and has no node.
LEMMA NewGroupOK ==
  ASSUME NEW id \in Nat
  PROVE  GroupOK(NewGroup(id)) /\ NewGroup(id).group_id = id /\ NewGroup(id).num_nodes = 0
BY GroupSizeAssumption DEF GroupOK, GroupRecord, NewGroup

\* Adding nodes keeps a group in order, and the edges of its nodes.
LEMMA ExtendedOK ==
  ASSUME NEW g, GroupOK(g), NEW n \in 0 .. GroupSize
  PROVE  LET h == Extended(g, n)
         IN  /\ GroupOK(h)
             /\ h.group_id = g.group_id
             /\ h.num_nodes = IF g.num_nodes >= n THEN g.num_nodes ELSE n
             /\ h.neighbors = g.neighbors
             /\ \A l \in 0 .. h.num_nodes - 1 :
                  EdgesAt(h, l) = IF l < g.num_nodes THEN EdgesAt(g, l) ELSE <<>>
<1> DEFINE h == Extended(g, n)
<1>0. g.num_nodes \in Nat /\ n \in Nat /\ n <= GroupSize /\ Len(g.neighbors) \in Nat
  BY GroupFacts, GroupSizeAssumption
<1>1. CASE g.num_nodes >= n
  <2>1. h = g
    BY <1>1 DEF Extended
  <2> QED
    BY <1>0, <1>1, <2>1
<1>2. CASE g.num_nodes < n
  <2> DEFINE offs == [i \in 1 .. n + 1 |->
                        IF i <= Len(g.offsets) THEN g.offsets[i] ELSE Len(g.neighbors)]
  <2>1. /\ h = [g EXCEPT !.num_nodes = n, !.offsets = offs]
    BY <1>0, <1>2 DEF Extended
  <2>2. offs \in [1 .. n + 1 -> Nat]
    BY <1>0 DEF GroupOK, GroupRecord
  <2>3. offs \in Seq(Nat) /\ Len(offs) = n + 1
    BY <1>0, <2>2, SMTT(60)
  <2>4. /\ h.group_id = g.group_id /\ h.num_nodes = n /\ h.offsets = offs
        /\ h.neighbors = g.neighbors /\ h.rel_ids = g.rel_ids
        /\ h \in GroupRecord
    BY <2>1, <2>3 DEF GroupOK, GroupRecord
  <2>5. \A i \in 1 .. n + 1 :
          offs[i] = IF i <= g.num_nodes + 1 THEN g.offsets[i] ELSE Len(g.neighbors)
    BY DEF GroupOK
  <2> HIDE DEF h, offs
  <2>7. GroupOK(h)
    <3>1. \A i, j \in 1 .. n + 1 : i <= j => offs[i] <= offs[j]
      BY <1>0, <1>2, <2>5, GroupFacts
    <3>2. offs[1] = 0 /\ offs[n + 1] = Len(g.neighbors)
      BY <1>0, <1>2, <2>5, GroupFacts, SMTT(60)
    <3> QED
      BY <2>3, <2>4, <3>1, <3>2, GroupFacts DEF GroupOK
  <2>8. ASSUME NEW l \in 0 .. h.num_nodes - 1
        PROVE  EdgesAt(h, l) = IF l < g.num_nodes THEN EdgesAt(g, l) ELSE <<>>
    <3>1. CASE l < g.num_nodes
      <4>1. l \in 0 .. g.num_nodes - 1 /\ l + 2 <= g.num_nodes + 1 /\ l + 2 <= n + 1
        BY <1>0, <1>2, <3>1
      <4>2. h.offsets[l + 1] = g.offsets[l + 1] /\ h.offsets[l + 2] = g.offsets[l + 2]
        BY <1>0, <2>4, <2>5, <4>1
      <4> QED
        BY <2>4, <3>1, <4>2 DEF EdgesAt
    <3>2. CASE ~(l < g.num_nodes)
      <4>1. h.offsets[l + 1] = Len(g.neighbors) /\ h.offsets[l + 2] = Len(g.neighbors)
        <5>1. /\ l \in Nat /\ l >= g.num_nodes /\ l + 1 \in 1 .. n + 1 /\ l + 2 \in 1 .. n + 1
              /\ l + 1 <= g.num_nodes + 1 => l + 1 = g.num_nodes + 1
              /\ ~(l + 2 <= g.num_nodes + 1)
          BY <1>0, <2>4, <3>2
        <5>2. offs[l + 2] = Len(g.neighbors)
          BY <2>5, <5>1
        <5>3. offs[l + 1] = Len(g.neighbors)
          <6>1. CASE l + 1 <= g.num_nodes + 1
            BY <2>5, <5>1, <6>1, GroupFacts
          <6>2. CASE ~(l + 1 <= g.num_nodes + 1)
            BY <2>5, <5>1, <6>2
          <6> QED
            BY <6>1, <6>2
        <5> QED
          BY <2>4, <5>2, <5>3
      <4>2. EdgesAt(h, l) \in Seq(Nat \X Nat) /\ Len(EdgesAt(h, l)) = 0
        BY <1>0, <2>7, <4>1, EdgesAtType
      <4> QED
        BY <3>2, <4>2
    <3> QED
      BY <3>1, <3>2
  <2> QED
    BY <1>2, <1>0, <2>4, <2>7, <2>8 DEF h
<1> QED
  BY <1>0, <1>1, <1>2

\* insert_edge keeps a group in order; the node gets the edge as its last one
\* and no other node gains, loses or exchanges an edge.
LEMMA InsertEdgeOK ==
  ASSUME NEW g, GroupOK(g), NEW l \in 0 .. g.num_nodes - 1, NEW nb \in Nat, NEW id \in Nat
  PROVE  LET h == InsertEdge(g, l, nb, id)
         IN  /\ GroupOK(h)
             /\ h.group_id = g.group_id
             /\ h.num_nodes = g.num_nodes
             /\ Len(h.neighbors) = Len(g.neighbors) + 1
             /\ \A k \in 0 .. g.num_nodes - 1 :
                  EdgesAt(h, k) = IF k = l THEN Append(EdgesAt(g, k), <<nb, id>>)
                                  ELSE EdgesAt(g, k)
<1> DEFINE at == g.offsets[l + 2] + 1
           n == Len(g.neighbors)
           nbs == InsertAt(g.neighbors, at, nb)
           ids == InsertAt(g.rel_ids, at, id)
           offs == [i \in DOMAIN g.offsets |->
                      IF i >= l + 2 THEN g.offsets[i] + 1 ELSE g.offsets[i]]
           h == InsertEdge(g, l, nb, id)
<1>1. /\ g.num_nodes \in Nat /\ l \in Nat /\ n \in Nat
      /\ l + 1 \in 1 .. g.num_nodes + 1 /\ l + 2 \in 1 .. g.num_nodes + 1
  BY GroupFacts
<1>2. g.offsets[l + 2] \in Nat /\ at \in 1 .. n + 1
  <2>1. g.offsets[l + 2] \in Nat /\ g.offsets[l + 2] <= n
    BY <1>1, GroupFacts
  <2> HIDE DEF n
  <2> QED
    BY <1>1, <2>1
<1>3. h = [g EXCEPT !.neighbors = nbs, !.rel_ids = ids, !.offsets = offs]
  BY <1>1 DEF InsertEdge
<1>4. /\ nbs \in Seq(Nat) /\ Len(nbs) = n + 1
      /\ \A j \in 1 .. n + 1 :
           nbs[j] = IF j < at THEN g.neighbors[j] ELSE IF j = at THEN nb
                    ELSE g.neighbors[j - 1]
  <2>1. g.neighbors \in Seq(Nat) /\ at \in 1 .. Len(g.neighbors) + 1
    BY <1>2, GroupFacts
  <2> HIDE DEF at, n
  <2>2. /\ nbs \in Seq(Nat) /\ Len(nbs) = Len(g.neighbors) + 1
        /\ \A j \in 1 .. Len(g.neighbors) + 1 :
             nbs[j] =  IF j < at THEN g.neighbors[j] ELSE IF j = at THEN nb
                      ELSE g.neighbors[j - 1]
    BY <2>1, InsertAtProperties, ZenonT(60)
  <2> QED
    BY <2>2 DEF n
<1>5. /\ ids \in Seq(Nat) /\ Len(ids) = n + 1
      /\ \A j \in 1 .. n + 1 :
           ids[j] = IF j < at THEN g.rel_ids[j] ELSE IF j = at THEN id
                    ELSE g.rel_ids[j - 1]
  <2> HIDE DEF at
  <2>1. g.rel_ids \in Seq(Nat) /\ at \in 1 .. Len(g.rel_ids) + 1 /\ Len(g.rel_ids) = n
    BY <1>2, GroupFacts
  <2> HIDE DEF n
  <2>2. /\ ids \in Seq(Nat) /\ Len(ids) = Len(g.rel_ids) + 1
        /\ \A j \in 1 .. Len(g.rel_ids) + 1 :
             ids[j] =  IF j < at THEN g.rel_ids[j] ELSE IF j = at THEN id
                      ELSE g.rel_ids[j - 1]
    BY <2>1, InsertAtProperties, ZenonT(60)
  <2> QED
    BY <2>1, <2>2
<1>6. DOMAIN g.offsets = 1 .. g.num_nodes + 1
  BY GroupFacts, LenProperties
<1>7. \A i \in 1 .. g.num_nodes + 1 :
        offs[i] = IF i >= l + 2 THEN g.offsets[i] + 1 ELSE g.offsets[i]
  BY <1>6
<1>8. offs \in Seq(Nat) /\ Len(offs) = g.num_nodes + 1
  <2>1. \A i \in 1 .. g.num_nodes + 1 : offs[i] \in Nat
    BY <1>7, GroupFacts, SMTT(60)
  <2>2. offs \in [1 .. g.num_nodes + 1 -> Nat]
    BY <1>6, <2>1
  <2> HIDE DEF offs
  <2> QED
    BY <1>1, <2>2, SMTT(60)
<1> HIDE DEF nbs, ids, offs
<1>9. /\ h.group_id = g.group_id /\ h.num_nodes = g.num_nodes
      /\ h.neighbors = nbs /\ h.rel_ids = ids /\ h.offsets = offs
      /\ h \in GroupRecord
  BY <1>3, <1>4, <1>5, <1>8 DEF GroupOK, GroupRecord
<1> HIDE DEF h
<1>10. GroupOK(h)
  <2>1. ASSUME NEW i \in 1 .. g.num_nodes + 1, NEW j \in 1 .. g.num_nodes + 1, i <= j
        PROVE  offs[i] <= offs[j]
    <3>1. g.offsets[i] \in Nat /\ g.offsets[j] \in Nat /\ g.offsets[i] <= g.offsets[j]
      BY <2>1, GroupFacts
    <3>2. i >= l + 2 => j >= l + 2
      BY <1>1, <2>1
    <3> QED
      BY <1>7, <3>1, <3>2
  <2>2. offs[1] = 0 /\ offs[g.num_nodes + 1] = n + 1
    <3>1. /\ 1 \in 1 .. g.num_nodes + 1 /\ ~(1 >= l + 2)
          /\ g.num_nodes + 1 \in 1 .. g.num_nodes + 1 /\ g.num_nodes + 1 >= l + 2
      BY <1>1
    <3> QED
      BY <1>7, <3>1, GroupFacts
  <2> QED
    BY <1>4, <1>5, <1>8, <1>9, <2>1, <2>2, GroupFacts DEF GroupOK
<1>11. ASSUME NEW k \in 0 .. g.num_nodes - 1
       PROVE  EdgesAt(h, k) = IF k = l THEN Append(EdgesAt(g, k), <<nb, id>>)
                              ELSE EdgesAt(g, k)
  <2> DEFINE A == EdgesAt(g, k)
             B == EdgesAt(h, k)
             S == Nat \X Nat
             a == g.offsets[k + 1]
             b == g.offsets[k + 2]
             c == g.offsets[l + 2]
  <2>1. /\ A \in Seq(S) /\ Len(A) = b - a
        /\ \A i \in 1 .. Len(A) : A[i] = <<g.neighbors[a + i], g.rel_ids[a + i]>>
    BY EdgesAtType
  <2>2. /\ B \in Seq(S) /\ Len(B) = offs[k + 2] - offs[k + 1]
        /\ \A i \in 1 .. Len(B) : B[i] = <<nbs[offs[k + 1] + i], ids[offs[k + 1] + i]>>
    BY <1>9, <1>10, EdgesAtType, ZenonT(60)
  <2>3. k + 1 \in 1 .. g.num_nodes + 1 /\ k + 2 \in 1 .. g.num_nodes + 1 /\ k \in Nat
    BY <1>1
  <2>4. a \in Nat /\ b \in Nat /\ c \in Nat /\ a <= b /\ b <= n /\ at = c + 1
    BY <1>1, <2>3, GroupFacts
  <2>5. <<nb, id>> \in S
    OBVIOUS
  <2> HIDE DEF A, B, S, a, b, c, at, n
  <2>9. Len(A) \in Nat /\ Len(A) = b - a
    BY <2>1
  <2>6. CASE k = l
    <3>1. offs[k + 1] = a /\ offs[k + 2] = b + 1 /\ c = b
      BY <1>1, <1>7, <2>3, <2>6 DEF a, b, c
    <3>2. Len(B) = Len(A) + 1
      BY <2>1, <2>2, <2>4, <3>1
    <3>3. \A i \in 1 .. Len(A) : B[i] = A[i]
      <4> TAKE i \in 1 .. Len(A)
      <4>1. i \in 1 .. Len(B) /\ a + i \in 1 .. n + 1 /\ a + i < at
        BY <1>1, <2>4, <2>9, <3>1, <3>2
      <4> QED
        BY <1>4, <1>5, <2>1, <2>2, <3>1, <4>1
    <3>4. B[Len(A) + 1] = <<nb, id>>
      <4>1. Len(A) + 1 \in 1 .. Len(B) /\ a + (Len(A) + 1) = at
        BY <1>1, <2>4, <2>9, <3>1, <3>2
      <4> QED
        BY <1>2, <1>4, <1>5, <2>2, <3>1, <4>1
    <3>5. Append(A, <<nb, id>>) \in Seq(S) /\ Len(Append(A, <<nb, id>>)) = Len(A) + 1
      BY <2>1, <2>5
    <3>6. /\ \A i \in 1 .. Len(A) : Append(A, <<nb, id>>)[i] = A[i]
          /\ Append(A, <<nb, id>>)[Len(A) + 1] = <<nb, id>>
      BY <2>1, <2>5, AppendProperties
    <3>8. \A i \in 1 .. Len(B) : i \in 1 .. Len(A) \/ i = Len(A) + 1
      BY <2>1, <3>2
    <3>9. \A i \in 1 .. Len(B) : B[i] = Append(A, <<nb, id>>)[i]
      BY <3>3, <3>4, <3>6, <3>8
    <3>7. B = Append(A, <<nb, id>>)
      BY <2>2, <3>2, <3>5, <3>9, SeqEqual
    <3> QED
      BY <2>6, <3>7 DEF A, B
  <2>7. CASE k < l
    <3>1. offs[k + 1] = a /\ offs[k + 2] = b
      BY <1>1, <1>7, <2>3, <2>7 DEF a, b
    <3>2. b <= c
      <4>1. l + 2 \in 1 .. g.num_nodes + 1 /\ k + 2 <= l + 2
        BY <1>1, <2>3, <2>7
      <4> QED
        BY <2>3, <4>1, GroupFacts DEF b, c
    <3>3. Len(B) = Len(A)
      BY <2>1, <2>2, <3>1
    <3>4. \A i \in 1 .. Len(A) : B[i] = A[i]
      <4> TAKE i \in 1 .. Len(A)
      <4>1. i \in 1 .. Len(B) /\ a + i \in 1 .. n + 1 /\ a + i < at
        BY <1>1, <2>4, <2>9, <3>2, <3>3
      <4> QED
        BY <1>4, <1>5, <2>1, <2>2, <3>1, <4>1, ZenonT(60)
    <3>5. B = A
      BY <2>1, <2>2, <3>3, <3>4, SeqEqual
    <3> QED
      BY <2>7, <3>5 DEF A, B
  <2>8. CASE k > l
    <3>1. offs[k + 1] = a + 1 /\ offs[k + 2] = b + 1
      BY <1>1, <1>7, <2>3, <2>8 DEF a, b
    <3>2. c <= a
      <4>1. l + 2 \in 1 .. g.num_nodes + 1 /\ l + 2 <= k + 1
        BY <1>1, <2>3, <2>8
      <4> QED
        BY <2>3, <4>1, GroupFacts DEF a, c
    <3>3. Len(B) = Len(A)
      BY <2>1, <2>2, <2>4, <3>1
    <3>4. \A i \in 1 .. Len(A) : B[i] = A[i]
      <4> TAKE i \in 1 .. Len(A)
      <4> DEFINE p == a + 1 + i
      <4>1. /\ i \in 1 .. Len(B) /\ p \in 1 .. n + 1 /\ ~(p < at) /\ p # at
            /\ p - 1 = a + i
        BY <1>1, <2>4, <2>9, <3>2, <3>3
      <4>2. B[i] = <<nbs[p], ids[p]>>
        BY <2>2, <3>1, <4>1
      <4> HIDE DEF p
      <4>3. nbs[p] = g.neighbors[p - 1] /\ ids[p] = g.rel_ids[p - 1]
        BY <1>4, <1>5, <4>1
      <4> QED
        BY <2>1, <4>1, <4>2, <4>3
    <3>5. B = A
      BY <2>1, <2>2, <3>3, <3>4, SeqEqual
    <3> QED
      BY <2>8, <3>5 DEF A, B
  <2> QED
    BY <1>1, <2>3, <2>6, <2>7, <2>8
<1> QED
  BY <1>4, <1>9, <1>10, <1>11 DEF h

-----------------------------------------------------------------------------
(* One index *)

\* One index: a map from group ids to groups in order.
GroupsOK(groups) ==
  /\ groups = [id \in DOMAIN groups |-> groups[id]]
  /\ \A id \in DOMAIN groups :
       id \in Nat /\ groups[id].group_id = id /\ GroupOK(groups[id])

\* A traversal of an index in order yields pairs of a node and an id.
LEMMA TraverseFromType ==
  ASSUME NEW groups, GroupsOK(groups), NEW u \in Nat
  PROVE  TraverseFrom(groups, u) \in Seq(Nat \X Nat)
<1>1. CASE GroupOf(u) \in DOMAIN groups /\ LocalOf(u) < groups[GroupOf(u)].num_nodes
  <2>1. LocalOf(u) \in 0 .. groups[GroupOf(u)].num_nodes - 1 /\ GroupOK(groups[GroupOf(u)])
    BY <1>1, GroupLocal, GroupFacts, GroupSizeAssumption DEF GroupsOK
  <2> QED
    BY <1>1, <2>1, EdgesAtType DEF TraverseFrom
<1>2. CASE ~(GroupOf(u) \in DOMAIN groups /\ LocalOf(u) < groups[GroupOf(u)].num_nodes)
  BY <1>2 DEF TraverseFrom
<1> QED
  BY <1>1, <1>2

\* The neighbors stored in group k of the index F.
NeighborsAt(F, k) == IF k \in DOMAIN F THEN F[k].neighbors ELSE <<>>
\* The index G differs from F at group k at most.
OnlyAt(G, F, k) == \A i \in DOMAIN F : i # k => G[i] = F[i]

\* ensure_forward_group and ensure_backward_group change no traversal.
LEMMA EnsureGroupOK ==
  ASSUME NEW groups, GroupsOK(groups), NEW id \in Nat, NEW n \in 1 .. GroupSize
  PROVE  LET G == EnsureGroup(groups, id, n)
         IN  /\ GroupsOK(G)
             /\ DOMAIN G = DOMAIN groups \cup {id}
             /\ G[id].num_nodes >= n
             /\ NeighborsAt(G, id) = NeighborsAt(groups, id)
             /\ OnlyAt(G, groups, id)
             /\ \A u \in Nat : TraverseFrom(G, u) = TraverseFrom(groups, u)
<1> DEFINE G == EnsureGroup(groups, id, n)
           g == IF id \in DOMAIN groups THEN groups[id] ELSE NewGroup(id)
           h == Extended(g, n)
<1>0. n \in 0 .. GroupSize /\ n \in Nat
  BY GroupSizeAssumption
<1>1. GroupOK(g) /\ g.group_id = id
  BY NewGroupOK DEF GroupsOK
<1>2. id \notin DOMAIN groups => g.num_nodes = 0 /\ g.neighbors = <<>>
  BY NewGroupOK DEF NewGroup
<1>3. id \in DOMAIN groups => g = groups[id]
  OBVIOUS
<1>4. G = [k \in DOMAIN groups \cup {id} |-> IF k # id THEN groups[k] ELSE h]
  BY DEF EnsureGroup
<1> HIDE DEF G, g
<1>5. /\ GroupOK(h) /\ h.group_id = id
      /\ h.num_nodes = IF g.num_nodes >= n THEN g.num_nodes ELSE n
      /\ h.neighbors = g.neighbors
      /\ \A l \in 0 .. h.num_nodes - 1 :
           EdgesAt(h, l) = IF l < g.num_nodes THEN EdgesAt(g, l) ELSE <<>>
  BY <1>0, <1>1, ExtendedOK
<1> HIDE DEF h
<1>6. /\ DOMAIN G = DOMAIN groups \cup {id} /\ G[id] = h
      /\ \A k \in DOMAIN groups : k # id => G[k] = groups[k]
      /\ G = [k \in DOMAIN G |-> G[k]]
  BY <1>4
<1>7. GroupsOK(G)
  BY <1>5, <1>6 DEF GroupsOK
<1>8. g.num_nodes \in Nat /\ h.num_nodes \in Nat
  BY <1>1, <1>5, GroupFacts
<1>9. G[id].num_nodes >= n
  BY <1>0, <1>5, <1>6, <1>8
<1>10. ASSUME NEW u \in Nat
       PROVE  TraverseFrom(G, u) = TraverseFrom(groups, u)
  <2>1. CASE GroupOf(u) # id
    BY <1>6, <2>1 DEF TraverseFrom
  <2>2. CASE GroupOf(u) = id /\ LocalOf(u) < g.num_nodes /\ id \in DOMAIN groups
    <3>0. LocalOf(u) \in Nat
      BY GroupLocal, GroupSizeAssumption
    <3>1. LocalOf(u) \in 0 .. h.num_nodes - 1 /\ LocalOf(u) < h.num_nodes
      BY <1>0, <1>5, <1>8, <2>2, <3>0
    <3>2. EdgesAt(h, LocalOf(u)) = EdgesAt(g, LocalOf(u))
      BY <1>5, <2>2, <3>1
    <3> QED
      BY <1>3, <1>6, <2>2, <3>1, <3>2 DEF TraverseFrom
  <2>3. CASE GroupOf(u) = id /\ ~(LocalOf(u) < g.num_nodes /\ id \in DOMAIN groups)
    <3>1. TraverseFrom(groups, u) = <<>>
      BY <1>3, <2>3 DEF TraverseFrom
    <3>2. LocalOf(u) \in Nat /\ ~(LocalOf(u) < g.num_nodes)
      <4>1. LocalOf(u) \in Nat
        BY GroupLocal, GroupSizeAssumption
      <4>2. CASE id \notin DOMAIN groups
        BY <1>2, <4>1, <4>2
      <4>3. CASE id \in DOMAIN groups
        BY <2>3, <4>1, <4>3
      <4> QED
        BY <4>2, <4>3
    <3>3. LocalOf(u) < h.num_nodes => EdgesAt(h, LocalOf(u)) = <<>>
      BY <1>5, <1>8, <3>2
    <3> QED
      BY <1>6, <2>3, <3>1, <3>3 DEF TraverseFrom
  <2> QED
    BY <2>1, <2>2, <2>3
<1>11. NeighborsAt(G, id) = NeighborsAt(groups, id) /\ OnlyAt(G, groups, id)
  BY <1>2, <1>3, <1>5, <1>6 DEF NeighborsAt, OnlyAt
<1> QED
  BY <1>6, <1>7, <1>9, <1>10, <1>11 DEF G

\* An insert into one index adds the edge to the traversal from its node and
\* changes the traversal from no other.
LEMMA WithEdgeOK ==
  ASSUME NEW groups, NEW node, NEW nb, NEW id,
         GroupsOK(groups), node \in Nat, nb \in Nat, id \in Nat
  PROVE  /\ GroupsOK(WithEdge(groups, node, nb, id))
         /\ TraverseFrom(WithEdge(groups, node, nb, id), node) =
              Append(TraverseFrom(groups, node), <<nb, id>>)
         /\ \A u \in Nat \ {node} :
              TraverseFrom(WithEdge(groups, node, nb, id), u) = TraverseFrom(groups, u)
<1> DEFINE W == WithEdge(groups, node, nb, id)
           k == GroupOf(node)
           l == LocalOf(node)
           G == EnsureGroup(groups, k, l + 1)
           h == InsertEdge(G[k], l, nb, id)
<1>1. k \in Nat /\ l \in Nat /\ l + 1 \in 1 .. GroupSize
  <2>1. k \in Nat /\ l \in 0 .. GroupSize - 1
    BY GroupLocal
  <2> HIDE DEF k, l
  <2> QED
    BY <2>1, GroupSizeAssumption
<1>2. W = [G EXCEPT ![k] = h]
  BY DEF WithEdge
<1> HIDE DEF k, l, G, W
<1>3. /\ GroupsOK(G) /\ DOMAIN G = DOMAIN groups \cup {k}
      /\ G[k].num_nodes >= l + 1
      /\ \A u \in Nat : TraverseFrom(G, u) = TraverseFrom(groups, u)
  BY <1>1, EnsureGroupOK DEF G
<1>4. GroupOK(G[k]) /\ G[k].num_nodes \in Nat /\ G[k].group_id = k
  BY <1>3, GroupFacts DEF GroupsOK
<1>5. l \in 0 .. G[k].num_nodes - 1
  BY <1>1, <1>3, <1>4
<1>6. /\ GroupOK(h) /\ h.group_id = k /\ h.num_nodes = G[k].num_nodes
      /\ \A i \in 0 .. G[k].num_nodes - 1 :
           EdgesAt(h, i) = IF i = l THEN Append(EdgesAt(G[k], i), <<nb, id>>)
                           ELSE EdgesAt(G[k], i)
  <2> DEFINE g == G[k]
  <2>1. GroupOK(g) /\ g.num_nodes \in Nat /\ g.group_id = k /\ l \in 0 .. g.num_nodes - 1
    BY <1>4, <1>5
  <2> HIDE DEF g
  <2>2. /\ GroupOK(InsertEdge(g, l, nb, id))
        /\ InsertEdge(g, l, nb, id).group_id = g.group_id
        /\ InsertEdge(g, l, nb, id).num_nodes = g.num_nodes
        /\ \A i \in 0 .. g.num_nodes - 1 :
             EdgesAt(InsertEdge(g, l, nb, id), i) =
               IF i = l THEN Append(EdgesAt(g, i), <<nb, id>>) ELSE EdgesAt(g, i)
    BY <2>1, InsertEdgeOK
  <2> QED
    BY <2>1, <2>2 DEF g
<1> HIDE DEF h
<1>7. /\ DOMAIN W = DOMAIN G /\ k \in DOMAIN W /\ W[k] = h
      /\ \A i \in DOMAIN G : i # k => W[i] = G[i]
      /\ W = [i \in DOMAIN W |-> W[i]]
  BY <1>2, <1>3 DEF GroupsOK
<1>8. GroupsOK(W)
  BY <1>3, <1>6, <1>7 DEF GroupsOK
<1>9. ASSUME NEW u \in Nat
      PROVE  TraverseFrom(W, u) =
               IF u = node THEN Append(TraverseFrom(G, u), <<nb, id>>)
               ELSE TraverseFrom(G, u)
  <2>1. CASE GroupOf(u) # k
    BY <1>7, <2>1 DEF TraverseFrom, k
  <2>2. CASE GroupOf(u) = k /\ LocalOf(u) < G[k].num_nodes
    <3>1. LocalOf(u) \in 0 .. G[k].num_nodes - 1
      BY <1>4, <2>2, GroupLocal, GroupSizeAssumption
    <3>2. LocalOf(u) = l <=> u = node
      BY <2>2, NodeOfGroup DEF k, l
    <3>3. /\ TraverseFrom(W, u) = EdgesAt(h, LocalOf(u))
          /\ TraverseFrom(G, u) = EdgesAt(G[k], LocalOf(u))
      BY <1>6, <1>7, <2>2 DEF TraverseFrom
    <3> QED
      BY <1>6, <3>1, <3>2, <3>3
  <2>3. CASE GroupOf(u) = k /\ ~(LocalOf(u) < G[k].num_nodes)
    <3>1. u # node
      BY <1>1, <1>3, <1>4, <2>3 DEF l
    <3> QED
      BY <1>6, <1>7, <2>3, <3>1 DEF TraverseFrom
  <2> QED
    BY <2>1, <2>2, <2>3
<1> QED
  BY <1>3, <1>8, <1>9 DEF W

\* An insert into one index makes one vector of neighbors longer by one.
LEMMA WithEdgeLen ==
  ASSUME NEW groups, NEW node, NEW nb, NEW id,
         GroupsOK(groups), node \in Nat, nb \in Nat, id \in Nat
  PROVE  LET W == WithEdge(groups, node, nb, id)
             k == GroupOf(node)
         IN  /\ DOMAIN W = DOMAIN groups \cup {k}
             /\ OnlyAt(W, groups, k)
             /\ Len(NeighborsAt(W, k)) = Len(NeighborsAt(groups, k)) + 1
<1> DEFINE W == WithEdge(groups, node, nb, id)
           k == GroupOf(node)
           l == LocalOf(node)
           G == EnsureGroup(groups, k, l + 1)
           g == G[k]
           h == InsertEdge(g, l, nb, id)
<1>1. k \in Nat /\ l \in Nat /\ l + 1 \in 1 .. GroupSize
  <2>1. k \in Nat /\ l \in 0 .. GroupSize - 1
    BY GroupLocal
  <2> HIDE DEF k, l
  <2> QED
    BY <2>1, GroupSizeAssumption
<1>2. W = [G EXCEPT ![k] = h]
  BY DEF WithEdge
<1> HIDE DEF k, l, G, W
<1>3. /\ GroupsOK(G) /\ DOMAIN G = DOMAIN groups \cup {k}
      /\ g.num_nodes >= l + 1
      /\ NeighborsAt(G, k) = NeighborsAt(groups, k)
      /\ OnlyAt(G, groups, k)
  <2> DEFINE n == l + 1
  <2>1. k \in Nat /\ n \in 1 .. GroupSize
    BY <1>1
  <2> HIDE DEF n
  <2>2. LET H == EnsureGroup(groups, k, n)
        IN  /\ GroupsOK(H) /\ DOMAIN H = DOMAIN groups \cup {k}
            /\ H[k].num_nodes >= n
            /\ NeighborsAt(H, k) = NeighborsAt(groups, k)
            /\ OnlyAt(H, groups, k)
    BY <2>1, EnsureGroupOK
  <2> QED
    BY <2>2 DEF G, n
<1>4. GroupOK(g) /\ g.num_nodes \in Nat
  BY <1>3, GroupFacts DEF GroupsOK
<1>5. l \in 0 .. g.num_nodes - 1
  BY <1>1, <1>3, <1>4
<1>6. W[k] = h
  BY <1>2, <1>3
<1>7. OnlyAt(W, groups, k)
  BY <1>2, <1>3 DEF OnlyAt
<1>8. DOMAIN W = DOMAIN groups \cup {k}
  BY <1>2, <1>3
<1>9. NeighborsAt(W, k) = h.neighbors /\ g.neighbors = NeighborsAt(groups, k)
  BY <1>3, <1>6, <1>8 DEF NeighborsAt
<1> HIDE DEF g
<1>10. Len(h.neighbors) = Len(g.neighbors) + 1
  BY <1>4, <1>5, InsertEdgeOK
<1> QED
  BY <1>7, <1>8, <1>9, <1>10 DEF W, k

-----------------------------------------------------------------------------
(* What len counts *)

\* The places of the edges in the groups of s, and in a whole index.
SlotsIn(F, s) == {x \in s \X Nat : x[2] \in 1 .. Len(F[x[1]].neighbors)}
Slots(F) == SlotsIn(F, DOMAIN F)

\* f counts the edges of every set of groups as the fold in len does.
CountsGroups(F, f) ==
  f = [s \in SUBSET DOMAIN F |->
         IF s = {} THEN 0
         ELSE f[s \ {CHOOSE x \in s : TRUE}] + Len(F[CHOOSE x \in s : TRUE].neighbors)]

\* A group of n edges has n places.
LEMMA SlotsOfGroup ==
  ASSUME NEW k, NEW n, n \in Nat
  PROVE  IsFiniteSet({k} \X (1 .. n)) /\ Cardinality({k} \X (1 .. n)) = n
<1>1. IsFiniteSet({k}) /\ Cardinality({k}) = 1
  BY FS_Singleton
<1>2. IsFiniteSet(1 .. n) /\ Cardinality(1 .. n) = n
  BY FS_Interval
<1> DEFINE A == {k}
           B == 1 .. n
<1> HIDE DEF A, B
<1>3. IsFiniteSet(A \X B) /\ Cardinality(A \X B) = Cardinality(A) * Cardinality(B)
  BY <1>1, <1>2, FS_Product DEF A, B
<1>4. IsFiniteSet({k} \X (1 .. n)) /\ Cardinality({k} \X (1 .. n)) = 1 * n
  BY <1>1, <1>2, <1>3 DEF A, B
<1> QED
  BY <1>4

\* The places of one more group are added to the count.
LEMMA SlotsAdded ==
  ASSUME NEW F, NEW s, NEW k, k \notin s, Len(F[k].neighbors) \in Nat,
         IsFiniteSet(SlotsIn(F, s))
  PROVE  /\ IsFiniteSet(SlotsIn(F, s \cup {k}))
         /\ Cardinality(SlotsIn(F, s \cup {k})) =
              Cardinality(SlotsIn(F, s)) + Len(F[k].neighbors)
<1> DEFINE n == Len(F[k].neighbors)
           A == SlotsIn(F, s)
           B == {k} \X (1 .. n)
<1>1. SlotsIn(F, s \cup {k}) = A \cup B
  <2>1. \A i \in 1 .. n : i \in Nat
    OBVIOUS
  <2> QED
    BY <2>1 DEF SlotsIn
<1>2. A \cap B = {}
  BY DEF SlotsIn
<1>3. IsFiniteSet(B) /\ Cardinality(B) = n
  BY SlotsOfGroup
<1> HIDE DEF A, B
<1>4. /\ IsFiniteSet(A \cup B)
      /\ Cardinality(A \cup B) = Cardinality(A) + Cardinality(B) - Cardinality({})
  BY <1>2, <1>3, FS_Union DEF A
<1>5. Cardinality({}) = 0 /\ Cardinality(A) \in Nat
  BY FS_EmptySet, FS_CardinalityType DEF A
<1> HIDE DEF n
<1>6. n \in Nat /\ Cardinality(A \cup B) = Cardinality(A) + n
  BY <1>3, <1>4, <1>5 DEF n
<1> QED
  BY <1>1, <1>4, <1>6 DEF A, n

\* Of a nonempty set of subsets of a finite set one contains no other.
LEMMA LeastSubset ==
  ASSUME NEW D, IsFiniteSet(D), NEW T, T \subseteq SUBSET D, T # {}
  PROVE  \E s \in T : \A r \in T : r \subseteq s => r = s
<1>1. IsWellFoundedOn(StrictSubsetOrdering(D), SUBSET D)
  BY FS_StrictSubsetOrderingWellFounded, FS_FiniteSubsetsOfFinite
<1>2. PICK s \in T : \A r \in T : <<r, s>> \notin StrictSubsetOrdering(D)
  BY <1>1, WFMin
<1>3. \A r \in T : r \in SUBSET D /\ s \in SUBSET D
  OBVIOUS
<1> QED
  BY <1>2, <1>3 DEF StrictSubsetOrdering

\* An index has finitely many places.
LEMMA SlotsFinite ==
  ASSUME NEW F, NEW D, IsFiniteSet(D), \A k \in D : Len(F[k].neighbors) \in Nat
  PROVE  \A s \in SUBSET D : IsFiniteSet(SlotsIn(F, s))
<1> DEFINE T == {s \in SUBSET D : ~IsFiniteSet(SlotsIn(F, s))}
<1> SUFFICES ASSUME T # {} PROVE FALSE
  OBVIOUS
<1>1. PICK s \in T : \A r \in T : r \subseteq s => r = s
  <2>1. T \subseteq SUBSET D
    OBVIOUS
  <2> HIDE DEF T
  <2> QED
    BY <2>1, LeastSubset
<1>2. s # {}
  <2>1. SlotsIn(F, {}) = {}
    BY DEF SlotsIn
  <2> QED
    BY <2>1, FS_EmptySet
<1>3. PICK k \in s : TRUE
  BY <1>2
<1>4. s \ {k} \in SUBSET D /\ k \in D /\ s = (s \ {k}) \cup {k} /\ s \ {k} # s
  BY <1>3
<1>5. IsFiniteSet(SlotsIn(F, s \ {k}))
  BY <1>1, <1>4
<1>6. IsFiniteSet(SlotsIn(F, s))
  BY <1>4, <1>5, SlotsAdded
<1> QED
  BY <1>6

\* The fold has one value: of two functions that satisfy its equation, the
\* least set of groups where they differ cannot exist.
LEMMA CountsUnique ==
  ASSUME NEW F, IsFiniteSet(DOMAIN F), NEW f, CountsGroups(F, f), NEW g, CountsGroups(F, g)
  PROVE  \A s \in SUBSET DOMAIN F : f[s] = g[s]
<1> DEFINE T == {s \in SUBSET DOMAIN F : f[s] # g[s]}
<1> SUFFICES ASSUME T # {} PROVE FALSE
  OBVIOUS
<1>1. PICK s \in T : \A r \in T : r \subseteq s => r = s
  <2>1. T \subseteq SUBSET DOMAIN F
    OBVIOUS
  <2> HIDE DEF T
  <2> QED
    BY <2>1, LeastSubset
<1>2. s # {}
  BY DEF CountsGroups
<1> DEFINE k == CHOOSE x \in s : TRUE
<1>3. k \in s
  BY <1>2
<1>4. /\ f[s] = f[s \ {k}] + Len(F[k].neighbors)
      /\ g[s] = g[s \ {k}] + Len(F[k].neighbors)
  BY <1>2 DEF CountsGroups
<1> HIDE DEF k
<1>5. s \ {k} \in SUBSET DOMAIN F /\ s \ {k} # s
  BY <1>3
<1>6. f[s \ {k}] = g[s \ {k}]
  BY <1>1, <1>5
<1> QED
  BY <1>4, <1>6

\* The number of places satisfies the equation of the fold.
LEMMA SlotsCount ==
  ASSUME NEW F, IsFiniteSet(DOMAIN F), \A k \in DOMAIN F : Len(F[k].neighbors) \in Nat
  PROVE  CountsGroups(F, [s \in SUBSET DOMAIN F |-> Cardinality(SlotsIn(F, s))])
<1> DEFINE f == [s \in SUBSET DOMAIN F |-> Cardinality(SlotsIn(F, s))]
           h == [s \in SUBSET DOMAIN F |->
                  IF s = {} THEN 0
                  ELSE f[s \ {CHOOSE x \in s : TRUE}] + Len(F[CHOOSE x \in s : TRUE].neighbors)]
<1>1. ASSUME NEW s \in SUBSET DOMAIN F PROVE f[s] = h[s]
  <2>1. CASE s = {}
    <3>1. SlotsIn(F, {}) = {}
      BY DEF SlotsIn
    <3> QED
      BY <2>1, <3>1, FS_EmptySet
  <2>2. CASE s # {}
    <3> DEFINE k == CHOOSE x \in s : TRUE
    <3>1. k \in s
      BY <2>2
    <3>2. h[s] = f[s \ {k}] + Len(F[k].neighbors)
      BY <2>2
    <3> HIDE DEF k, h
    <3>3. /\ s \ {k} \in SUBSET DOMAIN F /\ k \in DOMAIN F
          /\ k \notin s \ {k} /\ s = (s \ {k}) \cup {k}
      BY <3>1
    <3>4. IsFiniteSet(SlotsIn(F, s \ {k}))
      BY <3>3, SlotsFinite
    <3>5. Cardinality(SlotsIn(F, s)) =
            Cardinality(SlotsIn(F, s \ {k})) + Len(F[k].neighbors)
      BY <3>3, <3>4, SlotsAdded
    <3> QED
      BY <3>2, <3>3, <3>5
  <2> QED
    BY <2>1, <2>2
<1>2. f = h
  BY <1>1
<1> QED
  BY <1>2 DEF CountsGroups

\* len is the number of places in the forward index.
LEMMA TableLenCounts ==
  ASSUME NEW t, IsFiniteSet(DOMAIN t.forward_groups),
         \A k \in DOMAIN t.forward_groups : Len(t.forward_groups[k].neighbors) \in Nat
  PROVE  TableLen(t) = Cardinality(Slots(t.forward_groups))
<1> DEFINE F == t.forward_groups
           f == CHOOSE g : CountsGroups(F, g)
           c == [s \in SUBSET DOMAIN F |-> Cardinality(SlotsIn(F, s))]
<1>1. TableLen(t) = f[DOMAIN F]
  BY DEF TableLen, FoldSet, MapThenFoldSet, CountsGroups
<1>2. CountsGroups(F, c)
  BY SlotsCount
<1>3. CountsGroups(F, f)
  BY <1>2
<1> HIDE DEF f
<1>4. f[DOMAIN F] = c[DOMAIN F]
  BY <1>2, <1>3, CountsUnique
<1> QED
  BY <1>1, <1>4 DEF Slots

\* An insert into one index adds one place.
LEMMA WithEdgeSlots ==
  ASSUME NEW groups, NEW node, NEW nb, NEW id,
         GroupsOK(groups), node \in Nat, nb \in Nat, id \in Nat,
         IsFiniteSet(DOMAIN groups), IsFiniteSet(Slots(groups))
  PROVE  LET W == WithEdge(groups, node, nb, id)
         IN  /\ IsFiniteSet(DOMAIN W) /\ IsFiniteSet(Slots(W))
             /\ Cardinality(Slots(W)) = Cardinality(Slots(groups)) + 1
<1> DEFINE W == WithEdge(groups, node, nb, id)
           k == GroupOf(node)
           n == Len(NeighborsAt(groups, k))
           x == <<k, n + 1>>
<1>1. /\ DOMAIN W = DOMAIN groups \cup {k}
      /\ OnlyAt(W, groups, k)
      /\ Len(NeighborsAt(W, k)) = Len(NeighborsAt(groups, k)) + 1
  BY WithEdgeLen
<1>2. n \in Nat /\ k \in Nat
  BY GroupFacts, GroupLocal DEF GroupsOK, NeighborsAt
<1> HIDE DEF W, k
<1>3. Len(W[k].neighbors) = n + 1
  BY <1>1 DEF NeighborsAt
<1>4. k \in DOMAIN groups => n = Len(groups[k].neighbors)
  BY DEF NeighborsAt
<1>5. k \notin DOMAIN groups => n = 0
  BY DEF NeighborsAt
<1> HIDE DEF n
<1>6. ASSUME NEW i, NEW j \in Nat
      PROVE  <<i, j>> \in Slots(W) <=> <<i, j>> \in Slots(groups) \/ <<i, j>> = x
  <2>1. CASE i # k
    BY <1>1, <2>1 DEF Slots, SlotsIn, OnlyAt
  <2>2. CASE i = k
    <3>1. <<i, j>> \in Slots(W) <=> j \in 1 .. n + 1
      BY <1>1, <1>3, <2>2 DEF Slots, SlotsIn
    <3>2. <<i, j>> \in Slots(groups) <=> j \in 1 .. n
      BY <1>2, <1>4, <1>5, <2>2 DEF Slots, SlotsIn
    <3>3. j \in 1 .. n + 1 <=> j \in 1 .. n \/ j = n + 1
      BY <1>2
    <3> QED
      BY <2>2, <3>1, <3>2, <3>3
  <2> QED
    BY <2>1, <2>2
<1>7. Slots(W) = Slots(groups) \cup {x}
  <2>1. \A y \in Slots(W) : \E i, j : j \in Nat /\ y = <<i, j>>
    BY DEF Slots, SlotsIn
  <2>2. \A y \in Slots(groups) : \E i, j : j \in Nat /\ y = <<i, j>>
    BY DEF Slots, SlotsIn
  <2>3. n + 1 \in Nat
    BY <1>2
  <2> QED
    BY <1>6, <2>1, <2>2, <2>3
<1>8. x \notin Slots(groups)
  BY <1>2, <1>4 DEF Slots, SlotsIn
<1> HIDE DEF x
<1>9. IsFiniteSet(Slots(W)) /\ Cardinality(Slots(W)) = Cardinality(Slots(groups)) + 1
  BY <1>7, <1>8, FS_AddElement
<1>10. IsFiniteSet(DOMAIN W)
  BY <1>1, FS_AddElement
<1> QED
  BY <1>9, <1>10 DEF W

-----------------------------------------------------------------------------
(* The table *)

\* v is reached from u through relationship r, forwards and backwards.
Forward(t, u, v, r) == Contains(TraverseFrom(t.forward_groups, u), <<v, r>>)
Backward(t, u, v, r) == Contains(TraverseFrom(t.backward_groups, u), <<v, r>>)

\* Both indexes are in order and properties are kept for given ids only.
TableOK(t) ==
  /\ t = [forward_groups |-> t.forward_groups, backward_groups |-> t.backward_groups,
          next_rel_id |-> t.next_rel_id, properties |-> t.properties]
  /\ GroupsOK(t.forward_groups) /\ GroupsOK(t.backward_groups)
  /\ t.next_rel_id \in Nat
  /\ t.properties = [id \in DOMAIN t.properties |-> t.properties[id]]
  /\ DOMAIN t.properties \subseteq 0 .. t.next_rel_id - 1
  /\ \A id \in DOMAIN t.properties : t.properties[id] \in PropLists

\* The edges link nodes and have ids below the counter.
LinksNodes(t) ==
  \A u, v, r \in Nat :
    Forward(t, u, v, r) \/ Backward(t, u, v, r) =>
      u \in Nodes /\ v \in Nodes /\ r < t.next_rel_id

\* Every id below the counter is the id of exactly one forward edge.
IdsOnce(t) ==
  /\ \A r \in Nat : r < t.next_rel_id => \E u, v \in Nat : Forward(t, u, v, r)
  /\ \A u, v, x, y, r \in Nat :
       Forward(t, u, v, r) /\ Forward(t, x, y, r) => u = x /\ v = y

\* The ids of a traversal ascend; none of them exceeds r.
IdsAscend(s) == \A i, j \in 1 .. Len(s) : i < j => s[i][2] <= s[j][2]
IdsUpTo(s, r) == \A i \in 1 .. Len(s) : s[i][2] <= r

\* iter yields as many edges as ids were given.
AllIterated(t) ==
  IsFiniteSet(Iter(t)) /\ Cardinality(Iter(t)) = t.next_rel_id

\* The forward index has as many places as ids were given.
LenCounts(t) ==
  /\ IsFiniteSet(DOMAIN t.forward_groups) /\ IsFiniteSet(Slots(t.forward_groups))
  /\ Cardinality(Slots(t.forward_groups)) = t.next_rel_id

\* The invariant of one table.
TableInv(t) ==
  /\ TableOK(t) /\ LinksNodes(t) /\ BothWays(t) /\ InOrder(t) /\ IdsOnce(t)
  /\ AllIterated(t) /\ LenCounts(t)

\* An appended sequence contains the new element besides the old ones.
LEMMA ContainsAppend ==
  ASSUME NEW s \in Seq(Nat \X Nat), NEW v \in Nat, NEW r \in Nat, NEW x
  PROVE  Contains(Append(s, <<v, r>>), x) <=> Contains(s, x) \/ x = <<v, r>>
<1>1. <<v, r>> \in Nat \X Nat
  OBVIOUS
<1> DEFINE e == <<v, r>>
           a == Append(s, e)
<1> HIDE DEF e
<1>2. /\ Len(a) = Len(s) + 1 /\ Len(s) \in Nat
      /\ \A i \in 1 .. Len(s) : a[i] = s[i]
      /\ a[Len(s) + 1] = e
  BY <1>1, AppendProperties, LenProperties DEF e
<1> HIDE DEF a
<1>3. \A i \in 1 .. Len(a) : i \in 1 .. Len(s) \/ i = Len(s) + 1
  BY <1>2
<1>4. Len(s) + 1 \in 1 .. Len(a) /\ \A i \in 1 .. Len(s) : i \in 1 .. Len(a)
  BY <1>2
<1>5. Contains(a, x) <=> Contains(s, x) \/ x = e
  BY <1>2, <1>3, <1>4 DEF Contains
<1> QED
  BY <1>5 DEF a, e

\* The fields of an edge a caller passes.
LEMMA EdgeType ==
  ASSUME NEW e \in Edge
  PROVE  /\ e.src \in Nodes /\ e.dst \in Nodes /\ e.src \in Nat /\ e.dst \in Nat
         /\ e.props \in PropLists
         /\ e = [src |-> e.src, dst |-> e.dst, props |-> e.props]
BY NumNodesAssumption DEF Edge, Nodes

\* What insert does to the traversals from every node, to the counter and to
\* the properties.
LEMMA InsertedOK ==
  ASSUME NEW t, TableOK(t), NEW e \in Edge
  PROVE  LET T == Inserted(t, e)
             id == t.next_rel_id
         IN  /\ TableOK(T)
             /\ T.next_rel_id = id + 1
             /\ \A u \in Nat :
                  /\ TraverseFrom(T.forward_groups, u) =
                       IF u = e.src
                       THEN Append(TraverseFrom(t.forward_groups, u), <<e.dst, id>>)
                       ELSE TraverseFrom(t.forward_groups, u)
                  /\ TraverseFrom(T.backward_groups, u) =
                       IF u = e.dst
                       THEN Append(TraverseFrom(t.backward_groups, u), <<e.src, id>>)
                       ELSE TraverseFrom(t.backward_groups, u)
             /\ \A r \in Nat : r < id => PropsOf(T, r) = PropsOf(t, r)
             /\ PropsOf(T, id) = e.props
<1> DEFINE T == Inserted(t, e)
           id == t.next_rel_id
           F == WithEdge(t.forward_groups, e.src, e.dst, id)
           B == WithEdge(t.backward_groups, e.dst, e.src, id)
           P == IF e.props = <<>> THEN t.properties
                ELSE [k \in DOMAIN t.properties \cup {id} |->
                        IF k = id THEN e.props ELSE t.properties[k]]
<1>1. id \in Nat /\ GroupsOK(t.forward_groups) /\ GroupsOK(t.backward_groups)
  BY DEF TableOK
<1>2. T = [forward_groups |-> F, backward_groups |-> B, next_rel_id |-> id + 1,
           properties |-> P]
  BY DEF Inserted
<1>3. /\ GroupsOK(F)
      /\ \A u \in Nat :
           TraverseFrom(F, u) =
             IF u = e.src THEN Append(TraverseFrom(t.forward_groups, u), <<e.dst, id>>)
             ELSE TraverseFrom(t.forward_groups, u)
  <2>1. PICK a \in Nat, z \in Nat, i \in Nat : a = e.src /\ z = e.dst /\ i = id
    BY <1>1, EdgeType
  <2> DEFINE G == t.forward_groups
             W == WithEdge(G, a, z, i)
  <2>2. /\ GroupsOK(W)
        /\ TraverseFrom(W, a) = Append(TraverseFrom(G, a), <<z, i>>)
        /\ \A u \in Nat \ {a} : TraverseFrom(W, u) = TraverseFrom(G, u)
    BY <1>1, WithEdgeOK
  <2> HIDE DEF G, W
  <2>3. \A u \in Nat :
          TraverseFrom(W, u) =
            IF u = a THEN Append(TraverseFrom(G, u), <<z, i>>) ELSE TraverseFrom(G, u)
    BY <2>2
  <2> QED
    BY <2>1, <2>2, <2>3 DEF G, W
<1>4. /\ GroupsOK(B)
      /\ \A u \in Nat :
           TraverseFrom(B, u) =
             IF u = e.dst THEN Append(TraverseFrom(t.backward_groups, u), <<e.src, id>>)
             ELSE TraverseFrom(t.backward_groups, u)
  <2>1. PICK a \in Nat, z \in Nat, i \in Nat : a = e.dst /\ z = e.src /\ i = id
    BY <1>1, EdgeType
  <2> DEFINE G == t.backward_groups
             W == WithEdge(G, a, z, i)
  <2>2. /\ GroupsOK(W)
        /\ TraverseFrom(W, a) = Append(TraverseFrom(G, a), <<z, i>>)
        /\ \A u \in Nat \ {a} : TraverseFrom(W, u) = TraverseFrom(G, u)
    BY <1>1, WithEdgeOK
  <2> HIDE DEF G, W
  <2>3. \A u \in Nat :
          TraverseFrom(W, u) =
            IF u = a THEN Append(TraverseFrom(G, u), <<z, i>>) ELSE TraverseFrom(G, u)
    BY <2>2
  <2> QED
    BY <2>1, <2>2, <2>3 DEF G, W
<1>5. /\ P = [k \in DOMAIN P |-> P[k]]
      /\ DOMAIN P \subseteq 0 .. id
      /\ \A k \in DOMAIN P : P[k] \in PropLists
  <2>1. /\ DOMAIN P \subseteq DOMAIN t.properties \cup {id}
        /\ P = [k \in DOMAIN P |-> P[k]]
        /\ \A k \in DOMAIN P : P[k] \in PropLists
    BY EdgeType DEF TableOK
  <2>2. \A k \in 0 .. id - 1 : k \in 0 .. id
    BY <1>1
  <2>3. id \in 0 .. id
    BY <1>1
  <2> QED
    BY <2>1, <2>2, <2>3 DEF TableOK
<1>6. /\ \A r \in Nat : r < id => PropsOf(T, r) = PropsOf(t, r)
      /\ PropsOf(T, id) = e.props
  <2>1. id \notin DOMAIN t.properties
    BY <1>1 DEF TableOK
  <2>2. \A r \in Nat : r < id => r # id
    BY <1>1
  <2>3. T.properties = P
    BY <1>2
  <2> QED
    BY <2>1, <2>2, <2>3 DEF PropsOf
<1> HIDE DEF T, F, B, P
<1>7. TableOK(T)
  BY <1>1, <1>2, <1>3, <1>4, <1>5 DEF TableOK
<1> QED
  BY <1>2, <1>3, <1>4, <1>6, <1>7 DEF T

\* insert adds one edge to each index, in opposite directions.
LEMMA InsertedLinks ==
  ASSUME NEW t, TableOK(t), NEW e \in Edge, NEW u \in Nat, NEW v \in Nat, NEW r \in Nat
  PROVE  /\ Forward(Inserted(t, e), u, v, r) <=>
              Forward(t, u, v, r) \/ (u = e.src /\ v = e.dst /\ r = t.next_rel_id)
         /\ Backward(Inserted(t, e), u, v, r) <=>
              Backward(t, u, v, r) \/ (u = e.dst /\ v = e.src /\ r = t.next_rel_id)
<1> DEFINE T == Inserted(t, e)
           id == t.next_rel_id
           f == TraverseFrom(t.forward_groups, u)
           b == TraverseFrom(t.backward_groups, u)
<1>1. id \in Nat /\ f \in Seq(Nat \X Nat) /\ b \in Seq(Nat \X Nat)
  BY TraverseFromType DEF TableOK
<1>2. /\ TraverseFrom(T.forward_groups, u) =
           IF u = e.src THEN Append(f, <<e.dst, id>>) ELSE f
      /\ TraverseFrom(T.backward_groups, u) =
           IF u = e.dst THEN Append(b, <<e.src, id>>) ELSE b
  BY InsertedOK
<1> HIDE DEF T, id, f, b
<1>3. /\ Contains(Append(f, <<e.dst, id>>), <<v, r>>) <=>
           Contains(f, <<v, r>>) \/ <<v, r>> = <<e.dst, id>>
      /\ Contains(Append(b, <<e.src, id>>), <<v, r>>) <=>
           Contains(b, <<v, r>>) \/ <<v, r>> = <<e.src, id>>
  BY <1>1, EdgeType, ContainsAppend
<1>4. /\ Contains(TraverseFrom(T.forward_groups, u), <<v, r>>) <=>
           Contains(f, <<v, r>>) \/ (u = e.src /\ v = e.dst /\ r = id)
      /\ Contains(TraverseFrom(T.backward_groups, u), <<v, r>>) <=>
           Contains(b, <<v, r>>) \/ (u = e.dst /\ v = e.src /\ r = id)
  BY <1>2, <1>3
<1> QED
  BY <1>4 DEF T, id, f, b, Forward, Backward

\* iter yields exactly the edges of the forward traversals.
LEMMA IterIsForward ==
  ASSUME NEW t, TableOK(t), NEW x
  PROVE  x \in Iter(t) <=>
           \E u, v, r \in Nat : Forward(t, u, v, r) /\ x = [src |-> u, dst |-> v, id |-> r]
<1> DEFINE F == t.forward_groups
<1>1. GroupsOK(F)
  BY DEF TableOK
<1>2. ASSUME NEW u \in Nat, NEW v \in Nat, NEW r \in Nat, Forward(t, u, v, r)
      PROVE  [src |-> u, dst |-> v, id |-> r] \in Iter(t)
  <2> DEFINE k == GroupOf(u)
             l == LocalOf(u)
  <2>1. k \in DOMAIN F /\ l < F[k].num_nodes /\ Contains(EdgesAt(F[k], l), <<v, r>>)
    <3>1. ~Contains(<<>>, <<v, r>>)
      BY DEF Contains
    <3> QED
      BY <1>2, <3>1 DEF Forward, TraverseFrom
  <2>2. k \in Nat /\ l \in 0 .. GroupSize - 1 /\ u = k * GroupSize + l
    BY GroupLocal
  <2>3. GroupOK(F[k]) /\ l \in 0 .. F[k].num_nodes - 1
    <3>1. GroupOK(F[k]) /\ F[k].num_nodes \in Nat
      BY <1>1, <2>1, GroupFacts DEF GroupsOK
    <3> HIDE DEF l, k
    <3> QED
      BY <2>1, <2>2, <3>1
  <2>4. EdgesAt(F[k], l) \in Seq(Nat \X Nat)
    BY <2>3, EdgesAtType
  <2>5. <<v, r>> \in ToSet(EdgesAt(F[k], l))
    BY <2>1, <2>4, LenProperties DEF Contains, ToSet
  <2> HIDE DEF k, l
  <2>6. <<k, l>> \in {y \in (DOMAIN F) \X (0 .. GroupSize - 1) : y[2] < F[y[1]].num_nodes}
    BY <2>1, <2>2
  <2>7. [src |-> u, dst |-> v, id |-> r] \in
          {[src |-> k * GroupSize + l, dst |-> p[1], id |-> p[2]] : p \in ToSet(EdgesAt(F[k], l))}
    BY <2>2, <2>5
  <2> QED
    BY <2>6, <2>7 DEF Iter
<1>3. ASSUME x \in Iter(t)
      PROVE  \E u, v, r \in Nat : Forward(t, u, v, r) /\ x = [src |-> u, dst |-> v, id |-> r]
  <2>1. PICK k \in DOMAIN F, l \in 0 .. GroupSize - 1 :
          /\ l < F[k].num_nodes
          /\ \E p \in ToSet(EdgesAt(F[k], l)) :
               x = [src |-> k * GroupSize + l, dst |-> p[1], id |-> p[2]]
    BY <1>3 DEF Iter
  <2>2. k \in Nat /\ GroupOK(F[k]) /\ F[k].num_nodes \in Nat
    BY <1>1, <2>1, GroupFacts DEF GroupsOK
  <2>3. l \in 0 .. F[k].num_nodes - 1 /\ l \in Nat
    BY <2>1, <2>2, GroupSizeAssumption
  <2>4. EdgesAt(F[k], l) \in Seq(Nat \X Nat)
    BY <2>2, <2>3, EdgesAtType
  <2>5. PICK i \in 1 .. Len(EdgesAt(F[k], l)) :
          x = [src |-> k * GroupSize + l, dst |-> EdgesAt(F[k], l)[i][1],
               id |-> EdgesAt(F[k], l)[i][2]]
    BY <2>1, <2>4, LenProperties DEF ToSet
  <2>6. EdgesAt(F[k], l)[i] \in Nat \X Nat
    BY <2>4, <2>5, ElementOfSeq
  <2>7. PICK v \in Nat, r \in Nat : EdgesAt(F[k], l)[i] = <<v, r>>
    BY <2>6
  <2> DEFINE u == k * GroupSize + l
  <2>8. u \in Nat /\ GroupOf(u) = k /\ LocalOf(u) = l
    BY <2>2, LocalGroup
  <2> HIDE DEF u
  <2>9. Contains(EdgesAt(F[k], l), <<v, r>>)
    BY <2>5, <2>7 DEF Contains
  <2>10. Forward(t, u, v, r)
    BY <2>1, <2>8, <2>9 DEF Forward, TraverseFrom
  <2>11. x = [src |-> u, dst |-> v, id |-> r]
    BY <2>5, <2>7 DEF u
  <2> QED
    BY <2>7, <2>8, <2>10, <2>11
<1> QED
  BY <1>2, <1>3

-----------------------------------------------------------------------------
(* What insert keeps *)

\* insert keeps the edges between nodes and the ids below the counter.
LEMMA InsertedLinksNodes ==
  ASSUME NEW t, TableInv(t), NEW e \in Edge
  PROVE  LinksNodes(Inserted(t, e))
<1> DEFINE T == Inserted(t, e)
<1>1. TableOK(t) /\ t.next_rel_id \in Nat /\ T.next_rel_id = t.next_rel_id + 1
  BY InsertedOK DEF TableInv, TableOK
<1> HIDE DEF T
<1>2. ASSUME NEW u \in Nat, NEW v \in Nat, NEW r \in Nat,
             Forward(T, u, v, r) \/ Backward(T, u, v, r)
      PROVE  u \in Nodes /\ v \in Nodes /\ r < T.next_rel_id
  <2>1. CASE Forward(t, u, v, r) \/ Backward(t, u, v, r)
    BY <1>1, <2>1 DEF TableInv, LinksNodes
  <2>2. CASE /\ u \in {e.src, e.dst} /\ v \in {e.src, e.dst}
             /\ r = t.next_rel_id
    BY <1>1, <2>2, EdgeType
  <2> QED
    BY <1>1, <1>2, <2>1, <2>2, InsertedLinks DEF T
<1> QED
  BY <1>2 DEF T, LinksNodes

\* insert keeps the two indexes equal.
LEMMA InsertedBothWays ==
  ASSUME NEW t, TableInv(t), NEW e \in Edge
  PROVE  BothWays(Inserted(t, e))
<1> DEFINE T == Inserted(t, e)
<1>1. TableOK(t) /\ t.next_rel_id \in Nat /\ T.next_rel_id = t.next_rel_id + 1
  BY InsertedOK DEF TableInv, TableOK
<1>2. \A u \in Nodes : u \in Nat
  BY NumNodesAssumption DEF Nodes
<1>3. ASSUME NEW u \in Nodes, NEW v \in Nodes, NEW r \in Nat, r < T.next_rel_id
      PROVE  Forward(T, u, v, r) <=> Backward(T, v, u, r)
  <2>1. u \in Nat /\ v \in Nat
    BY <1>2
  <2>2. Forward(t, u, v, r) <=> Backward(t, v, u, r)
    <3>1. CASE r < t.next_rel_id
      BY <1>1, <3>1 DEF TableInv, BothWays, Forward, Backward
    <3>2. CASE ~(r < t.next_rel_id)
      BY <2>1, <3>2 DEF TableInv, LinksNodes
    <3> QED
      BY <3>1, <3>2
  <2> QED
    BY <1>1, <2>1, <2>2, InsertedLinks
<1> HIDE DEF T
<1>4. \A r \in 0 .. T.next_rel_id - 1 : r \in Nat /\ r < T.next_rel_id
  BY <1>1
<1> QED
  BY <1>3, <1>4 DEF T, BothWays, Forward, Backward

\* Appending a pair with an id that is not below the others keeps the order.
LEMMA SortedAppend ==
  ASSUME NEW s, NEW v, NEW r, s \in Seq(Nat \X Nat), v \in Nat, r \in Nat,
         IdsAscend(s), IdsUpTo(s, r)
  PROVE  IdsAscend(Append(s, <<v, r>>))
<1> DEFINE e == <<v, r>>
           z == Append(s, e)
           n == Len(s)
<1>1. e \in Nat \X Nat /\ e[2] = r /\ n \in Nat
  BY LenProperties
<1> HIDE DEF e
<1>2. Len(z) = n + 1 /\ z[n + 1] = e /\ \A i \in 1 .. n : z[i] = s[i]
  BY <1>1, AppendProperties
<1> HIDE DEF z, n
<1>3. ASSUME NEW i \in 1 .. n + 1, NEW j \in 1 .. n + 1, i < j
      PROVE  z[i][2] <= z[j][2]
  <2>1. i \in 1 .. n
    BY <1>1, <1>3
  <2>2. CASE j = n + 1
    BY <1>1, <1>2, <2>1, <2>2 DEF n, IdsUpTo
  <2>3. CASE j # n + 1
    <3>1. j \in 1 .. n
      BY <1>1, <2>3
    <3> QED
      BY <1>2, <1>3, <2>1, <3>1 DEF IdsAscend, n
  <2> QED
    BY <2>2, <2>3
<1> QED
  BY <1>2, <1>3 DEF IdsAscend, z, e

\* insert keeps the traversals in the order of insertion.
LEMMA InsertedInOrder ==
  ASSUME NEW t, TableInv(t), NEW e \in Edge
  PROVE  InOrder(Inserted(t, e))
<1> DEFINE T == Inserted(t, e)
           id == t.next_rel_id
<1>1. TableOK(t) /\ id \in Nat /\ GroupsOK(t.forward_groups) /\ GroupsOK(t.backward_groups)
  BY DEF TableInv, TableOK
<1>2. \A u \in Nodes : u \in Nat
  BY NumNodesAssumption DEF Nodes
<1>3. ASSUME NEW groups \in {t.forward_groups, t.backward_groups}, NEW u \in Nodes,
             NEW v \in Nat
      PROVE  /\ IdsAscend(TraverseFrom(groups, u))
             /\ IdsAscend(Append(TraverseFrom(groups, u), <<v, id>>))
  <2> DEFINE s == TraverseFrom(groups, u)
  <2>1. s \in Seq(Nat \X Nat)
    BY <1>1, <1>2, TraverseFromType
  <2>2. IdsAscend(s)
    BY DEF TableInv, InOrder, IsSorted, IdsAscend
  <2>3. ASSUME NEW i \in 1 .. Len(s) PROVE s[i][2] <= id
    <3>1. s[i] \in Nat \X Nat
      BY <2>1, ElementOfSeq
    <3>2. PICK w \in Nat, r \in Nat : s[i] = <<w, r>>
      BY <3>1
    <3>3. Contains(s, <<w, r>>)
      BY <3>2 DEF Contains
    <3>4. r < id
      BY <1>2, <3>3 DEF TableInv, LinksNodes, Forward, Backward
    <3> QED
      BY <1>1, <3>2, <3>4
  <2>5. IdsUpTo(s, id)
    BY <2>3 DEF IdsUpTo
  <2> HIDE DEF s, id
  <2>4. IdsAscend(Append(s, <<v, id>>))
    BY <1>1, <2>1, <2>2, <2>5, SortedAppend
  <2> QED
    BY <2>2, <2>4 DEF s, id
<1>4. ASSUME NEW u \in Nodes
      PROVE  /\ IdsAscend(TraverseFrom(T.forward_groups, u))
             /\ IdsAscend(TraverseFrom(T.backward_groups, u))
  <2>1. /\ TraverseFrom(T.forward_groups, u) =
             IF u = e.src THEN Append(TraverseFrom(t.forward_groups, u), <<e.dst, id>>)
             ELSE TraverseFrom(t.forward_groups, u)
        /\ TraverseFrom(T.backward_groups, u) =
             IF u = e.dst THEN Append(TraverseFrom(t.backward_groups, u), <<e.src, id>>)
             ELSE TraverseFrom(t.backward_groups, u)
    BY <1>1, <1>2, InsertedOK
  <2> QED
    BY <1>3, <2>1, EdgeType
<1> QED
  BY <1>4 DEF InOrder, IsSorted, IdsAscend

\* insert gives its edge an id no other edge has.
LEMMA InsertedIds ==
  ASSUME NEW t, TableInv(t), NEW e \in Edge
  PROVE  IdsOnce(Inserted(t, e))
<1> DEFINE T == Inserted(t, e)
           id == t.next_rel_id
<1>1. /\ TableOK(t) /\ id \in Nat /\ T.next_rel_id = id + 1
      /\ e.src \in Nat /\ e.dst \in Nat
  BY InsertedOK, EdgeType DEF TableInv, TableOK
<1>2. \A u, v, r \in Nat :
        Forward(T, u, v, r) <=>
          Forward(t, u, v, r) \/ (u = e.src /\ v = e.dst /\ r = id)
  BY <1>1, InsertedLinks
<1>3. \A u, v, r \in Nat : Forward(t, u, v, r) => r < id
  BY DEF TableInv, LinksNodes
<1>4. /\ \A r \in Nat : r < id => \E u, v \in Nat : Forward(t, u, v, r)
      /\ \A u, v, x, y, r \in Nat :
           Forward(t, u, v, r) /\ Forward(t, x, y, r) => u = x /\ v = y
  BY DEF TableInv, IdsOnce
<1> HIDE DEF T, id
<1>5. ASSUME NEW r \in Nat, r < T.next_rel_id
      PROVE  \E u, v \in Nat : Forward(T, u, v, r)
  <2>1. r < id \/ r = id
    BY <1>1, <1>5
  <2> QED
    BY <1>1, <1>2, <1>4, <2>1
<1>6. ASSUME NEW u \in Nat, NEW v \in Nat, NEW x \in Nat, NEW y \in Nat, NEW r \in Nat,
             Forward(T, u, v, r), Forward(T, x, y, r)
      PROVE  u = x /\ v = y
  <2>1. ~(id < id)
    BY <1>1
  <2> QED
    BY <1>2, <1>3, <1>4, <1>6, <2>1
<1> QED
  BY <1>5, <1>6 DEF IdsOnce, T

\* insert adds exactly its edge to what iter yields.
LEMMA InsertedIter ==
  ASSUME NEW t, TableInv(t), NEW e \in Edge
  PROVE  AllIterated(Inserted(t, e))
<1> DEFINE T == Inserted(t, e)
           id == t.next_rel_id
           x == [src |-> e.src, dst |-> e.dst, id |-> id]
<1>1. /\ TableOK(t) /\ TableOK(T) /\ id \in Nat /\ T.next_rel_id = id + 1
      /\ e.src \in Nat /\ e.dst \in Nat
  BY InsertedOK, EdgeType DEF TableInv, TableOK
<1>2. \A u, v, r \in Nat :
        Forward(T, u, v, r) <=>
          Forward(t, u, v, r) \/ (u = e.src /\ v = e.dst /\ r = id)
  BY <1>1, InsertedLinks
<1>3. x \notin Iter(t)
  <2> SUFFICES ASSUME x \in Iter(t) PROVE FALSE
    OBVIOUS
  <2>1. PICK u \in Nat, v \in Nat, r \in Nat :
          Forward(t, u, v, r) /\ x = [src |-> u, dst |-> v, id |-> r]
    BY <1>1, IterIsForward
  <2>2. r = id
    BY <2>1
  <2>3. r < id
    BY <2>1 DEF TableInv, LinksNodes
  <2> QED
    BY <1>1, <2>2, <2>3
<1>4. Iter(T) = Iter(t) \cup {x}
  <2>1. ASSUME NEW y PROVE y \in Iter(T) <=> y \in Iter(t) \/ y = x
    <3>1. y \in Iter(T) <=>
            \E u, v, r \in Nat : Forward(T, u, v, r) /\ y = [src |-> u, dst |-> v, id |-> r]
      BY <1>1, IterIsForward
    <3>2. y \in Iter(t) <=>
            \E u, v, r \in Nat : Forward(t, u, v, r) /\ y = [src |-> u, dst |-> v, id |-> r]
      BY <1>1, IterIsForward
    <3> HIDE DEF T, id
    <3> QED
      BY <1>1, <1>2, <3>1, <3>2
  <2> QED
    BY <2>1
<1>5. IsFiniteSet(Iter(t)) /\ Cardinality(Iter(t)) = id
  BY DEF TableInv, AllIterated
<1> HIDE DEF T, x, id
<1>6. IsFiniteSet(Iter(T)) /\ Cardinality(Iter(T)) = id + 1
  BY <1>3, <1>4, <1>5, FS_AddElement
<1> QED
  BY <1>1, <1>6 DEF AllIterated, T

\* insert adds one to what len counts.
LEMMA InsertedLen ==
  ASSUME NEW t, TableInv(t), NEW e \in Edge
  PROVE  LenCounts(Inserted(t, e))
<1> DEFINE id == t.next_rel_id
           F == t.forward_groups
           W == WithEdge(F, e.src, e.dst, id)
           T == Inserted(t, e)
<1>1. /\ GroupsOK(F) /\ id \in Nat /\ e.src \in Nat /\ e.dst \in Nat
      /\ IsFiniteSet(DOMAIN F) /\ IsFiniteSet(Slots(F)) /\ Cardinality(Slots(F)) = id
  BY EdgeType DEF TableInv, TableOK, LenCounts
<1>2. T.forward_groups = W /\ T.next_rel_id = id + 1
  BY DEF Inserted
<1>3. /\ IsFiniteSet(DOMAIN W) /\ IsFiniteSet(Slots(W))
      /\ Cardinality(Slots(W)) = Cardinality(Slots(F)) + 1
  BY <1>1, WithEdgeSlots
<1> HIDE DEF F, W, T, id
<1>4. LenCounts(T)
  BY <1>1, <1>2, <1>3 DEF LenCounts
<1> QED
  BY <1>4 DEF T

\* len is the number of the edges inserted.
LEMMA LenOfTable ==
  ASSUME NEW t, TableInv(t)
  PROVE  TableLen(t) = t.next_rel_id
<1>1. \A k \in DOMAIN t.forward_groups : Len(t.forward_groups[k].neighbors) \in Nat
  BY GroupFacts DEF TableInv, TableOK, GroupsOK
<1> QED
  BY <1>1, TableLenCounts DEF TableInv, LenCounts

\* insert keeps the invariant of a table.
LEMMA InsertedInv ==
  ASSUME NEW t, TableInv(t), NEW e \in Edge
  PROVE  TableInv(Inserted(t, e))
<1>1. TableOK(Inserted(t, e))
  BY InsertedOK DEF TableInv
<1> QED
  BY <1>1, InsertedLinksNodes, InsertedBothWays, InsertedInOrder, InsertedIds, InsertedIter,
     InsertedLen
     DEF TableInv

-----------------------------------------------------------------------------
(* The edges in order *)

\* The edge with id r is found at place r of the list of edges.
LEMMA EdgeOf ==
  ASSUME NEW t, TableInv(t), NEW u \in Nat, NEW v \in Nat, NEW r \in Nat,
         Forward(t, u, v, r)
  PROVE  /\ r + 1 \in DOMAIN EdgesOf(t)
         /\ EdgesOf(t)[r + 1] = [src |-> u, dst |-> v, props |-> PropsOf(t, r)]
<1> DEFINE x == [src |-> u, dst |-> v, id |-> r]
<1>1. r < t.next_rel_id /\ t.next_rel_id \in Nat
  BY DEF TableInv, LinksNodes, TableOK
<1>2. x \in Iter(t) /\ x.id = r
  BY IterIsForward DEF TableInv
<1>3. ASSUME NEW y \in Iter(t), y.id = r PROVE y = x
  <2>1. PICK a \in Nat, b \in Nat, c \in Nat :
          Forward(t, a, b, c) /\ y = [src |-> a, dst |-> b, id |-> c]
    BY IterIsForward DEF TableInv
  <2>2. c = r
    BY <1>3, <2>1
  <2>3. a = u /\ b = v
    BY <2>1, <2>2 DEF TableInv, IdsOnce
  <2> QED
    BY <2>1, <2>2, <2>3
<1>4. (CHOOSE y \in Iter(t) : y.id = r) = x
  BY <1>2, <1>3
<1>5. r + 1 \in 1 .. Cardinality(Iter(t)) /\ (r + 1) - 1 = r
  BY <1>1 DEF TableInv, AllIterated
<1> HIDE DEF x
<1>6. EdgesOf(t)[r + 1] = [src |-> x.src, dst |-> x.dst, props |-> PropsOf(t, r)]
  BY <1>4, <1>5 DEF EdgesOf
<1> QED
  BY <1>5, <1>6 DEF EdgesOf, x

\* The list of edges is a sequence with one entry for each id.
LEMMA EdgesOfType ==
  ASSUME NEW t, TableInv(t)
  PROVE  /\ DOMAIN EdgesOf(t) = 1 .. t.next_rel_id
         /\ EdgesOf(t) \in Seq([src : Nat, dst : Nat, props : PropLists \cup {<<>>}])
         /\ Len(EdgesOf(t)) = t.next_rel_id
<1> DEFINE n == t.next_rel_id
           E == EdgesOf(t)
           S == [src : Nat, dst : Nat, props : PropLists \cup {<<>>}]
<1>1. n \in Nat /\ DOMAIN E = 1 .. n /\ E = [i \in DOMAIN E |-> E[i]]
  BY DEF TableInv, TableOK, AllIterated, EdgesOf
<1>2. ASSUME NEW i \in 1 .. n PROVE E[i] \in S
  <2>1. i - 1 \in Nat /\ i - 1 < n /\ (i - 1) + 1 = i
    BY <1>1
  <2>2. PICK u \in Nat, v \in Nat : Forward(t, u, v, i - 1)
    BY <2>1 DEF TableInv, IdsOnce
  <2>3. E[i] = [src |-> u, dst |-> v, props |-> PropsOf(t, i - 1)]
    BY <2>1, <2>2, EdgeOf
  <2>4. PropsOf(t, i - 1) \in PropLists \cup {<<>>}
    BY DEF PropsOf, TableInv, TableOK
  <2> QED
    BY <2>3, <2>4
<1> HIDE DEF n, E, S
<1>3. E \in [1 .. n -> S]
  BY <1>1, <1>2
<1>4. E \in Seq(S) /\ Len(E) = n
  BY <1>1, <1>3
<1> QED
  BY <1>1, <1>4 DEF n, E, S

\* insert appends its edge, with its properties, to the list of edges.
LEMMA InsertedEdges ==
  ASSUME NEW t, TableInv(t), NEW e \in Edge
  PROVE  EdgesOf(Inserted(t, e)) = Append(EdgesOf(t), e)
<1> DEFINE T == Inserted(t, e)
           n == t.next_rel_id
           S == [src : Nat, dst : Nat, props : PropLists \cup {<<>>}]
           A == Append(EdgesOf(t), e)
<1>1. /\ TableOK(t) /\ TableInv(T) /\ n \in Nat /\ T.next_rel_id = n + 1
      /\ e.src \in Nat /\ e.dst \in Nat
  BY InsertedOK, InsertedInv, EdgeType DEF TableInv, TableOK
<1>2. e \in S /\ e = [src |-> e.src, dst |-> e.dst, props |-> e.props]
  BY EdgeType
<1>3. EdgesOf(t) \in Seq(S) /\ Len(EdgesOf(t)) = n
  BY EdgesOfType
<1>4. EdgesOf(T) \in Seq(S) /\ Len(EdgesOf(T)) = n + 1
  BY <1>1, EdgesOfType
<1>5. /\ \A r \in Nat : r < n => PropsOf(T, r) = PropsOf(t, r)
      /\ PropsOf(T, n) = e.props
  BY <1>1, InsertedOK
<1>6. \A u, v, r \in Nat :
        Forward(T, u, v, r) <=>
          Forward(t, u, v, r) \/ (u = e.src /\ v = e.dst /\ r = n)
  BY <1>1, InsertedLinks
<1> HIDE DEF T, n, S
<1>7. /\ A \in Seq(S) /\ Len(A) = n + 1
      /\ \A i \in 1 .. n : A[i] = EdgesOf(t)[i]
      /\ A[n + 1] = e
  BY <1>2, <1>3, AppendProperties
<1>8. ASSUME NEW i \in 1 .. n + 1 PROVE EdgesOf(T)[i] = A[i]
  <2>1. CASE i = n + 1
    <3>1. EdgesOf(T)[n + 1] = [src |-> e.src, dst |-> e.dst, props |-> PropsOf(T, n)]
      BY <1>1, <1>6, EdgeOf
    <3> QED
      BY <1>2, <1>5, <1>7, <2>1, <3>1
  <2>2. CASE i # n + 1
    <3>1. i \in 1 .. n /\ i - 1 \in Nat /\ i - 1 < n /\ (i - 1) + 1 = i
      BY <1>1, <2>2
    <3>2. PICK u \in Nat, v \in Nat : Forward(t, u, v, i - 1)
      BY <3>1 DEF TableInv, IdsOnce, n
    <3>3. EdgesOf(t)[i] = [src |-> u, dst |-> v, props |-> PropsOf(t, i - 1)]
      BY <3>1, <3>2, EdgeOf
    <3>4. EdgesOf(T)[i] = [src |-> u, dst |-> v, props |-> PropsOf(T, i - 1)]
      BY <1>1, <1>6, <3>1, <3>2, EdgeOf
    <3> QED
      BY <1>5, <1>7, <3>1, <3>3, <3>4
  <2> QED
    BY <2>1, <2>2
<1> HIDE DEF A
<1>9. EdgesOf(T) = A
  BY <1>4, <1>7, <1>8, SeqEqual
<1> QED
  BY <1>9 DEF T, A

-----------------------------------------------------------------------------
(* The saved form *)

\* Replacing both indexes of a table record.
LEMMA RecordExcept ==
  ASSUME NEW F, NEW B, NEW n, NEW P, NEW G, NEW C, NEW t,
         t = [forward_groups |-> F, backward_groups |-> B, next_rel_id |-> n, properties |-> P]
  PROVE  [t EXCEPT !.forward_groups = G, !.backward_groups = C] =
           [forward_groups |-> G, backward_groups |-> C, next_rel_id |-> n, properties |-> P]
<1>1. [t EXCEPT !.forward_groups = G, !.backward_groups = C] \in
        [forward_groups : {G}, backward_groups : {C}, next_rel_id : {n}, properties : {P}]
  OBVIOUS
<1>2. ASSUME NEW x \in [forward_groups : {G}, backward_groups : {C},
                        next_rel_id : {n}, properties : {P}]
      PROVE  x = [forward_groups |-> G, backward_groups |-> C,
                  next_rel_id |-> n, properties |-> P]
  OBVIOUS
<1> QED
  BY <1>1, <1>2

\* from_data undoes to_data.
LEMMA FromToData ==
  ASSUME NEW t, TableOK(t)
  PROVE  FromData(ToData(t)) = t
<1>1. ASSUME NEW F, GroupsOK(F) PROVE ById({F[k] : k \in DOMAIN F}) = F
  <2> DEFINE G == {F[k] : k \in DOMAIN F}
  <2>1. {g.group_id : g \in G} = DOMAIN F
    BY <1>1 DEF GroupsOK
  <2>2. ASSUME NEW k \in DOMAIN F PROVE (CHOOSE g \in G : g.group_id = k) = F[k]
    <3>1. F[k] \in G /\ F[k].group_id = k
      BY <1>1 DEF GroupsOK
    <3>2. \A g \in G : g.group_id = k => g = F[k]
      BY <1>1 DEF GroupsOK
    <3> HIDE DEF G
    <3> QED
      BY <3>1, <3>2
  <2>3. ById(G) = [k \in DOMAIN F |-> F[k]]
    BY <2>1, <2>2 DEF ById
  <2> QED
    BY <1>1, <2>3 DEF GroupsOK
<1>2. PICK F, B, n, P : t = [forward_groups |-> F, backward_groups |-> B,
                             next_rel_id |-> n, properties |-> P]
  BY DEF TableOK
<1>3. GroupsOK(F) /\ GroupsOK(B)
  BY <1>2 DEF TableOK
<1> DEFINE FS == {F[k] : k \in DOMAIN F}
           BS == {B[k] : k \in DOMAIN B}
<1>4. ToData(t) = [t EXCEPT !.forward_groups = FS, !.backward_groups = BS]
  BY <1>2 DEF ToData
<1>5. ById(FS) = F /\ ById(BS) = B
  BY <1>1, <1>3
<1> HIDE DEF FS, BS
<1>6. ToData(t) = [forward_groups |-> FS, backward_groups |-> BS,
                   next_rel_id |-> n, properties |-> P]
  BY <1>2, <1>4, RecordExcept
<1> DEFINE d == ToData(t)
<1>7. FromData(d) = [d EXCEPT !.forward_groups = F, !.backward_groups = B]
  BY <1>5, <1>6 DEF FromData
<1> HIDE DEF d
<1>8. d = [forward_groups |-> FS, backward_groups |-> BS, next_rel_id |-> n, properties |-> P]
  BY <1>6 DEF d
<1>9. FromData(d) = t
  BY <1>2, <1>7, <1>8, RecordExcept
<1> QED
  BY <1>9 DEF d

\* RelTable::new satisfies the invariant and has no edge.
LEMMA NewTableInv ==
  TableInv(NewTable) /\ EdgesOf(NewTable) = <<>>
<1> DEFINE t == NewTable
<1>1. /\ t.forward_groups = NoMap /\ t.backward_groups = NoMap
      /\ t.next_rel_id = 0 /\ t.properties = NoMap
      /\ DOMAIN NoMap = {}
  BY DEF NewTable, NoMap
<1>2. TableOK(t)
  BY DEF NewTable, NoMap, TableOK, GroupsOK
<1>3. \A u : TraverseFrom(NoMap, u) = <<>>
  BY <1>1 DEF TraverseFrom
<1>4. \A u, v, r : ~Forward(t, u, v, r) /\ ~Backward(t, u, v, r)
  BY <1>1, <1>3 DEF Forward, Backward, Contains
<1>5. LinksNodes(t) /\ BothWays(t) /\ IdsOnce(t)
  BY <1>1, <1>4 DEF LinksNodes, BothWays, IdsOnce, Forward, Backward
<1>6. InOrder(t)
  BY <1>1, <1>3 DEF InOrder, IsSorted
<1>7. Iter(t) = {}
  BY <1>1 DEF Iter
<1>8. AllIterated(t)
  BY <1>1, <1>7, FS_EmptySet DEF AllIterated
<1>9. EdgesOf(t) = <<>>
  BY <1>7, <1>8, FS_EmptySet DEF EdgesOf
<1>10. LenCounts(t)
  BY <1>1, FS_EmptySet DEF LenCounts, Slots, SlotsIn
<1> QED
  BY <1>2, <1>5, <1>6, <1>8, <1>9, <1>10 DEF TableInv

-----------------------------------------------------------------------------
(* The invariant *)

\* What the data file holds is to_data of a table with the invariant.
SavedOK == \E t : TableInv(t) /\ saved = ToData(t)

\* The rest of an accepted batch fits the schema, and no error was returned
\* while it is inserted.
PendingOK ==
  /\ pending \in Seq(Edge)
  /\ \A i \in DOMAIN pending : CountFits(pending[i])
  /\ pending # <<>> => result # Error

\* The inductive invariant.
RelTableInv == TableInv(table) /\ SavedOK /\ PendingOK

\* The invariant holds of a new database.
LEMMA InitRelTable == Init => RelTableInv
BY NewTableInv DEF Init, RelTableInv, SavedOK, PendingOK

\* The first edge of the rest of a batch fits, and so does what then remains.
LEMMA BatchTail ==
  ASSUME PendingOK, pending # <<>>
  PROVE  /\ Head(pending) \in Edge /\ CountFits(Head(pending))
         /\ Tail(pending) \in Seq(Edge)
         /\ \A i \in DOMAIN Tail(pending) : CountFits(Tail(pending)[i])
<1>1. /\ Head(pending) \in Edge /\ Tail(pending) \in Seq(Edge)
      /\ Len(Tail(pending)) = Len(pending) - 1
      /\ \A i \in 1 .. Len(Tail(pending)) : Tail(pending)[i] = pending[i + 1]
      /\ Head(pending) = pending[1] /\ Len(pending) \in Nat \ {0}
  BY HeadTailProperties, EmptySeq DEF PendingOK
<1>2. /\ DOMAIN pending = 1 .. Len(pending)
      /\ DOMAIN Tail(pending) = 1 .. Len(Tail(pending))
  BY <1>1, LenProperties DEF PendingOK
<1>3. /\ 1 \in DOMAIN pending
      /\ \A i \in DOMAIN Tail(pending) : i + 1 \in DOMAIN pending
  BY <1>1, <1>2
<1> QED
  BY <1>1, <1>2, <1>3 DEF PendingOK

\* A batch is a sequence of edges.
LEMMA BatchType ==
  ASSUME NEW b \in Batches
  PROVE  b \in Seq(Edge)
BY RelBoundsAssumption DEF Batches

\* Every step keeps the invariant: insert by InsertedInv, save by definition,
\* load because from_data undoes to_data.
LEMMA StepRelTable ==
  RelTableInv /\ [Next]_vars => RelTableInv'
<1> SUFFICES ASSUME RelTableInv, [Next]_vars PROVE RelTableInv'
  OBVIOUS
<1>1. CASE \E e \in Edge : Insert(e)
  BY <1>1, InsertedInv DEF Insert, Idle, RelTableInv, SavedOK, PendingOK
<1>2. CASE \E b \in Batches : InsertBatch(b)
  <2>1. PICK b \in Batches : InsertBatch(b)
    BY <1>2
  <2>2. CASE \A i \in DOMAIN b : CountFits(b[i])
    BY <2>1, <2>2, BatchType DEF InsertBatch, RelTableInv, SavedOK, PendingOK, Error
  <2>3. CASE ~\A i \in DOMAIN b : CountFits(b[i])
    BY <2>1, <2>3 DEF InsertBatch, RelTableInv, SavedOK, PendingOK
  <2> QED
    BY <2>2, <2>3
<1>3. CASE BatchStep
  <2>1. CountFits(Head(pending)) /\ Head(pending) \in Edge
    BY <1>3, BatchTail DEF BatchStep, RelTableInv
  <2>2. TableInv(table') /\ UNCHANGED saved
    BY <1>3, <2>1, InsertedInv DEF BatchStep, RelTableInv
  <2>3. PendingOK'
    <3>1. table.next_rel_id \in Nat
      BY DEF RelTableInv, TableInv, TableOK
    <3>2. pending' = Tail(pending) /\ result' # Error
      BY <1>3, <2>1, <3>1 DEF BatchStep, Error
    <3> QED
      BY <1>3, <3>2, BatchTail DEF BatchStep, RelTableInv, PendingOK
  <2> QED
    BY <2>2, <2>3 DEF RelTableInv, SavedOK
<1>4. CASE Save
  BY <1>4 DEF Save, RelTableInv, SavedOK, PendingOK
<1>5. CASE Load
  <2>1. PICK t : TableInv(t) /\ saved = ToData(t)
    BY DEF RelTableInv, SavedOK
  <2>2. table' = t
    BY <1>5, <2>1, FromToData DEF Load, TableInv
  <2> QED
    BY <1>5, <2>1, <2>2 DEF Load, RelTableInv, SavedOK, PendingOK
<1>6. CASE UNCHANGED vars
  BY <1>6 DEF vars, RelTableInv, SavedOK, PendingOK
<1> QED
  BY <1>1, <1>2, <1>3, <1>4, <1>5, <1>6 DEF Next

\* The invariant holds in every reachable state.
LEMMA RelTableInvariant == Spec => []RelTableInv
BY InitRelTable, StepRelTable, PTL DEF Spec

\* Every group of both indexes is always one that validate accepts, whatever
\* the order in which nodes get their edges, saves and reloads included
\* (CsrNodeGroup::insert_edge and ensure_forward_group).
THEOREM CsrStaysValid == Spec => []CsrValid
<1>1. RelTableInv => CsrValid
  BY GroupOKValid DEF RelTableInv, TableInv, TableOK, GroupsOK, CsrValid
<1> QED
  BY <1>1, RelTableInvariant, PTL

\* The forward and the backward index always hold the same edges, traversals
\* follow the order of insertion, and len counts every edge: insert updates
\* both indexes alike and to_data and from_data lose nothing.
THEOREM IndexesAgree == Spec => []DirectionsAgree
<1>1. RelTableInv => DirectionsAgree
  BY LenOfTable DEF RelTableInv, TableInv, DirectionsAgree
<1> QED
  BY <1>1, RelTableInvariant, PTL

\* A batch insert_batch accepted is never cut short by an error of insert.
THEOREM BatchIsWhole == Spec => BatchNeverHalf
<1>1. RelTableInv /\ [Next]_vars => [pending # <<>> => result' # Error]_vars
  <2> SUFFICES ASSUME RelTableInv, Next, pending # <<>> PROVE result' # Error \/ UNCHANGED vars
    OBVIOUS
  <2>1. CASE BatchStep
    BY <2>1, BatchTail DEF BatchStep, RelTableInv, TableInv, TableOK, Error
  <2>2. CASE Load
    BY <2>2 DEF Load, RelTableInv, PendingOK
  <2> QED
    BY <2>1, <2>2 DEF Next, Insert, InsertBatch, Save, Idle
<1> QED
  BY <1>1, RelTableInvariant, PTL DEF Spec, BatchNeverHalf

-----------------------------------------------------------------------------
(* The table implements the list of edges *)

\* A batch whose counts fit is a batch of the list of edges.
LEMMA FittingBatch ==
  ASSUME NEW b \in Batches, \A i \in DOMAIN b : CountFits(b[i])
  PROVE  b \in Seq(List!Edges)
<1>1. PICK n \in 1 .. MaxBatch : b \in [1 .. n -> Edge]
  BY DEF Batches
<1>2. n \in Nat
  BY RelBoundsAssumption
<1>3. \A i \in 1 .. n : b[i] \in List!Edges
  BY <1>1 DEF Edge, List!Edges, CountFits
<1>4. b \in [1 .. n -> List!Edges]
  BY <1>1, <1>3
<1> QED
  BY <1>2, <1>4

\* A new table is the empty list of edges.
LEMMA InitEdgeList == Init => List!Init
<1> SUFFICES ASSUME Init PROVE List!Init
  OBVIOUS
<1>1. EdgesOf(table) = <<>> /\ FromData(saved) = NewTable
  BY NewTableInv, FromToData DEF Init, TableInv
<1> QED
  BY <1>1, NewTableInv DEF Init, List!Init

\* Every step of the table is a step of the list of edges or changes nothing
\* of it.
LEMMA StepEdgeList ==
  RelTableInv /\ [Next]_vars => [List!Next]_(List!vars)
<1> SUFFICES ASSUME RelTableInv, [Next]_vars PROVE [List!Next]_(List!vars)
  OBVIOUS
<1>1. CASE \E e \in Edge : Insert(e)
  <2>1. PICK e \in Edge : Insert(e)
    BY <1>1
  <2>2. CASE CountFits(e)
    <3>1. e \in List!Edges
      BY <2>2, EdgeType DEF List!Edges, CountFits
    <3>2. EdgesOf(table)' = Append(EdgesOf(table), e)
      BY <2>1, <2>2, InsertedEdges DEF Insert, RelTableInv
    <3>3. List!Append1(e)
      BY <2>1, <2>2, <3>2 DEF Insert, Idle, List!Append1
    <3> QED
      BY <3>1, <3>3 DEF List!Next
  <2>3. CASE ~CountFits(e)
    BY <2>1, <2>3 DEF Insert, List!vars
  <2> QED
    BY <2>2, <2>3
<1>2. CASE \E b \in Batches : InsertBatch(b)
  <2>1. PICK b \in Batches : InsertBatch(b)
    BY <1>2
  <2>2. CASE \A i \in DOMAIN b : CountFits(b[i])
    <3>1. pending' = b /\ b \in Seq(List!Edges)
      BY <2>1, <2>2, FittingBatch DEF InsertBatch
    <3>2. List!Accept(pending')
      BY <2>1, <3>1 DEF InsertBatch, Idle, List!Accept
    <3> QED
      BY <3>1, <3>2 DEF List!Next
  <2>3. CASE ~\A i \in DOMAIN b : CountFits(b[i])
    BY <2>1, <2>3 DEF InsertBatch, Idle, List!vars
  <2> QED
    BY <2>2, <2>3
<1>3. CASE BatchStep
  <2>1. CountFits(Head(pending)) /\ Head(pending) \in Edge
    BY <1>3, BatchTail DEF BatchStep, RelTableInv
  <2>2. EdgesOf(table)' = Append(EdgesOf(table), Head(pending))
    BY <1>3, <2>1, InsertedEdges DEF BatchStep, RelTableInv
  <2>3. List!AppendNext
    BY <1>3, <2>1, <2>2 DEF BatchStep, List!AppendNext
  <2> QED
    BY <2>3 DEF List!Next
<1>4. CASE Save
  <2>1. FromData(saved)' = table
    BY <1>4, FromToData DEF Save, RelTableInv, TableInv
  <2>2. List!Save
    BY <1>4, <2>1 DEF Save, Idle, List!Save
  <2> QED
    BY <2>2 DEF List!Next
<1>5. CASE Load
  <2>1. List!Load
    BY <1>5 DEF Load, List!Load
  <2> QED
    BY <2>1 DEF List!Next
<1>6. CASE UNCHANGED vars
  BY <1>6 DEF vars, List!vars
<1> QED
  BY <1>1, <1>2, <1>3, <1>4, <1>5, <1>6 DEF Next

\* The two CSR indexes, with batches, saves and reloads, behave as a list of
\* edges whose positions are the relationship ids.
THEOREM RefinesEdgeList == Spec => ImplementsEdgeList
BY InitEdgeList, StepEdgeList, RelTableInvariant, PTL
   DEF Spec, ImplementsEdgeList, List!Spec

=============================================================================
