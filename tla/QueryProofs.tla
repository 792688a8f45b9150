---------------------------- MODULE QueryProofs -----------------------------
(***************************************************************************)
(* The three properties of Query, for every database and every query.      *)
(*                                                                         *)
(* PathsExact: the rows of a path query are numbers of nodes, so the       *)
(* invariant has two witnesses: F gives the path of edges that each row    *)
(* stands for, G the one that each entry of the queue stands for.  Only    *)
(* the head of the queue begins other entries, and the matches that are    *)
(* not among the rows are still awaited: they go on from an entry of the   *)
(* queue, or belong to a source that is still to come.                     *)
(*                                                                         *)
(* AggregatesSound: the rows of a scan are the selected rows of the table, *)
(* in its order.  SUM, MIN and MAX are recursive functions of the rows,    *)
(* and what they are is proved by induction on a number of rows, as the    *)
(* least number for which it fails.                                        *)
(*                                                                         *)
(* WindowOfSorted: the order of the property is total, and during the sort *)
(* every row that is sorted has its place in it among those sorted so far. *)
(***************************************************************************)
EXTENDS Query, FunctionTheorems, FiniteSetTheorems, SequenceTheorems,
        WellFoundedInduction, TLAPS

-----------------------------------------------------------------------------
(* The invariant *)

\* The nodes of the path p from s, the start is number 0.
Node(s, p, i) == IF i = 0 THEN s ELSE EndOf(p[i])

\* Each edge begins where the one before it ends, and no node occurs twice.
Walk(s, p) ==
  /\ \A i \in 1 .. Len(p) : p[i][1] = Node(s, p, i - 1)
  /\ \A i, j \in 0 .. Len(p) : Node(s, p, i) = Node(s, p, j) => i = j

\* The paths that are matches of the query.
Match(p) ==
  /\ p \in Seq(Edges) /\ p # <<>> /\ Walk(p[1][1], p)
  /\ q.min <= Len(p) /\ Len(p) <= q.max
  /\ PassesDst(EndOf(p[Len(p)]))

\* p goes on where g ends.
Begins(g, p) == Len(g) < Len(p) /\ \A i \in 1 .. Len(g) : p[i] = g[i]

\* The queue entry c stands for the path g from s.
StandsFor(c, s, g) ==
  /\ Walk(s, g)
  /\ c.depth = Len(g) /\ c.node = Node(s, g, Len(g))
  /\ Len(c.path) = Len(g) + 1 /\ \A i \in 0 .. Len(g) : c.path[i + 1] = Node(s, g, i)

\* How many sources are begun, and the last of them.
Begun == Len(SrcOffsets) - Len(sources)
Current == SrcOffsets[Begun]

\* The entries of the queue, and the rows.
Entry == [node : Nat, depth : Nat, path : Seq(Nat)]
Row == [src : Nat, dst : Nat]

\* The types of a path query.
TypeInv ==
  /\ DatabaseOK(db) /\ QueryOK(q)
  /\ pc \in {"run", "sort", "done"} /\ edge \in Nat \ {0}
  /\ sources \in Seq(Nat) /\ queue \in Seq(Entry) /\ rows \in Seq(Row)
  /\ queue = <<>> => edge = 1
  /\ pc # "run" => queue = <<>> /\ sources = <<>>

\* The sources are taken from the front.
SourcesInv ==
  /\ Begun \in Nat
  /\ queue # <<>> => Begun > 0
  /\ \A i \in 1 .. Len(sources) : sources[i] = SrcOffsets[Begun + i]

\* An entry begins another one only if it is being expanded.
BeginsLater(G, i, j) ==
  Begins(G[i], G[j]) => i = 1 /\ G[j][Len(G[1]) + 1][2] \in 1 .. edge - 1

\* The entries of the queue are different paths from the last source, and only
\* the one that is being expanded begins others, by the edges behind it.
QueueInv(G) ==
  /\ G \in [DOMAIN queue -> Seq(Edges)]
  /\ \A i \in DOMAIN queue : StandsFor(queue[i], Current, G[i])
  /\ \A i, j \in DOMAIN queue : i # j => G[i] # G[j] /\ BeginsLater(G, i, j)

\* The rows are different matches.
RowsInv(F) ==
  /\ F \in [DOMAIN rows -> Seq(Edges)]
  /\ \A i \in DOMAIN rows : /\ Match(F[i])
                            /\ rows[i].src = F[i][1][1]
                            /\ rows[i].dst = EndOf(F[i][Len(F[i])])
  /\ \A i, j \in DOMAIN rows : F[i] = F[j] => i = j

\* p is still to come: it goes on from an entry of the queue, and by an edge
\* that has not been looked at if the entry is being expanded.
Awaited(G, p) ==
  \E i \in DOMAIN queue :
    Begins(G[i], p) /\ p[1][1] = Current /\ (i = 1 => edge <= p[Len(G[i]) + 1][2])

\* p begins at a source that has been taken.
Visited(p) == \E i \in 1 .. Begun : SrcOffsets[i] = p[1][1]

\* A match from a source that is begun is a row or still to come, not both.
MatchInv(F, G) ==
  \A p : Match(p) => ((\E i \in DOMAIN rows : F[i] = p) <=> Visited(p) /\ ~Awaited(G, p))

\* The search, with the paths its rows and entries stand for.
SearchInv(F, G) == TypeInv /\ SourcesInv /\ QueueInv(G) /\ RowsInv(F) /\ MatchInv(F, G)

\* The inductive invariant.
PathInv == q.kind = "path" => \E F, G : SearchInv(F, G)

-----------------------------------------------------------------------------
(* Paths *)

\* What an edge is.
LEMMA EdgeFacts ==
  ASSUME DatabaseOK(db)
  PROVE  /\ \A e \in Edges : e = <<e[1], e[2]>> /\ e[1] \in DOMAIN db.adj
                             /\ e[2] \in 1 .. Len(db.adj[e[1]]) /\ EndOf(e) \in Nat
         /\ \A s \in DOMAIN db.adj : \A i \in 1 .. Len(db.adj[s]) : <<s, i>> \in Edges
<1>1. \A s \in DOMAIN db.adj : db.adj[s] \in Seq(Nat \X Nat) /\ DOMAIN db.adj[s] = 1 .. Len(db.adj[s])
  BY DEF DatabaseOK
<1>2. ASSUME NEW s \in DOMAIN db.adj, NEW i \in 1 .. Len(db.adj[s])
      PROVE  <<s, i>> \in Edges /\ db.adj[s][i] \in Nat \X Nat
  <2>1. <<s, i>> \in {<<s, n>> : n \in DOMAIN db.adj[s]}
    BY <1>1
  <2>2. <<s, i>> \in Edges
    BY <2>1 DEF Edges
  <2> QED  BY <1>1, <2>2
<1>3. ASSUME NEW e \in Edges
      PROVE  e = <<e[1], e[2]>> /\ e[1] \in DOMAIN db.adj /\ e[2] \in 1 .. Len(db.adj[e[1]])
  <2>1. PICK s \in DOMAIN db.adj : e \in {<<s, n>> : n \in DOMAIN db.adj[s]}
    BY DEF Edges
  <2>2. PICK n \in DOMAIN db.adj[s] : e = <<s, n>>
    BY <2>1
  <2> QED  BY <1>1, <2>2
<1>4. ASSUME NEW e \in Edges
      PROVE  EndOf(e) \in Nat
  <2>1. db.adj[e[1]][e[2]] \in Nat \X Nat
    BY <1>2, <1>3
  <2> QED  BY <2>1 DEF EndOf
<1> QED  BY <1>2, <1>3, <1>4

\* The elements of a path are edges.
LEMMA PathFacts ==
  ASSUME NEW p \in Seq(Edges)
  PROVE  Len(p) \in Nat /\ DOMAIN p = 1 .. Len(p) /\ \A i \in 1 .. Len(p) : p[i] \in Edges
  OBVIOUS

\* What is appended to a path.
LEMMA AppendFacts ==
  ASSUME NEW g \in Seq(Edges), NEW e \in Edges
  PROVE  /\ Append(g, e) \in Seq(Edges) /\ Len(Append(g, e)) = Len(g) + 1
         /\ \A i \in 1 .. Len(g) : Append(g, e)[i] = g[i]
         /\ Append(g, e)[Len(g) + 1] = e
  OBVIOUS

\* A path that is longer by one edge.
LEMMA WalkAppend ==
  ASSUME NEW s, NEW g \in Seq(Edges), NEW e \in Edges,
         Walk(s, g), e[1] = Node(s, g, Len(g)),
         \A i \in 0 .. Len(g) : Node(s, g, i) # EndOf(e)
  PROVE  /\ Walk(s, Append(g, e))
         /\ \A i \in 0 .. Len(g) : Node(s, Append(g, e), i) = Node(s, g, i)
         /\ Node(s, Append(g, e), Len(g) + 1) = EndOf(e)
<1> DEFINE p == Append(g, e)
<1>1. Len(g) \in Nat /\ Len(p) = Len(g) + 1 /\ p[Len(g) + 1] = e
      /\ \A i \in 1 .. Len(g) : p[i] = g[i]
  BY AppendFacts
<1> HIDE DEF p
<1>2. \A i \in 0 .. Len(g) : Node(s, p, i) = Node(s, g, i)
  <2> TAKE i \in 0 .. Len(g)
  <2>1. i = 0 \/ i \in 1 .. Len(g)
    BY <1>1
  <2> QED  BY <1>1, <2>1 DEF Node
<1>3. Node(s, p, Len(g) + 1) = EndOf(e)
  BY <1>1 DEF Node
<1>4. \A i \in 1 .. Len(p) : p[i][1] = Node(s, p, i - 1)
  <2> TAKE i \in 1 .. Len(p)
  <2>1. CASE i = Len(g) + 1
    <3>1. i - 1 = Len(g) /\ Len(g) \in 0 .. Len(g)
      BY <1>1, <2>1
    <3>2. p[i] = e /\ Node(s, p, i - 1) = Node(s, g, Len(g))
      BY <1>1, <1>2, <2>1, <3>1
    <3> QED  BY <3>2
  <2>2. CASE i \in 1 .. Len(g)
    <3>1. i - 1 \in 0 .. Len(g)
      BY <1>1, <2>2
    <3> QED  BY <1>1, <1>2, <2>2, <3>1 DEF Walk
  <2> QED  BY <1>1, <2>1, <2>2
<1>5. \A i, j \in 0 .. Len(p) : Node(s, p, i) = Node(s, p, j) => i = j
  <2>1. \A i \in 0 .. Len(p) : i \in 0 .. Len(g) \/ i = Len(g) + 1
    BY <1>1
  <2>2. \A i, j \in 0 .. Len(g) : Node(s, g, i) = Node(s, g, j) => i = j
    BY DEF Walk
  <2> QED  BY <1>2, <1>3, <2>1, <2>2
<1> QED  BY <1>2, <1>3, <1>4, <1>5 DEF Walk, p

\* How a path goes on behind one that begins it.
LEMMA WalkBegins ==
  ASSUME NEW s, NEW g \in Seq(Edges), NEW p \in Seq(Edges), Walk(s, p), Begins(g, p)
  PROVE  /\ p[Len(g) + 1] \in Edges /\ p[Len(g) + 1][1] = Node(s, g, Len(g))
         /\ \A i \in 0 .. Len(g) : Node(s, g, i) # EndOf(p[Len(g) + 1])
<1> DEFINE n == Len(g) + 1
<1>1. Len(g) \in Nat /\ Len(p) \in Nat /\ n \in 1 .. Len(p) /\ n \in 0 .. Len(p) /\ n # 0
      /\ n - 1 = Len(g) /\ \A i \in 1 .. Len(g) : p[i] = g[i]
  BY PathFacts DEF Begins
<1> HIDE DEF n
<1>2. p[n] \in Edges
  BY <1>1, PathFacts
<1>3. \A i \in 0 .. Len(g) : Node(s, p, i) = Node(s, g, i) /\ i \in 0 .. Len(p) /\ i # n
  <2> TAKE i \in 0 .. Len(g)
  <2>1. (i = 0 \/ i \in 1 .. Len(g)) /\ i \in 0 .. Len(p) /\ i # n
    BY <1>1
  <2> QED  BY <1>1, <2>1 DEF Node
<1>4. p[n][1] = Node(s, g, Len(g))
  <2>1. Len(g) \in 0 .. Len(g)
    BY <1>1
  <2>2. p[n][1] = Node(s, p, n - 1)
    BY <1>1 DEF Walk
  <2> QED  BY <1>1, <1>3, <2>1, <2>2
<1>5. Node(s, p, n) = EndOf(p[n])
  BY <1>1 DEF Node
<1>6. \A i \in 0 .. Len(g) : Node(s, p, i) # Node(s, p, n)
  BY <1>1, <1>3 DEF Walk
<1> QED  BY <1>2, <1>3, <1>4, <1>5, <1>6 DEF n

\* What begins a path that is longer by one edge.
LEMMA BeginsAppend ==
  ASSUME NEW g \in Seq(Edges), NEW e \in Edges, NEW h \in Seq(Edges)
  PROVE  /\ Begins(h, Append(g, e)) <=> h = g \/ Begins(h, g)
         /\ Begins(Append(g, e), h) <=> Begins(g, h) /\ h[Len(g) + 1] = e /\ h # Append(g, e)
<1> DEFINE p == Append(g, e)
<1>1. Len(g) \in Nat /\ Len(h) \in Nat /\ Len(p) = Len(g) + 1 /\ p[Len(g) + 1] = e
      /\ p \in Seq(Edges) /\ \A i \in 1 .. Len(g) : p[i] = g[i]
  BY AppendFacts, PathFacts
<1> HIDE DEF p
<1>2. \A a, b \in Seq(Edges) : Len(a) = Len(b) /\ (\A i \in 1 .. Len(a) : a[i] = b[i]) => a = b
  BY SeqEqual
<1>3. Begins(h, p) <=> h = g \/ Begins(h, g)
  <2>1. ASSUME Begins(h, p)
        PROVE  h = g \/ Begins(h, g)
    <3>1. Len(h) <= Len(g) /\ \A i \in 1 .. Len(h) : i \in 1 .. Len(g) /\ p[i] = h[i]
      BY <1>1, <2>1 DEF Begins
    <3>2. \A i \in 1 .. Len(h) : g[i] = h[i]
      BY <1>1, <3>1
    <3>3. CASE Len(h) = Len(g)
      BY <1>2, <3>2, <3>3
    <3>4. CASE Len(h) < Len(g)
      BY <3>2, <3>4 DEF Begins
    <3> QED  BY <1>1, <3>1, <3>3, <3>4
  <2>2. ASSUME h = g
        PROVE  Begins(h, p)
    BY <1>1, <2>2 DEF Begins
  <2>3. ASSUME Begins(h, g)
        PROVE  Begins(h, p)
    <3>1. Len(h) < Len(p) /\ \A i \in 1 .. Len(h) : i \in 1 .. Len(g) /\ g[i] = h[i]
      BY <1>1, <2>3 DEF Begins
    <3> QED  BY <1>1, <3>1 DEF Begins
  <2> QED  BY <2>1, <2>2, <2>3
<1>4. Begins(p, h) <=> Begins(g, h) /\ h[Len(g) + 1] = e /\ h # p
  <2>1. ASSUME Begins(p, h)
        PROVE  Begins(g, h) /\ h[Len(g) + 1] = e /\ h # p
    <3>1. Len(g) + 1 \in 1 .. Len(p) /\ Len(p) < Len(h)
      BY <1>1, <2>1 DEF Begins
    <3>2. h[Len(g) + 1] = e /\ h # p
      BY <1>1, <2>1, <3>1 DEF Begins
    <3>3. \A i \in 1 .. Len(g) : i \in 1 .. Len(p)
      BY <1>1
    <3> QED  BY <1>1, <2>1, <3>1, <3>2, <3>3 DEF Begins
  <2>2. ASSUME Begins(g, h), h[Len(g) + 1] = e, h # p
        PROVE  Begins(p, h)
    <3>1. \A i \in 1 .. Len(p) : i \in 1 .. Len(g) \/ i = Len(g) + 1
      BY <1>1
    <3>2. \A i \in 1 .. Len(p) : h[i] = p[i]
      BY <1>1, <2>2, <3>1 DEF Begins
    <3>3. Len(h) # Len(p)
      BY <1>1, <1>2, <2>2, <3>2
    <3> QED  BY <1>1, <2>2, <3>2, <3>3 DEF Begins
  <2> QED  BY <2>1, <2>2
<1> QED  BY <1>3, <1>4 DEF p

\* A path begins at its source.
LEMMA WalkStart ==
  ASSUME NEW s, NEW p \in Seq(Edges), Walk(s, p), p # <<>>
  PROVE  p[1][1] = s
<1>1. 1 \in 1 .. Len(p)
  OBVIOUS
<1>2. p[1][1] = Node(s, p, 1 - 1)
  BY <1>1 DEF Walk
<1> QED  BY <1>2 DEF Node

\* The sources of a query are different nodes.
LEMMA SourcesOnce ==
  ASSUME DatabaseOK(db), QueryOK(q)
  PROVE  /\ SrcOffsets \in Seq(Nat)
         /\ \A i, j \in 1 .. Len(SrcOffsets) : SrcOffsets[i] = SrcOffsets[j] => i = j
<1>1. CASE q.key = <<>>
  <2> DEFINE n == Cardinality(DOMAIN db.src)
  <2>1. n \in Nat
    BY FS_CardinalityType DEF DatabaseOK
  <2>2. SrcOffsets = [i \in 1 .. n |-> i - 1]
    BY <1>1 DEF SrcOffsets, Offsets
  <2> HIDE DEF n
  <2>3. SrcOffsets \in [1 .. n -> Nat]
    BY <2>1, <2>2
  <2>4. SrcOffsets \in Seq(Nat) /\ Len(SrcOffsets) = n
    BY <2>1, <2>3
  <2>5. \A i, j \in 1 .. n : SrcOffsets[i] = SrcOffsets[j] => i = j
    BY <2>1, <2>2
  <2> QED  BY <2>4, <2>5
<1>2. CASE q.key # <<>>
  <2>1. q.key \in Seq(Nat) /\ Len(q.key) <= 1
    BY DEF QueryOK
  <2>2. SrcOffsets = q.key \/ SrcOffsets = <<>>
    BY <1>2 DEF SrcOffsets
  <2>3. <<>> \in Seq(Nat) /\ Len(<<>>) <= 1
    OBVIOUS
  <2>4. SrcOffsets \in Seq(Nat) /\ Len(SrcOffsets) \in Nat /\ Len(SrcOffsets) <= 1
    <3>1. CASE SrcOffsets = q.key
      <4>1. Len(q.key) \in Nat
        BY <2>1
      <4> QED  BY <2>1, <3>1, <4>1
    <3>2. CASE SrcOffsets = <<>>
      <4>1. Len(<<>>) \in Nat
        OBVIOUS
      <4> QED  BY <2>3, <3>2, <4>1
    <3> QED  BY <2>2, <3>1, <3>2
  <2> QED  BY <2>4
<1> QED  BY <1>1, <1>2

-----------------------------------------------------------------------------
(* The steps of the search *)

\* The database and the query do not change, nor what is said of them.
LEMMA SameDb ==
  ASSUME db' = db, q' = q
  PROVE  /\ Edges' = Edges /\ SrcOffsets' = SrcOffsets
         /\ \A e : EndOf(e)' = EndOf(e)
         /\ \A p : Match(p)' <=> Match(p)
         /\ \A c, s, g : StandsFor(c, s, g)' <=> StandsFor(c, s, g)
         /\ DatabaseOK(db)' <=> DatabaseOK(db)
         /\ QueryOK(q)' <=> QueryOK(q)
<1>1. Edges' = Edges /\ SrcOffsets' = SrcOffsets /\ \A e : EndOf(e)' = EndOf(e)
  BY DEF Edges, SrcOffsets, Offsets, EndOf
<1>2. \A s, p, i : Node(s, p, i)' = Node(s, p, i)
  BY <1>1 DEF Node
<1>3. \A s, p : Walk(s, p)' <=> Walk(s, p)
  BY <1>2 DEF Walk
<1>4. \A n : PassesDst(n)' <=> PassesDst(n)
  BY DEF PassesDst
<1>5. \A p : Match(p)' <=> Match(p)
  BY <1>1, <1>3, <1>4 DEF Match
<1>6. \A c, s, g : StandsFor(c, s, g)' <=> StandsFor(c, s, g)
  BY <1>2, <1>3 DEF StandsFor
<1> QED  BY <1>1, <1>5, <1>6 DEF DatabaseOK, QueryOK

\* The head of the queue.
LEMMA HeadFacts ==
  ASSUME NEW F, NEW G, SearchInv(F, G), queue # <<>>
  PROVE  /\ Head(queue) = queue[1] /\ queue[1] \in Entry /\ 1 \in DOMAIN queue
         /\ Len(queue) \in Nat /\ DOMAIN queue = 1 .. Len(queue)
         /\ G[1] \in Seq(Edges) /\ StandsFor(queue[1], Current, G[1])
         /\ Begun \in Nat /\ Begun > 0 /\ edge \in Nat
<1>1. queue \in Seq(Entry) /\ Head(queue) = queue[1] /\ 1 \in DOMAIN queue
  BY DEF SearchInv, TypeInv
<1> QED  BY <1>1 DEF SearchInv, TypeInv, QueueInv, SourcesInv

\* The edge that is looked at.
LEMMA EdgeAtHead ==
  ASSUME NEW F, NEW G, SearchInv(F, G), AtEdge
  PROVE  LET c == queue[1]
             e == <<c.node, edge>>
         IN  /\ e \in Edges /\ EndOf(e) = NextNode /\ NextNode \in Nat
             /\ e[1] = Node(Current, G[1], Len(G[1])) /\ e[2] = edge
             /\ c.depth = Len(G[1]) /\ c.depth < q.max /\ c.depth \in Nat /\ q.max \in Nat
             /\ Contains(c.path, NextNode) <=>
                  \E i \in 0 .. Len(G[1]) : Node(Current, G[1], i) = NextNode
<1> DEFINE c == queue[1]
           e == <<c.node, edge>>
           g == G[1]
<1>1. /\ Head(queue) = c /\ g \in Seq(Edges) /\ StandsFor(c, Current, g) /\ edge \in Nat
      /\ edge >= 1 /\ edge <= Len(EdgesOf(c)) /\ DatabaseOK(db) /\ q.max \in Nat /\ c \in Entry
  <2>1. queue # <<>>
    BY DEF AtEdge
  <2>2. Head(queue) = c /\ edge <= Len(EdgesOf(Head(queue)))
    BY <2>1, HeadFacts DEF AtEdge
  <2>3. DatabaseOK(db) /\ QueryOK(q) /\ edge >= 1
    BY DEF SearchInv, TypeInv
  <2>4. q.max \in Nat
    BY <2>3 DEF QueryOK
  <2> QED  BY <2>1, <2>2, <2>3, <2>4, HeadFacts
<1>2. /\ c.depth = Len(g) /\ c.depth \in Nat /\ c.node = Node(Current, g, Len(g))
      /\ Len(c.path) = Len(g) + 1 /\ \A i \in 0 .. Len(g) : c.path[i + 1] = Node(Current, g, i)
  BY <1>1, PathFacts DEF StandsFor
<1>3. c.depth < q.max /\ EdgesOf(c) = ForwardEdges(c.node)
  <2>1. Len(EdgesOf(c)) # 0
    BY <1>1
  <2>2. ~(c.depth >= q.max)
    BY <2>1 DEF EdgesOf
  <2> QED  BY <1>1, <1>2, <2>2 DEF EdgesOf
<1>4. c.node \in DOMAIN db.adj /\ ForwardEdges(c.node) = db.adj[c.node]
  <2>1. ForwardEdges(c.node) # <<>>
    BY <1>1, <1>3
  <2> QED  BY <2>1 DEF ForwardEdges
<1>5. e \in Edges /\ EndOf(e) \in Nat
  <2>1. edge \in 1 .. Len(db.adj[c.node])
    <3>1. db.adj[c.node] \in Seq(Nat \X Nat)
      BY <1>1, <1>4 DEF DatabaseOK
    <3> QED  BY <1>1, <1>3, <1>4, <3>1
  <2> QED  BY <1>1, <1>4, <2>1, EdgeFacts
<1>6. EndOf(e) = NextNode
  BY <1>1, <1>3, <1>4 DEF EndOf, NextNode
<1>7. Contains(c.path, NextNode) <=> \E i \in 0 .. Len(g) : Node(Current, g, i) = NextNode
  <2>1. Len(g) \in Nat
    BY <1>1, PathFacts
  <2>2. \A i \in 1 .. Len(c.path) : i - 1 \in 0 .. Len(g) /\ c.path[i] = Node(Current, g, i - 1)
    BY <1>2, <2>1
  <2>3. \A i \in 0 .. Len(g) : i + 1 \in 1 .. Len(c.path) /\ c.path[i + 1] = Node(Current, g, i)
    BY <1>2, <2>1
  <2> QED  BY <2>2, <2>3 DEF Contains
<1> QED  BY <1>1, <1>2, <1>3, <1>5, <1>6, <1>7

\* A match that goes on from the head of the queue takes one of its edges.
LEMMA MatchAtHead ==
  ASSUME NEW F, NEW G, SearchInv(F, G), queue # <<>>,
         NEW p, Match(p), Begins(G[1], p), p[1][1] = Current
  PROVE  LET c == queue[1]
             e == p[Len(G[1]) + 1]
         IN  /\ e \in Edges /\ e = <<c.node, e[2]>> /\ e[2] \in Nat
             /\ e[2] <= Len(EdgesOf(c)) /\ Len(EdgesOf(c)) \in Nat /\ c.depth < q.max
             /\ \A i \in 0 .. Len(G[1]) : Node(Current, G[1], i) # EndOf(e)
<1> DEFINE c == queue[1]
           g == G[1]
           e == p[Len(g) + 1]
<1>1. g \in Seq(Edges) /\ StandsFor(c, Current, g) /\ DatabaseOK(db) /\ q.max \in Nat
  BY HeadFacts DEF SearchInv, TypeInv, QueryOK
<1>2. p \in Seq(Edges) /\ Walk(Current, p) /\ Len(p) <= q.max
  BY DEF Match
<1>3. /\ e \in Edges /\ e[1] = Node(Current, g, Len(g))
      /\ \A i \in 0 .. Len(g) : Node(Current, g, i) # EndOf(e)
  BY <1>1, <1>2, WalkBegins
<1>4. c.node = e[1] /\ c.depth = Len(g)
  BY <1>1, <1>3 DEF StandsFor
<1>5. c.depth < q.max
  BY <1>1, <1>2, <1>4, PathFacts DEF Begins
<1>6. e = <<c.node, e[2]>> /\ c.node \in DOMAIN db.adj /\ e[2] \in 1 .. Len(db.adj[c.node])
  BY <1>1, <1>3, <1>4, EdgeFacts
<1>7. EdgesOf(c) = db.adj[c.node]
  <2>1. ~(c.depth >= q.max)
    BY <1>1, <1>4, <1>5, PathFacts
  <2> QED  BY <1>6, <2>1 DEF EdgesOf, ForwardEdges
<1>8. Len(db.adj[c.node]) \in Nat
  BY <1>1, <1>6 DEF DatabaseOK
<1>9. e[2] \in Nat /\ e[2] <= Len(EdgesOf(c)) /\ Len(EdgesOf(c)) \in Nat
  BY <1>6, <1>7, <1>8
<1> QED  BY <1>3, <1>5, <1>6, <1>9

\* An edge back to a node of the path is not the next one of any match.
LEMMA StepSkipNode ==
  ASSUME NEW F, NEW G, SearchInv(F, G), SkipNode
  PROVE  SearchInv(F, G)'
<1>1. /\ AtEdge /\ queue # <<>> /\ Contains(queue[1].path, NextNode) /\ edge' = edge + 1
      /\ db' = db /\ q' = q /\ pc' = pc /\ sources' = sources /\ queue' = queue /\ rows' = rows
  BY HeadFacts DEF SkipNode, AtEdge
<1>2. Begun' = Begun /\ Current' = Current
  BY <1>1, SameDb DEF Begun, Current
<1>3. TypeInv'
  BY <1>1, SameDb DEF SearchInv, TypeInv
<1>4. SourcesInv'
  BY <1>1, <1>2, SameDb DEF SearchInv, SourcesInv
<1>5. QueueInv(G)'
  <2>1. \A i, j \in DOMAIN queue : BeginsLater(G, i, j) => BeginsLater(G, i, j)'
    BY <1>1, HeadFacts, SMTT(60) DEF BeginsLater, Begins
  <2>2. (\A i \in DOMAIN queue : StandsFor(queue[i], Current, G[i]))'
    BY <1>1, <1>2, SameDb DEF SearchInv, QueueInv
  <2> QED  BY <1>1, <2>1, <2>2, SameDb DEF SearchInv, QueueInv
<1>6. RowsInv(F)'
  BY <1>1, SameDb DEF SearchInv, RowsInv
<1>7. ASSUME NEW p, Match(p)
      PROVE  Awaited(G, p)' <=> Awaited(G, p)
  <2>1. ASSUME Begins(G[1], p), p[1][1] = Current
        PROVE  edge <= p[Len(G[1]) + 1][2] <=> edge + 1 <= p[Len(G[1]) + 1][2]
    <3> DEFINE e == p[Len(G[1]) + 1]
    <3>1. e = <<queue[1].node, e[2]>> /\ e[2] \in Nat
          /\ \A i \in 0 .. Len(G[1]) : Node(Current, G[1], i) # EndOf(e)
      BY <1>1, <1>7, <2>1, MatchAtHead
    <3>2. /\ EndOf(<<queue[1].node, edge>>) = NextNode
          /\ \E i \in 0 .. Len(G[1]) : Node(Current, G[1], i) = NextNode
      BY <1>1, EdgeAtHead
    <3>3. e[2] # edge
      BY <3>1, <3>2
    <3>4. edge \in Nat
      BY <1>1, HeadFacts
    <3> HIDE DEF e
    <3>5. edge <= e[2] <=> edge + 1 <= e[2]
      BY <3>1, <3>3, <3>4
    <3> QED  BY <3>5 DEF e
  <2> QED  BY <1>1, <1>2, <2>1 DEF Awaited, Begins
<1>8. MatchInv(F, G)'
  <2>1. \A p : Visited(p)' <=> Visited(p)
    BY <1>1, <1>2, SameDb DEF Visited
  <2> QED  BY <1>1, <1>7, <2>1, SameDb DEF SearchInv, MatchInv
<1> QED  BY <1>3, <1>4, <1>5, <1>6, <1>8 DEF SearchInv

\* No match goes on from an entry whose edges have all been looked at.
LEMMA StepPopPath ==
  ASSUME NEW F, NEW G, SearchInv(F, G), PopPath
  PROVE  \E H : SearchInv(F, H)'
<1>0. PICK n \in Nat : n = Len(queue)
  BY DEF SearchInv, TypeInv
<1>. PICK H : H = [i \in 1 .. n - 1 |-> G[i + 1]]
  OBVIOUS
<1>1. /\ ~AtEdge /\ queue # <<>> /\ queue' = Tail(queue) /\ edge' = 1
      /\ db' = db /\ q' = q /\ pc' = pc /\ sources' = sources /\ rows' = rows
  BY DEF PopPath
<1>2. Begun' = Begun /\ Current' = Current
  BY <1>1, SameDb DEF Begun, Current
<1>3. /\ n \in Nat /\ n >= 1 /\ DOMAIN queue = 1 .. n /\ queue \in Seq(Entry)
      /\ queue' \in Seq(Entry) /\ DOMAIN queue' = 1 .. n - 1
      /\ \A i \in 1 .. n - 1 : queue'[i] = queue[i + 1] /\ i + 1 \in 1 .. n /\ i + 1 # 1
      /\ \A i \in 1 .. n : i # 1 => i - 1 \in 1 .. n - 1
  <2>1. queue \in Seq(Entry)
    BY DEF SearchInv, TypeInv
  <2>2. n >= 1 /\ Tail(queue) \in Seq(Entry) /\ Len(Tail(queue)) = n - 1
        /\ \A i \in 1 .. n - 1 : Tail(queue)[i] = queue[i + 1]
    BY <1>0, <1>1, <2>1, HeadTailProperties
  <2> QED  BY <1>0, <1>1, <2>1, <2>2
<1>4. TypeInv'
  <2>1. (pc' = "done" => queue' = <<>> /\ sources' = <<>>) /\ (queue' = <<>> => edge' = 1)
    BY <1>1 DEF SearchInv, TypeInv
  <2> QED  BY <1>1, <1>3, <2>1, SameDb DEF SearchInv, TypeInv
<1>5. SourcesInv'
  BY <1>1, <1>2, SameDb DEF SearchInv, SourcesInv
<1>6. QueueInv(H)'
  <2>1. H \in [DOMAIN queue' -> Seq(Edges)] /\ \A i \in 1 .. n - 1 : H[i] = G[i + 1]
    BY <1>3 DEF SearchInv, QueueInv
  <2>2. \A i \in 1 .. n - 1 : StandsFor(queue'[i], Current, H[i])
    BY <1>3, <2>1 DEF SearchInv, QueueInv
  <2>3. \A i, j \in 1 .. n - 1 : i # j => H[i] # H[j] /\ ~Begins(H[i], H[j])
    <3> TAKE i, j \in 1 .. n - 1
    <3>1. i # j => i + 1 # j + 1
      BY <1>3
    <3>2. i + 1 \in DOMAIN queue /\ j + 1 \in DOMAIN queue
      BY <1>3
    <3>3. i # j => G[i + 1] # G[j + 1] /\ ~Begins(G[i + 1], G[j + 1])
      BY <1>3, <3>1, <3>2 DEF SearchInv, QueueInv, BeginsLater
    <3> QED  BY <2>1, <3>3
  <2>4. (\A i \in DOMAIN queue : StandsFor(queue[i], Current, H[i]))'
    BY <1>1, <1>2, <1>3, <2>2, SameDb
  <2>5. (\A i, j \in DOMAIN queue : i # j => H[i] # H[j] /\ BeginsLater(H, i, j))'
    <3>1. ASSUME NEW i \in DOMAIN queue', NEW j \in DOMAIN queue', i # j
          PROVE  H[i] # H[j] /\ ~Begins(H[i], H[j])
      BY <1>3, <2>3, <3>1
    <3> QED  BY <3>1 DEF Begins, BeginsLater
  <2>6. (H \in [DOMAIN queue -> Seq(Edges)])'
    BY <1>1, <2>1, SameDb
  <2> QED  BY <2>4, <2>5, <2>6 DEF QueueInv
<1>7. RowsInv(F)'
  BY <1>1, SameDb DEF SearchInv, RowsInv
<1>8. ASSUME NEW p, Match(p)
      PROVE  Awaited(H, p)' <=> Awaited(G, p)
  <2>1. ~(Begins(G[1], p) /\ p[1][1] = Current /\ edge <= p[Len(G[1]) + 1][2])
    <3> SUFFICES ASSUME Begins(G[1], p), p[1][1] = Current, edge <= p[Len(G[1]) + 1][2]
                 PROVE  FALSE
      OBVIOUS
    <3> DEFINE e == p[Len(G[1]) + 1]
               m == Len(EdgesOf(queue[1]))
    <3>1. e[2] \in Nat /\ e[2] <= m /\ m \in Nat
      BY <1>1, <1>8, MatchAtHead
    <3>2. ~(edge <= m)
      BY <1>1, HeadFacts DEF AtEdge
    <3>3. edge \in Nat /\ edge <= e[2]
      BY <1>1, HeadFacts
    <3> HIDE DEF e, m
    <3> QED  BY <3>1, <3>2, <3>3
  <2>2. ASSUME Awaited(G, p)
        PROVE  Awaited(H, p)'
    <3>1. PICK i \in DOMAIN queue : Begins(G[i], p) /\ p[1][1] = Current
                                    /\ (i = 1 => edge <= p[Len(G[i]) + 1][2])
      BY <2>2 DEF Awaited
    <3>2. i # 1
      BY <2>1, <3>1
    <3>3. i - 1 \in 1 .. n - 1 /\ (i - 1) + 1 = i
      BY <1>3, <3>1, <3>2
    <3>4. H[i - 1] = G[i]
      BY <3>3
    <3>5. i - 1 = 1 => 1 <= p[Len(H[i - 1]) + 1][2]
      <4>1. p \in Seq(Edges) /\ DatabaseOK(db) /\ G[i] \in Seq(Edges)
        BY <1>8, <3>1 DEF Match, SearchInv, TypeInv, QueueInv
      <4>2. Len(G[i]) + 1 \in 1 .. Len(p)
        BY <3>1, <4>1, PathFacts DEF Begins
      <4>3. p[Len(G[i]) + 1] \in Edges
        BY <4>1, <4>2, PathFacts
      <4>4. p[Len(G[i]) + 1][2] \in Nat /\ p[Len(G[i]) + 1][2] >= 1
        BY <4>1, <4>3, EdgeFacts
      <4> QED  BY <3>4, <4>4
    <3>6. i - 1 \in DOMAIN queue' /\ Begins(H[i - 1], p) /\ p[1][1] = Current'
          /\ (i - 1 = 1 => edge' <= p[Len(H[i - 1]) + 1][2])
      BY <1>1, <1>2, <1>3, <3>1, <3>3, <3>4, <3>5
    <3> QED  BY <3>6 DEF Awaited, Begins
  <2>3. ASSUME Awaited(H, p)'
        PROVE  Awaited(G, p)
    <3>1. PICK i \in 1 .. n - 1 : Begins(H[i], p) /\ p[1][1] = Current
      BY <1>2, <1>3, <2>3 DEF Awaited, Begins
    <3>2. H[i] = G[i + 1] /\ i + 1 \in DOMAIN queue /\ i + 1 # 1
      BY <1>3, <3>1
    <3> QED  BY <3>1, <3>2 DEF Awaited
  <2> QED  BY <2>2, <2>3
<1>9. MatchInv(F, H)'
  <2>1. \A p : Visited(p)' <=> Visited(p)
    BY <1>1, <1>2, SameDb DEF Visited
  <2> QED  BY <1>1, <1>8, <2>1, SameDb DEF SearchInv, MatchInv
<1> QED  BY <1>4, <1>5, <1>6, <1>7, <1>9 DEF SearchInv

\* Any other edge gives a match, if its path is one, and this path is no longer
\* awaited; longer ones are awaited from the new entry.
LEMMA StepVisitNode ==
  ASSUME NEW F, NEW G, SearchInv(F, G), VisitNode
  PROVE  \E E, H : SearchInv(E, H)'
<1>1. /\ AtEdge /\ queue # <<>> /\ ~Contains(Head(queue).path, NextNode) /\ edge' = edge + 1
      /\ db' = db /\ q' = q /\ pc' = pc /\ sources' = sources
  BY DEF VisitNode, AtEdge
<1>2. PICK c \in Entry, d \in Nat, k \in Nat, n \in Nat, m \in Nat, s \in {Current} :
        c = queue[1] /\ d = NextNode /\ k = edge /\ n = Len(queue) /\ m = Len(rows)
  <2>1. queue[1] \in Entry /\ edge \in Nat /\ Len(queue) \in Nat
    BY <1>1, HeadFacts
  <2>2. NextNode \in Nat
    BY <1>1, EdgeAtHead
  <2>3. Len(rows) \in Nat
    BY DEF SearchInv, TypeInv
  <2> QED  BY <2>1, <2>2, <2>3
<1> DEFINE g == G[1]
           e == <<c.node, k>>
           p1 == Append(g, e)
           hit == InBounds(c.depth + 1) /\ PassesDst(d)
           more == c.depth + 1 < q.max
<1>3. /\ e \in Edges /\ EndOf(e) = d /\ e[1] = Node(s, g, Len(g)) /\ e[2] = k
      /\ c.depth = Len(g) /\ c.depth < q.max /\ c.depth \in Nat /\ q.max \in Nat
      /\ \A i \in 0 .. Len(g) : Node(s, g, i) # d
      /\ g \in Seq(Edges) /\ StandsFor(c, s, g)
  BY <1>1, <1>2, HeadFacts, EdgeAtHead
<1>4. /\ queue \in Seq(Entry) /\ DOMAIN queue = 1 .. n /\ 1 \in 1 .. n
      /\ rows \in Seq(Row) /\ DOMAIN rows = 1 .. m
      /\ Begun \in Nat /\ Begun > 0 /\ q.min \in Nat
  BY <1>1, <1>2, HeadFacts DEF SearchInv, TypeInv, QueryOK
<1>5. Begun' = Begun /\ Current' = Current /\ s = Current
  BY <1>1, <1>2, SameDb DEF Begun, Current
\* The new path.
<1>6. /\ p1 \in Seq(Edges) /\ Len(p1) = c.depth + 1 /\ p1[Len(p1)] = e /\ p1 # <<>>
      /\ p1[Len(g) + 1] = e /\ Walk(s, p1)
      /\ \A i \in 0 .. Len(g) : Node(s, p1, i) = Node(s, g, i)
      /\ Node(s, p1, Len(g) + 1) = d
  <2>1. Walk(s, g)
    BY <1>3 DEF StandsFor
  <2> QED  BY <1>3, <2>1, AppendFacts, WalkAppend, SMTT(60)
<1>7. p1[1][1] = s
  BY <1>6, WalkStart
<1>8. Match(p1) <=> hit
  <2>1. EndOf(p1[Len(p1)]) = d /\ Walk(p1[1][1], p1)
    BY <1>3, <1>6, <1>7
  <2>2. InBounds(c.depth + 1) <=> q.min <= Len(p1) /\ Len(p1) <= q.max
    BY <1>6 DEF InBounds
  <2> HIDE DEF p1
  <2> QED  BY <1>6, <2>1, <2>2 DEF Match
<1>9. \A h \in Seq(Edges) : /\ Begins(h, p1) <=> h = g \/ Begins(h, g)
                            /\ Begins(p1, h) <=> Begins(g, h) /\ h[Len(g) + 1] = e /\ h # p1
  <2> HIDE DEF e, g
  <2> QED  BY <1>3, BeginsAppend
<1>10. /\ rows' = IF hit THEN Append(rows, [src |-> c.path[1], dst |-> d]) ELSE rows
       /\ queue' = IF more THEN Append(queue, [node |-> d, depth |-> c.depth + 1,
                                               path |-> Append(c.path, d)])
                   ELSE queue
  BY <1>1, <1>2, HeadFacts DEF VisitNode
<1>11. c.path \in Seq(Nat) /\ Len(c.path) = Len(g) + 1 /\ c.path[1] = s
       /\ \A i \in 0 .. Len(g) : c.path[i + 1] = Node(s, g, i)
  <2>1. Len(g) \in Nat /\ 0 \in 0 .. Len(g)
    BY <1>3, PathFacts
  <2>2. Len(c.path) = Len(g) + 1 /\ \A i \in 0 .. Len(g) : c.path[i + 1] = Node(s, g, i)
    BY <1>3 DEF StandsFor
  <2>3. c.path[0 + 1] = Node(s, g, 0)
    BY <2>1, <2>2
  <2> QED  BY <2>2, <2>3, SMTT(60) DEF Entry, Node
<1>12. s \in Nat
  BY <1>11
\* The witnesses of the next state.
<1>. PICK E : E = [i \in DOMAIN rows' |-> IF i = m + 1 THEN p1 ELSE F[i]]
  OBVIOUS
<1>. PICK H : H = [i \in DOMAIN queue' |-> IF i = n + 1 THEN p1 ELSE G[i]]
  OBVIOUS
<1> HIDE DEF p1, e, g, hit, more
<1>13. /\ \A i \in 1 .. m : i \in DOMAIN rows' /\ rows'[i] = rows[i] /\ E[i] = F[i] /\ i # m + 1
       /\ \A i \in DOMAIN rows' : i \in 1 .. m \/ (i = m + 1 /\ hit)
       /\ hit => /\ m + 1 \in DOMAIN rows' /\ E[m + 1] = p1
                 /\ rows'[m + 1] = [src |-> s, dst |-> d]
       /\ rows' \in Seq(Row)
  <2>1. CASE hit
    <3>1. [src |-> s, dst |-> d] \in Row /\ rows' = Append(rows, [src |-> s, dst |-> d])
      BY <1>10, <1>11, <1>12, <2>1 DEF Row
    <3>2. /\ rows' \in Seq(Row) /\ DOMAIN rows' = 1 .. m + 1
          /\ \A i \in 1 .. m : rows'[i] = rows[i]
          /\ rows'[m + 1] = [src |-> s, dst |-> d]
      BY <1>2, <1>4, <3>1, AppendProperties
    <3> QED  BY <2>1, <3>2
  <2>2. CASE ~hit
    BY <1>4, <1>10, <2>2
  <2> QED  BY <2>1, <2>2
<1>14. /\ \A i \in 1 .. n : i \in DOMAIN queue' /\ queue'[i] = queue[i] /\ H[i] = G[i] /\ i # n + 1
       /\ \A i \in DOMAIN queue' : i \in 1 .. n \/ (i = n + 1 /\ more)
       /\ more => /\ n + 1 \in DOMAIN queue' /\ H[n + 1] = p1 /\ n + 1 # 1
                  /\ queue'[n + 1] = [node |-> d, depth |-> c.depth + 1, path |-> Append(c.path, d)]
       /\ queue' \in Seq(Entry)
  <2>1. CASE more
    <3> DEFINE x == [node |-> d, depth |-> c.depth + 1, path |-> Append(c.path, d)]
    <3>1. x \in Entry /\ queue' = Append(queue, x)
      BY <1>3, <1>10, <1>11, <2>1 DEF Entry
    <3> HIDE DEF x
    <3>2. /\ queue' \in Seq(Entry) /\ DOMAIN queue' = 1 .. n + 1
          /\ \A i \in 1 .. n : queue'[i] = queue[i]
          /\ queue'[n + 1] = x
      BY <1>2, <1>4, <3>1, AppendProperties
    <3>3. n + 1 # 1
      BY <1>4
    <3> QED  BY <2>1, <3>2, <3>3 DEF x
  <2>2. CASE ~more
    BY <1>4, <1>10, <2>2
  <2> QED  BY <2>1, <2>2
<1>15. \A i \in 1 .. m : F[i] \in Seq(Edges) /\ Match(F[i])
  BY <1>4 DEF SearchInv, RowsInv
<1>16. /\ \A i \in 1 .. n : G[i] \in Seq(Edges) /\ StandsFor(queue[i], s, G[i])
       /\ \A i, j \in 1 .. n : i # j => G[i] # G[j] /\ BeginsLater(G, i, j)
       /\ G[1] = g
  BY <1>4, <1>5 DEF SearchInv, QueueInv, g
<1>17. TypeInv'
  <2>1. pc # "done" /\ queue' # <<>>
    <3>1. 1 \in DOMAIN queue'
      BY <1>4, <1>14
    <3> QED  BY <1>1, <3>1 DEF SearchInv, TypeInv
  <2> QED  BY <1>1, <1>2, <1>13, <1>14, <2>1, SameDb DEF SearchInv, TypeInv
<1>18. SourcesInv'
  BY <1>1, <1>4, <1>5, SameDb DEF SearchInv, SourcesInv
<1>19. QueueInv(H)'
  <2>1. \A i \in DOMAIN queue' : H[i] \in Seq(Edges) /\ StandsFor(queue'[i], s, H[i])
    <3> TAKE i \in DOMAIN queue'
    <3>1. CASE i \in 1 .. n
      BY <1>14, <1>16, <3>1
    <3>2. CASE i = n + 1 /\ more
      <4> DEFINE x == [node |-> d, depth |-> c.depth + 1, path |-> Append(c.path, d)]
      <4>1. queue'[i] = x /\ H[i] = p1
        BY <1>14, <3>2
      <4>2. x.depth = Len(p1) /\ x.node = Node(s, p1, Len(p1)) /\ Len(x.path) = Len(p1) + 1
        BY <1>3, <1>6, <1>11
      <4>3. \A j \in 0 .. Len(p1) : x.path[j + 1] = Node(s, p1, j)
        <5> TAKE j \in 0 .. Len(p1)
        <5>1. Len(g) \in Nat
          BY <1>3, PathFacts
        <5>2. CASE j \in 0 .. Len(g)
          <6>1. x.path[j + 1] = c.path[j + 1]
            BY <1>11, <5>1, <5>2
          <6> QED  BY <1>6, <1>11, <5>2, <6>1
        <5>3. CASE j = Len(g) + 1
          <6>1. x.path[j + 1] = d
            BY <1>11, <5>1, <5>3
          <6> QED  BY <1>6, <5>3, <6>1
        <5>4. j \in 0 .. Len(g) \/ j = Len(g) + 1
          BY <1>3, <1>6, <5>1
        <5> QED  BY <5>2, <5>3, <5>4
      <4> HIDE DEF x
      <4> QED  BY <1>6, <4>1, <4>2, <4>3 DEF StandsFor
    <3> QED  BY <1>14, <3>1, <3>2
  <2>2. \A i \in 1 .. n : /\ G[i] # p1 /\ ~Begins(p1, G[i])
                          /\ Begins(G[i], p1) => i = 1
    <3> TAKE i \in 1 .. n
    <3>1. i # 1 => G[i] # g /\ ~Begins(G[i], g)
      BY <1>4, <1>16 DEF BeginsLater
    <3>2. ~(Begins(g, G[i]) /\ G[i][Len(g) + 1] = e)
      <4> SUFFICES ASSUME Begins(g, G[i]), G[i][Len(g) + 1] = e
                   PROVE  FALSE
        OBVIOUS
      <4>1. i # 1
        BY <1>3, <1>16, PathFacts DEF Begins
      <4>2. e[2] \in 1 .. k - 1
        BY <1>2, <1>4, <1>16, <4>1 DEF BeginsLater
      <4> QED  BY <1>3, <4>2
    <3>3. Begins(g, p1)
      BY <1>3, <1>9
    <3> QED  BY <1>6, <1>9, <1>16, <3>1, <3>2, <3>3
  <2>3. ASSUME NEW i \in DOMAIN queue', NEW j \in DOMAIN queue', i # j
        PROVE  H[i] # H[j] /\ BeginsLater(H, i, j)'
    <3>1. CASE i \in 1 .. n /\ j \in 1 .. n
      <4>1. BeginsLater(G, i, j) /\ G[i] # G[j] /\ H[i] = G[i] /\ H[j] = G[j] /\ H[1] = G[1]
        BY <1>4, <1>14, <1>16, <2>3, <3>1
      <4> QED  BY <1>1, <1>2, <4>1, SMTT(60) DEF BeginsLater, Begins
    <3>2. CASE i \in 1 .. n /\ j = n + 1
      <4>1. H[i] = G[i] /\ H[j] = p1 /\ H[1] = g /\ G[i] # p1 /\ (Begins(G[i], p1) => i = 1)
        BY <1>4, <1>14, <1>16, <2>2, <3>2
      <4>2. p1[Len(g) + 1][2] = k /\ k \in 1 .. edge' - 1
        <5>1. edge \in Nat \ {0}
          BY DEF SearchInv, TypeInv
        <5> QED  BY <1>1, <1>2, <1>3, <1>6, <5>1
      <4> QED  BY <4>1, <4>2 DEF BeginsLater, Begins
    <3>3. CASE i = n + 1 /\ j \in 1 .. n
      <4>1. H[i] = p1 /\ H[j] = G[j] /\ G[j] # p1 /\ ~Begins(p1, G[j])
        BY <1>14, <2>2, <2>3, <3>3
      <4> QED  BY <4>1 DEF BeginsLater, Begins
    <3> QED  BY <1>14, <2>3, <3>1, <3>2, <3>3
  <2>4. (\A i \in DOMAIN queue : StandsFor(queue[i], Current, H[i]))'
    BY <1>1, <1>5, <2>1, SameDb
  <2>5. (H \in [DOMAIN queue -> Seq(Edges)])'
    BY <1>1, <2>1, SameDb
  <2> QED  BY <2>3, <2>4, <2>5 DEF QueueInv
\* A match is awaited as before, except for the new path.
<1>20. ASSUME NEW p, Match(p)
       PROVE  Awaited(H, p)' <=> Awaited(G, p) /\ p # p1
  <2>1. p \in Seq(Edges)
    BY <1>20 DEF Match
  <2>2. ASSUME Awaited(H, p)'
        PROVE  Awaited(G, p) /\ p # p1
    <3>1. PICK i \in DOMAIN queue' : /\ Begins(H[i], p) /\ p[1][1] = s
                                     /\ i = 1 => k + 1 <= p[Len(H[i]) + 1][2]
      BY <1>1, <1>2, <1>5, <2>2 DEF Awaited, Begins
    <3>2. CASE i \in 1 .. n /\ i # 1
      <4>1. Begins(G[i], p) /\ G[i] # g /\ ~Begins(G[i], g)
        BY <1>4, <1>14, <1>16, <3>1, <3>2 DEF BeginsLater
      <4>2. p # p1
        BY <1>9, <1>16, <3>2, <4>1
      <4> QED  BY <1>4, <1>5, <3>1, <3>2, <4>1, <4>2 DEF Awaited
    <3>3. CASE i = 1
      <4>1. Begins(g, p) /\ k + 1 <= p[Len(g) + 1][2] /\ G[1] = g
        BY <1>4, <1>14, <1>16, <3>1, <3>3
      <4>2. p[Len(g) + 1] \in Edges /\ p[Len(g) + 1][2] \in Nat
        BY <1>1, <1>5, <1>20, <3>1, <4>1, MatchAtHead
      <4>3. p # p1 /\ k <= p[Len(g) + 1][2]
        BY <1>3, <1>6, <4>1, <4>2
      <4> QED  BY <1>2, <1>4, <1>5, <3>1, <4>1, <4>3 DEF Awaited
    <3>4. CASE i = n + 1 /\ more
      <4>1. Begins(g, p) /\ p[Len(g) + 1] = e /\ p # p1 /\ G[1] = g
        BY <1>9, <1>14, <1>16, <2>1, <3>1, <3>4
      <4>2. k <= p[Len(g) + 1][2]
        BY <1>3, <4>1
      <4> QED  BY <1>2, <1>4, <1>5, <3>1, <4>1, <4>2 DEF Awaited
    <3> QED  BY <1>14, <3>1, <3>2, <3>3, <3>4
  <2>3. ASSUME Awaited(G, p), p # p1
        PROVE  Awaited(H, p)'
    <3>1. PICK i \in 1 .. n : /\ Begins(G[i], p) /\ p[1][1] = s
                              /\ i = 1 => k <= p[Len(G[i]) + 1][2]
      BY <1>2, <1>4, <1>5, <2>3 DEF Awaited
    <3>2. CASE i # 1 \/ k + 1 <= p[Len(g) + 1][2]
      <4>1. i \in DOMAIN queue' /\ Begins(H[i], p) /\ p[1][1] = Current'
            /\ (i = 1 => edge' <= p[Len(H[i]) + 1][2])
        BY <1>1, <1>2, <1>5, <1>14, <1>16, <3>1, <3>2
      <4> QED  BY <4>1 DEF Awaited, Begins
    <3>3. CASE i = 1 /\ ~(k + 1 <= p[Len(g) + 1][2])
      <4>1. Begins(g, p) /\ k <= p[Len(g) + 1][2]
        BY <1>16, <3>1, <3>3
      <4>2. /\ p[Len(g) + 1] = <<c.node, p[Len(g) + 1][2]>> /\ p[Len(g) + 1][2] \in Nat
        BY <1>1, <1>2, <1>5, <1>16, <1>20, <3>1, <3>3, MatchAtHead
      <4>3. p[Len(g) + 1][2] = k
        BY <3>3, <4>1, <4>2
      <4>4. p[Len(g) + 1] = e
        BY <4>2, <4>3 DEF e
      <4>5. Begins(p1, p)
        BY <1>9, <2>1, <2>3, <4>1, <4>4
      <4>6. more
        <5>1. Len(p1) < Len(p) /\ Len(p) <= q.max /\ Len(p) \in Nat
          BY <1>20, <2>1, <4>5, PathFacts DEF Begins, Match
        <5> QED  BY <1>3, <1>6, <5>1 DEF more
      <4>7. n + 1 \in DOMAIN queue' /\ Begins(H[n + 1], p) /\ p[1][1] = Current' /\ n + 1 # 1
        BY <1>5, <1>14, <3>1, <4>5, <4>6
      <4> QED  BY <4>7 DEF Awaited, Begins
    <3> QED  BY <3>2, <3>3
  <2> QED  BY <2>2, <2>3
\* The new path was awaited, so it is not a row yet.
<1>21. Awaited(G, p1) /\ Visited(p1)
  <2>1. Begins(g, p1) /\ G[1] = g /\ k <= p1[Len(g) + 1][2]
    BY <1>3, <1>6, <1>9, <1>16
  <2>2. Awaited(G, p1)
    BY <1>2, <1>4, <1>5, <1>7, <2>1 DEF Awaited
  <2>3. Begun \in 1 .. Begun /\ SrcOffsets[Begun] = p1[1][1]
    BY <1>4, <1>5, <1>7 DEF Current
  <2> QED  BY <2>2, <2>3 DEF Visited
<1>22. hit => \A i \in 1 .. m : F[i] # p1
  BY <1>4, <1>8, <1>21 DEF SearchInv, MatchInv
<1>23. RowsInv(E)'
  <2>1. ASSUME NEW i \in DOMAIN rows'
        PROVE  /\ E[i] \in Seq(Edges) /\ Match(E[i])
               /\ rows'[i].src = E[i][1][1] /\ rows'[i].dst = EndOf(E[i][Len(E[i])])
    <3>1. CASE i \in 1 .. m
      BY <1>4, <1>13, <1>15, <3>1 DEF SearchInv, RowsInv
    <3>2. CASE i = m + 1 /\ hit
      BY <1>3, <1>6, <1>7, <1>8, <1>13, <3>2
    <3> QED  BY <1>13, <2>1, <3>1, <3>2
  <2>2. ASSUME NEW i \in DOMAIN rows', NEW j \in DOMAIN rows', E[i] = E[j]
        PROVE  i = j
    <3>1. CASE i \in 1 .. m /\ j \in 1 .. m
      BY <1>4, <1>13, <2>2, <3>1 DEF SearchInv, RowsInv
    <3>2. CASE i = m + 1 /\ hit
      BY <1>13, <1>22, <2>2, <3>2
    <3>3. CASE j = m + 1 /\ hit
      BY <1>13, <1>22, <2>2, <3>3
    <3> QED  BY <1>13, <2>2, <3>1, <3>2, <3>3
  <2>3. (E \in [DOMAIN rows -> Seq(Edges)])'
    BY <1>1, <2>1, SameDb
  <2>4. (\A i \in DOMAIN rows : /\ Match(E[i]) /\ rows[i].src = E[i][1][1]
                                /\ rows[i].dst = EndOf(E[i][Len(E[i])]))'
    BY <1>1, <2>1, SameDb
  <2>5. (\A i, j \in DOMAIN rows : E[i] = E[j] => i = j)'
    BY <2>2
  <2> QED  BY <2>3, <2>4, <2>5 DEF RowsInv
<1>24. MatchInv(E, H)'
  <2>1. ASSUME NEW p, Match(p)
        PROVE  (\E i \in DOMAIN rows' : E[i] = p) <=> Visited(p) /\ ~Awaited(H, p)'
    <3>1. (\E i \in 1 .. m : F[i] = p) <=> Visited(p) /\ ~Awaited(G, p)
      BY <1>4, <2>1 DEF SearchInv, MatchInv
    <3>2. (\E i \in DOMAIN rows' : E[i] = p) <=> (\E i \in 1 .. m : F[i] = p) \/ (hit /\ p = p1)
      BY <1>13
    <3>3. p = p1 => hit
      BY <1>8, <2>1
    <3> QED  BY <1>20, <1>21, <2>1, <3>1, <3>2, <3>3
  <2>2. \A p : Visited(p)' <=> Visited(p)
    BY <1>1, <1>5, SameDb DEF Visited
  <2> QED  BY <1>1, <2>1, <2>2, SameDb DEF MatchInv
<1> QED  BY <1>17, <1>18, <1>19, <1>23, <1>24 DEF SearchInv

\* The next source: all its matches are awaited.
LEMMA StepStartPaths ==
  ASSUME NEW F, NEW G, SearchInv(F, G), StartPaths
  PROVE  \E H : SearchInv(F, H)'
<1>1. /\ pc = "run" /\ queue = <<>> /\ sources # <<>>
      /\ queue' = <<[node |-> Head(sources), depth |-> 0, path |-> <<Head(sources)>>]>>
      /\ sources' = Tail(sources)
      /\ db' = db /\ q' = q /\ pc' = pc /\ edge' = edge /\ rows' = rows
  BY DEF StartPaths
<1>2. /\ sources \in Seq(Nat) /\ Len(sources) \in Nat /\ Len(sources) > 0
      /\ sources' \in Seq(Nat) /\ Len(sources') = Len(sources) - 1
      /\ \A i \in 1 .. Len(sources) - 1 : sources'[i] = sources[i + 1]
      /\ Head(sources) = sources[1] /\ sources[1] \in Nat
  <2>1. sources \in Seq(Nat)
    BY DEF SearchInv, TypeInv
  <2> QED  BY <1>1, <2>1, HeadTailProperties
<1>3. PICK k \in Nat, s \in {sources[1]} :
        k = Begun /\ k = Len(SrcOffsets) - Len(sources)
  BY DEF SearchInv, SourcesInv, Begun
<1>4. SrcOffsets \in Seq(Nat) /\ \A i, j \in 1 .. Len(SrcOffsets) : SrcOffsets[i] = SrcOffsets[j] => i = j
  BY SourcesOnce DEF SearchInv, TypeInv
<1>5. Len(SrcOffsets) \in Nat /\ k + 1 \in 1 .. Len(SrcOffsets)
  BY <1>2, <1>3, <1>4
<1>6. Begun' = k + 1
  BY <1>1, <1>2, <1>3, <1>5, SameDb DEF Begun
<1>7. SrcOffsets[k + 1] = s /\ Current' = s /\ s \in Nat
  <2>1. SrcOffsets[k + 1] = sources[1]
    BY <1>2, <1>3 DEF SearchInv, SourcesInv
  <2> QED  BY <1>1, <1>2, <1>3, <1>6, <2>1, SameDb DEF Current
<1>. PICK x : x = [node |-> s, depth |-> 0, path |-> <<s>>]
  OBVIOUS
<1>. PICK H : H = [i \in {1} |-> <<>>]
  OBVIOUS
<1>8. /\ x \in Entry /\ queue' = <<x>> /\ queue' \in Seq(Entry) /\ DOMAIN queue' = {1}
      /\ queue'[1] = x /\ H[1] = <<>> /\ H \in [DOMAIN queue' -> Seq(Edges)]
  <2>1. x \in Entry /\ queue' = <<x>>
    BY <1>1, <1>2, <1>3, <1>7 DEF Entry
  <2>2. <<>> \in Seq(Edges)
    OBVIOUS
  <2> QED  BY <2>1, <2>2
<1>9. StandsFor(x, s, <<>>)
  BY DEF StandsFor, Walk, Node
<1>10. TypeInv'
  BY <1>1, <1>2, <1>8, SameDb DEF SearchInv, TypeInv
<1>11. SourcesInv'
  <2>1. \A i \in 1 .. Len(sources') : sources'[i] = SrcOffsets[(k + 1) + i]
    <3> TAKE i \in 1 .. Len(sources')
    <3>1. sources'[i] = sources[i + 1] /\ i + 1 \in 1 .. Len(sources)
      BY <1>2
    <3>2. sources[i + 1] = SrcOffsets[k + (i + 1)]
      BY <1>3, <3>1 DEF SearchInv, SourcesInv
    <3>3. k + (i + 1) = (k + 1) + i
      BY <1>3
    <3> QED  BY <3>1, <3>2, <3>3
  <2>2. (\A i \in 1 .. Len(sources) : sources[i] = SrcOffsets[Begun + i])'
    BY <1>1, <1>6, <2>1, SameDb
  <2>3. Begun' \in Nat /\ Begun' > 0
    BY <1>3, <1>6
  <2> QED  BY <2>2, <2>3 DEF SourcesInv
<1>12. QueueInv(H)'
  <2>1. (\A i \in DOMAIN queue : StandsFor(queue[i], Current, H[i]))'
    BY <1>1, <1>7, <1>8, <1>9, SameDb
  <2>2. (\A i, j \in DOMAIN queue : i # j => H[i] # H[j] /\ BeginsLater(H, i, j))'
    BY <1>8
  <2>3. (H \in [DOMAIN queue -> Seq(Edges)])'
    BY <1>1, <1>8, SameDb
  <2> QED  BY <2>1, <2>2, <2>3 DEF QueueInv
<1>13. RowsInv(F)'
  BY <1>1, SameDb DEF SearchInv, RowsInv
<1>14. ASSUME NEW p, Match(p)
       PROVE  Visited(p)' /\ ~Awaited(H, p)' <=> Visited(p) /\ ~Awaited(G, p)
  <2>1. ~Awaited(G, p)
    BY <1>1 DEF Awaited
  <2>2. CASE p[1][1] = s
    <3>1. ~Visited(p)
      <4> SUFFICES ASSUME NEW i \in 1 .. k, SrcOffsets[i] = s
                   PROVE  FALSE
        BY <1>3, <2>2 DEF Visited
      <4>1. i \in 1 .. Len(SrcOffsets) /\ i # k + 1
        BY <1>3, <1>5
      <4> QED  BY <1>4, <1>5, <1>7, <4>1
    <3>2. Begins(<<>>, p)
      <4>1. p \in Seq(Edges) /\ p # <<>>
        BY <1>14 DEF Match
      <4>2. Len(p) > 0 /\ Len(<<>>) = 0
        BY <4>1
      <4> QED  BY <4>2 DEF Begins
    <3>3. edge <= p[1][2]
      <4>1. p \in Seq(Edges) /\ p # <<>> /\ DatabaseOK(db)
        BY <1>14 DEF Match, SearchInv, TypeInv
      <4>2. p[1] \in Edges
        BY <4>1, PathFacts
      <4>3. p[1][2] \in Nat /\ p[1][2] >= 1
        BY <4>1, <4>2, EdgeFacts
      <4>4. edge = 1
        BY <1>1 DEF SearchInv, TypeInv
      <4> QED  BY <4>3, <4>4
    <3>4. Awaited(H, p)'
      <4>1. 1 \in DOMAIN queue' /\ Begins(H[1], p) /\ p[1][1] = Current' /\ Len(H[1]) + 1 = 1
        BY <1>7, <1>8, <2>2, <3>2
      <4> QED  BY <1>1, <3>3, <4>1 DEF Awaited, Begins
    <3> QED  BY <3>1, <3>4
  <2>3. CASE p[1][1] # s
    <3>1. ~Awaited(H, p)'
      BY <1>7, <2>3 DEF Awaited
    <3>2. Visited(p)' <=> Visited(p)
      <4>1. \A i \in 1 .. k + 1 : i \in 1 .. k \/ i = k + 1
        BY <1>3
      <4>2. \A i \in 1 .. k : i \in 1 .. k + 1
        BY <1>3
      <4> QED  BY <1>1, <1>3, <1>6, <1>7, <2>3, <4>1, <4>2, SameDb DEF Visited
    <3> QED  BY <2>1, <3>1, <3>2
  <2> QED  BY <2>2, <2>3
<1>15. MatchInv(F, H)'
  BY <1>1, <1>14, SameDb DEF SearchInv, MatchInv
<1> QED  BY <1>10, <1>11, <1>12, <1>13, <1>15 DEF SearchInv

-----------------------------------------------------------------------------
(* The theorem *)

\* Nothing is awaited before the first source is taken.
LEMMA InitPaths == Init => PathInv
<1> SUFFICES ASSUME Init, q.kind = "path"
             PROVE  \E F, G : SearchInv(F, G)
  BY DEF PathInv
<1>1. /\ pc = "run" /\ sources = SrcOffsets /\ queue = <<>> /\ edge = 1 /\ rows = <<>>
      /\ DatabaseOK(db) /\ QueryOK(q)
  BY InputsAssumption DEF Init
<1>2. SrcOffsets \in Seq(Nat) /\ Begun = 0
  <2>1. SrcOffsets \in Seq(Nat)
    BY <1>1, SourcesOnce
  <2> HIDE DEF SrcOffsets
  <2> QED  BY <1>1, <2>1 DEF Begun
<1>3. TypeInv
  BY <1>1, <1>2 DEF TypeInv
<1>4. SourcesInv
  <2>1. \A i \in 1 .. Len(sources) : 0 + i = i
    BY <1>1, <1>2
  <2> QED  BY <1>1, <1>2, <2>1 DEF SourcesInv
<1>5. QueueInv(<<>>)
  BY <1>1 DEF QueueInv
<1>6. RowsInv(<<>>)
  BY <1>1 DEF RowsInv
<1>7. MatchInv(<<>>, <<>>)
  BY <1>1, <1>2 DEF MatchInv, Visited
<1> QED  BY <1>3, <1>4, <1>5, <1>6, <1>7 DEF SearchInv

\* A step that leaves the search alone.
LEMMA StepFrame ==
  ASSUME NEW F, NEW G, SearchInv(F, G),
         UNCHANGED <<db, q, sources, queue, edge, rows>>, pc' \in {"run", "sort", "done"},
         pc' # "run" => queue = <<>> /\ sources = <<>>
  PROVE  SearchInv(F, G)'
<1>1. Begun' = Begun /\ Current' = Current
  BY SameDb DEF Begun, Current
<1>2. TypeInv'
  BY SameDb DEF SearchInv, TypeInv
<1>3. SourcesInv'
  BY <1>1, SameDb DEF SearchInv, SourcesInv
<1>4. QueueInv(G)'
  <2>1. \A i, j \in DOMAIN queue : BeginsLater(G, i, j)' <=> BeginsLater(G, i, j)
    BY DEF BeginsLater, Begins
  <2>2. (\A i \in DOMAIN queue : StandsFor(queue[i], Current, G[i]))'
    BY <1>1, SameDb DEF SearchInv, QueueInv
  <2> QED  BY <2>1, <2>2, SameDb DEF SearchInv, QueueInv
<1>5. RowsInv(F)'
  BY SameDb DEF SearchInv, RowsInv
<1>6. MatchInv(F, G)'
  <2>1. \A p : Visited(p)' <=> Visited(p)
    BY <1>1, SameDb DEF Visited
  <2>2. \A p : Awaited(G, p)' <=> Awaited(G, p)
    BY <1>1 DEF Awaited, Begins
  <2> QED  BY <2>1, <2>2, SameDb DEF SearchInv, MatchInv
<1> QED  BY <1>2, <1>3, <1>4, <1>5, <1>6 DEF SearchInv

\* Every step keeps the invariant.
LEMMA StepPaths == PathInv /\ [Next]_vars => PathInv'
<1> SUFFICES ASSUME PathInv, [Next]_vars, q'.kind = "path"
             PROVE  \E F, G : SearchInv(F, G)'
  BY DEF PathInv
<1>1. q' = q
  BY DEF Next, vars, Scan, SingleHop, StartPaths, SkipNode, VisitNode, PopPath,
         StartSort, SortRow, Finish, Done
<1>2. PICK F, G : SearchInv(F, G)
  BY <1>1 DEF PathInv
<1>3. CASE Scan \/ SingleHop
  BY <1>1, <1>3 DEF Scan, SingleHop
<1>4. CASE StartPaths
  BY <1>2, <1>4, StepStartPaths
<1>5. CASE SkipNode
  BY <1>2, <1>5, StepSkipNode
<1>6. CASE VisitNode
  BY <1>2, <1>6, StepVisitNode
<1>7. CASE PopPath
  BY <1>2, <1>7, StepPopPath
<1>8. pc \in {"run", "sort", "done"} /\ (pc # "run" => queue = <<>> /\ sources = <<>>)
  BY <1>2 DEF SearchInv, TypeInv
<1>9. CASE StartSort \/ SortRow \/ Finish
  BY <1>2, <1>8, <1>9, StepFrame DEF StartSort, SortRow, Finish, Drained
<1>10. CASE Done \/ UNCHANGED vars
  BY <1>2, <1>8, <1>10, StepFrame DEF Done, vars
<1> QED  BY <1>3, <1>4, <1>5, <1>6, <1>7, <1>9, <1>10 DEF Next

\* PathInv is an invariant.
LEMMA PathInvariant == Spec => []PathInv
BY InitPaths, StepPaths, PTL DEF Spec

\* The paths that the property counts are the walks of the invariant.
LEMMA SimpleIsWalk ==
  ASSUME DatabaseOK(db), NEW s, NEW n \in Nat \ {0}
  PROVE  SimplePaths(s, n) = {p \in Seq(Edges) : Len(p) = n /\ Walk(s, p)}
<1>1. \A p : p \in [1 .. n -> Edges] <=> p \in Seq(Edges) /\ Len(p) = n
  OBVIOUS
<1>2. ASSUME NEW p \in [1 .. n -> Edges]
      PROVE  p \in SimplePaths(s, n) <=> Walk(s, p)
  <2> DEFINE f == [i \in 0 .. n |-> Node(s, p, i)]
             T == {s} \cup {EndOf(p[i]) : i \in 1 .. n}
  <2>1. Len(p) = n /\ n \in Nat /\ n > 0 /\ \A i \in 1 .. n : p[i] \in Edges
    BY <1>1
  <2>2. f \in Surjection(0 .. n, T)
    <3>1. \A i \in 0 .. n : Node(s, p, i) \in T
      <4> TAKE i \in 0 .. n
      <4>1. i = 0 \/ i \in 1 .. n
        BY <2>1
      <4> QED  BY <4>1 DEF Node
    <3>2. \A t \in T : \E i \in 0 .. n : Node(s, p, i) = t
      <4> TAKE t \in T
      <4>1. CASE t = s
        <5>1. 0 \in 0 .. n /\ Node(s, p, 0) = t
          BY <2>1, <4>1 DEF Node
        <5> QED  BY <5>1
      <4>2. CASE t \in {EndOf(p[i]) : i \in 1 .. n}
        <5>1. PICK i \in 1 .. n : t = EndOf(p[i])
          BY <4>2
        <5>2. i \in 0 .. n /\ i # 0
          BY <2>1, <5>1
        <5> QED  BY <5>1, <5>2 DEF Node
      <4> QED  BY <4>1, <4>2
    <3> QED  BY <3>1, <3>2 DEF Surjection
  <2>3. Cardinality(0 .. n) = n + 1 /\ IsFiniteSet(0 .. n)
    BY <2>1, FS_Interval
  <2>4. Cardinality(T) = n + 1 <=> f \in Injection(0 .. n, T)
    BY <2>2, <2>3, FS_Surjection
  <2>5. f \in Injection(0 .. n, T) <=> \A i, j \in 0 .. n : Node(s, p, i) = Node(s, p, j) => i = j
    BY <2>2 DEF Injection, Surjection, IsInjective
  <2>6. (\A i \in 1 .. n : p[i][1] = Node(s, p, i - 1))
          <=> p[1][1] = s /\ \A i \in 1 .. n - 1 : p[i + 1][1] = EndOf(p[i])
    <3>1. \A i \in 1 .. n : i = 1 \/ (i - 1 \in 1 .. n - 1 /\ (i - 1) + 1 = i)
      BY <2>1
    <3>2. \A i \in 1 .. n - 1 : i + 1 \in 1 .. n /\ (i + 1) - 1 = i /\ i # 0
      BY <2>1
    <3>3. 1 \in 1 .. n /\ 1 - 1 = 0
      BY <2>1
    <3> QED  BY <3>1, <3>2, <3>3 DEF Node
  <2> HIDE DEF f, T
  <2> QED  BY <2>1, <2>4, <2>5, <2>6 DEF SimplePaths, Walk, T
<1> QED  BY <1>1, <1>2 DEF SimplePaths

\* At the end the rows are all matches.
LEMMA AllMatches ==
  ASSUME PathInv, IsDone, q.kind = "path", NEW s, NEW d
  PROVE  LET I == {i \in DOMAIN rows : rows[i].src = s /\ rows[i].dst = d}
             M == {p \in Seq(Edges) : Match(p) /\ p[1][1] = s /\ EndOf(p[Len(p)]) = d
                                      /\ Contains(SrcOffsets, s)}
         IN  IsFiniteSet(I) /\ ExistsBijection(I, M)
<1> DEFINE I == {i \in DOMAIN rows : rows[i].src = s /\ rows[i].dst = d}
           M == {p \in Seq(Edges) : Match(p) /\ p[1][1] = s /\ EndOf(p[Len(p)]) = d
                                    /\ Contains(SrcOffsets, s)}
<1>1. PICK F, G : SearchInv(F, G)
  BY DEF PathInv
<1>2. queue = <<>> /\ sources = <<>> /\ rows \in Seq(Row) /\ SrcOffsets \in Seq(Nat)
  BY <1>1, SourcesOnce DEF SearchInv, TypeInv, IsDone
<1>3. \A p : (p[1][1] = s /\ Visited(p)) <=> p[1][1] = s /\ Contains(SrcOffsets, s)
  <2>1. Begun = Len(SrcOffsets)
    BY <1>2 DEF Begun
  <2> QED  BY <2>1 DEF Visited, Contains
<1>4. \A p : Match(p) => ((\E i \in DOMAIN rows : F[i] = p) <=> Visited(p))
  <2>1. \A p : ~Awaited(G, p)
    BY <1>2 DEF Awaited
  <2> QED  BY <1>1, <2>1 DEF SearchInv, MatchInv
<1>5. /\ \A i \in DOMAIN rows : /\ F[i] \in Seq(Edges) /\ Match(F[i])
                                /\ rows[i].src = F[i][1][1]
                                /\ rows[i].dst = EndOf(F[i][Len(F[i])])
      /\ \A i, j \in DOMAIN rows : F[i] = F[j] => i = j
  BY <1>1 DEF SearchInv, RowsInv
<1>6. IsFiniteSet(I)
  <2>1. DOMAIN rows = 1 .. Len(rows) /\ Len(rows) \in Nat
    BY <1>2
  <2>2. IsFiniteSet(1 .. Len(rows))
    BY <2>1, FS_Interval
  <2> QED  BY <2>1, <2>2, FS_Subset
<1>7. [i \in I |-> F[i]] \in Bijection(I, M)
  <2>1. \A i \in I : F[i] \in M
    BY <1>3, <1>4, <1>5
  <2>2. \A p \in M : \E i \in I : F[i] = p
    BY <1>3, <1>4, <1>5
  <2>3. \A i, j \in I : F[i] = F[j] => i = j
    BY <1>5
  <2> HIDE DEF I, M
  <2> QED  BY <2>1, <2>2, <2>3 DEF Bijection, Injection, Surjection, IsInjective
<1> QED  BY <1>6, <1>7 DEF ExistsBijection

\* A path query over one node table returns one row for every simple path whose
\* length is in the bounds and whose end passes the filter, for every graph.
THEOREM PathsFound == Spec => []PathsExact
<1>1. PathInv => PathsExact
  <2> SUFFICES ASSUME PathInv, IsDone, q.kind = "path", NEW s, NEW d
               PROVE  CountRows(s, d) =
                        IF Contains(SrcOffsets, s) /\ PassesDst(d)
                        THEN Cardinality(UNION { {p \in SimplePaths(s, n) : EndOf(p[n]) = d} :
                                                 n \in {k \in q.min .. q.max : k > 0} })
                        ELSE 0
    BY DEF PathsExact
  <2> DEFINE I == {i \in DOMAIN rows : rows[i].src = s /\ rows[i].dst = d}
             M == {p \in Seq(Edges) : Match(p) /\ p[1][1] = s /\ EndOf(p[Len(p)]) = d
                                      /\ Contains(SrcOffsets, s)}
             N == {k \in q.min .. q.max : k > 0}
             U == UNION { {p \in SimplePaths(s, n) : EndOf(p[n]) = d} : n \in N }
  <2>1. DatabaseOK(db) /\ q.min \in Nat /\ q.max \in Nat
    BY DEF PathInv, SearchInv, TypeInv, QueryOK
  <2>2. Cardinality(M) = Cardinality(I) /\ CountRows(s, d) = Cardinality(I)
    <3>1. IsFiniteSet(I) /\ ExistsBijection(I, M)
      BY AllMatches
    <3>2. CountRows(s, d) = Cardinality(I)
      BY DEF CountRows
    <3> HIDE DEF I, M
    <3>3. Cardinality(M) = Cardinality(I)
      BY <3>1, FS_Bijection
    <3> QED  BY <3>2, <3>3
  <2>3. CASE Contains(SrcOffsets, s) /\ PassesDst(d)
    <3>1. ASSUME NEW p \in M
          PROVE  p \in U
      <4>1. p \in Seq(Edges) /\ Match(p) /\ p[1][1] = s /\ EndOf(p[Len(p)]) = d
        OBVIOUS
      <4>2. Len(p) \in Nat \ {0} /\ Len(p) \in N /\ Walk(s, p)
        BY <2>1, <4>1 DEF Match
      <4>3. p \in SimplePaths(s, Len(p))
        BY <2>1, <4>1, <4>2, SimpleIsWalk
      <4>4. p \in {r \in SimplePaths(s, Len(p)) : EndOf(r[Len(p)]) = d}
        BY <4>1, <4>3
      <4> HIDE DEF N
      <4> QED  BY <4>2, <4>4
    <3>2. ASSUME NEW p \in U
          PROVE  p \in M
      <4>1. PICK n \in N : p \in {r \in SimplePaths(s, n) : EndOf(r[n]) = d}
        BY <3>2
      <4>2. n \in Nat \ {0} /\ q.min <= n /\ n <= q.max
        BY <2>1, <4>1
      <4>3. p \in Seq(Edges) /\ Len(p) = n /\ Walk(s, p) /\ EndOf(p[n]) = d
        BY <2>1, <4>1, <4>2, SimpleIsWalk
      <4>4. p # <<>>
        BY <4>2, <4>3
      <4>5. p[1][1] = s
        BY <4>3, <4>4, WalkStart
      <4> QED  BY <2>3, <4>2, <4>3, <4>4, <4>5 DEF Match
    <3>3. M = U
      BY <3>1, <3>2
    <3> QED  BY <2>2, <2>3, <3>3
  <2>4. CASE ~(Contains(SrcOffsets, s) /\ PassesDst(d))
    <3>1. M = {}
      BY <2>4 DEF Match
    <3> QED  BY <2>2, <2>4, <3>1, FS_EmptySet
  <2> QED  BY <2>3, <2>4
<1> QED  BY <1>1, PathInvariant, PTL

-----------------------------------------------------------------------------
(* Numbers *)

\* A set of numbers has a least one.
LEMMA LeastNumber ==
  ASSUME NEW T, T \subseteq Nat, T # {}
  PROVE  \E x \in T : \A y \in T : x <= y
<1> DEFINE R == {ss \in Nat \X Nat : ss[1] < ss[2]}
<1>1. IsWellFoundedOn(R, Nat)
  BY NatLessThanWellFounded DEF OpToRel
<1>2. \A x, y \in Nat : <<y, x>> \in R <=> y < x
  OBVIOUS
<1> HIDE DEF R
<1>3. PICK x \in T : \A y \in T : ~ (<<y, x>> \in R)
  BY <1>1, WFMin
<1>4. \A y \in T : x \in Nat /\ y \in Nat /\ ~(y < x)
  BY <1>2, <1>3
<1>5. \A y \in T : x <= y
  BY <1>4
<1> QED  BY <1>5

\* A set that has 0, and with a number below n the next one, has all up to n.
LEMMA UpTo ==
  ASSUME NEW n \in Nat, NEW S, 0 \in S, \A k \in 0 .. n - 1 : k \in S => k + 1 \in S
  PROVE  \A k \in 0 .. n : k \in S
<1> DEFINE T == {k \in 0 .. n : k \notin S}
<1> SUFFICES ASSUME T # {} PROVE FALSE
  OBVIOUS
<1>1. T \subseteq Nat
  OBVIOUS
<1>2. PICK x \in T : \A y \in T : x <= y
  BY <1>1, LeastNumber
<1>3. x \in 0 .. n /\ x # 0 /\ x \notin S
  OBVIOUS
<1>4. x - 1 \in 0 .. n - 1 /\ x - 1 \notin T /\ x - 1 \in 0 .. n
  BY <1>2, <1>3
<1>5. (x - 1) + 1 \in S
  BY <1>4
<1> QED  BY <1>3, <1>5

\* f starts at b, takes the steps one by one, and its values are in V.
Way(V, n, b, step, f) ==
  f \in [0 .. n -> V] /\ f[0] = b /\ \A k \in 1 .. n : f[k] = step[k][f[k - 1]]

\* There is such a way.
LEMMA WayExists ==
  ASSUME NEW V, NEW n \in Nat, NEW b \in V, NEW step \in [1 .. n -> [V -> V]]
  PROVE  \E f : Way(V, n, b, step, f)
<1> DEFINE S == {k \in 0 .. n : \E f : Way(V, k, b, step, f)}
<1>1. 0 \in S
  <2>1. Way(V, 0, b, step, [i \in 0 .. 0 |-> b])
    BY DEF Way
  <2>2. 0 \in 0 .. n
    OBVIOUS
  <2> QED  BY <2>1, <2>2
<1>2. ASSUME NEW k \in 0 .. n - 1, k \in S PROVE k + 1 \in S
  <2>1. PICK f : Way(V, k, b, step, f)
    BY <1>2
  <2>0. f \in [0 .. k -> V] /\ f[0] = b /\ \A i \in 1 .. k : f[i] = step[i][f[i - 1]]
    BY <2>1 DEF Way
  <2> DEFINE x == step[k + 1][f[k]]
             g == [i \in 0 .. k + 1 |-> IF i <= k THEN f[i] ELSE x]
  <2>2. k + 1 \in 1 .. n /\ k + 1 \in 0 .. n /\ f[k] \in V
    BY <2>0
  <2>3. x \in V
    BY <2>2
  <2>4. \A i \in 0 .. k : g[i] = f[i] /\ f[i] \in V
    BY <2>0
  <2>5. g[k + 1] = x
    OBVIOUS
  <2>6. g \in [0 .. k + 1 -> V] /\ g[0] = b
    BY <2>0, <2>3, <2>4
  <2>7. ASSUME NEW i \in 1 .. k + 1 PROVE g[i] = step[i][g[i - 1]]
    <3>1. CASE i = k + 1
      <4>1. i - 1 = k /\ g[k] = f[k]
        BY <2>4, <3>1
      <4> QED  BY <2>5, <3>1, <4>1
    <3>2. CASE i # k + 1
      <4>1. i \in 1 .. k /\ i \in 0 .. k /\ i - 1 \in 0 .. k
        BY <3>2
      <4>2. g[i] = f[i] /\ g[i - 1] = f[i - 1]
        BY <2>4, <4>1
      <4> QED  BY <2>0, <4>1, <4>2
    <3> QED  BY <3>1, <3>2
  <2>8. Way(V, k + 1, b, step, g)
    BY <2>6, <2>7 DEF Way
  <2> QED  BY <2>2, <2>8
<1> HIDE DEF S
<1>3. \A k \in 0 .. n : k \in S
  BY <1>1, <1>2, UpTo
<1>4. n \in S
  BY <1>3
<1> QED  BY <1>4 DEF S

\* A function on 0 .. n that goes on by the steps from values in V is such a way.
LEMMA IsWay ==
  ASSUME NEW V, NEW n \in Nat, NEW b \in V, NEW step \in [1 .. n -> [V -> V]],
         NEW r, r = [k \in 0 .. n |-> r[k]], r[0] = b,
         \A k \in 1 .. n : r[k - 1] \in V => r[k] = step[k][r[k - 1]]
  PROVE  Way(V, n, b, step, r)
<1> DEFINE S == {k \in 0 .. n : r[k] \in V}
<1>1. 0 \in S
  OBVIOUS
<1>2. ASSUME NEW k \in 0 .. n - 1, k \in S PROVE k + 1 \in S
  <2>1. k + 1 \in 1 .. n /\ k + 1 \in 0 .. n /\ (k + 1) - 1 = k /\ r[k] \in V
    BY <1>2
  <2>2. r[k + 1] = step[k + 1][r[k]] /\ step[k + 1] \in [V -> V]
    BY <2>1
  <2>3. step[k + 1][r[k]] \in V
    BY <2>1, <2>2
  <2> QED  BY <2>1, <2>2, <2>3
<1>3. \A k \in 0 .. n : k \in S
  <2> HIDE DEF S
  <2> QED  BY <1>1, <1>2, UpTo
<1>4. \A k \in 0 .. n : r[k] \in V
  BY <1>3
<1>5. r \in [0 .. n -> V]
  BY <1>4
<1>6. \A k \in 1 .. n : k - 1 \in 0 .. n
  OBVIOUS
<1> QED  BY <1>4, <1>5, <1>6 DEF Way

-----------------------------------------------------------------------------
(* Scans *)

\* The rows of the table, and how many of them have been scanned.
TableSize == Cardinality(DOMAIN db.src)
Scanned == TableSize - Len(sources)

\* The matches are the selected rows in their order.
InOrder(n) ==
  /\ rows \in Seq([src : Nat])
  /\ \A k \in 1 .. Len(rows) : rows[k].src < n /\ rows[k].src \in Selected
  /\ \A j, k \in 1 .. Len(rows) : j < k => rows[j].src < rows[k].src
  /\ \A m \in Selected : m < n => \E k \in 1 .. Len(rows) : rows[k].src = m

\* The running sums and extremes of the matches.
Sums(s) ==
  /\ s \in [0 .. Len(rows) -> Int] /\ s[0] = 0
  /\ \A k \in 1 .. Len(rows) :
       s[k] = IF IsInt(Input(k)) THEN Wrap(s[k - 1] + Input(k).val) ELSE s[k - 1]
Extremes(e, wanted) ==
  /\ DOMAIN e = 0 .. Len(rows) /\ e[0] = Null
  /\ \A k \in 1 .. Len(rows) : e[k] = Better(e[k - 1], Input(k), wanted)

\* The values of the aggregates, with the running sums and extremes.
AggregateOf(fn, s, least, greatest) ==
  LET ints == Cardinality({k \in DOMAIN rows : IsInt(Input(k))})
  IN  CASE fn = "COUNT*" -> Int64(Len(rows))
        [] fn = "COUNT" -> Int64(Cardinality({k \in DOMAIN rows : NotNull(Input(k))}))
        [] fn = "SUM" -> Int64(s[Len(rows)])
        [] fn = "AVG" -> IF ints = 0 THEN Null ELSE Float64(<<s[Len(rows)], ints>>)
        [] fn = "MIN" -> least[Len(rows)]
        [] OTHER -> greatest[Len(rows)]

Aggregated ==
  \E s, least, greatest :
    /\ Sums(s) /\ Extremes(least, Less) /\ Extremes(greatest, Greater)
    /\ Len(result) = 1
    /\ \A fn \in q.aggregates : result[1][<<fn, "src">>] = AggregateOf(fn, s, least, greatest)

\* The inductive invariant of a scan whose filter rounds no integer.
ScanInv ==
  q.kind = "match" /\ FilterExact =>
    /\ DatabaseOK(db) /\ QueryOK(q) /\ pc \in {"run", "sort", "done"} /\ queue = <<>>
    /\ sources \in Seq(Nat) /\ Scanned \in Nat
    /\ \A i \in 1 .. Len(sources) : sources[i] = Scanned + i - 1
    /\ InOrder(Scanned)
    /\ pc # "run" => sources = <<>>
    /\ pc = "done" => (q.aggregates # {} => Aggregated)

-----------------------------------------------------------------------------
(* The filter *)

\* What is known of a value.
LEMMA ValueFacts ==
  ASSUME NEW v, ValueOK(v)
  PROVE  /\ v.val \in Int /\ (NotNull(v) <=> v.type # "null")
         /\ IsInt(v) => NotNull(v)
  BY DEF ValueOK, NotNull, Null, IsInt

\* evaluate_expression in the terms of the property, if no integer is rounded.
LEMMA MatchesMeans ==
  ASSUME NEW v, NEW e, ValueOK(v), ValueOK(e.value), Exact(v, e.value),
         e.op \in {"=", "<>", "<", "<=", ">", ">="}
  PROVE  Matches(v, e) <=> Passes(v, e)
<1> DEFINE w == e.value
           p == Promote(v, w)
           c == Compare(p[1], p[2])
<1>1. v.val \in Int /\ w.val \in Int
      /\ (NotNull(v) <=> v.type # "null") /\ (NotNull(w) <=> w.type # "null")
  BY ValueFacts
<1>2. c = IF Comparable(v, w) THEN IF v.val < w.val THEN Less
                                   ELSE IF v.val = w.val THEN Equal ELSE Greater
          ELSE Incomparable
  <2>1. CASE {v.type, w.type} = {"int64", "float64"}
    <3> DEFINE Promoted(x) == IF x.type = "int64" THEN Float64(AsFloat(x.val)) ELSE x
    <3>1. p = <<Promoted(v), Promoted(w)>>
      BY <2>1 DEF Promote
    <3>2. \A x \in {v, w} : x.type = "int64" => AsFloat(x.val) = x.val
      BY <2>1 DEF Exact, IsInt
    <3>3. v.type \in {"int64", "float64"} /\ w.type \in {"int64", "float64"}
      BY <2>1
    <3>4. \A x \in {v, w} : Promoted(x).type = "float64" /\ Promoted(x).val = x.val
      BY <3>2, <3>3 DEF Float64
    <3> HIDE DEF Promoted
    <3>5. p[1].type = "float64" /\ p[2].type = "float64" /\ p[1].val = v.val /\ p[2].val = w.val
      BY <3>1, <3>4
    <3>6. Ordered(v) /\ Ordered(w)
      BY <3>3 DEF Ordered
    <3> HIDE DEF p, w
    <3> QED  BY <1>1, <2>1, <3>5, <3>6 DEF Compare, Comparable
  <2>2. CASE {v.type, w.type} # {"int64", "float64"}
    <3>1. p[1] = v /\ p[2] = w
      BY <2>2 DEF Promote
    <3>2. Comparable(v, w) <=> v.type \notin {"null", "nan"} /\ v.type = w.type
      BY <2>2 DEF Comparable, Ordered
    <3> HIDE DEF p, w
    <3>3. c = Compare(v, w)
      BY <3>1
    <3> HIDE DEF c
    <3> QED  BY <1>1, <3>2, <3>3 DEF Compare
  <2> QED  BY <2>1, <2>2
<1>3. Matches(v, e) <=> c # Incomparable /\ Holds(e.op, c)
  BY DEF Matches
<1> HIDE DEF c, p, w
<1>4. CASE ~Comparable(v, w)
  BY <1>2, <1>3, <1>4 DEF Passes, w
<1>5. CASE Comparable(v, w)
  <2>1. c \in {Less, Equal, Greater} /\ (c = Less <=> v.val < w.val)
        /\ (c = Equal <=> v.val = w.val) /\ (c = Greater <=> v.val > w.val)
    BY <1>1, <1>2, <1>5 DEF Less, Equal, Greater
  <2>2. Matches(v, e) <=> Holds(e.op, c)
    BY <1>3, <2>1 DEF Less, Equal, Greater, Incomparable
  <2>3. Holds(e.op, c) <=> Relates(e.op, v.val, w.val)
    <3>1. c # Greater <=> v.val <= w.val
      BY <1>1, <2>1
    <3>2. c # Less <=> v.val >= w.val
      BY <1>1, <2>1
    <3> QED  BY <2>1, <3>1, <3>2 DEF Holds, Relates
  <2> QED  BY <1>5, <2>2, <2>3 DEF Passes, w
<1> QED  BY <1>4, <1>5

\* The matches of a scan are the selected rows.
LEMMA ScanSelects ==
  ASSUME DatabaseOK(db), QueryOK(q), q.kind = "match", FilterExact, NEW n \in DOMAIN db.src
  PROVE  PassesWhere([src |-> n]) <=> n \in Selected
<1> DEFINE m == [src |-> n]
<1>1. Visible = {"src"} /\ PropertyOf(m, "src") = db.src[n] /\ ValueOK(db.src[n])
  BY DEF Visible, PropertyOf, DatabaseOK
<1>2. \A i \in DOMAIN q.filter : Matches(db.src[n], q.filter[i]) <=> Passes(db.src[n], q.filter[i])
  BY <1>1, MatchesMeans DEF QueryOK, FilterExact
<1>3. PassesWhere(m) <=> \A i \in DOMAIN q.filter :
                          q.filter[i].var = "src" /\ Matches(db.src[n], q.filter[i])
  <2> HIDE DEF m
  <2> QED  BY <1>1 DEF PassesWhere
<1> QED  BY <1>2, <1>3 DEF Selected

-----------------------------------------------------------------------------
(* The running sums and extremes *)

\* What the aggregates look at of a match.
LEMMA InputFacts ==
  ASSUME DatabaseOK(db), NEW n, InOrder(n)
  PROVE  /\ Len(rows) \in Nat
         /\ \A k \in 1 .. Len(rows) : /\ rows[k].src \in DOMAIN db.src /\ rows[k].src \in Nat
                                     /\ Input(k) = db.src[rows[k].src] /\ ValueOK(Input(k))
<1>1. \A k \in 1 .. Len(rows) : rows[k].src \in DOMAIN db.src /\ rows[k].src \in Nat
  <2>1. rows \in Seq([src : Nat]) /\ \A k \in 1 .. Len(rows) : rows[k].src \in Selected
    BY DEF InOrder
  <2>2. Selected \subseteq DOMAIN db.src
    BY DEF Selected
  <2>3. \A k \in 1 .. Len(rows) : rows[k] \in [src : Nat]
    BY <2>1, ElementOfSeq
  <2> QED  BY <2>1, <2>2, <2>3
<1>2. \A k \in 1 .. Len(rows) : Input(k) = db.src[rows[k].src]
  BY DEF Input, PropertyOf
<1>3. Len(rows) \in Nat
  BY DEF InOrder
<1> QED  BY <1>1, <1>2, <1>3 DEF DatabaseOK

\* Wrap gives an i64 that is the number up to a multiple of 2^64.
LEMMA WrapFacts ==
  ASSUME NEW x \in Int
  PROVE  /\ Wrap(x) \in -IntLimit .. IntLimit - 1
         /\ \E c \in Int : Wrap(x) = x + (2 * IntLimit) * c
<1> DEFINE w == 2 * IntLimit
           d == (x + IntLimit) \div w
<1>1. IntLimit \in Nat /\ w \in Nat /\ w > 0 /\ x + IntLimit \in Int /\ w = IntLimit + IntLimit
  BY IntLimitAssumption
<1> HIDE DEF w
<1>2. /\ (x + IntLimit) % w \in 0 .. w - 1 /\ d \in Int
      /\ x + IntLimit = (w * d) + ((x + IntLimit) % w)
  BY <1>1
<1>3. Wrap(x) = ((x + IntLimit) % w) - IntLimit
  BY DEF Wrap, w
<1>4. Wrap(x) \in -IntLimit .. IntLimit - 1
  BY <1>1, <1>2, <1>3
<1>5. Wrap(x) = x + w * (-d)
  <2>1. w * (-d) = -(w * d) /\ w * d \in Int
    BY <1>1, <1>2
  <2> HIDE DEF d
  <2> QED  BY <1>1, <1>2, <1>3, <2>1
<1>6. -d \in Int
  BY <1>2
<1> QED  BY <1>4, <1>5, <1>6 DEF w

\* SumTo has the values it is written for.
LEMMA SumDefined ==
  ASSUME DatabaseOK(db), NEW n, InOrder(n)
  PROVE  Sums(SumTo)
<1> DEFINE len == Len(rows)
           Next_(x, k) == IF IsInt(Input(k)) THEN Wrap(x + Input(k).val) ELSE x
           step == [k \in 1 .. len |-> [x \in Int |-> Next_(x, k)]]
           Rec(f) == [k \in 0 .. len |-> IF k = 0 THEN 0 ELSE Next_(f[k - 1], k)]
<1>1. len \in Nat /\ \A k \in 1 .. len : Input(k).val \in Int
  BY InputFacts, ValueFacts
<1>2. \A k \in 1 .. len : \A x \in Int : Next_(x, k) \in Int
  <2>1. \A x \in Int : Wrap(x) \in Int
    BY WrapFacts, IntLimitAssumption
  <2>2. \A k \in 1 .. len : \A x \in Int : x + Input(k).val \in Int
    BY <1>1
  <2> QED  BY <2>1, <2>2
<1> HIDE DEF Next_, len
<1>3. step \in [1 .. len -> [Int -> Int]]
  BY <1>2
<1>4. PICK h : Way(Int, len, 0, step, h)
  <2> HIDE DEF step
  <2>1. 0 \in Int
    OBVIOUS
  <2> QED  BY <1>1, <1>3, <2>1, WayExists
<1>5. h \in [0 .. len -> Int] /\ h[0] = 0 /\ \A k \in 1 .. len : h[k] = Next_(h[k - 1], k)
  <2>1. \A k \in 1 .. len : k - 1 \in 0 .. len
    BY <1>1
  <2> QED  BY <1>4, <2>1 DEF Way
<1>6. \A k \in 0 .. len : k = 0 \/ k \in 1 .. len
  BY <1>1
<1>7. h = Rec(h)
  BY <1>5, <1>6
<1>8. SumTo = CHOOSE f : f = Rec(f)
  BY DEF SumTo, Next_, len
<1>9. SumTo = Rec(SumTo)
  <2> HIDE DEF Rec
  <2> QED  BY <1>7, <1>8
<1> DEFINE r == SumTo
<1>10. r = [k \in 0 .. len |-> IF k = 0 THEN 0 ELSE Next_(r[k - 1], k)]
  BY <1>9
<1> HIDE DEF r, Rec
<1>11. r[0] = 0 /\ \A k \in 1 .. len : r[k] = Next_(r[k - 1], k)
  <2>1. 0 \in 0 .. len /\ \A k \in 1 .. len : k \in 0 .. len /\ k # 0
    BY <1>1
  <2> QED  BY <1>10, <2>1
<1>12. r = [k \in 0 .. len |-> r[k]]
  BY <1>10
<1>13. \A k \in 1 .. len : r[k - 1] \in Int => r[k] = step[k][r[k - 1]]
  BY <1>11
<1>14. Way(Int, len, 0, step, r)
  <2>1. 0 \in Int
    OBVIOUS
  <2> HIDE DEF step
  <2> QED  BY <1>1, <1>3, <1>11, <1>12, <1>13, <2>1, IsWay
<1>15. r \in [0 .. len -> Int]
  BY <1>14 DEF Way
<1> QED  BY <1>11, <1>15 DEF Sums, r, Next_, len

\* LeastTo and GreatestTo have the values they are written for.
LEMMA ExtremesDefined ==
  ASSUME DatabaseOK(db), NEW n, InOrder(n)
  PROVE  Extremes(LeastTo, Less) /\ Extremes(GreatestTo, Greater)
<1> DEFINE len == Len(rows)
           Rec(f, wanted) ==
             [k \in 0 .. len |-> IF k = 0 THEN Null ELSE Better(f[k - 1], Input(k), wanted)]
           V == {Null} \cup {Input(k) : k \in 1 .. len}
           step(wanted) == [k \in 1 .. len |-> [x \in V |-> Better(x, Input(k), wanted)]]
<1>1. len \in Nat
  BY InputFacts
<1> HIDE DEF len
<1>2. \A wanted : \E h : h = Rec(h, wanted)
  <2> TAKE wanted
  <2>1. step(wanted) \in [1 .. len -> [V -> V]] /\ Null \in V
    BY DEF Better
  <2> HIDE DEF V
  <2>2. PICK h : Way(V, len, Null, step(wanted), h)
    <3> HIDE DEF step
    <3> QED  BY <1>1, <2>1, WayExists
  <2>3. h \in [0 .. len -> V] /\ h[0] = Null
        /\ \A k \in 1 .. len : h[k] = Better(h[k - 1], Input(k), wanted)
    <3>1. \A k \in 1 .. len : k - 1 \in 0 .. len
      BY <1>1
    <3> QED  BY <2>2, <3>1 DEF Way
  <2>4. \A k \in 0 .. len : k = 0 \/ k \in 1 .. len
    BY <1>1
  <2>5. h = Rec(h, wanted)
    BY <2>3, <2>4
  <2> QED  BY <2>5
<1>3. LeastTo = CHOOSE f : f = Rec(f, Less)
  BY DEF LeastTo, len
<1>4. GreatestTo = CHOOSE f : f = Rec(f, Greater)
  BY DEF GreatestTo, len
<1>5. LeastTo = Rec(LeastTo, Less) /\ GreatestTo = Rec(GreatestTo, Greater)
  <2> HIDE DEF Rec
  <2> QED  BY <1>2, <1>3, <1>4
<1>6. ASSUME NEW e, NEW wanted, e = Rec(e, wanted)
      PROVE  Extremes(e, wanted)
  <2>1. 0 \in 0 .. len /\ \A k \in 1 .. len : k \in 0 .. len /\ k # 0
    BY <1>1
  <2>2. DOMAIN e = 0 .. len /\ e[0] = Null
        /\ \A k \in 1 .. len : e[k] = Better(e[k - 1], Input(k), wanted)
    BY <1>6, <2>1
  <2> QED  BY <2>2 DEF Extremes, len
<1> QED
  <2> HIDE DEF Rec
  <2> QED  BY <1>5, <1>6

\* MIN and MAX of values of one type.
LEMMA ExtremeFound ==
  ASSUME DatabaseOK(db), NEW n, InOrder(n), NEW e, NEW wanted \in {Less, Greater},
         Extremes(e, wanted),
         \A i, j \in 1 .. Len(rows) :
           NotNull(Input(i)) /\ NotNull(Input(j)) =>
             Input(i).type = Input(j).type /\ Ordered(Input(j))
  PROVE  LET Values == {i \in 1 .. Len(rows) : NotNull(Input(i))}
         IN  \/ Values = {} /\ e[Len(rows)] = Null
             \/ \E i \in Values : /\ e[Len(rows)] = Input(i)
                                  /\ \A j \in Values :
                                       /\ wanted = Less => Input(i).val <= Input(j).val
                                       /\ wanted = Greater => Input(i).val >= Input(j).val
<1> DEFINE len == Len(rows)
           Bound(i, j) == /\ wanted = Less => Input(i).val <= Input(j).val
                          /\ wanted = Greater => Input(i).val >= Input(j).val
           Found(k) ==
             \/ (\A i \in 1 .. k : ~NotNull(Input(i))) /\ e[k] = Null
             \/ \E i \in 1 .. k : /\ NotNull(Input(i)) /\ e[k] = Input(i)
                                  /\ \A j \in 1 .. k : NotNull(Input(j)) => Bound(i, j)
           S == {k \in 0 .. len : Found(k)}
<1>1. len \in Nat /\ \A k \in 1 .. len : ValueOK(Input(k)) /\ Input(k).val \in Int
  BY InputFacts, ValueFacts
<1>2. 0 \in S
  BY <1>1 DEF Extremes
<1>3. ASSUME NEW k \in 0 .. len - 1, k \in S PROVE k + 1 \in S
  <2> DEFINE v == Input(k + 1)
  <2>1. k + 1 \in 1 .. len /\ k + 1 \in 0 .. len /\ (k + 1) - 1 = k
        /\ \A i \in 1 .. k + 1 : i \in 1 .. len /\ (i \in 1 .. k \/ i = k + 1)
    BY <1>1
  <2>2. e[k + 1] = Better(e[k], v, wanted)
    BY <2>1 DEF Extremes
  <2>3. CASE ~NotNull(v)
    <3>1. e[k + 1] = e[k]
      BY <2>2, <2>3 DEF Better
    <3>2. Found(k + 1)
      BY <1>3, <2>1, <2>3, <3>1
    <3> QED  BY <2>1, <3>2
  <2>4. CASE NotNull(v) /\ e[k] = Null
    <3>1. e[k + 1] = v
      BY <2>2, <2>4 DEF Better
    <3>2. \A i \in 1 .. k : ~NotNull(Input(i))
      BY <1>3, <2>4 DEF NotNull
    <3>3. Bound(k + 1, k + 1)
      BY <1>1, <2>1
    <3>4. k + 1 \in 1 .. k + 1
      OBVIOUS
    <3>5. Found(k + 1)
      BY <2>1, <2>4, <3>1, <3>2, <3>3, <3>4
    <3> QED  BY <2>1, <3>5
  <2>5. CASE NotNull(v) /\ e[k] # Null
    <3>1. PICK i \in 1 .. k : /\ NotNull(Input(i)) /\ e[k] = Input(i)
                            /\ \A j \in 1 .. k : NotNull(Input(j)) => Bound(i, j)
      BY <1>3, <2>5
    <3>2. i \in 1 .. len /\ i \in 1 .. k + 1 /\ k + 1 \in 1 .. k + 1
      BY <1>1
    <3>3. v.type = Input(i).type /\ v.type \notin {"null", "nan"} /\ v.val \in Int /\ Input(i).val \in Int
      BY <1>1, <2>1, <2>5, <3>1, <3>2 DEF Ordered
    <3>4. Compare(v, Input(i)) = IF v.val < Input(i).val THEN Less
                                 ELSE IF v.val = Input(i).val THEN Equal ELSE Greater
      BY <3>3 DEF Compare
    <3>5. CASE Compare(v, Input(i)) = wanted
      <4>1. e[k + 1] = v
        BY <2>2, <2>5, <3>1, <3>5 DEF Better
      <4>2. \A j \in 1 .. k : NotNull(Input(j)) => Bound(k + 1, j)
        <5> TAKE j \in 1 .. k
        <5>1. j \in 1 .. len
          BY <2>1
        <5>2. Input(j).val \in Int /\ (NotNull(Input(j)) => Bound(i, j))
          BY <1>1, <3>1, <5>1
        <5> QED  BY <3>3, <3>4, <3>5, <5>2 DEF Less, Equal, Greater
      <4>3. Bound(k + 1, k + 1)
        BY <3>3
      <4>4. Found(k + 1)
        BY <2>1, <2>5, <3>2, <4>1, <4>2, <4>3
      <4> QED  BY <2>1, <4>4
    <3>6. CASE Compare(v, Input(i)) # wanted
      <4>1. e[k + 1] = Input(i)
        BY <2>2, <2>5, <3>1, <3>6 DEF Better
      <4>2. Bound(i, k + 1)
        BY <3>3, <3>4, <3>6 DEF Less, Equal, Greater
      <4>3. Found(k + 1)
        BY <2>1, <3>1, <3>2, <4>1, <4>2
      <4> QED  BY <2>1, <4>3
    <3> QED  BY <3>5, <3>6
  <2> QED  BY <2>3, <2>4, <2>5
<1>4. len \in 0 .. len /\ \A k \in 0 .. len : k \in S
  <2>1. len \in 0 .. len
    BY <1>1
  <2> HIDE DEF S
  <2> QED  BY <1>1, <1>2, <1>3, <2>1, UpTo
<1>5. Found(len)
  BY <1>4
<1> QED  BY <1>5

-----------------------------------------------------------------------------
(* The sum and the counts *)

\* The size of the table.
LEMMA SizeFacts ==
  ASSUME DatabaseOK(db)
  PROVE  TableSize \in Nat /\ DOMAIN db.src = 0 .. TableSize - 1 /\ IsFiniteSet(DOMAIN db.src)
  BY FS_CardinalityType DEF DatabaseOK, TableSize

\* SumBefore has the values it is written for.
LEMMA SumBeforeDefined ==
  ASSUME DatabaseOK(db)
  PROVE  /\ SumBefore \in [0 .. TableSize -> Int] /\ SumBefore[0] = 0
         /\ \A n \in 1 .. TableSize : SumBefore[n] =
              SumBefore[n - 1] + (IF n - 1 \in NonNull THEN db.src[n - 1].val ELSE 0)
<1> DEFINE size == TableSize
           Add(n) == IF n - 1 \in NonNull THEN db.src[n - 1].val ELSE 0
           step == [n \in 1 .. size |-> [x \in Int |-> x + Add(n)]]
           Rec(f) == [n \in 0 .. size |-> IF n = 0 THEN 0 ELSE f[n - 1] + Add(n)]
<1>1. size \in Nat
  BY SizeFacts
<1>2. \A n \in 1 .. size : Add(n) \in Int
  <2>1. \A m \in NonNull : m \in DOMAIN db.src
    BY DEF NonNull, Selected
  <2>2. \A m \in NonNull : db.src[m].val \in Int
    BY <2>1, ValueFacts DEF DatabaseOK
  <2> QED  BY <2>2
<1> HIDE DEF Add, size
<1>3. step \in [1 .. size -> [Int -> Int]]
  BY <1>2
<1>4. PICK h : Way(Int, size, 0, step, h)
  <2> HIDE DEF step
  <2>1. 0 \in Int
    OBVIOUS
  <2> QED  BY <1>1, <1>3, <2>1, WayExists
<1>5. h \in [0 .. size -> Int] /\ h[0] = 0 /\ \A n \in 1 .. size : h[n] = h[n - 1] + Add(n)
  <2>1. \A n \in 1 .. size : n - 1 \in 0 .. size
    BY <1>1
  <2> QED  BY <1>4, <2>1 DEF Way
<1>6. \A n \in 0 .. size : n = 0 \/ n \in 1 .. size
  BY <1>1
<1>7. h = Rec(h)
  BY <1>5, <1>6
<1>8. SumBefore = CHOOSE f : f = Rec(f)
  BY DEF SumBefore, Add, size, TableSize
<1>9. SumBefore = Rec(SumBefore)
  <2> HIDE DEF Rec
  <2> QED  BY <1>7, <1>8
<1> DEFINE r == SumBefore
<1>10. r = [n \in 0 .. size |-> IF n = 0 THEN 0 ELSE r[n - 1] + Add(n)]
  BY <1>9
<1> HIDE DEF r, Rec
<1>11. r[0] = 0 /\ \A n \in 1 .. size : r[n] = r[n - 1] + Add(n)
  <2>1. 0 \in 0 .. size /\ \A n \in 1 .. size : n \in 0 .. size /\ n # 0
    BY <1>1
  <2> QED  BY <1>10, <2>1
<1>12. r = [n \in 0 .. size |-> r[n]]
  BY <1>10
<1>13. \A n \in 1 .. size : r[n - 1] \in Int => r[n] = step[n][r[n - 1]]
  BY <1>11
<1>14. Way(Int, size, 0, step, r)
  <2>1. 0 \in Int
    OBVIOUS
  <2> HIDE DEF step
  <2> QED  BY <1>1, <1>3, <1>11, <1>12, <1>13, <2>1, IsWay
<1>15. r \in [0 .. size -> Int]
  BY <1>14 DEF Way
<1> QED  BY <1>11, <1>15 DEF r, Add, size

\* The running sum is the sum of the values up to a multiple of 2^64.
LEMMA SumFound ==
  ASSUME DatabaseOK(db), InOrder(TableSize), NEW s, Sums(s),
         \A m \in NonNull : IsInt(db.src[m])
  PROVE  /\ s[Len(rows)] \in -IntLimit .. IntLimit - 1
         /\ \E c \in Int : s[Len(rows)] = SumBefore[TableSize] + (2 * IntLimit) * c
<1> DEFINE len == Len(rows)
           size == TableSize
           w == 2 * IntLimit
           B == SumBefore
           Split(n, k) == \A i \in 1 .. len : rows[i].src < n <=> i <= k
           Same(n, k) == s[k] \in -IntLimit .. IntLimit - 1 /\ \E c \in Int : s[k] = B[n] + w * c
           S == {n \in 0 .. size : \E k \in 0 .. len : Split(n, k) /\ Same(n, k)}
<1>1. /\ len \in Nat /\ size \in Nat /\ w \in Nat /\ IntLimit \in Nat /\ IntLimit > 0
      /\ DOMAIN db.src = 0 .. size - 1
      /\ \A k \in 1 .. len : /\ rows[k].src \in DOMAIN db.src /\ rows[k].src \in Nat
                             /\ Input(k) = db.src[rows[k].src] /\ ValueOK(Input(k))
                             /\ Input(k).val \in Int
  BY InputFacts, SizeFacts, ValueFacts, IntLimitAssumption
<1>2. /\ B \in [0 .. size -> Int] /\ B[0] = 0
      /\ \A n \in 1 .. size : B[n] = B[n - 1] + (IF n - 1 \in NonNull THEN db.src[n - 1].val ELSE 0)
  BY SumBeforeDefined
<1>3. /\ s \in [0 .. len -> Int] /\ s[0] = 0
      /\ \A k \in 1 .. len :
           s[k] = IF IsInt(Input(k)) THEN Wrap(s[k - 1] + Input(k).val) ELSE s[k - 1]
  BY DEF Sums
<1>4. /\ \A k \in 1 .. len : rows[k].src < size /\ rows[k].src \in Selected
      /\ \A j, k \in 1 .. len : j < k => rows[j].src < rows[k].src
      /\ \A m \in Selected : m < size => \E k \in 1 .. len : rows[k].src = m
  BY DEF InOrder
<1> HIDE DEF len, size, w, B
<1>5. 0 \in S
  <2>1. Split(0, 0)
    BY <1>1
  <2>2. w * 0 = 0
    BY <1>1
  <2>3. Same(0, 0)
    <3>1. s[0] = B[0] + w * 0
      BY <1>2, <1>3, <2>2
    <3>2. s[0] \in -IntLimit .. IntLimit - 1
      BY <1>1, <1>3
    <3>3. 0 \in Int
      OBVIOUS
    <3> QED  BY <3>1, <3>2, <3>3
  <2>4. 0 \in 0 .. len /\ 0 \in 0 .. size
    BY <1>1
  <2> HIDE DEF Split, Same
  <2> QED  BY <2>1, <2>3, <2>4
<1>6. ASSUME NEW n \in 0 .. size - 1, n \in S PROVE n + 1 \in S
  <2>1. PICK k \in 0 .. len : Split(n, k) /\ Same(n, k)
    BY <1>6
  <2>2. /\ n \in Nat /\ k \in Nat /\ n < size /\ n + 1 \in 0 .. size /\ n + 1 \in 1 .. size
        /\ (n + 1) - 1 = n /\ B[n] \in Int
    BY <1>1, <1>2
  <2>3. B[n + 1] = B[n] + (IF n \in NonNull THEN db.src[n].val ELSE 0)
    BY <1>2, <2>2
  <2>4. CASE n \notin Selected
    <3>1. Split(n + 1, k)
      <4>1. \A i \in 1 .. len : rows[i].src # n /\ rows[i].src \in Nat
        BY <1>1, <1>4, <2>4
      <4>2. \A i \in 1 .. len : rows[i].src < n + 1 <=> rows[i].src < n
        BY <2>2, <4>1
      <4> QED  BY <2>1, <4>2
    <3>2. n \notin NonNull
      BY <2>4 DEF NonNull
    <3>3. B[n + 1] = B[n]
      BY <2>2, <2>3, <3>2
    <3>4. Same(n + 1, k)
      BY <2>1, <3>3
    <3> HIDE DEF Split, Same
    <3> QED  BY <2>2, <3>1, <3>4
  <2>5. CASE n \in Selected
    <3>1. PICK i \in 1 .. len : rows[i].src = n
      BY <1>4, <2>2, <2>5
    <3>2. i = k + 1
      <4>1. i > k
        BY <1>1, <2>1, <2>2, <3>1
      <4>2. CASE k + 1 < i
        <5>1. k + 1 \in 1 .. len
          BY <1>1, <2>2, <4>2
        <5>2. rows[k + 1].src < n
          BY <1>4, <3>1, <4>2, <5>1
        <5>3. k + 1 <= k
          BY <2>1, <5>1, <5>2
        <5> QED  BY <2>2, <5>3
      <4> QED  BY <1>1, <2>2, <4>1, <4>2
    <3>3. k + 1 \in 1 .. len /\ k + 1 \in 0 .. len /\ (k + 1) - 1 = k /\ s[k] \in Int
      BY <1>1, <1>3, <2>2, <3>2
    <3>4. Split(n + 1, k + 1)
      <4> SUFFICES ASSUME NEW j \in 1 .. len
                   PROVE  rows[j].src < n + 1 <=> j <= k + 1
        OBVIOUS
      <4>1. rows[j].src \in Nat /\ (rows[j].src < n <=> j <= k)
        BY <1>1, <2>1
      <4>2. CASE j <= k + 1
        BY <2>2, <3>1, <3>2, <4>1, <4>2
      <4>3. CASE ~(j <= k + 1)
        <5>1. rows[k + 1].src < rows[j].src
          BY <1>4, <2>2, <3>3, <4>3
        <5> QED  BY <2>2, <3>1, <3>2, <4>1, <4>3, <5>1
      <4> QED  BY <4>2, <4>3
    <3>5. Input(k + 1) = db.src[n] /\ Input(k + 1).val \in Int
      BY <1>1, <3>1, <3>2
    <3>6. Same(n + 1, k + 1)
      <4>1. CASE n \in NonNull
        <5>1. IsInt(Input(k + 1))
          BY <3>5, <4>1
        <5> DEFINE x == s[k] + Input(k + 1).val
        <5>2. s[k + 1] = Wrap(x) /\ x \in Int
          BY <1>3, <3>3, <3>5, <5>1
        <5> HIDE DEF x
        <5>3. PICK c \in Int : Wrap(x) = x + w * c
          BY <5>2, WrapFacts DEF w
        <5>4. PICK d \in Int : s[k] = B[n] + w * d
          BY <2>1
        <5>5. w * (c + d) = (w * c) + (w * d) /\ c + d \in Int /\ w * c \in Int /\ w * d \in Int
              /\ w * (c + d) \in Int
          BY <1>1
        <5>6. B[n + 1] = B[n] + Input(k + 1).val
          BY <2>3, <3>5, <4>1
        <5>7. s[k + 1] = B[n + 1] + w * (c + d)
          BY <2>2, <3>3, <3>5, <5>2, <5>3, <5>4, <5>5, <5>6 DEF x
        <5>8. s[k + 1] \in -IntLimit .. IntLimit - 1
          BY <5>2, WrapFacts
        <5> QED  BY <5>5, <5>7, <5>8
      <4>2. CASE n \notin NonNull
        <5>1. ~IsInt(Input(k + 1))
          BY <2>5, <3>5, <4>2 DEF NonNull, NotNull, IsInt, Null
        <5>2. s[k + 1] = s[k] /\ B[n + 1] = B[n]
          BY <1>3, <2>2, <2>3, <3>3, <4>2, <5>1
        <5> QED  BY <2>1, <5>2
      <4> QED  BY <4>1, <4>2
    <3> HIDE DEF Split, Same
    <3> QED  BY <2>2, <3>3, <3>4, <3>6
  <2> QED  BY <2>4, <2>5
<1>7. size \in S
  <2> HIDE DEF S
  <2>1. \A n \in 0 .. size : n \in S
    BY <1>1, <1>5, <1>6, UpTo
  <2> QED  BY <1>1, <2>1
<1>8. PICK k \in 0 .. len : Split(size, k) /\ Same(size, k)
  BY <1>7
<1>9. k = len
  <2>1. CASE k < len
    <3>1. len \in 1 .. len
      BY <1>1, <2>1
    <3>2. len <= k
      BY <1>4, <1>8, <3>1
    <3> QED  BY <1>1, <2>1, <3>2
  <2> QED  BY <1>1, <2>1
<1> QED  BY <1>8, <1>9 DEF len, size, w, B

\* There are as many matches as selected rows, with values too.
LEMMA CountsFound ==
  ASSUME DatabaseOK(db), InOrder(TableSize)
  PROVE  /\ Len(rows) = Cardinality(Selected)
         /\ Cardinality({k \in DOMAIN rows : NotNull(Input(k))}) = Cardinality(NonNull)
         /\ NonNull = {rows[k].src : k \in {i \in DOMAIN rows : NotNull(Input(i))}}
<1> DEFINE K == {k \in DOMAIN rows : NotNull(Input(k))}
<1>1. /\ Len(rows) \in Nat /\ DOMAIN rows = 1 .. Len(rows)
      /\ \A k \in DOMAIN rows : rows[k].src \in Nat /\ Input(k) = db.src[rows[k].src]
  <2>1. rows \in Seq([src : Nat])
    BY DEF InOrder
  <2>2. Len(rows) \in Nat /\ DOMAIN rows = 1 .. Len(rows)
    BY <2>1
  <2> QED  BY <2>2, InputFacts
<1>2. \A k \in DOMAIN rows : rows[k].src \in Selected
  BY <1>1 DEF InOrder
<1>3. \A m \in Selected : \E k \in DOMAIN rows : rows[k].src = m
  <2>1. \A m \in Selected : m < TableSize
    BY SizeFacts DEF Selected
  <2> QED  BY <1>1, <2>1 DEF InOrder
<1>4. \A j, k \in DOMAIN rows : rows[j].src = rows[k].src => j = k
  <2>1. \A j, k \in 1 .. Len(rows) : j < k => rows[j].src < rows[k].src
    BY DEF InOrder
  <2> TAKE j, k \in DOMAIN rows
  <2>2. j \in Nat /\ k \in Nat /\ rows[j].src \in Nat /\ rows[k].src \in Nat
    BY <1>1
  <2>3. (j < k => rows[j].src < rows[k].src) /\ (k < j => rows[k].src < rows[j].src)
    BY <1>1, <2>1
  <2> QED  BY <2>2, <2>3
<1>5. ASSUME NEW D, D \subseteq DOMAIN rows, NEW T, T = {rows[k].src : k \in D}
      PROVE  Cardinality(D) = Cardinality(T)
  <2>1. IsFiniteSet(D)
    <3>1. IsFiniteSet(1 .. Len(rows))
      BY <1>1, FS_Interval
    <3> QED  BY <1>1, <1>5, <3>1, FS_Subset
  <2> DEFINE f == [k \in D |-> rows[k].src]
  <2>2. f \in Bijection(D, T)
    <3>1. f \in [D -> T]
      BY <1>5
    <3>2. \A j, k \in D : f[j] = f[k] => j = k
      BY <1>4, <1>5
    <3>3. \A t \in T : \E k \in D : f[k] = t
      BY <1>5
    <3> QED  BY <3>1, <3>2, <3>3, Fun_IsBij
  <2>3. ExistsBijection(D, T)
    BY <2>2 DEF ExistsBijection
  <2> QED  BY <2>1, <2>3, FS_Bijection
<1>6. Cardinality(DOMAIN rows) = Cardinality(Selected)
  <2>1. Selected = {rows[k].src : k \in DOMAIN rows}
    BY <1>2, <1>3
  <2> QED  BY <1>5, <2>1
<1>7. Cardinality(DOMAIN rows) = Len(rows)
  <2>1. Cardinality(1 .. Len(rows)) = IF 1 > Len(rows) THEN 0 ELSE Len(rows) - 1 + 1
    BY <1>1, FS_Interval
  <2> QED  BY <1>1, <2>1
<1>8. NonNull = {rows[k].src : k \in K}
  BY <1>1, <1>2, <1>3 DEF NonNull
<1>9. Cardinality(K) = Cardinality(NonNull)
  BY <1>5, <1>8
<1> QED  BY <1>6, <1>7, <1>8, <1>9

-----------------------------------------------------------------------------
(* The steps of a scan *)

\* The database and the query do not change, nor what is said of the matches.
LEMMA SameScan ==
  ASSUME db' = db, q' = q
  PROVE  /\ Selected' = Selected /\ TableSize' = TableSize
         /\ DatabaseOK(db)' /\ QueryOK(q)' <=> DatabaseOK(db) /\ QueryOK(q)
         /\ FilterExact' <=> FilterExact
         /\ rows' = rows => \A n : InOrder(n)' <=> InOrder(n)
         /\ rows' = rows =>
              /\ \A s : Sums(s)' <=> Sums(s)
              /\ \A e, wanted : Extremes(e, wanted)' <=> Extremes(e, wanted)
              /\ \A fn, s, least, greatest :
                   AggregateOf(fn, s, least, greatest)' = AggregateOf(fn, s, least, greatest)
<1>1. Selected' = Selected /\ TableSize' = TableSize
  BY DEF Selected, TableSize
<1>2. rows' = rows => \A k : Input(k)' = Input(k)
  BY DEF Input, PropertyOf
<1>3. rows' = rows => \A n : InOrder(n)' <=> InOrder(n)
  BY <1>1 DEF InOrder
<1>4. rows' = rows => /\ \A s : Sums(s)' <=> Sums(s)
                      /\ \A e, wanted : Extremes(e, wanted)' <=> Extremes(e, wanted)
  BY <1>2 DEF Sums, Extremes
<1>5. rows' = rows => \A fn, s, least, greatest :
                        AggregateOf(fn, s, least, greatest)' = AggregateOf(fn, s, least, greatest)
  BY <1>2 DEF AggregateOf
<1>6. FilterExact' <=> FilterExact
  BY DEF FilterExact
<1> QED  BY <1>1, <1>3, <1>4, <1>5, <1>6 DEF DatabaseOK, QueryOK

\* The first state.
LEMMA InitScan == Init => ScanInv
<1> SUFFICES ASSUME Init, q.kind = "match"
             PROVE  ScanInv
  BY DEF ScanInv
<1>1. /\ pc = "run" /\ sources = SrcOffsets /\ queue = <<>> /\ rows = <<>>
      /\ DatabaseOK(db) /\ QueryOK(q)
  BY InputsAssumption DEF Init
<1> DEFINE size == TableSize
<1>2. size \in Nat
  BY <1>1, SizeFacts
<1>3. sources = [i \in 1 .. size |-> i - 1]
  BY <1>1 DEF SrcOffsets, Offsets, TableSize, QueryOK
<1> HIDE DEF size
<1>4. sources \in [1 .. size -> Nat]
  BY <1>2, <1>3
<1>5. sources \in Seq(Nat) /\ Len(sources) = size
  BY <1>2, <1>4
<1>6. Scanned = 0
  BY <1>2, <1>5 DEF Scanned, size
<1>7. \A i \in 1 .. Len(sources) : sources[i] = 0 + i - 1
  BY <1>2, <1>3, <1>5
<1>8. InOrder(0)
  <2>1. <<>> \in Seq([src : Nat]) /\ Len(<<>>) = 0 /\ \A m \in Selected : m \in Nat
    BY <1>1, SizeFacts DEF Selected
  <2> QED  BY <1>1, <2>1 DEF InOrder
<1> QED  BY <1>1, <1>5, <1>6, <1>7, <1>8 DEF ScanInv

\* A row is scanned.
LEMMA StepScan ==
  ASSUME ScanInv, Scan, FilterExact
  PROVE  ScanInv'
<1>0. PICK n : n = Scanned
  OBVIOUS
<1> DEFINE m == [src |-> Head(sources)]
<1>1. /\ q.kind = "match" /\ pc = "run" /\ sources # <<>> /\ sources' = Tail(sources)
      /\ rows' = IF PassesWhere(m) THEN Append(rows, m) ELSE rows
      /\ db' = db /\ q' = q /\ pc' = pc /\ queue' = queue
  BY DEF Scan
<1>2. /\ DatabaseOK(db) /\ QueryOK(q) /\ queue = <<>> /\ sources \in Seq(Nat) /\ n \in Nat
      /\ \A i \in 1 .. Len(sources) : sources[i] = n + i - 1
      /\ InOrder(n)
  BY <1>0, <1>1 DEF ScanInv
<1>3. /\ Tail(sources) \in Seq(Nat) /\ Len(Tail(sources)) = Len(sources) - 1
      /\ Len(sources) \in Nat /\ Len(sources) > 0 /\ Head(sources) = sources[1]
      /\ \A i \in 1 .. Len(Tail(sources)) : Tail(sources)[i] = sources[i + 1]
  BY <1>1, <1>2
<1>4. Head(sources) = n
  <2>1. 1 \in 1 .. Len(sources)
    BY <1>3
  <2>2. sources[1] = n + 1 - 1
    BY <1>2, <2>1
  <2> QED  BY <1>2, <1>3, <2>2
<1>5. TableSize \in Nat /\ n = TableSize - Len(sources) /\ n \in DOMAIN db.src
  <2>1. TableSize \in Nat /\ DOMAIN db.src = 0 .. TableSize - 1
    BY <1>2, SizeFacts
  <2>2. n = TableSize - Len(sources)
    BY <1>0 DEF Scanned
  <2> QED  BY <1>2, <1>3, <2>1, <2>2
<1>6. Scanned' = n + 1
  <2>1. Scanned' = TableSize - Len(Tail(sources))
    BY <1>1, SameScan DEF Scanned
  <2> QED  BY <1>2, <1>3, <1>5, <2>1
<1>7. \A i \in 1 .. Len(sources') : sources'[i] = (n + 1) + i - 1
  <2> TAKE i \in 1 .. Len(sources')
  <2>1. i \in Nat /\ i + 1 \in 1 .. Len(sources) /\ i \in 1 .. Len(Tail(sources))
    BY <1>1, <1>3
  <2>2. sources[i + 1] = n + (i + 1) - 1
    BY <1>2, <2>1
  <2> QED  BY <1>1, <1>2, <1>3, <2>1, <2>2
<1>8. PassesWhere(m) <=> n \in Selected
  BY <1>1, <1>2, <1>4, <1>5, ScanSelects
<1>9. Selected' = Selected
  BY <1>1, SameScan
<1>10. /\ rows \in Seq([src : Nat])
       /\ \A k \in 1 .. Len(rows) : rows[k].src < n /\ rows[k].src \in Selected
       /\ \A j, k \in 1 .. Len(rows) : j < k => rows[j].src < rows[k].src
       /\ \A x \in Selected : x < n => \E k \in 1 .. Len(rows) : rows[k].src = x
  BY <1>2 DEF InOrder
<1>11. Len(rows) \in Nat /\ (\A k \in 1 .. Len(rows) : rows[k].src \in Nat)
       /\ \A x \in Selected : x \in Nat
  <2>1. \A k \in 1 .. Len(rows) : rows[k].src \in Nat
    BY <1>2, InputFacts
  <2>2. \A x \in Selected : x \in Nat
    BY <1>2, SizeFacts DEF Selected
  <2> QED  BY <1>10, <2>1, <2>2
<1>12. InOrder(n + 1)'
  <2>1. CASE n \notin Selected
    <3>1. rows' = rows
      BY <1>1, <1>8, <2>1
    <3>2. \A k \in 1 .. Len(rows) : rows[k].src < n + 1
      BY <1>2, <1>10, <1>11
    <3>3. \A x \in Selected : x < n + 1 => x < n
      BY <1>2, <1>11, <2>1
    <3> QED  BY <1>9, <1>10, <3>1, <3>2, <3>3 DEF InOrder
  <2>2. CASE n \in Selected
    <3>1. m \in [src : Nat] /\ m.src = n
      BY <1>2, <1>4
    <3>2. rows' = Append(rows, m)
      BY <1>1, <1>8, <2>2
    <3> HIDE DEF m
    <3>3. /\ rows' \in Seq([src : Nat]) /\ Len(rows') = Len(rows) + 1
          /\ rows'[Len(rows) + 1] = m
          /\ \A k \in 1 .. Len(rows) : rows'[k] = rows[k]
      BY <1>10, <3>1, <3>2
    <3>4. \A k \in 1 .. Len(rows') : k \in 1 .. Len(rows) \/ k = Len(rows) + 1
      BY <1>11, <3>3
    <3>5. ASSUME NEW k \in 1 .. Len(rows')
          PROVE  rows'[k].src < n + 1 /\ rows'[k].src \in Selected
      <4>1. CASE k = Len(rows) + 1
        BY <1>2, <2>2, <3>1, <3>3, <4>1
      <4>2. CASE k \in 1 .. Len(rows)
        <5>1. rows'[k] = rows[k] /\ rows[k].src \in Nat
          BY <1>11, <3>3, <4>2
        <5>2. rows[k].src < n /\ rows[k].src \in Selected
          BY <1>10, <4>2
        <5> QED  BY <1>2, <5>1, <5>2
      <4> QED  BY <3>4, <4>1, <4>2
    <3>6. ASSUME NEW j \in 1 .. Len(rows'), NEW k \in 1 .. Len(rows'), j < k
          PROVE  rows'[j].src < rows'[k].src
      <4>1. j \in 1 .. Len(rows)
        BY <1>11, <3>3, <3>6
      <4>2. CASE k = Len(rows) + 1
        BY <1>10, <3>1, <3>3, <4>1, <4>2
      <4>3. CASE k \in 1 .. Len(rows)
        BY <1>10, <3>3, <3>6, <4>1, <4>3
      <4> QED  BY <3>4, <4>2, <4>3
    <3>7. ASSUME NEW x \in Selected, x < n + 1
          PROVE  \E k \in 1 .. Len(rows') : rows'[k].src = x
      <4>1. CASE x = n
        <5>1. Len(rows) + 1 \in 1 .. Len(rows')
          BY <1>11, <3>3
        <5> QED  BY <3>1, <3>3, <4>1, <5>1
      <4>2. CASE x # n
        <5>1. x < n
          BY <1>2, <1>11, <3>7, <4>2
        <5>2. PICK k \in 1 .. Len(rows) : rows[k].src = x
          BY <1>10, <5>1
        <5>3. k \in 1 .. Len(rows')
          BY <1>11, <3>3
        <5> QED  BY <3>3, <5>2, <5>3
      <4> QED  BY <4>1, <4>2
    <3> QED  BY <1>9, <3>3, <3>5, <3>6, <3>7 DEF InOrder
  <2> QED  BY <2>1, <2>2
<1>13. n + 1 \in Nat /\ (DatabaseOK(db)' /\ QueryOK(q)')
  BY <1>1, <1>2, SameScan
<1>14. InOrder(Scanned)'
  BY <1>6, <1>12
<1> QED  BY <1>1, <1>2, <1>3, <1>6, <1>7, <1>13, <1>14 DEF ScanInv

\* The scan is over.
LEMMA StepFinishScan ==
  ASSUME ScanInv, Finish, q.kind = "match", FilterExact
  PROVE  ScanInv'
<1>1. /\ pc' = "done" /\ sources = <<>> /\ db' = db /\ q' = q /\ sources' = sources
      /\ queue' = queue /\ rows' = rows
      /\ q.aggregates # {} => result' = <<ComputeAggregates>>
  BY DEF Finish, Drained, Aggregates, ScanInv
<1>2. /\ DatabaseOK(db) /\ QueryOK(q) /\ queue = <<>> /\ sources \in Seq(Nat) /\ Scanned \in Nat
      /\ \A i \in 1 .. Len(sources) : sources[i] = Scanned + i - 1
      /\ InOrder(Scanned)
  BY DEF ScanInv
<1>3. Scanned' = Scanned
  BY <1>1, SameScan DEF Scanned
<1>4. InOrder(Scanned)'
  BY <1>1, <1>2, <1>3, SameScan
<1>5. ASSUME q.aggregates # {}
      PROVE  Aggregated'
  <2>1. /\ Sums(SumTo) /\ Extremes(LeastTo, Less) /\ Extremes(GreatestTo, Greater)
    BY <1>2, SumDefined, ExtremesDefined
  <2>2. ASSUME NEW fn \in q.aggregates
        PROVE  ComputeAggregates[<<fn, "src">>] = AggregateOf(fn, SumTo, LeastTo, GreatestTo)
    <3>1. fn # ""
      BY <1>2 DEF QueryOK
    <3>2. ComputeAggregates[<<fn, "src">>] = Aggregate(fn)
      BY <3>1 DEF ComputeAggregates
    <3> QED  BY <3>2 DEF Aggregate, AggregateOf
  <2>3. \E s, least, greatest :
          /\ Sums(s) /\ Extremes(least, Less) /\ Extremes(greatest, Greater)
          /\ \A fn \in q.aggregates :
               ComputeAggregates[<<fn, "src">>] = AggregateOf(fn, s, least, greatest)
    BY <2>1, <2>2
  <2>4. PICK s, least, greatest :
          /\ Sums(s) /\ Extremes(least, Less) /\ Extremes(greatest, Greater)
          /\ \A fn \in q.aggregates :
               ComputeAggregates[<<fn, "src">>] = AggregateOf(fn, s, least, greatest)
    BY <2>3
  <2>5. Len(result') = 1 /\ result'[1] = ComputeAggregates
    BY <1>1, <1>5
  <2>6. /\ Sums(s)' /\ Extremes(least, Less)' /\ Extremes(greatest, Greater)'
        /\ \A fn : AggregateOf(fn, s, least, greatest)' = AggregateOf(fn, s, least, greatest)
    BY <1>1, <2>4, SameScan DEF Less, Greater
  <2>7. \A fn \in q'.aggregates : result'[1][<<fn, "src">>] = AggregateOf(fn, s, least, greatest)'
    BY <1>1, <2>4, <2>5, <2>6
  <2> QED  BY <2>5, <2>6, <2>7 DEF Aggregated
<1>6. DatabaseOK(db)' /\ QueryOK(q)'
  BY <1>1, <1>2, SameScan
<1> QED  BY <1>1, <1>2, <1>3, <1>4, <1>5, <1>6 DEF ScanInv

\* Every step keeps the invariant.
LEMMA StepScans == ScanInv /\ [Next]_vars => ScanInv'
<1> SUFFICES ASSUME ScanInv, [Next]_vars, q'.kind = "match", FilterExact'
             PROVE  ScanInv'
  BY DEF ScanInv
<1>0. db' = db /\ q' = q
  BY DEF Next, vars, Scan, SingleHop, StartPaths, SkipNode, VisitNode, PopPath,
         StartSort, SortRow, Finish, Done
<1>1. q' = q /\ q.kind = "match" /\ FilterExact
  BY <1>0, SameScan
<1>2. queue = <<>>
  BY <1>1 DEF ScanInv
<1>3. CASE Scan
  BY <1>1, <1>3, StepScan
<1>4. CASE Finish
  BY <1>1, <1>4, StepFinishScan
<1>5. CASE SingleHop \/ StartPaths
  BY <1>1, <1>5 DEF SingleHop, StartPaths
<1>6. CASE SkipNode \/ VisitNode \/ PopPath
  BY <1>2, <1>6 DEF SkipNode, VisitNode, PopPath, AtEdge
<1>7. CASE StartSort \/ SortRow \/ Done \/ UNCHANGED vars
  <2>1. /\ UNCHANGED <<db, q, sources, queue, rows>> /\ pc' \in {"run", "sort", "done"}
        /\ pc' # "run" => sources = <<>>
        /\ pc' = "done" => pc = "done" /\ result' = result
    BY <1>1, <1>7 DEF StartSort, SortRow, Drained, Done, vars, ScanInv
  <2>2. Scanned' = Scanned
    BY <2>1, SameScan DEF Scanned
  <2>3. result' = result => (Aggregated' <=> Aggregated)
    BY <2>1, SameScan DEF Aggregated, Less, Greater
  <2>4. \A n : InOrder(n)' <=> InOrder(n)
    BY <2>1, SameScan
  <2>5. DatabaseOK(db)' /\ QueryOK(q)'
    BY <1>1, <2>1, SameScan DEF ScanInv
  <2>6. InOrder(Scanned)' <=> InOrder(Scanned)
    BY <2>2, <2>4
  <2> QED  BY <1>1, <2>1, <2>2, <2>3, <2>5, <2>6 DEF ScanInv
<1> QED  BY <1>3, <1>4, <1>5, <1>6, <1>7 DEF Next

\* ScanInv is an invariant.
LEMMA ScanInvariant == Spec => []ScanInv
BY InitScan, StepScans, PTL DEF Spec

\* AggregatesSound follows: compute_aggregates gives the number of the selected
\* rows and of their values, attained bounds, and a sum that is exact as long
\* as an i64 holds it.
LEMMA ScansSound ==
  ASSUME ScanInv
  PROVE  AggregatesSound
<1> SUFFICES ASSUME pc = "done", q.kind = "match", q.aggregates # {}, FilterExact
             PROVE  AggregatesSound
  BY DEF AggregatesSound, IsDone
<1>1. DatabaseOK(db) /\ sources = <<>> /\ InOrder(Scanned) /\ Aggregated
  BY DEF ScanInv
<1> DEFINE size == TableSize
           len == Len(rows)
           Total == SumBefore[size]
           K == {k \in DOMAIN rows : NotNull(Input(k))}
           ints == Cardinality({k \in DOMAIN rows : IsInt(Input(k))})
           OneType == \A m, n \in NonNull :
                        db.src[m].type = db.src[n].type /\ Ordered(db.src[n])
           Is(fn, v) == fn \in q.aggregates => result[1][<<fn, "src">>] = v
           Bound(n, fn, m) ==
             /\ fn = "MIN" => db.src[n].val <= db.src[m].val
             /\ fn = "MAX" => db.src[n].val >= db.src[m].val
<1>2. size \in Nat /\ InOrder(size) /\ size = Cardinality(DOMAIN db.src)
  <2>1. size \in Nat
    BY <1>1, SizeFacts
  <2>2. Scanned = size
    BY <1>1, <2>1 DEF Scanned
  <2> QED  BY <1>1, <2>1, <2>2 DEF TableSize
<1>3. PICK s, least, greatest :
        /\ Sums(s) /\ Extremes(least, Less) /\ Extremes(greatest, Greater)
        /\ Len(result) = 1
        /\ \A fn \in q.aggregates : result[1][<<fn, "src">>] = AggregateOf(fn, s, least, greatest)
  BY <1>1 DEF Aggregated
<1>4. /\ len = Cardinality(Selected) /\ Cardinality(K) = Cardinality(NonNull)
      /\ NonNull = {rows[k].src : k \in K}
  BY <1>1, <1>2, CountsFound
<1>5. /\ len \in Nat /\ DOMAIN rows = 1 .. len
      /\ \A k \in DOMAIN rows : Input(k) = db.src[rows[k].src] /\ (IsInt(Input(k)) => NotNull(Input(k)))
  <2>1. rows \in Seq([src : Nat])
    BY <1>1 DEF InOrder
  <2>2. len \in Nat /\ DOMAIN rows = 1 .. len
    BY <2>1
  <2>3. \A k \in 1 .. len : Input(k) = db.src[rows[k].src] /\ ValueOK(Input(k))
    BY <1>1, InputFacts
  <2> QED  BY <2>2, <2>3, ValueFacts
<1>6. Is("COUNT*", Int64(Cardinality(Selected))) /\ Is("COUNT", Int64(Cardinality(NonNull)))
  BY <1>3, <1>4 DEF AggregateOf
<1>7. Is("MIN", least[len]) /\ Is("MAX", greatest[len])
      /\ Is("SUM", Int64(s[len])) /\ Is("AVG", IF ints = 0 THEN Null ELSE Float64(<<s[len], ints>>))
  BY <1>3 DEF AggregateOf
<1>8. K = {} <=> NonNull = {}
  BY <1>4
<1>9. ASSUME K = {} \/ OneType
      PROVE  /\ K = {} => least[len] = Null /\ greatest[len] = Null
             /\ K # {} => /\ \E n \in NonNull : least[len] = db.src[n]
                                               /\ \A m \in NonNull : Bound(n, "MIN", m)
                          /\ \E n \in NonNull : greatest[len] = db.src[n]
                                               /\ \A m \in NonNull : Bound(n, "MAX", m)
  <2>1. \A i, j \in 1 .. len :
          NotNull(Input(i)) /\ NotNull(Input(j)) =>
            Input(i).type = Input(j).type /\ Ordered(Input(j))
    <3> TAKE i, j \in 1 .. len
    <3> SUFFICES ASSUME NotNull(Input(i)), NotNull(Input(j))
                 PROVE  Input(i).type = Input(j).type /\ Ordered(Input(j))
      OBVIOUS
    <3>1. i \in K /\ j \in K
      BY <1>5
    <3>2. rows[i].src \in NonNull /\ rows[j].src \in NonNull
      BY <1>4, <3>1
    <3>3. OneType
      BY <1>9, <3>1
    <3> QED  BY <1>5, <3>1, <3>2, <3>3
  <2>2. K = {i \in 1 .. len : NotNull(Input(i))}
    BY <1>5
  <2> HIDE DEF K, len
  <2>3. \/ K = {} /\ least[len] = Null
        \/ \E i \in K : least[len] = Input(i) /\ \A j \in K : Input(i).val <= Input(j).val
    BY <1>1, <1>3, <2>1, <2>2, ExtremeFound DEF len, Less, Greater
  <2>4. \/ K = {} /\ greatest[len] = Null
        \/ \E i \in K : greatest[len] = Input(i) /\ \A j \in K : Input(i).val >= Input(j).val
    BY <1>1, <1>3, <2>1, <2>2, ExtremeFound DEF len, Less, Greater
  <2>5. \A i \in K : Input(i) = db.src[rows[i].src] /\ rows[i].src \in NonNull
    BY <1>4, <1>5 DEF K
  <2>6. \A n \in NonNull : \E i \in K : n = rows[i].src
    BY <1>4
  <2> HIDE DEF Bound
  <2>7. \A i, j \in K : /\ Input(i).val <= Input(j).val => Bound(rows[i].src, "MIN", rows[j].src)
                        /\ Input(i).val >= Input(j).val => Bound(rows[i].src, "MAX", rows[j].src)
    BY <2>5 DEF Bound
  <2>8. K # {} => \E n \in NonNull : least[len] = db.src[n] /\ \A m \in NonNull : Bound(n, "MIN", m)
    <3> SUFFICES ASSUME K # {}
                 PROVE  \E n \in NonNull : least[len] = db.src[n]
                                         /\ \A m \in NonNull : Bound(n, "MIN", m)
      OBVIOUS
    <3>1. PICK i \in K : least[len] = Input(i) /\ \A j \in K : Input(i).val <= Input(j).val
      BY <2>3
    <3>2. \A m \in NonNull : Bound(rows[i].src, "MIN", m)
      <4> TAKE m \in NonNull
      <4>1. PICK j \in K : m = rows[j].src
        BY <2>6
      <4>2. Bound(rows[i].src, "MIN", rows[j].src)
        BY <2>7, <3>1
      <4> QED  BY <4>1, <4>2
    <3> QED  BY <2>5, <3>1, <3>2
  <2>9. K # {} => \E n \in NonNull : greatest[len] = db.src[n] /\ \A m \in NonNull : Bound(n, "MAX", m)
    <3> SUFFICES ASSUME K # {}
                 PROVE  \E n \in NonNull : greatest[len] = db.src[n]
                                         /\ \A m \in NonNull : Bound(n, "MAX", m)
      OBVIOUS
    <3>1. PICK i \in K : greatest[len] = Input(i) /\ \A j \in K : Input(i).val >= Input(j).val
      BY <2>4
    <3>2. \A m \in NonNull : Bound(rows[i].src, "MAX", m)
      <4> TAKE m \in NonNull
      <4>1. PICK j \in K : m = rows[j].src
        BY <2>6
      <4>2. Bound(rows[i].src, "MAX", rows[j].src)
        BY <2>7, <3>1
      <4> QED  BY <4>1, <4>2
    <3> QED  BY <2>5, <3>1, <3>2
  <2>10. K = {} => least[len] = Null /\ greatest[len] = Null
    BY <2>3, <2>4
  <2> QED  BY <2>8, <2>9, <2>10
<1>10. ASSUME \A n \in NonNull : IsInt(db.src[n]), Total \in -IntLimit .. IntLimit - 1
       PROVE  s[len] = Total /\ ints = Cardinality(NonNull)
  <2>1. s[len] \in -IntLimit .. IntLimit - 1
        /\ \E c \in Int : s[len] = Total + (2 * IntLimit) * c
    BY <1>1, <1>2, <1>3, <1>10, SumFound
  <2>2. PICK c \in Int : s[len] = Total + (2 * IntLimit) * c
    BY <2>1
  <2>3. IntLimit \in Nat /\ IntLimit > 0
    BY IntLimitAssumption
  <2> DEFINE w == 2 * IntLimit
             d == w * c
  <2>4. w \in Nat /\ w = IntLimit + IntLimit /\ d \in Int
    BY <2>3
  <2>5. c >= 1 => d >= w
    BY <2>3
  <2>6. c <= -1 => d <= -w
    BY <2>3
  <2>7. c = 0 => d = 0
    BY <2>3
  <2> HIDE DEF w, d, len, Total
  <2>8. s[len] = Total + d
    BY <2>2 DEF w, d
  <2>9. ~(d >= w) /\ ~(d <= -w)
    BY <1>10, <2>1, <2>3, <2>4, <2>8
  <2>10. c = 0
    BY <2>5, <2>6, <2>9
  <2>11. s[len] = Total
    BY <1>10, <2>3, <2>7, <2>8, <2>10
  <2>12. {k \in DOMAIN rows : IsInt(Input(k))} = K
    BY <1>4, <1>5, <1>10
  <2> QED  BY <1>4, <2>11, <2>12
<1>11. ASSUME NonNull = {}
       PROVE  Is("AVG", Null) /\ Is("MIN", Null) /\ Is("MAX", Null)
  <2>1. K = {}
    BY <1>8, <1>11
  <2>2. {k \in DOMAIN rows : IsInt(Input(k))} = {}
    BY <1>5, <2>1
  <2>3. ints = 0
    BY <2>2, FS_EmptySet
  <2> HIDE DEF K, ints, len
  <2> QED  BY <1>7, <1>9, <2>1, <2>3
<1>12. ASSUME NonNull # {}, OneType
       PROVE  \A fn \in {"MIN", "MAX"} : \E n \in NonNull :
                Is(fn, db.src[n]) /\ \A m \in NonNull : Bound(n, fn, m)
  <2> HIDE DEF K, len, Bound, OneType
  <2> QED  BY <1>7, <1>8, <1>9, <1>12
<1>13. ASSUME \A n \in NonNull : IsInt(db.src[n]), Total \in -IntLimit .. IntLimit - 1
       PROVE  /\ Is("SUM", Int64(Total))
              /\ NonNull # {} => Is("AVG", Float64(<<Total, Cardinality(NonNull)>>))
  <2>1. s[len] = Total /\ ints = Cardinality(NonNull)
    BY <1>10, <1>13
  <2>2. NonNull # {} => Cardinality(NonNull) # 0
    <3>1. IsFiniteSet(NonNull)
      <4>1. NonNull \subseteq DOMAIN db.src
        BY DEF NonNull, Selected
      <4> QED  BY <1>1, <4>1, SizeFacts, FS_Subset
    <3> QED  BY <3>1, FS_EmptySet
  <2> HIDE DEF ints, len, Total
  <2> QED  BY <1>7, <2>1, <2>2
<1> QED
  <2>1. /\ Len(result) = 1
        /\ Is("COUNT*", Int64(Cardinality(Selected)))
        /\ Is("COUNT", Int64(Cardinality(NonNull)))
        /\ NonNull = {} => \A fn \in {"AVG", "MIN", "MAX"} : Is(fn, Null)
        /\ NonNull # {} /\ OneType => \A fn \in {"MIN", "MAX"} : \E n \in NonNull :
             Is(fn, db.src[n]) /\ \A m \in NonNull : Bound(n, fn, m)
        /\ (\A n \in NonNull : IsInt(db.src[n])) /\ Total \in -IntLimit .. IntLimit - 1 =>
             /\ Is("SUM", Int64(Total))
             /\ NonNull # {} => Is("AVG", Float64(<<Total, Cardinality(NonNull)>>))
    <3> HIDE DEF Is, Bound, Total, OneType
    <3> QED  BY <1>3, <1>6, <1>11, <1>12, <1>13
  <2> QED  BY <1>2, <2>1 DEF AggregatesSound

\* AggregatesSound is an invariant for every table, and every filter that does
\* not compare a float with an integer that is none.
THEOREM AggregatesRight == Spec => []AggregatesSound
BY ScanInvariant, ScansSound, PTL

-----------------------------------------------------------------------------
(* The order of the rows *)

\* x comes before y: the first of the m components that differs decides.
LexLess(m, x, y) ==
  \E k \in 1 .. m : x[k] < y[k] /\ \A l \in 1 .. k - 1 : x[l] = y[l]

\* The components of row i for ORDER BY, negated where it is descending.
Part(all, k, i) ==
  LET c == Plain(q.order_by[k].var)
  IN  IF c \notin Columns THEN 0
      ELSE IF q.order_by[k].ascending THEN all[i][c].val ELSE -all[i][c].val
Parts(all, i) == [k \in 1 .. Len(q.order_by) |-> Part(all, k, i)]

\* It is a total order.
LEMMA LexOrder ==
  ASSUME NEW m \in Nat, NEW x \in [1 .. m -> Int], NEW y \in [1 .. m -> Int]
  PROVE  /\ LexLess(m, x, y) \/ LexLess(m, y, x) \/ x = y
         /\ ~(LexLess(m, x, y) /\ LexLess(m, y, x))
         /\ ~LexLess(m, x, x)
<1>1. ASSUME x # y
      PROVE  LexLess(m, x, y) \/ LexLess(m, y, x)
  <2> DEFINE D == {k \in 1 .. m : x[k] # y[k]}
  <2>1. D \subseteq Nat /\ D # {}
    BY <1>1
  <2>2. PICK k \in D : \A l \in D : k <= l
    BY <2>1, LeastNumber
  <2>3. k \in 1 .. m /\ x[k] \in Int /\ y[k] \in Int /\ x[k] # y[k]
    OBVIOUS
  <2>4. \A l \in 1 .. k - 1 : l \in 1 .. m /\ l \notin D
    BY <2>2, <2>3
  <2>5. \A l \in 1 .. k - 1 : x[l] = y[l]
    BY <2>4
  <2>6. x[k] < y[k] \/ y[k] < x[k]
    BY <2>3
  <2> QED  BY <2>3, <2>5, <2>6 DEF LexLess
<1>2. ASSUME LexLess(m, x, y), LexLess(m, y, x)
      PROVE  FALSE
  <2>1. PICK k \in 1 .. m : x[k] < y[k] /\ \A l \in 1 .. k - 1 : x[l] = y[l]
    BY <1>2 DEF LexLess
  <2>2. PICK h \in 1 .. m : y[h] < x[h] /\ \A l \in 1 .. h - 1 : y[l] = x[l]
    BY <1>2 DEF LexLess
  <2>3. x[k] \in Int /\ y[k] \in Int /\ x[h] \in Int /\ y[h] \in Int
    OBVIOUS
  <2>4. CASE k < h
    <3>1. k \in 1 .. h - 1
      BY <2>4
    <3> QED  BY <2>1, <2>2, <2>3, <3>1
  <2>5. CASE h < k
    <3>1. h \in 1 .. k - 1
      BY <2>5
    <3> QED  BY <2>1, <2>2, <2>3, <3>1
  <2>6. CASE h = k
    BY <2>1, <2>2, <2>3, <2>6
  <2> QED  BY <2>4, <2>5, <2>6
<1>3. ~LexLess(m, x, x)
  BY DEF LexLess
<1> QED  BY <1>1, <1>2, <1>3

\* The lexicographic order is transitive.
LEMMA LexTransitive ==
  ASSUME NEW m \in Nat, NEW x \in [1 .. m -> Int], NEW y \in [1 .. m -> Int],
         NEW z \in [1 .. m -> Int], LexLess(m, x, y), LexLess(m, y, z)
  PROVE  LexLess(m, x, z)
<1>1. PICK k \in 1 .. m : x[k] < y[k] /\ \A l \in 1 .. k - 1 : x[l] = y[l]
  BY DEF LexLess
<1>2. PICK h \in 1 .. m : y[h] < z[h] /\ \A l \in 1 .. h - 1 : y[l] = z[l]
  BY DEF LexLess
<1>3. \A l \in 1 .. m : x[l] \in Int /\ y[l] \in Int /\ z[l] \in Int
  OBVIOUS
<1>4. CASE k <= h
  <2>1. \A l \in 1 .. k - 1 : l \in 1 .. h - 1
    BY <1>4
  <2>2. \A l \in 1 .. k - 1 : x[l] = z[l]
    BY <1>1, <1>2, <2>1
  <2>3. k = h \/ k \in 1 .. h - 1
    BY <1>4
  <2>4. x[k] < z[k]
    BY <1>1, <1>2, <1>3, <2>3
  <2> QED  BY <2>2, <2>4 DEF LexLess
<1>5. CASE h < k
  <2>1. h \in 1 .. k - 1 /\ \A l \in 1 .. h - 1 : l \in 1 .. k - 1
    BY <1>5
  <2>2. \A l \in 1 .. h - 1 : x[l] = z[l]
    BY <1>1, <1>2, <2>1
  <2>3. x[h] < z[h]
    BY <1>1, <1>2, <1>3, <2>1
  <2> QED  BY <2>2, <2>3 DEF LexLess
<1> QED  BY <1>4, <1>5

\* The smallest number of a set.
LEMMA MinFacts ==
  ASSUME NEW S, S \subseteq Nat, S # {}
  PROVE  Min(S) \in S /\ \A x \in S : Min(S) <= x
<1>1. \E x \in S : \A y \in S : x <= y
  BY LeastNumber
<1> QED  BY <1>1 DEF Min

\* The rows have the columns, with values that can be compared.
SortableRows(all) ==
  /\ Sortable(all) /\ q.order_by \in Seq([var : STRING, ascending : BOOLEAN])
  /\ \A i \in DOMAIN all : DOMAIN all[i] = Columns

\* What sort_by compares, and what the property says of the order.
LEMMA PartFacts ==
  ASSUME NEW all, SortableRows(all), NEW i \in DOMAIN all, NEW j \in DOMAIN all,
         NEW k \in 1 .. Len(q.order_by)
  PROVE  /\ Part(all, k, i) \in Int /\ Part(all, k, j) \in Int
         /\ k \in Decides(all, i, j) <=> Part(all, k, i) # Part(all, k, j)
         /\ CompareOn(q.order_by[k], all[i], all[j]) =
              IF Part(all, k, i) < Part(all, k, j) THEN Less
              ELSE IF Part(all, k, i) = Part(all, k, j) THEN Equal ELSE Greater
         /\ k \in Decides(all, i, j) =>
              (Part(all, k, i) < Part(all, k, j) <=>
                 LET c == Plain(q.order_by[k].var)
                 IN  IF q.order_by[k].ascending THEN all[i][c].val < all[j][c].val
                     ELSE all[i][c].val > all[j][c].val)
<1> DEFINE item == q.order_by[k]
           c == Plain(item.var)
           v == all[i][c]
           w == all[j][c]
           x == Part(all, k, i)
           y == Part(all, k, j)
<1>1. DOMAIN all[i] = Columns /\ DOMAIN all[j] = Columns /\ k \in DOMAIN q.order_by
  BY DEF SortableRows
<1>2. item.ascending \in BOOLEAN
  <2>1. q.order_by \in Seq([var : STRING, ascending : BOOLEAN])
    BY DEF SortableRows
  <2>2. item \in [var : STRING, ascending : BOOLEAN]
    BY <2>1, ElementOfSeq
  <2> QED  BY <2>2
<1>3. CASE c \notin Columns
  <2>1. x = 0 /\ y = 0
    BY <1>3 DEF Part
  <2>2. k \notin Decides(all, i, j)
    BY <1>3 DEF Decides
  <2>3. CompareOn(item, all[i], all[j]) = Equal
    <3>1. ~(c \in DOMAIN all[i]) /\ ~(c \in DOMAIN all[j])
      BY <1>1, <1>3
    <3> HIDE DEF item
    <3>2. CompareOn(item, all[i], all[j]) = IF item.ascending THEN Equal ELSE -Equal
      BY <3>1 DEF CompareOn, Equal, Incomparable
    <3>3. -Equal = Equal
      <4>1. \A n \in Int : n <= 0 /\ n >= 0 => -n = n
        OBVIOUS
      <4>2. Equal \in Int /\ Equal <= 0 /\ Equal >= 0
        BY DEF Equal
      <4> QED  BY <4>1, <4>2
    <3> QED  BY <3>2, <3>3
  <2> QED  BY <2>1, <2>2, <2>3
<1>4. CASE c \in Columns
  <2>1. /\ ValueOK(v) /\ ValueOK(w) /\ v.val \in Int /\ w.val \in Int
        /\ v.type = w.type /\ v.type \notin {"null", "nan"}
    BY <1>4, ValueFacts DEF SortableRows, Sortable, Ordered
  <2>2. v = w <=> v.val = w.val
    BY <2>1 DEF ValueOK
  <2>3. Compare(v, w) = IF v.val < w.val THEN Less ELSE IF v.val = w.val THEN Equal ELSE Greater
    BY <2>1 DEF Compare
  <2>4. x = (IF item.ascending THEN v.val ELSE -v.val) /\ y = (IF item.ascending THEN w.val ELSE -w.val)
    BY <1>4 DEF Part
  <2>5. k \in Decides(all, i, j) <=> v # w
    BY <1>1, <1>4 DEF Decides
  <2>6. CompareOn(item, all[i], all[j]) = IF item.ascending THEN Compare(v, w) ELSE -Compare(v, w)
    <3> HIDE DEF item
    <3>1. Compare(v, w) # Incomparable
      BY <2>3 DEF Less, Equal, Greater, Incomparable
    <3> QED  BY <1>1, <1>4, <3>1 DEF CompareOn
  <2> HIDE DEF item, c, v, w, x, y
  <2>7. x \in Int /\ y \in Int /\ (x < y <=> IF item.ascending THEN v.val < w.val ELSE v.val > w.val)
        /\ (x = y <=> v.val = w.val)
    BY <1>2, <2>1, <2>4
  <2>8. CompareOn(item, all[i], all[j]) = IF x < y THEN Less ELSE IF x = y THEN Equal ELSE Greater
    BY <1>2, <2>1, <2>3, <2>6, <2>7 DEF Less, Equal, Greater
  <2> QED  BY <2>2, <2>5, <2>7, <2>8 DEF item, c, v, w, x, y
<1> QED  BY <1>3, <1>4

\* The order of the property and of sort_by, by the components of the rows.
LEMMA OrderFacts ==
  ASSUME NEW all, SortableRows(all), NEW i \in DOMAIN all, NEW j \in DOMAIN all, i \in Nat, j \in Nat
  PROVE  LET m == Len(q.order_by)
             x == Parts(all, i)
             y == Parts(all, j)
         IN  /\ m \in Nat /\ x \in [1 .. m -> Int] /\ y \in [1 .. m -> Int]
             /\ CompareRows(all[i], all[j]) = Less <=> LexLess(m, x, y)
             /\ Before(all, i, j) <=> LexLess(m, x, y) \/ (x = y /\ i < j)
<1> DEFINE m == Len(q.order_by)
           x == Parts(all, i)
           y == Parts(all, j)
           D == Decides(all, i, j)
           E == {k \in DOMAIN q.order_by : CompareOn(q.order_by[k], all[i], all[j]) # Equal}
<1>1. m \in Nat /\ DOMAIN q.order_by = 1 .. m
  <2>1. q.order_by \in Seq([var : STRING, ascending : BOOLEAN])
    BY DEF SortableRows
  <2> QED  BY <2>1, LenProperties
<1>2. ASSUME NEW k \in 1 .. m
      PROVE  /\ x[k] = Part(all, k, i) /\ y[k] = Part(all, k, j) /\ x[k] \in Int /\ y[k] \in Int
             /\ k \in D <=> x[k] # y[k]
             /\ k \in E <=> x[k] # y[k]
             /\ CompareOn(q.order_by[k], all[i], all[j]) = Less <=> x[k] < y[k]
             /\ k \in D =>
                  (x[k] < y[k] <=>
                     LET c == Plain(q.order_by[k].var)
                     IN  IF q.order_by[k].ascending THEN all[i][c].val < all[j][c].val
                         ELSE all[i][c].val > all[j][c].val)
  <2>1. x[k] = Part(all, k, i) /\ y[k] = Part(all, k, j)
    BY DEF Parts
  <2>2. CompareOn(q.order_by[k], all[i], all[j]) = IF x[k] < y[k] THEN Less
                                                   ELSE IF x[k] = y[k] THEN Equal ELSE Greater
    BY <2>1, PartFacts
  <2>3. k \in E <=> CompareOn(q.order_by[k], all[i], all[j]) # Equal
    BY <1>1
  <2>4. x[k] \in Int /\ y[k] \in Int
    BY <2>1, PartFacts
  <2> HIDE DEF x, y, D, E
  <2>5. k \in E <=> x[k] # y[k]
    BY <2>2, <2>3, <2>4 DEF Less, Equal, Greater
  <2>6. CompareOn(q.order_by[k], all[i], all[j]) = Less <=> x[k] < y[k]
    BY <2>2, <2>4 DEF Less, Equal, Greater
  <2> QED  BY <2>1, <2>4, <2>5, <2>6, PartFacts DEF D
<1>3. x \in [1 .. m -> Int] /\ y \in [1 .. m -> Int]
  <2>1. x = [k \in 1 .. m |-> x[k]] /\ y = [k \in 1 .. m |-> y[k]]
    BY DEF Parts
  <2> HIDE DEF x, y
  <2> QED  BY <1>2, <2>1
<1>4. D \subseteq 1 .. m /\ E \subseteq 1 .. m
  BY <1>1 DEF Decides
<1>5. CompareRows(all[i], all[j]) =
        IF E = {} THEN Equal ELSE CompareOn(q.order_by[Min(E)], all[i], all[j])
  BY DEF CompareRows
<1>6. Before(all, i, j) <=>
        IF D = {} THEN i < j
        ELSE LET c == Plain(q.order_by[Min(D)].var)
             IN  IF q.order_by[Min(D)].ascending THEN all[i][c].val < all[j][c].val
                 ELSE all[i][c].val > all[j][c].val
  BY DEF Before
<1> HIDE DEF x, y, D, E, m
<1>7. D = E
  BY <1>2, <1>4
<1>8. CASE D = {}
  <2>1. x = y
    <3>1. ASSUME NEW k \in 1 .. m
          PROVE  x[k] = y[k]
      <4>1. k \in D <=> x[k] # y[k]
        BY <1>2
      <4> QED  BY <1>8, <4>1
    <3>2. x = [k \in 1 .. m |-> x[k]] /\ y = [k \in 1 .. m |-> y[k]]
      BY <1>3
    <3> QED  BY <3>1, <3>2
  <2>2. ~LexLess(m, x, y)
    BY <1>1, <1>3, <2>1, LexOrder
  <2>3. CompareRows(all[i], all[j]) # Less
    BY <1>5, <1>7, <1>8 DEF Less, Equal
  <2>4. Before(all, i, j) <=> i < j
    BY <1>6, <1>8
  <2> QED  BY <1>1, <1>3, <2>1, <2>2, <2>3, <2>4 DEF m, x, y
<1>9. CASE D # {}
  <2> DEFINE k == Min(D)
  <2>1. k \in D /\ \A l \in D : k <= l
    <3>1. D \subseteq Nat
      BY <1>4
    <3> QED  BY <1>9, <3>1, MinFacts
  <2> HIDE DEF k
  <2>2. k \in 1 .. m /\ x[k] # y[k]
    BY <1>2, <1>4, <2>1
  <2>3. \A l \in 1 .. k - 1 : l \in 1 .. m /\ x[l] = y[l]
    <3> TAKE l \in 1 .. k - 1
    <3>1. l \in 1 .. m /\ ~(k <= l)
      BY <1>1, <2>2
    <3> QED  BY <1>2, <2>1, <3>1
  <2>4. LexLess(m, x, y) <=> x[k] < y[k]
    <3>1. ASSUME NEW h \in 1 .. m, x[h] < y[h], \A l \in 1 .. h - 1 : x[l] = y[l]
          PROVE  h = k
      <4>1. x[h] # y[h]
        BY <1>2, <3>1
      <4>2. h \in D
        BY <1>2, <4>1
      <4>3. k <= h
        BY <2>1, <4>2
      <4>4. ~(k \in 1 .. h - 1)
        BY <2>2, <3>1
      <4> QED  BY <1>1, <2>2, <4>3, <4>4
    <3> QED  BY <2>2, <2>3, <3>1 DEF LexLess
  <2>5. CompareRows(all[i], all[j]) = Less <=> x[k] < y[k]
    BY <1>2, <1>5, <1>7, <1>9, <2>2 DEF k
  <2>6. Before(all, i, j) <=> x[k] < y[k]
    <3>1. Before(all, i, j) <=> LET c == Plain(q.order_by[k].var)
                                IN  IF q.order_by[k].ascending THEN all[i][c].val < all[j][c].val
                                    ELSE all[i][c].val > all[j][c].val
      BY <1>6, <1>9 DEF k
    <3>2. k \in 1 .. m /\ k \in D
      BY <2>1, <2>2
    <3> QED  BY <1>2, <3>1, <3>2
  <2> QED  BY <1>1, <1>3, <2>2, <2>4, <2>5, <2>6 DEF m, x, y
<1> QED  BY <1>8, <1>9

\* The rows are in a total order.
LEMMA BeforeOrder ==
  ASSUME NEW all, SortableRows(all), NEW i \in DOMAIN all, NEW j \in DOMAIN all,
         i \in Nat, j \in Nat
  PROVE  /\ Before(all, i, j) \/ Before(all, j, i) \/ i = j
         /\ ~(Before(all, i, j) /\ Before(all, j, i))
         /\ ~Before(all, i, i)
         /\ j < i => (CompareRows(all[i], all[j]) = Less <=> Before(all, i, j))
<1> DEFINE m == Len(q.order_by)
           x == Parts(all, i)
           y == Parts(all, j)
<1>1. m \in Nat /\ x \in [1 .. m -> Int] /\ y \in [1 .. m -> Int]
  BY OrderFacts
<1>2. CompareRows(all[i], all[j]) = Less <=> LexLess(m, x, y)
  BY OrderFacts
<1>3. Before(all, i, j) <=> LexLess(m, x, y) \/ (x = y /\ i < j)
  BY OrderFacts
<1>4. Before(all, j, i) <=> LexLess(m, y, x) \/ (y = x /\ j < i)
  BY OrderFacts
<1>5. Before(all, i, i) <=> LexLess(m, x, x) \/ (x = x /\ i < i)
  BY OrderFacts
<1> HIDE DEF m, x, y
<1>6. /\ LexLess(m, x, y) \/ LexLess(m, y, x) \/ x = y
      /\ ~(LexLess(m, x, y) /\ LexLess(m, y, x))
      /\ ~LexLess(m, x, x)
  BY <1>1, LexOrder
<1> QED  BY <1>2, <1>3, <1>4, <1>5, <1>6

\* The order of the rows is transitive.
LEMMA BeforeTransitive ==
  ASSUME NEW all, SortableRows(all), NEW i \in DOMAIN all, NEW j \in DOMAIN all,
         NEW k \in DOMAIN all, i \in Nat, j \in Nat, k \in Nat,
         Before(all, i, j), Before(all, j, k)
  PROVE  Before(all, i, k)
<1> DEFINE m == Len(q.order_by)
           x == Parts(all, i)
           y == Parts(all, j)
           z == Parts(all, k)
<1>1. m \in Nat /\ x \in [1 .. m -> Int] /\ y \in [1 .. m -> Int] /\ z \in [1 .. m -> Int]
  BY OrderFacts
<1>2. LexLess(m, x, y) \/ (x = y /\ i < j)
  BY OrderFacts
<1>3. LexLess(m, y, z) \/ (y = z /\ j < k)
  BY OrderFacts
<1>4. Before(all, i, k) <=> LexLess(m, x, z) \/ (x = z /\ i < k)
  BY OrderFacts
<1> HIDE DEF m, x, y, z
<1>5. LexLess(m, x, y) /\ LexLess(m, y, z) => LexLess(m, x, z)
  BY <1>1, LexTransitive
<1> QED  BY <1>2, <1>3, <1>4, <1>5

\* The greatest number of a finite set.
LEMMA MaxFacts ==
  ASSUME NEW n \in Nat, NEW S, S \subseteq 1 .. n, S # {}
  PROVE  Max(S) \in S /\ \A x \in S : x <= Max(S)
<1> DEFINE T == {n - x : x \in S}
<1>1. T \subseteq Nat /\ T # {}
  OBVIOUS
<1>2. PICK t \in T : \A u \in T : t <= u
  BY <1>1, LeastNumber
<1>3. PICK y \in S : t = n - y
  BY <1>2
<1>4. \A x \in S : x <= y
  <2> TAKE x \in S
  <2>1. n - x \in T
    OBVIOUS
  <2>2. n - y <= n - x
    BY <1>2, <1>3, <2>1
  <2> QED  BY <2>2
<1>5. \E y1 \in S : \A x \in S : y1 >= x
  <2>1. \A x \in S : y >= x
    BY <1>4
  <2> QED  BY <2>1
<1>6. Max(S) \in S /\ \A x \in S : Max(S) >= x
  BY <1>5 DEF Max
<1>7. \A x \in S : x \in Int
  OBVIOUS
<1> QED  BY <1>6, <1>7

\* An element is put at place i.
LEMMA InsertFacts ==
  ASSUME NEW S, NEW s \in Seq(S), NEW e \in S, NEW i \in 1 .. Len(s) + 1
  PROVE  /\ InsertAt(s, i, e) \in Seq(S) /\ Len(InsertAt(s, i, e)) = Len(s) + 1
         /\ \A v \in 1 .. Len(s) + 1 :
              InsertAt(s, i, e)[v] = IF v < i THEN s[v] ELSE IF v = i THEN e ELSE s[v - 1]
<1> DEFINE a == SubSeq(s, 1, i - 1)
           b == SubSeq(s, i, Len(s))
<1>1. Len(s) \in Nat /\ \A v \in 1 .. Len(s) : s[v] \in S
  BY LenProperties
<1>2. a \in Seq(S) /\ Len(a) = i - 1 /\ \A v \in 1 .. i - 1 : a[v] = s[v]
  <2>1. \A v \in 1 .. i - 1 : s[v] \in S
    BY <1>1
  <2>2. /\ a \in Seq(S) /\ Len(a) = IF 1 <= i - 1 THEN i - 1 - 1 + 1 ELSE 0
        /\ \A v \in 1 .. i - 1 - 1 + 1 : a[v] = s[1 + v - 1]
    BY <1>1, <2>1, SubSeqProperties
  <2> HIDE DEF a
  <2> QED  BY <1>1, <2>2
<1>3. b \in Seq(S) /\ Len(b) = Len(s) + 1 - i /\ \A v \in 1 .. Len(s) + 1 - i : b[v] = s[i + v - 1]
  <2>1. \A v \in i .. Len(s) : s[v] \in S
    BY <1>1
  <2>2. /\ b \in Seq(S) /\ Len(b) = IF i <= Len(s) THEN Len(s) - i + 1 ELSE 0
        /\ \A v \in 1 .. Len(s) - i + 1 : b[v] = s[i + v - 1]
    BY <1>1, <2>1, SubSeqProperties
  <2> HIDE DEF b
  <2> QED  BY <1>1, <2>2
<1>4. InsertAt(s, i, e) = (a \o <<e>>) \o b
  BY DEF InsertAt
<1> HIDE DEF a, b
<1>5. <<e>> \in Seq(S) /\ Len(<<e>>) = 1 /\ <<e>>[1] = e
  OBVIOUS
<1> DEFINE c == a \o <<e>>
<1>6. c \in Seq(S) /\ Len(c) = i /\ \A v \in 1 .. i : c[v] = IF v < i THEN a[v] ELSE e
  <2>1. /\ c \in Seq(S) /\ Len(c) = Len(a) + 1
        /\ \A v \in 1 .. Len(a) + 1 : c[v] = IF v <= Len(a) THEN a[v] ELSE <<e>>[v - Len(a)]
    BY <1>2, <1>5, ConcatProperties
  <2> HIDE DEF c
  <2>2. \A v \in 1 .. i : v - Len(a) = 1 \/ v <= Len(a)
    BY <1>1, <1>2
  <2> QED  BY <1>1, <1>2, <1>5, <2>1, <2>2
<1> HIDE DEF c
<1>7. /\ c \o b \in Seq(S) /\ Len(c \o b) = Len(s) + 1
      /\ \A v \in 1 .. Len(s) + 1 : (c \o b)[v] = IF v <= i THEN c[v] ELSE b[v - i]
  <2>1. /\ c \o b \in Seq(S) /\ Len(c \o b) = Len(c) + Len(b)
        /\ \A v \in 1 .. Len(c) + Len(b) : (c \o b)[v] = IF v <= Len(c) THEN c[v] ELSE b[v - Len(c)]
    BY <1>3, <1>6, ConcatProperties
  <2>2. Len(c) + Len(b) = Len(s) + 1
    BY <1>1, <1>3, <1>6
  <2>3. Len(c) = i
    BY <1>6
  <2> QED  BY <2>1, <2>2, <2>3
<1>8. ASSUME NEW v \in 1 .. Len(s) + 1
      PROVE  (c \o b)[v] = IF v < i THEN s[v] ELSE IF v = i THEN e ELSE s[v - 1]
  <2>1. CASE v <= i
    <3>1. v \in 1 .. i /\ (v < i => v \in 1 .. i - 1)
      BY <1>1, <2>1
    <3> QED  BY <1>2, <1>6, <1>7, <2>1, <3>1
  <2>2. CASE v > i
    <3>1. v - i \in 1 .. Len(s) + 1 - i /\ i + (v - i) - 1 = v - 1
      BY <1>1, <2>2
    <3>2. (c \o b)[v] = b[v - i]
      BY <1>1, <1>7, <2>2
    <3>3. b[v - i] = s[v - 1]
      BY <1>3, <3>1
    <3> QED  BY <1>1, <2>2, <3>2, <3>3
  <2>3. v <= i \/ v > i
    BY <1>1
  <2> QED  BY <2>1, <2>2, <2>3
<1>9. InsertAt(s, i, e) = c \o b
  BY <1>4 DEF c
<1> QED  BY <1>7, <1>8, <1>9

-----------------------------------------------------------------------------
(* The places of the rows *)

\* s has the first rows of all in their order: row i is at place p[i].
Placed(all, s, p) ==
  /\ s \in Seq({all[i] : i \in DOMAIN all})
  /\ p \in [1 .. Len(s) -> 1 .. Len(s)]
  /\ \A v \in 1 .. Len(s) : \E i \in 1 .. Len(s) : p[i] = v
  /\ \A i, j \in 1 .. Len(s) : p[i] = p[j] => i = j
  /\ \A i \in 1 .. Len(s) : s[p[i]] = all[i]
  /\ \A i, j \in 1 .. Len(s) : p[i] < p[j] <=> Before(all, i, j)

\* The next row goes to its place: the rows up to at, the last one that it is
\* not less than, are those that come before it.
LEMMA PlaceOfNext ==
  ASSUME NEW all, NEW n \in Nat, DOMAIN all = 1 .. n, SortableRows(all),
         NEW s, NEW p, Placed(all, s, p), Len(s) < n
  PROVE  \E at \in 0 .. Len(s) :
           /\ Inserted(s, all[Len(s) + 1]) = InsertAt(s, at + 1, all[Len(s) + 1])
           /\ \A i \in 1 .. Len(s) : /\ p[i] <= at <=> Before(all, i, Len(s) + 1)
                                     /\ p[i] > at <=> Before(all, Len(s) + 1, i)
<1> DEFINE k == Len(s)
           e == all[k + 1]
           stays == {v \in DOMAIN s : CompareRows(e, s[v]) # Less}
           at == IF stays = {} THEN 0 ELSE Max(stays)
<1>1. /\ k \in Nat /\ DOMAIN s = 1 .. k /\ k < n
      /\ p \in [1 .. k -> 1 .. k]
      /\ \A v \in 1 .. k : \E i \in 1 .. k : p[i] = v
      /\ \A i \in 1 .. k : s[p[i]] = all[i]
      /\ \A i, j \in 1 .. k : p[i] = p[j] => i = j
      /\ \A i, j \in 1 .. k : p[i] < p[j] <=> Before(all, i, j)
  BY LenProperties DEF Placed
<1>2. Inserted(s, e) = InsertAt(s, 1 + at, e)
  BY DEF Inserted
<1> HIDE DEF k, e, stays, at
<1>3. k + 1 \in DOMAIN all /\ k + 1 \in Nat /\ \A i \in 1 .. k : i \in DOMAIN all /\ i \in Nat /\ i < k + 1
  BY <1>1
<1>4. ASSUME NEW i \in 1 .. k
      PROVE  /\ Before(all, i, k + 1) <=> ~Before(all, k + 1, i)
             /\ p[i] \in stays <=> Before(all, i, k + 1)
  <2>1. i \in DOMAIN all /\ i \in Nat /\ i < k + 1 /\ i # k + 1
    BY <1>1, <1>3
  <2>2. /\ Before(all, k + 1, i) \/ Before(all, i, k + 1) \/ k + 1 = i
        /\ ~(Before(all, k + 1, i) /\ Before(all, i, k + 1))
        /\ i < k + 1 => (CompareRows(all[k + 1], all[i]) = Less <=> Before(all, k + 1, i))
    BY <1>3, <2>1, BeforeOrder
  <2>3. p[i] \in DOMAIN s /\ s[p[i]] = all[i]
    BY <1>1
  <2>4. p[i] \in stays <=> CompareRows(all[k + 1], all[i]) # Less
    BY <2>3 DEF stays, e
  <2> QED  BY <2>1, <2>2, <2>4
<1>5. stays \subseteq 1 .. k
  BY <1>1 DEF stays
<1>0. \A i \in 1 .. k : p[i] \in 1 .. k
  BY <1>1
<1>6. at \in 0 .. k /\ \A i \in 1 .. k : p[i] <= at <=> Before(all, i, k + 1)
  <2>1. CASE stays = {}
    <3>1. at = 0
      BY <2>1 DEF at
    <3>2. \A i \in 1 .. k : p[i] \in Nat /\ p[i] > 0 /\ p[i] \notin stays
      BY <1>0, <2>1
    <3> QED  BY <1>1, <1>4, <3>1, <3>2
  <2>2. CASE stays # {}
    <3>1. at \in stays /\ \A v \in stays : v <= at
      BY <1>1, <1>5, <2>2, MaxFacts DEF at
    <3>2. PICK h \in 1 .. k : p[h] = at
      BY <1>1, <1>5, <3>1
    <3>3. Before(all, h, k + 1)
      BY <1>4, <3>1, <3>2
    <3>4. ASSUME NEW i \in 1 .. k, p[i] <= at
          PROVE  Before(all, i, k + 1)
      <4>1. p[i] \in Nat /\ p[h] \in Nat
        BY <1>0
      <4>2. i = h \/ Before(all, i, h)
        BY <1>1, <3>2, <3>4, <4>1
      <4>3. Before(all, i, h) => Before(all, i, k + 1)
        BY <1>3, <3>3, BeforeTransitive
      <4> QED  BY <3>3, <4>2, <4>3
    <3>5. ASSUME NEW i \in 1 .. k, Before(all, i, k + 1)
          PROVE  p[i] <= at
      BY <1>4, <3>1, <3>5
    <3>6. at \in 0 .. k
      BY <1>1, <1>5, <3>1
    <3> QED  BY <3>4, <3>5, <3>6
  <2> QED  BY <2>1, <2>2
<1>7. \A i \in 1 .. k : p[i] > at <=> Before(all, k + 1, i)
  <2> TAKE i \in 1 .. k
  <2>1. p[i] \in Int /\ at \in Int
    BY <1>1, <1>6
  <2>2. p[i] > at <=> ~(p[i] <= at)
    BY <2>1
  <2> QED  BY <1>4, <1>6, <2>2
<1>8. InsertAt(s, 1 + at, e) = InsertAt(s, at + 1, e)
  BY <1>1, <1>6
<1> QED  BY <1>2, <1>6, <1>7, <1>8 DEF k, e

\* After an insertion the sorted rows are again placed in their order.
LEMMA InsertPlaced ==
  ASSUME NEW all, NEW n \in Nat, DOMAIN all = 1 .. n, SortableRows(all),
         NEW s, NEW p, Placed(all, s, p), Len(s) < n
  PROVE  \E r : Placed(all, Inserted(s, all[Len(s) + 1]), r)
<1> DEFINE S == {all[i] : i \in DOMAIN all}
<1>1. PICK k : k = Len(s)
  OBVIOUS
<1>2. PICK e : e = all[k + 1]
  OBVIOUS
<1>3. /\ k \in Nat /\ k < n /\ s \in Seq(S)
      /\ p \in [1 .. k -> 1 .. k]
      /\ \A v \in 1 .. k : \E i \in 1 .. k : p[i] = v
      /\ \A i, j \in 1 .. k : p[i] = p[j] => i = j
      /\ \A i \in 1 .. k : s[p[i]] = all[i]
      /\ \A i, j \in 1 .. k : p[i] < p[j] <=> Before(all, i, j)
  BY <1>1, LenProperties DEF Placed
<1>4. PICK at \in 0 .. k :
        /\ Inserted(s, e) = InsertAt(s, at + 1, e)
        /\ \A i \in 1 .. k : /\ p[i] <= at <=> Before(all, i, k + 1)
                             /\ p[i] > at <=> Before(all, k + 1, i)
  BY <1>1, <1>2, PlaceOfNext
<1>5. PICK t : t = Inserted(s, e)
  OBVIOUS
<1>6. k + 1 \in DOMAIN all /\ e \in S
  BY <1>2, <1>3
<1> HIDE DEF S
<1>7. /\ t \in Seq(S) /\ Len(t) = k + 1
      /\ \A v \in 1 .. k + 1 : t[v] = IF v < at + 1 THEN s[v] ELSE IF v = at + 1 THEN e ELSE s[v - 1]
  <2>1. at + 1 \in 1 .. Len(s) + 1
    BY <1>1, <1>3
  <2>2. /\ InsertAt(s, at + 1, e) \in Seq(S) /\ Len(InsertAt(s, at + 1, e)) = Len(s) + 1
        /\ \A v \in 1 .. Len(s) + 1 :
             InsertAt(s, at + 1, e)[v] = IF v < at + 1 THEN s[v]
                                         ELSE IF v = at + 1 THEN e ELSE s[v - 1]
    BY <1>3, <1>6, <2>1, InsertFacts
  <2>3. t = InsertAt(s, at + 1, e) /\ Len(s) = k
    BY <1>1, <1>4, <1>5
  <2> QED  BY <2>2, <2>3
<1> DEFINE r == [i \in 1 .. k + 1 |-> IF i = k + 1 THEN at + 1 ELSE IF p[i] <= at THEN p[i] ELSE p[i] + 1]
<1>8. r[k + 1] = at + 1 /\ \A i \in 1 .. k : r[i] = IF p[i] <= at THEN p[i] ELSE p[i] + 1
  BY <1>3
<1>9. \A i \in 1 .. k : p[i] \in 1 .. k
  BY <1>3
<1>10. \A i \in 1 .. k + 1 : i \in 1 .. k \/ i = k + 1
  BY <1>3
<1>11. r \in [1 .. k + 1 -> 1 .. k + 1]
  <2>1. r = [i \in 1 .. k + 1 |-> r[i]]
    BY DEF r
  <2> HIDE DEF r
  <2>2. ASSUME NEW i \in 1 .. k + 1
        PROVE  r[i] \in 1 .. k + 1
    <3>1. CASE i = k + 1
      BY <1>3, <1>8, <3>1
    <3>2. CASE i \in 1 .. k
      <4>1. p[i] \in 1 .. k /\ r[i] = IF p[i] <= at THEN p[i] ELSE p[i] + 1
        BY <1>8, <1>9, <3>2
      <4>2. \A x \in 1 .. k : x \in 1 .. k + 1 /\ x + 1 \in 1 .. k + 1
        BY <1>3
      <4>3. p[i] \in 1 .. k + 1 /\ p[i] + 1 \in 1 .. k + 1
        BY <4>1, <4>2
      <4> QED  BY <4>1, <4>3
    <3> QED  BY <1>10, <3>1, <3>2
  <2> QED  BY <2>1, <2>2
<1> HIDE DEF r
<1>12. ASSUME NEW v \in 1 .. k + 1
       PROVE  \E i \in 1 .. k + 1 : r[i] = v
  <2>1. CASE v = at + 1
    BY <1>3, <1>8, <2>1
  <2>2. CASE v <= at
    <3>1. v \in 1 .. k
      BY <1>3, <2>2
    <3>2. PICK i \in 1 .. k : p[i] = v
      BY <1>3, <3>1
    <3>3. i \in 1 .. k + 1 /\ p[i] <= at
      BY <1>3, <2>2, <3>2
    <3> QED  BY <1>8, <3>2, <3>3
  <2>3. CASE v > at + 1
    <3>1. v - 1 \in 1 .. k
      BY <1>3, <2>3
    <3>2. PICK i \in 1 .. k : p[i] = v - 1
      BY <1>3, <3>1
    <3>3. i \in 1 .. k + 1 /\ ~(p[i] <= at) /\ p[i] + 1 = v
      BY <1>3, <2>3, <3>1, <3>2
    <3> QED  BY <1>8, <3>3
  <2>4. v = at + 1 \/ v <= at \/ v > at + 1
    BY <1>3
  <2> QED  BY <2>1, <2>2, <2>3, <2>4
<1>13. ASSUME NEW i \in 1 .. k + 1, NEW j \in 1 .. k + 1
       PROVE  /\ r[i] = r[j] => i = j
              /\ r[i] < r[j] <=> Before(all, i, j)
  <2>0. k + 1 \in DOMAIN all /\ k + 1 \in Nat
    BY <1>3, <1>6
  <2>1. CASE i = k + 1 /\ j = k + 1
    <3>1. ~Before(all, i, j) 
      BY <2>0, <2>1, BeforeOrder
    <3> QED  BY <1>8, <2>1, <3>1
  <2>2. CASE i = k + 1 /\ j \in 1 .. k
    <3>1. p[j] > at <=> Before(all, i, j)
      BY <1>4, <2>2
    <3>2. r[i] = at + 1 /\ r[j] = IF p[j] <= at THEN p[j] ELSE p[j] + 1
      BY <1>8, <2>2
    <3>3. p[j] \in Nat
      BY <1>9, <2>2
    <3> QED  BY <3>1, <3>2, <3>3
  <2>3. CASE i \in 1 .. k /\ j = k + 1
    <3>1. p[i] <= at <=> Before(all, i, j)
      BY <1>4, <2>3
    <3>2. r[j] = at + 1 /\ r[i] = IF p[i] <= at THEN p[i] ELSE p[i] + 1
      BY <1>8, <2>3
    <3>3. p[i] \in Nat
      BY <1>9, <2>3
    <3> QED  BY <3>1, <3>2, <3>3
  <2>4. CASE i \in 1 .. k /\ j \in 1 .. k
    <3>1. /\ r[i] = IF p[i] <= at THEN p[i] ELSE p[i] + 1
          /\ r[j] = IF p[j] <= at THEN p[j] ELSE p[j] + 1
      BY <1>8, <2>4
    <3>2. p[i] \in Nat /\ p[j] \in Nat
      BY <1>9, <2>4
    <3>3. (p[i] = p[j] => i = j) /\ (p[i] < p[j] <=> Before(all, i, j))
      BY <1>3, <2>4
    <3>4. (r[i] = r[j] => p[i] = p[j]) /\ (r[i] < r[j] <=> p[i] < p[j])
      BY <3>1, <3>2
    <3> QED  BY <3>3, <3>4
  <2> QED  BY <1>10, <2>1, <2>2, <2>3, <2>4
<1>14. ASSUME NEW i \in 1 .. k + 1
       PROVE  t[r[i]] = all[i]
  <2>1. r[i] \in 1 .. k + 1
    BY <1>11
  <2>2. t[r[i]] = IF r[i] < at + 1 THEN s[r[i]] ELSE IF r[i] = at + 1 THEN e ELSE s[r[i] - 1]
    BY <1>7, <2>1
  <2>3. CASE i = k + 1
    BY <1>2, <1>8, <2>2, <2>3
  <2>4. CASE i \in 1 .. k
    <3>1. p[i] \in Nat /\ s[p[i]] = all[i] /\ r[i] = IF p[i] <= at THEN p[i] ELSE p[i] + 1
      BY <1>3, <1>8, <1>9, <2>4
    <3>2. CASE p[i] <= at
      <4>1. r[i] = p[i] /\ r[i] < at + 1
        BY <3>1, <3>2
      <4> QED  BY <2>2, <3>1, <4>1
    <3>3. CASE ~(p[i] <= at)
      <4>1. r[i] - 1 = p[i] /\ ~(r[i] < at + 1) /\ r[i] # at + 1
        BY <3>1, <3>3
      <4> QED  BY <2>2, <3>1, <4>1
    <3> QED  BY <3>2, <3>3
  <2> QED  BY <1>10, <2>3, <2>4
<1>15. Placed(all, t, r)
  BY <1>7, <1>11, <1>12, <1>13, <1>14 DEF Placed, S
<1> QED  BY <1>1, <1>2, <1>5, <1>15

\* The rows at places a + 1 to b, and how many they are.
Places(n, p) ==
  /\ p \in [1 .. n -> 1 .. n]
  /\ \A v \in 1 .. n : \E i \in 1 .. n : p[i] = v
  /\ \A i, j \in 1 .. n : p[i] = p[j] => i = j
PlacedIn(n, p, a, b) == {i \in 1 .. n : a < p[i] /\ p[i] <= b}

\* How many rows have their place between two others.
LEMMA PlacesBetween ==
  ASSUME NEW n \in Nat, NEW p, Places(n, p), NEW a \in Nat, NEW b \in Int, b <= n
  PROVE  Cardinality(PlacedIn(n, p, a, b)) = IF a < b THEN b - a ELSE 0
<1> DEFINE S == {i \in 1 .. n : a < p[i] /\ p[i] <= b}
           T == a + 1 .. b
           f == [i \in S |-> p[i]]
<1>0. /\ p \in [1 .. n -> 1 .. n]
      /\ \A v \in 1 .. n : \E i \in 1 .. n : p[i] = v
      /\ \A i, j \in 1 .. n : p[i] = p[j] => i = j
  BY DEF Places
<1>1. \A i \in 1 .. n : p[i] \in 1 .. n
  BY <1>0
<1>2. f \in [S -> T]
  <2>1. \A i \in S : p[i] \in T
    BY <1>1
  <2> QED  BY <2>1
<1>3. \A i, j \in S : f[i] = f[j] => i = j
  BY <1>0
<1>4. \A v \in T : \E i \in S : f[i] = v
  <2> TAKE v \in T
  <2>1. v \in 1 .. n /\ a < v /\ v <= b
    OBVIOUS
  <2>2. PICK i \in 1 .. n : p[i] = v
    BY <1>0, <2>1
  <2>3. i \in S /\ f[i] = v
    BY <2>1, <2>2
  <2> QED  BY <2>3
<1>5. S \subseteq 1 .. n /\ PlacedIn(n, p, a, b) = S
  BY DEF PlacedIn
<1> HIDE DEF S, T, f
<1>6. f \in Bijection(S, T)
  BY <1>2, <1>3, <1>4 DEF Bijection, Injection, Surjection, IsInjective
<1>7. ExistsBijection(S, T)
  BY <1>6 DEF ExistsBijection
<1>8. IsFiniteSet(S)
  <2>1. IsFiniteSet(1 .. n)
    BY FS_Interval
  <2> QED  BY <1>5, <2>1, FS_Subset
<1>9. Cardinality(T) = Cardinality(S)
  BY <1>7, <1>8, FS_Bijection
<1>10. Cardinality(T) = IF a + 1 > b THEN 0 ELSE b - (a + 1) + 1
  BY FS_Interval DEF T
<1> QED  BY <1>5, <1>9, <1>10

\* What is left of the rows in their order is the window.
LEMMA WindowPlaced ==
  ASSUME NEW all, NEW n \in Nat, DOMAIN all = 1 .. n, QueryOK(q),
         NEW s, NEW p, Placed(all, s, p), Len(s) = n
  PROVE  IsWindow(all, Window(s))
<1> DEFINE S == {all[i] : i \in DOMAIN all}
           from == IF q.skip = <<>> THEN 0 ELSE AtLeast0(q.skip[1])
           to == IF q.limit = <<>> THEN n ELSE from + AtLeast0(q.limit[1])
           last == IF to < n THEN to ELSE n
           w == SubSeq(s, from + 1, last)
           Place(i) == 1 + Cardinality({j \in DOMAIN all : Before(all, j, i)})
           Kept(i) == Place(i) > from /\ \A h \in DOMAIN q.limit : Place(i) <= from + AtLeast0(q.limit[h])
<1>1. /\ s \in Seq(S) /\ p \in [1 .. n -> 1 .. n]
      /\ \A v \in 1 .. n : \E i \in 1 .. n : p[i] = v
      /\ \A i, j \in 1 .. n : p[i] = p[j] => i = j
      /\ \A i \in 1 .. n : s[p[i]] = all[i]
      /\ \A i, j \in 1 .. n : p[i] < p[j] <=> Before(all, i, j)
  BY DEF Placed
<1>13. Places(n, p)
  BY <1>1 DEF Places
<1>2. \A i \in 1 .. n : p[i] \in 1 .. n
  BY <1>1
<1>3. /\ q.skip = <<>> \/ q.skip[1] \in Int
      /\ (q.limit = <<>> /\ DOMAIN q.limit = {}) \/ (DOMAIN q.limit = {1} /\ q.limit # <<>> /\ q.limit[1] \in Int)
  <2>1. q.skip \in Seq(Int) /\ q.limit \in Seq(Int) /\ Len(q.limit) <= 1
    BY DEF QueryOK
  <2>2. q.skip # <<>> => 1 \in 1 .. Len(q.skip) /\ q.skip[1] \in Int
    BY <2>1
  <2>3. Len(q.limit) \in Nat /\ DOMAIN q.limit = 1 .. Len(q.limit)
    BY <2>1, LenProperties
  <2>4. CASE Len(q.limit) = 0
    BY <2>1, <2>2, <2>3, <2>4
  <2>5. CASE Len(q.limit) = 1
    <3>1. q.limit # <<>> /\ DOMAIN q.limit = {1} /\ 1 \in 1 .. Len(q.limit)
      <4>1. Len(<<>>) = 0 /\ 1 .. 1 = {1}
        OBVIOUS
      <4> QED  BY <2>3, <2>5, <4>1
    <3>2. q.limit[1] \in Int
      BY <2>1, <3>1
    <3> QED  BY <2>2, <3>1, <3>2
  <2> QED  BY <2>1, <2>3, <2>4, <2>5
<1>4. from \in Nat
  BY <1>3 DEF AtLeast0
<1>5. to \in Nat /\ last \in Nat /\ last <= n
  <2> HIDE DEF from
  <2>1. to \in Nat
    BY <1>3, <1>4 DEF AtLeast0
  <2> HIDE DEF to
  <2> QED  BY <2>1
<1>6. Window(s) = w
  BY DEF Window
<1>7. \A i \in 1 .. n : Place(i) = p[i]
  <2> TAKE i \in 1 .. n
  <2>1. p[i] \in 1 .. n /\ 0 \in Nat /\ p[i] - 1 \in Int /\ p[i] - 1 <= n
    BY <1>2
  <2>3. ASSUME NEW j \in 1 .. n
        PROVE  Before(all, j, i) <=> 0 < p[j] /\ p[j] <= p[i] - 1
    <3>1. p[j] \in 1 .. n
      BY <1>2
    <3>2. Before(all, j, i) <=> p[j] < p[i]
      BY <1>1
    <3> QED  BY <2>1, <3>1, <3>2
  <2>4. {j \in DOMAIN all : Before(all, j, i)} = PlacedIn(n, p, 0, p[i] - 1)
    BY <2>3 DEF PlacedIn
  <2>2. Cardinality(PlacedIn(n, p, 0, p[i] - 1)) = IF 0 < p[i] - 1 THEN p[i] - 1 - 0 ELSE 0
    BY <1>13, <2>1, PlacesBetween
  <2>5. 1 + (IF 0 < p[i] - 1 THEN p[i] - 1 - 0 ELSE 0) = p[i]
    BY <2>1
  <2> QED  BY <2>2, <2>4, <2>5
<1> HIDE DEF Place
<1>8. ASSUME NEW i \in 1 .. n
      PROVE  Kept(i) <=> from < p[i] /\ p[i] <= last
  <2>1. Place(i) = p[i] /\ p[i] \in 1 .. n
    BY <1>2, <1>7
  <2> HIDE DEF from
  <2>2. CASE q.limit = <<>> /\ DOMAIN q.limit = {}
    <3>1. last = n
      BY <2>2
    <3> HIDE DEF last
    <3> QED  BY <1>4, <2>1, <2>2, <3>1
  <2>3. CASE DOMAIN q.limit = {1} /\ q.limit # <<>> /\ q.limit[1] \in Int
    <3>1. to = from + AtLeast0(q.limit[1])
      BY <2>3
    <3>2. Kept(i) <=> p[i] > from /\ p[i] <= to
      BY <2>1, <2>3, <3>1
    <3> HIDE DEF to, Kept
    <3>3. p[i] <= to <=> p[i] <= last
      BY <1>5, <2>1
    <3> QED  BY <1>4, <2>1, <3>2, <3>3
  <2> QED  BY <1>3, <2>2, <2>3
<1> HIDE DEF S, from, to, last, Kept
<1>9. /\ Len(w) = IF from + 1 <= last THEN last - (from + 1) + 1 ELSE 0
      /\ \A v \in 1 .. last - (from + 1) + 1 : w[v] = s[from + 1 + v - 1]
  <2>1. \A v \in from + 1 .. last : v \in 1 .. n
    BY <1>4, <1>5
  <2>2. \A v \in from + 1 .. last : s[v] \in S
    BY <1>1, <2>1
  <2>3. from + 1 \in Int /\ last \in Int
    BY <1>4, <1>5
  <2> QED  BY <2>2, <2>3, SubSeqProperties
<1> HIDE DEF w
<1>10. Len(w) = Cardinality({i \in DOMAIN all : Kept(i)})
  <2>1. {i \in DOMAIN all : Kept(i)} = PlacedIn(n, p, from, last)
    BY <1>8 DEF PlacedIn
  <2>2. Cardinality(PlacedIn(n, p, from, last)) = IF from < last THEN last - from ELSE 0
    BY <1>4, <1>5, <1>13, PlacesBetween
  <2>3. (IF from + 1 <= last THEN last - (from + 1) + 1 ELSE 0) = (IF from < last THEN last - from ELSE 0)
    BY <1>4, <1>5
  <2> QED  BY <1>9, <2>1, <2>2, <2>3
<1>11. ASSUME NEW i \in DOMAIN all, Kept(i)
       PROVE  w[Place(i) - from] = all[i]
  <2>1. i \in 1 .. n /\ p[i] \in 1 .. n /\ from < p[i] /\ p[i] <= last /\ Place(i) = p[i]
    BY <1>2, <1>7, <1>8, <1>11
  <2>2. p[i] - from \in 1 .. last - (from + 1) + 1 /\ from + 1 + (p[i] - from) - 1 = p[i]
    BY <1>4, <1>5, <2>1
  <2>3. w[p[i] - from] = s[p[i]]
    BY <1>9, <2>2
  <2> QED  BY <1>1, <2>1, <2>3
<1>12. IsWindow(all, w)
  BY <1>10, <1>11 DEF IsWindow, Kept, Place, from
<1> QED  BY <1>6, <1>12

-----------------------------------------------------------------------------
(* The sort *)

IsSequence(s) == s \in Seq({s[i] : i \in DOMAIN s})

\* The rows that are sorted so far have their places.
SortInv ==
  /\ IsSequence(rows) /\ QueryOK(q) /\ pc \in {"run", "sort", "done"}
  /\ IF pc = "run" THEN result = <<>> ELSE queue = <<>>
  /\ pc = "sort" => (Sortable(Projected) => \E p : Placed(Projected, result, p))
  /\ WindowOfSorted

\* A match that is appended.
LEMMA AppendedIsSequence ==
  ASSUME NEW s, IsSequence(s), NEW e
  PROVE  IsSequence(Append(s, e))
<1> DEFINE S == {s[i] : i \in DOMAIN s} \cup {e}
           t == Append(s, e)
<1>1. s \in Seq(S) /\ e \in S
  <2>1. s \in Seq({s[i] : i \in DOMAIN s})
    BY DEF IsSequence
  <2>2. Len(s) \in Nat /\ DOMAIN s = 1 .. Len(s) /\ s = [i \in 1 .. Len(s) |-> s[i]]
    BY <2>1, LenProperties
  <2>3. \A i \in 1 .. Len(s) : s[i] \in S
    BY <2>2
  <2> HIDE DEF S
  <2>4. s \in [1 .. Len(s) -> S]
    BY <2>2, <2>3
  <2> QED  BY <2>2, <2>4 DEF S
<1> HIDE DEF S
<1>2. t \in Seq(S)
  BY <1>1
<1> HIDE DEF t
<1>3. Len(t) \in Nat /\ DOMAIN t = 1 .. Len(t) /\ t = [i \in 1 .. Len(t) |-> t[i]]
  BY <1>2, LenProperties
<1> DEFINE R == {t[i] : i \in DOMAIN t}
<1>4. \A i \in 1 .. Len(t) : t[i] \in R
  BY <1>3
<1> HIDE DEF R
<1>5. t \in Seq(R)
  BY <1>3, <1>4
<1> QED  BY <1>5 DEF IsSequence, R, t

\* The projected rows.
LEMMA ProjectedFacts ==
  ASSUME IsSequence(rows)
  PROVE  /\ Len(rows) \in Nat /\ DOMAIN Projected = 1 .. Len(rows)
         /\ \A i \in DOMAIN Projected : DOMAIN Projected[i] = Columns
<1>1. rows \in Seq({rows[i] : i \in DOMAIN rows})
  BY DEF IsSequence
<1>2. Len(rows) \in Nat /\ DOMAIN rows = 1 .. Len(rows)
  BY <1>1, LenProperties
<1> QED  BY <1>2 DEF Projected, Project

\* The order is the same in the next state if the query is.
LEMMA SameRows ==
  ASSUME db' = db, q' = q, rows' = rows, NEW all, all = Projected
  PROVE  /\ Projected' = all
         /\ Sortable(Projected)' <=> Sortable(all)
         /\ \A i, j : Before(Projected, i, j)' <=> Before(all, i, j)
<1>1. Columns' = Columns
  BY DEF Columns, Visible, Plain
<1>2. Projected' = all
  BY <1>1 DEF Projected, Project, PropertyOf
<1>3. Sortable(Projected)' <=> Sortable(all)
  BY <1>1, <1>2 DEF Sortable
<1>4. ASSUME NEW i, NEW j
      PROVE  Before(Projected, i, j)' <=> Before(all, i, j)
  <2>1. Decides(Projected, i, j)' = Decides(all, i, j)
    BY <1>1, <1>2 DEF Decides
  <2> QED  BY <1>2, <2>1 DEF Before
<1> QED  BY <1>2, <1>3, <1>4

\* Rows are placed as before if rows and result stay.
LEMMA SamePlaces ==
  ASSUME db' = db, q' = q, rows' = rows, NEW all, all = Projected,
         NEW s, s = result', NEW p, Placed(all, s, p)
  PROVE  Placed(Projected, result, p)'
<1>1. Projected' = all /\ \A i, j : Before(Projected, i, j)' <=> Before(all, i, j)
  BY SameRows
<1>2. /\ s \in Seq({all[i] : i \in DOMAIN all}) /\ p \in [1 .. Len(s) -> 1 .. Len(s)]
      /\ \A v \in 1 .. Len(s) : \E i \in 1 .. Len(s) : p[i] = v
      /\ \A i, j \in 1 .. Len(s) : p[i] = p[j] => i = j
      /\ \A i \in 1 .. Len(s) : s[p[i]] = all[i]
      /\ \A i, j \in 1 .. Len(s) : p[i] < p[j] <=> Before(all, i, j)
  BY DEF Placed
<1>3. result' \in Seq({Projected'[i] : i \in DOMAIN Projected'})
  BY <1>1, <1>2
<1>4. \A i, j \in 1 .. Len(result') : p[i] < p[j] <=> Before(Projected, i, j)'
  BY <1>1, <1>2
<1> QED  BY <1>1, <1>2, <1>3, <1>4 DEF Placed

\* A window stays one if rows and result stay.
LEMMA SameWindow ==
  ASSUME db' = db, q' = q, rows' = rows, NEW all, all = Projected,
         NEW res, res = result', IsWindow(all, res)
  PROVE  IsWindow(Projected, result)'
<1>1. Projected' = all /\ \A i, j : Before(Projected, i, j)' <=> Before(all, i, j)
  BY SameRows
<1> DEFINE from == IF q.skip = <<>> THEN 0 ELSE AtLeast0(q.skip[1])
           Place(i) == 1 + Cardinality({j \in DOMAIN all : Before(all, j, i)})
           Kept(i) == Place(i) > from /\ \A h \in DOMAIN q.limit : Place(i) <= from + AtLeast0(q.limit[h])
<1>2. /\ Len(res) = Cardinality({i \in DOMAIN all : Kept(i)})
      /\ \A i \in DOMAIN all : Kept(i) => res[Place(i) - from] = all[i]
  BY DEF IsWindow
<1>3. \A i : 1 + Cardinality({j \in DOMAIN Projected' : Before(Projected, j, i)'}) = Place(i)
  <2>1. \A i : {j \in DOMAIN Projected' : Before(Projected, j, i)'} = {j \in DOMAIN all : Before(all, j, i)}
    BY <1>1
  <2> QED  BY <2>1
<1> HIDE DEF Place
<1> DEFINE NextPlace(i) == 1 + Cardinality({j \in DOMAIN Projected' : Before(Projected, j, i)'})
           skip == IF q'.skip = <<>> THEN 0 ELSE AtLeast0(q'.skip[1])
           NextKept(i) == NextPlace(i) > skip /\ \A n \in DOMAIN q'.limit : NextPlace(i) <= skip + AtLeast0(q'.limit[n])
<1>4. \A i : NextPlace(i) = Place(i)
  BY <1>3
<1>5. from = skip
  OBVIOUS
<1> HIDE DEF NextPlace, from, skip
<1>6. \A i : NextKept(i) <=> Kept(i)
  BY <1>4, <1>5
<1> HIDE DEF NextKept, Kept
<1>7. {i \in DOMAIN Projected' : NextKept(i)} = {i \in DOMAIN all : Kept(i)}
  BY <1>1, <1>6
<1>8. Len(result') = Cardinality({i \in DOMAIN Projected' : NextKept(i)})
  BY <1>2, <1>7
<1>9. \A i \in DOMAIN Projected' : NextKept(i) => result'[NextPlace(i) - skip] = Projected'[i]
  BY <1>1, <1>2, <1>4, <1>5, <1>6
<1> QED  BY <1>8, <1>9 DEF IsWindow, NextKept, NextPlace, skip

\* No row is sorted yet.
LEMMA InitSort == Init => SortInv
<1> SUFFICES ASSUME Init
             PROVE  SortInv
  OBVIOUS
<1>1. pc = "run" /\ rows = <<>> /\ result = <<>> /\ QueryOK(q)
  BY InputsAssumption DEF Init
<1>2. IsSequence(rows)
  BY <1>1 DEF IsSequence
<1> QED  BY <1>1, <1>2 DEF SortInv, WindowOfSorted, IsDone

\* As long as matches are found nothing is sorted.
LEMMA StepSearch ==
  ASSUME SortInv, pc = "run", pc' = pc, result' = result, q' = q,
         rows' = rows \/ \E e : rows' = Append(rows, e)
  PROVE  SortInv'
<1>1. IsSequence(rows)'
  BY AppendedIsSequence DEF SortInv, IsSequence
<1>2. QueryOK(q)'
  BY DEF SortInv, QueryOK, ValueOK
<1> QED  BY <1>1, <1>2 DEF SortInv, WindowOfSorted, IsDone

\* What the steps of the sort leave alone.
LEMMA SortFrame ==
  ASSUME SortInv, rows' = rows, q' = q
  PROVE  IsSequence(rows)' /\ QueryOK(q)'
<1>1. IsSequence(rows)'
  BY DEF SortInv, IsSequence
<1>2. QueryOK(q)'
  BY DEF SortInv, QueryOK, ValueOK
<1> QED  BY <1>1, <1>2

\* The rows of columns of one type can be sorted.
LEMMA RowsSortable ==
  ASSUME SortInv, Sortable(Projected)
  PROVE  SortableRows(Projected)
BY ProjectedFacts DEF SortInv, SortableRows, QueryOK

\* Before the first row nothing is placed.
LEMMA StepStartSort ==
  ASSUME SortInv, StartSort
  PROVE  SortInv'
<1>1. /\ pc = "run" /\ pc' = "sort" /\ db' = db /\ q' = q /\ rows' = rows /\ result' = result
      /\ result = <<>> /\ queue' = <<>>
  BY DEF StartSort, Drained, SortInv
<1> DEFINE p == [i \in 1 .. 0 |-> i]
<1>2. PICK all : all = Projected
  OBVIOUS
<1>3. Placed(all, <<>>, p)
  <2>1. <<>> \in Seq({all[i] : i \in DOMAIN all}) /\ Len(<<>>) = 0 /\ 1 .. 0 = {}
    OBVIOUS
  <2>2. p \in [1 .. 0 -> 1 .. 0]
    OBVIOUS
  <2> QED  BY <2>1, <2>2 DEF Placed
<1> HIDE DEF p
<1>4. Placed(Projected, result, p)'
  BY <1>1, <1>2, <1>3, SamePlaces
<1> QED  BY <1>1, <1>4, SortFrame DEF SortInv, WindowOfSorted, IsDone

\* A row is put at its place.
LEMMA StepSortRow ==
  ASSUME SortInv, SortRow
  PROVE  SortInv'
<1>1. /\ pc = "sort" /\ pc' = pc /\ db' = db /\ q' = q /\ rows' = rows /\ queue' = <<>>
      /\ Len(result) < Len(rows) /\ result' = Inserted(result, Projected[Len(result) + 1])
      /\ IsSequence(rows)
      /\ Sortable(Projected) => \E p : Placed(Projected, result, p)
  BY DEF SortRow, SortInv
<1>2. PICK all : all = Projected
  OBVIOUS
<1>3. ASSUME Sortable(Projected)'
      PROVE  \E p : Placed(Projected, result, p)'
  <2>1. Sortable(Projected)
    BY <1>1, <1>2, <1>3, SameRows
  <2>2. PICK p : Placed(Projected, result, p)
    BY <1>1, <2>1
  <2>3. SortableRows(Projected)
    BY <2>1, RowsSortable
  <2>4. Len(rows) \in Nat /\ DOMAIN Projected = 1 .. Len(rows)
    BY <1>1, ProjectedFacts
  <2>5. PICK r : Placed(Projected, Inserted(result, Projected[Len(result) + 1]), r)
    BY <1>1, <2>2, <2>3, <2>4, InsertPlaced
  <2>6. PICK s : s = result'
    OBVIOUS
  <2>7. Placed(all, s, r)
    BY <1>1, <1>2, <2>5, <2>6
  <2>8. Placed(Projected, result, r)'
    BY <1>1, <1>2, <2>6, <2>7, SamePlaces
  <2> QED  BY <2>8
<1> QED  BY <1>1, <1>3, SortFrame DEF SortInv, WindowOfSorted, IsDone

\* Without ORDER BY the rows are at their places.
LEMMA ScanOrder ==
  ASSUME SortInv, q.order_by = <<>>
  PROVE  \E p : Placed(Projected, Projected, p)
<1>1. PICK all : all = Projected
  OBVIOUS
<1>2. PICK n : n = Len(rows)
  OBVIOUS
<1> DEFINE S == {all[i] : i \in DOMAIN all}
           p == [i \in 1 .. n |-> i]
<1>3. n \in Nat /\ DOMAIN all = 1 .. n
  BY <1>1, <1>2, ProjectedFacts DEF SortInv
<1>4. all = [i \in 1 .. n |-> all[i]]
  BY <1>1, <1>3 DEF Projected
<1>5. \A i \in 1 .. n : all[i] \in S
  BY <1>3
<1> HIDE DEF S
<1>6. all \in Seq(S) /\ Len(all) = n
  BY <1>3, <1>4, <1>5
<1>7. \A i, j : Before(all, i, j) <=> i < j
  <2>1. DOMAIN q.order_by = {}
    BY EmptySeq
  <2>2. \A i, j : Decides(all, i, j) = {}
    BY <2>1 DEF Decides
  <2> QED  BY <2>2 DEF Before
<1>8. /\ p \in [1 .. n -> 1 .. n] /\ \A i \in 1 .. n : p[i] = i
  OBVIOUS
<1> HIDE DEF p
<1>9. Placed(all, all, p)
  BY <1>6, <1>7, <1>8 DEF Placed, S
<1> QED  BY <1>1, <1>9

\* The window is cut out when all rows have their places.
LEMMA StepFinishSort ==
  ASSUME SortInv, Finish
  PROVE  SortInv'
<1>1. pc' = "done" /\ db' = db /\ q' = q /\ rows' = rows /\ IsSequence(rows) /\ QueryOK(q)
      /\ queue' = <<>>
  BY DEF Finish, Drained, SortInv
<1>2. PICK all : all = Projected
  OBVIOUS
<1>3. ASSUME q'.aggregates = {}, Sortable(Projected)'
      PROVE  IsWindow(Projected, result)'
  <2>1. ~Aggregates
    BY <1>1, <1>3 DEF Aggregates
  <2>2. Sortable(Projected)
    BY <1>1, <1>2, <1>3, SameRows
  <2>3. Len(rows) \in Nat /\ DOMAIN Projected = 1 .. Len(rows)
    BY <1>1, ProjectedFacts
  <2>4. \E s : /\ result' = Window(s) /\ Len(s) = Len(rows)
               /\ \E p : Placed(Projected, s, p)
    <3>1. CASE pc = "sort"
      <4>1. result' = Window(result) /\ Len(result) = Len(rows)
        BY <2>1, <3>1 DEF Finish, Drained
      <4>2. \E p : Placed(Projected, result, p)
        BY <2>2, <3>1 DEF SortInv
      <4> QED  BY <4>1, <4>2
    <3>2. CASE pc # "sort"
      <4>1. result' = Window(Projected) /\ q.order_by = <<>>
        BY <2>1, <3>2 DEF Finish
      <4>2. PICK p : Placed(Projected, Projected, p)
        BY <4>1, ScanOrder
      <4>3. Projected \in Seq({Projected[i] : i \in DOMAIN Projected})
        BY <4>2 DEF Placed
      <4>4. DOMAIN Projected = 1 .. Len(Projected) /\ Len(Projected) \in Nat
        BY <4>3, LenProperties
      <4>5. Len(Projected) = Len(rows)
        BY <2>3, <4>4
      <4> QED  BY <4>1, <4>2, <4>5
    <3> QED  BY <3>1, <3>2
  <2>5. PICK s : /\ result' = Window(s) /\ Len(s) = Len(rows)
                 /\ \E p : Placed(Projected, s, p)
    BY <2>4
  <2>6. IsWindow(Projected, Window(s))
    BY <1>1, <2>3, <2>5, WindowPlaced
  <2>7. PICK res : res = result'
    OBVIOUS
  <2>8. IsWindow(all, res)
    BY <1>2, <2>5, <2>6, <2>7
  <2> QED  BY <1>1, <1>2, <2>7, <2>8, SameWindow
<1> QED  BY <1>1, <1>3, SortFrame DEF SortInv, WindowOfSorted

\* A query that has returned stays as it is.
LEMMA StepSameSort ==
  ASSUME SortInv, UNCHANGED vars
  PROVE  SortInv'
<1>1. db' = db /\ q' = q /\ rows' = rows /\ result' = result /\ pc' = pc /\ queue' = queue
  BY DEF vars
<1>2. PICK all : all = Projected
  OBVIOUS
<1>3. PICK s : s = result'
  OBVIOUS
<1>4. Sortable(Projected)' <=> Sortable(Projected)
  BY <1>1, <1>2, SameRows
<1>5. \A p : Placed(Projected, result, p) => Placed(Projected, result, p)'
  BY <1>1, <1>2, <1>3, SamePlaces
<1>6. IsWindow(Projected, result) => IsWindow(Projected, result)'
  BY <1>1, <1>2, <1>3, SameWindow
<1>7. IsDone' <=> IsDone
  BY <1>1 DEF IsDone
<1> QED  BY <1>1, <1>4, <1>5, <1>6, <1>7, SortFrame DEF SortInv, WindowOfSorted

\* Every step keeps the sorted rows in their places.
LEMMA StepSorts == SortInv /\ [Next]_vars => SortInv'
<1> SUFFICES ASSUME SortInv, [Next]_vars
             PROVE  SortInv'
  OBVIOUS
<1>0. queue # <<>> => pc = "run"
  BY DEF SortInv
<1>1. CASE Scan
  BY <1>1, StepSearch DEF Scan
<1>2. CASE SingleHop
  BY <1>2, StepSearch DEF SingleHop
<1>3. CASE StartPaths
  BY <1>3, StepSearch DEF StartPaths
<1>4. CASE SkipNode
  BY <1>4, <1>0, StepSearch DEF SkipNode, AtEdge
<1>5. CASE VisitNode
  BY <1>5, <1>0, StepSearch DEF VisitNode, AtEdge
<1>6. CASE PopPath
  BY <1>6, <1>0, StepSearch DEF PopPath
<1>7. CASE StartSort
  BY <1>7, StepStartSort
<1>8. CASE SortRow
  BY <1>8, StepSortRow
<1>9. CASE Finish
  BY <1>9, StepFinishSort
<1>10. CASE Done
  BY <1>10, StepSameSort DEF Done
<1>11. CASE UNCHANGED vars
  BY <1>11, StepSameSort
<1> QED  BY <1>1, <1>2, <1>3, <1>4, <1>5, <1>6, <1>7, <1>8, <1>9, <1>10, <1>11 DEF Next

\* Without null and NaN in its columns, a query returns the window that SKIP and LIMIT
\* cut out of the rows in the order of ORDER BY, equal rows in the order of the
\* scan: sort_by puts every row behind the rows that come before it.
THEOREM WindowsRight == Spec => []WindowOfSorted
<1>1. SortInv => WindowOfSorted
  BY DEF SortInv
<1> QED  BY <1>1, InitSort, StepSorts, PTL DEF Spec
=============================================================================
