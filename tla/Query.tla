-------------------------------- MODULE Query --------------------------------
(***************************************************************************)
(* MATCH queries as Database of src/lib.rs runs them: a scan with a filter *)
(* (execute_match), one hop over a relationship table or a path of         *)
(* variable length (execute_match_rel), and then aggregates or             *)
(* ORDER BY, SKIP and LIMIT.  The pattern is (src)-[rel]->(dst), every     *)
(* variable has one property, and a column is named by its function ("" if *)
(* it has none) and its variable.                                          *)
(*                                                                         *)
(* A statement borrows the database for its whole run, so db does not      *)
(* change.  An optional part of a query is a sequence of length 0 or 1.    *)
(***************************************************************************)
EXTENDS Integers, Sequences, FiniteSets, SequencesExt

CONSTANTS
  Inputs,      \* pairs of a database and a query on it
  IntLimit,    \* 2^63, the first integer that an i64 cannot hold
  FloatExact,  \* 2^53: every integer up to here is an f64
  AsFloat(_)   \* the f64 next to an i64, what `as f64` gives

ASSUME IntLimitAssumption == IntLimit \in Nat \ {0}
ASSUME FloatAssumption ==
  /\ FloatExact \in Nat
  /\ \A n \in -IntLimit .. IntLimit - 1 :
       AsFloat(n) \in Int /\ (n \in -FloatExact .. FloatExact => AsFloat(n) = n)

\* The content of a value is an integer that stands for it in the order of its
\* type, for a number the number itself.  A null has none, nor has NaN, the
\* float that CSV files can hold and that has no place in the order.
ValueOK(v) ==
  /\ v = [type |-> v.type, val |-> v.val] /\ v.val \in Int
  /\ v.type \in {"null", "nan"} => v.val = 0
  /\ v.type = "int64" => v.val \in -IntLimit .. IntLimit - 1

\* Rows are numbered from 0, an edge is the offset of its end with its id.
DatabaseOK(d) ==
  /\ IsFiniteSet(DOMAIN d.src) /\ DOMAIN d.src = 0 .. Cardinality(DOMAIN d.src) - 1
  /\ \A n \in DOMAIN d.src : ValueOK(d.src[n])
  /\ \A s \in DOMAIN d.adj : d.adj[s] \in Seq(Nat \X Nat)

QueryOK(u) ==
  /\ u.kind \in {"match", "hop", "path"}
  /\ u.key \in Seq(Nat) /\ Len(u.key) <= 1 /\ (u.kind = "match" => u.key = <<>>)
  /\ \A i \in DOMAIN u.filter :
       ValueOK(u.filter[i].value) /\ u.filter[i].op \in {"=", "<>", "<", "<=", ">", ">="}
  /\ u.order_by \in Seq([var : STRING, ascending : BOOLEAN])
  /\ u.skip \in Seq(Int) /\ u.limit \in Seq(Int)
  /\ Len(u.skip) <= 1 /\ Len(u.limit) <= 1
  /\ u.aggregates \subseteq {"COUNT*", "COUNT", "SUM", "AVG", "MIN", "MAX"}
  /\ u.min \in Nat /\ u.max \in Nat

ASSUME InputsAssumption == \A in \in Inputs : DatabaseOK(in.db) /\ QueryOK(in.q)

VARIABLES
  db,       \* the tables: src, dst and rel are the property values by offset
            \* or relationship id, adj the forward edges of a source
  q,        \* the query
  pc,       \* "run", "sort" or "done"
  sources,  \* the source rows that are still to be visited
  queue,    \* the queue of collect_multi_hop_rows; its head is being expanded
  edge,     \* the edge that is next, of the head or of the source of a hop
  rows,     \* the matches found so far
  result    \* the rows of the QueryResult, or the rows that are sorted so far

vars == <<db, q, pc, sources, queue, edge, rows, result>>

-----------------------------------------------------------------------------
(* Values *)

Null == [type |-> "null", val |-> 0]
Int64(n) == [type |-> "int64", val |-> n]
Float64(x) == [type |-> "float64", val |-> x]
NaN == [type |-> "nan", val |-> 0]

Less == -1
Equal == 0
Greater == 1
Incomparable == 2

\* Value::compare
Compare(a, b) ==
  IF a.type \in {"null", "nan"} \/ a.type # b.type THEN Incomparable
  ELSE IF a.val < b.val THEN Less
  ELSE IF a.val = b.val THEN Equal ELSE Greater

\* promote_for_comparison; an integer and a NaN are incomparable either way.
Promote(a, b) ==
  LET Promoted(v) == IF v.type = "int64" THEN Float64(AsFloat(v.val)) ELSE v
  IN  IF {a.type, b.type} = {"int64", "float64"} THEN <<Promoted(a), Promoted(b)>> ELSE <<a, b>>

\* The comparison operators on an ordering.
Holds(op, c) ==
  CASE op = "=" -> c = Equal
    [] op = "<>" -> c # Equal
    [] op = "<" -> c = Less
    [] op = "<=" -> c # Greater
    [] op = ">" -> c = Greater
    [] OTHER -> c # Less  \* >=

\* evaluate_expression once the column is found.
Matches(v, e) ==
  LET p == Promote(v, e.value)
      c == Compare(p[1], p[2])
  IN  c # Incomparable /\ Holds(e.op, c)

-----------------------------------------------------------------------------
(* Matches of the pattern: a source, and for a relationship query a        *)
(* destination and a relationship                                          *)

\* The variables a row is built from: multi-hop rows have no relationship.
Visible ==
  CASE q.kind = "match" -> {"src"}
    [] q.kind = "hop" -> {"src", "dst", "rel"}
    [] OTHER -> {"src", "dst"}  \* path

PropertyOf(m, var) ==
  CASE var = "src" -> db.src[m.src]
    [] var = "dst" -> db.dst[m.dst]
    [] OTHER -> db.rel[m.rel]

\* The WHERE clause; a variable that is not there fails it.
PassesWhere(m) ==
  \A i \in DOMAIN q.filter :
    q.filter[i].var \in Visible /\ Matches(PropertyOf(m, q.filter[i].var), q.filter[i])

\* The property of the destination in the pattern, compared with ==.
PassesDst(d) == \A i \in DOMAIN q.dst_filter : db.dst[d] = q.dst_filter[i]

Offsets == [i \in 1 .. Cardinality(DOMAIN db.src) |-> i - 1]

\* src_offsets: a key is looked up (here it is the offset), all rows if the
\* pattern has none.
SrcOffsets ==
  IF q.key = <<>> THEN Offsets
  ELSE IF q.key[1] \in DOMAIN db.src THEN q.key ELSE <<>>

\* get_forward_edges
ForwardEdges(n) == IF n \in DOMAIN db.adj THEN db.adj[n] ELSE <<>>

Init ==
  /\ \E input \in Inputs : db = input.db /\ q = input.q
  /\ pc = "run"
  /\ sources = SrcOffsets
  /\ queue = <<>> /\ edge = 1
  /\ rows = <<>>
  /\ result = <<>>

\* ScanOperator and FilterOperator, one row.
Scan ==
  /\ pc = "run" /\ q.kind = "match" /\ sources # <<>>
  /\ LET m == [src |-> Head(sources)]
     IN  rows' = IF PassesWhere(m) THEN Append(rows, m) ELSE rows
  /\ sources' = Tail(sources)
  /\ UNCHANGED <<db, q, pc, queue, edge, result>>

\* collect_single_hop_rows: the edges of a source, and the next source.
SingleHop ==
  /\ pc = "run" /\ q.kind = "hop" /\ sources # <<>>
  /\ LET edges == ForwardEdges(Head(sources))
         m == [src |-> Head(sources), dst |-> edges[edge][1], rel |-> edges[edge][2]]
     IN  \/ /\ edge <= Len(edges)
            /\ rows' = IF PassesDst(m.dst) /\ PassesWhere(m) THEN Append(rows, m) ELSE rows
            /\ edge' = edge + 1 /\ UNCHANGED sources
         \/ /\ edge > Len(edges)
            /\ sources' = Tail(sources)
            /\ edge' = 1 /\ UNCHANGED rows
  /\ UNCHANGED <<db, q, pc, queue, result>>

\* collect_multi_hop_rows, the next source.
StartPaths ==
  /\ pc = "run" /\ q.kind = "path" /\ queue = <<>> /\ sources # <<>>
  /\ queue' = <<[node |-> Head(sources), depth |-> 0, path |-> <<Head(sources)>>]>>
  /\ sources' = Tail(sources)
  /\ UNCHANGED <<db, q, pc, edge, rows, result>>

\* The edges of the entry that is being expanded; at the upper bound none is
\* looked at.
EdgesOf(c) == IF c.depth >= q.max THEN <<>> ELSE ForwardEdges(c.node)
NextNode == EdgesOf(Head(queue))[edge][1]
AtEdge == queue # <<>> /\ edge <= Len(EdgesOf(Head(queue)))

\* Seeded fault: the lower bound is exclusive.
InBoundsAbove(depth) == depth > q.min /\ depth <= q.max

InBounds(depth) == depth >= q.min /\ depth <= q.max

\* Seeded fault: the edge is looked at again.
SkipNodeAgain ==
  /\ AtEdge /\ Contains(Head(queue).path, NextNode)
  /\ UNCHANGED vars

\* An edge back to a node of the path is left out.
SkipNode ==
  /\ AtEdge /\ Contains(Head(queue).path, NextNode)
  /\ edge' = edge + 1
  /\ UNCHANGED <<db, q, pc, sources, queue, rows, result>>

\* Any other gives a match, if its end passes the filter, and a longer path.
VisitNode ==
  /\ AtEdge /\ ~Contains(Head(queue).path, NextNode)
  /\ LET c == Head(queue)
         depth == c.depth + 1
     IN  /\ rows' = IF InBounds(depth) /\ PassesDst(NextNode)
                    THEN Append(rows, [src |-> c.path[1], dst |-> NextNode]) ELSE rows
         /\ queue' = IF depth < q.max
                     THEN Append(queue, [node |-> NextNode, depth |-> depth,
                                         path |-> Append(c.path, NextNode)])
                     ELSE queue
  /\ edge' = edge + 1
  /\ UNCHANGED <<db, q, pc, sources, result>>

\* The entry is expanded, the next one follows.
PopPath ==
  /\ queue # <<>> /\ ~AtEdge
  /\ queue' = Tail(queue) /\ edge' = 1
  /\ UNCHANGED <<db, q, pc, sources, rows, result>>

-----------------------------------------------------------------------------
(* The end of a query *)

Plain(var) == <<"", var>>
Columns == {Plain(var) : var \in q.returns \cap Visible}

\* The projected row; a column that does not exist is left out.
Project(m) == [c \in Columns |-> PropertyOf(m, c[2])]
Projected == [i \in DOMAIN rows |-> Project(rows[i])]

\* One ORDER BY item: a missing value is greater than any other.
CompareOn(item, a, b) ==
  LET c == Plain(item.var)
      v == IF c \in DOMAIN a \cap DOMAIN b THEN Compare(a[c], b[c]) ELSE Equal
      o == CASE c \notin DOMAIN a /\ c \in DOMAIN b -> Greater
             [] c \in DOMAIN a /\ c \notin DOMAIN b -> Less
             [] v = Incomparable -> Equal
             [] OTHER -> v
  IN  IF item.ascending THEN o ELSE -o

\* Seeded fault: the last item that tells two rows apart decides.
CompareRowsLast(a, b) ==
  LET decides == {k \in DOMAIN q.order_by : CompareOn(q.order_by[k], a, b) # Equal}
  IN  IF decides = {} THEN Equal ELSE CompareOn(q.order_by[Max(decides)], a, b)

\* The closure given to sort_by: the first item that tells two rows apart.
CompareRows(a, b) ==
  LET decides == {k \in DOMAIN q.order_by : CompareOn(q.order_by[k], a, b) # Equal}
  IN  IF decides = {} THEN Equal ELSE CompareOn(q.order_by[Min(decides)], a, b)

\* sort_by is an insertion sort for up to 20 elements: a row goes behind the last
\* one that it is not less than.
Inserted(sorted, r) ==
  LET stays == {i \in DOMAIN sorted : CompareRows(r, sorted[i]) # Less}
  IN  InsertAt(sorted, 1 + (IF stays = {} THEN 0 ELSE Max(stays)), r)

AtLeast0(n) == IF n < 0 THEN 0 ELSE n

\* apply_modifiers_and_build_result, after the sort
Window(sorted) ==
  LET from == IF q.skip = <<>> THEN 0 ELSE AtLeast0(q.skip[1])
      to == IF q.limit = <<>> THEN Len(sorted) ELSE from + AtLeast0(q.limit[1])
  IN  SubSeq(sorted, from + 1, IF to < Len(sorted) THEN to ELSE Len(sorted))

IsInt(v) == v.type = "int64"
NotNull(v) == v # Null

\* i64 addition as a release build does it; a debug build panics instead.
Wrap(n) == ((n + IntLimit) % (2 * IntLimit)) - IntLimit

\* The value of a match that the aggregates look at, and the sum of the first k.
Input(k) == PropertyOf(rows[k], "src")
SumTo[k \in 0 .. Len(rows)] ==
  IF k = 0 THEN 0
  ELSE IF IsInt(Input(k)) THEN Wrap(SumTo[k - 1] + Input(k).val) ELSE SumTo[k - 1]

\* Seeded fault: the running extreme is compared with the wrong ordering.
BetterFirst(best, v, wanted) ==
  IF NotNull(v) /\ (best = Null \/ Compare(best, v) = wanted) THEN v ELSE best

\* MIN and MAX: the first value, replaced by one that is Less or Greater.
Better(best, v, wanted) ==
  IF NotNull(v) /\ (best = Null \/ Compare(v, best) = wanted) THEN v ELSE best
LeastTo[k \in 0 .. Len(rows)] ==
  IF k = 0 THEN Null ELSE Better(LeastTo[k - 1], Input(k), Less)
GreatestTo[k \in 0 .. Len(rows)] ==
  IF k = 0 THEN Null ELSE Better(GreatestTo[k - 1], Input(k), Greater)

\* The aggregates of compute_aggregates.  AVG keeps its sum and its count.
Aggregate(fn) ==
  LET sum == SumTo[Len(rows)]
      ints == Cardinality({k \in DOMAIN rows : IsInt(Input(k))})
  IN  CASE fn = "COUNT*" -> Int64(Len(rows))
        [] fn = "COUNT" -> Int64(Cardinality({k \in DOMAIN rows : NotNull(Input(k))}))
        [] fn = "SUM" -> Int64(sum)
        [] fn = "AVG" -> IF ints = 0 THEN Null ELSE Float64(<<sum, ints>>)
        [] fn = "MIN" -> LeastTo[Len(rows)]
        [] OTHER -> GreatestTo[Len(rows)]  \* MAX

\* compute_aggregates: one row, a plain column has the value of the first
\* match.
ComputeAggregates ==
  LET plain == IF rows = <<>> THEN {} ELSE Columns
  IN  [c \in {<<fn, "src">> : fn \in q.aggregates} \cup plain |->
        IF c[1] = "" THEN Project(rows[1])[c] ELSE Aggregate(c[1])]

\* All matches are found.  execute_match_rel drops aggregates.
Drained == pc = "run" /\ sources = <<>> /\ queue = <<>>
Aggregates == q.kind = "match" /\ q.aggregates # {}

\* With ORDER BY the rows are sorted, one by one.
StartSort ==
  /\ Drained /\ ~Aggregates /\ q.order_by # <<>>
  /\ pc' = "sort"
  /\ UNCHANGED <<db, q, sources, queue, edge, rows, result>>
SortRow ==
  /\ pc = "sort" /\ Len(result) < Len(rows)
  /\ result' = Inserted(result, Projected[Len(result) + 1])
  /\ UNCHANGED <<db, q, pc, sources, queue, edge, rows>>

\* The end of execute_match and of execute_match_rel.
Finish ==
  /\ \/ Drained /\ (Aggregates \/ q.order_by = <<>>)
     \/ pc = "sort" /\ Len(result) = Len(rows)
  /\ result' = IF Aggregates THEN <<ComputeAggregates>>
               ELSE Window(IF pc = "sort" THEN result ELSE Projected)
  /\ pc' = "done"
  /\ UNCHANGED <<db, q, sources, queue, edge, rows>>

\* The statement has returned.
Done == pc = "done" /\ UNCHANGED vars

Next ==
  \/ Scan \/ SingleHop
  \/ StartPaths \/ SkipNode \/ VisitNode \/ PopPath
  \/ StartSort \/ SortRow \/ Finish \/ Done

\* Nothing in a query waits.
Spec == Init /\ [][Next]_vars /\ WF_vars(Next)

-----------------------------------------------------------------------------
(* Properties *)

IsDone == pc = "done"

\* An edge is a source with a position in its list of edges.
Edges == UNION {{<<s, i>> : i \in DOMAIN db.adj[s]} : s \in DOMAIN db.adj}
EndOf(e) == db.adj[e[1]][e[2]][1]

\* The paths of n edges from s on which no node occurs twice.
SimplePaths(s, n) ==
  {p \in [1 .. n -> Edges] :
    /\ p[1][1] = s
    /\ \A i \in 1 .. n - 1 : p[i + 1][1] = EndOf(p[i])
    /\ Cardinality({s} \cup {EndOf(p[i]) : i \in 1 .. n}) = n + 1}

CountRows(s, d) == Cardinality({i \in DOMAIN rows : rows[i].src = s /\ rows[i].dst = d})

\* A path query over one node table has one match for every simple path
\* whose length is in the bounds and whose end passes the filter: none is
\* lost or repeated by the queue, the cycle check or the parallel edges.
PathsExact ==
  IsDone /\ q.kind = "path" /\ ~db.two_tables =>
    \A s, d \in DOMAIN db.src :
      CountRows(s, d) =
        IF Contains(SrcOffsets, s) /\ PassesDst(d)
        THEN Cardinality(UNION { {p \in SimplePaths(s, n) : EndOf(p[n]) = d} :
                                 n \in {k \in q.min .. q.max : k > 0} })
        ELSE 0

\* Row i of all comes before row j: the first ORDER BY column that tells them
\* apart decides, and equal rows keep the order of the scan.
Decides(all, i, j) ==
  {k \in DOMAIN q.order_by :
    LET c == Plain(q.order_by[k].var) IN c \in Columns /\ all[i][c] # all[j][c]}
Before(all, i, j) ==
  IF Decides(all, i, j) = {} THEN i < j
  ELSE LET k == Min(Decides(all, i, j))
           c == Plain(q.order_by[k].var)
       IN  IF q.order_by[k].ascending THEN all[i][c].val < all[j][c].val
           ELSE all[i][c].val > all[j][c].val

\* The rows of res are a window of the sorted rows of all: the row at place k of
\* the whole result is the one with k - 1 rows in front of it, SKIP and LIMIT
\* cut a window out of that.
IsWindow(all, res) ==
  LET Place(i) == 1 + Cardinality({j \in DOMAIN all : Before(all, j, i)})
      skip == IF q.skip = <<>> THEN 0 ELSE AtLeast0(q.skip[1])
      Kept(i) == Place(i) > skip /\ (\A n \in DOMAIN q.limit : Place(i) <= skip + AtLeast0(q.limit[n]))
  IN  /\ Len(res) = Cardinality({i \in DOMAIN all : Kept(i)})
      /\ \A i \in DOMAIN all : Kept(i) => res[Place(i) - skip] = all[i]

\* The columns have values of one type that is ordered: no null and no NaN.
Ordered(v) == v.type \notin {"null", "nan"}
Sortable(all) ==
  \A i, j \in DOMAIN all : \A c \in Columns :
    ValueOK(all[i][c]) /\ Ordered(all[i][c]) /\ all[i][c].type = all[j][c].type

\* What a query returns does not depend on the sort, as long as no value of a
\* column is null or NaN (those are Equal to every value for sort_by, which is
\* then given no order at all).
WindowOfSorted ==
  IsDone /\ q.aggregates = {} /\ Sortable(Projected) => IsWindow(Projected, result)

\* The rows that pass the filter of a scan, and those of them with a value.
Comparable(v, w) ==
  /\ Ordered(v) /\ Ordered(w)
  /\ v.type = w.type \/ {v.type, w.type} = {"int64", "float64"}
Relates(op, x, y) ==
  \/ op = "=" /\ x = y
  \/ op = "<>" /\ x # y
  \/ op = "<" /\ x < y
  \/ op = "<=" /\ x <= y
  \/ op = ">" /\ x > y
  \/ op = ">=" /\ x >= y
Passes(v, e) == Comparable(v, e.value) /\ Relates(e.op, v.val, e.value.val)
Selected ==
  {n \in DOMAIN db.src :
    \A i \in DOMAIN q.filter : q.filter[i].var = "src" /\ Passes(db.src[n], q.filter[i])}
NonNull == {n \in Selected : NotNull(db.src[n])}

\* Every integer that the filter compares with a float is itself a float.
Exact(v, w) ==
  {v.type, w.type} = {"int64", "float64"} => \A x \in {v, w} : IsInt(x) => AsFloat(x.val) = x.val
FilterExact ==
  \A n \in DOMAIN db.src : \A i \in DOMAIN q.filter : Exact(db.src[n], q.filter[i].value)

\* The sum of the values in the first n rows of the table.
SumBefore[n \in 0 .. Cardinality(DOMAIN db.src)] ==
  IF n = 0 THEN 0
  ELSE SumBefore[n - 1] + (IF n - 1 \in NonNull THEN db.src[n - 1].val ELSE 0)

\* Nulls do not count: over the rows whose value is not null and passes the
\* filter, COUNT is their number, MIN and MAX of one type without NaN are
\* attained bounds, and for an integer column SUM is their sum and AVG is SUM
\* over COUNT, whenever the sum itself is an i64, also if a partial sum is not.
\* An integer above 2^53 that the filter compares with a float is rounded.
AggregatesSound ==
  IsDone /\ q.kind = "match" /\ q.aggregates # {} /\ FilterExact =>
    LET Total == SumBefore[Cardinality(DOMAIN db.src)]
        OneType == \A m, n \in NonNull :
                     db.src[m].type = db.src[n].type /\ Ordered(db.src[n])
        Is(fn, v) == fn \in q.aggregates => result[1][<<fn, "src">>] = v
        Bound(n, fn, m) ==
          /\ fn = "MIN" => db.src[n].val <= db.src[m].val
          /\ fn = "MAX" => db.src[n].val >= db.src[m].val
    IN  /\ Len(result) = 1
        /\ Is("COUNT*", Int64(Cardinality(Selected)))
        /\ Is("COUNT", Int64(Cardinality(NonNull)))
        /\ NonNull = {} => \A fn \in {"AVG", "MIN", "MAX"} : Is(fn, Null)
        /\ NonNull # {} /\ OneType => \A fn \in {"MIN", "MAX"} : \E n \in NonNull :
             Is(fn, db.src[n]) /\ \A m \in NonNull : Bound(n, fn, m)
        /\ (\A n \in NonNull : IsInt(db.src[n])) /\ Total \in -IntLimit .. IntLimit - 1 =>
             /\ Is("SUM", Int64(Total))
             /\ NonNull # {} => Is("AVG", Float64(<<Total, Cardinality(NonNull)>>))

\* Every query returns, on graphs with cycles too.
QueryReturns == <>IsDone

-----------------------------------------------------------------------------
(* What the documents say and the code does not do.                        *)

\* "Given a path query with filters on intermediate nodes, when executed, then
\* only paths matching the filter criteria are returned"
\* (specs/005-query-engine/spec.md:71).
FilterApplies ==
  IsDone => \A k \in DOMAIN rows : PassesWhere(rows[k])

\* "The system MUST support ORDER BY on FLOAT64 columns with correct numeric
\* sorting" (specs/006-add-datatypes/spec.md:98).
SortedByNumber ==
  IsDone /\ Len(q.order_by) = 1 /\ q.aggregates = {} =>
    LET c == Plain(q.order_by[1].var)
        Number(i) == c \in Columns /\ result[i][c].type = "float64"
    IN  \A i, j \in DOMAIN result : i < j /\ Number(i) /\ Number(j) =>
          IF q.order_by[1].ascending THEN result[i][c].val <= result[j][c].val
          ELSE result[i][c].val >= result[j][c].val

\* "NULLs sort last (NULLS LAST default)"
\* (specs/005-query-engine/research.md:572).
NullsLast ==
  IsDone /\ Len(q.order_by) = 1 /\ q.aggregates = {} =>
    \A i, j \in DOMAIN result :
      LET c == Plain(q.order_by[1].var)
      IN  c \in Columns /\ i < j /\ NotNull(result[j][c]) => NotNull(result[i][c])
=============================================================================
