------------------------------- MODULE MCQuery -------------------------------
(***************************************************************************)
(* Query for TLC.  Paths are checked on every graph of three nodes with at *)
(* most two edges out of each, self-loops and parallel edges included;     *)
(* sorting and aggregates on every short column of small values.           *)
(***************************************************************************)
EXTENDS Query

CONSTANTS
  Bounds,       \* the pairs of path bounds
  TwoTables,    \* whether the ends of a relationship are in different tables
  PathFilters,  \* the WHERE clauses of path queries
  MaxRows,      \* bound on the rows of a scanned table
  OrderValues   \* the values of a column that is sorted

Nodes == 0 .. 2
NoQuery ==
  [kind |-> "match", key |-> <<>>, dst_filter |-> <<>>, filter |-> <<>>,
   min |-> 1, max |-> 1, returns |-> {"src", "dst", "rel"}, aggregates |-> {},
   order_by |-> <<>>, skip |-> <<>>, limit |-> <<>>]

(* Paths *)
Ids(dsts, s) == [i \in DOMAIN dsts |-> <<dsts[i], 2 * s + i>>]
Adjacent == UNION {[1 .. n -> Nodes] : n \in 0 .. 2}
Graphs ==
  {[src |-> [n \in Nodes |-> Int64(n)], dst |-> [n \in Nodes |-> Int64(n % 2)],
    rel |-> [r \in 1 .. 6 |-> Int64(r % 2)], two_tables |-> two,
    adj |-> [s \in Nodes |-> Ids(g[s], s)]] :
      g \in [Nodes -> Adjacent], two \in TwoTables}
PathQueries ==
  {[NoQuery EXCEPT !.kind = "path", !.min = b[1], !.max = b[2], !.dst_filter = d,
                   !.filter = w] :
      b \in Bounds, d \in {<<>>, <<Int64(0)>>}, w \in PathFilters}

(* One hop, with every filter *)
Where == [var : {"src", "dst", "rel"}, op : {"=", "<>", "<", ">="},
          value : {Int64(1), Float64(1)}]
SmallGraphs == {g \in Graphs : g.adj[2] = <<>> /\ Len(g.adj[1]) <= 1}
HopQueries ==
  {[NoQuery EXCEPT !.kind = "hop", !.key = k, !.filter = w,
                   !.order_by = <<[var |-> "dst", ascending |-> FALSE],
                                  [var |-> "rel", ascending |-> TRUE]>>] :
      k \in {<<>>, <<0>>, <<7>>}, w \in {<<>>} \cup {<<e>> : e \in Where}}

(* Scans *)
Tables(values) ==
  UNION { {[src |-> c, dst |-> c, rel |-> c, adj |-> <<>>, two_tables |-> FALSE] :
             c \in [0 .. n - 1 -> values]} : n \in 0 .. MaxRows }
OrderQueries ==
  {[NoQuery EXCEPT !.order_by = <<[var |-> "src", ascending |-> a]>>,
                   !.skip = s, !.limit = l] :
      a \in BOOLEAN, s \in {<<>>, <<-1>>, <<1>>}, l \in {<<>>, <<0>>, <<2>>}}
AggQueries ==
  {[NoQuery EXCEPT !.aggregates = {"COUNT*", "COUNT", "SUM", "AVG", "MIN", "MAX"},
                   !.filter = w, !.limit = <<0>>] :
      w \in {<<>>} \cup {<<[var |-> "src", op |-> o, value |-> v]>> :
                          o \in {"=", "<>", "<", "<=", ">", ">="},
                          v \in {Int64(2), Float64(2), Float64(4)}}}

MCInputs ==
  [db : Graphs, q : PathQueries]
    \cup [db : SmallGraphs, q : HopQueries]
    \cup [db : Tables(OrderValues), q : OrderQueries]
    \cup [db : Tables({Null, Int64(-3), Int64(1), Int64(2), Int64(5)}), q : AggQueries]
    \cup [db : Tables({Null, NaN, Float64(1), Float64(2)}), q : AggQueries]

\* Floats of two digits: above FloatExact = 4 a number is rounded to an even
\* multiple of its unit in the last place, so that 5 becomes 4.
Unit(n) == IF n <= 4 THEN 1 ELSE 2
MCAsFloat(n) ==
  LET u == Unit(IF n < 0 THEN -n ELSE n)
      low == n - (n % u)
  IN  IF n % u = 0 THEN n ELSE IF low % (2 * u) = 0 THEN low ELSE low + u

MCBounds == {<<0, 1>>, <<1, 2>>, <<1, 3>>, <<2, 3>>}
MCOneTable == {FALSE}
MCNoFilter == {<<>>}
MCFilter == {<<[var |-> "dst", op |-> "=", value |-> Int64(1)]>>}
MCOrderValues == {Int64(1), Int64(2), Int64(3)}
MCNullValues == MCOrderValues \cup {Null}
MCNaNValues == {Float64(1), Float64(2), NaN}
=============================================================================
