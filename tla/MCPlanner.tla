------------------------------ MODULE MCPlanner ------------------------------
(***************************************************************************)
(* Planner for TLC: patterns of up to two nodes and a relationship, and    *)
(* predicates up to NOT over AND and OR of two atoms, in which constants,  *)
(* nulls, values of different types and columns meet.                      *)
(***************************************************************************)
EXTENDS Planner, SequencesExt

MCSchemas == [Person |-> [id |-> "int64", name |-> "string"]]

\* The last two are 0.0 = -0.0 and NaN = NaN.
Constants ==
  {Literal(Bool(TRUE)),
   Comparison(Literal(Int64(1)), "=", Literal(Int64(0))),
   Comparison(Literal(Int64(1)), "<>", Literal(Null)),
   Comparison(Literal(Int64(1)), ">=", Literal(Float64(1))),
   Comparison(Literal(Float32(1)), "<=", Literal(Float32(0))),
   Comparison(Literal(Float64(0)), "=", Literal(Float64(-1))),
   Comparison(Literal(Float64(3)), "=", Literal(Float64(3)))}
OnFirst(v) ==
  {Comparison(Property(<<v, "id">>), "<", Literal(Int64(1))),
   Comparison(Property(<<v, "name">>), "=", Literal(Int64(1))),
   IsNull(Property(<<v, "name">>), TRUE)}
Atoms(nodes) ==
  Constants \cup OnFirst(nodes[1])
    \cup {Comparison(Property(<<v, "id">>), "<", Literal(Int64(1))) : v \in Range(nodes)}

Negated(es) == {Logical("NOT", <<e>>) : e \in es}
Joined(es, fs) == {Logical(op, <<e, f>>) : op \in {"AND", "OR"}, e \in es, f \in fs}

\* Without RETURN the filter is the root, where the rules see it; on a single
\* node it is pushed into the scan before it can be simplified.
Predicates(g) ==
  LET atoms == Atoms(g.nodes)
      pairs == Joined(atoms, atoms)
      nested == Joined(Negated(Joined(atoms, Constants)), atoms)
  IN  atoms \cup pairs \cup Negated(atoms \cup pairs)
        \cup (IF Len(g.rels) = 1 THEN nested ELSE {})

Named(v) == << <<v, "name">>, Property(<<v, "name">>)>>
Returns(v) ==
  {<< << <<"n", "">>, Literal(Int64(1))>> >>, <<Named(v)>>,
   << << <<v, "">>, Property(<<v, "">>)>> >>,
   << << <<"c", "">>, IsNull(Property(<<v, "id">>), FALSE)>>,
      Named(v)>>}

\* The expressions of these clauses, what simplification makes of them, and all
\* their parts.
RECURSIVE WithParts(_)
WithParts(es) ==
  LET parts == UNION {Parts(e) : e \in es}
  IN  es \cup (IF parts = {} THEN {} ELSE WithParts(parts))
ClosedExpressions ==
  LET nodes == <<"a", "b">>
      graph2 == [nodes |-> nodes, rels |-> <<"KNOWS">>]
      returned == {x[2] : x \in UNION {Range(r) : r \in Returns("a") \cup Returns("b")}}
  IN  WithParts(Predicates(graph2) \cup Joined(Negated(Atoms(nodes)), Atoms(nodes))
                  \cup {Literal(Bool(FALSE))} \cup returned)

RECURSIVE DepthOf(_)
DepthOf(e) ==
  IF Parts(e) = {} THEN 0
  ELSE 1 + Max({DepthOf(x) : x \in Parts(e)})
DepthsOf == [e \in ClosedExpressions |-> DepthOf(e)]
\* A constant that a configuration replaces is evaluated at every use, a
\* definition once.
MCExpressions == ClosedExpressions
MCDepth == DepthsOf

\* The two variables are interchangeable: the scan is over a.
MCClauses(g) ==
  IF g.nodes = <<>> \/ Head(g.nodes) # "a" THEN {}
  ELSE
    [where : {<<>>} \cup {<<p>> : p \in Predicates(g)}, returns : {<<>>},
     order_by : {<<>>}, limit : {<<>>}]
    \cup
    [where : {<<>>} \cup {<<p>> : p \in Atoms(g.nodes)},
     returns : UNION {Returns(v) : v \in Range(g.nodes)},
     order_by : {<<>>, << <<"x">> >>}, limit : {<<>>, <<1>>}]

MCPathBounds == {<<>>, <<1, 2>>}
=============================================================================
