------------------------------- MODULE Planner -------------------------------
(***************************************************************************)
(* From a pattern to an optimised logical plan: the Binder                 *)
(* (src/binder/semantic.rs), Planner::plan and the optimizer rules         *)
(* (src/planner), with the VectorizedEvaluator (src/executor/vectorized)   *)
(* as the meaning of a predicate.                                          *)
(*                                                                         *)
(* Every plan that Planner::plan makes is a chain of unary operators over  *)
(* one scan, so a plan is a sequence with its root first.  A column is     *)
(* named by its variable and property (the property "" is the variable     *)
(* itself).  An optional part is a sequence of length 0 or 1.              *)
(*                                                                         *)
(* The functions of the code that recurse on an expression are recursive   *)
(* functions over Expressions, which stands for the type BoundExpression.  *)
(***************************************************************************)
EXTENDS Integers, Sequences, FiniteSets, Functions

CONSTANTS
  Variables,         \* the variables that patterns may use
  Schemas,           \* the node tables: label -> column -> data type
  RelTypes,          \* the relationship tables
  Labels, RelNames,  \* the names a pattern may use, defined or not
  PathBounds,        \* the path bounds of relationships
  Expressions,       \* the bound expressions
  Depth,             \* expression -> how deep it nests
  Infinity,          \* the content of a float that is infinite
  Clauses(_),        \* the WHERE, RETURN, ORDER BY and LIMIT given to a graph
  MaxNodes, MaxRels  \* bounds on the pattern

VARIABLES
  scope,     \* BinderScope: variable -> its label, or <<>> for a relationship
  graph,     \* the QueryGraph
  outcome,   \* what the last call of the binder returned
  query,     \* the clauses of the BoundQuery
  plan,      \* the plan, <<>> before there is one
  rule,      \* the rule that optimize_with_tracking applies next
  passes,    \* how often the plan was optimised
  applied    \* the rules that reported a change

vars == <<scope, graph, outcome, query, plan, rule, passes, applied>>

-----------------------------------------------------------------------------
(* Values and bound expressions.  A value without content is a null.  The  *)
(* content of a float is its place in the total order of IEEE 754: 0 is    *)
(* 0.0, -1 is -0.0, Infinity and -Infinity - 1 are the infinities, and     *)
(* what lies beyond them is not a number.                                  *)

ASSUME InfinityAssumption == Infinity \in Nat \ {0}

FloatTypes == {"float32", "float64"}

Int64(n) == [type |-> "int64", val |-> <<n>>]
Float32(x) == [type |-> "float32", val |-> <<x>>]
Float64(x) == [type |-> "float64", val |-> <<x>>]
Bool(b) == [type |-> "bool", val |-> <<IF b THEN 1 ELSE 0>>]
NullOf(type) == [type |-> type, val |-> <<>>]
Null == NullOf("null")
Error == [type |-> "error", val |-> <<>>]

Literal(v) == [kind |-> "literal", value |-> v]
Property(c) == [kind |-> "property", column |-> c]
Comparison(l, op, r) == [kind |-> "comparison", op |-> op, left |-> l, right |-> r]
Logical(op, es) == [kind |-> "logical", op |-> op, operands |-> es]
IsNull(e, negated) == [kind |-> "is_null", operand |-> e, negated |-> negated]

\* The expressions that an expression has inside.
Parts(e) ==
  CASE e.kind = "comparison" -> {e.left, e.right}
    [] e.kind = "logical" -> Range(e.operands)
    [] e.kind = "is_null" -> {e.operand}
    [] OTHER -> {}

\* An expression is made by one of the constructors; NOT has one operand.
WellFormed(e) ==
  CASE e.kind = "literal" ->
         /\ e = Literal(e.value)
         /\ e.value.type = "bool" => e.value \in {Bool(TRUE), Bool(FALSE)}
         /\ e.value.type \in FloatTypes => e.value.val[1] \in Int
    [] e.kind = "property" -> e = Property(e.column)
    [] e.kind = "comparison" ->
         /\ e = Comparison(e.left, e.op, e.right)
         /\ e.op \in {"=", "<>", "<", "<=", ">", ">="}
    [] e.kind = "logical" ->
         /\ e = Logical(e.op, e.operands)
         /\ e.op \in {"AND", "OR", "NOT"} /\ e.operands \in Seq(Expressions)
         /\ e.op = "NOT" => Len(e.operands) = 1
    [] e.kind = "is_null" ->
         e = IsNull(e.operand, e.negated) /\ e.negated \in BOOLEAN
    [] OTHER -> FALSE

\* An expression is a finite tree.
ASSUME ExpressionsAssumption ==
  /\ Depth \in [Expressions -> Nat]
  /\ \A e \in Expressions :
       /\ WellFormed(e)
       /\ \A x \in Parts(e) : x \in Expressions /\ Depth[x] < Depth[e]

\* A column has a name.
ASSUME SchemasAssumption == \A l \in DOMAIN Schemas : "" \notin DOMAIN Schemas[l]

\* The comparison operators on two contents.
Holds(op, a, b) ==
  CASE op = "=" -> a = b
    [] op = "<>" -> a # b
    [] op = "<" -> a < b
    [] op = "<=" -> a <= b
    [] op = ">" -> a > b
    [] OTHER -> a >= b  \* >=

-----------------------------------------------------------------------------
(* VectorizedEvaluator, on one row                                         *)

\* create_literal_array: a null literal becomes an array of Int64 nulls.
LiteralArray(v) == IF v = Null THEN NullOf("int64") ELSE v

\* The types that compare has an arm for.
ComparedTypes == {"int64", "string"} \cup FloatTypes

\* compare: arrays of one of four types, null where a side is.  The kernels of
\* Arrow use the total order of floats.
CompareArrays(l, op, r) ==
  IF l.type # r.type \/ l.type \notin ComparedTypes THEN Error
  ELSE IF <<>> \in {l.val, r.val} THEN NullOf("bool")
  ELSE Bool(Holds(op, l.val[1], r.val[1]))

\* evaluate_logical: the and, or and not of Arrow give a null as soon as one
\* operand is null, and every operand is evaluated.
CombineArrays(op, vs) ==
  LET used == IF op = "NOT" THEN {vs[1]} ELSE Range(vs)
  IN  IF \E v \in used : v.type # "bool" THEN Error
      ELSE IF \E v \in used : v.val = <<>> THEN NullOf("bool")
      ELSE Bool(CASE op = "AND" -> used \subseteq {Bool(TRUE)}
                  [] op = "OR" -> Bool(TRUE) \in used
                  [] OTHER -> vs[1] = Bool(FALSE))

\* Property and literal: the value of an expression without parts, on a row,
\* which has some columns.
AtomValue(e, row) ==
  IF e.kind = "literal" THEN LiteralArray(e.value)
  ELSE IF e.column \in DOMAIN row THEN row[e.column] ELSE Error

\* IS NULL and IS NOT NULL of a value.
NullTest(v, negated) == IF v = Error THEN Error ELSE Bool((v.val = <<>>) # negated)

\* evaluate: the value of an expression on a row.
Evaluate(expression, row) ==
  LET Value[e \in Expressions] ==
        IF e.kind = "logical"
        THEN CombineArrays(e.op, [i \in DOMAIN e.operands |-> Value[e.operands[i]]])
        ELSE IF e.kind = "comparison"
        THEN CompareArrays(Value[e.left], e.op, Value[e.right])
        ELSE IF e.kind = "is_null" THEN NullTest(Value[e.operand], e.negated)
        ELSE AtomValue(e, row)
  IN  Value[expression]

-----------------------------------------------------------------------------
(* Constants in predicates                                                 *)

IsNaN(v) ==
  v.type \in FloatTypes /\ (v.val[1] > Infinity \/ v.val[1] < - Infinity - 1)

\* What partial_cmp compares: of the numbers, -0.0 and 0.0 are the same.
Number(v) == IF v.type \in FloatTypes /\ v.val[1] = -1 THEN 0 ELSE v.val[1]

\* evaluate_comparison: no promotion, and false when Value::compare finds no
\* ordering, which it asks partial_cmp for.
EvaluateComparison(l, op, r) ==
  /\ l.type = r.type /\ l # Null
  /\ ~IsNaN(l) /\ ~IsNaN(r)
  /\ Holds(op, Number(l), Number(r))

BothLiteral(e) == e.left.kind = "literal" /\ e.right.kind = "literal"

Constant(b) == IF b THEN "True" ELSE "False"

\* AND, OR and NOT of constants, some of them unknown.
ConstantLogical(op, cs) ==
  CASE op = "AND" /\ "False" \in Range(cs) -> "False"
    [] op = "AND" /\ Range(cs) \subseteq {"True"} -> "True"
    [] op = "OR" /\ "True" \in Range(cs) -> "True"
    [] op = "OR" /\ Range(cs) \subseteq {"False"} -> "False"
    [] op = "NOT" /\ cs[1] # "Unknown" -> Constant(cs[1] = "False")
    [] OTHER -> "Unknown"

\* A literal, or a comparison of two.
ConstantAtom(e) ==
  CASE e.kind = "literal" /\ e.value.type = "bool" -> Constant(e.value = Bool(TRUE))
    [] e.kind = "comparison" /\ BothLiteral(e) ->
         Constant(EvaluateComparison(e.left.value, e.op, e.right.value))
    [] OTHER -> "Unknown"

\* try_evaluate_constant
TryEvaluateConstant[e \in Expressions] ==
  IF e.kind = "logical"
  THEN ConstantLogical(e.op, [i \in DOMAIN e.operands |-> TryEvaluateConstant[e.operands[i]]])
  ELSE ConstantAtom(e)

\* Seeded fault: the neutral elements of AND and OR are swapped.
RebuiltSwapped(op, es) ==
  CASE Len(es) = 0 -> Literal(Bool(op = "OR"))
    [] Len(es) = 1 -> es[1]
    [] OTHER -> Logical(op, es)

\* What is left of an AND or an OR: no operand, one, or several.
Rebuilt(op, es) ==
  CASE Len(es) = 0 -> Literal(Bool(op = "AND"))
    [] Len(es) = 1 -> es[1]
    [] OTHER -> Logical(op, es)

\* The operands that are no constant, in their order.
Undecided(es) ==
  LET UndecidedTo[n \in 0 .. Len(es)] ==
        IF n = 0 THEN <<>>
        ELSE IF TryEvaluateConstant[es[n]] = "Unknown" THEN Append(UndecidedTo[n - 1], es[n])
        ELSE UndecidedTo[n - 1]
  IN  UndecidedTo[Len(es)]

\* AND, OR and NOT of operands that are simplified already.
SimplifyLogical(op, es) ==
  LET constants == {TryEvaluateConstant[es[i]] : i \in DOMAIN es}
      deciding == IF op = "AND" THEN "False" ELSE "True"
  IN  IF op = "NOT"
      THEN IF TryEvaluateConstant[es[1]] = "Unknown" THEN Logical("NOT", <<es[1]>>)
           ELSE Literal(Bool(TryEvaluateConstant[es[1]] = "False"))
      ELSE IF deciding \in constants THEN Literal(Bool(deciding = "True"))
      ELSE Rebuilt(op, Undecided(es))

\* simplify_predicate
SimplifyPredicate[e \in Expressions] ==
  IF e.kind = "logical"
  THEN SimplifyLogical(e.op, [i \in DOMAIN e.operands |-> SimplifyPredicate[e.operands[i]]])
  ELSE IF e.kind = "comparison" /\ BothLiteral(e)
  THEN Literal(Bool(EvaluateComparison(e.left.value, e.op, e.right.value)))
  ELSE e

\* What simplify_predicate returns is an expression again.
ASSUME SimplifiedAssumption == \A e \in Expressions : SimplifyPredicate[e] \in Expressions

-----------------------------------------------------------------------------
(* Plans                                                                   *)

NodeScan(v) ==
  [op |-> "NodeScan", variable |-> v, schema |-> Schemas[scope[v][1]],
   filters |-> <<>>, projection |-> <<>>]
Filter(p) == [op |-> "Filter", predicate |-> p]
Project(es) == [op |-> "Project", expressions |-> es]
Empty(columns) == [op |-> "Empty", columns |-> columns]

\* collect_columns_from_expr
CollectColumns[e \in Expressions] ==
  IF e.kind = "property" THEN {e.column}
  ELSE UNION {CollectColumns[x] : x \in Parts(e)}

\* collect_required_columns; an expression of RETURN is a name and a value.
RequiredColumns(expressions) == UNION {CollectColumns[x[2]] : x \in Range(expressions)}

\* The columns that an operator makes or adds to those of its input.
Columns(o) ==
  CASE o.op = "NodeScan" ->
         {<<o.variable, c>> : c \in
            DOMAIN o.schema \cap (IF o.projection = <<>> THEN DOMAIN o.schema
                                                        ELSE o.projection[1])}
    [] o.op = "Extend" -> {<<o.dst, "id">>}
    [] o.op = "PathExpand" -> {<<v, "path">> : v \in Range(o.path)}
    [] o.op = "Project" -> {x[1] : x \in Range(o.expressions)}
    [] o.op = "Empty" -> o.columns
    [] OTHER -> {}

\* output_schema, as a set of column names: an operator passes on what its
\* input returns, unless it makes its own columns.
OutputSchema(p) ==
  LET Own(o) == o.op \in {"NodeScan", "Project", "Empty"}
  IN  UNION {Columns(p[i]) : i \in {k \in DOMAIN p : \A j \in 1 .. k - 1 : ~Own(p[j])}}

-----------------------------------------------------------------------------
(* The optimizer rules.  Each looks at the root of the plan, and returns   *)
(* the plan and whether it reports a change (Transformed).                 *)

Yes(p) == [plan |-> p, changed |-> TRUE]
No(p) == [plan |-> p, changed |-> FALSE]

\* Seeded fault: the filter stays above the scan it is pushed into.
FilterPushdownKeeps(p) ==
  IF p[1].op = "Filter" /\ p[2].op = "NodeScan"
  THEN Yes(<<p[1], [p[2] EXCEPT !.filters = Append(@, p[1].predicate)]>>)
  ELSE No(p)

\* FilterPushdownRule
FilterPushdown(p) ==
  CASE p[1].op = "Filter" /\ p[2].op = "NodeScan" ->
         Yes(<<[p[2] EXCEPT !.filters = Append(@, p[1].predicate)]>>)
    [] p[1].op = "Filter" /\ p[2].op = "Project" ->
         Yes(<<p[2], p[1]>> \o SubSeq(p, 3, Len(p)))
    [] OTHER -> No(p)

\* Seeded fault: the projection is pushed past a filter, whose columns it lacks.
ProjectionPushdownPastFilter(p) ==
  IF /\ p[1].op = "Project" /\ p[Len(p)].op = "NodeScan"
     /\ RequiredColumns(p[1].expressions) # {}
  THEN Yes([p EXCEPT ![Len(p)].projection =
              <<{c[2] : c \in RequiredColumns(p[1].expressions)}>>])
  ELSE No(p)

\* ProjectionPushdownRule
ProjectionPushdown(p) ==
  IF p[1].op = "Project" /\ p[2].op = "NodeScan"
  THEN LET required == {c \in RequiredColumns(p[1].expressions) :
                          c[1] = p[2].variable /\ c[2] # ""}
       IN  IF required = {}
           THEN No(<<p[1], [p[2] EXCEPT !.projection = <<>>]>>)
           ELSE Yes(<<p[1], [p[2] EXCEPT !.projection = <<{c[2] : c \in required}>>]>>)
  ELSE No(p)

\* A filter whose predicate is constant goes, with its input if it is false.
Folded(p, constant) ==
  IF constant = "False" THEN Yes(<<Empty(OutputSchema(Tail(p)))>>) ELSE Yes(Tail(p))

\* PredicateSimplificationRule
PredicateSimplification(p) ==
  LET simplified == SimplifyPredicate[p[1].predicate]
      constant == TryEvaluateConstant[simplified]
  IN  IF p[1].op # "Filter" THEN No(p)
      ELSE IF constant # "Unknown" THEN Folded(p, constant)
      ELSE IF simplified = p[1].predicate THEN No(p)
      ELSE Yes(<<Filter(simplified)>> \o Tail(p))

\* ConstantFoldingRule
ConstantFolding(p) ==
  LET constant == TryEvaluateConstant[p[1].predicate]
  IN  IF p[1].op = "Filter" /\ constant # "Unknown" THEN Folded(p, constant) ELSE No(p)

\* The rules of Planner::new, in their order.
OptimizerRules == <<"FilterPushdown", "ProjectionPushdown",
                    "PredicateSimplification", "ConstantFolding">>

Rewrite(name, p) ==
  CASE name = "FilterPushdown" -> FilterPushdown(p)
    [] name = "ProjectionPushdown" -> ProjectionPushdown(p)
    [] name = "PredicateSimplification" -> PredicateSimplification(p)
    [] OTHER -> ConstantFolding(p)

-----------------------------------------------------------------------------
(* Planner::plan                                                           *)

\* Only the first node is scanned; a relationship with bounds is extended
\* once and then expanded.
Hop(rel) ==
  LET extend == [op |-> "Extend", src |-> rel.src, dst |-> rel.dst]
  IN  IF rel.bounds = <<>> THEN <<extend>>
      ELSE <<[op |-> "PathExpand", path |-> rel.variable, bounds |-> rel.bounds], extend>>

\* The hops of the first n relationships, the last one at the root.
HopsTo[n \in 0 .. Len(graph.rels)] ==
  IF n = 0 THEN <<>> ELSE Hop(graph.rels[n]) \o HopsTo[n - 1]
PlanQueryGraph == HopsTo[Len(graph.rels)] \o <<NodeScan(graph.nodes[1])>>

\* The plan of the query graph with the clauses of a query above it.
PlanOf(q) ==
  (IF q.limit = <<>> THEN <<>> ELSE <<[op |-> "Limit", limit |-> q.limit]>>)
    \o (IF q.order_by = <<>> THEN <<>> ELSE <<[op |-> "Sort", order_by |-> q.order_by[1]]>>)
    \o (IF q.returns = <<>> THEN <<>> ELSE <<Project(q.returns)>>)
    \o (IF q.where = <<>> THEN <<>> ELSE <<Filter(q.where[1])>>)
    \o PlanQueryGraph

-----------------------------------------------------------------------------
(* The binder                                                              *)

Init ==
  /\ scope = <<>>
  /\ graph = [nodes |-> <<>>, rels |-> <<>>]
  /\ outcome = "none"
  /\ query = <<>>
  /\ plan = <<>> /\ rule = 1 /\ passes = 0 /\ applied = <<>>

Bind(v, what) == [x \in DOMAIN scope \cup {v} |-> IF x = v THEN what ELSE scope[x]]
\* The calls before were successful: an error ends the query.
Binding ==
  /\ plan = <<>> /\ outcome \in {"none", "Ok"}
  /\ UNCHANGED <<query, plan, rule, passes, applied>>
Fails(why) == outcome' = why /\ UNCHANGED <<scope, graph>>

\* bind_node, and add_node of its result
BindNode(v, label) ==
  /\ Binding /\ Len(graph.nodes) < MaxNodes
  /\ \/ v \in DOMAIN scope /\ Fails("DuplicateVariable")
     \/ v \notin DOMAIN scope /\ label \notin DOMAIN Schemas /\ Fails("UndefinedTable")
     \/ /\ v \notin DOMAIN scope /\ label \in DOMAIN Schemas
        /\ scope' = Bind(v, <<label>>)
        /\ graph' = [graph EXCEPT !.nodes = Append(@, v)]
        /\ outcome' = "Ok"

\* bind_relationship, and add_relationship of its result; the variable is
\* optional, and its ends may be any variables in scope
BindRelationship(v, type, src, dst, bounds) ==
  LET taken == \E x \in Range(v) : x \in DOMAIN scope
      ends == {src, dst} \subseteq DOMAIN scope
  IN  /\ Binding /\ Len(graph.rels) < MaxRels
      /\ \/ taken /\ Fails("DuplicateVariable")
         \/ ~taken /\ ~ends /\ Fails("UndefinedVariable")
         \/ ~taken /\ ends /\ type \notin RelTypes /\ Fails("UndefinedTable")
         \/ /\ ~taken /\ ends /\ type \in RelTypes
            /\ scope' = IF v = <<>> THEN scope ELSE Bind(v[1], <<>>)
            /\ graph' = [graph EXCEPT !.rels =
                           Append(@, [variable |-> v, src |-> src, dst |-> dst,
                                      bounds |-> bounds])]
            /\ outcome' = "Ok"

\* validate_variable and validate_property
ValidColumn(c) ==
  /\ c[1] \in DOMAIN scope
  /\ c[2] # "" => scope[c[1]] # <<>> /\ c[2] \in DOMAIN Schemas[scope[c[1]][1]]

\* A BoundQuery has at most one WHERE, and its parts are bound expressions.
IsBound(q) ==
  /\ q.where \in Seq(Expressions) /\ Len(q.where) <= 1
  /\ \A x \in Range(q.returns) : x[2] \in Expressions

\* Planner::plan; an empty graph is a PlanError
Plan(q) ==
  /\ IsBound(q)
  /\ outcome = "Ok" /\ graph.nodes # <<>>
  /\ \A c \in UNION {CollectColumns[e] : e \in Range(q.where)} : ValidColumn(c)
  /\ \A c \in RequiredColumns(q.returns) : ValidColumn(c)
  /\ query' = <<q>>
  /\ plan' = PlanOf(q)
  /\ UNCHANGED <<scope, graph, outcome, rule, passes, applied>>

\* One round of the loop of optimize_with_tracking.
ApplyRule ==
  LET t == Rewrite(OptimizerRules[rule], plan)
  IN  /\ plan # <<>> /\ rule <= Len(OptimizerRules)
      /\ plan' = t.plan
      /\ applied' = IF t.changed THEN Append(applied, OptimizerRules[rule]) ELSE applied
      /\ rule' = rule + 1
      /\ UNCHANGED <<scope, graph, outcome, query, passes>>

\* The optimised plan is given to the planner once more.
OptimizeAgain ==
  /\ rule > Len(OptimizerRules) /\ passes = 0
  /\ passes' = 1 /\ rule' = 1 /\ applied' = <<>>
  /\ UNCHANGED <<scope, graph, outcome, query, plan>>

Next ==
  \/ \E v \in Variables, l \in Labels : BindNode(v, l)
  \/ \E v \in {<<>>} \cup {<<x>> : x \in Variables}, type \in RelNames,
        src, dst \in Variables, b \in PathBounds : BindRelationship(v, type, src, dst, b)
  \/ plan = <<>> /\ \E q \in Clauses(graph) : Plan(q)
  \/ ApplyRule
  \/ OptimizeAgain

Spec == Init /\ [][Next]_vars

-----------------------------------------------------------------------------
(* Properties                                                              *)

\* The filters of a plan, those in its scan included.
Filters(p) ==
  UNION {CASE p[i].op = "Filter" -> {p[i].predicate}
           [] p[i].op = "NodeScan" -> Range(p[i].filters)
           [] OTHER -> {} : i \in DOMAIN p}

Selects(p, row) ==
  /\ \A i \in DOMAIN p : p[i].op # "Empty"
  /\ \A f \in Filters(p) : Evaluate(f, row) = Bool(TRUE)

\* Every content, null included, of some columns of the pattern's variables.
RowsOver(columns) ==
  {[c \in columns |-> [type |-> Schemas[scope[c[1]][1]][c[2]], val |-> content[c]]] :
     content \in [columns -> {<<>>, <<0>>, <<1>>}]}

\* The comparisons of a predicate that the optimizer may decide itself.
FoldedComparisons[e \in Expressions] ==
  IF e.kind = "comparison" /\ BothLiteral(e) THEN {e}
  ELSE IF e.kind = "logical" THEN UNION {FoldedComparisons[x] : x \in Parts(e)}
  ELSE {}

\* The total order and partial_cmp order two values alike: neither is NaN, and
\* they are not 0.0 and -0.0.
SameOrder(l, r) ==
  l.type \in FloatTypes /\ r.type = l.type =>
    ~IsNaN(l) /\ ~IsNaN(r) /\ (Number(l) = Number(r) => l = r)
OrdersAgree(e) ==
  \A c \in FoldedComparisons[e] : SameOrder(c.left.value, c.right.value)

\* The rewriting of predicates (simplify_predicate, the pushdown and folding
\* rules) does not change which rows a query selects: where the WHERE clause as
\* written is true of a row the optimised plan keeps the row, where it is false
\* the plan drops it.  (Where it is null or fails, the evaluator and the
\* constant folding disagree: NOT (1 = NULL) is null, and folds to true.  They
\* also disagree where their two orders of floats do: 0.0 = -0.0 is false to the
\* evaluator and true to the folding, NaN = NaN is true and false.)
DefiniteRowsKept ==
  \A q \in Range(query) : \A w \in Range(q.where) : \A row \in RowsOver(CollectColumns[w]) :
    LET v == Evaluate(w, row)
    IN  OrdersAgree(w) /\ v.type = "bool" /\ v.val # <<>> =>
          (Selects(plan, row) <=> v = Bool(TRUE))

\* The columns that an operator reads and its input does not have.
Unresolved(p) ==
  UNION {(CASE p[i].op = "Filter" -> CollectColumns[p[i].predicate]
            [] p[i].op = "Project" -> RequiredColumns(p[i].expressions)
            [] OTHER -> {}) \ OutputSchema(SubSeq(p, i + 1, Len(p))) :
           i \in 1 .. Len(p) - 1}

\* Pushing projections into the scan never takes away a column that a filter or
\* a projection above still reads, and the plan returns the columns it returned
\* before (output_schema), also when it is folded to Empty.
ColumnsKept ==
  \A q \in Range(query) :
    /\ Unresolved(plan) \subseteq Unresolved(PlanOf(q))
    /\ OutputSchema(plan) = OutputSchema(PlanOf(q))

\* One pass over the rules is enough: optimising an optimised plan changes
\* nothing, although every rule looks only at the root and runs once.
FixedPoint == [][ApplyRule /\ passes = 1 => plan' = plan]_vars

-----------------------------------------------------------------------------
(* What the documents say and the code does not do.                        *)

\* "Given a query with a predicate that is always false (e.g., WHERE 1 = 0),
\* when the plan is generated, then the optimizer produces an empty result
\* operator" (specs/005-query-engine/spec.md:22).
AlwaysFalseIsEmpty ==
  rule > Len(OptimizerRules) =>
    \A q \in Range(query) : \A w \in Range(q.where) :
      TryEvaluateConstant[w] = "False" => plan[Len(plan)].op = "Empty"
=============================================================================
