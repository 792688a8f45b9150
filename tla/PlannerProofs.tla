---------------------------- MODULE PlannerProofs ----------------------------
(***************************************************************************)
(* The three properties of Planner, for all schemas, patterns and          *)
(* expressions.                                                            *)
(*                                                                         *)
(* Recursion: what a recursive function of expressions is defined to be is *)
(* a CHOOSE for the provers, so it is shown to exist first                 *)
(* (RecursionExists), up to any depth of nesting.  What it computes is     *)
(* induction over expressions: of those for which a claim fails there is   *)
(* one that is no deeper than any other (Shallowest).                      *)
(*                                                                         *)
(* Predicates: constants are what the evaluator makes of them on a row     *)
(* where it returns true or false and the orders of floats agree on what   *)
(* the optimizer decides (ConstantSound).  Simplification keeps such       *)
(* values (SimplifySound), decides no other comparison (FoldedShrink),     *)
(* reads no new column (ColumnsShrink) and is idempotent (Idempotent).     *)
(*                                                                         *)
(* Plans: at most one rule changes the plan of a query, the one of its     *)
(* Turn, so a plan is either the one Planner::plan made or Optimised       *)
(* (PlannerInv).                                                           *)
(***************************************************************************)
EXTENDS Planner, WellFoundedInduction, TLAPS

-----------------------------------------------------------------------------
(* Induction on the depth of an expression                                 *)

\* A set of numbers has a least one.
LEMMA LeastNumber ==
  ASSUME NEW T \in SUBSET Nat, T # {}
  PROVE  \E m \in T : \A i \in Nat : i < m => i \notin T
<1>1. IsWellFoundedOn(OpToRel(<, Nat), Nat)
  BY NatLessThanWellFounded
<1>2. PICK m \in T : \A i \in T : ~(<<i, m>> \in OpToRel(<, Nat))
  BY <1>1, WFMin
<1> QED  BY <1>2 DEF OpToRel

\* A set of elements with depths has one that is no deeper than another.
LEMMA Shallowest ==
  ASSUME NEW S, NEW depth \in [S -> Nat], NEW T \in SUBSET S, T # {}
  PROVE  \E e \in T : \A x \in S : depth[x] < depth[e] => x \notin T
<1> DEFINE D == {depth[x] : x \in T}
<1>1. D \in SUBSET Nat /\ D # {}
  OBVIOUS
<1>2. PICK m \in D : \A i \in Nat : i < m => i \notin D
  <2> HIDE DEF D
  <2> QED  BY <1>1, LeastNumber
<1>3. PICK e \in T : m = depth[e]
  BY <1>2
<1>4. \A x \in S : x \in T => ~(depth[x] < depth[e])
  BY <1>1, <1>2, <1>3
<1> QED  BY <1>4

\* Two functions have the same values above a depth.
Agree(S, depth, f, g, n) == \A x \in S : depth[x] < n => f[x] = g[x]

\* G makes a function from S to D of another, and what it makes of an element
\* depends on the values of the elements of less depth only.
Contracts(S, D, depth, G) ==
  /\ G \in [[S -> D] -> [S -> D]]
  /\ \A f, g \in [S -> D], e \in S : Agree(S, depth, f, g, depth[e]) => G[f][e] = G[g][e]

\* A definition by recursion on the depth is met by a function.
LEMMA RecursionExists ==
  ASSUME NEW S, NEW D, D # {}, NEW depth \in [S -> Nat], NEW G, Contracts(S, D, depth, G)
  PROVE  \E f \in [S -> D] : G[f] = f
<1> DEFINE Upto(f, n) == \A x \in S : depth[x] < n => f[x] = G[f][x]
<1>1. /\ G \in [[S -> D] -> [S -> D]]
      /\ \A f, g \in [S -> D], e \in S :
           (\A x \in S : depth[x] < depth[e] => f[x] = g[x]) => G[f][e] = G[g][e]
  BY DEF Contracts, Agree
<1>2. \A n \in Nat : \E f \in [S -> D] : Upto(f, n)
  <2> DEFINE T == {n \in Nat : ~ \E f \in [S -> D] : Upto(f, n)}
  <2> SUFFICES ASSUME T # {}  PROVE FALSE
    OBVIOUS
  <2>1. PICK n \in T : \A m \in Nat : m < n => m \notin T
    <3>1. T \in SUBSET Nat
      OBVIOUS
    <3> HIDE DEF T
    <3> QED  BY <3>1, LeastNumber
  <2>2. PICK d : d \in D
    OBVIOUS
  <2>3. [x \in S |-> d] \in [S -> D] /\ Upto([x \in S |-> d], 0)
    BY <2>2
  <2>4. n - 1 \in Nat /\ n - 1 < n
    BY <2>1, <2>3
  <2>5. PICK f \in [S -> D] : Upto(f, n - 1)
    BY <2>1, <2>4
  <2>6. G[f] \in [S -> D]
    BY <1>1
  <2>7. ASSUME NEW x \in S, depth[x] < n  PROVE G[f][x] = G[G[f]][x]
    <3>1. \A y \in S : depth[y] < depth[x] => depth[y] < n - 1
      BY <2>7, <2>4
    <3>2. \A y \in S : depth[y] < depth[x] => f[y] = G[f][y]
      BY <3>1, <2>5
    <3> QED  BY <3>2, <2>6, <1>1
  <2> QED  BY <2>1, <2>6, <2>7
<1>3. ASSUME NEW n, NEW f \in [S -> D], NEW g \in [S -> D], Upto(f, n), Upto(g, n),
             NEW x \in S, depth[x] < n, n \in Nat
      PROVE  f[x] = g[x]
  <2> DEFINE T == {y \in S : depth[y] < n /\ f[y] # g[y]}
  <2> SUFFICES ASSUME T # {}  PROVE FALSE
    BY <1>3
  <2>1. PICK y \in T : \A z \in S : depth[z] < depth[y] => z \notin T
    <3>1. T \in SUBSET S
      OBVIOUS
    <3> HIDE DEF T
    <3> QED  BY <3>1, Shallowest
  <2>2. \A z \in S : depth[z] < depth[y] => f[z] = g[z]
    BY <2>1, <1>3
  <2>3. G[f][y] = G[g][y]
    BY <2>1, <2>2, <1>1
  <2> QED  BY <2>1, <2>3, <1>3
<1> DEFINE h(n) == CHOOSE f \in [S -> D] : Upto(f, n)
           F == [x \in S |-> h(depth[x] + 1)[x]]
<1>4. \A n \in Nat : h(n) \in [S -> D] /\ Upto(h(n), n)
  <2> HIDE DEF Upto
  <2> QED  BY <1>2
<1> HIDE DEF h
<1>5. F \in [S -> D]
  BY <1>4
<1>6. ASSUME NEW x \in S  PROVE G[F][x] = F[x]
  <2> DEFINE n == depth[x] + 1
  <2>1. n \in Nat /\ depth[x] < n
    OBVIOUS
  <2>2. \A y \in S : depth[y] < depth[x] => F[y] = h(n)[y]
    <3> SUFFICES ASSUME NEW y \in S, depth[y] < depth[x]  PROVE F[y] = h(n)[y]
      OBVIOUS
    <3>1. depth[y] + 1 \in Nat /\ depth[y] < depth[y] + 1
      OBVIOUS
    <3>2. Upto(h(n), depth[y] + 1)
      BY <2>1, <1>4
    <3>3. Upto(h(depth[y] + 1), depth[y] + 1) /\ h(n) \in [S -> D] /\ h(depth[y] + 1) \in [S -> D]
      BY <2>1, <3>1, <1>4
    <3>4. h(depth[y] + 1)[y] = h(n)[y]
      <4> HIDE DEF Upto, n
      <4> QED  BY <1>3, <3>1, <3>2, <3>3
    <3> QED  BY <3>4
  <2>3. G[F][x] = G[h(n)][x]
    <3> HIDE DEF F
    <3> QED  BY <2>1, <2>2, <1>1, <1>4, <1>5
  <2>4. G[h(n)][x] = h(n)[x]
    BY <2>1, <1>4
  <2> QED  BY <2>3, <2>4
<1>7. G[F] \in [S -> D]
  BY <1>1, <1>5
<1>8. G[F] = F
  <2> HIDE DEF F
  <2> QED  BY <1>5, <1>6, <1>7
<1> QED  BY <1>5, <1>8

-----------------------------------------------------------------------------
(* Expressions and their parts *)

\* The operands of AND, OR and NOT are expressions of less depth.
LEMMA LogicalFacts ==
  ASSUME NEW e \in Expressions, e.kind = "logical"
  PROVE  /\ e = Logical(e.op, e.operands) /\ e.op \in {"AND", "OR", "NOT"}
         /\ e.operands \in Seq(Expressions)
         /\ e.op = "NOT" => DOMAIN e.operands = {1}
         /\ \A i \in DOMAIN e.operands :
              /\ e.operands[i] \in Expressions /\ e.operands[i] \in Parts(e)
              /\ Depth[e.operands[i]] < Depth[e]
         /\ Parts(e) = {e.operands[i] : i \in DOMAIN e.operands}
<1>1. WellFormed(e) /\ \A x \in Parts(e) : x \in Expressions /\ Depth[x] < Depth[e]
  BY ExpressionsAssumption
<1>2. /\ e = Logical(e.op, e.operands) /\ e.op \in {"AND", "OR", "NOT"}
      /\ e.operands \in Seq(Expressions) /\ (e.op = "NOT" => Len(e.operands) = 1)
  BY <1>1 DEF WellFormed
<1>3. Parts(e) = {e.operands[i] : i \in DOMAIN e.operands}
  BY DEF Parts, Range
<1> QED  BY <1>1, <1>2, <1>3

\* The sides of a comparison are expressions of less depth.
LEMMA ComparisonFacts ==
  ASSUME NEW e \in Expressions, e.kind = "comparison"
  PROVE  /\ e = Comparison(e.left, e.op, e.right)
         /\ e.op \in {"=", "<>", "<", "<=", ">", ">="}
         /\ e.left \in Expressions /\ e.right \in Expressions
         /\ Depth[e.left] < Depth[e] /\ Depth[e.right] < Depth[e]
         /\ Parts(e) = {e.left, e.right}
<1>1. WellFormed(e) /\ \A x \in Parts(e) : x \in Expressions /\ Depth[x] < Depth[e]
  BY ExpressionsAssumption
<1>2. Parts(e) = {e.left, e.right}
  BY DEF Parts
<1> QED  BY <1>1, <1>2 DEF WellFormed

\* A literal has no parts, and a boolean literal is true or false.
LEMMA LiteralFacts ==
  ASSUME NEW e \in Expressions, e.kind = "literal"
  PROVE  /\ e = Literal(e.value) /\ Parts(e) = {}
         /\ e.value.type = "bool" => e.value \in {Bool(TRUE), Bool(FALSE)}
         /\ e.value.type \in FloatTypes => e.value.val[1] \in Int
BY ExpressionsAssumption DEF WellFormed, Parts

\* What IS NULL asks about is an expression of less depth.
LEMMA IsNullFacts ==
  ASSUME NEW e \in Expressions, e.kind = "is_null"
  PROVE  /\ e = IsNull(e.operand, e.negated) /\ e.negated \in BOOLEAN
         /\ e.operand \in Expressions /\ Depth[e.operand] < Depth[e]
         /\ Parts(e) = {e.operand}
<1>1. WellFormed(e) /\ \A x \in Parts(e) : x \in Expressions /\ Depth[x] < Depth[e]
  BY ExpressionsAssumption
<1>2. Parts(e) = {e.operand}
  BY DEF Parts
<1> QED  BY <1>1, <1>2 DEF WellFormed

\* The kinds of expressions.
LEMMA Kinds ==
  ASSUME NEW e \in Expressions
  PROVE  /\ e.kind \in {"literal", "property", "comparison", "logical", "is_null"}
         /\ e.kind = "property" => e = Property(e.column) /\ Parts(e) = {}
BY ExpressionsAssumption DEF WellFormed, Parts

-----------------------------------------------------------------------------
(* TryEvaluateConstant *)

ConstantValues == {"True", "False", "Unknown"}

\* The body of TryEvaluateConstant.
ConstantBody(f, e) ==
  IF e.kind = "logical"
  THEN ConstantLogical(e.op, [i \in DOMAIN e.operands |-> f[e.operands[i]]])
  ELSE ConstantAtom(e)

\* TryEvaluateConstant returns one of three values.
LEMMA ConstantBodyValues == \A f, e : ConstantBody(f, e) \in ConstantValues
<1>1. \A b : Constant(b) \in ConstantValues
  BY DEF Constant, ConstantValues
<1>2. \A op, cs : ConstantLogical(op, cs) \in ConstantValues
  BY <1>1 DEF ConstantLogical, ConstantValues
<1>3. \A e : ConstantAtom(e) \in ConstantValues
  BY <1>1 DEF ConstantAtom, ConstantValues
<1> QED  BY <1>2, <1>3 DEF ConstantBody

\* TryEvaluateConstant has the values it is written for.
LEMMA ConstantDefined ==
  /\ TryEvaluateConstant \in [Expressions -> ConstantValues]
  /\ \A e \in Expressions : TryEvaluateConstant[e] = ConstantBody(TryEvaluateConstant, e)
<1> DEFINE Rec(f) == [e \in Expressions |-> ConstantBody(f, e)]
           G == [f \in [Expressions -> ConstantValues] |-> Rec(f)]
<1>1. G \in [[Expressions -> ConstantValues] -> [Expressions -> ConstantValues]]
  BY ConstantBodyValues
<1>2. ASSUME NEW f \in [Expressions -> ConstantValues], NEW g \in [Expressions -> ConstantValues],
             NEW e \in Expressions, Agree(Expressions, Depth, f, g, Depth[e])
      PROVE  G[f][e] = G[g][e]
  <2>1. e.kind = "logical" =>
          [i \in DOMAIN e.operands |-> f[e.operands[i]]] = [i \in DOMAIN e.operands |-> g[e.operands[i]]]
    <3> SUFFICES ASSUME e.kind = "logical"
                 PROVE  \A i \in DOMAIN e.operands : f[e.operands[i]] = g[e.operands[i]]
      OBVIOUS
    <3> QED  BY <1>2, LogicalFacts DEF Agree
  <2>2. ConstantBody(f, e) = ConstantBody(g, e)
    BY <2>1 DEF ConstantBody
  <2> QED  BY <2>2
<1>3. Contracts(Expressions, ConstantValues, Depth, G)
  <2> HIDE DEF G
  <2> QED  BY <1>1, <1>2 DEF Contracts
<1>4. PICK f \in [Expressions -> ConstantValues] : G[f] = f
  <2>1. ConstantValues # {}
    BY DEF ConstantValues
  <2> HIDE DEF G
  <2> QED  BY <1>3, <2>1, RecursionExists, ExpressionsAssumption
<1>5. f = Rec(f)
  BY <1>4
<1>6. TryEvaluateConstant = CHOOSE g : g = Rec(g)
  BY DEF TryEvaluateConstant, ConstantBody
<1>7. TryEvaluateConstant = Rec(TryEvaluateConstant)
  <2> HIDE DEF Rec
  <2> QED  BY <1>5, <1>6
<1> DEFINE t == TryEvaluateConstant
<1>8. t = [e \in Expressions |-> ConstantBody(t, e)]
  BY <1>7
<1> HIDE DEF t
<1>9. t \in [Expressions -> ConstantValues] /\ \A e \in Expressions : t[e] = ConstantBody(t, e)
  BY <1>8, ConstantBodyValues
<1> QED  BY <1>9 DEF t

-----------------------------------------------------------------------------
(* CollectColumns *)

\* The body of CollectColumns.
ColumnsBody(f, e) ==
  IF e.kind = "property" THEN {e.column} ELSE UNION {f[x] : x \in Parts(e)}

\* CollectColumns has the values it is written for.
LEMMA ColumnsDefined ==
  \A e \in Expressions : CollectColumns[e] = ColumnsBody(CollectColumns, e)
<1> DEFINE D == SUBSET {e.column : e \in Expressions}
           Rec(f) == [e \in Expressions |-> ColumnsBody(f, e)]
           G == [f \in [Expressions -> D] |-> Rec(f)]
<1>1. G \in [[Expressions -> D] -> [Expressions -> D]]
  <2>1. ASSUME NEW f \in [Expressions -> D], NEW e \in Expressions  PROVE ColumnsBody(f, e) \in D
    <3>1. \A x \in Parts(e) : f[x] \in D
      BY ExpressionsAssumption
    <3> QED  BY <3>1 DEF ColumnsBody
  <2> HIDE DEF D
  <2> QED  BY <2>1
<1>2. ASSUME NEW f \in [Expressions -> D], NEW g \in [Expressions -> D],
             NEW e \in Expressions, Agree(Expressions, Depth, f, g, Depth[e])
      PROVE  G[f][e] = G[g][e]
  <2>1. \A x \in Parts(e) : f[x] = g[x]
    BY <1>2, ExpressionsAssumption DEF Agree
  <2>2. ColumnsBody(f, e) = ColumnsBody(g, e)
    BY <2>1 DEF ColumnsBody
  <2> HIDE DEF D
  <2> QED  BY <2>2
<1>3. Contracts(Expressions, D, Depth, G)
  <2> HIDE DEF G, D
  <2> QED  BY <1>1, <1>2 DEF Contracts
<1>4. PICK f \in [Expressions -> D] : G[f] = f
  <2>1. D # {}
    OBVIOUS
  <2> HIDE DEF G, D
  <2> QED  BY <1>3, <2>1, RecursionExists, ExpressionsAssumption
<1>5. f = Rec(f)
  <2> HIDE DEF D
  <2> QED  BY <1>4
<1>6. CollectColumns = CHOOSE g : g = Rec(g)
  BY DEF CollectColumns, ColumnsBody
<1>7. CollectColumns = Rec(CollectColumns)
  <2> HIDE DEF Rec
  <2> QED  BY <1>5, <1>6
<1> DEFINE c == CollectColumns
<1>8. c = [e \in Expressions |-> ColumnsBody(c, e)]
  BY <1>7
<1> HIDE DEF c
<1>9. \A e \in Expressions : c[e] = ColumnsBody(c, e)
  BY <1>8
<1> QED  BY <1>9 DEF c

-----------------------------------------------------------------------------
(* FoldedComparisons *)

\* The body of FoldedComparisons.
FoldedBody(f, e) ==
  IF e.kind = "comparison" /\ BothLiteral(e) THEN {e}
  ELSE IF e.kind = "logical" THEN UNION {f[x] : x \in Parts(e)} ELSE {}

\* FoldedComparisons has the values it is written for.
LEMMA FoldedDefined ==
  \A e \in Expressions : FoldedComparisons[e] = FoldedBody(FoldedComparisons, e)
<1> DEFINE D == SUBSET Expressions
           Rec(f) == [e \in Expressions |-> FoldedBody(f, e)]
           G == [f \in [Expressions -> D] |-> Rec(f)]
<1>1. G \in [[Expressions -> D] -> [Expressions -> D]]
  <2>1. ASSUME NEW f \in [Expressions -> D], NEW e \in Expressions  PROVE FoldedBody(f, e) \in D
    <3>1. \A x \in Parts(e) : f[x] \in D
      BY ExpressionsAssumption
    <3> QED  BY <3>1 DEF FoldedBody
  <2> HIDE DEF D
  <2> QED  BY <2>1
<1>2. ASSUME NEW f \in [Expressions -> D], NEW g \in [Expressions -> D],
             NEW e \in Expressions, Agree(Expressions, Depth, f, g, Depth[e])
      PROVE  G[f][e] = G[g][e]
  <2>1. \A x \in Parts(e) : f[x] = g[x]
    BY <1>2, ExpressionsAssumption DEF Agree
  <2>2. FoldedBody(f, e) = FoldedBody(g, e)
    BY <2>1 DEF FoldedBody
  <2> HIDE DEF D
  <2> QED  BY <2>2
<1>3. Contracts(Expressions, D, Depth, G)
  <2> HIDE DEF G, D
  <2> QED  BY <1>1, <1>2 DEF Contracts
<1>4. PICK f \in [Expressions -> D] : G[f] = f
  <2>1. D # {}
    OBVIOUS
  <2> HIDE DEF G, D
  <2> QED  BY <1>3, <2>1, RecursionExists, ExpressionsAssumption
<1>5. f = Rec(f)
  <2> HIDE DEF D
  <2> QED  BY <1>4
<1>6. FoldedComparisons = CHOOSE g : g = Rec(g)
  BY DEF FoldedComparisons, FoldedBody
<1>7. FoldedComparisons = Rec(FoldedComparisons)
  <2> HIDE DEF Rec
  <2> QED  BY <1>5, <1>6
<1> DEFINE c == FoldedComparisons
<1>8. c = [e \in Expressions |-> FoldedBody(c, e)]
  BY <1>7
<1> HIDE DEF c
<1>9. \A e \in Expressions : c[e] = FoldedBody(c, e)
  BY <1>8
<1> QED  BY <1>9 DEF c

-----------------------------------------------------------------------------
(* Undecided *)

\* The operands up to the n-th that are no constant, in their order.
Undecides(u, es) ==
  /\ u[0] = <<>>
  /\ \A n \in 1 .. Len(es) :
       /\ u[n - 1] \in Seq(Expressions)
       /\ u[n] = IF TryEvaluateConstant[es[n]] = "Unknown" THEN Append(u[n - 1], es[n])
                 ELSE u[n - 1]

\* Undecided has the values it is written for.
LEMMA UndecidedDefined ==
  ASSUME NEW es \in Seq(Expressions)
  PROVE  \E u : Undecides(u, es) /\ Undecided(es) = u[Len(es)]
<1> DEFINE len == Len(es)
           S == 0 .. len
           Value(f, n) == IF n = 0 THEN <<>>
                          ELSE IF TryEvaluateConstant[es[n]] = "Unknown"
                               THEN Append(f[n - 1], es[n]) ELSE f[n - 1]
           Rec(f) == [n \in S |-> Value(f, n)]
           G == [f \in [S -> Seq(Expressions)] |-> Rec(f)]
           depth == [n \in S |-> n]
<1>1. /\ len \in Nat /\ \A n \in 1 .. len : n - 1 \in S /\ n \in S /\ es[n] \in Expressions
      /\ \A n \in S : n = 0 \/ n \in 1 .. len
  OBVIOUS
<1>2. G \in [[S -> Seq(Expressions)] -> [S -> Seq(Expressions)]]
  <2>1. ASSUME NEW f \in [S -> Seq(Expressions)], NEW n \in S  PROVE Value(f, n) \in Seq(Expressions)
    <3>1. CASE n = 0
      BY <3>1
    <3>2. CASE n \in 1 .. len
      <4>1. f[n - 1] \in Seq(Expressions) /\ es[n] \in Expressions /\ n # 0
        BY <1>1, <3>2
      <4> QED  BY <4>1
    <3> QED  BY <1>1, <3>1, <3>2
  <2> HIDE DEF S, Value
  <2> QED  BY <2>1
<1>3. ASSUME NEW f \in [S -> Seq(Expressions)], NEW g \in [S -> Seq(Expressions)],
             NEW n \in S, Agree(S, depth, f, g, depth[n])
      PROVE  G[f][n] = G[g][n]
  <2>1. n # 0 => f[n - 1] = g[n - 1]
    BY <1>1, <1>3 DEF Agree
  <2>2. Value(f, n) = Value(g, n)
    BY <2>1
  <2> HIDE DEF S, Value
  <2> QED  BY <2>2
<1>4. depth \in [S -> Nat]
  OBVIOUS
<1>5. Contracts(S, Seq(Expressions), depth, G)
  <2> HIDE DEF G, S, depth
  <2> QED  BY <1>2, <1>3 DEF Contracts
<1>6. PICK f \in [S -> Seq(Expressions)] : G[f] = f
  <2>1. Seq(Expressions) # {}
    <3>1. <<>> \in Seq(Expressions)
      OBVIOUS
    <3> QED  BY <3>1
  <2> HIDE DEF G, S, depth
  <2> QED  BY <1>4, <1>5, <2>1, RecursionExists
<1>7. f = Rec(f)
  <2> HIDE DEF S, Value
  <2> QED  BY <1>6
<1> DEFINE u == CHOOSE g : g = Rec(g)
<1>8. Undecided(es) = u[len]
  BY DEF Undecided
<1>9. u = Rec(u)
  <2> HIDE DEF Rec
  <2> QED  BY <1>7
<1> HIDE DEF u
<1>10. \A n \in S : u[n] = Value(u, n)
  <2> HIDE DEF Value, S
  <2> QED  BY <1>9
<1>11. u[0] = <<>> /\ \A n \in 1 .. len : u[n] = Value(u, n)
  BY <1>1, <1>10
<1>12. \A n \in S : u[n] \in Seq(Expressions)
  <2> DEFINE T == {n \in S : u[n] \notin Seq(Expressions)}
  <2> SUFFICES ASSUME T # {}  PROVE FALSE
    OBVIOUS
  <2>1. PICK n \in T : \A i \in Nat : i < n => i \notin T
    <3>1. T \in SUBSET Nat
      OBVIOUS
    <3> HIDE DEF T
    <3> QED  BY <3>1, LeastNumber
  <2>2. n \in 1 .. len
    <3>1. <<>> \in Seq(Expressions)
      OBVIOUS
    <3> QED  BY <2>1, <3>1, <1>1, <1>11
  <2>3. u[n - 1] \in Seq(Expressions) /\ es[n] \in Expressions /\ n # 0
    BY <1>1, <2>1, <2>2
  <2>4. Append(u[n - 1], es[n]) \in Seq(Expressions)
    BY <2>3
  <2>5. u[n] = Value(u, n)
    BY <1>11, <2>2
  <2>6. u[n] \in Seq(Expressions)
    BY <2>3, <2>4, <2>5
  <2> QED  BY <2>1, <2>6
<1>13. Undecides(u, es)
  BY <1>1, <1>11, <1>12 DEF Undecides
<1> QED  BY <1>8, <1>13

Unknown(e) == TryEvaluateConstant[e] = "Unknown"

\* Undecided returns the operands that are no constant, and nothing else; when
\* none is a constant, it returns all of them as they are.
LEMMA UndecidedFacts ==
  ASSUME NEW es \in Seq(Expressions)
  PROVE  /\ Undecided(es) \in Seq(Expressions)
         /\ \A k \in DOMAIN Undecided(es) :
              /\ Unknown(Undecided(es)[k])
              /\ \E i \in DOMAIN es : Undecided(es)[k] = es[i]
         /\ \A i \in DOMAIN es :
              Unknown(es[i]) => \E k \in DOMAIN Undecided(es) : Undecided(es)[k] = es[i]
         /\ (\A i \in DOMAIN es : Unknown(es[i])) => Undecided(es) = es
<1>1. PICK u : Undecides(u, es) /\ Undecided(es) = u[Len(es)]
  BY UndecidedDefined
<1> DEFINE len == Len(es)
           Right(n) ==
             /\ u[n] \in Seq(Expressions)
             /\ \A k \in 1 .. Len(u[n]) :
                  Unknown(u[n][k]) /\ \E i \in 1 .. n : u[n][k] = es[i]
             /\ \A i \in 1 .. n : Unknown(es[i]) => \E k \in 1 .. Len(u[n]) : u[n][k] = es[i]
             /\ (\A i \in 1 .. n : Unknown(es[i])) =>
                  Len(u[n]) = n /\ \A i \in 1 .. n : u[n][i] = es[i]
<1>2. len \in Nat /\ DOMAIN es = 1 .. len /\ \A n \in 1 .. len : es[n] \in Expressions
  OBVIOUS
<1>3. Right(0)
  <2>1. u[0] = <<>> /\ <<>> \in Seq(Expressions)
    BY <1>1 DEF Undecides
  <2> QED  BY <2>1
<1>4. ASSUME NEW n \in 1 .. len, Right(n - 1)  PROVE Right(n)
  <2>1. n \in Nat /\ n # 0 /\ n - 1 \in Nat /\ 1 .. n = (1 .. n - 1) \cup {n}
    BY <1>2
  <2>2. CASE Unknown(es[n])
    <3>1. u[n] = Append(u[n - 1], es[n])
      BY <1>1, <2>2 DEF Undecides, Unknown
    <3> DEFINE old == u[n - 1]
               m == Len(old)
    <3>2. old \in Seq(Expressions) /\ m \in Nat
      BY <1>4
    <3>3. /\ u[n] \in Seq(Expressions) /\ Len(u[n]) = m + 1 /\ u[n][m + 1] = es[n]
          /\ \A k \in 1 .. m : u[n][k] = old[k]
          /\ 1 .. Len(u[n]) = (1 .. m) \cup {m + 1}
      BY <1>2, <3>1, <3>2
    <3>4. \A k \in 1 .. m : Unknown(old[k]) /\ \E i \in 1 .. n - 1 : old[k] = es[i]
      BY <1>4
    <3>5. \A i \in 1 .. n - 1 : Unknown(es[i]) => \E k \in 1 .. m : old[k] = es[i]
      BY <1>4
    <3>6. (\A i \in 1 .. n - 1 : Unknown(es[i])) => m = n - 1 /\ \A i \in 1 .. n - 1 : old[i] = es[i]
      BY <1>4
    <3> HIDE DEF old, m
    <3>7. \A k \in 1 .. Len(u[n]) : Unknown(u[n][k]) /\ \E i \in 1 .. n : u[n][k] = es[i]
      BY <2>1, <2>2, <3>3, <3>4
    <3>8. \A i \in 1 .. n : Unknown(es[i]) => \E k \in 1 .. Len(u[n]) : u[n][k] = es[i]
      <4> SUFFICES ASSUME NEW i \in 1 .. n, Unknown(es[i])
                   PROVE  \E k \in 1 .. Len(u[n]) : u[n][k] = es[i]
        OBVIOUS
      <4>1. CASE i = n
        BY <3>3, <4>1
      <4>2. CASE i \in 1 .. n - 1
        <5>1. PICK k \in 1 .. m : old[k] = es[i]
          BY <3>5, <4>2
        <5> QED  BY <3>3, <5>1
      <4> QED  BY <2>1, <4>1, <4>2
    <3>9. (\A i \in 1 .. n : Unknown(es[i])) => Len(u[n]) = n /\ \A i \in 1 .. n : u[n][i] = es[i]
      <4> SUFFICES ASSUME \A i \in 1 .. n : Unknown(es[i])
                   PROVE  Len(u[n]) = n /\ \A i \in 1 .. n : u[n][i] = es[i]
        OBVIOUS
      <4>1. m = n - 1 /\ \A i \in 1 .. n - 1 : old[i] = es[i]
        BY <2>1, <3>6
      <4>2. m + 1 = n
        BY <2>1, <4>1
      <4>3. \A i \in 1 .. n - 1 : u[n][i] = es[i]
        BY <3>3, <4>1
      <4> QED  BY <2>1, <3>3, <4>2, <4>3
    <3> QED  BY <3>3, <3>7, <3>8, <3>9
  <2>3. CASE ~Unknown(es[n])
    <3>1. u[n] = u[n - 1]
      BY <1>1, <2>3 DEF Undecides, Unknown
    <3> QED  BY <1>4, <2>1, <2>3, <3>1
  <2> QED  BY <2>2, <2>3
<1>5. \A n \in 0 .. len : Right(n)
  <2> DEFINE T == {n \in 0 .. len : ~Right(n)}
  <2> SUFFICES ASSUME T # {}  PROVE FALSE
    OBVIOUS
  <2>1. PICK n \in T : \A i \in Nat : i < n => i \notin T
    <3>1. T \in SUBSET Nat
      OBVIOUS
    <3> HIDE DEF T
    <3> QED  BY <3>1, LeastNumber
  <2> HIDE DEF Right
  <2>2. n \in 0 .. len /\ ~Right(n) /\ n # 0
    BY <1>3, <2>1
  <2>3. n \in 1 .. len /\ n - 1 \in 0 .. len /\ n - 1 < n /\ n - 1 \in Nat
    BY <1>2, <2>2
  <2>4. Right(n - 1)
    BY <2>1, <2>3
  <2> QED  BY <1>4, <2>2, <2>3, <2>4
<1>6. Right(len)
  <2>1. len \in 0 .. len
    BY <1>2
  <2> HIDE DEF Right
  <2> QED  BY <1>5, <2>1
<1>7. u[len] = Undecided(es)
  BY <1>1
<1> DEFINE v == Undecided(es)
<1>8. /\ v \in Seq(Expressions) /\ DOMAIN v = 1 .. Len(v)
      /\ \A k \in 1 .. Len(v) : Unknown(v[k]) /\ \E i \in 1 .. len : v[k] = es[i]
      /\ \A i \in 1 .. len : Unknown(es[i]) => \E k \in 1 .. Len(v) : v[k] = es[i]
      /\ (\A i \in 1 .. len : Unknown(es[i])) =>
              Len(v) = len /\ \A i \in 1 .. len : v[i] = es[i]
  BY <1>6, <1>7
<1> HIDE DEF v
<1>9. (\A i \in DOMAIN es : Unknown(es[i])) => v = es
  <2> SUFFICES ASSUME \A i \in DOMAIN es : Unknown(es[i])  PROVE v = es
    OBVIOUS
  <2>1. Len(v) = len /\ \A i \in 1 .. len : v[i] = es[i]
    BY <1>2, <1>8
  <2>2. v \in [1 .. len -> Expressions] /\ es \in [1 .. len -> Expressions]
    BY <1>2, <1>8, <2>1
  <2> HIDE DEF len
  <2> QED  BY <2>1, <2>2
<1> QED  BY <1>2, <1>8, <1>9 DEF v

-----------------------------------------------------------------------------
(* Evaluate *)

\* The body of Evaluate.
ValueBody(v, e, row) ==
  IF e.kind = "logical"
  THEN CombineArrays(e.op, [i \in DOMAIN e.operands |-> v[e.operands[i]]])
  ELSE IF e.kind = "comparison" THEN CompareArrays(v[e.left], e.op, v[e.right])
  ELSE IF e.kind = "is_null" THEN NullTest(v[e.operand], e.negated)
  ELSE AtomValue(e, row)

\* What an evaluation may return.
Values(row) ==
  {AtomValue(e, row) : e \in Expressions} \cup {Error, NullOf("bool"), Bool(TRUE), Bool(FALSE)}

\* There are two booleans.
LEMMA BoolValues == \A b : Bool(b) \in {Bool(TRUE), Bool(FALSE)}
BY DEF Bool

\* What the evaluator makes of other values.
LEMMA ResultValues ==
  /\ \A op, vs : CombineArrays(op, vs) \in {Error, NullOf("bool"), Bool(TRUE), Bool(FALSE)}
  /\ \A l, op, r : CompareArrays(l, op, r) \in {Error, NullOf("bool"), Bool(TRUE), Bool(FALSE)}
  /\ \A v, n : NullTest(v, n) \in {Error, NullOf("bool"), Bool(TRUE), Bool(FALSE)}
<1>1. \A op, vs : CombineArrays(op, vs) \in {Error, NullOf("bool"), Bool(TRUE), Bool(FALSE)}
  BY BoolValues DEF CombineArrays
<1>2. \A l, op, r : CompareArrays(l, op, r) \in {Error, NullOf("bool"), Bool(TRUE), Bool(FALSE)}
  BY BoolValues DEF CompareArrays
<1>3. \A v, n : NullTest(v, n) \in {Error, NullOf("bool"), Bool(TRUE), Bool(FALSE)}
  BY BoolValues DEF NullTest
<1> QED  BY <1>1, <1>2, <1>3

\* Evaluate has the values it is written for.
LEMMA EvaluateDefined ==
  ASSUME NEW row
  PROVE  \E v : /\ \A e \in Expressions : v[e] = ValueBody(v, e, row)
                /\ \A e \in Expressions : Evaluate(e, row) = v[e]
<1> DEFINE D == Values(row)
           Rec(f) == [e \in Expressions |-> ValueBody(f, e, row)]
           G == [f \in [Expressions -> D] |-> Rec(f)]
<1>1. G \in [[Expressions -> D] -> [Expressions -> D]]
  <2>1. ASSUME NEW f, NEW e \in Expressions  PROVE ValueBody(f, e, row) \in D
    BY ResultValues DEF ValueBody, Values
  <2> HIDE DEF D
  <2> QED  BY <2>1
<1>2. ASSUME NEW f \in [Expressions -> D], NEW g \in [Expressions -> D],
             NEW e \in Expressions, Agree(Expressions, Depth, f, g, Depth[e])
      PROVE  G[f][e] = G[g][e]
  <2>1. e.kind = "logical" =>
          [i \in DOMAIN e.operands |-> f[e.operands[i]]] = [i \in DOMAIN e.operands |-> g[e.operands[i]]]
    <3> SUFFICES ASSUME e.kind = "logical"
                 PROVE  \A i \in DOMAIN e.operands : f[e.operands[i]] = g[e.operands[i]]
      OBVIOUS
    <3> QED  BY <1>2, LogicalFacts DEF Agree
  <2>2. e.kind = "comparison" => f[e.left] = g[e.left] /\ f[e.right] = g[e.right]
    BY <1>2, ComparisonFacts DEF Agree
  <2>3. e.kind = "is_null" => f[e.operand] = g[e.operand]
    BY <1>2, IsNullFacts DEF Agree
  <2>4. ValueBody(f, e, row) = ValueBody(g, e, row)
    BY <2>1, <2>2, <2>3 DEF ValueBody
  <2> HIDE DEF D
  <2> QED  BY <2>4
<1>3. Contracts(Expressions, D, Depth, G)
  <2> HIDE DEF G, D
  <2> QED  BY <1>1, <1>2 DEF Contracts
<1>4. PICK f \in [Expressions -> D] : G[f] = f
  <2>1. D # {}
    BY DEF Values
  <2> HIDE DEF G, D
  <2> QED  BY <1>3, <2>1, RecursionExists, ExpressionsAssumption
<1>5. f = Rec(f)
  <2> HIDE DEF D
  <2> QED  BY <1>4
<1> DEFINE v == CHOOSE g : g = Rec(g)
<1>6. \A e \in Expressions : Evaluate(e, row) = v[e]
  BY DEF Evaluate, ValueBody
<1>7. v = Rec(v)
  <2> HIDE DEF Rec
  <2> QED  BY <1>5
<1> HIDE DEF v
<1>8. \A e \in Expressions : v[e] = ValueBody(v, e, row)
  BY <1>7
<1> QED  BY <1>6, <1>8

\* The value of AND, OR and NOT is made of the values of the operands.
LEMMA ValueOfLogical ==
  ASSUME NEW row, NEW e \in Expressions, e.kind = "logical"
  PROVE  Evaluate(e, row) =
           CombineArrays(e.op, [i \in DOMAIN e.operands |-> Evaluate(e.operands[i], row)])
<1>1. PICK v : /\ \A x \in Expressions : v[x] = ValueBody(v, x, row)
               /\ \A x \in Expressions : Evaluate(x, row) = v[x]
  BY EvaluateDefined
<1>2. [i \in DOMAIN e.operands |-> Evaluate(e.operands[i], row)]
        = [i \in DOMAIN e.operands |-> v[e.operands[i]]]
  BY <1>1, LogicalFacts
<1> QED  BY <1>1, <1>2 DEF ValueBody

\* The value of a comparison is made of the values of its sides.
LEMMA ValueOfComparison ==
  ASSUME NEW row, NEW e \in Expressions, e.kind = "comparison"
  PROVE  Evaluate(e, row) = CompareArrays(Evaluate(e.left, row), e.op, Evaluate(e.right, row))
<1>1. PICK v : /\ \A x \in Expressions : v[x] = ValueBody(v, x, row)
               /\ \A x \in Expressions : Evaluate(x, row) = v[x]
  BY EvaluateDefined
<1>2. v[e] = CompareArrays(v[e.left], e.op, v[e.right])
  BY <1>1 DEF ValueBody
<1> QED  BY <1>1, <1>2, ComparisonFacts

\* The value of IS NULL is made of the value of its operand.
LEMMA ValueOfIsNull ==
  ASSUME NEW row, NEW e \in Expressions, e.kind = "is_null"
  PROVE  Evaluate(e, row) = NullTest(Evaluate(e.operand, row), e.negated)
<1>1. PICK v : /\ \A x \in Expressions : v[x] = ValueBody(v, x, row)
               /\ \A x \in Expressions : Evaluate(x, row) = v[x]
  BY EvaluateDefined
<1>2. v[e] = NullTest(v[e.operand], e.negated)
  BY <1>1 DEF ValueBody
<1> QED  BY <1>1, <1>2, IsNullFacts

\* A literal or a property has the value that the row gives it.
LEMMA ValueOfAtom ==
  ASSUME NEW row, NEW e \in Expressions, e.kind \in {"literal", "property"}
  PROVE  Evaluate(e, row) = AtomValue(e, row)
BY EvaluateDefined DEF ValueBody

-----------------------------------------------------------------------------
(* SimplifyPredicate *)

\* The body of SimplifyPredicate.
SimplifyBody(f, e) ==
  IF e.kind = "logical"
  THEN SimplifyLogical(e.op, [i \in DOMAIN e.operands |-> f[e.operands[i]]])
  ELSE IF e.kind = "comparison" /\ BothLiteral(e)
  THEN Literal(Bool(EvaluateComparison(e.left.value, e.op, e.right.value)))
  ELSE e

\* SimplifyPredicate has the values it is written for.  What it returns is in no
\* set known before, so RecursionExists does not apply.
LEMMA SimplifyDefined ==
  \A e \in Expressions : SimplifyPredicate[e] = SimplifyBody(SimplifyPredicate, e)
<1> DEFINE Rec(f) == [e \in Expressions |-> SimplifyBody(f, e)]
           Upto(f, n) == \A x \in Expressions : Depth[x] < n => f[x] = SimplifyBody(f, x)
<1>1. ASSUME NEW f, NEW g, NEW e \in Expressions,
             \A x \in Expressions : Depth[x] < Depth[e] => f[x] = g[x]
      PROVE  SimplifyBody(f, e) = SimplifyBody(g, e)
  <2>1. e.kind = "logical" =>
          [i \in DOMAIN e.operands |-> f[e.operands[i]]] = [i \in DOMAIN e.operands |-> g[e.operands[i]]]
    <3> SUFFICES ASSUME e.kind = "logical"
                 PROVE  \A i \in DOMAIN e.operands : f[e.operands[i]] = g[e.operands[i]]
      OBVIOUS
    <3> QED  BY <1>1, LogicalFacts
  <2> QED  BY <2>1 DEF SimplifyBody
<1>2. Depth \in [Expressions -> Nat]
  BY ExpressionsAssumption
<1>3. \A n \in Nat : \E f : Upto(f, n)
  <2> DEFINE T == {n \in Nat : ~ \E f : Upto(f, n)}
  <2> SUFFICES ASSUME T # {}  PROVE FALSE
    OBVIOUS
  <2>1. PICK n \in T : \A m \in Nat : m < n => m \notin T
    <3>1. T \in SUBSET Nat
      OBVIOUS
    <3> HIDE DEF T
    <3> QED  BY <3>1, LeastNumber
  <2>2. Upto(<<>>, 0)
    BY <1>2
  <2>3. n \in Nat /\ n - 1 \in Nat /\ n - 1 < n
    BY <2>1, <2>2
  <2>4. PICK f : Upto(f, n - 1)
    BY <2>1, <2>3
  <2> DEFINE g == Rec(f)
  <2>5. \A x \in Expressions : g[x] = SimplifyBody(f, x)
    OBVIOUS
  <2> HIDE DEF g
  <2>6. ASSUME NEW x \in Expressions, Depth[x] < n  PROVE g[x] = SimplifyBody(g, x)
    <3>1. \A y \in Expressions : Depth[y] < Depth[x] => Depth[y] < n - 1
      BY <1>2, <2>3, <2>6
    <3>2. \A y \in Expressions : Depth[y] < Depth[x] => f[y] = g[y]
      BY <2>4, <2>5, <3>1
    <3>3. SimplifyBody(f, x) = SimplifyBody(g, x)
      BY <1>1, <3>2
    <3> QED  BY <2>5, <3>3
  <2> QED  BY <2>1, <2>6
<1>4. ASSUME NEW n \in Nat, NEW f, NEW g, Upto(f, n), Upto(g, n), NEW x \in Expressions, Depth[x] < n
      PROVE  f[x] = g[x]
  <2> DEFINE T == {y \in Expressions : Depth[y] < n /\ f[y] # g[y]}
  <2> SUFFICES ASSUME T # {}  PROVE FALSE
    BY <1>4
  <2>1. PICK y \in T : \A z \in Expressions : Depth[z] < Depth[y] => z \notin T
    <3>1. T \in SUBSET Expressions
      OBVIOUS
    <3> HIDE DEF T
    <3> QED  BY <1>2, <3>1, Shallowest
  <2>2. \A z \in Expressions : Depth[z] < Depth[y] => f[z] = g[z]
    BY <1>2, <1>4, <2>1
  <2>3. SimplifyBody(f, y) = SimplifyBody(g, y)
    BY <1>1, <2>1, <2>2
  <2> QED  BY <1>4, <2>1, <2>3
<1> DEFINE h(n) == CHOOSE f : Upto(f, n)
           F == [x \in Expressions |-> h(Depth[x] + 1)[x]]
<1>5. \A n \in Nat : Upto(h(n), n)
  <2> HIDE DEF Upto
  <2> QED  BY <1>3
<1> HIDE DEF h
<1>6. ASSUME NEW x \in Expressions  PROVE F[x] = SimplifyBody(F, x)
  <2> DEFINE n == Depth[x] + 1
  <2>1. n \in Nat /\ Depth[x] < n
    BY <1>2
  <2>2. ASSUME NEW y \in Expressions, Depth[y] < Depth[x]  PROVE F[y] = h(n)[y]
    <3> DEFINE m == Depth[y] + 1
    <3>1. m \in Nat /\ Depth[y] < m
      BY <1>2
    <3>2. Upto(h(n), m)
      BY <1>2, <1>5, <2>1, <2>2
    <3>3. Upto(h(m), m)
      BY <1>5, <3>1
    <3>4. h(m)[y] = h(n)[y]
      <4> HIDE DEF Upto, n, m
      <4> QED  BY <1>4, <3>1, <3>2, <3>3
    <3> QED  BY <3>4
  <2>3. SimplifyBody(F, x) = SimplifyBody(h(n), x)
    <3> HIDE DEF F, n
    <3> QED  BY <1>1, <2>2
  <2>4. h(n)[x] = SimplifyBody(h(n), x)
    BY <1>5, <2>1
  <2> QED  BY <2>3, <2>4
<1>7. F = Rec(F)
  <2>1. F = [x \in Expressions |-> F[x]]
    OBVIOUS
  <2> HIDE DEF F
  <2> QED  BY <1>6, <2>1
<1>8. SimplifyPredicate = CHOOSE g : g = Rec(g)
  BY DEF SimplifyPredicate, SimplifyBody
<1>9. SimplifyPredicate = Rec(SimplifyPredicate)
  <2> HIDE DEF Rec, F
  <2> QED  BY <1>7, <1>8
<1> DEFINE s == SimplifyPredicate
<1>10. s = [e \in Expressions |-> SimplifyBody(s, e)]
  BY <1>9
<1> HIDE DEF s
<1>11. \A e \in Expressions : s[e] = SimplifyBody(s, e)
  BY <1>10
<1> QED  BY <1>11 DEF s

-----------------------------------------------------------------------------
(* Definite values *)

Booleans == {Bool(TRUE), Bool(FALSE)}

\* A boolean that is not null.
Definite(v) == v.type = "bool" /\ v.val # <<>>

\* The definite values of a row are true and false.
CanonicalRow(row) == \A c \in DOMAIN row : Definite(row[c]) => row[c] \in Booleans

\* True and false are definite, a null and an error are not.
LEMMA BooleanFacts ==
  /\ Bool(TRUE) # Bool(FALSE)
  /\ \A v \in Booleans : Definite(v)
  /\ ~Definite(Error) /\ \A t : ~Definite(NullOf(t))
  /\ \A b : Bool(b) \in Booleans
<1>1. Bool(TRUE).val = <<1>> /\ Bool(FALSE).val = <<0>> /\ <<1>> # <<0>> /\ <<1>> # <<>> /\ <<0>> # <<>>
  BY DEF Bool
<1>2. Bool(TRUE).type = "bool" /\ Bool(FALSE).type = "bool"
  BY DEF Bool
<1> QED  BY <1>1, <1>2, BoolValues DEF Booleans, Definite, Error, NullOf

\* Definite booleans give a definite one, and a definite one comes of such.
LEMMA CombineFacts ==
  ASSUME NEW op \in {"AND", "OR", "NOT"}, NEW vs, op = "NOT" => DOMAIN vs = {1}
  PROVE  /\ Definite(CombineArrays(op, vs)) <=> \A i \in DOMAIN vs : Definite(vs[i])
         /\ (\A i \in DOMAIN vs : Definite(vs[i])) =>
              /\ op = "AND" => CombineArrays(op, vs) = Bool(\A i \in DOMAIN vs : vs[i] = Bool(TRUE))
              /\ op = "OR" => CombineArrays(op, vs) = Bool(\E i \in DOMAIN vs : vs[i] = Bool(TRUE))
              /\ op = "NOT" => CombineArrays(op, vs) = Bool(vs[1] = Bool(FALSE))
<1> DEFINE used == IF op = "NOT" THEN {vs[1]} ELSE Range(vs)
           result == CASE op = "AND" -> used \subseteq {Bool(TRUE)}
                       [] op = "OR" -> Bool(TRUE) \in used
                       [] OTHER -> vs[1] = Bool(FALSE)
<1>1. used = {vs[i] : i \in DOMAIN vs}
  BY DEF Range
<1>2. CombineArrays(op, vs) = IF \E v \in used : v.type # "bool" THEN Error
                              ELSE IF \E v \in used : v.val = <<>> THEN NullOf("bool")
                              ELSE Bool(result)
  BY DEF CombineArrays
<1> HIDE DEF used, result
<1>3. /\ op = "AND" => (result <=> used \subseteq {Bool(TRUE)})
      /\ op = "OR" => (result <=> Bool(TRUE) \in used)
      /\ op = "NOT" => (result <=> vs[1] = Bool(FALSE))
  BY DEF result
<1>4. Definite(Bool(result)) /\ ~Definite(Error) /\ ~Definite(NullOf("bool"))
  BY BooleanFacts
<1>5. (\A i \in DOMAIN vs : Definite(vs[i])) <=> \A v \in used : v.type = "bool" /\ v.val # <<>>
  BY <1>1 DEF Definite
<1>6. Definite(CombineArrays(op, vs)) <=> \A v \in used : v.type = "bool" /\ v.val # <<>>
  BY <1>2, <1>4
<1>7. ASSUME \A v \in used : v.type = "bool" /\ v.val # <<>>
      PROVE  CombineArrays(op, vs) = Bool(result)
  BY <1>2, <1>7
<1>8. /\ op = "AND" => (result <=> \A i \in DOMAIN vs : vs[i] = Bool(TRUE))
      /\ op = "OR" => (result <=> \E i \in DOMAIN vs : vs[i] = Bool(TRUE))
  BY <1>1, <1>3
<1>9. \A a, b : (a <=> b) => Bool(a) = Bool(b)
  BY DEF Bool
<1>10. /\ op = "AND" => Bool(result) = Bool(\A i \in DOMAIN vs : vs[i] = Bool(TRUE))
       /\ op = "OR" => Bool(result) = Bool(\E i \in DOMAIN vs : vs[i] = Bool(TRUE))
       /\ op = "NOT" => Bool(result) = Bool(vs[1] = Bool(FALSE))
  BY <1>3, <1>8 DEF Bool
<1> QED  BY <1>5, <1>6, <1>7, <1>10

\* What an expression evaluates to is true, false or not definite.
LEMMA DefiniteValue ==
  ASSUME NEW row, CanonicalRow(row), NEW e \in Expressions, Definite(Evaluate(e, row))
  PROVE  Evaluate(e, row) \in Booleans
<1> DEFINE v == Evaluate(e, row)
<1>values. v \in {Error, NullOf("bool"), Bool(TRUE), Bool(FALSE)} => v \in Booleans
  BY BooleanFacts DEF Booleans
<1>1. CASE e.kind = "logical"
  BY <1>1, <1>values, ValueOfLogical, ResultValues
<1>2. CASE e.kind = "comparison"
  <2>1. v = CompareArrays(Evaluate(e.left, row), e.op, Evaluate(e.right, row))
    BY <1>2, ValueOfComparison
  <2> HIDE DEF v
  <2>2. v \in {Error, NullOf("bool"), Bool(TRUE), Bool(FALSE)}
    BY <2>1, ResultValues
  <2> QED  BY <1>values, <2>2 DEF v
<1>3. CASE e.kind = "is_null"
  BY <1>3, <1>values, ValueOfIsNull, ResultValues
<1>4. CASE e.kind = "literal"
  <2>1. Evaluate(e, row) = LiteralArray(e.value)
    <3>1. AtomValue(e, row) = LiteralArray(e.value)
      BY <1>4 DEF AtomValue
    <3>2. Evaluate(e, row) = AtomValue(e, row)
      BY <1>4, ValueOfAtom
    <3> QED  BY <3>1, <3>2
  <2>2. LiteralArray(e.value) = e.value
    BY <2>1, BooleanFacts DEF LiteralArray
  <2> QED  BY <1>4, <2>1, <2>2, LiteralFacts DEF Definite, Booleans
<1>5. CASE e.kind = "property"
  BY <1>5, ValueOfAtom, BooleanFacts DEF AtomValue, CanonicalRow
<1> QED  BY <1>1, <1>2, <1>3, <1>4, <1>5, Kinds

\* What try_evaluate_constant says of a predicate is its value, where that is
\* definite: first for AND, OR and NOT.
LEMMA ConstantLogicalSound ==
  ASSUME NEW op \in {"AND", "OR", "NOT"}, NEW cs, NEW vs, DOMAIN cs = DOMAIN vs,
         op = "NOT" => DOMAIN vs = {1},
         \A i \in DOMAIN vs : cs[i] \in ConstantValues,
         \A i \in DOMAIN vs :
           Definite(vs[i]) /\ cs[i] # "Unknown" => vs[i] = Bool(cs[i] = "True"),
         Definite(CombineArrays(op, vs)), ConstantLogical(op, cs) # "Unknown"
  PROVE  CombineArrays(op, vs) = Bool(ConstantLogical(op, cs) = "True")
<1>1. \A i \in DOMAIN vs : Definite(vs[i])
  BY CombineFacts
<1>true. \A i \in DOMAIN vs : cs[i] = "True" => vs[i] = Bool(TRUE)
  <2> SUFFICES ASSUME NEW i \in DOMAIN vs, cs[i] = "True"  PROVE vs[i] = Bool(TRUE)
    OBVIOUS
  <2>1. vs[i] = Bool(cs[i] = "True")
    BY <1>1
  <2> QED  BY <2>1 DEF Bool
<1>false. \A i \in DOMAIN vs : cs[i] = "False" => vs[i] = Bool(FALSE)
  <2> SUFFICES ASSUME NEW i \in DOMAIN vs, cs[i] = "False"  PROVE vs[i] = Bool(FALSE)
    OBVIOUS
  <2>1. vs[i] = Bool(cs[i] = "True")
    BY <1>1
  <2> QED  BY <2>1 DEF Bool
<1>3. Range(cs) = {cs[i] : i \in DOMAIN vs}
  BY DEF Range
<1>4. Bool(TRUE) # Bool(FALSE)
  BY BooleanFacts
<1>5. CASE op = "AND"
  <2> DEFINE all == \A i \in DOMAIN vs : vs[i] = Bool(TRUE)
  <2>1. CombineArrays(op, vs) = Bool(all)
    BY <1>1, <1>5, CombineFacts
  <2>2. CASE "False" \in Range(cs)
    <3>1. ConstantLogical(op, cs) = "False"
      BY <1>5, <2>2 DEF ConstantLogical
    <3>2. PICK i \in DOMAIN vs : cs[i] = "False"
      BY <1>3, <2>2
    <3>3. vs[i] # Bool(TRUE)
      BY <1>true, <1>false, <1>4, <3>2
    <3>4. ~all
      BY <3>3
    <3> QED  BY <2>1, <3>1, <3>4 DEF Bool
  <2>3. CASE "False" \notin Range(cs)
    <3>1. ConstantLogical(op, cs) = "True" /\ Range(cs) \subseteq {"True"}
      BY <1>5, <2>3 DEF ConstantLogical
    <3>2. \A i \in DOMAIN vs : cs[i] = "True"
      BY <1>3, <3>1
    <3>3. all
      BY <1>true, <3>2
    <3> QED  BY <2>1, <3>1, <3>3 DEF Bool
  <2> QED  BY <2>2, <2>3
<1>6. CASE op = "OR"
  <2> DEFINE some == \E i \in DOMAIN vs : vs[i] = Bool(TRUE)
  <2>1. CombineArrays(op, vs) = Bool(some)
    BY <1>1, <1>6, CombineFacts
  <2>2. CASE "True" \in Range(cs)
    <3>1. ConstantLogical(op, cs) = "True"
      BY <1>6, <2>2 DEF ConstantLogical
    <3>2. PICK i \in DOMAIN vs : cs[i] = "True"
      BY <1>3, <2>2
    <3>3. some
      BY <1>true, <3>2
    <3> QED  BY <2>1, <3>1, <3>3 DEF Bool
  <2>3. CASE "True" \notin Range(cs)
    <3>1. ConstantLogical(op, cs) = "False" /\ Range(cs) \subseteq {"False"}
      BY <1>6, <2>3 DEF ConstantLogical
    <3>2. \A i \in DOMAIN vs : cs[i] = "False"
      BY <1>3, <3>1
    <3>3. ~some
      BY <1>true, <1>false, <1>4, <3>2
    <3> QED  BY <2>1, <3>1, <3>3 DEF Bool
  <2> QED  BY <2>2, <2>3
<1>7. CASE op = "NOT"
  <2>1. CombineArrays(op, vs) = Bool(vs[1] = Bool(FALSE)) /\ 1 \in DOMAIN vs
    BY <1>1, <1>7, CombineFacts
  <2>2. cs[1] # "Unknown" /\ ConstantLogical(op, cs) = Constant(cs[1] = "False")
    BY <1>7 DEF ConstantLogical
  <2>3. cs[1] = "True" \/ cs[1] = "False"
    BY <2>1, <2>2 DEF ConstantValues
  <2>4. CASE cs[1] = "True"
    BY <1>true, <1>false, <1>4, <2>1, <2>2, <2>4 DEF Constant, Bool
  <2>5. CASE cs[1] = "False"
    BY <1>true, <1>false, <1>4, <2>1, <2>2, <2>5 DEF Constant, Bool
  <2> QED  BY <2>3, <2>4, <2>5
<1> QED  BY <1>5, <1>6, <1>7

-----------------------------------------------------------------------------
(* The comparisons that the optimizer decides *)

\* What is left of AND, OR and NOT is a literal, an operand, or the same again
\* of some of the operands.
LEMMA SimplifyLogicalForm ==
  ASSUME NEW op \in {"AND", "OR", "NOT"}, NEW es \in Seq(Expressions),
         op = "NOT" => DOMAIN es = {1}
  PROVE  LET x == SimplifyLogical(op, es)
         IN  \/ \E b : x = Literal(Bool(b))
             \/ \E i \in DOMAIN es : x = es[i]
             \/ \E us \in Seq(Expressions) :
                  x = Logical(op, us) /\ \A n \in DOMAIN us : \E i \in DOMAIN es : us[n] = es[i]
<1> DEFINE x == SimplifyLogical(op, es)
           u == Undecided(es)
           again == \E us \in Seq(Expressions) :
             x = Logical(op, us) /\ \A n \in DOMAIN us : \E i \in DOMAIN es : us[n] = es[i]
<1>1. CASE op = "NOT" /\ x = Logical("NOT", <<es[1]>>)
  <2> DEFINE us == <<es[1]>>
  <2>1. 1 \in DOMAIN es /\ us \in Seq(Expressions) /\ DOMAIN us = {1} /\ us[1] = es[1]
    BY <1>1
  <2>2. x = Logical(op, us) /\ \A n \in DOMAIN us : \E i \in DOMAIN es : us[n] = es[i]
    BY <1>1, <2>1
  <2> HIDE DEF us, x
  <2>3. again
    BY <2>1, <2>2
  <2> QED  BY <2>3 DEF x
<1>2. CASE x = Rebuilt(op, u)
  <2>1. u \in Seq(Expressions) /\ \A n \in DOMAIN u : \E i \in DOMAIN es : u[n] = es[i]
    BY UndecidedFacts
  <2> HIDE DEF u
  <2>2. Len(u) \in Nat /\ DOMAIN u = 1 .. Len(u)
    BY <2>1
  <2>3. CASE Len(u) = 0
    BY <1>2, <2>3 DEF Rebuilt
  <2>4. CASE Len(u) = 1
    <3>1. x = u[1] /\ 1 \in DOMAIN u
      BY <1>2, <2>2, <2>4 DEF Rebuilt
    <3> QED  BY <2>1, <3>1
  <2>5. CASE Len(u) > 1
    <3>1. x = Logical(op, u)
      BY <1>2, <2>2, <2>5 DEF Rebuilt
    <3> HIDE DEF x
    <3>2. again
      BY <2>1, <3>1
    <3> QED  BY <3>2 DEF x
  <2> QED  BY <2>2, <2>3, <2>4, <2>5
<1>3. \/ \E b : x = Literal(Bool(b))
      \/ op = "NOT" /\ x = Logical("NOT", <<es[1]>>)
      \/ x = Rebuilt(op, u)
  BY DEF SimplifyLogical
<1> QED  BY <1>1, <1>2, <1>3

\* A literal has no comparison.
LEMMA FoldedOfLiteral ==
  ASSUME NEW v, Literal(v) \in Expressions
  PROVE  FoldedComparisons[Literal(v)] = {}
<1> DEFINE x == Literal(v)
<1>1. x \in Expressions /\ x.kind = "literal"
  BY DEF Literal
<1> HIDE DEF x
<1>2. Parts(x) = {}
  BY <1>1, LiteralFacts
<1>3. FoldedComparisons[x] = FoldedBody(FoldedComparisons, x)
  BY <1>1, FoldedDefined
<1> QED  BY <1>1, <1>2, <1>3 DEF FoldedBody, x

\* AND, OR and NOT have the comparisons of their operands.
LEMMA FoldedOfLogical ==
  ASSUME NEW op, NEW es, Logical(op, es) \in Expressions
  PROVE  FoldedComparisons[Logical(op, es)] = UNION {FoldedComparisons[es[i]] : i \in DOMAIN es}
<1> DEFINE x == Logical(op, es)
<1>1. x \in Expressions /\ x.kind = "logical" /\ x.operands = es
  BY DEF Logical
<1> HIDE DEF x
<1>2. Parts(x) = {es[i] : i \in DOMAIN es}
  BY <1>1, LogicalFacts
<1>3. FoldedComparisons[x] = FoldedBody(FoldedComparisons, x)
  BY <1>1, FoldedDefined
<1>4. FoldedComparisons[x] = UNION {FoldedComparisons[y] : y \in Parts(x)}
  BY <1>1, <1>3 DEF FoldedBody
<1> QED  BY <1>2, <1>4 DEF x

\* What is left of AND, OR and NOT has no other comparisons than the operands.
LEMMA SimplifyLogicalFolded ==
  ASSUME NEW op \in {"AND", "OR", "NOT"}, NEW es \in Seq(Expressions),
         op = "NOT" => DOMAIN es = {1}, SimplifyLogical(op, es) \in Expressions
  PROVE  FoldedComparisons[SimplifyLogical(op, es)] \subseteq UNION {FoldedComparisons[es[i]] : i \in DOMAIN es}
<1> DEFINE x == SimplifyLogical(op, es)
           all == UNION {FoldedComparisons[es[i]] : i \in DOMAIN es}
<1>1. x \in Expressions
  OBVIOUS
<1>2. \/ \E b : x = Literal(Bool(b))
      \/ \E i \in DOMAIN es : x = es[i]
      \/ \E us \in Seq(Expressions) :
           x = Logical(op, us) /\ \A n \in DOMAIN us : \E i \in DOMAIN es : us[n] = es[i]
  BY SimplifyLogicalForm
<1> HIDE DEF x
<1>3. CASE \E b : x = Literal(Bool(b))
  BY <1>1, <1>3, FoldedOfLiteral DEF x
<1>4. CASE \E i \in DOMAIN es : x = es[i]
  BY <1>4 DEF x
<1>5. ASSUME NEW us \in Seq(Expressions), x = Logical(op, us),
             \A n \in DOMAIN us : \E i \in DOMAIN es : us[n] = es[i]
      PROVE  FoldedComparisons[x] \subseteq all
  <2>1. FoldedComparisons[x] = UNION {FoldedComparisons[us[n]] : n \in DOMAIN us}
    BY <1>1, <1>5, FoldedOfLogical
  <2>2. \A n \in DOMAIN us : FoldedComparisons[us[n]] \subseteq all
    BY <1>5
  <2> HIDE DEF all
  <2> QED  BY <2>1, <2>2
<1> QED  BY <1>2, <1>3, <1>4, <1>5 DEF x

\* A simplified predicate has no comparison that the predicate did not have.
LEMMA FoldedShrink ==
  ASSUME NEW e \in Expressions
  PROVE  FoldedComparisons[SimplifyPredicate[e]] \subseteq FoldedComparisons[e]
<1> DEFINE Shrinks(x) == FoldedComparisons[SimplifyPredicate[x]] \subseteq FoldedComparisons[x]
           T == {x \in Expressions : ~Shrinks(x)}
<1> SUFFICES ASSUME T # {}  PROVE FALSE
  OBVIOUS
<1>1. PICK x \in T : \A y \in Expressions : Depth[y] < Depth[x] => y \notin T
  <2>1. T \in SUBSET Expressions
    OBVIOUS
  <2> HIDE DEF T
  <2> QED  BY <2>1, Shallowest, ExpressionsAssumption
<1>2. /\ x \in Expressions /\ ~(FoldedComparisons[SimplifyPredicate[x]] \subseteq FoldedComparisons[x])
      /\ \A y \in Expressions : Depth[y] < Depth[x] => Shrinks(y)
  BY <1>1
<1> HIDE DEF T
<1>3. SimplifyPredicate[x] = SimplifyBody(SimplifyPredicate, x) /\ SimplifyPredicate[x] \in Expressions
  BY <1>2, SimplifyDefined, SimplifiedAssumption
<1>4. CASE x.kind = "logical"
  <2> DEFINE es == [i \in DOMAIN x.operands |-> SimplifyPredicate[x.operands[i]]]
  <2>1. SimplifyPredicate[x] = SimplifyLogical(x.op, es)
    BY <1>3, <1>4 DEF SimplifyBody
  <2>2. /\ x.op \in {"AND", "OR", "NOT"} /\ (x.op = "NOT" => DOMAIN x.operands = {1})
        /\ x.operands \in Seq(Expressions) /\ x = Logical(x.op, x.operands)
        /\ \A i \in DOMAIN x.operands :
             x.operands[i] \in Expressions /\ Depth[x.operands[i]] < Depth[x]
    BY <1>2, <1>4, LogicalFacts
  <2>3. es \in Seq(Expressions)
    <3>1. \A i \in 1 .. Len(x.operands) : SimplifyPredicate[x.operands[i]] \in Expressions
      BY <2>2, SimplifiedAssumption
    <3>2. Len(x.operands) \in Nat /\ DOMAIN x.operands = 1 .. Len(x.operands)
      BY <2>2
    <3>3. es \in [1 .. Len(x.operands) -> Expressions]
      BY <3>1, <3>2
    <3> HIDE DEF es
    <3> QED  BY <3>2, <3>3
  <2>4. \A i \in DOMAIN x.operands : FoldedComparisons[es[i]] \subseteq FoldedComparisons[x.operands[i]]
    BY <1>2, <2>2
  <2>5. DOMAIN es = DOMAIN x.operands
    OBVIOUS
  <2>6. FoldedComparisons[x] = UNION {FoldedComparisons[x.operands[i]] : i \in DOMAIN x.operands}
    BY <1>2, <2>2, FoldedOfLogical
  <2> HIDE DEF es, Shrinks
  <2>7. FoldedComparisons[SimplifyLogical(x.op, es)] \subseteq UNION {FoldedComparisons[es[i]] : i \in DOMAIN es}
    BY <1>3, <2>1, <2>2, <2>3, <2>5, SimplifyLogicalFolded
  <2>8. UNION {FoldedComparisons[es[i]] : i \in DOMAIN es}
          \subseteq UNION {FoldedComparisons[x.operands[i]] : i \in DOMAIN x.operands}
    BY <2>4, <2>5
  <2> QED  BY <1>2, <2>1, <2>6, <2>7, <2>8
<1>5. CASE x.kind = "comparison" /\ BothLiteral(x)
  <2>1. SimplifyPredicate[x] = Literal(Bool(EvaluateComparison(x.left.value, x.op, x.right.value)))
    BY <1>3, <1>5 DEF SimplifyBody
  <2> QED  BY <1>2, <1>3, <2>1, FoldedOfLiteral
<1>6. CASE x.kind # "logical" /\ ~(x.kind = "comparison" /\ BothLiteral(x))
  BY <1>2, <1>3, <1>6 DEF SimplifyBody
<1> QED  BY <1>4, <1>5, <1>6

-----------------------------------------------------------------------------
(* Constants that the optimizer decides *)

\* Where the orders agree in AND, OR and NOT, they agree in each operand.
LEMMA OperandsAgree ==
  ASSUME NEW e \in Expressions, e.kind = "logical", OrdersAgree(e), NEW i \in DOMAIN e.operands
  PROVE  OrdersAgree(e.operands[i])
<1>1. e = Logical(e.op, e.operands)
  BY LogicalFacts
<1>2. FoldedComparisons[e] = UNION {FoldedComparisons[e.operands[k]] : k \in DOMAIN e.operands}
  BY <1>1, FoldedOfLogical
<1> QED  BY <1>2 DEF OrdersAgree

\* Where the orders of two values agree, they compare alike.
LEMMA SameComparison ==
  ASSUME NEW l, NEW r, NEW op \in {"=", "<>", "<", "<=", ">", ">="},
         l.type = r.type, SameOrder(l, r),
         l.type \in FloatTypes => l.val[1] \in Int /\ r.val[1] \in Int
  PROVE  /\ ~IsNaN(l) /\ ~IsNaN(r)
         /\ Holds(op, Number(l), Number(r)) <=> Holds(op, l.val[1], r.val[1])
<1>1. CASE l.type \notin FloatTypes
  BY <1>1 DEF IsNaN, Number
<1>2. CASE l.type \in FloatTypes
  <2> DEFINE a == l.val[1]
             b == r.val[1]
             m == Number(l)
             n == Number(r)
  <2>1. /\ ~IsNaN(l) /\ ~IsNaN(r) /\ (m = n => a = b)
        /\ a \in Int /\ b \in Int
    BY <1>2 DEF SameOrder
  <2>2. m = (IF a = -1 THEN 0 ELSE a) /\ n = (IF b = -1 THEN 0 ELSE b)
    BY <1>2 DEF Number
  <2> HIDE DEF a, b, m, n
  <2>3. (m = n <=> a = b) /\ (m < n <=> a < b) /\ m \in Int /\ n \in Int
    BY <2>1, <2>2
  <2>4. Holds(op, m, n) <=> Holds(op, a, b)
    BY <2>1, <2>3 DEF Holds
  <2> QED  BY <2>1, <2>4 DEF a, b, m, n
<1> QED  BY <1>1, <1>2

\* A comparison of two literals.
LEMMA LiteralComparison ==
  ASSUME NEW row, NEW e \in Expressions, e.kind = "comparison", BothLiteral(e),
         Definite(Evaluate(e, row)), OrdersAgree(e)
  PROVE  Evaluate(e, row) = Bool(EvaluateComparison(e.left.value, e.op, e.right.value))
<1> DEFINE l == e.left.value
           r == e.right.value
<1>1. /\ Evaluate(e.left, row) = LiteralArray(l) /\ Evaluate(e.right, row) = LiteralArray(r)
      /\ e.left \in Expressions /\ e.right \in Expressions
  <2>1. e.left \in Expressions /\ e.right \in Expressions
    BY ComparisonFacts
  <2>2. e.left.kind = "literal" /\ e.right.kind = "literal"
    BY DEF BothLiteral
  <2>3. Evaluate(e.left, row) = AtomValue(e.left, row) /\ Evaluate(e.right, row) = AtomValue(e.right, row)
    BY <2>1, <2>2, ValueOfAtom
  <2> QED  BY <2>1, <2>2, <2>3 DEF AtomValue
<1>2. Evaluate(e, row) = CompareArrays(LiteralArray(l), e.op, LiteralArray(r))
  BY <1>1, ValueOfComparison
<1> DEFINE a == LiteralArray(l)
           b == LiteralArray(r)
<1>3. ~Definite(Error) /\ ~Definite(NullOf("bool"))
  BY BooleanFacts
<1>4. /\ a.type = b.type /\ a.val # <<>> /\ b.val # <<>>
      /\ Evaluate(e, row) = Bool(Holds(e.op, a.val[1], b.val[1]))
  <2> DEFINE v == Evaluate(e, row)
             result == Bool(Holds(e.op, a.val[1], b.val[1]))
  <2>1. v = IF a.type # b.type \/ a.type \notin ComparedTypes THEN Error
            ELSE IF <<>> \in {a.val, b.val} THEN NullOf("bool") ELSE result
    BY <1>2 DEF CompareArrays
  <2>2. Definite(v)
    OBVIOUS
  <2> HIDE DEF a, b, v, result
  <2>3. a.type = b.type /\ <<>> \notin {a.val, b.val} /\ v = result
    BY <1>3, <2>1, <2>2
  <2> QED  BY <2>3 DEF v, result
<1>5. l # Null /\ r # Null /\ a = l /\ b = r
  <2>1. NullOf("int64").val = <<>>
    BY DEF NullOf
  <2> QED  BY <1>4, <2>1 DEF LiteralArray
<1>8. e.op \in {"=", "<>", "<", "<=", ">", ">="} /\ SameOrder(l, r)
  <2>1. e \in FoldedComparisons[e]
    BY FoldedDefined DEF FoldedBody
  <2> QED  BY <2>1, ComparisonFacts DEF OrdersAgree
<1>9. l.type \in FloatTypes /\ r.type = l.type => l.val[1] \in Int /\ r.val[1] \in Int
  BY <1>1, LiteralFacts DEF BothLiteral
<1> HIDE DEF l, r, a, b
<1>6. EvaluateComparison(l, e.op, r) <=> Holds(e.op, l.val[1], r.val[1])
  <2>1. l.type = r.type
    BY <1>4, <1>5
  <2>2. /\ ~IsNaN(l) /\ ~IsNaN(r)
        /\ Holds(e.op, Number(l), Number(r)) <=> Holds(e.op, l.val[1], r.val[1])
    BY <1>8, <1>9, <2>1, SameComparison
  <2> QED  BY <1>5, <2>1, <2>2 DEF EvaluateComparison
<1>7. Bool(EvaluateComparison(l, e.op, r)) = Bool(Holds(e.op, l.val[1], r.val[1]))
  BY <1>6 DEF Bool
<1> QED  BY <1>4, <1>5, <1>7 DEF l, r

\* The same of every predicate.
LEMMA ConstantSound ==
  ASSUME NEW row, NEW e \in Expressions,
         Definite(Evaluate(e, row)), TryEvaluateConstant[e] # "Unknown", OrdersAgree(e)
  PROVE  Evaluate(e, row) = Bool(TryEvaluateConstant[e] = "True")
<1> DEFINE Sound(x) == Definite(Evaluate(x, row)) /\ TryEvaluateConstant[x] # "Unknown"
                         /\ OrdersAgree(x) =>
                         Evaluate(x, row) = Bool(TryEvaluateConstant[x] = "True")
           T == {x \in Expressions : ~Sound(x)}
<1> SUFFICES ASSUME T # {}  PROVE FALSE
  OBVIOUS
<1>1. PICK x \in T : \A y \in Expressions : Depth[y] < Depth[x] => y \notin T
  <2>1. T \in SUBSET Expressions
    OBVIOUS
  <2> HIDE DEF T
  <2> QED  BY <2>1, Shallowest, ExpressionsAssumption
<1>2. /\ x \in Expressions /\ Definite(Evaluate(x, row)) /\ TryEvaluateConstant[x] # "Unknown"
      /\ OrdersAgree(x)
      /\ Evaluate(x, row) # Bool(TryEvaluateConstant[x] = "True")
      /\ \A y \in Expressions : Depth[y] < Depth[x] => Sound(y)
  BY <1>1
<1> HIDE DEF T
<1>3. TryEvaluateConstant[x] = ConstantBody(TryEvaluateConstant, x)
  BY <1>2, ConstantDefined
<1>4. CASE x.kind = "logical"
  <2> DEFINE cs == [i \in DOMAIN x.operands |-> TryEvaluateConstant[x.operands[i]]]
             vs == [i \in DOMAIN x.operands |-> Evaluate(x.operands[i], row)]
  <2>1. Evaluate(x, row) = CombineArrays(x.op, vs)
    BY <1>2, <1>4, ValueOfLogical
  <2>2. TryEvaluateConstant[x] = ConstantLogical(x.op, cs)
    BY <1>3, <1>4 DEF ConstantBody
  <2>3. /\ DOMAIN cs = DOMAIN vs /\ DOMAIN vs = DOMAIN x.operands
        /\ \A i \in DOMAIN vs : cs[i] \in ConstantValues
    BY <1>2, <1>4, LogicalFacts, ConstantDefined
  <2>4. ASSUME NEW i \in DOMAIN vs, Definite(vs[i]), cs[i] # "Unknown"
        PROVE  vs[i] = Bool(cs[i] = "True")
    <3>1. /\ x.operands[i] \in Expressions /\ Depth[x.operands[i]] < Depth[x]
          /\ OrdersAgree(x.operands[i])
      BY <1>2, <1>4, LogicalFacts, OperandsAgree
    <3>2. Sound(x.operands[i])
      BY <1>2, <3>1
    <3> QED  BY <2>4, <3>1, <3>2
  <2>5. x.op \in {"AND", "OR", "NOT"} /\ (x.op = "NOT" => DOMAIN vs = {1})
    BY <1>2, <1>4, LogicalFacts
  <2> HIDE DEF cs, vs, Sound
  <2>6. Definite(CombineArrays(x.op, vs)) /\ ConstantLogical(x.op, cs) # "Unknown"
    BY <1>2, <2>1, <2>2
  <2>7. CombineArrays(x.op, vs) = Bool(ConstantLogical(x.op, cs) = "True")
    BY <2>3, <2>4, <2>5, <2>6, ConstantLogicalSound
  <2> QED  BY <1>2, <2>1, <2>2, <2>7
<1> HIDE DEF Sound
<1>5. x.kind # "logical" => TryEvaluateConstant[x] = ConstantAtom(x)
  BY <1>3 DEF ConstantBody
<1>6. \A b : Constant(b) = "True" <=> b
  BY DEF Constant
<1>7. CASE x.kind = "literal"
  <2>1. x.value.type = "bool" /\ TryEvaluateConstant[x] = Constant(x.value = Bool(TRUE))
    BY <1>2, <1>5, <1>7 DEF ConstantAtom
  <2>2. Evaluate(x, row) = LiteralArray(x.value)
    <3>1. AtomValue(x, row) = LiteralArray(x.value)
      BY <1>7 DEF AtomValue
    <3>2. Evaluate(x, row) = AtomValue(x, row)
      BY <1>2, <1>7, ValueOfAtom
    <3> QED  BY <3>1, <3>2
  <2>3. x.value # Null
    BY <2>1 DEF Null, NullOf
  <2>4. Evaluate(x, row) = x.value /\ x.value \in {Bool(TRUE), Bool(FALSE)}
    BY <1>2, <1>7, <2>1, <2>2, <2>3, LiteralFacts DEF LiteralArray
  <2>5. (TryEvaluateConstant[x] = "True") <=> (x.value = Bool(TRUE))
    BY <1>6, <2>1
  <2>6. Bool(TRUE) # Bool(FALSE)
    BY BooleanFacts
  <2>7. Bool(TryEvaluateConstant[x] = "True") = IF x.value = Bool(TRUE) THEN Bool(TRUE) ELSE Bool(FALSE)
    BY <2>5 DEF Bool
  <2> QED  BY <1>2, <2>4, <2>6, <2>7
<1>8. CASE x.kind = "comparison"
  <2>1. /\ BothLiteral(x)
        /\ TryEvaluateConstant[x] = Constant(EvaluateComparison(x.left.value, x.op, x.right.value))
    BY <1>2, <1>5, <1>8 DEF ConstantAtom
  <2>2. Evaluate(x, row) = Bool(EvaluateComparison(x.left.value, x.op, x.right.value))
    BY <1>2, <1>8, <2>1, LiteralComparison
  <2> DEFINE b == EvaluateComparison(x.left.value, x.op, x.right.value)
  <2>3. (TryEvaluateConstant[x] = "True") <=> b
    BY <1>6, <2>1
  <2>4. Bool(TryEvaluateConstant[x] = "True") = Bool(b)
    BY <2>3 DEF Bool
  <2> QED  BY <1>2, <2>2, <2>4
<1>9. x.kind \notin {"logical", "literal", "comparison"} => FALSE
  BY <1>2, <1>5 DEF ConstantAtom
<1> QED  BY <1>4, <1>7, <1>8, <1>9

-----------------------------------------------------------------------------
(* Simplification keeps definite values *)

\* The value of a boolean literal.
LEMMA LiteralValue ==
  ASSUME NEW row, NEW b, Literal(Bool(b)) \in Expressions
  PROVE  Evaluate(Literal(Bool(b)), row) = Bool(b)
<1> DEFINE x == Literal(Bool(b))
<1>1. x.kind = "literal" /\ x.value = Bool(b)
  BY DEF Literal
<1>2. Bool(b) # Null
  BY DEF Bool, Null, NullOf
<1>3. AtomValue(x, row) = Bool(b)
  BY <1>1, <1>2 DEF AtomValue, LiteralArray
<1> HIDE DEF x
<1>4. Evaluate(x, row) = AtomValue(x, row)
  BY <1>1, ValueOfAtom DEF x
<1> QED  BY <1>3, <1>4 DEF x

\* What is left of an AND or an OR has the value of the operands that are left.
LEMMA RebuiltValue ==
  ASSUME NEW row, NEW op \in {"AND", "OR"}, NEW es \in Seq(Expressions),
         Rebuilt(op, es) \in Expressions,
         \A k \in DOMAIN es : Evaluate(es[k], row) \in Booleans
  PROVE  /\ op = "AND" => Evaluate(Rebuilt(op, es), row)
                            = Bool(\A k \in DOMAIN es : Evaluate(es[k], row) = Bool(TRUE))
         /\ op = "OR" => Evaluate(Rebuilt(op, es), row)
                            = Bool(\E k \in DOMAIN es : Evaluate(es[k], row) = Bool(TRUE))
<1> DEFINE v(k) == Evaluate(es[k], row)
           all == \A k \in DOMAIN es : v(k) = Bool(TRUE)
           some == \E k \in DOMAIN es : v(k) = Bool(TRUE)
<1>1. Len(es) \in Nat /\ DOMAIN es = 1 .. Len(es)
  OBVIOUS
<1>2. CASE Len(es) = 0
  <2>1. Rebuilt(op, es) = Literal(Bool(op = "AND"))
    BY <1>2 DEF Rebuilt
  <2>2. Evaluate(Rebuilt(op, es), row) = Bool(op = "AND")
    BY <2>1, LiteralValue
  <2>3. all /\ ~some
    BY <1>1, <1>2
  <2> QED  BY <2>2, <2>3 DEF Bool
<1>3. CASE Len(es) = 1
  <2>1. Rebuilt(op, es) = es[1] /\ DOMAIN es = {1}
    BY <1>1, <1>3 DEF Rebuilt
  <2>2. (all <=> v(1) = Bool(TRUE)) /\ (some <=> v(1) = Bool(TRUE))
    BY <2>1
  <2>3. v(1) = IF v(1) = Bool(TRUE) THEN Bool(TRUE) ELSE Bool(FALSE)
    BY <2>1 DEF Booleans
  <2>4. /\ Bool(all) = IF v(1) = Bool(TRUE) THEN Bool(TRUE) ELSE Bool(FALSE)
        /\ Bool(some) = IF v(1) = Bool(TRUE) THEN Bool(TRUE) ELSE Bool(FALSE)
    <3> HIDE DEF all, some, v
    <3> QED  BY <2>2 DEF Bool
  <2> QED  BY <2>1, <2>3, <2>4
<1>4. CASE Len(es) > 1
  <2> DEFINE x == Logical(op, es)
             vs == [k \in DOMAIN es |-> Evaluate(es[k], row)]
  <2>1. Rebuilt(op, es) = x
    BY <1>1, <1>4 DEF Rebuilt
  <2>2. x.kind = "logical" /\ x.op = op /\ x.operands = es
    BY DEF Logical
  <2>3. Evaluate(x, row) = CombineArrays(op, vs)
    <3> HIDE DEF x
    <3> QED  BY <2>1, <2>2, ValueOfLogical
  <2>4. \A k \in DOMAIN vs : Definite(vs[k]) /\ vs[k] = v(k)
    BY BooleanFacts
  <2>5. DOMAIN vs = DOMAIN es
    OBVIOUS
  <2> HIDE DEF x, vs
  <2>6. /\ op = "AND" => CombineArrays(op, vs) = Bool(\A k \in DOMAIN vs : vs[k] = Bool(TRUE))
        /\ op = "OR" => CombineArrays(op, vs) = Bool(\E k \in DOMAIN vs : vs[k] = Bool(TRUE))
    <3>1. op \in {"AND", "OR", "NOT"} /\ (op = "NOT" => DOMAIN vs = {1})
      OBVIOUS
    <3>2. \A k \in DOMAIN vs : Definite(vs[k])
      BY <2>4
    <3> QED  BY <3>1, <3>2, CombineFacts
  <2>7. /\ (\A k \in DOMAIN vs : vs[k] = Bool(TRUE)) <=> all
        /\ (\E k \in DOMAIN vs : vs[k] = Bool(TRUE)) <=> some
    BY <2>4, <2>5
  <2>8. /\ Bool(\A k \in DOMAIN vs : vs[k] = Bool(TRUE)) = Bool(all)
        /\ Bool(\E k \in DOMAIN vs : vs[k] = Bool(TRUE)) = Bool(some)
    <3> HIDE DEF all, some
    <3> QED  BY <2>7 DEF Bool
  <2> QED  BY <2>1, <2>3, <2>6, <2>8
<1>5. Len(es) = 0 \/ Len(es) = 1 \/ Len(es) > 1
  BY <1>1
<1> QED  BY <1>2, <1>3, <1>4, <1>5, Zenon

\* simplify_predicate on AND, OR and NOT, when it kept the values of the operands.
LEMMA SimplifyLogicalSound ==
  ASSUME NEW row, NEW op \in {"AND", "OR", "NOT"}, NEW es \in Seq(Expressions),
         op = "NOT" => DOMAIN es = {1}, SimplifyLogical(op, es) \in Expressions,
         \A i \in DOMAIN es : Evaluate(es[i], row) \in Booleans /\ OrdersAgree(es[i])
  PROVE  Evaluate(SimplifyLogical(op, es), row)
           = CombineArrays(op, [i \in DOMAIN es |-> Evaluate(es[i], row)])
<1> DEFINE vs == [i \in DOMAIN es |-> Evaluate(es[i], row)]
           u == Undecided(es)
           x == SimplifyLogical(op, es)
<1>1. DOMAIN vs = DOMAIN es /\ \A i \in DOMAIN es : vs[i] = Evaluate(es[i], row)
  OBVIOUS
<1>2. \A i \in DOMAIN es : vs[i] \in Booleans /\ Definite(vs[i])
  BY BooleanFacts
<1>3. ASSUME NEW i \in DOMAIN es, ~Unknown(es[i])
      PROVE  /\ vs[i] = Bool(TryEvaluateConstant[es[i]] = "True")
             /\ TryEvaluateConstant[es[i]] \in {"True", "False"}
  <2>1. es[i] \in Expressions
    OBVIOUS
  <2> QED  BY <1>2, <1>3, <2>1, ConstantSound, ConstantDefined DEF Unknown, ConstantValues
<1>4. Bool(TRUE) # Bool(FALSE)
  BY BooleanFacts
<1> HIDE DEF vs
<1>5. CASE op = "NOT"
  <2>1. CombineArrays(op, vs) = Bool(vs[1] = Bool(FALSE)) /\ 1 \in DOMAIN es
    BY <1>1, <1>2, <1>5, CombineFacts
  <2>2. CASE Unknown(es[1])
    <3>1. x = Logical("NOT", <<es[1]>>)
      BY <1>5, <2>2 DEF SimplifyLogical, Unknown
    <3>2. x.kind = "logical" /\ x.op = "NOT" /\ x.operands = <<es[1]>>
      BY <3>1 DEF Logical
    <3> DEFINE ws == [i \in DOMAIN x.operands |-> Evaluate(x.operands[i], row)]
    <3>3. ws[1] = vs[1] /\ DOMAIN ws = {1}
      BY <1>1, <2>1, <3>2
    <3>4. Evaluate(x, row) = CombineArrays("NOT", ws)
      <4> HIDE DEF x
      <4> QED  BY <3>2, ValueOfLogical DEF x
    <3> HIDE DEF ws, x
    <3>5. CombineArrays("NOT", ws) = Bool(ws[1] = Bool(FALSE))
      BY <1>2, <2>1, <3>3, CombineFacts
    <3> QED  BY <2>1, <3>3, <3>4, <3>5 DEF x, vs
  <2>3. CASE ~Unknown(es[1])
    <3>1. x = Literal(Bool(TryEvaluateConstant[es[1]] = "False"))
      BY <1>5, <2>3 DEF SimplifyLogical, Unknown
    <3>2. Evaluate(x, row) = Bool(TryEvaluateConstant[es[1]] = "False")
      BY <3>1, LiteralValue
    <3>3. /\ vs[1] = Bool(TryEvaluateConstant[es[1]] = "True")
          /\ TryEvaluateConstant[es[1]] \in {"True", "False"}
      BY <1>3, <2>1, <2>3
    <3>4. TryEvaluateConstant[es[1]] = "False" <=> vs[1] = Bool(FALSE)
      BY <1>4, <3>3 DEF Bool
    <3>5. Bool(TryEvaluateConstant[es[1]] = "False") = Bool(vs[1] = Bool(FALSE))
      BY <3>4 DEF Bool
    <3> QED  BY <2>1, <3>2, <3>5 DEF vs
  <2> QED  BY <2>2, <2>3
<1>6. CASE op = "AND"
  <2> DEFINE all == \A i \in DOMAIN es : vs[i] = Bool(TRUE)
  <2>1. CombineArrays(op, vs) = Bool(all)
    BY <1>1, <1>2, <1>6, CombineFacts
  <2>2. CASE \E i \in DOMAIN es : TryEvaluateConstant[es[i]] = "False"
    <3>1. x = Literal(Bool(FALSE))
      <4>1. "False" \in {TryEvaluateConstant[es[i]] : i \in DOMAIN es}
        BY <2>2
      <4>2. x = Literal(Bool("False" = "True"))
        BY <1>6, <4>1 DEF SimplifyLogical
      <4>3. Bool("False" = "True") = Bool(FALSE)
        BY DEF Bool
      <4> QED  BY <4>2, <4>3
    <3>2. Evaluate(x, row) = Bool(FALSE)
      BY <3>1, LiteralValue
    <3>3. ~all
      <4>1. PICK i \in DOMAIN es : TryEvaluateConstant[es[i]] = "False"
        BY <2>2
      <4>2. ~Unknown(es[i])
        BY <4>1 DEF Unknown
      <4>3. vs[i] = Bool(FALSE)
        BY <1>3, <4>1, <4>2 DEF Bool
      <4> QED  BY <1>4, <4>3
    <3> QED  BY <2>1, <3>2, <3>3 DEF Bool, vs
  <2>3. CASE \A i \in DOMAIN es : TryEvaluateConstant[es[i]] # "False"
    <3>1. x = Rebuilt("AND", u)
      <4>1. "False" \notin {TryEvaluateConstant[es[i]] : i \in DOMAIN es}
        BY <2>3
      <4> QED  BY <1>6, <4>1 DEF SimplifyLogical
    <3>2. /\ u \in Seq(Expressions)
          /\ \A k \in DOMAIN u : \E i \in DOMAIN es : u[k] = es[i]
          /\ \A i \in DOMAIN es : Unknown(es[i]) => \E k \in DOMAIN u : u[k] = es[i]
      BY UndecidedFacts
    <3> HIDE DEF u
    <3>3. \A k \in DOMAIN u : Evaluate(u[k], row) \in Booleans
      BY <1>1, <1>2, <3>2
    <3>4. Evaluate(x, row) = Bool(\A k \in DOMAIN u : Evaluate(u[k], row) = Bool(TRUE))
      BY <3>1, <3>2, <3>3, RebuiltValue
    <3>5. \A i \in DOMAIN es : ~Unknown(es[i]) => vs[i] = Bool(TRUE)
      <4> SUFFICES ASSUME NEW i \in DOMAIN es, ~Unknown(es[i])  PROVE vs[i] = Bool(TRUE)
        OBVIOUS
      <4>1. TryEvaluateConstant[es[i]] = "True"
        BY <1>3, <2>3
      <4> QED  BY <1>3, <4>1 DEF Bool
    <3>6. (\A k \in DOMAIN u : Evaluate(u[k], row) = Bool(TRUE)) <=> all
      <4>1. ASSUME \A k \in DOMAIN u : Evaluate(u[k], row) = Bool(TRUE), NEW i \in DOMAIN es
            PROVE  vs[i] = Bool(TRUE)
        <5>1. CASE Unknown(es[i])
          <6>1. PICK k \in DOMAIN u : u[k] = es[i]
            BY <3>2, <5>1
          <6> QED  BY <1>1, <4>1, <6>1
        <5> QED  BY <3>5, <5>1
      <4>2. ASSUME all, NEW k \in DOMAIN u  PROVE Evaluate(u[k], row) = Bool(TRUE)
        <5>1. PICK i \in DOMAIN es : u[k] = es[i]
          BY <3>2
        <5> QED  BY <1>1, <4>2, <5>1
      <4> QED  BY <4>1, <4>2
    <3> HIDE DEF all
    <3>7. Bool(\A k \in DOMAIN u : Evaluate(u[k], row) = Bool(TRUE)) = Bool(all)
      BY <3>6 DEF Bool
    <3> QED  BY <2>1, <3>4, <3>7 DEF vs
  <2> QED  BY <2>2, <2>3
<1>7. CASE op = "OR"
  <2> DEFINE some == \E i \in DOMAIN es : vs[i] = Bool(TRUE)
  <2>1. CombineArrays(op, vs) = Bool(some)
    BY <1>1, <1>2, <1>7, CombineFacts
  <2>2. CASE \E i \in DOMAIN es : TryEvaluateConstant[es[i]] = "True"
    <3>1. x = Literal(Bool(TRUE))
      <4>1. "True" \in {TryEvaluateConstant[es[i]] : i \in DOMAIN es}
        BY <2>2
      <4>2. x = Literal(Bool("True" = "True"))
        BY <1>7, <4>1 DEF SimplifyLogical
      <4>3. Bool("True" = "True") = Bool(TRUE)
        BY DEF Bool
      <4> QED  BY <4>2, <4>3
    <3>2. Evaluate(x, row) = Bool(TRUE)
      BY <3>1, LiteralValue
    <3>3. some
      <4>1. PICK i \in DOMAIN es : TryEvaluateConstant[es[i]] = "True"
        BY <2>2
      <4>2. ~Unknown(es[i])
        BY <4>1 DEF Unknown
      <4>3. vs[i] = Bool(TRUE)
        BY <1>3, <4>1, <4>2 DEF Bool
      <4> QED  BY <4>3
    <3> QED  BY <2>1, <3>2, <3>3 DEF Bool, vs
  <2>3. CASE \A i \in DOMAIN es : TryEvaluateConstant[es[i]] # "True"
    <3>1. x = Rebuilt("OR", u)
      <4>1. "True" \notin {TryEvaluateConstant[es[i]] : i \in DOMAIN es}
        BY <2>3
      <4> QED  BY <1>7, <4>1 DEF SimplifyLogical
    <3>2. /\ u \in Seq(Expressions)
          /\ \A k \in DOMAIN u : \E i \in DOMAIN es : u[k] = es[i]
          /\ \A i \in DOMAIN es : Unknown(es[i]) => \E k \in DOMAIN u : u[k] = es[i]
      BY UndecidedFacts
    <3> HIDE DEF u
    <3>3. \A k \in DOMAIN u : Evaluate(u[k], row) \in Booleans
      BY <1>1, <1>2, <3>2
    <3>4. Evaluate(x, row) = Bool(\E k \in DOMAIN u : Evaluate(u[k], row) = Bool(TRUE))
      BY <3>1, <3>2, <3>3, RebuiltValue
    <3>5. \A i \in DOMAIN es : ~Unknown(es[i]) => vs[i] # Bool(TRUE)
      <4> SUFFICES ASSUME NEW i \in DOMAIN es, ~Unknown(es[i])  PROVE vs[i] = Bool(FALSE)
        BY <1>4
      <4>1. TryEvaluateConstant[es[i]] = "False"
        BY <1>3, <2>3
      <4> QED  BY <1>3, <4>1 DEF Bool
    <3>6. (\E k \in DOMAIN u : Evaluate(u[k], row) = Bool(TRUE)) <=> some
      <4>1. ASSUME some  PROVE \E k \in DOMAIN u : Evaluate(u[k], row) = Bool(TRUE)
        <5>1. PICK i \in DOMAIN es : vs[i] = Bool(TRUE)
          BY <4>1
        <5>2. Unknown(es[i])
          BY <3>5, <5>1
        <5>3. PICK k \in DOMAIN u : u[k] = es[i]
          BY <3>2, <5>2
        <5> QED  BY <1>1, <5>1, <5>3
      <4>2. ASSUME NEW k \in DOMAIN u, Evaluate(u[k], row) = Bool(TRUE)  PROVE some
        <5>1. PICK i \in DOMAIN es : u[k] = es[i]
          BY <3>2
        <5> QED  BY <1>1, <4>2, <5>1
      <4> QED  BY <4>1, <4>2
    <3> HIDE DEF some
    <3>7. Bool(\E k \in DOMAIN u : Evaluate(u[k], row) = Bool(TRUE)) = Bool(some)
      BY <3>6 DEF Bool
    <3> QED  BY <2>1, <3>4, <3>7 DEF vs
  <2> QED  BY <2>2, <2>3
<1> QED  BY <1>5, <1>6, <1>7

\* simplify_predicate keeps the value of a predicate that is true or false.
LEMMA SimplifySound ==
  ASSUME NEW row, CanonicalRow(row), NEW e \in Expressions, Definite(Evaluate(e, row)),
         OrdersAgree(e)
  PROVE  Evaluate(SimplifyPredicate[e], row) = Evaluate(e, row)
<1> DEFINE Sound(x) == Definite(Evaluate(x, row)) /\ OrdersAgree(x) =>
                         Evaluate(SimplifyPredicate[x], row) = Evaluate(x, row)
           T == {x \in Expressions : ~Sound(x)}
<1> SUFFICES ASSUME T # {}  PROVE FALSE
  OBVIOUS
<1>1. PICK x \in T : \A y \in Expressions : Depth[y] < Depth[x] => y \notin T
  <2>1. T \in SUBSET Expressions
    OBVIOUS
  <2> HIDE DEF T
  <2> QED  BY <2>1, Shallowest, ExpressionsAssumption
<1>2. /\ x \in Expressions /\ Definite(Evaluate(x, row)) /\ OrdersAgree(x)
      /\ Evaluate(SimplifyPredicate[x], row) # Evaluate(x, row)
      /\ \A y \in Expressions : Depth[y] < Depth[x] => Sound(y)
  BY <1>1
<1> HIDE DEF T
<1>3. SimplifyPredicate[x] = SimplifyBody(SimplifyPredicate, x)
  BY <1>2, SimplifyDefined
<1>4. CASE x.kind = "logical"
  <2> DEFINE es == [i \in DOMAIN x.operands |-> SimplifyPredicate[x.operands[i]]]
             vs == [i \in DOMAIN x.operands |-> Evaluate(x.operands[i], row)]
             ws == [i \in DOMAIN es |-> Evaluate(es[i], row)]
  <2>1. Evaluate(x, row) = CombineArrays(x.op, vs)
    BY <1>2, <1>4, ValueOfLogical
  <2>2. SimplifyPredicate[x] = SimplifyLogical(x.op, es)
    BY <1>3, <1>4 DEF SimplifyBody
  <2>3. /\ x.op \in {"AND", "OR", "NOT"} /\ (x.op = "NOT" => DOMAIN es = {1})
        /\ x.operands \in Seq(Expressions)
        /\ \A i \in DOMAIN x.operands :
             x.operands[i] \in Expressions /\ Depth[x.operands[i]] < Depth[x]
    BY <1>2, <1>4, LogicalFacts
  <2>4. DOMAIN vs = DOMAIN x.operands /\ DOMAIN es = DOMAIN x.operands
    OBVIOUS
  <2>5. es \in Seq(Expressions)
    <3>1. \A i \in 1 .. Len(x.operands) : SimplifyPredicate[x.operands[i]] \in Expressions
      BY <2>3, SimplifiedAssumption
    <3>2. Len(x.operands) \in Nat /\ DOMAIN x.operands = 1 .. Len(x.operands)
      BY <2>3
    <3>3. es \in [1 .. Len(x.operands) -> Expressions]
      BY <3>1, <3>2
    <3> HIDE DEF es
    <3> QED  BY <3>2, <3>3
  <2>6. \A i \in DOMAIN x.operands : Definite(vs[i])
    <3> HIDE DEF vs, es
    <3> QED  BY <1>2, <2>1, <2>3, <2>4, CombineFacts
  <2>7. ASSUME NEW i \in DOMAIN x.operands
        PROVE  ws[i] = vs[i] /\ Evaluate(es[i], row) \in Booleans /\ OrdersAgree(es[i])
    <3>1. /\ Definite(Evaluate(x.operands[i], row)) /\ Sound(x.operands[i])
          /\ x.operands[i] \in Expressions /\ OrdersAgree(x.operands[i])
      BY <1>2, <1>4, <2>3, <2>6, OperandsAgree
    <3>2. Evaluate(x.operands[i], row) \in Booleans
      BY <3>1, DefiniteValue
    <3>3. OrdersAgree(es[i])
      BY <3>1, FoldedShrink DEF OrdersAgree
    <3> QED  BY <3>1, <3>2, <3>3
  <2>8. ws = vs
    BY <2>7
  <2>9. SimplifyLogical(x.op, es) \in Expressions
    BY <1>2, <2>2, SimplifiedAssumption
  <2> HIDE DEF es, vs, Sound
  <2>10. Evaluate(SimplifyLogical(x.op, es), row) = CombineArrays(x.op, ws)
    BY <2>3, <2>4, <2>5, <2>7, <2>9, SimplifyLogicalSound
  <2> QED  BY <1>2, <2>1, <2>2, <2>8, <2>10
<1> HIDE DEF Sound
<1>5. CASE x.kind = "comparison" /\ BothLiteral(x)
  <2> DEFINE b == EvaluateComparison(x.left.value, x.op, x.right.value)
  <2>1. SimplifyPredicate[x] = Literal(Bool(b))
    BY <1>3, <1>5 DEF SimplifyBody
  <2>2. Literal(Bool(b)) \in Expressions
    BY <1>2, <2>1, SimplifiedAssumption
  <2>3. Evaluate(SimplifyPredicate[x], row) = Bool(b)
    <3> HIDE DEF b
    <3> QED  BY <2>1, <2>2, LiteralValue
  <2> QED  BY <1>2, <1>5, <2>3, LiteralComparison
<1>6. CASE x.kind # "logical" /\ ~(x.kind = "comparison" /\ BothLiteral(x))
  BY <1>2, <1>3, <1>6 DEF SimplifyBody
<1> QED  BY <1>4, <1>5, <1>6

-----------------------------------------------------------------------------
(* The columns of a simplified predicate *)

\* A literal reads no column.
LEMMA ColumnsOfLiteral ==
  ASSUME NEW v, Literal(v) \in Expressions
  PROVE  CollectColumns[Literal(v)] = {}
<1> DEFINE x == Literal(v)
<1>1. x \in Expressions /\ x.kind = "literal"
  BY DEF Literal
<1> HIDE DEF x
<1>2. Parts(x) = {}
  BY <1>1, LiteralFacts
<1>3. CollectColumns[x] = ColumnsBody(CollectColumns, x)
  BY <1>1, ColumnsDefined
<1> QED  BY <1>1, <1>2, <1>3 DEF ColumnsBody, x

\* AND, OR and NOT read the columns of their operands.
LEMMA ColumnsOfLogical ==
  ASSUME NEW op, NEW es, Logical(op, es) \in Expressions
  PROVE  CollectColumns[Logical(op, es)] = UNION {CollectColumns[es[i]] : i \in DOMAIN es}
<1> DEFINE x == Logical(op, es)
<1>1. x \in Expressions /\ x.kind = "logical" /\ x.operands = es
  BY DEF Logical
<1> HIDE DEF x
<1>2. Parts(x) = {es[i] : i \in DOMAIN es}
  BY <1>1, LogicalFacts
<1>3. CollectColumns[x] = ColumnsBody(CollectColumns, x)
  BY <1>1, ColumnsDefined
<1>4. CollectColumns[x] = UNION {CollectColumns[y] : y \in Parts(x)}
  BY <1>1, <1>3 DEF ColumnsBody
<1> QED  BY <1>2, <1>4 DEF x

\* What is left of AND, OR and NOT reads no other columns than the operands.
LEMMA SimplifyLogicalColumns ==
  ASSUME NEW op \in {"AND", "OR", "NOT"}, NEW es \in Seq(Expressions),
         op = "NOT" => DOMAIN es = {1}, SimplifyLogical(op, es) \in Expressions
  PROVE  CollectColumns[SimplifyLogical(op, es)] \subseteq UNION {CollectColumns[es[i]] : i \in DOMAIN es}
<1> DEFINE x == SimplifyLogical(op, es)
           all == UNION {CollectColumns[es[i]] : i \in DOMAIN es}
<1>1. x \in Expressions
  OBVIOUS
<1>2. \/ \E b : x = Literal(Bool(b))
      \/ \E i \in DOMAIN es : x = es[i]
      \/ \E us \in Seq(Expressions) :
           x = Logical(op, us) /\ \A n \in DOMAIN us : \E i \in DOMAIN es : us[n] = es[i]
  BY SimplifyLogicalForm
<1> HIDE DEF x
<1>3. CASE \E b : x = Literal(Bool(b))
  BY <1>1, <1>3, ColumnsOfLiteral DEF x
<1>4. CASE \E i \in DOMAIN es : x = es[i]
  BY <1>4 DEF x
<1>5. ASSUME NEW us \in Seq(Expressions), x = Logical(op, us),
             \A n \in DOMAIN us : \E i \in DOMAIN es : us[n] = es[i]
      PROVE  CollectColumns[x] \subseteq all
  <2>1. CollectColumns[x] = UNION {CollectColumns[us[n]] : n \in DOMAIN us}
    BY <1>1, <1>5, ColumnsOfLogical
  <2>2. \A n \in DOMAIN us : CollectColumns[us[n]] \subseteq all
    BY <1>5
  <2> HIDE DEF all
  <2> QED  BY <2>1, <2>2
<1> QED  BY <1>2, <1>3, <1>4, <1>5 DEF x

\* A simplified predicate reads no column that the predicate did not read.
LEMMA ColumnsShrink ==
  ASSUME NEW e \in Expressions
  PROVE  CollectColumns[SimplifyPredicate[e]] \subseteq CollectColumns[e]
<1> DEFINE Shrinks(x) == CollectColumns[SimplifyPredicate[x]] \subseteq CollectColumns[x]
           T == {x \in Expressions : ~Shrinks(x)}
<1> SUFFICES ASSUME T # {}  PROVE FALSE
  OBVIOUS
<1>1. PICK x \in T : \A y \in Expressions : Depth[y] < Depth[x] => y \notin T
  <2>1. T \in SUBSET Expressions
    OBVIOUS
  <2> HIDE DEF T
  <2> QED  BY <2>1, Shallowest, ExpressionsAssumption
<1>2. /\ x \in Expressions /\ ~(CollectColumns[SimplifyPredicate[x]] \subseteq CollectColumns[x])
      /\ \A y \in Expressions : Depth[y] < Depth[x] => Shrinks(y)
  BY <1>1
<1> HIDE DEF T
<1>3. SimplifyPredicate[x] = SimplifyBody(SimplifyPredicate, x) /\ SimplifyPredicate[x] \in Expressions
  BY <1>2, SimplifyDefined, SimplifiedAssumption
<1>4. CASE x.kind = "logical"
  <2> DEFINE es == [i \in DOMAIN x.operands |-> SimplifyPredicate[x.operands[i]]]
  <2>1. SimplifyPredicate[x] = SimplifyLogical(x.op, es)
    BY <1>3, <1>4 DEF SimplifyBody
  <2>2. /\ x.op \in {"AND", "OR", "NOT"} /\ (x.op = "NOT" => DOMAIN x.operands = {1})
        /\ x.operands \in Seq(Expressions) /\ x = Logical(x.op, x.operands)
        /\ \A i \in DOMAIN x.operands :
             x.operands[i] \in Expressions /\ Depth[x.operands[i]] < Depth[x]
    BY <1>2, <1>4, LogicalFacts
  <2>3. es \in Seq(Expressions)
    <3>1. \A i \in 1 .. Len(x.operands) : SimplifyPredicate[x.operands[i]] \in Expressions
      BY <2>2, SimplifiedAssumption
    <3>2. Len(x.operands) \in Nat /\ DOMAIN x.operands = 1 .. Len(x.operands)
      BY <2>2
    <3>3. es \in [1 .. Len(x.operands) -> Expressions]
      BY <3>1, <3>2
    <3> HIDE DEF es
    <3> QED  BY <3>2, <3>3
  <2>4. \A i \in DOMAIN x.operands : CollectColumns[es[i]] \subseteq CollectColumns[x.operands[i]]
    BY <1>2, <2>2
  <2>5. DOMAIN es = DOMAIN x.operands
    OBVIOUS
  <2>6. CollectColumns[x] = UNION {CollectColumns[x.operands[i]] : i \in DOMAIN x.operands}
    BY <1>2, <2>2, ColumnsOfLogical
  <2> HIDE DEF es, Shrinks
  <2>7. CollectColumns[SimplifyLogical(x.op, es)] \subseteq UNION {CollectColumns[es[i]] : i \in DOMAIN es}
    BY <1>3, <2>1, <2>2, <2>3, <2>5, SimplifyLogicalColumns
  <2>8. UNION {CollectColumns[es[i]] : i \in DOMAIN es}
          \subseteq UNION {CollectColumns[x.operands[i]] : i \in DOMAIN x.operands}
    BY <2>4, <2>5
  <2> QED  BY <1>2, <2>1, <2>6, <2>7, <2>8
<1>5. CASE x.kind = "comparison" /\ BothLiteral(x)
  <2>1. SimplifyPredicate[x] = Literal(Bool(EvaluateComparison(x.left.value, x.op, x.right.value)))
    BY <1>3, <1>5 DEF SimplifyBody
  <2> QED  BY <1>2, <1>3, <2>1, ColumnsOfLiteral
<1>6. CASE x.kind # "logical" /\ ~(x.kind = "comparison" /\ BothLiteral(x))
  BY <1>2, <1>3, <1>6 DEF SimplifyBody
<1> QED  BY <1>4, <1>5, <1>6

-----------------------------------------------------------------------------
(* Simplification is idempotent *)

\* simplify_predicate leaves a literal alone.
LEMMA LiteralSimplified ==
  ASSUME NEW v, Literal(v) \in Expressions
  PROVE  SimplifyPredicate[Literal(v)] = Literal(v)
<1> DEFINE x == Literal(v)
<1>1. x.kind = "literal"
  BY DEF Literal
<1> HIDE DEF x
<1>2. SimplifyPredicate[x] = SimplifyBody(SimplifyPredicate, x)
  BY SimplifyDefined DEF x
<1>3. SimplifyBody(SimplifyPredicate, x) = x
  BY <1>1 DEF SimplifyBody
<1> QED  BY <1>2, <1>3 DEF x

\* It simplifies the operands of an AND, OR or NOT; here they are simplified.
LEMMA LogicalSimplified ==
  ASSUME NEW op, NEW es \in Seq(Expressions), Logical(op, es) \in Expressions,
         \A i \in DOMAIN es : SimplifyPredicate[es[i]] = es[i]
  PROVE  SimplifyPredicate[Logical(op, es)] = SimplifyLogical(op, es)
<1> DEFINE x == Logical(op, es)
           ss == [i \in DOMAIN es |-> SimplifyPredicate[es[i]]]
<1>1. x.kind = "logical" /\ x.op = op /\ x.operands = es
  BY DEF Logical
<1> HIDE DEF x
<1>2. SimplifyPredicate[x] = SimplifyBody(SimplifyPredicate, x)
  BY SimplifyDefined DEF x
<1>3. SimplifyBody(SimplifyPredicate, x) = SimplifyLogical(op, ss)
  BY <1>1 DEF SimplifyBody
<1>4. ss = es
  <2>1. es = [i \in DOMAIN es |-> es[i]]
    OBVIOUS
  <2>2. ss = [i \in DOMAIN es |-> es[i]]
    OBVIOUS
  <2> HIDE DEF ss
  <2> QED  BY <2>1, <2>2, Zenon
<1> HIDE DEF ss
<1> QED  BY <1>2, <1>3, <1>4 DEF x

\* What is left of AND, OR and NOT of simplified operands is simplified.
LEMMA SimplifyLogicalSimplified ==
  ASSUME NEW op \in {"AND", "OR", "NOT"}, NEW es \in Seq(Expressions),
         op = "NOT" => DOMAIN es = {1}, SimplifyLogical(op, es) \in Expressions,
         \A i \in DOMAIN es : SimplifyPredicate[es[i]] = es[i]
  PROVE  SimplifyPredicate[SimplifyLogical(op, es)] = SimplifyLogical(op, es)
<1> DEFINE x == SimplifyLogical(op, es)
           u == Undecided(es)
<1>1. CASE \E b : x = Literal(Bool(b))
  <2>1. PICK b : x = Literal(Bool(b))
    BY <1>1
  <2> QED  BY <2>1, LiteralSimplified
<1>2. CASE op = "NOT" /\ Unknown(es[1]) /\ x = Logical("NOT", <<es[1]>>)
  <2> DEFINE one == <<es[1]>>
  <2>1. 1 \in DOMAIN es /\ es[1] \in Expressions
    BY <1>2
  <2>2. /\ one \in Seq(Expressions) /\ one[1] = es[1]
        /\ \A i \in DOMAIN one : SimplifyPredicate[one[i]] = one[i]
    BY <2>1
  <2> HIDE DEF one
  <2>3. x = Logical("NOT", one)
    BY <1>2 DEF one
  <2>4. SimplifyPredicate[x] = SimplifyLogical("NOT", one)
    <3> HIDE DEF x
    <3> QED  BY <2>2, <2>3, LogicalSimplified DEF x
  <2>5. SimplifyLogical("NOT", one) = Logical("NOT", one)
    BY <1>2, <2>2 DEF SimplifyLogical, Unknown, one
  <2> QED  BY <2>3, <2>4, <2>5
<1>3. CASE op # "NOT" /\ x = Rebuilt(op, u)
  <2>1. /\ u \in Seq(Expressions)
        /\ \A k \in DOMAIN u : Unknown(u[k]) /\ \E i \in DOMAIN es : u[k] = es[i]
    BY UndecidedFacts
  <2>2. \A k \in DOMAIN u : SimplifyPredicate[u[k]] = u[k]
    BY <2>1
  <2> HIDE DEF u
  <2>3. Len(u) \in Nat /\ DOMAIN u = 1 .. Len(u)
    BY <2>1
  <2>4. CASE Len(u) = 0
    <3>1. x = Literal(Bool(op = "AND"))
      BY <1>3, <2>4 DEF Rebuilt
    <3> QED  BY <1>1, <3>1
  <2>5. CASE Len(u) = 1
    <3>1. x = u[1] /\ 1 \in DOMAIN u
      BY <1>3, <2>3, <2>5 DEF Rebuilt
    <3> QED  BY <2>2, <3>1
  <2>6. CASE Len(u) > 1
    <3>1. Rebuilt(op, u) = Logical(op, u) /\ x = Logical(op, u)
      BY <1>3, <2>3, <2>6 DEF Rebuilt
    <3>2. SimplifyPredicate[x] = SimplifyLogical(op, u)
      <4> HIDE DEF x
      <4> QED  BY <2>1, <2>2, <3>1, LogicalSimplified DEF x
    <3>3. Undecided(u) = u
      BY <2>1, UndecidedFacts
    <3>4. /\ "True" \notin {TryEvaluateConstant[u[k]] : k \in DOMAIN u}
          /\ "False" \notin {TryEvaluateConstant[u[k]] : k \in DOMAIN u}
      BY <2>1 DEF Unknown
    <3>5. SimplifyLogical(op, u) = Rebuilt(op, Undecided(u))
      BY <1>3, <3>4 DEF SimplifyLogical
    <3> QED  BY <3>1, <3>2, <3>3, <3>5
  <2> QED  BY <2>3, <2>4, <2>5, <2>6
<1>4. \/ \E b : x = Literal(Bool(b))
      \/ op = "NOT" /\ Unknown(es[1]) /\ x = Logical("NOT", <<es[1]>>)
      \/ op # "NOT" /\ x = Rebuilt(op, u)
  BY DEF SimplifyLogical, Unknown
<1> QED  BY <1>1, <1>2, <1>3, <1>4

\* A simplified predicate cannot be simplified further.
LEMMA Idempotent ==
  ASSUME NEW e \in Expressions
  PROVE  SimplifyPredicate[SimplifyPredicate[e]] = SimplifyPredicate[e]
<1> DEFINE Once(x) == SimplifyPredicate[SimplifyPredicate[x]] = SimplifyPredicate[x]
           T == {x \in Expressions : ~Once(x)}
<1> SUFFICES ASSUME T # {}  PROVE FALSE
  OBVIOUS
<1>1. PICK x \in T : \A y \in Expressions : Depth[y] < Depth[x] => y \notin T
  <2>1. T \in SUBSET Expressions
    OBVIOUS
  <2> HIDE DEF T
  <2> QED  BY <2>1, Shallowest, ExpressionsAssumption
<1>2. /\ x \in Expressions /\ SimplifyPredicate[SimplifyPredicate[x]] # SimplifyPredicate[x]
      /\ \A y \in Expressions : Depth[y] < Depth[x] => Once(y)
  BY <1>1
<1> HIDE DEF T
<1>3. SimplifyPredicate[x] = SimplifyBody(SimplifyPredicate, x) /\ SimplifyPredicate[x] \in Expressions
  BY <1>2, SimplifyDefined, SimplifiedAssumption
<1>4. CASE x.kind = "logical"
  <2> DEFINE es == [i \in DOMAIN x.operands |-> SimplifyPredicate[x.operands[i]]]
  <2>1. SimplifyPredicate[x] = SimplifyLogical(x.op, es)
    BY <1>3, <1>4 DEF SimplifyBody
  <2>2. /\ x.op \in {"AND", "OR", "NOT"} /\ (x.op = "NOT" => DOMAIN x.operands = {1})
        /\ x.operands \in Seq(Expressions)
        /\ \A i \in DOMAIN x.operands :
             x.operands[i] \in Expressions /\ Depth[x.operands[i]] < Depth[x]
    BY <1>2, <1>4, LogicalFacts
  <2>3. es \in Seq(Expressions)
    <3>1. \A i \in 1 .. Len(x.operands) : SimplifyPredicate[x.operands[i]] \in Expressions
      BY <2>2, SimplifiedAssumption
    <3>2. Len(x.operands) \in Nat /\ DOMAIN x.operands = 1 .. Len(x.operands)
      BY <2>2
    <3>3. es \in [1 .. Len(x.operands) -> Expressions]
      BY <3>1, <3>2
    <3> HIDE DEF es
    <3> QED  BY <3>2, <3>3
  <2>4. \A i \in DOMAIN x.operands : SimplifyPredicate[es[i]] = es[i]
    BY <1>2, <2>2
  <2>5. DOMAIN es = DOMAIN x.operands
    OBVIOUS
  <2> HIDE DEF es, Once
  <2> QED  BY <1>2, <1>3, <2>1, <2>2, <2>3, <2>4, <2>5, SimplifyLogicalSimplified
<1>5. CASE x.kind = "comparison" /\ BothLiteral(x)
  <2>1. SimplifyPredicate[x] = Literal(Bool(EvaluateComparison(x.left.value, x.op, x.right.value)))
    BY <1>3, <1>5 DEF SimplifyBody
  <2> QED  BY <1>2, <1>3, <2>1, LiteralSimplified
<1>6. CASE x.kind # "logical" /\ ~(x.kind = "comparison" /\ BothLiteral(x))
  BY <1>2, <1>3, <1>6 DEF SimplifyBody
<1> QED  BY <1>4, <1>5, <1>6

-----------------------------------------------------------------------------
(* Sequences of operators *)

\* One sequence of operators above another.
LEMMA ConcatFacts ==
  ASSUME NEW S, NEW a \in Seq(S), NEW b \in Seq(S)
  PROVE  /\ a \o b \in Seq(S) /\ Len(a \o b) = Len(a) + Len(b)
         /\ a # <<>> => (a \o b)[1] = a[1]
         /\ \A i \in 1 .. Len(a) : (a \o b)[i] = a[i]
         /\ <<>> \o b = b
         /\ Range(a \o b) = Range(a) \cup Range(b)
<1> DEFINE c == a \o b
           m == Len(a)
           n == Len(b)
<1>1. /\ c \in Seq(S) /\ Len(c) = m + n /\ m \in Nat /\ n \in Nat
      /\ DOMAIN a = 1 .. m /\ DOMAIN b = 1 .. n /\ DOMAIN c = 1 .. m + n
  OBVIOUS
<1>2. \A i \in 1 .. m : c[i] = a[i]
  OBVIOUS
<1>3. \A i \in 1 .. n : c[m + i] = b[i]
  OBVIOUS
<1>4. a # <<>> => m >= 1
  OBVIOUS
<1>5. <<>> \o b = b
  OBVIOUS
<1> HIDE DEF c, m, n
<1>6. a # <<>> => c[1] = a[1]
  BY <1>1, <1>2, <1>4
<1>7. Range(c) \subseteq Range(a) \cup Range(b)
  <2> SUFFICES ASSUME NEW i \in 1 .. m + n  PROVE c[i] \in Range(a) \cup Range(b)
    BY <1>1 DEF Range
  <2>1. CASE i \in 1 .. m
    BY <1>1, <1>2, <2>1 DEF Range
  <2>2. CASE i \notin 1 .. m
    <3>1. i - m \in 1 .. n /\ i = m + (i - m)
      BY <1>1, <2>2
    <3>2. c[i] = b[i - m]
      BY <1>3, <3>1
    <3> QED  BY <1>1, <3>1, <3>2 DEF Range
  <2> QED  BY <2>1, <2>2
<1>8. Range(a) \subseteq Range(c)
  <2> SUFFICES ASSUME NEW i \in 1 .. m  PROVE a[i] \in Range(c)
    BY <1>1 DEF Range
  <2>1. i \in 1 .. m + n
    BY <1>1
  <2> QED  BY <1>1, <1>2, <2>1 DEF Range
<1>9. Range(b) \subseteq Range(c)
  <2> SUFFICES ASSUME NEW i \in 1 .. n  PROVE b[i] \in Range(c)
    BY <1>1 DEF Range
  <2>1. m + i \in 1 .. m + n
    BY <1>1
  <2> QED  BY <1>1, <1>3, <2>1 DEF Range
<1> QED  BY <1>1, <1>2, <1>5, <1>6, <1>7, <1>8, <1>9 DEF c, m, n

\* A plan with one more operator at the root.
LEMMA OnTop ==
  ASSUME NEW S, NEW h \in Seq(S), NEW x
  PROVE  LET p == <<x>> \o h
         IN  /\ p # <<>> /\ Len(p) = Len(h) + 1 /\ Len(h) \in Nat /\ DOMAIN p = 1 .. Len(h) + 1
             /\ p[1] = x /\ \A i \in 1 .. Len(h) : p[i + 1] = h[i]
             /\ Tail(p) = h /\ SubSeq(p, 2, Len(p)) = h
             /\ Range(p) = {x} \cup Range(h)
<1> DEFINE T == S \cup {x}
           p == <<x>> \o h
           n == Len(h)
<1>1. <<x>> \in Seq(T) /\ h \in Seq(T) /\ h \in Seq(S) /\ n \in Nat
  OBVIOUS
<1>2. p \in Seq(T) /\ Len(p) = n + 1 /\ DOMAIN p = 1 .. n + 1
  BY <1>1
<1>3. p[1] = x /\ \A i \in 1 .. n : p[i + 1] = h[i]
  BY <1>1
<1>4. Range(p) = {x} \cup Range(h)
  <2> HIDE DEF T
  <2> DEFINE a == <<x>>
  <2>1. Range(a) = {x}
    <3>1. DOMAIN a = {1} /\ a[1] = x
      OBVIOUS
    <3> HIDE DEF a
    <3> QED  BY <3>1 DEF Range
  <2>2. a \in Seq(T)
    BY <1>1
  <2> HIDE DEF a
  <2>3. Range(a \o h) = Range(a) \cup Range(h)
    BY <1>1, <2>2, ConcatFacts
  <2> QED  BY <2>1, <2>3 DEF a
<1> HIDE DEF T, p, n
<1>5. h \in [1 .. n -> S]
  BY <1>1 DEF n
<1>6. Tail(p) = h
  <2>1. Tail(p) \in Seq(T) /\ Len(Tail(p)) = n /\ \A i \in 1 .. n : Tail(p)[i] = p[i + 1]
    BY <1>1, <1>2
  <2> DEFINE t == Tail(p)
  <2> HIDE DEF t
  <2>2. t \in Seq(T) /\ Len(t) = n /\ \A i \in 1 .. n : t[i] = h[i]
    BY <1>3, <2>1 DEF t
  <2>3. t \in [1 .. Len(t) -> T] /\ h \in [1 .. Len(h) -> T]
    BY <1>1, <2>2
  <2>4. t \in [1 .. n -> T] /\ h \in [1 .. n -> T]
    BY <2>2, <2>3 DEF n
  <2>5. t = h
    BY <2>2, <2>4
  <2> QED  BY <2>5 DEF t
<1>7. SubSeq(p, 2, Len(p)) = h
  <2>1. SubSeq(p, 2, n + 1) = [i \in 1 .. n |-> p[i + 1]]
    BY <1>1, <1>2
  <2> QED  BY <1>2, <1>3, <1>5, <2>1
<1>8. p # <<>>
  BY <1>1, <1>2
<1> QED  BY <1>1, <1>2, <1>3, <1>4, <1>6, <1>7, <1>8 DEF p, n

\* The operators that make their own columns.
Own(o) == o.op \in {"NodeScan", "Project", "Empty"}

\* The columns of a plan with one more operator at the root.
LEMMA SchemaOnTop ==
  ASSUME NEW S, NEW h \in Seq(S), NEW x
  PROVE  OutputSchema(<<x>> \o h) = Columns(x) \cup (IF Own(x) THEN {} ELSE OutputSchema(h))
<1> DEFINE p == <<x>> \o h
           n == Len(h)
           I == {k \in DOMAIN p : \A j \in 1 .. k - 1 : ~Own(p[j])}
           J == {k \in DOMAIN h : \A j \in 1 .. k - 1 : ~Own(h[j])}
<1>1. OutputSchema(p) = UNION {Columns(p[i]) : i \in I} /\ OutputSchema(h) = UNION {Columns(h[i]) : i \in J}
  BY DEF OutputSchema, Own
<1>2. /\ n \in Nat /\ DOMAIN p = 1 .. n + 1 /\ DOMAIN h = 1 .. n
      /\ p[1] = x /\ \A i \in 1 .. n : p[i + 1] = h[i]
  BY OnTop
<1>3. \A k \in I : k \in 1 .. n + 1 /\ \A j \in 1 .. k - 1 : ~Own(p[j])
  BY <1>2
<1>4. \A k \in 1 .. n + 1 : (\A j \in 1 .. k - 1 : ~Own(p[j])) => k \in I
  BY <1>2
<1>5. \A k \in J : k \in 1 .. n /\ \A j \in 1 .. k - 1 : ~Own(h[j])
  BY <1>2
<1>6. \A k \in 1 .. n : (\A j \in 1 .. k - 1 : ~Own(h[j])) => k \in J
  BY <1>2
<1> HIDE DEF p, n, I, J
<1>7. 1 \in I
  BY <1>2, <1>4
<1>8. CASE Own(x)
  <2>1. ASSUME NEW k \in I  PROVE k = 1
    <3>1. k # 1 => 1 \in 1 .. k - 1
      BY <1>2, <1>3
    <3> QED  BY <1>2, <1>3, <1>8, <3>1
  <2>2. I = {1}
    BY <1>7, <2>1
  <2> QED  BY <1>1, <1>2, <1>8, <2>2 DEF p
<1>9. CASE ~Own(x)
  <2>1. ASSUME NEW k \in J  PROVE k + 1 \in I /\ p[k + 1] = h[k]
    <3>1. k \in 1 .. n /\ k + 1 \in 1 .. n + 1 /\ p[k + 1] = h[k]
      BY <1>2, <1>5
    <3>2. ASSUME NEW j \in 1 .. (k + 1) - 1  PROVE ~Own(p[j])
      <4>1. CASE j = 1
        BY <1>2, <1>9, <4>1
      <4>2. CASE j # 1
        <5>1. j - 1 \in 1 .. k - 1 /\ j - 1 \in 1 .. n /\ j = (j - 1) + 1
          BY <1>2, <3>1, <4>2
        <5>2. p[j] = h[j - 1]
          BY <1>2, <5>1
        <5> QED  BY <1>5, <5>1, <5>2
      <4> QED  BY <4>1, <4>2
    <3> QED  BY <1>4, <3>1, <3>2
  <2>2. ASSUME NEW k \in I, k # 1  PROVE k - 1 \in J /\ p[k] = h[k - 1]
    <3>1. k - 1 \in 1 .. n /\ k = (k - 1) + 1
      BY <1>2, <1>3, <2>2
    <3>2. p[k] = h[k - 1]
      BY <1>2, <3>1
    <3>3. ASSUME NEW j \in 1 .. (k - 1) - 1  PROVE ~Own(h[j])
      <4>1. j \in 1 .. n /\ j + 1 \in 1 .. k - 1
        BY <1>2, <3>1
      <4> QED  BY <1>2, <1>3, <4>1
    <3> QED  BY <1>6, <3>1, <3>2, <3>3
  <2>3. UNION {Columns(p[i]) : i \in I} \subseteq Columns(x) \cup UNION {Columns(h[i]) : i \in J}
    <3> SUFFICES ASSUME NEW k \in I
                 PROVE  Columns(p[k]) \subseteq Columns(x) \cup UNION {Columns(h[i]) : i \in J}
      OBVIOUS
    <3>1. CASE k = 1
      BY <1>2, <3>1
    <3>2. CASE k # 1
      BY <2>2, <3>2
    <3> QED  BY <3>1, <3>2
  <2>4. Columns(x) \subseteq UNION {Columns(p[i]) : i \in I}
    BY <1>2, <1>7
  <2>5. UNION {Columns(h[i]) : i \in J} \subseteq UNION {Columns(p[i]) : i \in I}
    BY <2>1
  <2> QED  BY <1>1, <1>9, <2>3, <2>4, <2>5 DEF p
<1> QED  BY <1>8, <1>9

-----------------------------------------------------------------------------
(* PlanQueryGraph *)

HopOperators ==
  {o \in UNION {{Hop(graph.rels[i])[1], Hop(graph.rels[i])[2]} : i \in 1 .. Len(graph.rels)} :
     o.op \in {"Extend", "PathExpand"}}

\* A relationship is planned as one or two operators.
LEMMA HopFacts ==
  ASSUME NEW i \in 1 .. Len(graph.rels)
  PROVE  Hop(graph.rels[i]) \in Seq(HopOperators) /\ Hop(graph.rels[i]) # <<>>
<1> DEFINE rel == graph.rels[i]
           extend == [op |-> "Extend", src |-> rel.src, dst |-> rel.dst]
           expand == [op |-> "PathExpand", path |-> rel.variable, bounds |-> rel.bounds]
           h == Hop(rel)
<1>1. extend.op = "Extend" /\ expand.op = "PathExpand"
  OBVIOUS
<1>2. h = IF rel.bounds = <<>> THEN <<extend>> ELSE <<expand, extend>>
  BY DEF Hop
<1>3. \A k \in {1, 2} : h[k].op \in {"Extend", "PathExpand"} => h[k] \in HopOperators
  BY DEF HopOperators
<1> HIDE DEF extend, expand, h
<1>4. CASE rel.bounds = <<>>
  <2>1. h = <<extend>>
    BY <1>2, <1>4
  <2>2. extend \in HopOperators
    BY <1>1, <1>3, <2>1
  <2> QED  BY <2>1, <2>2 DEF h
<1>5. CASE rel.bounds # <<>>
  <2>1. h = <<expand, extend>>
    BY <1>2, <1>5
  <2>2. h[1] = expand /\ h[2] = extend
    BY <2>1
  <2>3. extend \in HopOperators /\ expand \in HopOperators
    BY <1>1, <1>3, <2>2
  <2> QED  BY <2>1, <2>3 DEF h
<1> QED  BY <1>4, <1>5

\* The hops of the first n relationships are a sequence of Extend and PathExpand.
LEMMA HopsDefined ==
  ASSUME Len(graph.rels) \in Nat
  PROVE  /\ \A n \in 0 .. Len(graph.rels) : HopsTo[n] \in Seq(HopOperators)
         /\ \A n \in 0 .. Len(graph.rels) : HopsTo[n] = <<>> <=> n = 0
<1> DEFINE len == Len(graph.rels)
           S == 0 .. len
           D == Seq(HopOperators)
           Value(f, n) == IF n = 0 THEN <<>> ELSE Hop(graph.rels[n]) \o f[n - 1]
           Rec(f) == [n \in S |-> Value(f, n)]
           G == [f \in [S -> D] |-> Rec(f)]
           depth == [n \in S |-> n]
<1>1. /\ len \in Nat /\ depth \in [S -> Nat] /\ \A n \in S : depth[n] = n
      /\ \A n \in 1 .. len : n - 1 \in S /\ n \in S /\ n # 0 /\ n - 1 < n /\ n - 1 \in Nat /\ n \in Nat
      /\ \A n \in S : n = 0 \/ n \in 1 .. len
  OBVIOUS
<1>2. <<>> \in D
  OBVIOUS
<1>3. ASSUME NEW n \in 1 .. len, NEW s \in D
      PROVE  Hop(graph.rels[n]) \o s \in D /\ Hop(graph.rels[n]) \o s # <<>>
  <2> DEFINE h == Hop(graph.rels[n])
  <2>1. h \in Seq(HopOperators) /\ h # <<>>
    BY HopFacts
  <2> HIDE DEF h
  <2>2. h \o s \in Seq(HopOperators) /\ Len(h \o s) = Len(h) + Len(s) /\ Len(h) # 0
    BY <2>1
  <2>3. h \o s # <<>>
    BY <2>1, <2>2
  <2> QED  BY <2>2, <2>3 DEF h
<1>4. G \in [[S -> D] -> [S -> D]]
  <2>1. ASSUME NEW f \in [S -> D], NEW n \in S  PROVE Value(f, n) \in D
    <3> HIDE DEF S, D
    <3>1. CASE n = 0
      BY <1>2, <3>1
    <3>2. CASE n \in 1 .. len
      <4>1. f[n - 1] \in D /\ n # 0
        BY <1>1, <3>2
      <4> QED  BY <1>3, <3>2, <4>1
    <3> QED  BY <1>1, <3>1, <3>2
  <2> HIDE DEF S, D, Value
  <2> QED  BY <2>1
<1>5. ASSUME NEW f \in [S -> D], NEW g \in [S -> D], NEW n \in S, Agree(S, depth, f, g, depth[n])
      PROVE  G[f][n] = G[g][n]
  <2> HIDE DEF D, depth
  <2>1. n # 0 => f[n - 1] = g[n - 1]
    <3> HIDE DEF S
    <3> QED  BY <1>1, <1>5 DEF Agree
  <2>2. Value(f, n) = Value(g, n)
    BY <2>1
  <2> HIDE DEF S, Value
  <2> QED  BY <2>2
<1>6. Contracts(S, D, depth, G)
  <2> HIDE DEF G, S, D, depth
  <2> QED  BY <1>4, <1>5 DEF Contracts
<1>7. PICK f \in [S -> D] : G[f] = f
  <2> HIDE DEF G, S, D, depth
  <2> QED  BY <1>1, <1>2, <1>6, RecursionExists
<1>8. f = Rec(f)
  <2> HIDE DEF S, D, Value
  <2> QED  BY <1>7
<1> DEFINE u == HopsTo
<1>9. u = CHOOSE g : g = Rec(g)
  BY DEF HopsTo
<1>10. u = Rec(u)
  <2> HIDE DEF Rec, u
  <2> QED  BY <1>8, <1>9
<1> HIDE DEF u
<1>11. \A n \in S : u[n] = Value(u, n)
  <2> HIDE DEF Value, S
  <2> QED  BY <1>10
<1> HIDE DEF D, S
<1>12. \A n \in S : u[n] \in D
  <2> DEFINE T == {n \in S : u[n] \notin D}
  <2> SUFFICES ASSUME T # {}  PROVE FALSE
    OBVIOUS
  <2>1. PICK n \in T : \A i \in Nat : i < n => i \notin T
    <3>1. T \in SUBSET Nat
      BY DEF S
    <3> HIDE DEF T
    <3> QED  BY <3>1, LeastNumber
  <2>2. n \in 1 .. len
    BY <1>1, <1>2, <1>11, <2>1
  <2>3. u[n - 1] \in D
    BY <1>1, <2>1, <2>2
  <2>4. u[n] \in D
    BY <1>1, <1>3, <1>11, <2>2, <2>3
  <2> QED  BY <2>1, <2>4
<1>13. ASSUME NEW n \in S  PROVE u[n] = <<>> <=> n = 0
  <2>1. CASE n = 0
    BY <1>11, <2>1
  <2>2. CASE n \in 1 .. len
    <3>1. u[n - 1] \in D /\ u[n] = Hop(graph.rels[n]) \o u[n - 1] /\ n # 0
      BY <1>1, <1>11, <1>12, <2>2
    <3> QED  BY <1>3, <2>2, <3>1
  <2> QED  BY <1>1, <2>1, <2>2
<1> QED  BY <1>12, <1>13 DEF u, S, D

\* The scan of the first node.
Scan == NodeScan(graph.nodes[1])

\* A plan of a query graph is hops over a scan.
OfGraph(h, S) ==
  /\ h \in Seq(S) /\ Len(h) \in Nat /\ Len(h) >= 1 /\ DOMAIN h = 1 .. Len(h)
  /\ h[Len(h)] = Scan
  /\ \A i \in 1 .. Len(h) - 1 : h[i].op \in {"Extend", "PathExpand"}
  /\ graph.rels = <<>> => h = <<Scan>>
  /\ graph.rels # <<>> => Len(h) > 1

\* The plan of a graph is a sequence of hops over the scan of its first node.
LEMMA GraphPlan ==
  ASSUME NEW R, graph.rels \in Seq(R)
  PROVE  \E S : OfGraph(PlanQueryGraph, S)
<1> DEFINE S == HopOperators \cup {Scan}
           len == Len(graph.rels)
           t == HopsTo[len]
           h == t \o <<Scan>>
<1>1. len \in Nat /\ len \in 0 .. len /\ (len = 0 <=> graph.rels = <<>>)
  OBVIOUS
<1>2. t \in Seq(HopOperators) /\ (t = <<>> <=> len = 0)
  <2> HIDE DEF len
  <2> QED  BY <1>1, HopsDefined DEF len
<1>3. PlanQueryGraph = h
  BY DEF PlanQueryGraph, Scan
<1>4. \A o \in HopOperators : o.op \in {"Extend", "PathExpand"}
  BY DEF HopOperators
<1> HIDE DEF t, len
<1>5. Len(t) \in Nat /\ t \in Seq(S) /\ <<Scan>> \in Seq(S) /\ \A i \in 1 .. Len(t) : t[i] \in HopOperators
  BY <1>2
<1>6. /\ h \in Seq(S) /\ Len(h) = Len(t) + 1 /\ DOMAIN h = 1 .. Len(h) /\ h[Len(t) + 1] = Scan
      /\ \A i \in 1 .. Len(t) : h[i] = t[i]
  BY <1>5
<1>7. t = <<>> => h = <<Scan>>
  OBVIOUS
<1>8. t # <<>> => Len(t) > 0
  BY <1>2
<1> HIDE DEF h
<1>9. OfGraph(h, S)
  BY <1>1, <1>2, <1>4, <1>5, <1>6, <1>7, <1>8 DEF OfGraph
<1> QED  BY <1>3, <1>9

-----------------------------------------------------------------------------
(* The plan of a query *)

LimitOf(q) == IF q.limit = <<>> THEN <<>> ELSE <<[op |-> "Limit", limit |-> q.limit]>>
SortOf(q) == IF q.order_by = <<>> THEN <<>> ELSE <<[op |-> "Sort", order_by |-> q.order_by[1]]>>
ProjectOf(q) == IF q.returns = <<>> THEN <<>> ELSE <<Project(q.returns)>>
FilterOf(q) == IF q.where = <<>> THEN <<>> ELSE <<Filter(q.where[1])>>

\* Two operators, one above the other.
LEMMA TwoOperators ==
  ASSUME NEW x, NEW y
  PROVE  <<x>> \o <<y>> = <<x, y>>
<1> DEFINE T == {x, y}
           s == <<x>> \o <<y>>
           t == <<x, y>>
<1>1. s \in Seq(T) /\ Len(s) = 2 /\ s[1] = x /\ s[2] = y
  OBVIOUS
<1>2. t \in Seq(T) /\ Len(t) = 2 /\ t[1] = x /\ t[2] = y
  OBVIOUS
<1> HIDE DEF s, t, T
<1>3. s \in [1 .. 2 -> T]
  <2>1. s \in [1 .. Len(s) -> T]
    BY <1>1
  <2> QED  BY <1>1, <2>1
<1>4. t \in [1 .. 2 -> T]
  <2>1. t \in [1 .. Len(t) -> T]
    BY <1>2
  <2> QED  BY <1>2, <2>1
<1>5. \A i \in 1 .. 2 : s[i] = t[i]
  BY <1>1, <1>2
<1>6. s = t
  BY <1>3, <1>4, <1>5
<1> QED  BY <1>6 DEF s, t

\* The operators of the plan of a query, and its root.
LEMMA PlanForms ==
  ASSUME NEW q, NEW S, OfGraph(PlanQueryGraph, S)
  PROVE  /\ Range(PlanOf(q)) = Range(LimitOf(q)) \cup Range(SortOf(q)) \cup Range(ProjectOf(q))
                                 \cup Range(FilterOf(q)) \cup Range(PlanQueryGraph)
         /\ PlanOf(q) # <<>>
         /\ q.limit # <<>> \/ q.order_by # <<>> => PlanOf(q)[1].op \in {"Limit", "Sort"}
         /\ q.limit = <<>> /\ q.order_by = <<>> =>
              PlanOf(q) = IF q.returns = <<>>
                          THEN IF q.where = <<>> THEN PlanQueryGraph
                               ELSE <<Filter(q.where[1])>> \o PlanQueryGraph
                          ELSE IF q.where = <<>> THEN <<Project(q.returns)>> \o PlanQueryGraph
                               ELSE <<Project(q.returns), Filter(q.where[1])>> \o PlanQueryGraph
<1> DEFINE h == PlanQueryGraph
           li == [op |-> "Limit", limit |-> q.limit]
           so == [op |-> "Sort", order_by |-> q.order_by[1]]
           pr == Project(q.returns)
           fi == Filter(q.where[1])
           T == S \cup {li, so, pr, fi}
           a == LimitOf(q)
           b == SortOf(q)
           c == ProjectOf(q)
           d == FilterOf(q)
           ab == a \o b
           abc == ab \o c
           abcd == abc \o d
<1>1. PlanOf(q) = abcd \o h
  BY DEF PlanOf, LimitOf, SortOf, ProjectOf, FilterOf
<1>2. /\ a = (IF q.limit = <<>> THEN <<>> ELSE <<li>>) /\ b = (IF q.order_by = <<>> THEN <<>> ELSE <<so>>)
      /\ c = (IF q.returns = <<>> THEN <<>> ELSE <<pr>>) /\ d = (IF q.where = <<>> THEN <<>> ELSE <<fi>>)
  BY DEF LimitOf, SortOf, ProjectOf, FilterOf
<1>3. h \in Seq(T) /\ Len(h) >= 1 /\ Len(h) \in Nat
  BY DEF OfGraph
<1>4. li \in T /\ so \in T /\ pr \in T /\ fi \in T /\ li.op = "Limit" /\ so.op = "Sort"
  OBVIOUS
<1> HIDE DEF h, li, so, pr, fi, T, a, b, c, d
<1>5. a \in Seq(T) /\ b \in Seq(T) /\ c \in Seq(T) /\ d \in Seq(T)
  BY <1>2, <1>4
<1>concat. \A x, y \in Seq(T) :
        /\ x \o y \in Seq(T) /\ Range(x \o y) = Range(x) \cup Range(y)
        /\ (x # <<>> => (x \o y)[1] = x[1]) /\ Len(x \o y) = Len(x) + Len(y)
  BY ConcatFacts
<1>6. ab \in Seq(T) /\ Range(ab) = Range(a) \cup Range(b) /\ (a # <<>> => ab[1] = a[1]) /\ Len(ab) = Len(a) + Len(b)
  BY <1>concat, <1>5
<1> HIDE DEF ab
<1>7. abc \in Seq(T) /\ Range(abc) = Range(ab) \cup Range(c) /\ (ab # <<>> => abc[1] = ab[1]) /\ Len(abc) = Len(ab) + Len(c)
  BY <1>concat, <1>5, <1>6
<1> HIDE DEF abc
<1>8. abcd \in Seq(T) /\ Range(abcd) = Range(abc) \cup Range(d) /\ (abc # <<>> => abcd[1] = abc[1]) /\ Len(abcd) = Len(abc) + Len(d)
  BY <1>concat, <1>5, <1>7
<1> HIDE DEF abcd
<1>9. /\ abcd \o h \in Seq(T) /\ Range(abcd \o h) = Range(abcd) \cup Range(h)
      /\ (abcd # <<>> => (abcd \o h)[1] = abcd[1]) /\ Len(abcd \o h) = Len(abcd) + Len(h)
  BY <1>concat, <1>3, <1>8
<1>10. abcd \o h # <<>>
  <2>1. Len(abcd) \in Nat
    BY <1>8
  <2>2. Len(abcd \o h) # 0
    BY <1>3, <1>9, <2>1
  <2> QED  BY <2>2
<1>11. ASSUME q.limit # <<>> \/ q.order_by # <<>>
       PROVE  (abcd \o h)[1].op \in {"Limit", "Sort"}
  <2>1. ab # <<>> /\ ab[1].op \in {"Limit", "Sort"}
    <3>1. CASE q.limit # <<>>
      <4>1. a = <<li>> /\ a # <<>> /\ a[1] = li
        BY <1>2, <3>1
      <4>2. Len(a) = 1 /\ Len(b) \in Nat
        BY <1>5, <4>1
      <4>3. Len(ab) # 0
        BY <1>6, <4>2
      <4>4. ab # <<>>
        BY <4>3
      <4> QED  BY <1>4, <1>6, <4>1, <4>4
    <3>2. CASE q.limit = <<>> /\ q.order_by # <<>>
      <4>1. a = <<>> /\ b = <<so>>
        BY <1>2, <3>2
      <4>2. ab = <<so>>
        BY <4>1 DEF ab
      <4> QED  BY <1>4, <4>2
    <3> QED  BY <1>11, <3>1, <3>2
  <2>2. abc # <<>> /\ abc[1] = ab[1]
    <3>1. Len(ab) \in Nat /\ Len(c) \in Nat /\ Len(ab) # 0
      BY <1>5, <1>6, <2>1
    <3>2. Len(abc) # 0
      BY <1>7, <3>1
    <3>3. abc # <<>>
      BY <3>2
    <3> QED  BY <1>7, <2>1, <3>3
  <2>3. abcd # <<>> /\ abcd[1] = abc[1]
    <3>1. Len(abc) \in Nat /\ Len(d) \in Nat /\ Len(abc) # 0
      BY <1>5, <1>7, <2>2
    <3>2. Len(abcd) # 0
      BY <1>8, <3>1
    <3>3. abcd # <<>>
      BY <3>2
    <3> QED  BY <1>8, <2>2, <3>3
  <2> QED  BY <1>9, <2>1, <2>2, <2>3
<1>12. ASSUME q.limit = <<>>, q.order_by = <<>>
       PROVE  abcd \o h = IF q.returns = <<>> THEN IF q.where = <<>> THEN h ELSE <<fi>> \o h
                          ELSE IF q.where = <<>> THEN <<pr>> \o h ELSE <<pr, fi>> \o h
  <2>1. ab = <<>>
    <3>1. a = <<>> /\ b = <<>>
      BY <1>2, <1>12
    <3> QED  BY <3>1 DEF ab
  <2>2. abc = c
    BY <1>5, <2>1, ConcatFacts DEF abc
  <2>3. CASE c = <<>>
    <3>1. abcd = d
      BY <1>5, <2>2, <2>3, ConcatFacts DEF abcd
    <3>2. q.where = <<>> => abcd \o h = h
      BY <1>2, <1>3, <3>1, ConcatFacts
    <3>3. q.returns = <<>>
      <4>1. <<pr>> # <<>>
        OBVIOUS
      <4> QED  BY <1>2, <2>3, <4>1
    <3> QED  BY <1>2, <3>1, <3>2, <3>3
  <2>4. CASE c # <<>>
    <3>1. c = <<pr>> /\ q.returns # <<>>
      BY <1>2, <2>4
    <3>2. q.where = <<>> => abcd = <<pr>>
      BY <1>2, <2>2, <3>1 DEF abcd
    <3>3. q.where # <<>> => abcd = <<pr, fi>>
      <4>1. q.where # <<>> => abcd = <<pr>> \o <<fi>>
        BY <1>2, <2>2, <3>1 DEF abcd
      <4>2. <<pr>> \o <<fi>> = <<pr, fi>>
        BY TwoOperators
      <4> QED  BY <4>1, <4>2
    <3> QED  BY <3>1, <3>2, <3>3
  <2> QED  BY <2>3, <2>4
<1>13. Range(PlanOf(q)) = Range(a) \cup Range(b) \cup Range(c) \cup Range(d) \cup Range(h)
  BY <1>1, <1>6, <1>7, <1>8, <1>9
<1>14. PlanOf(q) # <<>> /\ (q.limit # <<>> \/ q.order_by # <<>> => PlanOf(q)[1].op \in {"Limit", "Sort"})
  BY <1>1, <1>10, <1>11
<1>15. q.limit = <<>> /\ q.order_by = <<>> =>
         PlanOf(q) = IF q.returns = <<>> THEN IF q.where = <<>> THEN h ELSE <<fi>> \o h
                     ELSE IF q.where = <<>> THEN <<pr>> \o h ELSE <<pr, fi>> \o h
  BY <1>1, <1>12
<1> QED  BY <1>13, <1>14, <1>15 DEF a, b, c, d, h, pr, fi

-----------------------------------------------------------------------------
(* What the rules make of a plan, from its root *)

\* The rule of a round of the optimizer.
Rule(r, p) == Rewrite(OptimizerRules[r], p)

\* The rules of the four rounds.
LEMMA RulesInOrder ==
  /\ Len(OptimizerRules) = 4
  /\ \A p : /\ Rule(1, p) = FilterPushdown(p) /\ Rule(2, p) = ProjectionPushdown(p)
            /\ Rule(3, p) = PredicateSimplification(p) /\ Rule(4, p) = ConstantFolding(p)
<1>1. /\ OptimizerRules[1] = "FilterPushdown" /\ OptimizerRules[2] = "ProjectionPushdown"
      /\ OptimizerRules[3] = "PredicateSimplification" /\ OptimizerRules[4] = "ConstantFolding"
      /\ Len(OptimizerRules) = 4
  BY DEF OptimizerRules
<1>2. \A p : /\ Rewrite("FilterPushdown", p) = FilterPushdown(p)
             /\ Rewrite("ProjectionPushdown", p) = ProjectionPushdown(p)
             /\ Rewrite("PredicateSimplification", p) = PredicateSimplification(p)
             /\ Rewrite("ConstantFolding", p) = ConstantFolding(p)
  BY DEF Rewrite
<1> QED  BY <1>1, <1>2 DEF Rule

\* A rule that reports no change returns its plan.
LEMMA NoChange == \A p : No(p).plan = p
BY DEF No

\* A root that is neither a filter nor a projection stops every rule.
LEMMA OtherRoot ==
  ASSUME NEW p, p[1].op \notin {"Filter", "Project"}, NEW r \in 1 .. 4
  PROVE  Rule(r, p).plan = p
<1>1. FilterPushdown(p) = No(p)
  BY DEF FilterPushdown
<1>2. ProjectionPushdown(p) = No(p)
  BY DEF ProjectionPushdown
<1>3. PredicateSimplification(p) = No(p)
  BY DEF PredicateSimplification
<1>4. ConstantFolding(p) = No(p)
  BY DEF ConstantFolding
<1>5. r = 1 \/ r = 2 \/ r = 3 \/ r = 4
  OBVIOUS
<1> QED  BY <1>1, <1>2, <1>3, <1>4, <1>5, RulesInOrder, NoChange

\* Below a projection, only a scan is changed.
LEMMA ProjectRoot ==
  ASSUME NEW p, p[1].op = "Project", NEW r \in 1 .. 4, r = 2 => p[2].op # "NodeScan"
  PROVE  Rule(r, p).plan = p
<1>1. FilterPushdown(p) = No(p)
  BY DEF FilterPushdown
<1>2. r = 2 => ProjectionPushdown(p) = No(p)
  BY DEF ProjectionPushdown
<1>3. PredicateSimplification(p) = No(p)
  BY DEF PredicateSimplification
<1>4. ConstantFolding(p) = No(p)
  BY DEF ConstantFolding
<1>5. r = 1 \/ r = 2 \/ r = 3 \/ r = 4
  OBVIOUS
<1> QED  BY <1>1, <1>2, <1>3, <1>4, <1>5, RulesInOrder, NoChange

\* A filter over a hop is left to the simplification.
LEMMA FilterRoot ==
  ASSUME NEW p, p[1].op = "Filter", p[2].op \in {"Extend", "PathExpand"}
  PROVE  Rule(1, p).plan = p /\ Rule(2, p).plan = p
<1>1. FilterPushdown(p) = No(p)
  BY DEF FilterPushdown
<1>2. ProjectionPushdown(p) = No(p)
  BY DEF ProjectionPushdown
<1> QED  BY <1>1, <1>2, RulesInOrder, NoChange

-----------------------------------------------------------------------------
(* What the optimizer makes of the plan of a query *)

\* The rule that changes the plan, 0 if none does: a filter is pushed into the
\* scan of a single node, or simplified above a hop; a projection is pushed
\* into a scan.
Turn(q) ==
  IF q.limit # <<>> \/ q.order_by # <<>> THEN 0
  ELSE IF q.returns = <<>> /\ q.where # <<>> THEN IF graph.rels = <<>> THEN 1 ELSE 3
  ELSE IF q.returns # <<>> /\ q.where = <<>> /\ graph.rels = <<>> THEN 2 ELSE 0

\* The columns of the scan that RETURN reads.
Projected(q) == {c \in RequiredColumns(q.returns) : c[1] = Scan.variable /\ c[2] # ""}

PushedFilter(q) == <<[Scan EXCEPT !.filters = Append(@, q.where[1])]>>
PushedProjection(q) ==
  <<Project(q.returns), [Scan EXCEPT !.projection = <<{c[2] : c \in Projected(q)}>>]>>
SimplifiedFilter(q) ==
  LET simplified == SimplifyPredicate[q.where[1]]
      constant == TryEvaluateConstant[simplified]
  IN  IF constant = "True" THEN PlanQueryGraph
      ELSE IF constant = "False" THEN <<Empty(OutputSchema(PlanQueryGraph))>>
      ELSE <<Filter(simplified)>> \o PlanQueryGraph

Optimised(q) ==
  IF Turn(q) = 1 THEN PushedFilter(q)
  ELSE IF Turn(q) = 2 /\ Projected(q) # {} THEN PushedProjection(q)
  ELSE IF Turn(q) = 3 THEN SimplifiedFilter(q)
  ELSE PlanOf(q)

\* The scan as the planner makes it.
LEMMA ScanFacts ==
  /\ Scan.op = "NodeScan" /\ Scan.variable = graph.nodes[1]
  /\ Scan.schema = Schemas[scope[graph.nodes[1]][1]]
  /\ Scan.filters = <<>> /\ Scan.projection = <<>>
BY DEF Scan, NodeScan

\* The scan with filters pushed into it.
LEMMA FilteredScan ==
  ASSUME NEW f
  PROVE  LET s == [Scan EXCEPT !.filters = f]
         IN  /\ s.op = "NodeScan" /\ s.filters = f /\ s.variable = Scan.variable
             /\ s.schema = Scan.schema /\ s.projection = Scan.projection
BY DEF Scan, NodeScan

\* The scan with a projection pushed into it.
LEMMA ProjectedScan ==
  ASSUME NEW x
  PROVE  LET s == [Scan EXCEPT !.projection = x]
         IN  /\ s.op = "NodeScan" /\ s.filters = Scan.filters /\ s.variable = Scan.variable
             /\ s.schema = Scan.schema /\ s.projection = x
             /\ \A y : [s EXCEPT !.projection = y] = [Scan EXCEPT !.projection = y]
             /\ x = <<>> => s = Scan
<1> DEFINE s == [Scan EXCEPT !.projection = x]
           v == graph.nodes[1]
           made(y) == [op |-> "NodeScan", variable |-> v, schema |-> Schemas[scope[v][1]],
                       filters |-> <<>>, projection |-> y]
<1>1. Scan = made(<<>>)
  BY DEF Scan, NodeScan
<1>2. \A y, z : [made(y) EXCEPT !.projection = z] = made(z)
  OBVIOUS
<1>3. \A y : /\ made(y).op = "NodeScan" /\ made(y).filters = <<>> /\ made(y).variable = v
             /\ made(y).schema = Schemas[scope[v][1]] /\ made(y).projection = y
  OBVIOUS
<1> HIDE DEF made
<1>4. s = made(x) /\ \A y : [Scan EXCEPT !.projection = y] = made(y)
  BY <1>1, <1>2
<1>5. \A y : [s EXCEPT !.projection = y] = made(y)
  BY <1>2, <1>4
<1>6. x = <<>> => s = Scan
  BY <1>1, <1>4
<1>7. /\ s.op = "NodeScan" /\ s.filters = Scan.filters /\ s.variable = Scan.variable
      /\ s.schema = Scan.schema /\ s.projection = x
  BY <1>1, <1>3, <1>4
<1> HIDE DEF s
<1>8. \A y : [s EXCEPT !.projection = y] = [Scan EXCEPT !.projection = y]
  BY <1>4, <1>5
<1> QED  BY <1>6, <1>7, <1>8 DEF s

\* The plan of a query graph has a hop or the scan at its root.
LEMMA GraphRoot ==
  ASSUME NEW S, OfGraph(PlanQueryGraph, S)
  PROVE  /\ PlanQueryGraph[1].op \in {"NodeScan", "Extend", "PathExpand"}
         /\ graph.rels # <<>> => PlanQueryGraph[1].op \in {"Extend", "PathExpand"}
         /\ \A o \in Range(PlanQueryGraph) : o = Scan \/ o.op \in {"Extend", "PathExpand"}
         /\ Scan \in Range(PlanQueryGraph)
<1> DEFINE h == PlanQueryGraph
           n == Len(h)
<1>1. /\ n \in Nat /\ n >= 1 /\ DOMAIN h = 1 .. n /\ h[n] = Scan
      /\ \A i \in 1 .. n - 1 : h[i].op \in {"Extend", "PathExpand"}
      /\ graph.rels # <<>> => n > 1
  BY DEF OfGraph
<1> HIDE DEF h, n
<1>2. \A i \in 1 .. n : i = n \/ i \in 1 .. n - 1
  BY <1>1
<1>3. 1 \in 1 .. n /\ n \in 1 .. n /\ (n > 1 => 1 \in 1 .. n - 1)
  BY <1>1
<1>4. Scan.op = "NodeScan"
  BY ScanFacts
<1>5. \A o \in Range(h) : o = Scan \/ o.op \in {"Extend", "PathExpand"}
  BY <1>1, <1>2 DEF Range
<1>6. Scan \in Range(h)
  BY <1>1, <1>3 DEF Range
<1>7. h[1].op \in {"NodeScan", "Extend", "PathExpand"}
  BY <1>1, <1>2, <1>3, <1>4
<1>8. graph.rels # <<>> => h[1].op \in {"Extend", "PathExpand"}
  BY <1>1, <1>3
<1> QED  BY <1>5, <1>6, <1>7, <1>8 DEF h

\* A round changes the plan of a query only at its turn, and an optimised plan
\* never again.
LEMMA RoundsLimited ==
  ASSUME NEW q, NEW S, OfGraph(PlanQueryGraph, S), q.limit # <<>> \/ q.order_by # <<>>,
         NEW r \in 1 .. 4
  PROVE  Turn(q) = 0 /\ Optimised(q) = PlanOf(q) /\ Rule(r, PlanOf(q)).plan = PlanOf(q)
<1>1. Turn(q) = 0
  BY DEF Turn
<1>2. PlanOf(q)[1].op \in {"Limit", "Sort"}
  BY PlanForms
<1>3. Rule(r, PlanOf(q)).plan = PlanOf(q)
  BY <1>2, OtherRoot
<1> QED  BY <1>1, <1>3 DEF Optimised

\* Without clauses there is nothing to rewrite.
LEMMA RoundsGraph ==
  ASSUME NEW q, NEW S, OfGraph(PlanQueryGraph, S), q.limit = <<>>, q.order_by = <<>>,
         q.returns = <<>>, q.where = <<>>, NEW r \in 1 .. 4
  PROVE  Turn(q) = 0 /\ Optimised(q) = PlanOf(q) /\ Rule(r, PlanOf(q)).plan = PlanOf(q)
<1>1. Turn(q) = 0
  BY DEF Turn
<1>2. PlanOf(q) = PlanQueryGraph
  BY PlanForms
<1>3. PlanOf(q)[1].op \notin {"Filter", "Project"}
  BY <1>2, GraphRoot
<1>4. Rule(r, PlanOf(q)).plan = PlanOf(q)
  BY <1>3, OtherRoot
<1> QED  BY <1>1, <1>4 DEF Optimised

\* Under RETURN no rule looks at a filter or beyond a hop.
LEMMA RoundsReturn ==
  ASSUME NEW q, NEW S, OfGraph(PlanQueryGraph, S), q.limit = <<>>, q.order_by = <<>>,
         q.returns # <<>>, q.where # <<>> \/ graph.rels # <<>>, NEW r \in 1 .. 4
  PROVE  Turn(q) = 0 /\ Optimised(q) = PlanOf(q) /\ Rule(r, PlanOf(q)).plan = PlanOf(q)
<1> DEFINE h == PlanQueryGraph
           p == PlanOf(q)
           pr == Project(q.returns)
           fi == Filter(q.where[1])
<1>1. Turn(q) = 0
  BY DEF Turn
<1>2. pr.op = "Project" /\ fi.op = "Filter"
  BY DEF Project, Filter
<1>3. h \in Seq(S) /\ Len(h) \in Nat /\ Len(h) >= 1
  BY DEF OfGraph
<1>4. p = IF q.where = <<>> THEN <<pr>> \o h ELSE <<pr, fi>> \o h
  BY PlanForms
<1>5. q.where = <<>> => h[1].op \in {"Extend", "PathExpand"}
  BY GraphRoot
<1> HIDE DEF h, p, pr, fi
<1>6. p[1] = pr /\ p[2].op # "NodeScan"
  <2>1. CASE q.where = <<>>
    <3>1. p = <<pr>> \o h
      BY <1>4, <2>1
    <3>2. p[1] = pr /\ 1 \in 1 .. Len(h) /\ \A i \in 1 .. Len(h) : p[i + 1] = h[i]
      BY <1>3, <3>1, OnTop
    <3>3. p[1 + 1] = h[1]
      BY <3>2
    <3> QED  BY <1>5, <2>1, <3>2, <3>3
  <2>2. CASE q.where # <<>>
    <3> DEFINE T == S \cup {pr, fi}
               t == <<pr, fi>>
    <3>1. p = t \o h
      BY <1>4, <2>2
    <3>2. t \in Seq(T) /\ h \in Seq(T) /\ Len(t) = 2 /\ t[1] = pr /\ t[2] = fi
      BY <1>3
    <3> HIDE DEF T, t
    <3>3. \A i \in 1 .. Len(t) : (t \o h)[i] = t[i]
      <4>1. \A x, y \in Seq(T) : \A i \in 1 .. Len(x) : (x \o y)[i] = x[i]
        BY ConcatFacts
      <4> QED  BY <3>2, <4>1
    <3>4. 1 \in 1 .. Len(t) /\ 2 \in 1 .. Len(t)
      BY <3>2
    <3> QED  BY <1>2, <3>1, <3>2, <3>3, <3>4
  <2> QED  BY <2>1, <2>2
<1>7. Rule(r, p).plan = p
  BY <1>2, <1>6, ProjectRoot
<1> QED  BY <1>1, <1>7 DEF Optimised, p

\* The projection of a single node is pushed into the scan in the second round,
\* and stays as it is.
LEMMA RoundsReturnScan ==
  ASSUME NEW q, NEW S, OfGraph(PlanQueryGraph, S), q.limit = <<>>, q.order_by = <<>>,
         q.returns # <<>>, q.where = <<>>, graph.rels = <<>>, NEW r \in 1 .. 4
  PROVE  /\ Turn(q) = 2 /\ Rule(r, Optimised(q)).plan = Optimised(q)
         /\ r <= 2 => Rule(r, PlanOf(q)).plan = IF r = 2 THEN Optimised(q) ELSE PlanOf(q)
<1> DEFINE pr == Project(q.returns)
           pushed == [Scan EXCEPT !.projection = <<{c[2] : c \in Projected(q)}>>]
           p == PlanOf(q)
           o == Optimised(q)
<1>1. Turn(q) = 2
  BY DEF Turn
<1>2. pr.op = "Project" /\ pr.expressions = q.returns
  BY DEF Project
<1>3. p = <<pr, Scan>>
  <2>1. PlanQueryGraph = <<Scan>>
    BY DEF OfGraph
  <2>2. p = <<pr>> \o PlanQueryGraph
    BY PlanForms
  <2> QED  BY <2>1, <2>2, TwoOperators
<1>4. o = IF Projected(q) # {} THEN <<pr, pushed>> ELSE p
  BY <1>1 DEF Optimised, PushedProjection
<1>5. /\ Scan.op = "NodeScan" /\ pushed.op = "NodeScan" /\ pushed.variable = Scan.variable
      /\ [pushed EXCEPT !.projection = <<{c[2] : c \in Projected(q)}>>] = pushed
      /\ [Scan EXCEPT !.projection = <<>>] = Scan
  BY ScanFacts, ProjectedScan
<1>6. pushed = [Scan EXCEPT !.projection = <<{c[2] : c \in Projected(q)}>>]
  OBVIOUS
<1> HIDE DEF pr, p, o, pushed
<1>7. ASSUME NEW x, x.op = "NodeScan", x.variable = Scan.variable
      PROVE  ProjectionPushdown(<<pr, x>>).plan =
               IF Projected(q) = {} THEN <<pr, [x EXCEPT !.projection = <<>>]>>
               ELSE <<pr, [x EXCEPT !.projection = <<{c[2] : c \in Projected(q)}>>]>>
  <2> DEFINE t == <<pr, x>>
             required == {c \in RequiredColumns(t[1].expressions) : c[1] = t[2].variable /\ c[2] # ""}
  <2>1. t[1] = pr /\ t[2] = x
    OBVIOUS
  <2>2. required = Projected(q)
    BY <1>2, <1>7, <2>1 DEF Projected
  <2>3. ProjectionPushdown(t).plan =
          IF required = {} THEN <<t[1], [t[2] EXCEPT !.projection = <<>>]>>
          ELSE <<t[1], [t[2] EXCEPT !.projection = <<{c[2] : c \in required}>>]>>
    <3>1. t[1].op = "Project" /\ t[2].op = "NodeScan"
      BY <1>2, <1>7, <2>1
    <3> HIDE DEF t
    <3> QED  BY <3>1 DEF ProjectionPushdown, Yes, No
  <2> HIDE DEF required, t
  <2> QED  BY <2>1, <2>2, <2>3 DEF t
<1>8. ProjectionPushdown(p).plan = o
  <2>1. ProjectionPushdown(<<pr, Scan>>).plan =
               IF Projected(q) = {} THEN <<pr, [Scan EXCEPT !.projection = <<>>]>>
               ELSE <<pr, [Scan EXCEPT !.projection = <<{c[2] : c \in Projected(q)}>>]>>
    BY <1>5, <1>7
  <2> QED  BY <1>3, <1>4, <1>5, <1>6, <2>1
<1>9. ProjectionPushdown(o).plan = o
  <2>1. CASE Projected(q) = {}
    BY <1>4, <1>8, <2>1
  <2>2. CASE Projected(q) # {}
    <3>1. ProjectionPushdown(<<pr, pushed>>).plan =
               <<pr, [pushed EXCEPT !.projection = <<{c[2] : c \in Projected(q)}>>]>>
      BY <1>5, <1>7, <2>2
    <3> QED  BY <1>4, <1>5, <2>2, <3>1
  <2> QED  BY <2>1, <2>2
<1>10. p[1] = pr /\ o[1] = pr
  BY <1>3, <1>4
<1>11. r # 2 => Rule(r, p).plan = p /\ Rule(r, o).plan = o
  BY <1>2, <1>10, ProjectRoot
<1>12. r = 2 => Rule(r, p).plan = o /\ Rule(r, o).plan = o
  BY <1>8, <1>9, RulesInOrder
<1> QED  BY <1>1, <1>11, <1>12 DEF p, o

\* The filter of a single node is pushed into the scan in the first round.
LEMMA RoundsFilterScan ==
  ASSUME NEW q, NEW S, OfGraph(PlanQueryGraph, S), q.limit = <<>>, q.order_by = <<>>,
         q.returns = <<>>, q.where # <<>>, graph.rels = <<>>, NEW r \in 1 .. 4
  PROVE  /\ Turn(q) = 1 /\ Rule(r, Optimised(q)).plan = Optimised(q)
         /\ r = 1 => Rule(r, PlanOf(q)).plan = Optimised(q)
<1> DEFINE fi == Filter(q.where[1])
           pushed == [Scan EXCEPT !.filters = Append(@, q.where[1])]
           p == PlanOf(q)
           o == Optimised(q)
<1>1. Turn(q) = 1
  BY DEF Turn
<1>2. fi.op = "Filter" /\ fi.predicate = q.where[1]
  BY DEF Filter
<1>3. p = <<fi, Scan>>
  <2>1. PlanQueryGraph = <<Scan>>
    BY DEF OfGraph
  <2>2. p = <<fi>> \o PlanQueryGraph
    BY PlanForms
  <2> QED  BY <2>1, <2>2, TwoOperators
<1>4. o = <<pushed>>
  BY <1>1 DEF Optimised, PushedFilter
<1>5. Scan.op = "NodeScan" /\ pushed.op = "NodeScan"
  BY ScanFacts, FilteredScan
<1>6. pushed = [Scan EXCEPT !.filters = Append(@, fi.predicate)]
  BY <1>2
<1> HIDE DEF fi, p, o, pushed
<1>7. FilterPushdown(p).plan = o
  <2>1. p[1] = fi /\ p[2] = Scan
    BY <1>3
  <2>2. FilterPushdown(p) = Yes(<<[p[2] EXCEPT !.filters = Append(@, p[1].predicate)]>>)
    BY <1>2, <1>5, <2>1 DEF FilterPushdown
  <2>3. \A x : Yes(x).plan = x
    BY DEF Yes
  <2> QED  BY <1>4, <1>6, <2>1, <2>2, <2>3
<1>8. o[1] = pushed
  BY <1>4
<1>9. Rule(r, o).plan = o
  BY <1>5, <1>8, OtherRoot
<1>10. r = 1 => Rule(r, p).plan = o
  BY <1>7, RulesInOrder
<1> QED  BY <1>1, <1>9, <1>10 DEF p, o

\* A filter above a hop is simplified in the third round, and nothing is left
\* for the fourth: what is constant is folded already, and simplifying is
\* idempotent.
LEMMA RoundsFilterHop ==
  ASSUME NEW q, NEW S, OfGraph(PlanQueryGraph, S), q.limit = <<>>, q.order_by = <<>>,
         q.returns = <<>>, q.where # <<>>, q.where[1] \in Expressions, graph.rels # <<>>,
         NEW r \in 1 .. 4
  PROVE  /\ Turn(q) = 3 /\ Rule(r, Optimised(q)).plan = Optimised(q)
         /\ r <= 3 => Rule(r, PlanOf(q)).plan = IF r = 3 THEN Optimised(q) ELSE PlanOf(q)
<1> DEFINE w == q.where[1]
           s == SimplifyPredicate[w]
           t == TryEvaluateConstant[s]
           h == PlanQueryGraph
           p == PlanOf(q)
           o == Optimised(q)
           none == <<Empty(OutputSchema(h))>>
<1>1. Turn(q) = 3
  BY DEF Turn
<1>2. \A e : Filter(e).op = "Filter" /\ Filter(e).predicate = e
  BY DEF Filter
<1>3. h \in Seq(S) /\ Len(h) \in Nat /\ Len(h) >= 1
  BY DEF OfGraph
<1>4. p = <<Filter(w)>> \o h
  BY PlanForms
<1>5. h[1].op \in {"Extend", "PathExpand"}
  BY GraphRoot
<1>6. o = IF t = "True" THEN h ELSE IF t = "False" THEN none ELSE <<Filter(s)>> \o h
  BY <1>1 DEF Optimised, SimplifiedFilter
<1>7. s \in Expressions /\ SimplifyPredicate[s] = s /\ t \in {"True", "False", "Unknown"}
  <2>1. s \in Expressions
    BY SimplifiedAssumption
  <2>2. SimplifyPredicate[s] = s
    BY Idempotent
  <2>3. t \in ConstantValues
    <3> HIDE DEF s
    <3> QED  BY <2>1, ConstantDefined
  <2> QED  BY <2>1, <2>2, <2>3 DEF ConstantValues
<1>8. none[1].op = "Empty"
  BY DEF Empty
<1>9. SimplifyPredicate[w] = s /\ TryEvaluateConstant[s] = t /\ none = <<Empty(OutputSchema(h))>>
  OBVIOUS
<1>10. p = PlanOf(q) /\ o = Optimised(q)
  OBVIOUS
<1> HIDE DEF w, s, t, h, p, o, none
<1>11. \A x : Yes(x).plan = x /\ No(x).plan = x
  BY DEF Yes, No
<1>12. ASSUME NEW e
       PROVE  LET x == <<Filter(e)>> \o h
              IN  x[1] = Filter(e) /\ x[2] = h[1] /\ Tail(x) = h
  <2> DEFINE x == <<Filter(e)>> \o h
  <2>1. x[1] = Filter(e) /\ Tail(x) = h /\ \A i \in 1 .. Len(h) : x[i + 1] = h[i]
    BY <1>3, OnTop
  <2>2. 1 \in 1 .. Len(h)
    BY <1>3
  <2> HIDE DEF x
  <2>3. x[1 + 1] = h[1]
    BY <2>1, <2>2
  <2>4. x[2] = h[1]
    BY <2>3
  <2> QED  BY <2>1, <2>4 DEF x
<1>13. p[1] = Filter(w) /\ p[2] = h[1] /\ Tail(p) = h
  BY <1>4, <1>12
<1>14. Rule(1, p).plan = p /\ Rule(2, p).plan = p
  BY <1>2, <1>5, <1>13, FilterRoot
<1>15. PredicateSimplification(p).plan = o
  <2>1. PredicateSimplification(p) =
          IF t # "Unknown" THEN Folded(p, t)
          ELSE IF s = w THEN No(p) ELSE Yes(<<Filter(s)>> \o Tail(p))
    BY <1>2, <1>9, <1>13 DEF PredicateSimplification
  <2>2. Folded(p, t) = IF t = "False" THEN Yes(none) ELSE Yes(h)
    BY <1>9, <1>13 DEF Folded
  <2> QED  BY <1>4, <1>6, <1>7, <1>11, <1>13, <2>1, <2>2
<1>16. Rule(r, o).plan = o
  <2>1. CASE t = "True"
    <3>1. o = h
      BY <1>6, <2>1
    <3> QED  BY <1>5, <3>1, OtherRoot
  <2>2. CASE t = "False"
    <3>1. o = none
      BY <1>6, <2>2
    <3> QED  BY <1>8, <3>1, OtherRoot
  <2>3. CASE t = "Unknown"
    <3>1. o = <<Filter(s)>> \o h
      BY <1>6, <2>3
    <3>2. o[1] = Filter(s) /\ o[2] = h[1]
      BY <1>12, <3>1
    <3>3. Rule(1, o).plan = o /\ Rule(2, o).plan = o
      BY <1>2, <1>5, <3>2, FilterRoot
    <3>4. PredicateSimplification(o) = No(o)
      BY <1>2, <1>7, <1>9, <2>3, <3>2 DEF PredicateSimplification
    <3>5. ConstantFolding(o) = No(o)
      BY <1>2, <1>9, <2>3, <3>2 DEF ConstantFolding
    <3>6. Rule(3, o).plan = o /\ Rule(4, o).plan = o
      BY <1>11, <3>4, <3>5, RulesInOrder
    <3>7. r = 1 \/ r = 2 \/ r = 3 \/ r = 4
      OBVIOUS
    <3> QED  BY <3>3, <3>6, <3>7
  <2> QED  BY <1>7, <2>1, <2>2, <2>3
<1>17. r <= 3 => Rule(r, p).plan = IF r = 3 THEN o ELSE p
  <2>1. Rule(3, p).plan = o
    BY <1>15, RulesInOrder
  <2>2. r <= 3 => r = 1 \/ r = 2 \/ r = 3
    OBVIOUS
  <2> QED  BY <1>14, <2>1, <2>2
<1> QED  BY <1>1, <1>10, <1>16, <1>17

\* What a round makes of the plan of a query and of the optimised plan, in every
\* case.
LEMMA Rounds ==
  ASSUME NEW q, NEW S, OfGraph(PlanQueryGraph, S), IsBound(q), NEW r \in 1 .. 4
  PROVE  /\ Turn(q) \in 0 .. 3
         /\ Rule(r, Optimised(q)).plan = Optimised(q)
         /\ r <= Turn(q) => Rule(r, PlanOf(q)).plan = IF r = Turn(q) THEN Optimised(q) ELSE PlanOf(q)
         /\ Turn(q) = 0 => Optimised(q) = PlanOf(q)
<1>1. q.where # <<>> => q.where[1] \in Expressions
  BY DEF IsBound
<1>2. CASE q.limit # <<>> \/ q.order_by # <<>>
  BY <1>2, RoundsLimited
<1>3. CASE q.limit = <<>> /\ q.order_by = <<>> /\ q.returns = <<>> /\ q.where = <<>>
  BY <1>3, RoundsGraph
<1>4. CASE q.limit = <<>> /\ q.order_by = <<>> /\ q.returns # <<>> /\ (q.where # <<>> \/ graph.rels # <<>>)
  BY <1>4, RoundsReturn
<1>5. CASE q.limit = <<>> /\ q.order_by = <<>> /\ q.returns # <<>> /\ q.where = <<>> /\ graph.rels = <<>>
  BY <1>5, RoundsReturnScan
<1>6. CASE q.limit = <<>> /\ q.order_by = <<>> /\ q.returns = <<>> /\ q.where # <<>> /\ graph.rels = <<>>
  BY <1>6, RoundsFilterScan
<1>7. CASE q.limit = <<>> /\ q.order_by = <<>> /\ q.returns = <<>> /\ q.where # <<>> /\ graph.rels # <<>>
  BY <1>1, <1>7, RoundsFilterHop
<1> QED  BY <1>2, <1>3, <1>4, <1>5, <1>6, <1>7

-----------------------------------------------------------------------------
(* The invariant: the plan is the plan of the query, until the rule whose  *)
(* turn it is, and the optimised plan afterwards.                          *)

QueryGraphs ==
  [nodes : Seq(Variables),
   rels : Seq([variable : {<<>>} \cup {<<x>> : x \in Variables}, src : Variables, dst : Variables,
               bounds : PathBounds])]

Current(q) == IF passes = 0 /\ rule <= Turn(q) THEN PlanOf(q) ELSE Optimised(q)

Planned(q) ==
  /\ query = <<q>> /\ IsBound(q) /\ graph.nodes # <<>>
  /\ plan = Current(q) /\ plan # <<>>
  /\ rule \in 1 .. 5 /\ passes \in {0, 1}

PlannerInv ==
  /\ graph \in QueryGraphs
  /\ \A i \in DOMAIN graph.nodes :
       graph.nodes[i] \in DOMAIN scope /\ \E l \in DOMAIN Schemas : scope[graph.nodes[i]] = <<l>>
  /\ \/ query = <<>> /\ plan = <<>> /\ rule = 1 /\ passes = 0
     \/ \E q \in Range(query) : Planned(q)

\* The plans of a query depend on its graph and the scope only.
LEMMA SamePlans ==
  ASSUME graph' = graph, scope' = scope, NEW q
  PROVE  /\ PlanOf(q)' = PlanOf(q) /\ Turn(q)' = Turn(q) /\ Optimised(q)' = Optimised(q)
         /\ IsBound(q)' = IsBound(q)
<1>1. HopsTo' = HopsTo
  BY DEF HopsTo, Hop
<1>2. Scan' = Scan /\ NodeScan(graph.nodes[1])' = NodeScan(graph.nodes[1])
  BY DEF Scan, NodeScan
<1>3. PlanQueryGraph' = PlanQueryGraph
  BY <1>1, <1>2 DEF PlanQueryGraph
<1>4. PlanOf(q)' = PlanOf(q)
  BY <1>3 DEF PlanOf
<1>5. Turn(q)' = Turn(q)
  BY DEF Turn
<1>6. Projected(q)' = Projected(q)
  BY <1>2 DEF Projected
<1>7. PushedFilter(q)' = PushedFilter(q)
  BY <1>2 DEF PushedFilter
<1>8. PushedProjection(q)' = PushedProjection(q)
  BY <1>2, <1>6 DEF PushedProjection
<1>9. SimplifiedFilter(q)' = SimplifiedFilter(q)
  BY <1>3 DEF SimplifiedFilter
<1>10. Optimised(q)' = Optimised(q)
  BY <1>4, <1>5, <1>6, <1>7, <1>8, <1>9 DEF Optimised
<1> QED  BY <1>4, <1>5, <1>10

\* The plan of the graph is one in every state.
LEMMA GraphPlanned ==
  ASSUME PlannerInv
  PROVE  \E S : OfGraph(PlanQueryGraph, S)
<1>1. \E R : graph.rels \in Seq(R)
  BY DEF PlannerInv, QueryGraphs
<1> QED  BY <1>1, GraphPlan

\* The query of a state with a plan.
LEMMA ThePlanned ==
  ASSUME PlannerInv, NEW q \in Range(query)
  PROVE  Planned(q)
<1>1. query # <<>>
  BY DEF Range
<1>2. PICK x : Planned(x)
  BY <1>1 DEF PlannerInv
<1>3. query = <<x>>
  BY <1>2 DEF Planned
<1>4. q = x
  BY <1>3 DEF Range
<1> QED  BY <1>2, <1>4

\* What a round makes of the plan.
LEMMA RoundPlan ==
  ASSUME PlannerInv, NEW q, Planned(q), rule <= 4
  PROVE  /\ rule \in 1 .. 4
         /\ Rule(rule, plan).plan =
              IF passes = 0 /\ rule + 1 <= Turn(q) THEN PlanOf(q) ELSE Optimised(q)
         /\ passes = 1 => Rule(rule, plan).plan = plan
<1>1. rule \in 1 .. 4 /\ IsBound(q) /\ passes \in {0, 1} /\ plan = Current(q)
  BY DEF Planned
<1>2. PICK S : OfGraph(PlanQueryGraph, S)
  BY GraphPlanned
<1>3. /\ Turn(q) \in 0 .. 3
      /\ Rule(rule, Optimised(q)).plan = Optimised(q)
      /\ rule <= Turn(q) =>
           Rule(rule, PlanOf(q)).plan = IF rule = Turn(q) THEN Optimised(q) ELSE PlanOf(q)
  BY <1>1, <1>2, Rounds
<1>4. CASE passes = 0 /\ rule <= Turn(q)
  BY <1>1, <1>3, <1>4 DEF Current
<1>5. CASE ~(passes = 0 /\ rule <= Turn(q))
  BY <1>1, <1>3, <1>5 DEF Current
<1> QED  BY <1>4, <1>5

\* An optimised plan has a root.
LEMMA OptimisedNotEmpty ==
  ASSUME NEW q, NEW S, OfGraph(PlanQueryGraph, S)
  PROVE  Optimised(q) # <<>>
<1> DEFINE h == PlanQueryGraph
<1>1. h \in Seq(S) /\ Len(h) >= 1 /\ h # <<>>
  BY DEF OfGraph
<1>2. PushedFilter(q) # <<>>
  BY DEF PushedFilter
<1>3. PushedProjection(q) # <<>>
  BY DEF PushedProjection
<1>4. SimplifiedFilter(q) # <<>>
  <2>1. \A e : <<Filter(e)>> \o h # <<>>
    <3> HIDE DEF h
    <3> QED  BY <1>1, OnTop
  <2>2. \A c : <<Empty(c)>> # <<>>
    OBVIOUS
  <2> QED  BY <1>1, <2>1, <2>2 DEF SimplifiedFilter
<1>5. PlanOf(q) # <<>>
  BY PlanForms
<1> QED  BY <1>2, <1>3, <1>4, <1>5 DEF Optimised

\* The invariant holds before anything is bound.
LEMMA PlannerInit ==
  ASSUME Init  PROVE PlannerInv
<1>1. graph = [nodes |-> <<>>, rels |-> <<>>] /\ query = <<>> /\ plan = <<>> /\ rule = 1 /\ passes = 0
  BY DEF Init
<1>2. graph \in QueryGraphs /\ DOMAIN graph.nodes = {}
  BY <1>1 DEF QueryGraphs
<1> QED  BY <1>1, <1>2 DEF PlannerInv

\* The binder, the planner and every round of the optimizer keep the invariant.
LEMMA PlannerStep ==
  ASSUME PlannerInv, [Next]_vars  PROVE PlannerInv'
<1> DEFINE Bound == \A i \in DOMAIN graph.nodes :
              graph.nodes[i] \in DOMAIN scope /\ \E l \in DOMAIN Schemas : scope[graph.nodes[i]] = <<l>>
           Nothing == query = <<>> /\ plan = <<>> /\ rule = 1 /\ passes = 0
<1>1. graph \in QueryGraphs /\ Bound /\ (Nothing \/ \E q \in Range(query) : Planned(q))
  BY DEF PlannerInv
<1>2. plan = <<>> => Nothing
  BY <1>1 DEF Planned
<1>3. ASSUME NEW v \in Variables, NEW l \in Labels, BindNode(v, l)  PROVE PlannerInv'
  <2>1. Nothing /\ Nothing'
    BY <1>2, <1>3 DEF BindNode, Binding
  <2>2. CASE UNCHANGED <<scope, graph>>
    BY <1>1, <2>1, <2>2 DEF PlannerInv, QueryGraphs
  <2>3. CASE /\ v \notin DOMAIN scope /\ l \in DOMAIN Schemas
             /\ scope' = Bind(v, <<l>>)
             /\ graph' = [graph EXCEPT !.nodes = Append(@, v)]
    <3>1. graph.nodes \in Seq(Variables) /\ graph'.nodes = Append(graph.nodes, v) /\ graph' \in QueryGraphs
      <4> DEFINE R == [variable : {<<>>} \cup {<<x>> : x \in Variables}, src : Variables,
                       dst : Variables, bounds : PathBounds]
      <4>1. QueryGraphs = [nodes : Seq(Variables), rels : Seq(R)]
        BY DEF QueryGraphs
      <4> HIDE DEF R
      <4>2. graph \in [nodes : Seq(Variables), rels : Seq(R)]
        BY <1>1, <4>1
      <4>3. graph.nodes \in Seq(Variables) /\ Append(graph.nodes, v) \in Seq(Variables)
        BY <4>2
      <4>4. graph'.nodes = Append(graph.nodes, v)
        BY <2>3, <4>2
      <4>5. graph' \in [nodes : Seq(Variables), rels : Seq(R)]
        BY <2>3, <4>2, <4>3
      <4> QED  BY <4>1, <4>3, <4>4, <4>5
    <3>2. scope' = [x \in DOMAIN scope \cup {v} |-> IF x = v THEN <<l>> ELSE scope[x]]
      BY <2>3 DEF Bind
    <3>3. Bound'
      <4> SUFFICES ASSUME NEW i \in DOMAIN graph'.nodes
                   PROVE  graph'.nodes[i] \in DOMAIN scope' /\ \E k \in DOMAIN Schemas : scope'[graph'.nodes[i]] = <<k>>
        OBVIOUS
      <4> DEFINE n == Len(graph.nodes)
      <4>1. n \in Nat /\ DOMAIN graph.nodes = 1 .. n /\ i \in 1 .. n + 1
        BY <3>1
      <4>2. CASE i = n + 1
        <5>1. graph'.nodes[i] = v
          BY <3>1, <4>2
        <5> QED  BY <2>3, <3>2, <5>1
      <4>3. CASE i \in 1 .. n
        <5>1. graph'.nodes[i] = graph.nodes[i]
          BY <3>1, <4>3
        <5>2. graph.nodes[i] \in DOMAIN scope /\ \E k \in DOMAIN Schemas : scope[graph.nodes[i]] = <<k>>
          BY <1>1, <4>1, <4>3
        <5> QED  BY <2>3, <3>2, <5>1, <5>2
      <4> QED  BY <4>1, <4>2, <4>3
    <3> QED  BY <2>1, <3>1, <3>3 DEF PlannerInv
  <2> QED  BY <1>3, <2>2, <2>3 DEF BindNode, Fails
<1>4. ASSUME NEW v \in {<<>>} \cup {<<x>> : x \in Variables}, NEW type \in RelNames,
             NEW src \in Variables, NEW dst \in Variables, NEW b \in PathBounds,
             BindRelationship(v, type, src, dst, b)
      PROVE  PlannerInv'
  <2>1. Nothing /\ Nothing'
    BY <1>2, <1>4 DEF BindRelationship, Binding
  <2>2. CASE UNCHANGED <<scope, graph>>
    BY <1>1, <2>1, <2>2 DEF PlannerInv, QueryGraphs
  <2>3. CASE /\ ~(\E x \in Range(v) : x \in DOMAIN scope)
             /\ scope' = (IF v = <<>> THEN scope ELSE Bind(v[1], <<>>))
             /\ graph' = [graph EXCEPT !.rels =
                            Append(@, [variable |-> v, src |-> src, dst |-> dst, bounds |-> b])]
    <3>1. graph' \in QueryGraphs /\ graph'.nodes = graph.nodes
      <4> DEFINE R == [variable : {<<>>} \cup {<<x>> : x \in Variables}, src : Variables,
                       dst : Variables, bounds : PathBounds]
                 rel == [variable |-> v, src |-> src, dst |-> dst, bounds |-> b]
      <4>1. rel \in R
        OBVIOUS
      <4>2. graph.rels \in Seq(R) /\ graph \in [nodes : Seq(Variables), rels : Seq(R)]
        BY <1>1 DEF QueryGraphs
      <4>3. QueryGraphs = [nodes : Seq(Variables), rels : Seq(R)] /\ graph' = [graph EXCEPT !.rels = Append(@, rel)]
        BY <2>3 DEF QueryGraphs
      <4> HIDE DEF R, rel
      <4>4. Append(graph.rels, rel) \in Seq(R)
        BY <4>1, <4>2
      <4> QED  BY <4>2, <4>3, <4>4
    <3>2. \A x \in DOMAIN scope : x \in DOMAIN scope' /\ scope'[x] = scope[x]
      <4>1. CASE v = <<>>
        BY <2>3, <4>1
      <4>2. CASE v # <<>>
        <5>1. PICK y \in Variables : v = <<y>>
          BY <4>2
        <5>2. v[1] = y /\ y \in Range(v)
          BY <5>1 DEF Range
        <5>3. y \notin DOMAIN scope
          BY <2>3, <5>2
        <5>4. scope' = [x \in DOMAIN scope \cup {y} |-> IF x = y THEN <<>> ELSE scope[x]]
          BY <2>3, <4>2, <5>2 DEF Bind
        <5> QED  BY <5>3, <5>4
      <4> QED  BY <4>1, <4>2
    <3>3. Bound'
      BY <1>1, <3>1, <3>2
    <3> QED  BY <2>1, <3>1, <3>3 DEF PlannerInv
  <2> QED  BY <1>4, <2>2, <2>3 DEF BindRelationship, Fails
<1>5. ASSUME NEW q, plan = <<>>, Plan(q)  PROVE PlannerInv'
  <2>1. /\ Nothing /\ IsBound(q) /\ graph.nodes # <<>> /\ query' = <<q>> /\ plan' = PlanOf(q)
        /\ UNCHANGED <<scope, graph, rule, passes>>
    BY <1>2, <1>5 DEF Plan
  <2>2. PICK S : OfGraph(PlanQueryGraph, S)
    BY GraphPlanned
  <2>3. PlanOf(q) # <<>> /\ Turn(q) \in 0 .. 3 /\ (Turn(q) = 0 => Optimised(q) = PlanOf(q))
    <3>1. 1 \in 1 .. 4
      OBVIOUS
    <3> QED  BY <2>1, <2>2, <3>1, PlanForms, Rounds
  <2>4. Optimised(q)' = Optimised(q) /\ PlanOf(q)' = PlanOf(q) /\ Turn(q)' = Turn(q) /\ IsBound(q)'
    BY <2>1, SamePlans
  <2>5. Planned(q)'
    <3>1. plan' = Current(q)'
      BY <2>1, <2>3, <2>4 DEF Current
    <3> QED  BY <2>1, <2>3, <2>4, <3>1 DEF Planned
  <2>6. q \in Range(query')
    BY <2>1 DEF Range
  <2>7. graph' \in QueryGraphs /\ Bound'
    BY <1>1, <2>1 DEF QueryGraphs
  <2> QED  BY <2>5, <2>6, <2>7 DEF PlannerInv
<1>6. ASSUME ApplyRule  PROVE PlannerInv'
  <2>1. /\ plan # <<>> /\ rule <= 4 /\ plan' = Rule(rule, plan).plan /\ rule' = rule + 1
        /\ UNCHANGED <<scope, graph, query, passes>>
    BY <1>6, RulesInOrder DEF ApplyRule, Rule
  <2>2. PICK q \in Range(query) : Planned(q)
    BY <1>1, <2>1
  <2>3. /\ rule \in 1 .. 4
        /\ plan' = IF passes = 0 /\ rule + 1 <= Turn(q) THEN PlanOf(q) ELSE Optimised(q)
    BY <2>1, <2>2, RoundPlan
  <2>4. Optimised(q)' = Optimised(q) /\ PlanOf(q)' = PlanOf(q) /\ Turn(q)' = Turn(q) /\ IsBound(q)'
    BY <2>1, <2>2, SamePlans DEF Planned
  <2>5. plan' # <<>>
    <3>1. PICK S : OfGraph(PlanQueryGraph, S)
      BY GraphPlanned
    <3> QED  BY <2>2, <2>3, <3>1, OptimisedNotEmpty, PlanForms DEF Planned
  <2>6. Planned(q)'
    <3>1. plan' = Current(q)'
      BY <2>1, <2>3, <2>4 DEF Current
    <3> QED  BY <2>1, <2>2, <2>3, <2>4, <2>5, <3>1 DEF Planned
  <2>7. graph' \in QueryGraphs /\ Bound'
    BY <1>1, <2>1 DEF QueryGraphs
  <2> QED  BY <2>1, <2>2, <2>6, <2>7 DEF PlannerInv
<1>7. ASSUME OptimizeAgain  PROVE PlannerInv'
  <2>1. rule > 4 /\ passes = 0 /\ passes' = 1 /\ rule' = 1 /\ UNCHANGED <<scope, graph, query, plan>>
    BY <1>7, RulesInOrder DEF OptimizeAgain
  <2>2. PICK q \in Range(query) : Planned(q)
    BY <1>1, <2>1
  <2>3. Turn(q) \in 0 .. 3
    <3>1. PICK S : OfGraph(PlanQueryGraph, S)
      BY GraphPlanned
    <3>2. 1 \in 1 .. 4
      OBVIOUS
    <3> QED  BY <2>2, <3>1, <3>2, Rounds DEF Planned
  <2>4. plan = Optimised(q)
    BY <2>1, <2>2, <2>3 DEF Planned, Current
  <2>5. Optimised(q)' = Optimised(q) /\ IsBound(q)'
    BY <2>1, <2>2, SamePlans DEF Planned
  <2>6. Planned(q)'
    BY <2>1, <2>2, <2>4, <2>5 DEF Planned, Current
  <2>7. graph' \in QueryGraphs /\ Bound'
    BY <1>1, <2>1 DEF QueryGraphs
  <2> QED  BY <2>1, <2>2, <2>6, <2>7 DEF PlannerInv
<1>8. ASSUME UNCHANGED vars  PROVE PlannerInv'
  <2>1. UNCHANGED <<scope, graph, query, plan, rule, passes>>
    BY <1>8 DEF vars
  <2>2. ASSUME NEW q, Planned(q)  PROVE Planned(q)'
    <3>1. Optimised(q)' = Optimised(q) /\ PlanOf(q)' = PlanOf(q) /\ Turn(q)' = Turn(q) /\ IsBound(q)'
      BY <2>1, <2>2, SamePlans DEF Planned
    <3> QED  BY <2>1, <2>2, <3>1 DEF Planned, Current
  <2>3. graph' \in QueryGraphs /\ Bound'
    BY <1>1, <2>1 DEF QueryGraphs
  <2> QED  BY <1>1, <2>1, <2>2, <2>3 DEF PlannerInv
<1> QED  BY <1>3, <1>4, <1>5, <1>6, <1>7, <1>8 DEF Next

\* The binder makes graphs that can be planned, and a plan is what the rules that
\* had their turn make of the query (PlannerInv): optimize_with_tracking rewrites
\* it once at most.
THEOREM PlanFollowsRules == Spec => []PlannerInv
<1>1. Init => PlannerInv
  BY PlannerInit
<1>2. PlannerInv /\ [Next]_vars => PlannerInv'
  BY PlannerStep
<1> QED  BY <1>1, <1>2, PTL DEF Spec

-----------------------------------------------------------------------------
(* One pass over the rules is enough *)

\* Optimising an optimised plan changes nothing (FixedPoint): the only rule that
\* changes the plan of a query has had its turn in the first pass.
THEOREM OnePassEnough == Spec => FixedPoint
<1>1. PlannerInv /\ [Next]_vars => [ApplyRule /\ passes = 1 => plan' = plan]_vars
  <2> SUFFICES ASSUME PlannerInv, ApplyRule, passes = 1  PROVE plan' = plan
    BY DEF vars
  <2>1. plan # <<>> /\ rule <= 4 /\ plan' = Rule(rule, plan).plan
    BY RulesInOrder DEF ApplyRule, Rule
  <2>2. PICK q \in Range(query) : Planned(q)
    BY <2>1 DEF PlannerInv
  <2> QED  BY <2>1, <2>2, RoundPlan
<1> QED  BY <1>1, PlanFollowsRules, PTL DEF Spec, FixedPoint

-----------------------------------------------------------------------------
(* The rows that a plan selects *)

\* The predicates that an operator applies.
Applied(o) ==
  CASE o.op = "Filter" -> {o.predicate}
    [] o.op = "NodeScan" -> Range(o.filters)
    [] OTHER -> {}

\* A plan keeps a row if each of its operators does.
LEMMA SelectsByOperator ==
  ASSUME NEW p, NEW row
  PROVE  Selects(p, row) <=>
           \A o \in Range(p) : o.op # "Empty" /\ \A f \in Applied(o) : Evaluate(f, row) = Bool(TRUE)
<1>1. Filters(p) = UNION {Applied(p[i]) : i \in DOMAIN p}
  BY DEF Filters, Applied
<1>2. Range(p) = {p[i] : i \in DOMAIN p}
  BY DEF Range
<1> QED  BY <1>1, <1>2 DEF Selects

\* The hops and the scan of a pattern drop no row.
LEMMA GraphSelects ==
  ASSUME NEW S, OfGraph(PlanQueryGraph, S), NEW o \in Range(PlanQueryGraph)
  PROVE  o.op # "Empty" /\ Applied(o) = {}
<1>1. o = Scan \/ o.op \in {"Extend", "PathExpand"}
  BY GraphRoot
<1>2. CASE o = Scan
  <2>1. Range(Scan.filters) = {} /\ Scan.op = "NodeScan"
    BY ScanFacts DEF Range
  <2> QED  BY <1>2, <2>1 DEF Applied
<1>3. CASE o.op \in {"Extend", "PathExpand"}
  BY <1>3 DEF Applied
<1> QED  BY <1>1, <1>2, <1>3

\* Of the plan of a query, only the filter does.
LEMMA PlanSelects ==
  ASSUME NEW q, NEW S, OfGraph(PlanQueryGraph, S), q.where # <<>>, NEW row
  PROVE  Selects(PlanOf(q), row) <=> Evaluate(q.where[1], row) = Bool(TRUE)
<1>1. Range(PlanOf(q)) = Range(LimitOf(q)) \cup Range(SortOf(q)) \cup Range(ProjectOf(q))
                           \cup Range(FilterOf(q)) \cup Range(PlanQueryGraph)
  BY PlanForms
<1>2. \A x : Range(<<x>>) = {x}
  <2> SUFFICES ASSUME NEW x  PROVE Range(<<x>>) = {x}
    OBVIOUS
  <2> DEFINE a == <<x>>
  <2>1. DOMAIN a = {1} /\ a[1] = x
    OBVIOUS
  <2> HIDE DEF a
  <2>2. Range(a) = {x}
    BY <2>1 DEF Range
  <2> QED  BY <2>2 DEF a
<1>3. Range(<<>>) = {}
  BY DEF Range
<1>4. ASSUME NEW o \in Range(LimitOf(q))  PROVE o.op # "Empty" /\ Applied(o) = {}
  <2>1. o.op = "Limit"
    BY <1>2, <1>3 DEF LimitOf
  <2> QED  BY <2>1 DEF Applied
<1>5. ASSUME NEW o \in Range(SortOf(q))  PROVE o.op # "Empty" /\ Applied(o) = {}
  <2>1. o.op = "Sort"
    BY <1>2, <1>3 DEF SortOf
  <2> QED  BY <2>1 DEF Applied
<1>6. ASSUME NEW o \in Range(ProjectOf(q))  PROVE o.op # "Empty" /\ Applied(o) = {}
  <2>1. o.op = "Project"
    BY <1>2, <1>3 DEF ProjectOf, Project
  <2> QED  BY <2>1 DEF Applied
<1>7. /\ Range(FilterOf(q)) = {Filter(q.where[1])} /\ Filter(q.where[1]).op = "Filter"
      /\ Applied(Filter(q.where[1])) = {q.where[1]}
  BY <1>2 DEF FilterOf, Filter, Applied
<1>8. \A o \in Range(PlanQueryGraph) : o.op # "Empty" /\ Applied(o) = {}
  BY GraphSelects
<1>9. Selects(PlanOf(q), row) <=>
        \A o \in Range(PlanOf(q)) : o.op # "Empty" /\ \A f \in Applied(o) : Evaluate(f, row) = Bool(TRUE)
  BY SelectsByOperator
<1> DEFINE keeps(o) == o.op # "Empty" /\ \A f \in Applied(o) : Evaluate(f, row) = Bool(TRUE)
<1>10. (\A o \in Range(PlanOf(q)) : keeps(o)) <=> keeps(Filter(q.where[1]))
  <2>1. \A o \in Range(PlanOf(q)) : o = Filter(q.where[1]) \/ (o.op # "Empty" /\ Applied(o) = {})
    BY <1>1, <1>4, <1>5, <1>6, <1>7, <1>8
  <2>2. Filter(q.where[1]) \in Range(PlanOf(q))
    BY <1>1, <1>7
  <2>3. \A o : o.op # "Empty" /\ Applied(o) = {} => keeps(o)
    OBVIOUS
  <2> HIDE DEF keeps
  <2> QED  BY <2>1, <2>2, <2>3
<1>11. keeps(Filter(q.where[1])) <=> Evaluate(q.where[1], row) = Bool(TRUE)
  BY <1>7
<1> QED  BY <1>9, <1>10, <1>11

\* An optimised plan selects the same rows, if the predicate is true or false of them.
LEMMA OptimisedSelects ==
  ASSUME NEW q, NEW S, OfGraph(PlanQueryGraph, S), IsBound(q), q.where # <<>>,
         NEW row, CanonicalRow(row), Definite(Evaluate(q.where[1], row)),
         OrdersAgree(q.where[1])
  PROVE  Selects(Optimised(q), row) <=> Evaluate(q.where[1], row) = Bool(TRUE)
<1> DEFINE w == q.where[1]
           keeps(o) == o.op # "Empty" /\ \A f \in Applied(o) : Evaluate(f, row) = Bool(TRUE)
<1>1. w \in Expressions
  BY DEF IsBound
<1>2. Turn(q) # 2
  BY DEF Turn
<1>3. ASSUME NEW p  PROVE Selects(p, row) <=> \A o \in Range(p) : keeps(o)
  BY SelectsByOperator
<1>4. \A x : Range(<<x>>) = {x}
  <2> SUFFICES ASSUME NEW x  PROVE Range(<<x>>) = {x}
    OBVIOUS
  <2> DEFINE a == <<x>>
  <2>1. DOMAIN a = {1} /\ a[1] = x
    OBVIOUS
  <2> HIDE DEF a
  <2>2. Range(a) = {x}
    BY <2>1 DEF Range
  <2> QED  BY <2>2 DEF a
<1>5. CASE Turn(q) = 1
  <2> DEFINE pushed == [Scan EXCEPT !.filters = Append(Scan.filters, w)]
  <2>1. Optimised(q) = <<pushed>>
    BY <1>5 DEF Optimised, PushedFilter
  <2>2. pushed.op = "NodeScan" /\ pushed.filters = Append(Scan.filters, w)
    BY FilteredScan
  <2>3. Append(Scan.filters, w) = <<w>>
    BY ScanFacts
  <2>4. Applied(pushed) = {w}
    <3> HIDE DEF pushed, w
    <3> QED  BY <1>4, <2>2, <2>3 DEF Applied
  <2>5. Range(Optimised(q)) = {pushed}
    BY <1>4, <2>1
  <2> HIDE DEF pushed, w
  <2>6. keeps(pushed) <=> Evaluate(w, row) = Bool(TRUE)
    BY <2>2, <2>4
  <2> HIDE DEF keeps
  <2> QED  BY <1>3, <2>5, <2>6 DEF w
<1>6. CASE Turn(q) = 3
  <2> DEFINE s == SimplifyPredicate[w]
             t == TryEvaluateConstant[s]
             h == PlanQueryGraph
             o == Optimised(q)
             fi == Filter(s)
  <2>1. o = IF t = "True" THEN h ELSE IF t = "False" THEN <<Empty(OutputSchema(h))>> ELSE <<fi>> \o h
    BY <1>6 DEF Optimised, SimplifiedFilter
  <2>2. /\ s \in Expressions /\ Evaluate(s, row) = Evaluate(w, row)
        /\ OrdersAgree(s)
    BY <1>1, SimplifiedAssumption, SimplifySound, FoldedShrink DEF OrdersAgree
  <2>3. t # "Unknown" => Evaluate(s, row) = Bool(t = "True")
    BY <2>2, ConstantSound
  <2>4. t \in {"True", "False", "Unknown"}
    <3>1. t \in ConstantValues
      <4> HIDE DEF s
      <4> QED  BY <2>2, ConstantDefined
    <3> QED  BY <3>1 DEF ConstantValues
  <2>5. \A x \in Range(h) : keeps(x)
    BY GraphSelects
  <2>6. keeps(fi) <=> Evaluate(s, row) = Bool(TRUE)
    <3>1. fi.op = "Filter" /\ Applied(fi) = {s}
      BY DEF Filter, Applied
    <3> HIDE DEF fi, s
    <3> QED  BY <3>1
  <2>7. ~keeps(Empty(OutputSchema(h)))
    BY DEF Empty
  <2>8. Range(<<fi>> \o h) = {fi} \cup Range(h)
    <3>1. h \in Seq(S)
      BY DEF OfGraph
    <3> HIDE DEF h, fi
    <3> QED  BY <3>1, OnTop
  <2>9. Selects(o, row) <=> \A x \in Range(o) : keeps(x)
    BY <1>3
  <2>10. Bool(TRUE) # Bool(FALSE)
    BY BooleanFacts
  <2> HIDE DEF keeps, o, fi, h, t, s, w
  <2>11. CASE t = "True"
    <3>1. o = h /\ Evaluate(w, row) = Bool(TRUE)
      BY <2>1, <2>2, <2>3, <2>11 DEF Bool
    <3> QED  BY <2>5, <2>9, <3>1 DEF o, w
  <2>12. CASE t = "False"
    <3>1. Range(o) = {Empty(OutputSchema(h))} /\ Evaluate(w, row) = Bool(FALSE)
      BY <1>4, <2>1, <2>2, <2>3, <2>12 DEF Bool
    <3> QED  BY <2>7, <2>9, <2>10, <3>1 DEF o, w
  <2>13. CASE t = "Unknown"
    <3>1. Range(o) = {fi} \cup Range(h)
      BY <2>1, <2>8, <2>13
    <3> QED  BY <2>2, <2>5, <2>6, <2>9, <3>1 DEF o, w
  <2> QED  BY <2>4, <2>11, <2>12, <2>13
<1>7. CASE Turn(q) = 0
  <2>1. Optimised(q) = PlanOf(q)
    BY <1>7 DEF Optimised
  <2> QED  BY <2>1, PlanSelects
<1>8. Turn(q) \in {0, 1, 2, 3}
  BY DEF Turn
<1> QED  BY <1>2, <1>5, <1>6, <1>7, <1>8

\* The true and the false of a row are written as Bool writes them.
LEMMA RowsCanonical ==
  ASSUME NEW columns, NEW row \in RowsOver(columns)
  PROVE  CanonicalRow(row)
<1>1. PICK content \in [columns -> {<<>>, <<0>>, <<1>>}] :
        row = [c \in columns |-> [type |-> Schemas[scope[c[1]][1]][c[2]], val |-> content[c]]]
  BY DEF RowsOver
<1>2. ASSUME NEW c \in columns, Definite(row[c])  PROVE row[c] \in Booleans
  <2> DEFINE type == Schemas[scope[c[1]][1]][c[2]]
  <2>1. row[c] = [type |-> type, val |-> content[c]]
    BY <1>1
  <2> HIDE DEF type
  <2>2. type = "bool" /\ content[c] # <<>> /\ content[c] \in {<<>>, <<0>>, <<1>>}
    BY <1>2, <2>1 DEF Definite
  <2>3. row[c] = [type |-> "bool", val |-> <<0>>] \/ row[c] = [type |-> "bool", val |-> <<1>>]
    BY <2>1, <2>2
  <2> QED  BY <2>3 DEF Booleans, Bool
<1>3. DOMAIN row = columns
  BY <1>1
<1> QED  BY <1>2, <1>3 DEF CanonicalRow

\* Where the WHERE clause is true of a row the plan keeps it, where it is false
\* the plan drops it (DefiniteRowsKept), whatever the rules did, if the two
\* orders of floats agree on the literals it compares.
THEOREM RowsKept == Spec => []DefiniteRowsKept
<1>1. PlannerInv => DefiniteRowsKept
  <2> SUFFICES ASSUME PlannerInv, NEW q \in Range(query), NEW w \in Range(q.where),
                      NEW row \in RowsOver(CollectColumns[w]), Definite(Evaluate(w, row)),
                      OrdersAgree(w)
               PROVE  Selects(plan, row) <=> Evaluate(w, row) = Bool(TRUE)
    BY DEF DefiniteRowsKept, Definite
  <2>1. Planned(q)
    BY ThePlanned
  <2>2. q.where # <<>> /\ w = q.where[1] /\ IsBound(q)
    <3>1. q.where \in Seq(Expressions) /\ Len(q.where) <= 1 /\ IsBound(q)
      BY <2>1 DEF Planned, IsBound
    <3>2. PICK i \in DOMAIN q.where : w = q.where[i]
      BY DEF Range
    <3>3. i = 1
      BY <3>1, <3>2
    <3> QED  BY <3>1, <3>2, <3>3
  <2>3. PICK S : OfGraph(PlanQueryGraph, S)
    BY GraphPlanned
  <2>4. CanonicalRow(row)
    BY RowsCanonical
  <2>5. plan = PlanOf(q) \/ plan = Optimised(q)
    BY <2>1 DEF Planned, Current
  <2>6. Selects(PlanOf(q), row) <=> Evaluate(w, row) = Bool(TRUE)
    BY <2>2, <2>3, PlanSelects
  <2>7. Selects(Optimised(q), row) <=> Evaluate(w, row) = Bool(TRUE)
    BY <2>2, <2>3, <2>4, OptimisedSelects
  <2> QED  BY <2>5, <2>6, <2>7
<1> QED  BY <1>1, PlanFollowsRules, PTL

-----------------------------------------------------------------------------
(* The columns that a plan reads and returns *)

\* The columns that an operator reads.
Reads(o) ==
  CASE o.op = "Filter" -> CollectColumns[o.predicate]
    [] o.op = "Project" -> RequiredColumns(o.expressions)
    [] OTHER -> {}

\* A plan of one operator.
LEMMA OneOperator ==
  ASSUME NEW o
  PROVE  /\ <<o>> \in Seq({o}) /\ Len(<<o>>) >= 1
         /\ \A i \in 1 .. Len(<<o>>) - 1 : <<o>>[i].op \in {"Extend", "PathExpand"}
OBVIOUS

\* Hops and scans read nothing.
LEMMA UnresolvedHops ==
  ASSUME NEW S, NEW h \in Seq(S),
         \A i \in 1 .. Len(h) - 1 : h[i].op \in {"Extend", "PathExpand"}
  PROVE  Unresolved(h) = {}
<1>1. Unresolved(h) = UNION {Reads(h[i]) \ OutputSchema(SubSeq(h, i + 1, Len(h))) : i \in 1 .. Len(h) - 1}
  BY DEF Unresolved, Reads
<1>2. \A i \in 1 .. Len(h) - 1 : Reads(h[i]) = {}
  BY DEF Reads
<1> QED  BY <1>1, <1>2

\* Above hops and a scan only the new root may read what its input lacks.
LEMMA UnresolvedOnTop ==
  ASSUME NEW S, NEW h \in Seq(S), Len(h) >= 1, NEW x,
         \A i \in 1 .. Len(h) - 1 : h[i].op \in {"Extend", "PathExpand"}
  PROVE  Unresolved(<<x>> \o h) = Reads(x) \ OutputSchema(h)
<1> DEFINE p == <<x>> \o h
           n == Len(h)
           missing(t, i) == Reads(t[i]) \ OutputSchema(SubSeq(t, i + 1, Len(t)))
<1>1. \A t : Unresolved(t) = UNION {missing(t, i) : i \in 1 .. Len(t) - 1}
  BY DEF Unresolved, Reads
<1>2. /\ n \in Nat /\ Len(p) = n + 1 /\ p[1] = x /\ \A i \in 1 .. n : p[i + 1] = h[i]
      /\ SubSeq(p, 2, Len(p)) = h
  BY OnTop
<1>3. \A o : o.op \in {"Extend", "PathExpand"} => Reads(o) = {}
  BY DEF Reads
<1>4. \A i \in 1 .. n - 1 : Reads(h[i]) = {}
  BY <1>3
<1> HIDE DEF p, n
<1>5. \A i \in 1 .. n : i = 1 \/ Reads(p[i]) = {}
  <2> SUFFICES ASSUME NEW i \in 1 .. n, i # 1  PROVE Reads(p[i]) = {}
    OBVIOUS
  <2>1. i - 1 \in 1 .. n - 1 /\ i - 1 \in 1 .. n /\ i = (i - 1) + 1
    BY <1>2
  <2>2. p[i] = h[i - 1]
    BY <1>2, <2>1
  <2> QED  BY <1>4, <2>1, <2>2
<1>6. missing(p, 1) = Reads(x) \ OutputSchema(h)
  <2>1. 1 + 1 = 2
    OBVIOUS
  <2>2. missing(p, 1) = Reads(p[1]) \ OutputSchema(SubSeq(p, 2, Len(p)))
    BY <2>1
  <2> HIDE DEF missing
  <2> QED  BY <1>2, <2>2
<1>7. 1 .. Len(p) - 1 = 1 .. n /\ 1 \in 1 .. n
  BY <1>2 DEF n
<1>8. Unresolved(p) = UNION {missing(p, i) : i \in 1 .. n}
  BY <1>1, <1>7
<1>9. \A i \in 1 .. n : i = 1 \/ missing(p, i) = {}
  BY <1>5
<1> HIDE DEF missing
<1>10. Unresolved(p) = missing(p, 1)
  BY <1>7, <1>8, <1>9
<1> QED  BY <1>6, <1>10 DEF p

\* What a scan alone returns.
LEMMA SchemaOfScan ==
  ASSUME NEW o, o.op = "NodeScan"
  PROVE  OutputSchema(<<o>>) = Columns(o) /\ Unresolved(<<o>>) = {}
<1>1. OutputSchema(<<o>> \o <<>>) = Columns(o)
  <2>1. <<>> \in Seq({})
    OBVIOUS
  <2>2. Own(o)
    BY DEF Own
  <2> QED  BY <2>1, <2>2, SchemaOnTop
<1>2. <<o>> \o <<>> = <<o>>
  OBVIOUS
<1>3. Unresolved(<<o>>) = {}
  <2> DEFINE t == <<o>>
  <2>1. /\ t \in Seq({o}) /\ Len(t) >= 1
        /\ \A i \in 1 .. Len(t) - 1 : t[i].op \in {"Extend", "PathExpand"}
    BY OneOperator
  <2> HIDE DEF t
  <2>2. Unresolved(t) = {}
    BY <2>1, UnresolvedHops
  <2> QED  BY <2>2 DEF t
<1> QED  BY <1>1, <1>2, <1>3

\* A filter pushed into the scan.
LEMMA PushedFilterColumns ==
  ASSUME NEW q, NEW S, OfGraph(PlanQueryGraph, S), Turn(q) = 1
  PROVE  Unresolved(PushedFilter(q)) = {} /\ OutputSchema(PushedFilter(q)) = OutputSchema(PlanOf(q))
<1> DEFINE pushed == [Scan EXCEPT !.filters = Append(Scan.filters, q.where[1])]
           fi == Filter(q.where[1])
<1>1. PushedFilter(q) = <<pushed>>
  BY DEF PushedFilter
<1>2. /\ pushed.op = "NodeScan" /\ Scan.op = "NodeScan" /\ pushed.variable = Scan.variable
      /\ pushed.schema = Scan.schema /\ pushed.projection = Scan.projection
  BY FilteredScan, ScanFacts
<1>3. q.limit = <<>> /\ q.order_by = <<>> /\ q.returns = <<>> /\ q.where # <<>> /\ graph.rels = <<>>
  BY DEF Turn
<1>4. PlanQueryGraph = <<Scan>> /\ PlanOf(q) = <<fi>> \o PlanQueryGraph
  <2>1. PlanQueryGraph = <<Scan>>
    BY <1>3 DEF OfGraph
  <2> QED  BY <1>3, <2>1, PlanForms
<1> HIDE DEF pushed, fi
<1>5. Columns(pushed) = Columns(Scan)
  BY <1>2 DEF Columns
<1>6. OutputSchema(PlanOf(q)) = Columns(fi) \cup (IF Own(fi) THEN {} ELSE OutputSchema(PlanQueryGraph))
  <2>1. PlanQueryGraph \in Seq(S)
    BY DEF OfGraph
  <2> QED  BY <1>4, <2>1, SchemaOnTop
<1>7. Columns(fi) = {} /\ ~Own(fi)
  BY DEF fi, Filter, Columns, Own
<1>8. OutputSchema(PlanQueryGraph) = Columns(Scan)
  BY <1>2, <1>4, SchemaOfScan
<1>9. OutputSchema(<<pushed>>) = Columns(pushed) /\ Unresolved(<<pushed>>) = {}
  BY <1>2, SchemaOfScan
<1> QED  BY <1>1, <1>5, <1>6, <1>7, <1>8, <1>9

\* A projection pushed into the scan: it keeps what RETURN reads.
LEMMA PushedProjectionColumns ==
  ASSUME PlannerInv, NEW q, NEW S, OfGraph(PlanQueryGraph, S), Turn(q) = 2, graph.nodes # <<>>
  PROVE  /\ Unresolved(PushedProjection(q)) \subseteq Unresolved(PlanOf(q))
         /\ OutputSchema(PushedProjection(q)) = OutputSchema(PlanOf(q))
<1> DEFINE pr == Project(q.returns)
           pushed == [Scan EXCEPT !.projection = <<{c[2] : c \in Projected(q)}>>]
<1>1. PushedProjection(q) = <<pr>> \o <<pushed>>
  BY TwoOperators DEF PushedProjection
<1>2. /\ pushed.op = "NodeScan" /\ Scan.op = "NodeScan" /\ pushed.variable = Scan.variable
      /\ pushed.schema = Scan.schema /\ pushed.projection = <<{c[2] : c \in Projected(q)}>>
      /\ Scan.projection = <<>>
  BY ProjectedScan, ScanFacts
<1>3. q.limit = <<>> /\ q.order_by = <<>> /\ q.returns # <<>> /\ q.where = <<>> /\ graph.rels = <<>>
  BY DEF Turn
<1>4. PlanQueryGraph = <<Scan>> /\ PlanOf(q) = <<pr>> \o <<Scan>>
  <2>1. PlanQueryGraph = <<Scan>>
    BY <1>3 DEF OfGraph
  <2> QED  BY <1>3, <2>1, PlanForms
<1>5. "" \notin DOMAIN Scan.schema
  <2>1. 1 \in DOMAIN graph.nodes
    <3>1. graph.nodes \in Seq(Variables)
      BY DEF PlannerInv, QueryGraphs
    <3> QED  BY <3>1
  <2>2. PICK l \in DOMAIN Schemas : scope[graph.nodes[1]] = <<l>>
    BY <2>1 DEF PlannerInv
  <2>3. Scan.schema = Schemas[l]
    BY <2>2, ScanFacts
  <2> QED  BY <2>2, <2>3, SchemasAssumption
<1>6. pr.op = "Project" /\ pr.expressions = q.returns
  BY DEF Project
<1> HIDE DEF pushed, pr
<1>7. Own(pr) /\ Reads(pr) = RequiredColumns(q.returns)
  BY <1>6 DEF Own, Reads
<1>8. ASSUME NEW o, o.op = "NodeScan"
      PROVE  /\ OutputSchema(<<pr>> \o <<o>>) = Columns(pr)
             /\ Unresolved(<<pr>> \o <<o>>) = RequiredColumns(q.returns) \ Columns(o)
  <2> DEFINE t == <<o>>
  <2>1. /\ t \in Seq({o}) /\ Len(t) >= 1
        /\ \A i \in 1 .. Len(t) - 1 : t[i].op \in {"Extend", "PathExpand"}
    BY OneOperator
  <2>2. OutputSchema(t) = Columns(o)
    BY <1>8, SchemaOfScan
  <2> HIDE DEF t
  <2>3. Unresolved(<<pr>> \o t) = Reads(pr) \ OutputSchema(t)
    BY <2>1, UnresolvedOnTop
  <2>4. OutputSchema(<<pr>> \o t) = Columns(pr)
    BY <1>7, <2>1, SchemaOnTop
  <2> QED  BY <1>7, <2>2, <2>3, <2>4 DEF t
<1> DEFINE v == Scan.variable
           schema == Scan.schema
           kept == {c[2] : c \in Projected(q)}
<1>9. Columns(Scan) = {<<v, c>> : c \in DOMAIN schema}
  <2>1. Columns(Scan) = {<<v, c>> : c \in DOMAIN schema \cap DOMAIN schema}
    BY <1>2 DEF Columns
  <2> QED  BY <2>1
<1>10. Columns(pushed) = {<<v, c>> : c \in DOMAIN schema \cap kept}
  <2>1. <<kept>> # <<>> /\ <<kept>>[1] = kept
    OBVIOUS
  <2> HIDE DEF kept
  <2>2. pushed.projection = <<kept>>
    BY <1>2 DEF kept
  <2> QED  BY <1>2, <2>1, <2>2 DEF Columns
<1>11. RequiredColumns(q.returns) \cap Columns(Scan) \subseteq Columns(pushed)
  <2> SUFFICES ASSUME NEW c \in DOMAIN schema, <<v, c>> \in RequiredColumns(q.returns)
               PROVE  <<v, c>> \in Columns(pushed)
    BY <1>9
  <2> DEFINE x == <<v, c>>
  <2>1. x[1] = v /\ x[2] = c /\ c # ""
    BY <1>5
  <2>2. x \in Projected(q)
    BY <2>1 DEF Projected
  <2>3. c \in kept
    BY <2>1, <2>2
  <2> QED  BY <1>10, <2>3
<1>12. /\ Unresolved(PushedProjection(q)) = RequiredColumns(q.returns) \ Columns(pushed)
       /\ Unresolved(PlanOf(q)) = RequiredColumns(q.returns) \ Columns(Scan)
       /\ OutputSchema(PushedProjection(q)) = Columns(pr) /\ OutputSchema(PlanOf(q)) = Columns(pr)
  BY <1>1, <1>2, <1>4, <1>8
<1> QED  BY <1>11, <1>12

\* A filter simplified, dropped or folded with its input.
LEMMA SimplifiedFilterColumns ==
  ASSUME NEW q, NEW S, OfGraph(PlanQueryGraph, S), Turn(q) = 3, q.where[1] \in Expressions
  PROVE  /\ Unresolved(SimplifiedFilter(q)) \subseteq Unresolved(PlanOf(q))
         /\ OutputSchema(SimplifiedFilter(q)) = OutputSchema(PlanOf(q))
<1> DEFINE w == q.where[1]
           s == SimplifyPredicate[w]
           t == TryEvaluateConstant[s]
           h == PlanQueryGraph
           o == SimplifiedFilter(q)
           none == Empty(OutputSchema(h))
<1>1. q.limit = <<>> /\ q.order_by = <<>> /\ q.returns = <<>> /\ q.where # <<>>
  BY DEF Turn
<1>2. PlanOf(q) = <<Filter(w)>> \o h
  BY <1>1, PlanForms
<1>3. o = IF t = "True" THEN h ELSE IF t = "False" THEN <<none>> ELSE <<Filter(s)>> \o h
  BY DEF SimplifiedFilter
<1>4. CollectColumns[s] \subseteq CollectColumns[w]
  BY ColumnsShrink
<1>5. h \in Seq(S) /\ Len(h) >= 1 /\ \A i \in 1 .. Len(h) - 1 : h[i].op \in {"Extend", "PathExpand"}
  BY DEF OfGraph
<1>6. none.op = "Empty" /\ none.columns = OutputSchema(h)
  BY DEF Empty
<1> HIDE DEF w, s, t, h, o, none
<1>7. ASSUME NEW e
      PROVE  /\ OutputSchema(<<Filter(e)>> \o h) = OutputSchema(h)
             /\ Unresolved(<<Filter(e)>> \o h) = CollectColumns[e] \ OutputSchema(h)
  <2> DEFINE fi == Filter(e)
  <2>1. Columns(fi) = {} /\ ~Own(fi) /\ Reads(fi) = CollectColumns[e]
    BY DEF Filter, Columns, Own, Reads
  <2> HIDE DEF fi
  <2>2. OutputSchema(<<fi>> \o h) = OutputSchema(h)
    BY <1>5, <2>1, SchemaOnTop
  <2>3. Unresolved(<<fi>> \o h) = Reads(fi) \ OutputSchema(h)
    BY <1>5, UnresolvedOnTop
  <2> QED  BY <2>1, <2>2, <2>3 DEF fi
<1>8. /\ Unresolved(PlanOf(q)) = CollectColumns[w] \ OutputSchema(h)
      /\ OutputSchema(PlanOf(q)) = OutputSchema(h)
  BY <1>2, <1>7
<1>9. CASE o = h
  <2>1. Unresolved(h) = {}
    BY <1>5, UnresolvedHops
  <2> QED  BY <1>8, <1>9, <2>1 DEF o
<1>10. CASE o = <<none>>
  <2>1. OutputSchema(<<none>>) = Columns(none) /\ Unresolved(<<none>>) = {}
    <3>1. Own(none) /\ <<>> \in Seq({}) /\ <<none>> \o <<>> = <<none>>
      BY <1>6 DEF Own
    <3>2. OutputSchema(<<none>>) = Columns(none)
      <4>1. OutputSchema(<<none>> \o <<>>) = Columns(none)
        BY <3>1, SchemaOnTop
      <4> QED  BY <3>1, <4>1
    <3> DEFINE u == <<none>>
    <3>3. /\ u \in Seq({none}) /\ Len(u) >= 1
          /\ \A i \in 1 .. Len(u) - 1 : u[i].op \in {"Extend", "PathExpand"}
      BY OneOperator
    <3> HIDE DEF u
    <3>4. Unresolved(u) = {}
      BY <3>3, UnresolvedHops
    <3> QED  BY <3>2, <3>4 DEF u
  <2>2. Columns(none) = OutputSchema(h)
    BY <1>6 DEF Columns
  <2> QED  BY <1>8, <1>10, <2>1, <2>2 DEF o
<1>11. CASE o = <<Filter(s)>> \o h
  <2>1. Unresolved(o) = CollectColumns[s] \ OutputSchema(h) /\ OutputSchema(o) = OutputSchema(h)
    BY <1>7, <1>11
  <2> QED  BY <1>4, <1>8, <2>1 DEF o
<1> QED  BY <1>3, <1>9, <1>10, <1>11

\* The rules take away no column that is read above, and keep the columns that a
\* plan returns (ColumnsKept).
THEOREM SchemaKept == Spec => []ColumnsKept
<1>1. PlannerInv => ColumnsKept
  <2> SUFFICES ASSUME PlannerInv, NEW q \in Range(query)
               PROVE  /\ Unresolved(plan) \subseteq Unresolved(PlanOf(q))
                      /\ OutputSchema(plan) = OutputSchema(PlanOf(q))
    BY DEF ColumnsKept
  <2>1. Planned(q)
    BY ThePlanned
  <2>2. IsBound(q) /\ graph.nodes # <<>> /\ (plan = PlanOf(q) \/ plan = Optimised(q))
    BY <2>1 DEF Planned, Current
  <2>3. PICK S : OfGraph(PlanQueryGraph, S)
    BY GraphPlanned
  <2>4. CASE plan = PlanOf(q)
    BY <2>4
  <2>5. CASE plan = PushedFilter(q) /\ Turn(q) = 1
    BY <2>3, <2>5, PushedFilterColumns
  <2>6. CASE plan = PushedProjection(q) /\ Turn(q) = 2
    BY <2>2, <2>3, <2>6, PushedProjectionColumns
  <2>7. CASE plan = SimplifiedFilter(q) /\ Turn(q) = 3
    <3>1. q.where[1] \in Expressions
      BY <2>2, <2>7 DEF IsBound, Turn
    <3> QED  BY <2>3, <2>7, <3>1, SimplifiedFilterColumns
  <2> QED  BY <2>2, <2>4, <2>5, <2>6, <2>7 DEF Optimised
<1> QED  BY <1>1, PlanFollowsRules, PTL
=============================================================================
