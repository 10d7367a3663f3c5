------------------------- MODULE LinearExpressions -------------------------
(***************************************************************************)
(* PotentialLinearExpressions.visit of SimplifyNestedQuantifiers: the      *)
(* index of an array access is taken apart into a coefficient for each     *)
(* binding and a constant.  The multiplier of the sub-expression that is   *)
(* being visited is a mutable field, saved and restored around the visit.  *)
(*                                                                         *)
(* An expression without bindings is represented by what it denotes, a     *)
(* function from Env to the integers.  The recursion is a list of tasks.   *)
(***************************************************************************)
EXTENDS Integers, Sequences, FiniteSets

CONSTANTS
  Env,        \* valuations of the variables that are free
  Problems    \* the quantifiers: [pattern, ...]

ASSUME EnvAssumption == Env # {}

VARIABLES
  problem,            \* the quantifier that is rewritten
  linearExpressions,  \* the coefficients, of the bindings met so far
  constantExpression,
  currentMultiplier,
  isLinear,           \* no nonLinearBlame
  todo                \* what visit has still to do, in order

linearVars == <<linearExpressions, constantExpression, currentMultiplier, isLinear, todo>>

-----------------------------------------------------------------------------
Expr == [Env -> Int]
Int2Expr(i) == [env \in Env |-> i]
Add(e1, e2) == [env \in Env |-> e1[env] + e2[env]]
Sub(e1, e2) == [env \in Env |-> e1[env] - e2[env]]
Times(e1, e2) == [env \in Env |-> e1[env] * e2[env]]

(* The map f with v mapped to e.                                           *)
With(f, v, e) == [w \in DOMAIN f \cup {v} |-> IF w = v THEN e ELSE f[w]]

(* The largest sub-expressions without bindings are leaves, and an integer *)
(* literal is a leaf of its own.                                           *)
Const(e) == [op |-> "const", literal |-> FALSE, e |-> e]
Literal(i) == [op |-> "const", literal |-> TRUE, e |-> Int2Expr(i)]
Local(v) == [op |-> "local", v |-> v]
Node(op, l, r) == [op |-> op, left |-> l, right |-> r]

isConstant(node) == node.op = "const"
LiteralValue(node) == node.e[CHOOSE env \in Env : TRUE]

Visit(node) == [task |-> "visit", node |-> node]
Restore(multiplier) == [task |-> "restore", multiplier |-> multiplier]

-----------------------------------------------------------------------------
InitLinear ==
  /\ problem \in Problems
  /\ linearExpressions = <<>>
  /\ constantExpression = Int2Expr(0)
  /\ currentMultiplier = Int2Expr(1)
  /\ isLinear = TRUE
  /\ todo = <<Visit(problem.pattern)>>

Visiting(ops) == todo # <<>> /\ Head(todo).task = "visit" /\ Head(todo).node.op \in ops
Visited == Head(todo).node

(* What a constant operand adds: the multiplier applies to it too.         *)
addToConstant(e, sign) ==
  Add(constantExpression, Times(Int2Expr(sign), Times(currentMultiplier, e)))

AfterProduct_NotRestored(node, multiplier) == <<Visit(node)>>
AfterProduct(node, multiplier) == <<Visit(node), Restore(multiplier)>>

(* left + right and left - right, of which one is constant.                *)
VisitSumWithConstant ==
  /\ Visiting({"plus", "minus"})
  /\ \/ /\ isConstant(Visited.left)
        /\ constantExpression' = addToConstant(Visited.left.e, 1)
        /\ IF Visited.op = "plus"
             THEN /\ todo' = <<Visit(Visited.right)>> \o Tail(todo)
                  /\ UNCHANGED currentMultiplier
             ELSE /\ todo' = AfterProduct(Visited.right, currentMultiplier) \o Tail(todo)
                  /\ currentMultiplier' = Times(currentMultiplier, Int2Expr(-1))
     \/ /\ ~isConstant(Visited.left) /\ isConstant(Visited.right)
        /\ constantExpression' =
             addToConstant(Visited.right.e, IF Visited.op = "plus" THEN 1 ELSE -1)
        /\ todo' = <<Visit(Visited.left)>> \o Tail(todo)
        /\ UNCHANGED currentMultiplier
  /\ UNCHANGED <<problem, linearExpressions, isLinear>>

VisitSum ==
  /\ Visiting({"plus"})
  /\ ~isConstant(Visited.left) /\ ~isConstant(Visited.right)
  /\ todo' = <<Visit(Visited.left), Visit(Visited.right)>> \o Tail(todo)
  /\ UNCHANGED <<problem, linearExpressions, constantExpression, currentMultiplier, isLinear>>

(* The multiplier changes between the visits of the two operands.          *)
VisitDifference ==
  /\ Visiting({"minus"})
  /\ ~isConstant(Visited.left) /\ ~isConstant(Visited.right)
  /\ todo' = <<Visit(Visited.left), [task |-> "negate", node |-> Visited.right]>> \o Tail(todo)
  /\ UNCHANGED <<problem, linearExpressions, constantExpression, currentMultiplier, isLinear>>

VisitSubtrahend ==
  /\ todo # <<>> /\ Head(todo).task = "negate"
  /\ currentMultiplier' = Times(currentMultiplier, Int2Expr(-1))
  /\ todo' = AfterProduct(Visited, currentMultiplier) \o Tail(todo)
  /\ UNCHANGED <<problem, linearExpressions, constantExpression, isLinear>>

VisitProduct ==
  /\ Visiting({"mult"})
  /\ \E operands \in {<<Visited.left, Visited.right>>, <<Visited.right, Visited.left>>} :
       /\ isConstant(operands[1])
       /\ currentMultiplier' = Times(currentMultiplier, operands[1].e)
       /\ todo' = AfterProduct(operands[2], currentMultiplier) \o Tail(todo)
  /\ UNCHANGED <<problem, linearExpressions, constantExpression, isLinear>>

VisitLocal ==
  /\ Visiting({"local"})
  /\ LET v == Visited.v IN
       linearExpressions' =
         With(linearExpressions, v,
              IF v \in DOMAIN linearExpressions
                THEN Add(linearExpressions[v], currentMultiplier)
                ELSE currentMultiplier)
  /\ todo' = Tail(todo)
  /\ UNCHANGED <<problem, constantExpression, currentMultiplier, isLinear>>

(* (l * r) / c truncates towards zero: it is linear when c divides a       *)
(* literal operand of the product.                                         *)
Abs(i) == IF i < 0 THEN -i ELSE i
Divides(c, factor) ==
  /\ isConstant(factor) /\ factor.literal /\ isConstant(c) /\ c.literal
  /\ LiteralValue(c) # 0
  /\ LiteralValue(factor) % Abs(LiteralValue(c)) = 0

Quotient(factor, c) ==
  LET q == LiteralValue(factor) \div Abs(LiteralValue(c)) IN
    Literal(IF LiteralValue(c) < 0 THEN -q ELSE q)

(* The literal operand and the other one.                                  *)
LinearQuotients(node) ==
  LET operandsOf(product) ==
        {<<product.left, product.right>>, <<product.right, product.left>>}
  IN {operands \in IF node.left.op = "mult" THEN operandsOf(node.left) ELSE {} :
        Divides(node.right, operands[1])}

VisitQuotient ==
  /\ Visiting({"truncdiv"})
  /\ \E operands \in LinearQuotients(Visited) :
       todo' = <<Visit(Node("mult", Quotient(operands[1], Visited.right), operands[2]))>>
                 \o Tail(todo)
  /\ UNCHANGED <<problem, linearExpressions, constantExpression, currentMultiplier, isLinear>>

NotLinear(node) ==
  \/ node.op = "mult" /\ ~isConstant(node.left) /\ ~isConstant(node.right)
  \/ node.op = "truncdiv" /\ LinearQuotients(node) = {}
  \/ node.op = "other"

VisitNonLinear ==
  /\ todo # <<>> /\ Head(todo).task = "visit" /\ NotLinear(Visited)
  /\ isLinear' = FALSE
  /\ todo' = Tail(todo)
  /\ UNCHANGED <<problem, linearExpressions, constantExpression, currentMultiplier>>

RestoreMultiplier ==
  /\ todo # <<>> /\ Head(todo).task = "restore"
  /\ currentMultiplier' = Head(todo).multiplier
  /\ todo' = Tail(todo)
  /\ UNCHANGED <<problem, linearExpressions, constantExpression, isLinear>>

visit ==
  \/ VisitSumWithConstant \/ VisitSum \/ VisitDifference \/ VisitSubtrahend
  \/ VisitProduct \/ VisitLocal \/ VisitQuotient \/ VisitNonLinear
  \/ RestoreMultiplier
=============================================================================
