---------------------------- MODULE MCLinearAccess --------------------------
(* Bindings x, y and z; two environments, in which the free variable n is  *)
(* 1 and 3, and one in which the quantifiers with a range of n are empty.  *)
EXTENDS LinearAccessProofs

MCEnv == {0, 1, 3}
n == [env \in MCEnv |-> env]
minus == [env \in MCEnv |-> -env]
k(i) == [env \in MCEnv |-> i]
MCValues == -1 .. 5
MCIndices == -24 .. 36

B(i) == Bound(<<>>, i)
N(i) == Bound(<<n>>, i)

X == Local("x")
Y == Local("y")
Z == Local("z")
Plus(l, r) == Node("plus", l, r)
Minus(l, r) == Node("minus", l, r)
Mult(l, r) == Node("mult", l, r)
TruncDiv(l, r) == Node("truncdiv", l, r)
L(i) == Literal(i)

Quantifier(pattern, lower, upper, conditions) ==
  [pattern |-> pattern, lower |-> lower, upper |-> upper, conditions |-> conditions]
Below(weights, e) == [weights |-> weights, below |-> e]

XY(fx, fy) == [v \in {"x", "y"} |-> IF v = "x" THEN fx ELSE fy]
XYZ(fx, fy, fz) == [v \in {"x", "y", "z"} |-> CASE v = "x" -> fx [] v = "y" -> fy [] v = "z" -> fz]

-----------------------------------------------------------------------------
(* One binding, with a coefficient that is built up in several places.     *)
OneBinding ==
  {Quantifier(p, [v \in {"x"} |-> <<B(-1), B(0)>>], [v \in {"x"} |-> <<N(0)>>], {}) :
     p \in {Minus(Const(n), Mult(L(2), X)), Minus(X, Const(n)),
            Mult(Minus(Plus(X, L(3)), Mult(X, L(4))), L(2)),
            TruncDiv(Mult(L(-6), X), L(-3)),
            TruncDiv(Mult(X, L(4)), L(3)), TruncDiv(X, L(3)),
            Mult(X, X), Mult(L(0), X),
            Plus(Minus(X, Mult(Const(n), X)), Mult(Const(n), X))}}

(* Two bindings: coefficients that fit exactly, with room to spare, with   *)
(* either sign, not at all; bounds that are constants or not.              *)
TwoPatterns ==
  {Plus(X, Mult(Const(n), Y)), Plus(Mult(L(3), Y), X), Minus(Plus(L(1), X), Mult(L(3), Y)),
   Minus(Const(n), Plus(Mult(L(2), X), Mult(L(6), Y))), Plus(L(2), Minus(X, Mult(Y, L(3)))),
   Minus(Mult(Y, L(-4)), Minus(X, Mult(L(2), Y))),
   Plus(Mult(Const(minus), Mult(L(2), Y)), Minus(L(2), Mult(L(2), X))),
   Plus(X, Y), Plus(X, Mult(Y, X))}
TwoBounds ==
  {<<XY(<<B(0)>>, <<B(0)>>), XY(<<N(0)>>, <<B(3)>>)>>,
   <<XY(<<B(1), B(0)>>, <<B(-1)>>), XY(<<B(3), N(1)>>, <<B(2), N(0)>>)>>,
   <<XY(<<B(0)>>, <<B(1)>>), XY(<<>>, <<N(1)>>)>>}
TwoConditions ==
  {{}, {Below(XY(1, 0), k(3))}, {Below(XY(1, 1), n)}}
TwoBindings ==
  {Quantifier(p, b[1], b[2], c) : p \in TwoPatterns, b \in TwoBounds, c \in TwoConditions}

(* Three bindings, and the example 3*y + x < 8 of findSuitableBound.       *)
ThreeBindings ==
  {Quantifier(p, XYZ(<<B(0)>>, <<B(0)>>, <<B(0)>>), XYZ(<<B(3)>>, u, <<B(2)>>), c) :
     p \in {Plus(Plus(X, Mult(L(3), Y)), Mult(L(8), Z)),
            Minus(Mult(L(-3), Y), Plus(Mult(L(9), Z), X))},
     u \in {<<B(3)>>, <<N(2), B(4)>>, <<B(5)>>},
     c \in {{}, {Below(XYZ(1, 3, 0), k(8))}}}

OrdinaryProblems == OneBinding \cup TwoBindings \cup ThreeBindings

(* n*2 <= x < n*4 + 1: two products with a factor in common.               *)
ProductValues == 0 .. 12
ProductBounds ==
  {Quantifier(Plus(X, Mult(Const([env \in MCEnv |-> 3 * env]), Y)),
     XY(<<Bound(<<n, k(2)>>, 0)>>, <<B(0)>>), XY(<<Bound(<<n, k(4)>>, 1)>>, <<B(2)>>), {})}

(* x has one value, n + 1, and the coefficients of x and y are both 1.            *)
UnitCoefficients ==
  {Quantifier(Plus(X, Y), XY(<<N(1)>>, <<B(0)>>), XY(<<N(2)>>, <<B(3)>>), {})}

(* The range of x is empty whatever n, and everything can be proved.       *)
EmptyRange ==
  {Quantifier(Plus(X, Mult(L(4), Y)), XY(<<B(0), B(2)>>, <<B(0)>>), XY(<<B(2)>>, <<B(2)>>), {})}

(* The expressions that visit meets, and their parts.                      *)
Met(node) ==
  (IF node.op \in {"plus", "minus", "mult", "truncdiv"} THEN {node.left, node.right} ELSE {})
  \cup (IF node.op = "truncdiv"
          THEN {Node("mult", Quotient(o[1], node.right), o[2]) : o \in LinearQuotients(node)}
          ELSE {})
MCNodes ==
  LET more(nodes) == nodes \cup UNION {Met(node) : node \in nodes}
  IN [p \in Problems |-> more(more(more(more(more({p.pattern})))))]

-----------------------------------------------------------------------------
RECURSIVE ValueOf(_, _, _)
(* What an expression denotes, with division that truncates.               *)
ValueOf(node, env, pt) ==
  LET l == ValueOf(node.left, env, pt)
      r == ValueOf(node.right, env, pt)
  IN CASE node.op = "const" -> node.e[env]
       [] node.op = "local" -> pt[node.v]
       [] node.op = "plus" -> l + r
       [] node.op = "minus" -> l - r
       [] node.op = "mult" -> l * r
       [] node.op = "truncdiv" -> Truncated(l, r)
=============================================================================
