------------------------- MODULE LinearAccessProofs -------------------------
(***************************************************************************)
(* Proofs about the rewriting of linear accesses, for every pattern, every *)
(* list of bounds and every environment.  First, the search of             *)
(* findSuitableBound is sound, provided that simplifiedMinus returns the   *)
(* difference of its arguments.  Then, the visit loses nothing of the      *)
(* pattern, and the new quantifier makes the accesses of the old one.      *)
(***************************************************************************)
EXTENDS LinearAccess, FiniteSetTheorems, TLAPS, WellFoundedInduction

CONSTANT Nodes   \* for each problem, the expressions that visit meets

(* Nodes is closed under what visit does, and leaves are integers and      *)
(* bindings.                                                               *)
Inner == {"plus", "minus", "mult", "truncdiv"}
ASSUME NodesAssumption ==
  \A p \in Problems : \A node \in Nodes[p] :
    /\ node.op = "const" => node.e \in Expr
    /\ node.op = "const" /\ node.literal => \A env1, env2 \in Env : node.e[env1] = node.e[env2]
    /\ node.op = "local" => node.v \in Bindings(p)
    /\ node.op \in Inner => node.left \in Nodes[p] /\ node.right \in Nodes[p]
    /\ node.op = "truncdiv" =>
         \A operands \in LinearQuotients(node) :
           Node("mult", Quotient(operands[1], node.right), operands[2]) \in Nodes[p]

(* What an expression denotes follows from what its parts denote, and      *)
(* division truncates.                                                     *)
Truncated(i, m) ==
  LET q == Abs(i) \div Abs(m) IN IF (i < 0) = (m < 0) THEN q ELSE -q
ASSUME NodeValueAssumption ==
  \A p \in Problems : \A node \in Nodes[p], env \in Env, pt \in [Bindings(p) -> Values] :
    LET value == NodeValue(node, env, pt)
        left == NodeValue(node.left, env, pt)
        right == NodeValue(node.right, env, pt)
    IN /\ value \in Int
       /\ node.op = "const" => value = node.e[env]
       /\ node.op = "local" => value = pt[node.v]
       /\ node.op = "plus" => value = left + right
       /\ node.op = "minus" => value = left - right
       /\ node.op = "mult" => value = left * right
       /\ node.op = "truncdiv" /\ right # 0 => value = Truncated(left, right)

BoundOK(bound) ==
  /\ bound.factors \in Seq(Expr) /\ Len(bound.factors) \in 0 .. 2
  /\ bound.plus \in Int

(* A problem has lists of bounds for each of its bindings.                 *)
ASSUME ProblemsAssumption ==
  \A p \in Problems :
    /\ p.pattern \in Nodes[p]
    /\ IsFiniteSet(Bindings(p))
    /\ \A v \in Bindings(p) :
         /\ p.lower[v] \in Seq(Lower(p, v)) /\ p.upper[v] \in Seq(Upper(p, v))
         /\ \A low \in Lower(p, v) : BoundOK(low)
         /\ \A up \in Upper(p, v) : BoundOK(up)

(* What the comment of findSuitableBound says of n: up - low.              *)
ExactDifferences ==
  \A p \in Problems : \A v \in Bindings(p) :
    \A low \in Lower(p, v), up \in Upper(p, v) :
      simplifiedMinus(up, low) = Sub(BoundValue(up), BoundValue(low))

(* Of two products with a common factor, no constant is left.              *)
NoConstantLeft ==
  \A p \in Problems : \A v \in Bindings(p) :
    \A low \in Lower(p, v), up \in Upper(p, v) :
      CommonFactors(up.factors, low.factors) # {} => up.plus = low.plus

-----------------------------------------------------------------------------
TasksOf(p) ==
  [task : {"visit", "negate"}, node : Nodes[p]] \cup [task : {"restore"}, multiplier : Expr]

VisitInv ==
  /\ problem \in Problems
  /\ \A v \in DOMAIN linearExpressions : a(v) \in Expr
  /\ currentMultiplier \in Expr
  /\ todo \in Seq(TasksOf(problem))

LinTyped ==
  /\ DOMAIN linLast = Env
  /\ \A env \in Env : linLast[env] \in [Domain(env) -> Int]

NotYet ==
  /\ next = 1
  /\ \A env \in Env : \A pt \in Domain(env) : linLast[env][pt] = 0

(* In the search, for environments in which the quantifier is not empty:   *)
(* the coefficient reached is not zero and has the sign of a_0, and what   *)
(* precedes it fits below.                                                 *)
Fits(i, m) == m # 0 /\ Signed(i, m) \in 0 .. Abs(m) - 1
Reached(env, pt) ==
  /\ Fits(linLast[env][pt], a(xPrev)[env])
  /\ sign = "pos" => a(xPrev)[env] > 0
  /\ sign = "neg" => a(xPrev)[env] < 0

Determined(env, pt1, pt2) ==
  linLast[env][pt1] = linLast[env][pt2] =>
    \A i \in 1 .. next - 1 : pt1[order[i]] = pt2[order[i]]

(* Why findSuitableBound may settle on low for xPrev: what there is then    *)
(* fits below the next coefficient, an upper bound is dropped only if that *)
(* coefficient is the multiple that it makes, and what is needed holds     *)
(* wherever the quantifier is not empty.                                   *)
Extent(up, low, env) == BoundValue(up)[env] - BoundValue(low)[env]
Justified(low, dropped, needed) ==
  /\ \A env \in Env : \A pt \in Domain(env) :
       /\ Fits(LinAfter(low)[env][pt], a(x)[env])
       /\ a(xPrev)[env] > 0 <=> a(x)[env] > 0
  /\ \/ dropped = {}
     \/ \E up \in Upper(problem, xPrev) :
          /\ dropped = {up}
          /\ \A env \in Env :
               Domain(env) # {} => a(x)[env] = a(xPrev)[env] * Extent(up, low, env)
  /\ \A need \in needed, env \in Env : Domain(env) # {} => need[env] > 0

SearchInv ==
  /\ order \in Orders(Bindings(problem))
  /\ next \in 1 .. Len(order)
  /\ Bindings(problem) \subseteq DOMAIN linearExpressions
  /\ sign \in {"none", "pos", "neg"}
  /\ \A env \in Env : \A pt \in Domain(env) : Reached(env, pt)
  /\ \A env \in Env : \A pt1, pt2 \in Domain(env) : Determined(env, pt1, pt2)

IInv ==
  /\ VisitInv
  /\ LinTyped
  /\ stage = "visit" => NotYet
  /\ stage \in {"bounds", "done"} => SearchInv

-----------------------------------------------------------------------------
(* Arithmetic.                                                             *)
LEMMA Monotone ==
  ASSUME NEW m \in Int, NEW d \in Int, NEW n \in Int, m > 0, 0 <= d, d < n
  PROVE  0 <= m * d /\ m * d + m <= m * n
<1>1. m * (n - 1 - d) >= 0 /\ m * d >= 0
  OBVIOUS
<1>2. m * (n - 1 - d) = m * n - m - m * d
  OBVIOUS
<1> QED
  BY <1>1, <1>2

(* Check 1, and check 2 when it is read with a coefficient of |A| * n.     *)
LEMMA FitsProduct ==
  ASSUME NEW A \in Int, NEW L \in Int, NEW d \in Int, NEW n \in Int, NEW B \in Int,
         Fits(L, A), 0 <= d, d < n,
         Abs(A) * n <= Abs(B), A * B >= 0
  PROVE  Fits(A * d + L, B) /\ (A > 0 <=> B > 0)
<1>1. CASE A > 0
  <2>1. 0 <= A * d /\ A * d + A <= A * n
    BY <1>1, Monotone
  <2>2. L \in 0 .. A - 1 /\ Abs(A) = A
    BY <1>1 DEF Fits, Signed, Abs
  <2>3. A * d \in Int /\ A * n \in Int
    OBVIOUS
  <2>4. Abs(B) > 0 /\ A * d + L < Abs(B) /\ A * d + L >= 0
    BY <2>1, <2>2, <2>3, <1>1 DEF Abs
  <2>5. B > 0
    BY <2>4, <1>1 DEF Abs
  <2> QED
    BY <2>3, <2>4, <2>5, <1>1 DEF Fits, Signed, Abs
<1>2. CASE A < 0
  <2> DEFINE C == -A
  <2>1. 0 <= C * d /\ C * d + C <= C * n
    BY <1>2, Monotone
  <2>2. -L \in 0 .. C - 1 /\ Abs(A) = C
    BY <1>2 DEF Fits, Signed, Abs
  <2>3. C * d \in Int /\ C * n \in Int /\ A * d = -(C * d)
    OBVIOUS
  <2>4. Abs(B) > 0 /\ -(A * d + L) < Abs(B) /\ -(A * d + L) >= 0
    BY <2>1, <2>2, <2>3, <1>2 DEF Abs
  <2>5. B < 0
    BY <2>4, <1>2 DEF Abs
  <2> QED
    BY <2>3, <2>4, <2>5, <1>2 DEF Fits, Signed, Abs
<1> QED
  BY <1>1, <1>2 DEF Fits

(* A quotient and a remainder are determined by the number they make.      *)
LEMMA DivisionIsUnique ==
  ASSUME NEW A \in Int, NEW d1 \in Int, NEW d2 \in Int, NEW r1 \in Int, NEW r2 \in Int,
         Fits(r1, A), Fits(r2, A), A * d1 + r1 = A * d2 + r2
  PROVE  d1 = d2 /\ r1 = r2
<1>1. A * (d1 - d2) = r2 - r1
  <2>1. A * (d1 - d2) = A * d1 - A * d2
    OBVIOUS
  <2>2. A * d1 \in Int /\ A * d2 \in Int
    OBVIOUS
  <2> QED
    BY <2>1, <2>2
<1>2. A # 0 /\ Abs(A) \in Int /\ r2 - r1 < Abs(A) /\ r1 - r2 < Abs(A)
  BY DEF Fits, Signed, Abs
<1>3. SUFFICES d1 = d2
  BY <1>1
<1>4. CASE d1 > d2
  <2>1. Abs(A) * (d1 - d2) >= Abs(A)
    <3>1. Abs(A) * (d1 - d2 - 1) >= 0
      BY <1>2, <1>4 DEF Abs
    <3>2. Abs(A) * (d1 - d2 - 1) = Abs(A) * (d1 - d2) - Abs(A)
      BY <1>2
    <3> QED
      BY <3>1, <3>2, <1>2
  <2>2. Abs(A) * (d1 - d2) = r2 - r1 \/ Abs(A) * (d1 - d2) = r1 - r2
    BY <1>1 DEF Abs
  <2> QED
    BY <2>1, <2>2, <1>2
<1>5. CASE d2 > d1
  <2>1. Abs(A) * (d2 - d1) >= Abs(A)
    <3>1. Abs(A) * (d2 - d1 - 1) >= 0
      BY <1>2, <1>5 DEF Abs
    <3>2. Abs(A) * (d2 - d1 - 1) = Abs(A) * (d2 - d1) - Abs(A)
      BY <1>2
    <3> QED
      BY <3>1, <3>2, <1>2
  <2>2. Abs(A) * (d2 - d1) = r2 - r1 \/ Abs(A) * (d2 - d1) = r1 - r2
    <3>1. A * (d2 - d1) = r1 - r2
      BY <1>1
    <3> QED
      BY <3>1 DEF Abs
  <2> QED
    BY <2>1, <2>2, <1>2
<1> QED
  BY <1>4, <1>5

-----------------------------------------------------------------------------
LEMMA TimesTyped ==
  ASSUME NEW e1 \in Expr, NEW e2 \in Expr
  PROVE  Times(e1, e2) \in Expr /\ Add(e1, e2) \in Expr
BY DEF Expr, Times, Add

LEMMA Int2ExprTyped == ASSUME NEW i \in Int PROVE Int2Expr(i) \in Expr
BY DEF Expr, Int2Expr

LEMMA BoundTyped ==
  ASSUME NEW bound, BoundOK(bound)
  PROVE  Product(bound.factors) \in Expr /\ BoundValue(bound) \in Expr
<1> USE DEF BoundOK
<1>1. CASE Len(bound.factors) = 0
  BY <1>1, Int2ExprTyped, TimesTyped DEF Product, BoundValue
<1>2. CASE Len(bound.factors) = 1
  <2>1. bound.factors[1] \in Expr
    BY <1>2
  <2> QED
    BY <1>2, <2>1, Int2ExprTyped, TimesTyped DEF Product, BoundValue
<1>3. CASE Len(bound.factors) = 2
  <2>1. bound.factors[1] \in Expr /\ bound.factors[2] \in Expr
    BY <1>3
  <2> QED
    BY <1>3, <2>1, Int2ExprTyped, TimesTyped DEF Product, BoundValue
<1> QED
  BY <1>1, <1>2, <1>3

(* The tasks that take the place of the first.                             *)
LEMMA TasksTyped ==
  ASSUME todo \in Seq(TasksOf(problem)), todo # <<>>
  PROVE  /\ Head(todo) \in TasksOf(problem)
         /\ Tail(todo) \in Seq(TasksOf(problem))
         /\ \A t \in TasksOf(problem) : <<t>> \o Tail(todo) \in Seq(TasksOf(problem))
         /\ \A t1, t2 \in TasksOf(problem) : <<t1, t2>> \o Tail(todo) \in Seq(TasksOf(problem))
<1>1. Head(todo) \in TasksOf(problem) /\ Tail(todo) \in Seq(TasksOf(problem))
  OBVIOUS
<1>2. \A t \in TasksOf(problem) : <<t>> \in Seq(TasksOf(problem))
  OBVIOUS
<1>3. \A t1, t2 \in TasksOf(problem) : <<t1, t2>> \in Seq(TasksOf(problem))
  OBVIOUS
<1> QED
  BY <1>1, <1>2, <1>3

LEMMA VisitTyped ==
  ASSUME VisitInv, visit, problem' = problem
  PROVE  VisitInv'
<1> USE DEF VisitInv
<1>1. todo # <<>>
  BY DEF visit, VisitSumWithConstant, VisitSum, VisitDifference, VisitSubtrahend,
         VisitProduct, VisitLocal, VisitQuotient, VisitNonLinear, RestoreMultiplier, Visiting
<1> DEFINE head == Head(todo)
<1>2. /\ head \in TasksOf(problem)
      /\ Tail(todo) \in Seq(TasksOf(problem))
      /\ \A t \in TasksOf(problem) : <<t>> \o Tail(todo) \in Seq(TasksOf(problem))
      /\ \A t1, t2 \in TasksOf(problem) : <<t1, t2>> \o Tail(todo) \in Seq(TasksOf(problem))
  BY <1>1, TasksTyped
<1>3. head.task \in {"visit", "negate"} => head.node \in Nodes[problem]
  BY <1>2 DEF TasksOf
<1>4. head.task = "restore" => head.multiplier \in Expr
  BY <1>2 DEF TasksOf
<1>5. \A node \in Nodes[problem] : Visit(node) \in TasksOf(problem) /\ [task |-> "negate", node |-> node] \in TasksOf(problem)
  BY DEF TasksOf, Visit
<1>6. \A e \in Expr : Restore(e) \in TasksOf(problem)
  BY DEF TasksOf, Restore
<1>7. \A node \in Nodes[problem] : node.op = "const" => node.e \in Expr
  BY NodesAssumption
<1>8. \A node \in Nodes[problem] : node.op \in {"plus", "minus", "mult"} =>
        node.left \in Nodes[problem] /\ node.right \in Nodes[problem]
  BY NodesAssumption DEF Inner
<1>9. Int2Expr(-1) \in Expr /\ Int2Expr(1) \in Expr
  BY Int2ExprTyped
<1>10. Times(currentMultiplier, Int2Expr(-1)) \in Expr
  BY <1>9, TimesTyped
<1>11. CASE VisitSumWithConstant
  BY <1>2, <1>3, <1>5, <1>6, <1>8, <1>10, <1>11
     DEF VisitSumWithConstant, Visiting, Visited, AfterProduct, a
<1>12. CASE VisitSum
  BY <1>2, <1>3, <1>5, <1>8, <1>12 DEF VisitSum, Visiting, Visited, a
<1>13. CASE VisitDifference
  BY <1>2, <1>3, <1>5, <1>8, <1>13 DEF VisitDifference, Visiting, Visited, a
<1>14. CASE VisitSubtrahend
  BY <1>2, <1>3, <1>5, <1>6, <1>10, <1>14 DEF VisitSubtrahend, Visited, AfterProduct, a
<1>15. CASE VisitProduct
  <2>1. PICK operands \in {<<Visited.left, Visited.right>>, <<Visited.right, Visited.left>>} :
          /\ isConstant(operands[1])
          /\ currentMultiplier' = Times(currentMultiplier, operands[1].e)
          /\ todo' = AfterProduct(operands[2], currentMultiplier) \o Tail(todo)
    BY <1>15 DEF VisitProduct
  <2>2. Visited \in Nodes[problem] /\ Visited.op \in {"plus", "minus", "mult"}
    BY <1>3, <1>15 DEF VisitProduct, Visiting, Visited
  <2>3. operands[1] \in Nodes[problem] /\ operands[2] \in Nodes[problem]
    BY <1>8, <2>1, <2>2
  <2>4. currentMultiplier' \in Expr
    BY <2>1, <2>3, <1>7, TimesTyped DEF isConstant
  <2>5. todo' \in Seq(TasksOf(problem))
    BY <2>1, <2>3, <1>2, <1>5, <1>6 DEF AfterProduct
  <2> QED
    BY <2>4, <2>5, <1>15 DEF VisitProduct, a
<1>16. CASE VisitLocal
  <2> DEFINE v == Visited.v
  <2> DEFINE e == IF v \in DOMAIN linearExpressions
                    THEN Add(linearExpressions[v], currentMultiplier)
                    ELSE currentMultiplier
  <2>1. linearExpressions' = With(linearExpressions, v, e)
    BY <1>16 DEF VisitLocal
  <2>2. e \in Expr
    BY TimesTyped DEF a
  <2>3. \A w \in DOMAIN linearExpressions' : linearExpressions'[w] \in Expr
    BY <2>1, <2>2 DEF With, a
  <2> QED
    BY <2>3, <1>2, <1>16 DEF VisitLocal, a
<1>17. CASE VisitQuotient
  <2>1. Visited \in Nodes[problem] /\ Visited.op = "truncdiv"
    BY <1>3, <1>17 DEF VisitQuotient, Visiting, Visited
  <2>2. PICK operands \in LinearQuotients(Visited) :
          todo' = <<Visit(Node("mult", Quotient(operands[1], Visited.right), operands[2]))>>
                    \o Tail(todo)
    BY <1>17 DEF VisitQuotient
  <2>3. Node("mult", Quotient(operands[1], Visited.right), operands[2]) \in Nodes[problem]
    BY <2>1, <2>2, NodesAssumption
  <2>4. todo' \in Seq(TasksOf(problem))
    BY <2>2, <2>3, <1>2, <1>5
  <2> QED
    BY <2>4, <1>17 DEF VisitQuotient, a
<1>18. CASE VisitNonLinear
  BY <1>2, <1>18 DEF VisitNonLinear, a
<1>19. CASE RestoreMultiplier
  BY <1>2, <1>4, <1>19 DEF RestoreMultiplier, a
<1> QED
  BY <1>11, <1>12, <1>13, <1>14, <1>15, <1>16, <1>17, <1>18, <1>19 DEF visit

-----------------------------------------------------------------------------
(* What a point of the old domain satisfies.                               *)
LEMMA DomainPoint ==
  ASSUME problem \in Problems, NEW env \in Env, NEW pt \in Domain(env),
         NEW v \in Bindings(problem)
  PROVE  /\ pt[v] \in Int
         /\ \A low \in Lower(problem, v) :
              BoundValue(low)[env] \in Int /\ BoundValue(low)[env] <= pt[v]
         /\ \A up \in Upper(problem, v) :
              BoundValue(up)[env] \in Int /\ pt[v] < BoundValue(up)[env]
<1>1. Domain(env) = {q \in [Bindings(problem) -> Values] :
                       Within(problem, env, q) /\ CondsHold(problem, env, q)}
  BY DEF Domain, Domains
<1>2. pt \in [Bindings(problem) -> Values] /\ Within(problem, env, pt)
  BY <1>1
<1>3. pt[v] \in Int
  BY <1>2, ValuesAssumption
<1>4. /\ \A low \in Lower(problem, v) : BoundValue(low) \in Expr
      /\ \A up \in Upper(problem, v) : BoundValue(up) \in Expr
  BY ProblemsAssumption, BoundTyped
<1> QED
  BY <1>2, <1>3, <1>4 DEF Within, Expr

(* A step of the search, whatever the reason why it is made: linLast and   *)
(* the bindings determined so far grow by xPrev, if what there is now fits *)
(* below the next coefficient.                                             *)
LEMMA FoundStep ==
  ASSUME VisitInv, LinTyped, stage = "bounds", SearchInv, Searching,
         NEW low \in Lower(problem, xPrev), NEW dropped, NEW needed,
         Found(low, dropped, needed), Justified(low, dropped, needed)
  PROVE  VisitInv' /\ LinTyped' /\ SearchInv'
<1>1. /\ UNCHANGED <<problem, linearVars, stage, order, sign>>
      /\ next' = next + 1
      /\ linLast' = LinAfter(low)
  BY DEF Found
<1>2. VisitInv'
  BY <1>1 DEF VisitInv, linearVars, a
<1>3. /\ problem \in Problems
      /\ order \in Orders(Bindings(problem))
      /\ next \in 1 .. Len(order) /\ next < Len(order)
  BY DEF SearchInv, Searching, VisitInv
<1>4. /\ order \in [1 .. Cardinality(Bindings(problem)) -> Bindings(problem)]
      /\ Cardinality(Bindings(problem)) \in Nat
      /\ Len(order) = Cardinality(Bindings(problem))
  <2>1. Cardinality(Bindings(problem)) \in Nat
    BY <1>3, ProblemsAssumption, FS_CardinalityType
  <2> QED
    BY <1>3, <2>1 DEF Orders
<1>5. /\ next \in Nat /\ next + 1 \in 1 .. Len(order)
      /\ xPrev \in Bindings(problem) /\ x \in Bindings(problem)
  BY <1>3, <1>4 DEF xPrev, x
<1>6. a(xPrev) \in Expr /\ a(x) \in Expr
  BY <1>5 DEF SearchInv, VisitInv
<1>7. \A env \in Env : Domain(env)' = Domain(env)
  BY <1>1 DEF Domain
<1>8. \A env \in Env : \A pt \in Domain(env) :
        /\ linLast'[env][pt] = a(xPrev)[env] * (pt[xPrev] - BoundValue(low)[env])
                                 + linLast[env][pt]
        /\ linLast'[env][pt] = LinAfter(low)[env][pt]
  BY <1>1 DEF LinAfter
<1>9. \A env \in Env : \A pt \in Domain(env) :
        pt[xPrev] \in Int /\ BoundValue(low)[env] \in Int
  BY <1>3, <1>5, DomainPoint
<1>10. LinTyped'
  <2>1. \A env \in Env : \A pt \in Domain(env) :
          a(xPrev)[env] * (pt[xPrev] - BoundValue(low)[env]) + linLast[env][pt] \in Int
    BY <1>6, <1>9 DEF LinTyped, Expr
  <2> QED
    BY <1>1, <1>7, <2>1 DEF LinTyped, LinAfter
<1>11. xPrev' = x
  BY <1>1 DEF xPrev, x
<1>12. \A v : a(v)' = a(v)
  BY <1>1 DEF a, linearVars
<1>13. \A env \in Env : \A pt \in Domain(env) : Reached(env, pt)'
  <2> SUFFICES ASSUME NEW env \in Env, NEW pt \in Domain(env) PROVE Reached(env, pt)'
    OBVIOUS
  <2>1. Fits(linLast'[env][pt], a(x)[env]) /\ (a(xPrev)[env] > 0 <=> a(x)[env] > 0)
    BY <1>8 DEF Justified
  <2>2. /\ sign = "pos" => a(xPrev)[env] > 0
        /\ sign = "neg" => a(xPrev)[env] < 0
    BY DEF SearchInv, Reached
  <2>3. a(x)[env] \in Int /\ a(xPrev)[env] \in Int /\ a(x)[env] # 0
    BY <1>6, <2>1 DEF Expr, Fits
  <2>4. a(xPrev)'[env] = a(x)[env] /\ sign' = sign
    BY <1>1, <1>11, <1>12
  <2> QED
    BY <2>1, <2>2, <2>3, <2>4 DEF Reached
<1>14. \A env \in Env : \A pt1, pt2 \in Domain(env) : Determined(env, pt1, pt2)'
  <2> SUFFICES ASSUME NEW env \in Env, NEW pt1 \in Domain(env), NEW pt2 \in Domain(env),
                      linLast'[env][pt1] = linLast'[env][pt2],
                      NEW i \in 1 .. next' - 1
               PROVE  pt1[order'[i]] = pt2[order'[i]]
    BY DEF Determined
  <2> DEFINE A == a(xPrev)[env]
             l == BoundValue(low)[env]
             d1 == pt1[xPrev] - l
             d2 == pt2[xPrev] - l
             r1 == linLast[env][pt1]
             r2 == linLast[env][pt2]
  <2>1. A \in Int /\ d1 \in Int /\ d2 \in Int /\ r1 \in Int /\ r2 \in Int
    BY <1>6, <1>9 DEF LinTyped, Expr
  <2>2. A * d1 + r1 = A * d2 + r2
    BY <1>8
  <2>3. Fits(r1, A) /\ Fits(r2, A)
    BY DEF SearchInv, Reached
  <2> HIDE DEF A, d1, d2, r1, r2
  <2>4. d1 = d2 /\ r1 = r2
    BY <2>1, <2>2, <2>3, DivisionIsUnique
  <2>5. \A j \in 1 .. next - 1 : pt1[order[j]] = pt2[order[j]]
    BY <2>4 DEF SearchInv, Determined, r1, r2
  <2>6. pt1[xPrev] = pt2[xPrev]
    BY <2>4, <1>9 DEF d1, d2
  <2>7. i \in 1 .. next - 1 \/ i = next
    BY <1>1, <1>5
  <2> QED
    BY <1>1, <2>5, <2>6, <2>7 DEF xPrev
<1>15. /\ Len(order') = Len(order) /\ problem' = problem
       /\ linearExpressions' = linearExpressions
  BY <1>1 DEF linearVars
<1> QED
  BY <1>1, <1>2, <1>3, <1>5, <1>7, <1>10, <1>13, <1>14, <1>15 DEF SearchInv

-----------------------------------------------------------------------------
(* What the search knows of its next coefficients at a point.              *)
LEMMA SearchTypes ==
  ASSUME VisitInv, LinTyped, SearchInv, Searching
  PROVE  /\ problem \in Problems
         /\ xPrev \in Bindings(problem) /\ x \in Bindings(problem)
         /\ \A env \in Env : a(xPrev)[env] \in Int /\ a(x)[env] \in Int
         /\ \A env \in Env : \A pt \in Domain(env) : linLast[env][pt] \in Int
<1>1. /\ problem \in Problems
      /\ order \in Orders(Bindings(problem))
      /\ next \in 1 .. Len(order) /\ next < Len(order)
  BY DEF SearchInv, Searching, VisitInv
<1>2. Cardinality(Bindings(problem)) \in Nat
  BY <1>1, ProblemsAssumption, FS_CardinalityType
<1>3. xPrev \in Bindings(problem) /\ x \in Bindings(problem)
  BY <1>1, <1>2 DEF xPrev, x, Orders
<1>4. a(xPrev) \in Expr /\ a(x) \in Expr
  BY <1>3 DEF SearchInv, VisitInv
<1> QED
  BY <1>1, <1>3, <1>4 DEF Expr, LinTyped

(* Check 1 makes the next coefficient a positive multiple of the previous. *)
LEMMA PositiveMultiple ==
  ASSUME NEW A \in Int, NEW m \in Int, m > 0
  PROVE  A * (A * m) >= 0
<1>1. A * A \in Int /\ A * A >= 0
  OBVIOUS
<1>2. ASSUME NEW p \in Int, NEW q \in Int, p >= 0, q >= 0
      PROVE  p * q >= 0
  BY <1>2
<1>3. (A * A) * m >= 0
  BY <1>1, <1>2
<1>4. A * (A * m) = (A * A) * m
  OBVIOUS
<1> QED
  BY <1>3, <1>4

LEMMA Exact ==
  ASSUME ExactDifferences, VisitInv, LinTyped, stage = "bounds", SearchInv, FoundExact
  PROVE  \E low \in Lower(problem, xPrev) : \E dropped, needed :
           Found(low, dropped, needed) /\ Justified(low, dropped, needed)
<1>1. Searching
  BY DEF FoundExact
<1>2. PICK low \in Lower(problem, xPrev), up \in Upper(problem, xPrev) :
        /\ ExactlyFits(simplifiedMinus(up, low))
        /\ Found(low, {up}, {simplifiedMinus(up, low)})
  BY DEF FoundExact
<1> DEFINE n == simplifiedMinus(up, low)
<1>3. n = Sub(BoundValue(up), BoundValue(low))
  BY <1>1, SearchTypes DEF ExactDifferences
<1>4. ASSUME NEW env \in Env, NEW pt \in Domain(env)
      PROVE  /\ Fits(LinAfter(low)[env][pt], a(x)[env])
             /\ a(xPrev)[env] > 0 <=> a(x)[env] > 0
  <2> DEFINE A == a(xPrev)[env]
             B == a(x)[env]
             L == linLast[env][pt]
             d == pt[xPrev] - BoundValue(low)[env]
             m == BoundValue(up)[env] - BoundValue(low)[env]
  <2>1. /\ pt[xPrev] \in Int
        /\ BoundValue(low)[env] \in Int /\ BoundValue(low)[env] <= pt[xPrev]
        /\ BoundValue(up)[env] \in Int /\ pt[xPrev] < BoundValue(up)[env]
    BY <1>1, SearchTypes, DomainPoint
  <2>2. A \in Int /\ B \in Int /\ L \in Int /\ Fits(L, A)
    BY <1>1, SearchTypes DEF SearchInv, Reached
  <2>3. d \in Int /\ m \in Int /\ 0 <= d /\ d < m
    BY <2>1
  <2>4. n[env] = m
    BY <1>3 DEF Sub
  <2>5. B = A * m
    BY <1>2, <2>4 DEF ExactlyFits, Proves
  <2>6. LinAfter(low)[env][pt] = A * d + L
    BY DEF LinAfter
  <2> HIDE DEF A, B, L, d, m
  <2>7. Abs(A) * m <= Abs(B) /\ A * B >= 0
    <3>1. m > 0
      BY <2>3
    <3>2. A * B >= 0
      BY <2>2, <2>3, <2>5, <3>1, PositiveMultiple
    <3>3. CASE A > 0
      <4>1. A * m > 0 /\ A * m \in Int
        BY <2>2, <2>3, <3>1, <3>3
      <4> QED
        BY <2>2, <2>5, <3>2, <3>3, <4>1 DEF Abs
    <3>4. CASE A < 0
      <4>1. (-A) * m > 0 /\ A * m = -((-A) * m) /\ A * m \in Int
        BY <2>2, <2>3, <3>1, <3>4
      <4>2. Abs(A) = -A
        BY <2>2, <3>4 DEF Abs
      <4>3. B < 0 /\ -B = (-A) * m
        BY <2>2, <2>3, <2>5, <4>1
      <4>4. Abs(B) = -B
        BY <2>2, <4>3 DEF Abs
      <4>5. Abs(A) * m = Abs(B) /\ Abs(B) \in Int
        BY <2>2, <4>2, <4>3, <4>4
      <4> QED
        BY <3>2, <4>5
    <3>5. A > 0 \/ A < 0
      BY <2>2 DEF Fits
    <3> QED
      BY <3>3, <3>4, <3>5
  <2>8. Fits(A * d + L, B) /\ (A > 0 <=> B > 0)
    BY <2>2, <2>3, <2>7, FitsProduct
  <2> QED
    BY <2>6, <2>8 DEF A, B
<1>5. ASSUME NEW env \in Env, Domain(env) # {}
      PROVE  simplifiedMinus(up, low)[env] = Extent(up, low, env) /\ Extent(up, low, env) > 0
  <2>1. PICK pt \in Domain(env) : TRUE
    BY <1>5
  <2>2. /\ pt[xPrev] \in Int
        /\ BoundValue(low)[env] \in Int /\ BoundValue(low)[env] <= pt[xPrev]
        /\ BoundValue(up)[env] \in Int /\ pt[xPrev] < BoundValue(up)[env]
    BY <1>1, SearchTypes, DomainPoint
  <2> QED
    BY <1>3, <2>2 DEF Sub, Extent
<1>6. ASSUME NEW env \in Env, Domain(env) # {}
      PROVE  a(x)[env] = a(xPrev)[env] * Extent(up, low, env)
  BY <1>2, <1>5, <1>6 DEF ExactlyFits, Proves
<1>7. Justified(low, {up}, {n})
  BY <1>4, <1>5, <1>6 DEF Justified
<1> QED
  BY <1>2, <1>7

LEMMA Cut ==
  ASSUME ExactDifferences, VisitInv, LinTyped, stage = "bounds", SearchInv, FoundCut
  PROVE  \E low \in Lower(problem, xPrev) : \E dropped, needed :
           Found(low, dropped, needed) /\ Justified(low, dropped, needed)
<1>1. Searching /\ isSameSign(a(x), a(xPrev))
  BY DEF FoundCut
<1>2. PICK low \in Lower(problem, xPrev), up \in Upper(problem, xPrev) :
        /\ \A env \in Env : \A pt \in Domain(env) :
             Abs(a(xPrev)[env]) * simplifiedMinus(up, low)[env] <= Abs(a(x)[env])
        /\ Found(low, {}, {simplifiedMinus(up, low)})
  BY DEF FoundCut, Proves
<1>3. simplifiedMinus(up, low) = Sub(BoundValue(up), BoundValue(low))
  BY <1>1, SearchTypes DEF ExactDifferences
<1>4. ASSUME NEW env \in Env, NEW pt \in Domain(env)
      PROVE  /\ Fits(LinAfter(low)[env][pt], a(x)[env])
             /\ a(xPrev)[env] > 0 <=> a(x)[env] > 0
  <2> DEFINE A == a(xPrev)[env]
             B == a(x)[env]
             L == linLast[env][pt]
             d == pt[xPrev] - BoundValue(low)[env]
             m == BoundValue(up)[env] - BoundValue(low)[env]
  <2>1. /\ pt[xPrev] \in Int
        /\ BoundValue(low)[env] \in Int /\ BoundValue(low)[env] <= pt[xPrev]
        /\ BoundValue(up)[env] \in Int /\ pt[xPrev] < BoundValue(up)[env]
    BY <1>1, SearchTypes, DomainPoint
  <2>2. A \in Int /\ B \in Int /\ L \in Int /\ Fits(L, A)
    BY <1>1, SearchTypes DEF SearchInv, Reached
  <2>3. d \in Int /\ m \in Int /\ 0 <= d /\ d < m
    BY <2>1
  <2>4. simplifiedMinus(up, low)[env] = m
    BY <1>3 DEF Sub
  <2>5. Abs(A) * m <= Abs(B)
    BY <1>2, <2>4
  <2>6. A * B >= 0
    <3>1. B * A >= 0
      BY <1>1 DEF isSameSign
    <3> QED
      BY <3>1, <2>2
  <2>7. LinAfter(low)[env][pt] = A * d + L
    BY DEF LinAfter
  <2> HIDE DEF A, B, L, d, m
  <2>8. Fits(A * d + L, B) /\ (A > 0 <=> B > 0)
    BY <2>2, <2>3, <2>5, <2>6, FitsProduct
  <2> QED
    BY <2>7, <2>8 DEF A, B
<1>5. ASSUME NEW env \in Env, Domain(env) # {}
      PROVE  simplifiedMinus(up, low)[env] = Extent(up, low, env) /\ Extent(up, low, env) > 0
  <2>1. PICK pt \in Domain(env) : TRUE
    BY <1>5
  <2>2. /\ pt[xPrev] \in Int
        /\ BoundValue(low)[env] \in Int /\ BoundValue(low)[env] <= pt[xPrev]
        /\ BoundValue(up)[env] \in Int /\ pt[xPrev] < BoundValue(up)[env]
    BY <1>1, SearchTypes, DomainPoint
  <2> QED
    BY <1>3, <2>2 DEF Sub, Extent
<1>6. Justified(low, {}, {simplifiedMinus(up, low)})
  BY <1>4, <1>5 DEF Justified
<1> QED
  BY <1>2, <1>6

LEMMA Constrained ==
  ASSUME VisitInv, LinTyped, stage = "bounds", SearchInv, FoundConstrained
  PROVE  \E low \in Lower(problem, xPrev) : \E dropped, needed :
           Found(low, dropped, needed) /\ Justified(low, dropped, needed)
<1>1. Searching /\ isSameSign(a(x), a(xPrev)) /\ sign # "none" /\ isNonZero(a(x))
  BY DEF FoundConstrained
<1>2. PICK low \in Lower(problem, xPrev) :
        /\ \A env \in Env : \A pt \in Domain(env) :
             IF sign = "pos" THEN LinAfter(low)[env][pt] < a(x)[env]
                             ELSE a(x)[env] < LinAfter(low)[env][pt]
        /\ Found(low, {}, {})
  BY DEF FoundConstrained, Proves
<1>3. ASSUME NEW env \in Env, NEW pt \in Domain(env)
      PROVE  /\ Fits(LinAfter(low)[env][pt], a(x)[env])
             /\ a(xPrev)[env] > 0 <=> a(x)[env] > 0
  <2> DEFINE A == a(xPrev)[env]
             B == a(x)[env]
             L == linLast[env][pt]
             d == pt[xPrev] - BoundValue(low)[env]
  <2>1. /\ pt[xPrev] \in Int
        /\ BoundValue(low)[env] \in Int /\ BoundValue(low)[env] <= pt[xPrev]
    BY <1>1, SearchTypes, DomainPoint
  <2>2. A \in Int /\ B \in Int /\ L \in Int /\ Fits(L, A)
    BY <1>1, SearchTypes DEF SearchInv, Reached
  <2>3. d \in Int /\ 0 <= d
    BY <2>1
  <2>4. B * A >= 0 /\ B # 0
    BY <1>1 DEF isSameSign, isNonZero
  <2>5. LinAfter(low)[env][pt] = A * d + L
    BY DEF LinAfter
  <2>6. sign \in {"pos", "neg"} /\ (sign = "pos" => A > 0) /\ (sign = "neg" => A < 0)
    BY <1>1 DEF SearchInv, Reached
  <2>7. IF sign = "pos" THEN A * d + L < B ELSE B < A * d + L
    BY <1>2, <2>5
  <2> HIDE DEF A, B, L, d
  <2>8. Fits(A * d + L, B) /\ (A > 0 <=> B > 0)
    <3>1. CASE sign = "pos"
      <4>1. A * d >= 0 /\ A * d \in Int
        BY <2>2, <2>3, <2>6, <3>1
      <4>2. L >= 0
        BY <2>2, <2>6, <3>1 DEF Fits, Signed, Abs
      <4> QED
        BY <2>2, <2>4, <2>6, <2>7, <3>1, <4>1, <4>2 DEF Fits, Signed, Abs
    <3>2. CASE sign = "neg"
      <4>1. A * d <= 0 /\ A * d \in Int
        BY <2>2, <2>3, <2>6, <3>2
      <4>2. L <= 0
        BY <2>2, <2>6, <3>2 DEF Fits, Signed, Abs
      <4> QED
        BY <2>2, <2>4, <2>6, <2>7, <3>2, <4>1, <4>2 DEF Fits, Signed, Abs
    <3> QED
      BY <2>6, <3>1, <3>2
  <2> QED
    BY <2>5, <2>8 DEF A, B
<1>4. Justified(low, {}, {})
  BY <1>3 DEF Justified
<1> QED
  BY <1>2, <1>4

(* The search starts with a coefficient that is not zero and an empty sum. *)
LEMMA Chosen ==
  ASSUME VisitInv, LinTyped, NotYet, ChooseOrder
  PROVE  VisitInv' /\ LinTyped' /\ SearchInv'
<1>1. /\ UNCHANGED <<problem, linearVars, next, linLast>>
      /\ \A v \in Bindings(problem) : v \in DOMAIN linearExpressions
      /\ Cardinality(Bindings(problem)) > 1
  BY DEF ChooseOrder
<1>2. PICK s \in Orders(Bindings(problem)) :
        isNonZero(a(s[1])) /\ sign' \in Signs(a(s[1])) /\ order' = s
  BY DEF ChooseOrder
<1>3. problem \in Problems /\ Cardinality(Bindings(problem)) \in Nat
  BY ProblemsAssumption, FS_CardinalityType DEF VisitInv
<1>4. Len(order') = Cardinality(Bindings(problem)) /\ s[1] \in Bindings(problem)
  BY <1>1, <1>2, <1>3 DEF Orders
<1>5. next' = 1 /\ next' \in 1 .. Len(order')
  BY <1>1, <1>3, <1>4 DEF NotYet
<1>6. xPrev' = s[1] /\ a(s[1])' = a(s[1]) /\ a(s[1]) \in Expr
  BY <1>1, <1>2, <1>4, <1>5 DEF xPrev, a, linearVars, VisitInv
<1>7. \A env \in Env : Domain(env)' = Domain(env)
  BY <1>1 DEF Domain
<1>8. \A env \in Env : \A pt \in Domain(env) : Reached(env, pt)'
  <2> SUFFICES ASSUME NEW env \in Env, NEW pt \in Domain(env) PROVE Reached(env, pt)'
    OBVIOUS
  <2>1. linLast'[env][pt] = 0
    BY <1>1 DEF NotYet
  <2>2. a(s[1])[env] \in Int /\ a(s[1])[env] # 0
    BY <1>2, <1>6 DEF Expr, isNonZero
  <2>3. /\ sign' = "pos" => a(s[1])[env] > 0
        /\ sign' = "neg" => a(s[1])[env] < 0
    BY <1>2, <2>2 DEF Signs
  <2>4. Fits(0, a(s[1])[env])
    BY <2>2 DEF Fits, Signed, Abs
  <2> QED
    BY <1>6, <2>1, <2>3, <2>4 DEF Reached, xPrev, a
<1>9. \A env \in Env : \A pt1, pt2 \in Domain(env) : Determined(env, pt1, pt2)'
  BY <1>5 DEF Determined
<1>10. sign' \in {"none", "pos", "neg"}
  BY <1>2 DEF Signs
<1>11. VisitInv' /\ LinTyped'
  BY <1>1, <1>7 DEF VisitInv, LinTyped, linearVars, a
<1>12. problem' = problem /\ linearExpressions' = linearExpressions
  BY <1>1 DEF linearVars
<1> QED
  BY <1>1, <1>2, <1>5, <1>7, <1>8, <1>9, <1>10, <1>11, <1>12 DEF SearchInv

-----------------------------------------------------------------------------
LEMMA Initially == Init => IInv
<1> SUFFICES ASSUME Init PROVE IInv
  OBVIOUS
<1>1. problem \in Problems /\ problem.pattern \in Nodes[problem]
  BY ProblemsAssumption DEF Init, InitLinear
<1>2. VisitInv
  BY <1>1, Int2ExprTyped DEF Init, InitLinear, VisitInv, TasksOf, Visit, a
<1>3. LinTyped /\ NotYet
  BY DEF Init, LinTyped, NotYet
<1> QED
  BY <1>2, <1>3 DEF IInv, Init

LEMMA Inductive == ExactDifferences /\ IInv /\ [Next]_vars => IInv'
<1> SUFFICES ASSUME ExactDifferences, IInv, [Next]_vars PROVE IInv'
  OBVIOUS
<1> USE DEF IInv
<1>1. CASE PotentialLinearExpressions
  <2>1. visit /\ problem' = problem
    BY <1>1 DEF PotentialLinearExpressions, visit, VisitSumWithConstant, VisitSum,
       VisitDifference, VisitSubtrahend, VisitProduct, VisitLocal, VisitQuotient,
       VisitNonLinear, RestoreMultiplier
  <2>2. VisitInv'
    BY <2>1, VisitTyped
  <2>3. UNCHANGED <<stage, next, linLast>> /\ stage = "visit"
    BY <1>1 DEF PotentialLinearExpressions, accessVars
  <2> QED
    BY <2>1, <2>2, <2>3 DEF LinTyped, NotYet, Domain
<1>2. CASE rewriteSingleVar
  BY <1>2 DEF rewriteSingleVar, VisitInv, LinTyped, NotYet, Domain, linearVars, a
<1>3. CASE ChooseOrder
  <2>1. stage = "visit" /\ stage' = "bounds"
    BY <1>3 DEF ChooseOrder
  <2> QED
    BY <1>3, <2>1, Chosen
<1>4. CASE FoundExact
  <2>1. stage = "bounds" /\ stage' = "bounds" /\ Searching
    BY <1>4 DEF FoundExact, Searching, Found
  <2>2. PICK low \in Lower(problem, xPrev) : \E dropped, needed :
          Found(low, dropped, needed) /\ Justified(low, dropped, needed)
    BY <1>4, <2>1, Exact
  <2> QED
    BY <2>1, <2>2, FoundStep
<1>5. CASE FoundCut
  <2>1. stage = "bounds" /\ stage' = "bounds" /\ Searching
    BY <1>5 DEF FoundCut, Searching, Found
  <2>2. PICK low \in Lower(problem, xPrev) : \E dropped, needed :
          Found(low, dropped, needed) /\ Justified(low, dropped, needed)
    BY <1>5, <2>1, Cut
  <2> QED
    BY <2>1, <2>2, FoundStep
<1>6. CASE FoundConstrained
  <2>1. stage = "bounds" /\ stage' = "bounds" /\ Searching
    BY <1>6 DEF FoundConstrained, Searching, Found
  <2>2. PICK low \in Lower(problem, xPrev) : \E dropped, needed :
          Found(low, dropped, needed) /\ Justified(low, dropped, needed)
    BY <1>6, <2>1, Constrained
  <2> QED
    BY <2>1, <2>2, FoundStep
<1>7. CASE SubstituteForall
  BY <1>7 DEF SubstituteForall, VisitInv, LinTyped, SearchInv, Reached, Determined, Domain,
     xPrev, linearVars, a
<1>8. CASE Fails
  BY <1>8 DEF Fails, VisitInv, LinTyped, Domain, linearVars, a
<1>9. CASE UNCHANGED vars
  BY <1>9 DEF vars, linearVars, accessVars, VisitInv, LinTyped, NotYet, SearchInv, Reached,
     Determined, Domain, xPrev, a
<1> QED
  BY <1>1, <1>2, <1>3, <1>4, <1>5, <1>6, <1>7, <1>8, <1>9 DEF Next

LEMMA Invariant == ExactDifferences => (Spec => []IInv)
<1> SUFFICES ASSUME ExactDifferences PROVE Spec => []IInv
  OBVIOUS
<1>1. IInv /\ [Next]_vars => IInv'
  BY Inductive
<1> QED
  BY Initially, <1>1, PTL DEF Spec

LEMMA PairTyped ==
  ASSUME NEW S, NEW s \in Seq(S), Len(s) = 2
  PROVE  s[1] \in S /\ s[2] \in S
<1>1. s[1] \in S
  OBVIOUS
<1>2. s[2] \in S
  OBVIOUS
<1> QED
  BY <1>1, <1>2

LEMMA SubPointwise ==
  ASSUME NEW p, NEW q, NEW i, NEW j
  PROVE  Sub([env \in Env |-> p[env] + i], [env \in Env |-> q[env] + j])
           = [env \in Env |-> (p[env] + i) - (q[env] + j)]
BY DEF Sub

(* simplifiedMinus is the difference of its arguments unless a constant    *)
(* is left next to two products with a common factor.                      *)
THEOREM SimplifiedMinusExact == NoConstantLeft => ExactDifferences
<1> SUFFICES ASSUME NoConstantLeft,
                    NEW p \in Problems, NEW v \in Bindings(p),
                    NEW low \in Lower(p, v), NEW up \in Upper(p, v)
             PROVE  simplifiedMinus(up, low) = Sub(BoundValue(up), BoundValue(low))
  BY DEF ExactDifferences
<1> DEFINE f == up.factors
           g == low.factors
           plus == up.plus - low.plus
<1>1. BoundOK(up) /\ BoundOK(low)
  BY ProblemsAssumption
<1>2. Product(f) \in Expr /\ Product(g) \in Expr
  BY <1>1, BoundTyped
<1>3. up.plus \in Int /\ low.plus \in Int
  BY <1>1 DEF BoundOK
<1>4. Sub(BoundValue(up), BoundValue(low))
        = [env \in Env |-> (Product(f)[env] + up.plus) - (Product(g)[env] + low.plus)]
  <2>1. BoundValue(up) = [env \in Env |-> Product(f)[env] + up.plus]
    BY DEF BoundValue, Add, Int2Expr
  <2>2. BoundValue(low) = [env \in Env |-> Product(g)[env] + low.plus]
    BY DEF BoundValue, Add, Int2Expr
  <2> HIDE DEF f, g
  <2> QED
    BY <2>1, <2>2, SubPointwise
<1>5. CASE Product(f) = Product(g) \/ CommonFactors(f, g) = {}
  <2>1. simplifiedMinus(up, low)
          = [env \in Env |-> Product(f)[env] - Product(g)[env] + plus]
    BY <1>5 DEF simplifiedMinus, Add, Sub, Int2Expr
  <2>2. \A env \in Env : Product(f)[env] \in Int /\ Product(g)[env] \in Int
    BY <1>2 DEF Expr
  <2> QED
    BY <1>3, <1>4, <2>1, <2>2
<1>6. CASE ~(Product(f) = Product(g) \/ CommonFactors(f, g) = {})
  <2> DEFINE c == CHOOSE c \in CommonFactors(f, g) : TRUE
             i == c[1]
             j == c[2]
  <2>1. c \in CommonFactors(f, g)
    BY <1>6
  <2>2. /\ i \in {1, 2} /\ j \in {1, 2}
        /\ Len(f) = 2 /\ Len(g) = 2 /\ f[i] = g[j]
    <3> HIDE DEF c
    <3>1. c \in {1, 2} \X {1, 2} /\ Len(f) = 2 /\ Len(g) = 2 /\ f[c[1]] = g[c[2]]
      BY <2>1 DEF CommonFactors
    <3> QED
      BY <3>1
  <2>3. plus = 0
    BY <1>3, <1>6 DEF NoConstantLeft
  <2>4. f \in Seq(Expr) /\ g \in Seq(Expr)
    BY <1>1 DEF BoundOK
  <2>5. /\ f[i] \in Expr /\ f[3 - i] \in Expr
        /\ g[3 - j] \in Expr
    <3> HIDE DEF f, g, i, j
    <3>1. 3 - i \in {1, 2} /\ 3 - j \in {1, 2}
      BY <2>2
    <3>2. f[1] \in Expr /\ f[2] \in Expr /\ g[1] \in Expr /\ g[2] \in Expr
      BY <2>2, <2>4, PairTyped
    <3> QED
      BY <2>2, <3>1, <3>2, Zenon
  <2>6. \A env \in Env : /\ f[i][env] \in Int
                         /\ f[3 - i][env] \in Int
                         /\ g[3 - j][env] \in Int
    BY <2>5 DEF Expr
  <2>7. simplifiedMinus(up, low)
          = [env \in Env |-> f[i][env] * (f[3 - i][env] - g[3 - j][env] + plus)]
    BY <1>6 DEF simplifiedMinus, Times, Add, Sub, Int2Expr
  <2> HIDE DEF c
  <2>8. /\ Product(f) = Times(f[1], f[2])
        /\ Product(g) = Times(g[1], g[2])
    BY <2>2 DEF Product
  <2>9. \A env \in Env :
          /\ Product(f)[env] = f[i][env] * f[3 - i][env]
          /\ Product(g)[env] = f[i][env] * g[3 - j][env]
    <3> SUFFICES ASSUME NEW env \in Env
                 PROVE  /\ Product(f)[env] = f[i][env] * f[3 - i][env]
                        /\ Product(g)[env] = f[i][env] * g[3 - j][env]
      OBVIOUS
    <3>1. /\ Product(f)[env] = f[1][env] * f[2][env]
          /\ Product(g)[env] = g[1][env] * g[2][env]
      BY <2>8 DEF Times
    <3>2. /\ f[1][env] \in Int /\ f[2][env] \in Int
          /\ g[1][env] \in Int /\ g[2][env] \in Int
      BY <2>2, <2>4 DEF Expr
    <3>3. Product(f)[env] = f[i][env] * f[3 - i][env]
      BY <2>2, <3>1, <3>2
    <3>4. Product(g)[env] = g[j][env] * g[3 - j][env]
      BY <2>2, <3>1, <3>2
    <3> QED
      BY <2>2, <3>3, <3>4
  <2>10. \A a0, b0, c0 \in Int : a0 * (b0 - c0 + 0) = a0 * b0 - a0 * c0
    OBVIOUS
  <2>11. up.plus = low.plus
    BY <1>3, <2>3
  <2>12. \A env \in Env :
           f[i][env] * (f[3 - i][env] - g[3 - j][env] + plus)
             = (Product(f)[env] + up.plus) - (Product(g)[env] + low.plus)
    <3> SUFFICES ASSUME NEW env \in Env
                 PROVE  f[i][env] * (f[3 - i][env] - g[3 - j][env] + plus)
                          = (Product(f)[env] + up.plus) - (Product(g)[env] + low.plus)
      OBVIOUS
    <3>1. /\ Product(f)[env] = f[i][env] * f[3 - i][env]
          /\ Product(g)[env] = f[i][env] * g[3 - j][env]
      BY <2>9
    <3>2. /\ f[i][env] \in Int /\ f[3 - i][env] \in Int /\ g[3 - j][env] \in Int
      BY <2>6
    <3>3. /\ Product(f)[env] \in Int /\ Product(g)[env] \in Int
      BY <1>2 DEF Expr
    <3> HIDE DEF f, g, i, j, plus
    <3>4. f[i][env] * (f[3 - i][env] - g[3 - j][env] + plus)
            = Product(f)[env] - Product(g)[env]
      BY <2>3, <2>10, <3>1, <3>2
    <3> QED
      BY <1>3, <2>11, <3>3, <3>4
  <2> QED
    BY <1>4, <2>7, <2>12
<1> QED
  BY <1>5, <1>6

(* Whichever of the three checks found the bounds, the bindings so far add *)
(* less to the index than the next coefficient: the remainder by it is     *)
(* theirs.                                                                 *)
THEOREM PrefixesFit == ExactDifferences => (Spec => []PrefixFits)
<1> SUFFICES ASSUME ExactDifferences PROVE Spec => []PrefixFits
  OBVIOUS
<1>1. IInv => PrefixFits
  BY DEF IInv, SearchInv, Reached, Fits, PrefixFits
<1> QED
  BY Invariant, <1>1, PTL

(* The index determines the bindings: no two points of the old domain      *)
(* become one point of the new one.                                        *)
THEOREM PrefixesDetermine == ExactDifferences => (Spec => []PrefixDetermines)
<1> SUFFICES ASSUME ExactDifferences PROVE Spec => []PrefixDetermines
  OBVIOUS
<1>1. IInv => PrefixDetermines
  BY DEF IInv, SearchInv, Determined, PrefixDetermines
<1> QED
  BY Invariant, <1>1, PTL

-----------------------------------------------------------------------------
(***************************************************************************)
(* That rewriting a linear access (SimplifyNestedQuantifiers.scala:        *)
(* 1273-1907) changes nothing, for all patterns, bounds and conditions and *)
(* any number of bindings.                                                 *)
(*                                                                         *)
(* The visit.  What the tasks that are still on the stack will add is a    *)
(* function of the multiplier they start with; the sum of it and of what   *)
(* has been collected is the pattern, before and after each step.          *)
(*                                                                         *)
(* The search.  For the bindings in the order found, c[j] is the distance  *)
(* from the smallest index that the first j of them make.  Every c[j - 1]  *)
(* is less than the size of coefficient j, so quotient and remainder by    *)
(* the coefficient take binding j and c[j - 1] out of c[j].  An upper      *)
(* bound is dropped only if the next coefficient is the product of this    *)
(* one and the extent, and then it follows from the remainder.  So a       *)
(* point of the old quantifier is found back from its index (Forth), and   *)
(* an index of the new one is that of the point it gives (Back).           *)
(*                                                                         *)
(* What is supposed besides the assumptions on the constants:              *)
(*   ExactDifferences  extents are computed as differences, not by the     *)
(*                     special case for products (lines 1870-1905)         *)
(*   Unbounded         the quantifiers range over the integers             *)
(*   OnlyFirstIsUnit   a coefficient that is the literal 1 comes first     *)
(*   NeverEmpty        the old quantifier has a point in each environment  *)
(* Without the first and the last two the code departs from its intention, *)
(* as the comments of LinearAccess say.                                    *)
(***************************************************************************)

-----------------------------------------------------------------------------
(* Induction, and functions that are defined by it.                        *)

\* A set of naturals that is not empty has a least element.
LEMMA LeastNumber ==
  ASSUME NEW T, T \subseteq Nat, T # {}
  PROVE  \E least \in T : \A y \in T : least <= y
<1>1. IsWellFoundedOn(OpToRel(<, Nat), Nat)
  BY NatLessThanWellFounded
<1>2. PICK least \in T : \A y \in T : ~(<<y, least>> \in OpToRel(<, Nat))
  BY <1>1, WFMin
<1>3. \A y \in T : ~(y < least)
  BY <1>2 DEF OpToRel
<1> QED
  BY <1>3

\* A set that holds 0 and, with a number, the next, holds all naturals.
LEMMA UpwardInduction ==
  ASSUME NEW T, 0 \in T, \A n \in Nat : n \in T => n + 1 \in T
  PROVE  Nat \subseteq T
<1> DEFINE U == Nat \ T
<1>1. SUFFICES ASSUME U # {} PROVE FALSE
  OBVIOUS
<1>2. PICK least \in U : \A y \in U : least <= y
  BY <1>1, LeastNumber
<1>3. least # 0 /\ least - 1 \in Nat /\ least - 1 \notin U
  BY <1>2
<1> QED
  BY <1>2, <1>3

\* From n down to 0.
LEMMA DownwardInduction ==
  ASSUME NEW n \in Nat, NEW T, n \in T, \A i \in 0 .. n - 1 : i + 1 \in T => i \in T
  PROVE  0 .. n \subseteq T
<1> DEFINE U == {j \in Nat : j <= n => n - j \in T}
<1>1. 0 \in U
  OBVIOUS
<1>2. ASSUME NEW j \in Nat, j \in U, j + 1 <= n
      PROVE  n - (j + 1) \in T
  <2>1. n - (j + 1) \in 0 .. n - 1 /\ (n - (j + 1)) + 1 = n - j /\ n - j \in T
    BY <1>2
  <2> QED
    BY <2>1
<1>3. Nat \subseteq U
  <2> HIDE DEF U
  <2>1. \A j \in Nat : j \in U => j + 1 \in U
    BY <1>2 DEF U
  <2> QED
    BY <1>1, <2>1, UpwardInduction
<1>4. ASSUME NEW i \in 0 .. n PROVE i \in T
  <2>1. n - i \in U /\ n - i \in Nat /\ n - (n - i) = i
    BY <1>3
  <2> QED
    BY <2>1
<1> QED
  BY <1>4

\* f begins with base and goes on by go, or ends with it and goes back by go.
Steps(n, S) == [0 .. n - 1 -> [S -> S]]
GoesForward(n, S, base, go, f) ==
  f \in [0 .. n -> S] /\ f[0] = base /\ \A i \in 0 .. n - 1 : f[i + 1] = go[i][f[i]]
GoesBack(n, S, base, go, f) ==
  f \in [0 .. n -> S] /\ f[n] = base /\ \A i \in 0 .. n - 1 : f[i] = go[i][f[i + 1]]

\* A function on 0 .. n can be built from its value at 0.
LEMMA ForwardExists ==
  ASSUME NEW n \in Nat, NEW S, NEW base \in S, NEW go \in Steps(n, S)
  PROVE  \E f : GoesForward(n, S, base, go, f)
<1> DEFINE Upto(m, f) == /\ f \in [0 .. m -> S] /\ f[0] = base
                         /\ \A i \in 0 .. m - 1 : f[i + 1] = go[i][f[i]]
           T == {m \in Nat : m <= n => \E f : Upto(m, f)}
<1>1. 0 \in T
  <2>1. Upto(0, [i \in 0 .. 0 |-> base])
    OBVIOUS
  <2> QED
    BY <2>1
<1>2. ASSUME NEW m \in Nat, m \in T, m + 1 <= n
      PROVE  \E f : Upto(m + 1, f)
  <2>1. PICK f : Upto(m, f)
    <3>1. m <= n
      BY <1>2
    <3> HIDE DEF Upto
    <3> QED
      BY <1>2, <3>1
  <2> DEFINE h == [i \in 0 .. m + 1 |-> IF i <= m THEN f[i] ELSE go[m][f[m]]]
  <2>2. m \in 0 .. m /\ f[m] \in S /\ m \in 0 .. n - 1 /\ go[m][f[m]] \in S
    BY <1>2, <2>1 DEF Steps
  <2>3. h \in [0 .. m + 1 -> S] /\ h[0] = base
    BY <2>1, <2>2
  <2>4. ASSUME NEW i \in 0 .. (m + 1) - 1 PROVE h[i + 1] = go[i][h[i]]
    <3>1. CASE i = m
      BY <2>2, <3>1
    <3>2. CASE i \in 0 .. m - 1
      BY <2>1, <3>2
    <3> QED
      BY <3>1, <3>2
  <2>5. Upto(m + 1, h)
    BY <2>3, <2>4
  <2> QED
    BY <2>5
<1>3. n \in T
  <2> HIDE DEF Upto
  <2>1. \A m \in Nat : m \in T => m + 1 \in T
    BY <1>2
  <2> HIDE DEF T
  <2> QED
    BY <1>1, <2>1, UpwardInduction
<1> QED
  BY <1>3 DEF GoesForward

\* A function on 0 .. n can be built from its value at n.
LEMMA BackwardExists ==
  ASSUME NEW n \in Nat, NEW S, NEW base \in S, NEW go \in Steps(n, S)
  PROVE  \E f : GoesBack(n, S, base, go, f)
<1> DEFINE rev == [i \in 0 .. n - 1 |-> go[(n - 1) - i]]
<1>1. rev \in Steps(n, S) /\ \A i \in 0 .. n - 1 : rev[i] = go[(n - 1) - i]
  BY DEF Steps
<1> HIDE DEF rev
<1>2. PICK g : GoesForward(n, S, base, rev, g)
  BY <1>1, ForwardExists
<1> DEFINE f == [i \in 0 .. n |-> g[n - i]]
<1>3. f \in [0 .. n -> S] /\ f[n] = base
  BY <1>2 DEF GoesForward
<1>4. ASSUME NEW i \in 0 .. n - 1 PROVE f[i] = go[i][f[i + 1]]
  <2>1. (n - 1) - i \in 0 .. n - 1 /\ ((n - 1) - i) + 1 = n - i /\ n - (i + 1) = (n - 1) - i
        /\ i + 1 \in 0 .. n /\ (n - 1) - ((n - 1) - i) = i
    OBVIOUS
  <2>2. g[n - i] = rev[(n - 1) - i][g[(n - 1) - i]]
    BY <1>2, <2>1 DEF GoesForward
  <2>3. rev[(n - 1) - i] = go[i]
    BY <1>1, <2>1
  <2> QED
    BY <2>1, <2>2, <2>3
<1> HIDE DEF f
<1> QED
  BY <1>3, <1>4 DEF GoesBack

-----------------------------------------------------------------------------
(* From the empty set, one element after another, to every subset of a     *)
(* finite set.                                                             *)
LEMMA SubsetInduction ==
  ASSUME NEW D, IsFiniteSet(D), NEW C, {} \in C,
         \A T \in SUBSET D, w \in D : T \in C /\ w \notin T => T \cup {w} \in C
  PROVE  SUBSET D \subseteq C
<1> DEFINE U == {k \in Nat : \A T \in SUBSET D : Cardinality(T) = k => T \in C}
<1>1. \A T \in SUBSET D : IsFiniteSet(T) /\ Cardinality(T) \in Nat
  BY FS_Subset, FS_CardinalityType
<1>2. 0 \in U
  BY <1>1, FS_EmptySet
<1>3. ASSUME NEW k \in Nat, k \in U, NEW T \in SUBSET D, Cardinality(T) = k + 1
      PROVE  T \in C
  <2>1. T # {}
    BY <1>3, FS_EmptySet
  <2>2. PICK w \in T : TRUE
    BY <2>1
  <2>3. T \ {w} \in SUBSET D /\ w \in D /\ (T \ {w}) \cup {w} = T
    BY <2>2
  <2>4. Cardinality(T \ {w}) = k
    <3>1. IsFiniteSet(T) /\ Cardinality(T \ {w}) = Cardinality(T) - 1
      BY <1>1, <2>2, FS_RemoveElement
    <3> QED
      BY <1>3, <3>1
  <2>5. T \ {w} \in C
    BY <1>3, <2>3, <2>4
  <2> QED
    BY <2>3, <2>5
<1>4. Nat \subseteq U
  <2>1. \A k \in Nat : k \in U => k + 1 \in U
    BY <1>3
  <2> HIDE DEF U
  <2> QED
    BY <1>2, <2>1, UpwardInduction
<1> QED
  BY <1>1, <1>4

-----------------------------------------------------------------------------
(* Sums over finite sets.                                                  *)
Picked(s) == CHOOSE v \in s : TRUE
SumStep(f, sum, s) == IF s = {} THEN 0 ELSE f[Picked(s)] + sum[s \ {Picked(s)}]

(* The element of a set that is taken out first is in it.                  *)
LEMMA PickedIn == ASSUME NEW s, s # {} PROVE Picked(s) \in s
BY DEF Picked

(* The recursive definition of Sums has a function that satisfies it.      *)
LEMMA SumExists ==
  ASSUME NEW f, IsFiniteSet(DOMAIN f)
  PROVE  \E sum : sum = [s \in SUBSET DOMAIN f |-> SumStep(f, sum, s)]
<1> DEFINE D == DOMAIN f
           Small(k) == {s \in SUBSET D : Cardinality(s) <= k}
           Upto(k, g) == g = [s \in Small(k) |-> g[s]] /\ \A s \in Small(k) : g[s] = SumStep(f, g, s)
           U == {k \in Nat : \E g : Upto(k, g)}
<1>1. \A s \in SUBSET D : IsFiniteSet(s) /\ Cardinality(s) \in Nat
  BY FS_Subset, FS_CardinalityType
<1>2. \A s \in SUBSET D : s # {} =>
        /\ s \ {Picked(s)} \in SUBSET D
        /\ Cardinality(s \ {Picked(s)}) = Cardinality(s) - 1
  BY <1>1, PickedIn, FS_RemoveElement
<1>3. 0 \in U
  <2> DEFINE g == [s \in Small(0) |-> 0]
  <2>1. ASSUME NEW s \in Small(0) PROVE g[s] = SumStep(f, g, s)
    <3>1. s = {}
      BY <1>1, FS_EmptySet
    <3> QED
      BY <3>1 DEF SumStep
  <2>2. Upto(0, g)
    BY <2>1
  <2> QED
    BY <2>2
<1>4. ASSUME NEW k \in Nat, k \in U PROVE k + 1 \in U
  <2>1. PICK g : Upto(k, g)
    BY <1>4
  <2> DEFINE h == [s \in Small(k + 1) |-> IF s \in Small(k) THEN g[s] ELSE SumStep(f, g, s)]
  <2>2. \A s \in Small(k) : s \in Small(k + 1)
    BY <1>1
  <2>3. ASSUME NEW s \in Small(k + 1) PROVE h[s] = SumStep(f, g, s) /\ (s # {} => s \ {Picked(s)} \in Small(k))
    BY <1>1, <1>2, <2>1
  <2>4. ASSUME NEW s \in Small(k + 1) PROVE h[s] = SumStep(f, h, s)
    <3>1. CASE s = {}
      BY <2>3, <3>1 DEF SumStep
    <3>2. CASE s # {}
      <4>1. h[s \ {Picked(s)}] = g[s \ {Picked(s)}]
        <5> HIDE DEF Small
        <5> QED
          BY <2>2, <2>3, <3>2
      <4> HIDE DEF h
      <4> QED
        BY <2>3, <3>2, <4>1 DEF SumStep
    <3> QED
      BY <3>1, <3>2
  <2>5. h = [s \in Small(k + 1) |-> h[s]]
    <3> HIDE DEF Small
    <3> QED
      OBVIOUS
  <2>6. Upto(k + 1, h)
    <3> HIDE DEF h, Small
    <3> QED
      BY <2>4, <2>5
  <2> HIDE DEF Upto
  <2> QED
    BY <2>6
<1>5. Nat \subseteq U
  <2> HIDE DEF U
  <2> QED
    BY <1>3, <1>4, UpwardInduction
<1>6. Cardinality(D) \in Nat /\ Small(Cardinality(D)) = SUBSET D
  BY <1>1, FS_Subset, FS_CardinalityType
<1>7. PICK g : Upto(Cardinality(D), g)
  BY <1>5, <1>6
<1>8. g = [s \in SUBSET D |-> g[s]] /\ \A s \in SUBSET D : g[s] = SumStep(f, g, s)
  BY <1>6, <1>7
<1>9. [s \in SUBSET D |-> g[s]] = [s \in SUBSET D |-> SumStep(f, g, s)]
  BY <1>8
<1>10. g = [s \in SUBSET D |-> SumStep(f, g, s)]
  <2> HIDE DEF D, SumStep
  <2> QED
    BY <1>8, <1>9
<1> QED
  BY <1>10

(* The recursive definition of Sums determines it.                         *)
LEMMA SumDefined ==
  ASSUME NEW f, IsFiniteSet(DOMAIN f)
  PROVE  /\ Sums(f)[{}] = 0
         /\ \A s \in SUBSET DOMAIN f : s # {} =>
              Sums(f)[s] = f[Picked(s)] + Sums(f)[s \ {Picked(s)}]
<1>1. Sums(f) = CHOOSE sum : sum = [s \in SUBSET DOMAIN f |-> SumStep(f, sum, s)]
  BY DEF Sums, SumStep, Picked
<1>2. Sums(f) = [s \in SUBSET DOMAIN f |-> SumStep(f, Sums(f), s)]
  BY <1>1, SumExists
<1>3. \A s \in SUBSET DOMAIN f : Sums(f)[s] = SumStep(f, Sums(f), s)
  BY <1>2
<1> QED
  BY <1>3 DEF SumStep

(* Whichever element is taken out first.                                   *)
LEMMA SumAdd ==
  ASSUME NEW D, IsFiniteSet(D), NEW f \in [D -> Int]
  PROVE  /\ Sums(f)[{}] = 0
         /\ \A T \in SUBSET D :
              /\ Sums(f)[T] \in Int
              /\ \A w \in T : Sums(f)[T] = f[w] + Sums(f)[T \ {w}]
<1> DEFINE S == Sums(f)
           Good(T) == S[T] \in Int /\ \A w \in T : S[T] = f[w] + S[T \ {w}]
           U == {k \in Nat : \A T \in SUBSET D : Cardinality(T) <= k => Good(T)}
<1>1. /\ S[{}] = 0
      /\ \A s \in SUBSET D : s # {} => S[s] = f[Picked(s)] + S[s \ {Picked(s)}]
  BY SumDefined
<1> HIDE DEF S
<1>2. \A T \in SUBSET D : IsFiniteSet(T) /\ Cardinality(T) \in Nat
  BY FS_Subset, FS_CardinalityType
<1>3. \A T \in SUBSET D : \A w \in T : Cardinality(T \ {w}) = Cardinality(T) - 1
  BY <1>2, FS_RemoveElement
<1>4. 0 \in U
  <2>1. \A T \in SUBSET D : Cardinality(T) <= 0 => T = {}
    BY <1>2, FS_EmptySet
  <2>2. Good({})
    BY <1>1
  <2> QED
    BY <2>1, <2>2
<1>5. ASSUME NEW k \in Nat, k \in U, NEW T \in SUBSET D, Cardinality(T) <= k + 1
      PROVE  Good(T)
  <2>1. CASE T = {}
    BY <1>1, <2>1
  <2>2. CASE T # {}
    <3> DEFINE u == Picked(T)
    <3>1. u \in T /\ S[T] = f[u] + S[T \ {u}]
      BY <1>1, <2>2, PickedIn
    <3> HIDE DEF u
    <3>2. \A w \in T : T \ {w} \in SUBSET D /\ Cardinality(T \ {w}) <= k
      BY <1>2, <1>3, <1>5
    <3>3. \A w \in T : Good(T \ {w})
      BY <3>2, <1>5
    <3>4. \A w \in T : f[w] \in Int /\ S[T \ {w}] \in Int
      BY <3>3
    <3>5. S[T] \in Int
      BY <3>1, <3>4
    <3>6. ASSUME NEW w \in T, w # u PROVE S[T] = f[w] + S[T \ {w}]
      <4>1. /\ w \in T \ {u} /\ u \in T \ {w}
            /\ (T \ {u}) \ {w} = (T \ {w}) \ {u}
        BY <3>1, <3>6
      <4>2. /\ S[T \ {u}] = f[w] + S[(T \ {u}) \ {w}]
            /\ S[T \ {w}] = f[u] + S[(T \ {u}) \ {w}]
        BY <3>1, <3>3, <4>1
      <4>3. (T \ {u}) \ {w} \in SUBSET D /\ Cardinality((T \ {u}) \ {w}) <= k
        <5>1. Cardinality((T \ {u}) \ {w}) = Cardinality(T \ {u}) - 1
          BY <1>3, <3>1, <3>2, <4>1
        <5> QED
          BY <1>2, <3>1, <3>2, <5>1
      <4>4. S[(T \ {u}) \ {w}] \in Int
        BY <1>5, <4>3
      <4> QED
        BY <3>1, <3>4, <4>2, <4>4
    <3> QED
      BY <3>1, <3>5, <3>6
  <2> QED
    BY <2>1, <2>2
<1>6. Nat \subseteq U
  <2>1. \A k \in Nat : k \in U => k + 1 \in U
    <3> HIDE DEF Good
    <3> QED
      BY <1>5
  <2> HIDE DEF U
  <2> QED
    BY <1>4, <2>1, UpwardInduction
<1>7. \A T \in SUBSET D : Good(T)
  <2> HIDE DEF Good
  <2>1. \A T \in SUBSET D : Cardinality(T) \in U /\ Cardinality(T) <= Cardinality(T)
    BY <1>2, <1>6
  <2> QED
    BY <2>1
<1> QED
  BY <1>1, <1>7 DEF S

IntFun(D) == [D -> Int]

(* The same for functions to the integers.                                 *)
LEMMA SumsAdd ==
  ASSUME NEW D, IsFiniteSet(D), NEW f \in IntFun(D)
  PROVE  /\ Sums(f)[{}] = 0
         /\ \A T \in SUBSET D :
              /\ Sums(f)[T] \in Int
              /\ \A w \in T : Sums(f)[T] = f[w] + Sums(f)[T \ {w}]
BY SumAdd DEF IntFun

(* Equal terms have equal sums.                                            *)
LEMMA SumAgree ==
  ASSUME NEW D, IsFiniteSet(D), NEW E, IsFiniteSet(E), D \subseteq E,
         NEW f \in [D -> Int], NEW g \in [E -> Int],
         NEW T \in SUBSET D, \A v \in T : f[v] = g[v]
  PROVE  Sums(f)[T] = Sums(g)[T]
<1> DEFINE C == {s \in SUBSET T : Sums(f)[s] = Sums(g)[s]}
<1>1. IsFiniteSet(T)
  BY FS_Subset
<1>2. {} \in C
  BY SumAdd
<1>3. ASSUME NEW s \in SUBSET T, NEW w \in T, s \in C, w \notin s PROVE s \cup {w} \in C
  <2>1. (s \cup {w}) \ {w} = s /\ s \cup {w} \in SUBSET T
    BY <1>3
  <2>2. Sums(f)[s \cup {w}] = f[w] + Sums(f)[s]
    BY <2>1, SumAdd
  <2>3. Sums(g)[s \cup {w}] = g[w] + Sums(g)[s]
    BY <2>1, SumAdd
  <2> QED
    BY <1>3, <2>1, <2>2, <2>3
<1>4. SUBSET T \subseteq C
  <2> HIDE DEF C
  <2> QED
    BY <1>1, <1>2, <1>3, SubsetInduction
<1> QED
  BY <1>4

(* A sum of weighted values changes by the weighted differences.           *)
LEMMA SumDifference ==
  ASSUME NEW D, IsFiniteSet(D),
         NEW f \in [D -> Int], NEW g \in [D -> Int], NEW h \in [D -> Int],
         \A v \in D : f[v] = g[v] + h[v],
         NEW T \in SUBSET D
  PROVE  Sums(f)[T] = Sums(g)[T] + Sums(h)[T]
<1>0. \A q \in [D -> Int] :
        /\ Sums(q)[{}] = 0
        /\ \A s \in SUBSET D :
             /\ Sums(q)[s] \in Int
             /\ \A u \in s : Sums(q)[s] = q[u] + Sums(q)[s \ {u}]
  <2> SUFFICES ASSUME NEW q \in [D -> Int]
               PROVE  /\ Sums(q)[{}] = 0
                      /\ \A s \in SUBSET D :
                           /\ Sums(q)[s] \in Int
                           /\ \A u \in s : Sums(q)[s] = q[u] + Sums(q)[s \ {u}]
    OBVIOUS
  <2> QED
    BY SumsAdd DEF IntFun
<1> DEFINE C == {s \in SUBSET D : Sums(f)[s] = Sums(g)[s] + Sums(h)[s]}
<1>1. {} \in C
  <2>1. Sums(f)[{}] = 0 /\ Sums(g)[{}] = 0 /\ Sums(h)[{}] = 0
    BY SumAdd
  <2> QED
    BY <2>1
<1>2. ASSUME NEW s \in SUBSET D, NEW w \in D, s \in C, w \notin s PROVE s \cup {w} \in C
  <2>1. (s \cup {w}) \ {w} = s /\ s \cup {w} \in SUBSET D /\ w \in s \cup {w}
    BY <1>2
  <2>2. \A q \in [D -> Int] : Sums(q)[s \cup {w}] = q[w] + Sums(q)[s] /\ Sums(q)[s] \in Int
    <3> HIDE DEF C
    <3>1. ASSUME NEW q \in [D -> Int]
          PROVE  Sums(q)[s \cup {w}] = q[w] + Sums(q)[s] /\ Sums(q)[s] \in Int
      <4>1. Sums(q)[s \cup {w}] = q[w] + Sums(q)[(s \cup {w}) \ {w}]
        BY <1>0, <2>1
      <4>2. Sums(q)[s] \in Int
        BY <1>0
      <4> QED
        BY <2>1, <4>1, <4>2
    <3> QED
      BY <3>1
  <2>3. Sums(f)[s] = Sums(g)[s] + Sums(h)[s]
    BY <1>2
  <2>4. f[w] = g[w] + h[w] /\ g[w] \in Int /\ h[w] \in Int
    OBVIOUS
  <2>5. Sums(f)[s \cup {w}] = Sums(g)[s \cup {w}] + Sums(h)[s \cup {w}]
    <3> HIDE DEF C
    <3>1. /\ Sums(f)[s \cup {w}] = f[w] + Sums(f)[s]
          /\ Sums(g)[s \cup {w}] = g[w] + Sums(g)[s] /\ Sums(g)[s] \in Int
          /\ Sums(h)[s \cup {w}] = h[w] + Sums(h)[s] /\ Sums(h)[s] \in Int
      BY <2>2
    <3> QED
      BY <2>3, <2>4, <3>1
  <2> QED
    BY <2>1, <2>5
<1>3. SUBSET D \subseteq C
  <2> HIDE DEF C
  <2> QED
    BY <1>1, <1>2, SubsetInduction
<1> QED
  BY <1>3

(* The same for three functions on one set.                                *)
LEMMA SumsDifference ==
  ASSUME NEW D, IsFiniteSet(D),
         NEW f \in IntFun(D), NEW g \in IntFun(D), NEW h \in IntFun(D),
         \A v \in D : f[v] = g[v] + h[v],
         NEW T \in SUBSET D
  PROVE  Sums(f)[T] = Sums(g)[T] + Sums(h)[T]
<1>1. f \in [D -> Int] /\ g \in [D -> Int] /\ h \in [D -> Int]
  BY DEF IntFun
<1> QED
  BY <1>1, SumDifference

-----------------------------------------------------------------------------
(* Weighted sums.                                                          *)
LEMMA WeightedTyped ==
  ASSUME NEW D, IsFiniteSet(D), NEW weights \in [D -> Int], NEW E, D \subseteq E,
         NEW pt \in [E -> Int]
  PROVE  WeightedSum(weights, pt) \in Int
<1> DEFINE f == [v \in D |-> weights[v] * pt[v]]
<1>1. f \in [D -> Int]
  OBVIOUS
<1>2. WeightedSum(weights, pt) = Sums(f)[D]
  BY DEF WeightedSum
<1> HIDE DEF f
<1> QED
  BY <1>1, <1>2, SumAdd

(* A coefficient that grows by m adds m times the binding.                 *)
Grown(weights, v, m) ==
  [w \in DOMAIN weights \cup {v} |->
     IF w = v THEN IF v \in DOMAIN weights THEN weights[v] + m ELSE m ELSE weights[w]]

(* The weighted sum with a coefficient that has grown.                     *)
LEMMA WeightedGrows ==
  ASSUME NEW D, IsFiniteSet(D), NEW weights \in IntFun(D), NEW E, D \subseteq E,
         NEW pt \in IntFun(E), NEW v \in E, NEW m \in Int
  PROVE  WeightedSum(Grown(weights, v, m), pt) = WeightedSum(weights, pt) + m * pt[v]
<1> DEFINE E1 == D \cup {v}
           grown == Grown(weights, v, m)
           f == [w \in D |-> weights[w] * pt[w]]
           g == [w \in E1 |-> grown[w] * pt[w]]
<1>0. /\ DOMAIN weights = D /\ DOMAIN grown = E1
      /\ \A w \in D : weights[w] \in Int
      /\ \A w \in E : pt[w] \in Int
      /\ \A w \in D \ {v} : grown[w] = weights[w]
      /\ grown[v] = IF v \in D THEN weights[v] + m ELSE m
  BY DEF Grown, IntFun
<1> HIDE DEF grown
<1>1. f \in IntFun(D) /\ g \in IntFun(E1) /\ IsFiniteSet(E1)
  <2>1. \A w \in E1 : grown[w] \in Int /\ pt[w] \in Int
    BY <1>0
  <2> QED
    BY <1>0, <2>1, FS_AddElement DEF IntFun
<1>2. WeightedSum(weights, pt) = Sums(f)[D] /\ WeightedSum(grown, pt) = Sums(g)[E1]
  BY <1>0 DEF WeightedSum
<1>3. /\ \A w \in D \ {v} : f[w] = g[w]
      /\ g[v] = (IF v \in D THEN weights[v] + m ELSE m) * pt[v]
      /\ v \in D => f[v] = weights[v] * pt[v]
  BY <1>0
<1> HIDE DEF f, g
<1> SUFFICES WeightedSum(grown, pt) = WeightedSum(weights, pt) + m * pt[v]
  BY DEF grown
<1>4. E1 \ {v} = D \ {v}
  OBVIOUS
<1>5. Sums(g)[E1] = g[v] + Sums(g)[D \ {v}]
  <2>1. E1 \in SUBSET E1 /\ v \in E1
    OBVIOUS
  <2> HIDE DEF E1
  <2>2. Sums(g)[E1] = g[v] + Sums(g)[E1 \ {v}]
    BY <1>1, <2>1, SumsAdd
  <2> QED
    BY <1>4, <2>2
<1>6. Sums(f)[D \ {v}] = Sums(g)[D \ {v}]
  <2>1. D \ {v} \in SUBSET D /\ D \subseteq E1
    OBVIOUS
  <2> HIDE DEF E1
  <2> QED
    BY <1>1, <1>3, <2>1, FS_Subset, SumAgree DEF IntFun
<1>7. Sums(f)[D \ {v}] \in Int
  BY <1>1, SumsAdd
<1>8. CASE v \in D
  <2>1. Sums(f)[D] = f[v] + Sums(f)[D \ {v}]
    BY <1>1, <1>8, SumsAdd
  <2>2. (weights[v] + m) * pt[v] = weights[v] * pt[v] + m * pt[v]
    BY <1>0, <1>8
  <2>3. weights[v] * pt[v] \in Int /\ m * pt[v] \in Int
    BY <1>0, <1>8
  <2> QED
    BY <1>2, <1>3, <1>5, <1>6, <1>7, <1>8, <2>1, <2>2, <2>3
<1>9. CASE v \notin D
  <2>1. D \ {v} = D
    BY <1>9
  <2>2. m * pt[v] \in Int
    BY <1>0
  <2>3. g[v] = m * pt[v]
    BY <1>3, <1>9
  <2>4. Sums(f)[D] = Sums(g)[D \ {v}] /\ Sums(f)[D] \in Int
    BY <1>6, <1>7, <2>1
  <2>5. Sums(g)[E1] = m * pt[v] + Sums(f)[D]
    BY <1>5, <2>3, <2>4
  <2> HIDE DEF E1
  <2> QED
    BY <1>2, <2>2, <2>4, <2>5
<1> QED
  BY <1>8, <1>9

-----------------------------------------------------------------------------
(* What is still to be visited.                                            *)
Points == [Bindings(problem) -> Values]

(* What task t, and then the rest of them, adds for each multiplier.       *)
TaskAdds(t, rest, env, pt) ==
  [m \in Int |->
     CASE t.task = "restore" -> rest[t.multiplier[env]]
       [] t.task = "visit" -> rest[m] + m * NodeValue(t.node, env, pt)
       [] t.task = "negate" -> rest[m] - m * NodeValue(t.node, env, pt)]

(* A node of a problem denotes an integer.                                 *)
LEMMA NodeValueTyped ==
  ASSUME problem \in Problems, NEW node \in Nodes[problem], NEW env \in Env, NEW pt \in Points
  PROVE  NodeValue(node, env, pt) \in Int
BY NodeValueAssumption DEF Points

(* What a task adds is an integer.                                         *)
LEMMA TaskAddsTyped ==
  ASSUME problem \in Problems, NEW t \in TasksOf(problem), NEW rest \in [Int -> Int],
         NEW env \in Env, NEW pt \in Points
  PROVE  TaskAdds(t, rest, env, pt) \in [Int -> Int]
<1>1. CASE t.task = "restore"
  <2>1. t.multiplier[env] \in Int
    BY <1>1 DEF TasksOf, Expr
  <2> QED
    BY <1>1, <2>1 DEF TaskAdds
<1>2. CASE t.task \in {"visit", "negate"}
  <2>1. t.node \in Nodes[problem]
    BY <1>2 DEF TasksOf
  <2>2. NodeValue(t.node, env, pt) \in Int
    BY <2>1, NodeValueTyped
  <2> QED
    BY <1>2, <2>2 DEF TaskAdds
<1> QED
  BY <1>1, <1>2 DEF TasksOf

(* The recursive definition of PendingBy has a function that satisfies it. *)
LEMMA PendingDefined ==
  ASSUME problem \in Problems, NEW tasks \in Seq(TasksOf(problem)),
         NEW env \in Env, NEW pt \in Points
  PROVE  LET pending == PendingBy(tasks, env, pt) IN
           /\ pending \in [0 .. Len(tasks) -> [Int -> Int]]
           /\ pending[Len(tasks)] = [m \in Int |-> 0]
           /\ \A i \in 0 .. Len(tasks) - 1 :
                pending[i] = TaskAdds(tasks[i + 1], pending[i + 1], env, pt)
<1> DEFINE k == Len(tasks)
           S == [Int -> Int]
           zero == [m \in Int |-> 0]
           goOn == [i \in 0 .. k - 1 |-> [rest \in S |-> TaskAdds(tasks[i + 1], rest, env, pt)]]
<1>1. k \in Nat /\ zero \in S
  OBVIOUS
<1>2. goOn \in Steps(k, S)
  <2>1. \A i \in 0 .. k - 1 : tasks[i + 1] \in TasksOf(problem)
    OBVIOUS
  <2>2. \A i \in 0 .. k - 1 : \A rest \in S : TaskAdds(tasks[i + 1], rest, env, pt) \in S
    BY <2>1, TaskAddsTyped
  <2> QED
    BY <2>2 DEF Steps
<1>3. \A i \in 0 .. k - 1, rest \in S : goOn[i][rest] = TaskAdds(tasks[i + 1], rest, env, pt)
  OBVIOUS
<1> HIDE DEF goOn, zero, S, k
<1>4. PICK f : GoesBack(k, S, zero, goOn, f)
  BY <1>1, <1>2, BackwardExists
<1>5. f \in [0 .. k -> S] /\ f[k] = zero /\ \A i \in 0 .. k - 1 : f[i] = goOn[i][f[i + 1]]
  BY <1>4 DEF GoesBack
<1>6. \A i \in 0 .. k - 1 : f[i] = TaskAdds(tasks[i + 1], f[i + 1], env, pt)
  BY <1>1, <1>3, <1>5
<1>7. f = [i \in 0 .. k |-> IF i = k THEN zero ELSE TaskAdds(tasks[i + 1], f[i + 1], env, pt)]
  BY <1>1, <1>5, <1>6
<1> DEFINE pending == PendingBy(tasks, env, pt)
<1>8. pending = CHOOSE g : g = [i \in 0 .. k |-> IF i = k THEN zero
                                  ELSE TaskAdds(tasks[i + 1], g[i + 1], env, pt)]
  BY DEF PendingBy, TaskAdds, k, zero
<1>9. pending = [i \in 0 .. k |-> IF i = k THEN zero
                   ELSE TaskAdds(tasks[i + 1], pending[i + 1], env, pt)]
  BY <1>7, <1>8
<1> HIDE DEF pending
<1>10. pending[k] = zero
  BY <1>1, <1>9
<1>11. \A i \in 0 .. k - 1 : pending[i] = TaskAdds(tasks[i + 1], pending[i + 1], env, pt)
  BY <1>1, <1>9
<1>12. pending \in [0 .. k -> S]
  <2> DEFINE T == {i \in 0 .. k : pending[i] \in S}
  <2>1. k \in T
    BY <1>1, <1>10
  <2>2. \A i \in 0 .. k - 1 : i + 1 \in T => i \in T
    <3>1. ASSUME NEW i \in 0 .. k - 1, pending[i + 1] \in S PROVE i \in 0 .. k /\ pending[i] \in S
      <4>1. tasks[i + 1] \in TasksOf(problem) /\ i \in 0 .. k
        BY <1>1 DEF k
      <4>2. TaskAdds(tasks[i + 1], pending[i + 1], env, pt) \in S
        BY <3>1, <4>1, TaskAddsTyped DEF S
      <4> QED
        BY <1>11, <4>1, <4>2
    <3> QED
      BY <3>1
  <2>3. 0 .. k \subseteq T
    <3> HIDE DEF T
    <3> QED
      BY <1>1, <2>1, <2>2, DownwardInduction
  <2> QED
    BY <1>9, <2>3
<1> QED
  BY <1>10, <1>11, <1>12 DEF pending, k, zero, S

(* What the first task and the others add.                                 *)
LEMMA PendingFirst ==
  ASSUME problem \in Problems, NEW t \in TasksOf(problem), NEW tasks \in Seq(TasksOf(problem)),
         NEW env \in Env, NEW pt \in Points
  PROVE  /\ PendingBy(tasks, env, pt)[0] \in [Int -> Int]
         /\ PendingBy(<<t>> \o tasks, env, pt)[0]
              = TaskAdds(t, PendingBy(tasks, env, pt)[0], env, pt)
<1> DEFINE more == <<t>> \o tasks
           k == Len(tasks)
           p == PendingBy(tasks, env, pt)
           q == PendingBy(more, env, pt)
<1>1. /\ k \in Nat /\ more \in Seq(TasksOf(problem)) /\ Len(more) = k + 1
      /\ more[1] = t /\ \A i \in 1 .. k : more[i + 1] = tasks[i]
  OBVIOUS
<1> HIDE DEF more, k
<1>2. /\ p \in [0 .. k -> [Int -> Int]]
      /\ p[k] = [m \in Int |-> 0]
      /\ \A i \in 0 .. k - 1 : p[i] = TaskAdds(tasks[i + 1], p[i + 1], env, pt)
  BY PendingDefined DEF k
<1>3. /\ q[k + 1] = [m \in Int |-> 0]
      /\ \A i \in 0 .. k : q[i] = TaskAdds(more[i + 1], q[i + 1], env, pt)
  <2>1. /\ q[Len(more)] = [m \in Int |-> 0]
        /\ \A i \in 0 .. Len(more) - 1 : q[i] = TaskAdds(more[i + 1], q[i + 1], env, pt)
    BY <1>1, PendingDefined
  <2> QED
    BY <1>1, <2>1
<1> HIDE DEF p, q
<1> DEFINE T == {i \in 0 .. k : q[i + 1] = p[i]}
<1>4. k \in T
  BY <1>1, <1>2, <1>3
<1>5. ASSUME NEW i \in 0 .. k - 1, i + 1 \in T PROVE i \in T
  <2>1. i + 1 \in 0 .. k /\ i \in 0 .. k /\ more[(i + 1) + 1] = tasks[i + 1]
    BY <1>1
  <2>2. q[i + 1] = TaskAdds(tasks[i + 1], q[(i + 1) + 1], env, pt)
    BY <1>3, <2>1
  <2> QED
    BY <1>2, <1>5, <2>1, <2>2
<1>6. 0 .. k \subseteq T
  <2> HIDE DEF T
  <2> QED
    BY <1>1, <1>4, <1>5, DownwardInduction
<1>7. q[1] = p[0]
  <2>1. 0 \in T
    BY <1>1, <1>6
  <2> QED
    BY <2>1
<1>8. q[0] = TaskAdds(t, q[1], env, pt)
  <2>1. 0 \in 0 .. k /\ more[0 + 1] = t /\ 0 + 1 = 1
    BY <1>1
  <2> QED
    BY <1>3, <2>1
<1> QED
  BY <1>1, <1>2, <1>7, <1>8 DEF p, q, more

-----------------------------------------------------------------------------
(* Division.                                                               *)
LEMMA DivMod ==
  ASSUME NEW i \in Int, NEW d \in Int, d > 0
  PROVE  /\ i \div d \in Int /\ i % d \in 0 .. d - 1
         /\ i = d * (i \div d) + (i % d)
OBVIOUS

(* The quotient and the remainder, taken apart.                            *)
LEMMA DivModIs ==
  ASSUME NEW d \in Int, d > 0, NEW y \in Int, NEW r \in 0 .. d - 1
  PROVE  (d * y + r) \div d = y /\ (d * y + r) % d = r
<1> DEFINE i == d * y + r
<1>1. i \in Int
  OBVIOUS
<1>2. i \div d \in Int /\ i % d \in 0 .. d - 1 /\ i = d * (i \div d) + (i % d)
  BY <1>1, DivMod
<1> DEFINE z == i \div d
           q == i % d
<1>3. z \in Int /\ q \in 0 .. d - 1 /\ d * y + r = d * z + q
  BY <1>2
<1> HIDE DEF i, z, q
<1>4. d * (y - z) = q - r
  <2>1. d * (y - z) = d * y - d * z /\ d * y \in Int /\ d * z \in Int
    BY <1>3
  <2> QED
    BY <1>3, <2>1
<1>5. ~(y > z)
  <2>1. y > z => d * (y - z - 1) >= 0 /\ d * (y - z - 1) = d * (y - z) - d
    BY <1>3
  <2> QED
    BY <1>3, <1>4, <2>1
<1>6. ~(z > y)
  <2>1. z > y => d * (z - y - 1) >= 0 /\ d * (z - y - 1) = -(d * (y - z)) - d
    BY <1>3
  <2> QED
    BY <1>3, <1>4, <2>1
<1>7. y = z /\ r = q
  <2>1. y = z
    BY <1>3, <1>5, <1>6
  <2> QED
    BY <1>3, <1>4, <2>1
<1> QED
  BY <1>7 DEF i, z, q

(* A product with a literal that c divides, by c.                          *)
LEMMA QuotientExact ==
  ASSUME NEW l \in Int, NEW r \in Int, NEW c \in Int, c # 0, l % Abs(c) = 0, NEW q,
         q = IF c < 0 THEN -(l \div Abs(c)) ELSE l \div Abs(c)
  PROVE  q \in Int /\ Truncated(l * r, c) = q * r
<1> DEFINE d == Abs(c)
           w == l \div d
           z == w * r
<1>1. d \in Int /\ d > 0
  BY DEF Abs
<1>2. w \in Int /\ l = d * w
  <2>1. w \in Int /\ l = d * w + (l % d)
    BY <1>1, DivMod
  <2> QED
    BY <2>1, <1>1
<1>3. z \in Int /\ l * r = d * z
  <2>1. z \in Int
    BY <1>2
  <2>2. (d * w) * r = d * (w * r)
    <3> HIDE DEF d, w
    <3> QED
      BY <1>1, <1>2
  <2> QED
    BY <1>2, <2>1, <2>2
<1>4. q * r = IF c < 0 THEN -z ELSE z
  <2>1. q = IF c < 0 THEN -w ELSE w
    OBVIOUS
  <2> HIDE DEF w
  <2> QED
    BY <1>2, <2>1
<1>5. (l * r < 0) = (z < 0) /\ Abs(l * r) = d * Abs(z) /\ Abs(z) \in Int
  <2> HIDE DEF d, z
  <2>1. CASE z >= 0
    <3>1. d * z >= 0 /\ d * z \in Int
      BY <1>1, <1>3, <2>1
    <3> QED
      BY <1>3, <2>1, <3>1 DEF Abs
  <2>2. CASE z < 0
    <3>1. d * (-z) >= d /\ d * (-z) = -(d * z) /\ d * z \in Int
      BY <1>1, <1>3, <2>2
    <3> QED
      BY <1>1, <1>3, <2>2, <3>1 DEF Abs
  <2> QED
    BY <1>3, <2>1, <2>2
<1>6. Abs(l * r) \div d = Abs(z)
  <2> HIDE DEF d, z
  <2>1. (d * Abs(z) + 0) \div d = Abs(z)
    BY <1>1, <1>5, DivModIs
  <2>2. d * Abs(z) + 0 = d * Abs(z)
    BY <1>1, <1>5
  <2> QED
    BY <1>5, <2>1, <2>2
<1>7. Truncated(l * r, c) = IF (z < 0) = (c < 0) THEN Abs(z) ELSE -Abs(z)
  BY <1>5, <1>6 DEF Truncated
<1>8. q \in Int
  BY <1>2
<1> HIDE DEF d, w, z
<1> QED
  BY <1>3, <1>4, <1>7, <1>8 DEF Abs

-----------------------------------------------------------------------------
(* The visit.                                                              *)
LinearInv ==
  /\ VisitInv
  /\ DOMAIN linearExpressions \subseteq Bindings(problem)
  /\ constantExpression \in Expr
  /\ NothingLost

Coefficients(env) == [v \in DOMAIN linearExpressions |-> a(v)[env]]
Rest(env, pt) == PendingBy(Tail(todo), env, pt)[0]
Balance(env, pt) == Index(env, pt) + PendingValue(todo, currentMultiplier, env, pt)
Negate(node) == [task |-> "negate", node |-> node]

(* The three kinds of tasks.                                               *)
LEMMA TaskAddsIs ==
  ASSUME NEW t, NEW rest, NEW env, NEW pt, NEW m \in Int
  PROVE  /\ t.task = "restore" => TaskAdds(t, rest, env, pt)[m] = rest[t.multiplier[env]]
         /\ t.task = "visit" =>
              TaskAdds(t, rest, env, pt)[m] = rest[m] + m * NodeValue(t.node, env, pt)
         /\ t.task = "negate" =>
              TaskAdds(t, rest, env, pt)[m] = rest[m] - m * NodeValue(t.node, env, pt)
BY DEF TaskAdds

(* What the visit has collected are integers.                              *)
LEMMA CoefficientsTyped ==
  ASSUME problem \in Problems, DOMAIN linearExpressions \subseteq Bindings(problem),
         \A v \in DOMAIN linearExpressions : a(v) \in Expr, constantExpression \in Expr,
         NEW env \in Env
  PROVE  /\ IsFiniteSet(DOMAIN linearExpressions)
         /\ Coefficients(env) \in [DOMAIN linearExpressions -> Int]
         /\ constantExpression[env] \in Int
         /\ \A pt \in Points :
              /\ pt \in [Bindings(problem) -> Int]
              /\ WeightedSum(Coefficients(env), pt) \in Int
              /\ Index(env, pt) = constantExpression[env] + WeightedSum(Coefficients(env), pt)
<1>1. IsFiniteSet(Bindings(problem))
  BY ProblemsAssumption
<1>2. IsFiniteSet(DOMAIN linearExpressions)
  BY <1>1, FS_Subset
<1>3. Coefficients(env) \in [DOMAIN linearExpressions -> Int]
  BY DEF Coefficients, Expr
<1>4. constantExpression[env] \in Int
  BY DEF Expr
<1>5. \A pt \in Points : pt \in [Bindings(problem) -> Int]
  BY ValuesAssumption DEF Points
<1>6. ASSUME NEW pt \in Points
      PROVE  /\ WeightedSum(Coefficients(env), pt) \in Int
             /\ Index(env, pt) = constantExpression[env] + WeightedSum(Coefficients(env), pt)
  <2>1. WeightedSum(Coefficients(env), pt) \in Int
    BY <1>2, <1>3, <1>5, WeightedTyped
  <2> QED
    BY <2>1 DEF Index, Coefficients
<1> QED
  BY <1>2, <1>3, <1>4, <1>5, <1>6

(* What is known of the tasks when one is begun.                           *)
LEMMA VisitStart ==
  ASSUME LinearInv, todo # <<>>, NEW env \in Env, NEW pt \in Points
  PROVE  LET R == Rest(env, pt)
             m == currentMultiplier[env]
         IN /\ R \in [Int -> Int] /\ m \in Int
            /\ Head(todo) \in TasksOf(problem)
            /\ PendingValue(todo, currentMultiplier, env, pt) = TaskAdds(Head(todo), R, env, pt)[m]
            /\ \A t \in TasksOf(problem) :
                 PendingBy(<<t>> \o Tail(todo), env, pt)[0] = TaskAdds(t, R, env, pt)
            /\ \A t1, t2 \in TasksOf(problem) :
                 PendingBy(<<t1, t2>> \o Tail(todo), env, pt)[0]
                   = TaskAdds(t1, TaskAdds(t2, R, env, pt), env, pt)
<1> DEFINE tail == Tail(todo)
           R == Rest(env, pt)
<1>1. problem \in Problems /\ currentMultiplier[env] \in Int
  BY DEF LinearInv, VisitInv, Expr
<1>2. /\ Head(todo) \in TasksOf(problem) /\ tail \in Seq(TasksOf(problem))
      /\ todo = <<Head(todo)>> \o tail
  BY DEF LinearInv, VisitInv
<1>3. \A t1, t2 \in TasksOf(problem) :
        <<t1, t2>> \o tail = <<t1>> \o (<<t2>> \o tail) /\ <<t2>> \o tail \in Seq(TasksOf(problem))
  <2> SUFFICES ASSUME NEW t1 \in TasksOf(problem), NEW t2 \in TasksOf(problem)
               PROVE  /\ <<t1, t2>> \o tail = <<t1>> \o (<<t2>> \o tail)
                      /\ <<t2>> \o tail \in Seq(TasksOf(problem))
    OBVIOUS
  <2> HIDE DEF tail
  <2>1. <<t2>> \in Seq(TasksOf(problem)) /\ <<t1>> \in Seq(TasksOf(problem))
    OBVIOUS
  <2>2. <<t1, t2>> = <<t1>> \o <<t2>>
    <3> DEFINE c == <<t1>> \o <<t2>>
               d == <<t1, t2>>
    <3>1. c \in Seq(TasksOf(problem)) /\ Len(c) = 2 /\ c[1] = t1 /\ c[2] = t2
      OBVIOUS
    <3>2. d \in Seq(TasksOf(problem)) /\ Len(d) = 2 /\ d[1] = t1 /\ d[2] = t2
      OBVIOUS
    <3>3. \A i \in 1 .. 2 : c[i] = d[i]
      BY <3>1, <3>2
    <3> HIDE DEF c, d
    <3>4. c = d
      BY <3>1, <3>2, <3>3
    <3> QED
      BY <3>4 DEF c, d
  <2>3. (<<t1>> \o <<t2>>) \o tail = <<t1>> \o (<<t2>> \o tail)
    BY <1>2, <2>1
  <2> QED
    BY <1>2, <2>1, <2>2, <2>3
<1> HIDE DEF tail
<1>4. /\ R \in [Int -> Int]
      /\ \A t \in TasksOf(problem) :
           PendingBy(<<t>> \o tail, env, pt)[0] = TaskAdds(t, R, env, pt)
  BY <1>1, <1>2, PendingFirst DEF Rest, tail
<1> HIDE DEF R
<1>5. PendingValue(todo, currentMultiplier, env, pt)
        = TaskAdds(Head(todo), R, env, pt)[currentMultiplier[env]]
  <2>1. PendingBy(todo, env, pt)[0] = TaskAdds(Head(todo), R, env, pt)
    BY <1>2, <1>4
  <2> QED
    BY <2>1 DEF PendingValue
<1>6. ASSUME NEW t1 \in TasksOf(problem), NEW t2 \in TasksOf(problem)
      PROVE  PendingBy(<<t1, t2>> \o tail, env, pt)[0]
               = TaskAdds(t1, TaskAdds(t2, R, env, pt), env, pt)
  <2> DEFINE more == <<t2>> \o tail
  <2>1. more \in Seq(TasksOf(problem)) /\ <<t1, t2>> \o tail = <<t1>> \o more
    BY <1>3
  <2>2. PendingBy(more, env, pt)[0] = TaskAdds(t2, R, env, pt)
    BY <1>4
  <2> HIDE DEF more
  <2>3. PendingBy(<<t1>> \o more, env, pt)[0] = TaskAdds(t1, PendingBy(more, env, pt)[0], env, pt)
    BY <1>1, <2>1, PendingFirst
  <2> QED
    BY <2>1, <2>2, <2>3
<1> QED
  BY <1>1, <1>2, <1>4, <1>5, <1>6 DEF R, tail

(* Products of sums, in the form in which the visit needs them.            *)
LEMMA DistributeOver ==
  ASSUME NEW m \in Int, NEW i \in Int, NEW j \in Int
  PROVE  /\ m * (i + j) = m * i + m * j
         /\ m * (i - j) = m * i - m * j
         /\ (m * (-1)) * j = -(m * j)
         /\ (m * i) * j = m * (i * j)
         /\ m * i \in Int
         /\ m * j \in Int
OBVIOUS

(* No visit changes the sum of what is collected and what is pending.      *)
LEMMA VisitBalanced ==
  ASSUME LinearInv, visit, problem' = problem, isLinear', NEW env \in Env, NEW pt \in Points
  PROVE  isLinear /\ Balance(env, pt)' = Balance(env, pt)
<1> DEFINE head == Head(todo)
           R == Rest(env, pt)
           m == currentMultiplier[env]
           C == constantExpression[env]
           W == WeightedSum(Coefficients(env), pt)
           NV(node) == NodeValue(node, env, pt)
<1> USE DEF LinearInv
<1>1. todo # <<>>
  BY DEF visit, VisitSumWithConstant, VisitSum, VisitDifference, VisitSubtrahend,
         VisitProduct, VisitLocal, VisitQuotient, VisitNonLinear, RestoreMultiplier, Visiting
<1>2. /\ R \in [Int -> Int] /\ m \in Int
      /\ head \in TasksOf(problem)
      /\ PendingValue(todo, currentMultiplier, env, pt) = TaskAdds(head, R, env, pt)[m]
      /\ \A t \in TasksOf(problem) :
           PendingBy(<<t>> \o Tail(todo), env, pt)[0] = TaskAdds(t, R, env, pt)
      /\ \A t1, t2 \in TasksOf(problem) :
           PendingBy(<<t1, t2>> \o Tail(todo), env, pt)[0]
             = TaskAdds(t1, TaskAdds(t2, R, env, pt), env, pt)
  BY <1>1, VisitStart
<1>3. /\ C \in Int /\ W \in Int /\ pt \in [Bindings(problem) -> Int]
      /\ Index(env, pt) = C + W
  BY CoefficientsTyped DEF VisitInv
<1>4. problem \in Problems /\ currentMultiplier \in Expr
  BY DEF VisitInv
<1> HIDE DEF LinearInv
<1>5. head.task \in {"visit", "negate"} => head.node \in Nodes[problem]
  BY <1>2 DEF TasksOf
<1>6. /\ \A node \in Nodes[problem] :
           Visit(node) \in TasksOf(problem) /\ Negate(node) \in TasksOf(problem)
      /\ Restore(currentMultiplier) \in TasksOf(problem)
  BY <1>4 DEF TasksOf, Visit, Negate, Restore
<1>7. \A node \in Nodes[problem] : NV(node) \in Int
  BY <1>4, NodeValueTyped
<1>8. \A node \in Nodes[problem] : isConstant(node) => node.e \in Expr /\ NV(node) = node.e[env]
  BY <1>4, NodesAssumption, NodeValueAssumption DEF isConstant, Points
<1>9. \A node \in Nodes[problem] : node.op \in Inner =>
        /\ node.left \in Nodes[problem] /\ node.right \in Nodes[problem]
        /\ node.op = "plus" => NV(node) = NV(node.left) + NV(node.right)
        /\ node.op = "minus" => NV(node) = NV(node.left) - NV(node.right)
        /\ node.op = "mult" => NV(node) = NV(node.left) * NV(node.right)
  BY <1>4, NodesAssumption, NodeValueAssumption DEF Points
<1> DEFINE Adds(t, rest) == TaskAdds(t, rest, env, pt)
<1>10. \A node, rest : \A i \in Int :
         /\ Adds(Visit(node), rest)[i] = rest[i] + i * NV(node)
         /\ Adds(Negate(node), rest)[i] = rest[i] - i * NV(node)
         /\ Adds(Restore(currentMultiplier), rest)[i] = rest[m]
  BY TaskAddsIs DEF Visit, Negate, Restore
<1>11. /\ head.task = "visit" => Adds(head, R)[m] = R[m] + m * NV(head.node)
       /\ head.task = "negate" => Adds(head, R)[m] = R[m] - m * NV(head.node)
       /\ head.task = "restore" => Adds(head, R)[m] = R[head.multiplier[env]]
  BY <1>2, TaskAddsIs
<1>12. R[m] \in Int
  BY <1>2
<1>13. Balance(env, pt) = C + W + Adds(head, R)[m]
  BY <1>2, <1>3 DEF Balance
<1> DEFINE C2 == constantExpression'[env]
           W2 == WeightedSum(Coefficients(env)', pt)
           P2 == PendingBy(todo', env, pt)[0][currentMultiplier'[env]]
<1>14. Balance(env, pt)' = C2 + W2 + P2
  BY DEF Balance, Index, Coefficients, PendingValue
<1>15. linearExpressions' = linearExpressions => W2 = W
  BY DEF Coefficients, a
<1> HIDE DEF head, R, m, C, W, NV, Adds, C2, W2, P2
<1> DEFINE Same == isLinear /\ C2 + W2 + P2 = C + W + Adds(head, R)[m]
<1>16. Visited = head.node
  BY DEF Visited, head
<1>17. \A e, sign0 : constantExpression' = addToConstant(e, sign0) => C2 = C + sign0 * (m * e[env])
  BY DEF addToConstant, Add, Times, Int2Expr, C2, C, m
<1>20. ASSUME VisitSum PROVE Same
  <2> DEFINE l == head.node.left
             r == head.node.right
  <2>1. /\ head.task = "visit" /\ head.node.op = "plus"
        /\ todo' = <<Visit(l), Visit(r)>> \o Tail(todo)
        /\ currentMultiplier' = currentMultiplier
        /\ constantExpression' = constantExpression /\ linearExpressions' = linearExpressions
        /\ isLinear' = isLinear
    BY <1>16, <1>20 DEF VisitSum, Visiting, head
  <2>2. l \in Nodes[problem] /\ r \in Nodes[problem] /\ NV(head.node) = NV(l) + NV(r)
    BY <1>5, <1>9, <2>1 DEF Inner
  <2>3. P2 = Adds(Visit(l), Adds(Visit(r), R))[m]
    BY <1>2, <1>6, <2>1, <2>2 DEF P2, Adds, m
  <2>4. P2 = R[m] + m * NV(r) + m * NV(l)
    BY <1>2, <1>10, <2>3
  <2>5. Adds(head, R)[m] = R[m] + m * (NV(l) + NV(r))
    BY <1>11, <2>1, <2>2
  <2>6. C2 = C /\ W2 = W
    BY <1>15, <2>1 DEF C2, C
  <2>7. m * (NV(l) + NV(r)) = m * NV(l) + m * NV(r) /\ m * NV(l) \in Int /\ m * NV(r) \in Int
    BY <1>2, <1>7, <2>2, DistributeOver
  <2> QED
    BY <1>3, <1>12, <2>1, <2>4, <2>5, <2>6, <2>7
<1>21. ASSUME VisitDifference PROVE Same
  <2> DEFINE l == head.node.left
             r == head.node.right
  <2>1. /\ head.task = "visit" /\ head.node.op = "minus"
        /\ todo' = <<Visit(l), Negate(r)>> \o Tail(todo)
        /\ currentMultiplier' = currentMultiplier
        /\ constantExpression' = constantExpression /\ linearExpressions' = linearExpressions
        /\ isLinear' = isLinear
    BY <1>16, <1>21 DEF VisitDifference, Visiting, head, Negate
  <2>2. l \in Nodes[problem] /\ r \in Nodes[problem] /\ NV(head.node) = NV(l) - NV(r)
    BY <1>5, <1>9, <2>1 DEF Inner
  <2>3. P2 = Adds(Visit(l), Adds(Negate(r), R))[m]
    BY <1>2, <1>6, <2>1, <2>2 DEF P2, Adds, m
  <2>4. P2 = R[m] - m * NV(r) + m * NV(l)
    BY <1>2, <1>10, <2>3
  <2>5. Adds(head, R)[m] = R[m] + m * (NV(l) - NV(r))
    BY <1>11, <2>1, <2>2
  <2>6. C2 = C /\ W2 = W
    BY <1>15, <2>1 DEF C2, C
  <2>7. m * (NV(l) - NV(r)) = m * NV(l) - m * NV(r) /\ m * NV(l) \in Int /\ m * NV(r) \in Int
    BY <1>2, <1>7, <2>2, DistributeOver
  <2> QED
    BY <1>3, <1>12, <2>1, <2>4, <2>5, <2>6, <2>7
<1>22. ASSUME VisitSubtrahend PROVE Same
  <2> DEFINE r == head.node
  <2>1. /\ head.task = "negate"
        /\ todo' = <<Visit(r), Restore(currentMultiplier)>> \o Tail(todo)
        /\ currentMultiplier' = Times(currentMultiplier, Int2Expr(-1))
        /\ constantExpression' = constantExpression /\ linearExpressions' = linearExpressions
        /\ isLinear' = isLinear
    BY <1>16, <1>22 DEF VisitSubtrahend, AfterProduct, head
  <2>2. r \in Nodes[problem]
    BY <1>5, <2>1
  <2>3. currentMultiplier'[env] = m * (-1) /\ m * (-1) \in Int
    BY <1>2, <2>1 DEF Times, Int2Expr, m
  <2>4. P2 = Adds(Visit(r), Adds(Restore(currentMultiplier), R))[m * (-1)]
    BY <1>2, <1>6, <2>1, <2>2, <2>3 DEF P2, Adds
  <2>5. P2 = R[m] + (m * (-1)) * NV(r)
    BY <1>10, <2>3, <2>4
  <2>6. Adds(head, R)[m] = R[m] - m * NV(r)
    BY <1>11, <2>1
  <2>7. C2 = C /\ W2 = W
    BY <1>15, <2>1 DEF C2, C
  <2>8. (m * (-1)) * NV(r) = -(m * NV(r)) /\ m * NV(r) \in Int
    BY <1>2, <1>7, <2>2, DistributeOver
  <2> QED
    BY <1>3, <1>12, <2>1, <2>5, <2>6, <2>7, <2>8
<1>23. ASSUME VisitProduct PROVE Same
  <2> DEFINE l == head.node.left
             r == head.node.right
  <2>1. /\ head.task = "visit" /\ head.node.op = "mult"
        /\ constantExpression' = constantExpression /\ linearExpressions' = linearExpressions
        /\ isLinear' = isLinear
    BY <1>23 DEF VisitProduct, Visiting, head
  <2>2. l \in Nodes[problem] /\ r \in Nodes[problem] /\ NV(head.node) = NV(l) * NV(r)
    BY <1>5, <1>9, <2>1 DEF Inner
  <2>3. PICK o1 \in {l, r}, o2 \in {l, r} :
          /\ isConstant(o1) /\ NV(l) * NV(r) = NV(o1) * NV(o2)
          /\ currentMultiplier' = Times(currentMultiplier, o1.e)
          /\ todo' = <<Visit(o2), Restore(currentMultiplier)>> \o Tail(todo)
    <3>1. PICK operands \in {<<l, r>>, <<r, l>>} :
            /\ isConstant(operands[1])
            /\ currentMultiplier' = Times(currentMultiplier, operands[1].e)
            /\ todo' = <<Visit(operands[2]), Restore(currentMultiplier)>> \o Tail(todo)
      BY <1>16, <1>23 DEF VisitProduct, AfterProduct
    <3>2. NV(l) * NV(r) = NV(r) * NV(l)
      BY <1>7, <2>2
    <3>3. CASE operands = <<l, r>>
      BY <3>1, <3>3
    <3>4. CASE operands = <<r, l>>
      BY <3>1, <3>2, <3>4
    <3> QED
      BY <3>1, <3>3, <3>4
  <2>4. /\ o1 \in Nodes[problem] /\ o2 \in Nodes[problem]
        /\ NV(o1) = o1.e[env] /\ NV(o1) \in Int /\ NV(o2) \in Int
    BY <1>7, <1>8, <2>2, <2>3
  <2>5. currentMultiplier'[env] = m * NV(o1) /\ m * NV(o1) \in Int
    <3>1. currentMultiplier'[env] = m * o1.e[env]
      BY <2>3 DEF Times, m
    <3> QED
      BY <1>2, <2>4, <3>1
  <2>6. P2 = Adds(Visit(o2), Adds(Restore(currentMultiplier), R))[m * NV(o1)]
    BY <1>2, <1>6, <2>3, <2>4, <2>5 DEF P2, Adds
  <2>7. P2 = R[m] + (m * NV(o1)) * NV(o2)
    BY <1>10, <2>5, <2>6
  <2>8. Adds(head, R)[m] = R[m] + m * (NV(o1) * NV(o2))
    BY <1>11, <2>1, <2>2, <2>3
  <2>9. C2 = C /\ W2 = W
    BY <1>15, <2>1 DEF C2, C
  <2>10. (m * NV(o1)) * NV(o2) = m * (NV(o1) * NV(o2))
    BY <1>2, <2>4, DistributeOver
  <2> QED
    BY <2>1, <2>7, <2>8, <2>9, <2>10
<1>24. ASSUME VisitQuotient PROVE Same
  <2> DEFINE l == head.node.left
             c == head.node.right
  <2>1. /\ head.task = "visit" /\ head.node.op = "truncdiv"
        /\ constantExpression' = constantExpression /\ linearExpressions' = linearExpressions
        /\ isLinear' = isLinear /\ currentMultiplier' = currentMultiplier
    BY <1>24 DEF VisitQuotient, Visiting, head
  <2>2. PICK operands \in LinearQuotients(head.node) :
          todo' = <<Visit(Node("mult", Quotient(operands[1], c), operands[2]))>> \o Tail(todo)
    BY <1>16, <1>24 DEF VisitQuotient
  <2> DEFINE product == Node("mult", Quotient(operands[1], c), operands[2])
  <2>3. /\ head.node \in Nodes[problem] /\ l \in Nodes[problem] /\ c \in Nodes[problem]
        /\ product \in Nodes[problem]
    BY <1>4, <1>5, <2>1, <2>2, NodesAssumption DEF Inner
  <2>4. NV(product) = NV(head.node)
    <3> DEFINE o1 == operands[1]
               o2 == operands[2]
               i == LiteralValue(o1)
               j == LiteralValue(c)
               q == IF j < 0 THEN -(i \div Abs(j)) ELSE i \div Abs(j)
    <3>1. /\ l.op = "mult" /\ operands \in {<<l.left, l.right>>, <<l.right, l.left>>}
          /\ Divides(c, o1)
      BY <2>2 DEF LinearQuotients
    <3>2. /\ l.left \in Nodes[problem] /\ l.right \in Nodes[problem]
          /\ NV(l) = NV(l.left) * NV(l.right)
      BY <1>9, <2>3, <3>1 DEF Inner
    <3>3. NV(l.left) * NV(l.right) = NV(l.right) * NV(l.left)
      BY <1>7, <3>2
    <3>4. o1 \in Nodes[problem] /\ o2 \in Nodes[problem] /\ NV(l) = NV(o1) * NV(o2)
      <4>1. CASE operands = <<l.left, l.right>>
        BY <3>2, <4>1
      <4>2. CASE operands = <<l.right, l.left>>
        BY <3>2, <3>3, <4>2
      <4> QED
        BY <3>1, <4>1, <4>2
    <3>5. /\ isConstant(o1) /\ o1.literal /\ isConstant(c) /\ c.literal
          /\ j # 0 /\ i % Abs(j) = 0
      BY <3>1 DEF Divides
    <3>6. \A node \in Nodes[problem] : isConstant(node) /\ node.literal =>
            NV(node) = LiteralValue(node) /\ LiteralValue(node) \in Int
      <4>1. (CHOOSE e \in Env : TRUE) \in Env
        BY EnvAssumption
      <4>2. \A node \in Nodes[problem] : isConstant(node) /\ node.literal =>
              node.e[env] = node.e[CHOOSE e \in Env : TRUE]
        BY <1>4, <4>1, NodesAssumption DEF isConstant
      <4> QED
        BY <1>7, <1>8, <4>2 DEF LiteralValue
    <3>7. NV(o1) = i /\ NV(c) = j /\ i \in Int /\ j \in Int
      BY <2>3, <3>4, <3>5, <3>6
    <3>8. NV(head.node) = Truncated(i * NV(o2), j)
      <4>1. NV(c) # 0
        BY <3>5, <3>7
      <4>2. NV(head.node) = Truncated(NV(l), NV(c))
        BY <1>4, <2>1, <2>3, <4>1, NodeValueAssumption DEF Points, NV
      <4> QED
        BY <3>4, <3>7, <4>2
    <3>9. NV(product) = q * NV(o2)
      <4>1. /\ product.op = "mult" /\ product.left = Literal(q) /\ product.right = o2
        BY DEF Node, Quotient
      <4>2. Literal(q) \in Nodes[problem] /\ NV(product) = NV(Literal(q)) * NV(o2)
        BY <1>9, <2>3, <4>1 DEF Inner
      <4>3. NV(Literal(q)) = q
        <5>1. isConstant(Literal(q)) /\ Literal(q).e[env] = q
          BY DEF isConstant, Literal, Int2Expr
        <5> QED
          BY <1>8, <4>2, <5>1
      <4> QED
        BY <4>2, <4>3
    <3>10. NV(o2) \in Int
      BY <1>7, <3>4
    <3> HIDE DEF i, j, q, o1, o2, product
    <3>11. Truncated(i * NV(o2), j) = q * NV(o2)
      BY <3>5, <3>7, <3>10, QuotientExact DEF q
    <3> QED
      BY <3>8, <3>9, <3>11
  <2>5. P2 = R[m] + m * NV(product)
    <3>1. todo' = <<Visit(product)>> \o Tail(todo)
      BY <2>2
    <3> HIDE DEF product
    <3>2. P2 = Adds(Visit(product), R)[m]
      BY <1>2, <1>6, <2>1, <2>3, <3>1 DEF P2, Adds, m
    <3> QED
      BY <1>2, <1>10, <2>3, <3>2
  <2>6. Adds(head, R)[m] = R[m] + m * NV(head.node)
    BY <1>11, <2>1
  <2>7. C2 = C /\ W2 = W
    BY <1>15, <2>1 DEF C2, C
  <2> QED
    BY <2>1, <2>4, <2>5, <2>6, <2>7
<1>25. ASSUME VisitNonLinear PROVE Same
  BY <1>25 DEF VisitNonLinear
<1>26. ASSUME RestoreMultiplier PROVE Same
  <2>1. /\ head.task = "restore" /\ todo' = Tail(todo) /\ currentMultiplier' = head.multiplier
        /\ constantExpression' = constantExpression /\ linearExpressions' = linearExpressions
        /\ isLinear' = isLinear
    BY <1>26 DEF RestoreMultiplier, head
  <2>2. P2 = R[head.multiplier[env]]
    BY <2>1 DEF P2, R, Rest
  <2>3. C2 = C /\ W2 = W
    BY <1>15, <2>1 DEF C2, C
  <2> QED
    BY <1>11, <2>1, <2>2, <2>3
<1>27. ASSUME VisitLocal PROVE Same
  <2> DEFINE v == head.node.v
             D == DOMAIN linearExpressions
             grown == Coefficients(env)'
  <2>1. /\ head.task = "visit" /\ head.node.op = "local"
        /\ todo' = Tail(todo) /\ currentMultiplier' = currentMultiplier
        /\ constantExpression' = constantExpression
        /\ linearExpressions' = With(linearExpressions, v,
             IF v \in D THEN Add(linearExpressions[v], currentMultiplier) ELSE currentMultiplier)
        /\ isLinear' = isLinear
    BY <1>16, <1>27 DEF VisitLocal, Visiting, head
  <2>2. head.node \in Nodes[problem] /\ v \in Bindings(problem) /\ NV(head.node) = pt[v]
    BY <1>4, <1>5, <2>1, NodesAssumption, NodeValueAssumption DEF Points, NV
  <2>3. grown = [w \in D \cup {v} |-> IF w = v THEN IF v \in D THEN Coefficients(env)[v] + m ELSE m
                                      ELSE Coefficients(env)[w]]
    BY <2>1 DEF Coefficients, With, Add, a, m
  <2>4. /\ IsFiniteSet(D) /\ Coefficients(env) \in [D -> Int] /\ D \subseteq Bindings(problem)
    BY CoefficientsTyped DEF VisitInv, LinearInv
  <2>5. W2 = W + m * pt[v]
    <3> DEFINE weights == Coefficients(env)
    <3>1. /\ IsFiniteSet(D) /\ weights \in IntFun(D) /\ D \subseteq Bindings(problem)
          /\ v \in Bindings(problem) /\ pt \in IntFun(Bindings(problem))
      BY <1>3, <2>2, <2>4 DEF IntFun
    <3>2. grown = Grown(weights, v, m)
      BY <2>3, <2>4 DEF Grown
    <3> HIDE DEF D, v, grown, weights
    <3>3. WeightedSum(Grown(weights, v, m), pt) = WeightedSum(weights, pt) + m * pt[v]
      BY ONLY <1>2, <3>1, WeightedGrows
    <3> QED
      BY <3>2, <3>3 DEF W2, W, grown, weights
  <2>6. P2 = R[m]
    BY <2>1 DEF P2, R, Rest, m
  <2>7. Adds(head, R)[m] = R[m] + m * NV(head.node)
    BY <1>11, <2>1
  <2>8. C2 = C
    BY <2>1 DEF C2, C
  <2>9. m * pt[v] \in Int
    BY <1>2, <1>3, <2>2
  <2> QED
    BY <1>3, <1>12, <2>1, <2>2, <2>5, <2>6, <2>7, <2>8, <2>9
<1>28. ASSUME VisitSumWithConstant PROVE Same
  <2> DEFINE l == head.node.left
             r == head.node.right
  <2>1. /\ head.task = "visit" /\ head.node.op \in {"plus", "minus"}
        /\ linearExpressions' = linearExpressions
        /\ isLinear' = isLinear
    BY <1>16, <1>28 DEF VisitSumWithConstant, Visiting, head
  <2>2. /\ l \in Nodes[problem] /\ r \in Nodes[problem]
        /\ head.node.op = "plus" => NV(head.node) = NV(l) + NV(r)
        /\ head.node.op = "minus" => NV(head.node) = NV(l) - NV(r)
    BY <1>5, <1>9, <2>1 DEF Inner
  <2>3. W2 = W /\ NV(l) \in Int /\ NV(r) \in Int
    BY <1>7, <1>15, <2>1, <2>2
  <2>4. Adds(head, R)[m] = R[m] + m * NV(head.node)
    BY <1>11, <2>1
  <2>5. /\ m * (NV(l) + NV(r)) = m * NV(l) + m * NV(r)
        /\ m * (NV(l) - NV(r)) = m * NV(l) - m * NV(r)
        /\ m * NV(l) \in Int /\ m * NV(r) \in Int
        /\ (m * (-1)) * NV(r) = -(m * NV(r))
    BY <1>2, <2>3, DistributeOver
  <2>6. CASE isConstant(l) /\ head.node.op = "plus"
    <3>1. /\ constantExpression' = addToConstant(l.e, 1)
          /\ todo' = <<Visit(r)>> \o Tail(todo)
          /\ currentMultiplier' = currentMultiplier
      BY <1>16, <1>28, <2>6 DEF VisitSumWithConstant
    <3>2. C2 = C + 1 * (m * NV(l))
      BY <1>8, <1>17, <2>2, <2>6, <3>1
    <3>3. P2 = R[m] + m * NV(r)
      <4>1. P2 = Adds(Visit(r), R)[m]
        BY <1>2, <1>6, <2>2, <3>1 DEF P2, Adds, m
      <4> QED
        BY <1>2, <1>10, <4>1
    <3> QED
      BY <1>3, <1>12, <1>28, <2>1, <2>2, <2>3, <2>4, <2>5, <2>6, <3>2, <3>3
  <2>7. CASE isConstant(l) /\ head.node.op = "minus"
    <3>1. /\ constantExpression' = addToConstant(l.e, 1)
          /\ todo' = <<Visit(r), Restore(currentMultiplier)>> \o Tail(todo)
          /\ currentMultiplier' = Times(currentMultiplier, Int2Expr(-1))
      BY <1>16, <1>28, <2>7 DEF VisitSumWithConstant, AfterProduct
    <3>2. C2 = C + 1 * (m * NV(l))
      BY <1>8, <1>17, <2>2, <2>7, <3>1
    <3>3. currentMultiplier'[env] = m * (-1) /\ m * (-1) \in Int
      BY <1>2, <3>1 DEF Times, Int2Expr, m
    <3>4. P2 = Adds(Visit(r), Adds(Restore(currentMultiplier), R))[m * (-1)]
      BY <1>2, <1>6, <2>2, <3>1, <3>3 DEF P2, Adds
    <3>5. P2 = R[m] + (m * (-1)) * NV(r)
      BY <1>10, <3>3, <3>4
    <3> QED
      BY <1>3, <1>12, <2>1, <2>2, <2>3, <2>4, <2>5, <2>7, <3>2, <3>5
  <2>8. CASE ~isConstant(l)
    <3> DEFINE sgn == IF head.node.op = "plus" THEN 1 ELSE -1
    <3>1. /\ isConstant(r)
          /\ constantExpression' = addToConstant(r.e, sgn)
          /\ todo' = <<Visit(l)>> \o Tail(todo)
          /\ currentMultiplier' = currentMultiplier
      BY <1>16, <1>28, <2>8 DEF VisitSumWithConstant
    <3>2. C2 = C + sgn * (m * NV(r))
      <4> HIDE DEF sgn
      <4> QED
        BY <1>8, <1>17, <2>2, <3>1
    <3>3. P2 = R[m] + m * NV(l)
      <4>1. P2 = Adds(Visit(l), R)[m]
        BY <1>2, <1>6, <2>2, <3>1 DEF P2, Adds, m
      <4> QED
        BY <1>2, <1>10, <4>1
    <3>4. CASE head.node.op = "plus"
      BY <1>3, <1>12, <2>1, <2>2, <2>3, <2>4, <2>5, <3>2, <3>3, <3>4
    <3>5. CASE head.node.op = "minus"
      BY <1>3, <1>12, <2>1, <2>2, <2>3, <2>4, <2>5, <3>2, <3>3, <3>5
    <3> QED
      BY <2>1, <3>4, <3>5
  <2> QED
    BY <2>1, <2>6, <2>7, <2>8
<1> QED
  BY <1>13, <1>14, <1>20, <1>21, <1>22, <1>23, <1>24, <1>25, <1>26, <1>27, <1>28
  DEF visit

(* One step of the visit keeps the invariant.                              *)
LEMMA VisitKeeps ==
  ASSUME LinearInv, visit, problem' = problem
  PROVE  LinearInv'
<1> DEFINE head == Head(todo)
<1>1. VisitInv'
  BY VisitTyped DEF LinearInv
<1>2. Points' = Points
  BY DEF Points
<1>3. \A env \in Env, pt \in Points :
        isLinear => NodeValue(problem.pattern, env, pt) = Balance(env, pt)
  BY DEF LinearInv, NothingLost, Points, Balance
<1>4. ASSUME isLinear', NEW env \in Env, NEW pt \in Points
      PROVE  NodeValue(problem.pattern, env, pt) = Balance(env, pt)'
  BY <1>3, <1>4, VisitBalanced
<1>5. NothingLost'
  BY <1>2, <1>4 DEF NothingLost, Points, Balance
<1>6. todo # <<>>
  BY DEF visit, VisitSumWithConstant, VisitSum, VisitDifference, VisitSubtrahend,
         VisitProduct, VisitLocal, VisitQuotient, VisitNonLinear, RestoreMultiplier, Visiting
<1>7. problem \in Problems /\ head \in TasksOf(problem) /\ currentMultiplier \in Expr
  BY <1>6 DEF LinearInv, VisitInv
<1>8. head.task = "visit" => head.node \in Nodes[problem]
  BY <1>7 DEF TasksOf
<1>9. DOMAIN linearExpressions' \subseteq Bindings(problem)
  <2>1. CASE VisitLocal
    <3>1. head.node.v \in Bindings(problem)
      BY <1>7, <1>8, <2>1, NodesAssumption DEF VisitLocal, Visiting, Visited
    <3>2. DOMAIN linearExpressions' = DOMAIN linearExpressions \cup {head.node.v}
      BY <2>1 DEF VisitLocal, With, Visited
    <3> QED
      BY <3>1, <3>2 DEF LinearInv
  <2>2. CASE ~VisitLocal
    <3>1. linearExpressions' = linearExpressions
      BY <2>2
      DEF visit, VisitSumWithConstant, VisitSum, VisitDifference, VisitSubtrahend,
                  VisitProduct, VisitQuotient, VisitNonLinear, RestoreMultiplier
    <3> QED
      BY <3>1 DEF LinearInv
  <2> QED
    BY <2>1, <2>2
<1>10. constantExpression' \in Expr
  <2>1. CASE VisitSumWithConstant
    <3>1. head.node \in Nodes[problem] /\ head.node.op \in {"plus", "minus"}
      BY <1>8, <2>1 DEF VisitSumWithConstant, Visiting, Visited
    <3>2. head.node.left \in Nodes[problem] /\ head.node.right \in Nodes[problem]
      BY <1>7, <3>1, NodesAssumption DEF Inner
    <3>3. PICK e \in Expr, i \in {-1, 1} : constantExpression' = addToConstant(e, i)
      <4>1. \A node \in Nodes[problem] : isConstant(node) => node.e \in Expr
        BY <1>7, NodesAssumption DEF isConstant
      <4>2. CASE isConstant(head.node.left)
        BY <2>1, <3>2, <4>1, <4>2 DEF VisitSumWithConstant, Visited
      <4>3. CASE ~isConstant(head.node.left)
        BY <2>1, <3>2, <4>1, <4>3 DEF VisitSumWithConstant, Visited
      <4> QED
        BY <4>2, <4>3
    <3> QED
      BY <1>7, <3>3, TimesTyped, Int2ExprTyped DEF addToConstant, LinearInv
  <2>2. CASE ~VisitSumWithConstant
    <3>1. constantExpression' = constantExpression
      BY <2>2 DEF visit, VisitSum, VisitDifference, VisitSubtrahend, VisitLocal,
                  VisitProduct, VisitQuotient, VisitNonLinear, RestoreMultiplier
    <3> QED
      BY <3>1 DEF LinearInv
  <2> QED
    BY <2>1, <2>2
<1> QED
  BY <1>1, <1>5, <1>9, <1>10 DEF LinearInv

(* The visit starts with the whole pattern pending.                        *)
LEMMA LinearInitially == Init => LinearInv
<1> SUFFICES ASSUME Init PROVE LinearInv
  OBVIOUS
<1>1. VisitInv
  BY Initially DEF IInv
<1>2. /\ problem \in Problems /\ linearExpressions = <<>> /\ constantExpression = Int2Expr(0)
      /\ currentMultiplier = Int2Expr(1) /\ todo = <<Visit(problem.pattern)>>
      /\ problem.pattern \in Nodes[problem]
  BY ProblemsAssumption DEF Init, InitLinear
<1>3. DOMAIN linearExpressions = {} /\ constantExpression \in Expr
  BY <1>2, Int2ExprTyped
<1>4. ASSUME NEW env \in Env, NEW pt \in Points
      PROVE  NodeValue(problem.pattern, env, pt)
               = Index(env, pt) + PendingValue(todo, currentMultiplier, env, pt)
  <2> DEFINE t == Visit(problem.pattern)
             none == PendingBy(<<>>, env, pt)[0]
  <2>1. none = [m \in Int |-> 0]
    <3>1. <<>> \in Seq(TasksOf(problem)) /\ Len(<<>>) = 0
      OBVIOUS
    <3> QED
      BY <1>2, <3>1, PendingDefined
  <2>2. t \in TasksOf(problem) /\ <<>> \in Seq(TasksOf(problem)) /\ todo = <<t>> \o <<>>
    BY <1>2 DEF TasksOf, Visit
  <2>3. PendingBy(todo, env, pt)[0] = TaskAdds(t, none, env, pt)
    BY <1>2, <2>2, PendingFirst
  <2>4. TaskAdds(t, none, env, pt)[1] = 0 + 1 * NodeValue(problem.pattern, env, pt)
    <3>1. none[1] = 0
      BY <2>1
    <3> HIDE DEF none
    <3> QED
      BY <3>1, TaskAddsIs DEF Visit
  <2>5. PendingValue(todo, currentMultiplier, env, pt) = NodeValue(problem.pattern, env, pt)
    <3>1. currentMultiplier[env] = 1 /\ NodeValue(problem.pattern, env, pt) \in Int
      BY <1>2, NodeValueTyped DEF Int2Expr
    <3> HIDE DEF t, none
    <3> QED
      BY <2>3, <2>4, <3>1 DEF PendingValue
  <2>6. Index(env, pt) = 0
    <3>1. WeightedSum(Coefficients(env), pt) = 0
      <4> DEFINE f == [v \in DOMAIN Coefficients(env) |-> Coefficients(env)[v] * pt[v]]
      <4>1. DOMAIN Coefficients(env) = {} /\ DOMAIN f = {}
        BY <1>3 DEF Coefficients
      <4>2. IsFiniteSet(DOMAIN f)
        BY <4>1, FS_EmptySet
      <4> HIDE DEF f
      <4>3. Sums(f)[{}] = 0
        BY <4>2, SumDefined
      <4> QED
        BY <4>1, <4>3 DEF WeightedSum, f
    <3> QED
      BY <1>2, <3>1 DEF Index, Coefficients, Int2Expr
  <2>7. NodeValue(problem.pattern, env, pt) \in Int
    BY <1>2, NodeValueTyped
  <2> QED
    BY <2>5, <2>6, <2>7
<1>5. NothingLost
  BY <1>4 DEF NothingLost, Points
<1> QED
  BY <1>1, <1>3, <1>5 DEF LinearInv

(* Every step keeps the invariant of the visit.                            *)
LEMMA LinearInductive == LinearInv /\ [Next]_vars => LinearInv'
<1> SUFFICES ASSUME LinearInv, [Next]_vars PROVE LinearInv'
  OBVIOUS
<1>1. CASE PotentialLinearExpressions
  <2>1. visit /\ problem' = problem
    BY <1>1 DEF PotentialLinearExpressions, visit, VisitSumWithConstant, VisitSum,
       VisitDifference, VisitSubtrahend, VisitProduct, VisitLocal, VisitQuotient,
       VisitNonLinear, RestoreMultiplier
  <2> QED
    BY <2>1, VisitKeeps
<1>2. CASE UNCHANGED <<problem, linearVars>>
  BY <1>2 DEF LinearInv, VisitInv, NothingLost, Index, linearVars, a
<1>3. CASE ~PotentialLinearExpressions
  <2>1. UNCHANGED <<problem, linearVars>>
    BY <1>3
    DEF Next, rewriteSingleVar, ChooseOrder, FoundExact, FoundCut, FoundConstrained,
       Found, SubstituteForall, Fails, vars
  <2> QED
    BY <1>2, <2>1
<1> QED
  BY <1>1, <1>3

(* While the pattern is visited, what has been collected and what is       *)
(* pending add up to it, whatever the pattern: when the visit ends, the    *)
(* coefficients and the constant are the pattern.                          *)
THEOREM NothingIsLost == Spec => []NothingLost
<1>1. LinearInv => NothingLost
  BY DEF LinearInv
<1> QED
  BY LinearInitially, LinearInductive, <1>1, PTL DEF Spec

-----------------------------------------------------------------------------
(* The search.                                                             *)
Coef(j, env) == a(order[j])[env]
Gap(j, env, pt) == pt[order[j]] - xmins[order[j]][env]

(* The values of linLast, from the first binding on.                       *)
Chain(c, env, pt) ==
  /\ c \in [0 .. next - 1 -> Int] /\ c[0] = 0 /\ c[next - 1] = linLast[env][pt]
  /\ \A j \in 1 .. next - 1 :
       /\ Fits(c[j - 1], Coef(j, env))
       /\ c[j] = Coef(j, env) * Gap(j, env, pt) + c[j - 1]

SameSigns(env) ==
  \A j \in 1 .. next : Coef(j, env) # 0 /\ (Coef(j, env) > 0 <=> Coef(1, env) > 0)

Untouched(j) ==
  /\ remainingLower[order[j]] = Lower(problem, order[j])
  /\ remainingUpper[order[j]] = Upper(problem, order[j])

(* A binding has lost the bound that became its minimum, and an upper      *)
(* bound only if the next coefficient says the same.                       *)
Settled(j) ==
  \E low \in Lower(problem, order[j]) :
    /\ order[j] \in DOMAIN xmins /\ xmins[order[j]] = BoundValue(low)
    /\ remainingLower[order[j]] = Lower(problem, order[j]) \ {low}
    /\ \/ remainingUpper[order[j]] = Upper(problem, order[j])
       \/ \E up \in Upper(problem, order[j]) :
            /\ remainingUpper[order[j]] = Upper(problem, order[j]) \ {up}
            /\ \A env \in Env :
                 Domain(env) # {} => Coef(j + 1, env) = Coef(j, env) * Extent(up, low, env)

LastSettled ==
  /\ LastLower \in Lower(problem, xPrev) /\ LastUpper \in Upper(problem, xPrev)
  /\ xPrev \in DOMAIN xmins /\ xmins[xPrev] = BoundValue(LastLower)
  /\ remainingLower[xPrev] = Lower(problem, xPrev) \ {LastLower}
  /\ remainingUpper[xPrev] = Upper(problem, xPrev) \ {LastUpper}

BoundsInv ==
  /\ DOMAIN remainingLower = Bindings(problem) /\ DOMAIN remainingUpper = Bindings(problem)
  /\ \A v \in Bindings(problem) : Lower(problem, v) # {}
  /\ \A env \in Env : \A pt \in Domain(env) : \E c : Chain(c, env, pt)
  /\ \A env \in Env : Domain(env) # {} => SameSigns(env)
  /\ \A need \in otherNeeded, env \in Env : Domain(env) # {} => need[env] > 0
  /\ \A j \in 1 .. next - 1 : Settled(j)
  /\ stage = "bounds" => \A j \in next .. Len(order) : Untouched(j)
  /\ stage = "done" => next = Len(order) /\ LastSettled

(* An order has each binding once.                                         *)
LEMMA OrderTyped ==
  ASSUME problem \in Problems, order \in Orders(Bindings(problem))
  PROVE  /\ Len(order) \in Nat /\ Len(order) = Cardinality(Bindings(problem))
         /\ DOMAIN order = 1 .. Len(order)
         /\ \A j \in 1 .. Len(order) : order[j] \in Bindings(problem)
         /\ \A v \in Bindings(problem) : \E j \in 1 .. Len(order) : order[j] = v
         /\ \A i, j \in 1 .. Len(order) : order[i] = order[j] => i = j
<1> DEFINE k == Cardinality(Bindings(problem))
<1>1. IsFiniteSet(Bindings(problem)) /\ k \in Nat
  BY ProblemsAssumption, FS_CardinalityType
<1>2. /\ order \in [1 .. k -> Bindings(problem)] /\ DOMAIN order = 1 .. k
      /\ \A v \in Bindings(problem) : \E j \in 1 .. k : order[j] = v
  BY DEF Orders
<1>3. Len(order) = k
  BY <1>1, <1>2
<1>4. order \in Surjection(1 .. k, Bindings(problem))
  BY <1>2 DEF Surjection
<1>5. IsFiniteSet(1 .. k) /\ Cardinality(1 .. k) = k
  BY <1>1, FS_Interval
<1>6. order \in Injection(1 .. k, Bindings(problem))
  BY <1>4, <1>5, FS_SurjSameCardinalityImpliesInj
<1>7. \A i, j \in 1 .. k : order[i] = order[j] => i = j
  BY <1>6 DEF Injection, IsInjective
<1> QED
  BY <1>1, <1>2, <1>3, <1>7

(* The search starts with nothing dropped but the first minimum.           *)
LEMMA ChooseKeeps ==
  ASSUME VisitInv, LinTyped, NotYet, otherNeeded = {}, ChooseOrder
  PROVE  BoundsInv'
<1>1. /\ UNCHANGED <<problem, linearVars, next, xmins, otherNeeded, linLast>>
      /\ stage' = "bounds"
      /\ \A v \in Bindings(problem) : Lower(problem, v) # {}
      /\ remainingLower' = [v \in Bindings(problem) |-> Lower(problem, v)]
      /\ remainingUpper' = [v \in Bindings(problem) |-> Upper(problem, v)]
  BY DEF ChooseOrder
<1>2. PICK s \in Orders(Bindings(problem)) : isNonZero(a(s[1])) /\ order' = s
  BY DEF ChooseOrder
<1>3. next = 1 /\ problem \in Problems /\ next' = 1 /\ problem' = problem
  BY <1>1 DEF NotYet, VisitInv
<1>4. SearchInv'
  BY Chosen
<1>5. \A env \in Env : Domain(env)' = Domain(env)
  BY <1>1 DEF Domain
<1>6. ASSUME NEW env \in Env, NEW pt \in Domain(env) PROVE \E c : Chain(c, env, pt)'
  <2> DEFINE c == [j \in 0 .. 0 |-> 0]
  <2>1. c \in [0 .. 0 -> Int] /\ c[0] = 0
    OBVIOUS
  <2>2. linLast'[env][pt] = 0
    BY <1>1 DEF NotYet
  <2> HIDE DEF c
  <2>3. Chain(c, env, pt)'
    BY <1>3, <2>1, <2>2 DEF Chain
  <2> QED
    BY <2>3
<1>7. ASSUME NEW env \in Env PROVE SameSigns(env)'
  <2>1. (a(s[1])[env])' # 0
    BY <1>1, <1>2 DEF isNonZero, a, linearVars
  <2> QED
    BY <1>2, <1>3, <2>1 DEF SameSigns, Coef
<1>8. ASSUME NEW j \in next' .. Len(order') PROVE Untouched(j)'
  <2>1. order'[j] \in Bindings(problem)
    BY <1>2, <1>3, <1>8, OrderTyped, FS_CardinalityType, ProblemsAssumption DEF Orders
  <2> QED
    BY <1>1, <1>3, <2>1 DEF Untouched
<1>9. otherNeeded' = {}
  BY <1>1
<1>10. \A j \in 1 .. next' - 1 : FALSE
  BY <1>3
<1> QED
  BY <1>1, <1>3, <1>5, <1>6, <1>7, <1>8, <1>9, <1>10 DEF BoundsInv

(* A check that has found a bound for the next binding keeps the chain.    *)
LEMMA FoundKeeps ==
  ASSUME VisitInv, LinTyped, stage = "bounds", SearchInv, BoundsInv, Searching,
         NEW low \in Lower(problem, xPrev), NEW dropped, NEW needed,
         Found(low, dropped, needed), Justified(low, dropped, needed)
  PROVE  BoundsInv'
<1>1. /\ UNCHANGED <<problem, linearVars, stage, order, sign>>
      /\ next' = next + 1
      /\ linLast' = LinAfter(low)
      /\ xmins' = WithMin(low)
      /\ remainingLower' = [remainingLower EXCEPT ![xPrev] = @ \ {low}]
      /\ remainingUpper' = [remainingUpper EXCEPT ![xPrev] = @ \ dropped]
      /\ otherNeeded' = otherNeeded \cup {n \in needed : ~IsPositive(n)}
  BY DEF Found
<1>2. /\ problem \in Problems /\ order \in Orders(Bindings(problem))
      /\ next \in 1 .. Len(order) /\ next < Len(order)
  BY DEF SearchInv, Searching, VisitInv
<1>3. /\ Len(order) \in Nat
      /\ \A j \in 1 .. Len(order) : order[j] \in Bindings(problem)
      /\ \A i, j \in 1 .. Len(order) : order[i] = order[j] => i = j
  BY <1>2, OrderTyped
<1>4. next \in Nat /\ next + 1 \in 1 .. Len(order) /\ xPrev = order[next] /\ x = order[next + 1]
  BY <1>2, <1>3 DEF xPrev, x
<1> PICK i \in Nat : i = next
  BY <1>4
<1>5. /\ \A env : Domain(env)' = Domain(env)
      /\ \A v : a(v)' = a(v)
      /\ \A j, env : Coef(j, env)' = Coef(j, env)
      /\ problem' = problem /\ order' = order /\ stage' = stage
  BY <1>1 DEF Domain, a, Coef, linearVars
<1>6. /\ xmins'[xPrev] = BoundValue(low) /\ xPrev \in DOMAIN xmins'
      /\ \A v \in DOMAIN xmins : v # xPrev => xmins'[v] = xmins[v] /\ v \in DOMAIN xmins'
  BY <1>1 DEF WithMin, With
<1>7. /\ DOMAIN remainingLower' = Bindings(problem) /\ DOMAIN remainingUpper' = Bindings(problem)
      /\ \A j \in 1 .. Len(order) : j # next =>
           /\ remainingLower'[order[j]] = remainingLower[order[j]]
           /\ remainingUpper'[order[j]] = remainingUpper[order[j]]
      /\ remainingLower'[xPrev] = remainingLower[xPrev] \ {low}
      /\ remainingUpper'[xPrev] = remainingUpper[xPrev] \ dropped
  BY <1>1, <1>2, <1>3, <1>4 DEF BoundsInv
<1>8. Untouched(i)
  BY <1>2 DEF BoundsInv
<1>9. \A j \in 1 .. next - 1 : order[j] # xPrev /\ j \in 1 .. Len(order) /\ j # next
  BY <1>2, <1>3, <1>4
<1>10. ASSUME NEW j \in 1 .. next - 1 PROVE Settled(j)'
  <2>1. Settled(j)
    BY DEF BoundsInv
  <2>2. /\ order[j] \in DOMAIN xmins => order[j] \in DOMAIN xmins' /\ xmins'[order[j]] = xmins[order[j]]
        /\ remainingLower'[order[j]] = remainingLower[order[j]]
        /\ remainingUpper'[order[j]] = remainingUpper[order[j]]
    BY <1>6, <1>7, <1>9
  <2> QED
    BY <1>5, <2>1, <2>2 DEF Settled
<1>11. Settled(i)'
  <2>1. remainingLower'[xPrev] = Lower(problem, xPrev) \ {low}
    BY <1>4, <1>7, <1>8 DEF Untouched
  <2>2. remainingUpper'[xPrev] = Upper(problem, xPrev) \ dropped
    BY <1>4, <1>7, <1>8 DEF Untouched
  <2>3. CASE dropped = {}
    BY <1>4, <1>5, <1>6, <2>1, <2>2, <2>3 DEF Settled
  <2>4. ASSUME NEW up \in Upper(problem, xPrev), dropped = {up},
               \A env \in Env :
                 Domain(env) # {} => a(x)[env] = a(xPrev)[env] * Extent(up, low, env)
        PROVE  Settled(i)'
    <3>1. \A env \in Env :
            Domain(env) # {} => Coef(i + 1, env) = Coef(i, env) * Extent(up, low, env)
      BY <1>4, <2>4 DEF Coef
    <3> QED
      BY <1>4, <1>5, <1>6, <2>1, <2>2, <2>4, <3>1 DEF Settled
  <2> QED
    BY <2>3, <2>4 DEF Justified
<1>12. \A j \in next + 1 .. Len(order) : Untouched(j)'
  <2> SUFFICES ASSUME NEW j \in next + 1 .. Len(order) PROVE Untouched(j)'
    OBVIOUS
  <2>1. j \in next .. Len(order) /\ j \in 1 .. Len(order) /\ j # next
    BY <1>2, <1>3
  <2> QED
    BY <1>5, <1>7, <2>1 DEF Untouched, BoundsInv
<1>13. ASSUME NEW env \in Env, NEW pt \in Domain(env) PROVE \E c : Chain(c, env, pt)'
  <2>1. PICK c : Chain(c, env, pt)
    BY DEF BoundsInv
  <2> PICK g : g = [j \in 0 .. next |-> IF j = next THEN LinAfter(low)[env][pt] ELSE c[j]]
    OBVIOUS
  <2>2. /\ linLast[env][pt] \in Int /\ a(xPrev)[env] \in Int
        /\ LinAfter(low)[env][pt] \in Int
        /\ LinAfter(low)[env][pt]
             = a(xPrev)[env] * (pt[xPrev] - BoundValue(low)[env]) + linLast[env][pt]
    <3>1. linLast[env][pt] \in Int /\ a(xPrev)[env] \in Int
      BY SearchTypes
    <3>2. pt[xPrev] \in Int /\ BoundValue(low)[env] \in Int
      BY <1>2, <1>3, <1>4, DomainPoint
    <3>3. LinAfter(low)[env][pt]
             = a(xPrev)[env] * (pt[xPrev] - BoundValue(low)[env]) + linLast[env][pt]
      BY DEF LinAfter
    <3> QED
      BY <3>1, <3>2, <3>3
  <2>3. g \in [0 .. next -> Int] /\ g[0] = 0 /\ g[next] = linLast'[env][pt]
    BY <1>1, <1>2, <1>4, <2>1, <2>2 DEF Chain
  <2>4. \A j \in 0 .. next - 1 : g[j] = c[j]
    BY <1>4
  <2>5. g[next] = LinAfter(low)[env][pt]
    BY <1>4
  <2>6. ASSUME NEW j \in 1 .. next - 1
        PROVE  /\ Fits(g[j - 1], Coef(j, env))
               /\ g[j] = Coef(j, env) * Gap(j, env, pt)' + g[j - 1]
    <3>1. xmins'[order[j]] = xmins[order[j]]
      <4>1. order[j] \in DOMAIN xmins
        BY DEF BoundsInv, Settled
      <4> QED
        BY <1>6, <1>9, <4>1
    <3>2. Gap(j, env, pt)' = Gap(j, env, pt)
      BY <1>5, <3>1 DEF Gap
    <3>3. g[j] = c[j] /\ g[j - 1] = c[j - 1]
      <4>1. j \in 0 .. next - 1 /\ j - 1 \in 0 .. next - 1
        BY <1>4
      <4> QED
        BY ONLY <2>4, <4>1
    <3> QED
      BY <2>1, <3>2, <3>3 DEF Chain
  <2>7. /\ Fits(g[next - 1], Coef(next, env))
        /\ g[next] = Coef(next, env) * Gap(i, env, pt)' + g[next - 1]
    <3>1. Gap(i, env, pt)' = pt[xPrev] - BoundValue(low)[env]
      BY <1>4, <1>5, <1>6 DEF Gap
    <3>2. g[next - 1] = linLast[env][pt]
      BY <1>2, <1>4, <2>1, <2>4 DEF Chain
    <3>3. Fits(linLast[env][pt], Coef(next, env))
      BY <1>4 DEF SearchInv, Reached, Coef
    <3> QED
      BY <1>4, <2>2, <2>5, <3>1, <3>2, <3>3 DEF Coef
  <2>8. Chain(g, env, pt)'
    <3>1. next' - 1 = next
      BY <1>1, <1>4
    <3>2. \A j \in 1 .. next : j \in 1 .. next - 1 \/ j = next
      BY <1>4
    <3>3. \A j \in 1 .. next :
            /\ Fits(g[j - 1], Coef(j, env)')
            /\ g[j] = Coef(j, env)' * Gap(j, env, pt)' + g[j - 1]
      BY <1>5, <2>6, <2>7, <3>2
    <3>4. /\ g \in [0 .. next' - 1 -> Int] /\ g[0] = 0 /\ g[next' - 1] = linLast'[env][pt]
          /\ \A j \in 1 .. next' - 1 :
               /\ Fits(g[j - 1], Coef(j, env)')
               /\ g[j] = Coef(j, env)' * Gap(j, env, pt)' + g[j - 1]
      BY <2>3, <3>1, <3>3
    <3> QED
      BY <3>4 DEF Chain
  <2> QED
    BY <2>8
<1>14. ASSUME NEW env \in Env, Domain(env) # {} PROVE SameSigns(env)'
  <2>1. PICK pt \in Domain(env) : TRUE
    BY <1>14
  <2>2. a(x)[env] # 0 /\ (a(xPrev)[env] > 0 <=> a(x)[env] > 0)
    BY DEF Justified, Fits
  <2>3. \A j \in 1 .. next : Coef(j, env) # 0 /\ (Coef(j, env) > 0 <=> Coef(1, env) > 0)
    BY <1>14 DEF BoundsInv, SameSigns
  <2>4. Coef(next + 1, env) # 0 /\ (Coef(next + 1, env) > 0 <=> Coef(1, env) > 0)
    BY <1>2, <1>4, <2>2, <2>3 DEF Coef
  <2>5. \A j \in 1 .. next + 1 : j \in 1 .. next \/ j = next + 1
    BY <1>4
  <2> QED
    BY <1>1, <1>5, <2>3, <2>4, <2>5 DEF SameSigns
<1>15. \A need \in otherNeeded', env \in Env : Domain(env) # {} => need[env] > 0
  BY <1>1 DEF BoundsInv, Justified
<1>16. /\ \A j \in 1 .. next' - 1 : Settled(j)'
       /\ \A j \in next' .. Len(order') : Untouched(j)'
  <2>1. next' - 1 = next /\ \A j \in 1 .. next : j \in 1 .. next - 1 \/ j = next
    BY <1>1, <1>4
  <2> QED
    BY <1>1, <1>5, <1>10, <1>11, <1>12, <2>1
<1> QED
  BY <1>5, <1>7, <1>13, <1>14, <1>15, <1>16 DEF BoundsInv

(* The bounds of the last binding end the search.                          *)
LEMMA LastKeeps ==
  ASSUME VisitInv, stage = "bounds", SearchInv, BoundsInv, SubstituteForall
  PROVE  BoundsInv'
<1>1. /\ UNCHANGED <<problem, linearVars, order, next, sign, otherNeeded, linLast>>
      /\ stage' = "done" /\ next = Len(order)
      /\ problem.upper[xPrev] # <<>>
      /\ xmins' = WithMin(LastLower)
      /\ remainingLower' = [remainingLower EXCEPT ![xPrev] = @ \ {LastLower}]
      /\ remainingUpper' = [remainingUpper EXCEPT ![xPrev] = @ \ {LastUpper}]
  BY DEF SubstituteForall
<1>2. /\ problem \in Problems /\ order \in Orders(Bindings(problem))
      /\ next \in 1 .. Len(order)
  BY DEF SearchInv, VisitInv
<1>3. /\ Len(order) \in Nat
      /\ \A j \in 1 .. Len(order) : order[j] \in Bindings(problem)
      /\ \A i, j \in 1 .. Len(order) : order[i] = order[j] => i = j
  BY <1>2, OrderTyped
<1>4. next \in Nat /\ xPrev = order[next] /\ xPrev \in Bindings(problem)
  BY <1>2, <1>3 DEF xPrev
<1> PICK k \in Nat : k = next
  BY <1>4
<1>5. /\ \A env : Domain(env)' = Domain(env)
      /\ \A v : a(v)' = a(v)
      /\ \A j, env : Coef(j, env)' = Coef(j, env)
      /\ problem' = problem /\ order' = order
      /\ xPrev' = xPrev /\ LastLower' = LastLower /\ LastUpper' = LastUpper
  BY <1>1 DEF Domain, a, Coef, linearVars, xPrev, LastLower, LastUpper
<1>6. LastLower \in Lower(problem, xPrev) /\ LastUpper \in Upper(problem, xPrev)
  <2>1. /\ LastLower = problem.lower[xPrev][1] /\ LastUpper = problem.upper[xPrev][1]
    BY <1>1 DEF LastLower, LastUpper, xPrev
  <2>2. problem.upper[xPrev] \in Seq(Upper(problem, xPrev))
        /\ problem.lower[xPrev] \in Seq(Lower(problem, xPrev))
    BY <1>2, <1>4, ProblemsAssumption
  <2>3. problem.lower[xPrev] # <<>>
    <3>1. Lower(problem, xPrev) # {}
      BY <1>4 DEF BoundsInv
    <3> QED
      BY <3>1 DEF Lower
  <2>4. problem.lower[xPrev][1] \in Lower(problem, xPrev)
    BY <2>2, <2>3
  <2>5. problem.upper[xPrev][1] \in Upper(problem, xPrev)
    BY <1>1, <2>2
  <2> QED
    BY <2>1, <2>4, <2>5
<1>7. /\ xmins'[xPrev] = BoundValue(LastLower) /\ xPrev \in DOMAIN xmins'
      /\ \A v \in DOMAIN xmins : v # xPrev => xmins'[v] = xmins[v] /\ v \in DOMAIN xmins'
  BY <1>1 DEF WithMin, With
<1>8. /\ DOMAIN remainingLower' = Bindings(problem) /\ DOMAIN remainingUpper' = Bindings(problem)
      /\ \A j \in 1 .. Len(order) : j # next =>
           /\ remainingLower'[order[j]] = remainingLower[order[j]]
           /\ remainingUpper'[order[j]] = remainingUpper[order[j]]
      /\ remainingLower'[xPrev] = remainingLower[xPrev] \ {LastLower}
      /\ remainingUpper'[xPrev] = remainingUpper[xPrev] \ {LastUpper}
  BY <1>1, <1>2, <1>3, <1>4 DEF BoundsInv
<1>9. Untouched(k)
  BY <1>2 DEF BoundsInv
<1>10. LastSettled'
  <2>1. /\ remainingLower'[xPrev] = Lower(problem, xPrev) \ {LastLower}
        /\ remainingUpper'[xPrev] = Upper(problem, xPrev) \ {LastUpper}
    BY <1>4, <1>8, <1>9 DEF Untouched
  <2> QED
    BY <1>5, <1>6, <1>7, <2>1 DEF LastSettled
<1>11. \A j \in 1 .. next - 1 : order[j] # xPrev /\ j \in 1 .. Len(order) /\ j # next
  BY <1>2, <1>3, <1>4
<1>12. ASSUME NEW j \in 1 .. next - 1 PROVE Settled(j)'
  <2>1. Settled(j)
    BY DEF BoundsInv
  <2>2. /\ order[j] \in DOMAIN xmins => order[j] \in DOMAIN xmins' /\ xmins'[order[j]] = xmins[order[j]]
        /\ remainingLower'[order[j]] = remainingLower[order[j]]
        /\ remainingUpper'[order[j]] = remainingUpper[order[j]]
    BY <1>7, <1>8, <1>11
  <2> QED
    BY <1>5, <2>1, <2>2 DEF Settled
<1>13. ASSUME NEW env \in Env, NEW pt \in Domain(env) PROVE \E c : Chain(c, env, pt)'
  <2>1. PICK c : Chain(c, env, pt)
    BY DEF BoundsInv
  <2>2. ASSUME NEW j \in 1 .. next - 1 PROVE Gap(j, env, pt)' = Gap(j, env, pt)
    <3>1. order[j] \in DOMAIN xmins
      BY DEF BoundsInv, Settled
    <3> QED
      BY <1>5, <1>7, <1>11, <3>1 DEF Gap
  <2>3. Chain(c, env, pt)'
    <3>1. /\ c \in [0 .. next - 1 -> Int] /\ c[0] = 0 /\ c[next - 1] = linLast[env][pt]
          /\ \A j \in 1 .. next - 1 :
               /\ Fits(c[j - 1], Coef(j, env)')
               /\ c[j] = Coef(j, env)' * Gap(j, env, pt)' + c[j - 1]
      BY <1>5, <2>1, <2>2 DEF Chain
    <3> QED
      BY <1>1, <3>1 DEF Chain
  <2> QED
    BY <2>3
<1>14. ASSUME NEW env \in Env, Domain(env) # {} PROVE SameSigns(env)'
  <2>1. SameSigns(env)
    BY <1>14 DEF BoundsInv
  <2> QED
    BY <1>1, <1>5, <2>1 DEF SameSigns
<1>15. next' = Len(order') /\ otherNeeded' = otherNeeded /\ next' = next
  BY <1>1
<1> QED
  BY <1>1, <1>5, <1>8, <1>10, <1>12, <1>13, <1>14, <1>15 DEF BoundsInv

(* One binding.                                                            *)
SingleInv ==
  \E v \in Bindings(problem) :
    /\ Bindings(problem) = {v} /\ order = <<v>>
    /\ DOMAIN linearExpressions = {v} /\ isNonZero(a(v))
    /\ remainingLower = [w \in {v} |-> Lower(problem, w)]
    /\ remainingUpper = [w \in {v} |-> Upper(problem, w)]

(* The invariant.                                                          *)
ExactInv ==
  /\ IInv
  /\ LinearInv
  /\ stage = "visit" => otherNeeded = {}
  /\ stage \in {"single", "bounds", "done"} => todo = <<>> /\ isLinear
  /\ stage = "single" => SingleInv
  /\ stage \in {"bounds", "done"} => BoundsInv

(* A single binding has its bounds kept.                                   *)
LEMMA SingleStarts ==
  ASSUME LinearInv, rewriteSingleVar
  PROVE  SingleInv'
<1>1. problem \in Problems /\ DOMAIN linearExpressions \subseteq Bindings(problem)
  BY DEF LinearInv, VisitInv
<1>2. IsFiniteSet(Bindings(problem)) /\ Cardinality(Bindings(problem)) = 1
  BY <1>1, ProblemsAssumption DEF rewriteSingleVar
<1>3. PICK w : Bindings(problem) = {w}
  BY <1>2, FS_Singleton
<1>4. PICK v \in Bindings(problem) \cap DOMAIN linearExpressions : isNonZero(a(v)) /\ order' = <<v>>
  BY DEF rewriteSingleVar
<1>5. Bindings(problem) = {v} /\ DOMAIN linearExpressions = {v}
  BY <1>1, <1>3, <1>4
<1>6. /\ UNCHANGED <<problem, linearVars>>
      /\ remainingLower' = [u \in {v} |-> Lower(problem, u)]
      /\ remainingUpper' = [u \in {v} |-> Upper(problem, u)]
  BY <1>5 DEF rewriteSingleVar
<1>7. problem' = problem /\ linearExpressions' = linearExpressions /\ a(v)' = a(v)
  BY <1>6 DEF linearVars, a
<1> QED
  BY <1>4, <1>5, <1>6, <1>7 DEF SingleInv, isNonZero

(* Before the visit there is no search.                                    *)
LEMMA ExactInitially == Init => ExactInv
BY Initially, LinearInitially DEF ExactInv, Init

(* Every step keeps the invariant of the search.                           *)
LEMMA ExactInductive == ExactDifferences /\ ExactInv /\ [Next]_vars => ExactInv'
<1> SUFFICES ASSUME ExactDifferences, ExactInv, [Next]_vars PROVE ExactInv'
  OBVIOUS
<1>1. IInv' /\ LinearInv'
  BY Inductive, LinearInductive DEF ExactInv
<1>2. VisitInv /\ LinTyped
  BY DEF ExactInv, IInv
<1>3. CASE PotentialLinearExpressions
  BY <1>1, <1>3 DEF ExactInv, PotentialLinearExpressions, accessVars
<1>4. CASE rewriteSingleVar
  <2>1. SingleInv'
    BY <1>4, SingleStarts DEF ExactInv
  <2> QED
    BY <1>1, <1>4, <2>1 DEF ExactInv, rewriteSingleVar, linearVars
<1>5. CASE ChooseOrder
  <2>1. stage = "visit" /\ stage' = "bounds" /\ todo' = <<>> /\ isLinear'
    BY <1>5 DEF ChooseOrder, linearVars
  <2>2. BoundsInv'
    BY <1>2, <1>5, <2>1, ChooseKeeps DEF ExactInv, IInv
  <2> QED
    BY <1>1, <2>1, <2>2 DEF ExactInv
<1>6. CASE FoundExact \/ FoundCut \/ FoundConstrained
  <2>1. Searching /\ stage = "bounds" /\ SearchInv /\ BoundsInv /\ todo = <<>> /\ isLinear
    BY <1>6 DEF FoundExact, FoundCut, FoundConstrained, Searching, ExactInv, IInv
  <2>2. PICK low \in Lower(problem, xPrev) : \E dropped, needed :
          Found(low, dropped, needed) /\ Justified(low, dropped, needed)
    BY <1>2, <1>6, <2>1, Exact, Cut, Constrained
  <2>3. PICK dropped, needed :
          Found(low, dropped, needed) /\ Justified(low, dropped, needed)
    BY <2>2
  <2>4. BoundsInv'
    BY <1>2, <2>1, <2>3, FoundKeeps
  <2>5. stage' = "bounds" /\ todo' = <<>> /\ isLinear'
    BY <2>1, <2>3 DEF Found, linearVars
  <2> QED
    BY <1>1, <2>4, <2>5 DEF ExactInv
<1>7. CASE SubstituteForall
  <2>1. stage = "bounds" /\ SearchInv /\ BoundsInv /\ todo = <<>> /\ isLinear
    BY <1>7 DEF SubstituteForall, ExactInv, IInv
  <2>2. BoundsInv'
    BY <1>2, <1>7, <2>1, LastKeeps
  <2>3. stage' = "done" /\ todo' = <<>> /\ isLinear'
    BY <1>7, <2>1 DEF SubstituteForall, linearVars
  <2> QED
    BY <1>1, <2>2, <2>3 DEF ExactInv
<1>8. CASE Fails
  BY <1>1, <1>8 DEF ExactInv, Fails
<1>9. CASE UNCHANGED vars
  <2>1. /\ UNCHANGED <<problem, linearVars>> /\ UNCHANGED accessVars
        /\ UNCHANGED <<todo, isLinear, stage, otherNeeded>>
    BY <1>9 DEF vars, linearVars, accessVars
  <2>2. SingleInv => SingleInv'
    BY <2>1 DEF SingleInv, linearVars, accessVars, isNonZero, a
  <2>3. BoundsInv => BoundsInv'
    <3>1. /\ UNCHANGED <<problem, order, next, xmins, remainingLower, remainingUpper>>
          /\ UNCHANGED <<otherNeeded, linLast, stage, linearExpressions>>
      BY <2>1 DEF linearVars, accessVars
    <3>2. /\ \A env : Domain(env)' = Domain(env)
          /\ \A j, env : Coef(j, env)' = Coef(j, env)
          /\ \A j, env, pt : Gap(j, env, pt)' = Gap(j, env, pt)
          /\ xPrev' = xPrev /\ LastLower' = LastLower /\ LastUpper' = LastUpper
      BY <3>1 DEF Domain, Coef, Gap, a, xPrev, LastLower, LastUpper
    <3>3. \A c, env, pt : Chain(c, env, pt) => Chain(c, env, pt)'
      BY <3>1, <3>2 DEF Chain
    <3>4. \A env : SameSigns(env) => SameSigns(env)'
      BY <3>1, <3>2 DEF SameSigns
    <3>5. \A j : (Settled(j) => Settled(j)') /\ (Untouched(j) => Untouched(j)')
      BY <3>1, <3>2 DEF Settled, Untouched
    <3>6. LastSettled => LastSettled'
      BY <3>1, <3>2 DEF LastSettled
    <3> SUFFICES ASSUME BoundsInv PROVE BoundsInv'
      OBVIOUS
    <3>7. \A env \in Env : \A pt \in Domain(env) : \E c : Chain(c, env, pt)'
      BY <3>3 DEF BoundsInv
    <3> QED
      BY <3>1, <3>2, <3>4, <3>5, <3>6, <3>7 DEF BoundsInv
  <2> QED
    BY <1>1, <2>1, <2>2, <2>3 DEF ExactInv
<1> QED
  BY <1>3, <1>4, <1>5, <1>6, <1>7, <1>8, <1>9 DEF Next

-----------------------------------------------------------------------------
(* The end of the search, when the bounds of all bindings are chosen.      *)
Ended ==
  /\ problem \in Problems /\ IsFiniteSet(Bindings(problem))
  /\ DOMAIN linearExpressions = Bindings(problem)
  /\ next = Len(order) /\ next \in Nat /\ next >= 1 /\ DOMAIN order = 1 .. next
  /\ \A j \in 1 .. next : order[j] \in Bindings(problem)
  /\ \A v \in Bindings(problem) : \E j \in 1 .. next : order[j] = v
  /\ \A i, j \in 1 .. next : order[i] = order[j] => i = j
  /\ \A v \in Bindings(problem) : a(v) \in Expr /\ xmins[v] \in Expr
  /\ constantExpression \in Expr

(* The signs of the coefficients are those that getSign has found.         *)
Oriented(env) ==
  /\ SameSigns(env) /\ sign \in {"none", "pos", "neg"}
  /\ sign = "pos" => Coef(1, env) > 0
  /\ sign = "neg" => Coef(1, env) < 0

(* The minimum of a binding is one of its lower bounds, which is dropped.  *)
Minimum(j, low) ==
  /\ low \in Lower(problem, order[j])
  /\ xmins[order[j]] = BoundValue(low)
  /\ remainingLower[order[j]] = Lower(problem, order[j]) \ {low}

(* When the search has ended, every binding has its minimum.               *)
LEMMA AtTheEnd ==
  ASSUME ExactInv, stage = "done"
  PROVE  /\ Ended
         /\ \A j \in 1 .. next : \E low : Minimum(j, low)
         /\ \A env \in Env : Domain(env) # {} => Oriented(env)
<1>1. /\ VisitInv /\ LinTyped /\ SearchInv /\ BoundsInv
      /\ DOMAIN linearExpressions \subseteq Bindings(problem) /\ constantExpression \in Expr
  BY DEF ExactInv, IInv, LinearInv
<1>2. /\ problem \in Problems /\ order \in Orders(Bindings(problem))
      /\ DOMAIN linearExpressions = Bindings(problem)
      /\ next = Len(order) /\ next \in 1 .. Len(order)
  BY <1>1 DEF VisitInv, SearchInv, BoundsInv
<1>3. /\ Len(order) \in Nat /\ DOMAIN order = 1 .. Len(order)
      /\ \A j \in 1 .. Len(order) : order[j] \in Bindings(problem)
      /\ \A v \in Bindings(problem) : \E j \in 1 .. Len(order) : order[j] = v
      /\ \A i, j \in 1 .. Len(order) : order[i] = order[j] => i = j
  BY <1>2, OrderTyped
<1>4. next \in Nat /\ next >= 1 /\ IsFiniteSet(Bindings(problem))
  BY <1>2, <1>3, ProblemsAssumption
<1>5. ASSUME NEW j \in 1 .. next PROVE \E low : Minimum(j, low)
  <2>1. CASE j \in 1 .. next - 1
    BY <1>1, <2>1 DEF BoundsInv, Settled, Minimum
  <2>2. CASE j = next
    BY <1>1, <2>2 DEF BoundsInv, LastSettled, Minimum, xPrev
  <2> QED
    BY <1>4, <2>1, <2>2
<1>6. \A j \in 1 .. next : xmins[order[j]] \in Expr
  <2>1. \A v \in Bindings(problem) : \A low \in Lower(problem, v) : BoundValue(low) \in Expr
    BY <1>2, ProblemsAssumption, BoundTyped
  <2> QED
    BY <1>2, <1>3, <1>5, <2>1 DEF Minimum
<1>7. \A v \in Bindings(problem) : a(v) \in Expr /\ xmins[v] \in Expr
  BY <1>1, <1>2, <1>3, <1>6 DEF VisitInv
<1>8. ASSUME NEW env \in Env, Domain(env) # {} PROVE Oriented(env)
  <2>1. PICK pt \in Domain(env) : TRUE
    BY <1>8
  <2>2. /\ sign \in {"none", "pos", "neg"}
        /\ sign = "pos" => Coef(next, env) > 0
        /\ sign = "neg" => Coef(next, env) < 0
    BY <1>1 DEF SearchInv, Reached, Coef, xPrev
  <2>3. SameSigns(env)
    BY <1>1, <1>8 DEF BoundsInv
  <2>4. \A j \in 1 .. next : Coef(j, env) \in Int
    BY <1>2, <1>3, <1>7 DEF Coef, Expr
  <2>5. 1 \in 1 .. next /\ next \in 1 .. next
    BY <1>4
  <2>6. Coef(1, env) # 0 /\ (Coef(next, env) > 0 <=> Coef(1, env) > 0) /\ Coef(next, env) # 0
    BY <2>3, <2>5 DEF SameSigns
  <2> QED
    BY <2>2, <2>3, <2>4, <2>5, <2>6 DEF Oriented
<1> QED
  BY <1>1, <1>2, <1>3, <1>4, <1>5, <1>7, <1>8 DEF Ended

(* The index is the offset and the multiples of the distances from the     *)
(* minimums, added up in order.                                            *)
LEMMA IndexIsSum ==
  ASSUME Ended, NEW env \in Env, NEW pt \in [Bindings(problem) -> Int],
         NEW c \in [0 .. next -> Int], c[0] = 0,
         \A j \in 1 .. next : c[j] = Coef(j, env) * Gap(j, env, pt) + c[j - 1]
  PROVE  /\ offset(env) \in Int
         /\ Index(env, pt) = offset(env) + c[next]
<1> DEFINE D == Bindings(problem)
           low == [v \in D |-> xmins[v][env]]
           f == [v \in D |-> a(v)[env] * pt[v]]
           g == [v \in D |-> a(v)[env] * low[v]]
           h == [v \in D |-> a(v)[env] * (pt[v] - low[v])]
<1>1. /\ \A v \in D : a(v)[env] \in Int /\ pt[v] \in Int /\ low[v] \in Int
      /\ IsFiniteSet(D) /\ constantExpression[env] \in Int /\ DOMAIN linearExpressions = D
  BY DEF Ended, Expr
<1>2. /\ Index(env, pt) = constantExpression[env] + Sums(f)[D]
      /\ offset(env) = constantExpression[env] + Sums(g)[D]
  BY <1>1 DEF offset, Index, WeightedSum
<1>3. /\ f \in [D -> Int] /\ g \in [D -> Int] /\ h \in [D -> Int]
      /\ f \in IntFun(D) /\ g \in IntFun(D) /\ h \in IntFun(D)
  BY <1>1 DEF IntFun
<1>4. \A v \in D : f[v] = g[v] + h[v]
  <2>1. \A y, z, w \in Int : y * z = y * w + y * (z - w)
    OBVIOUS
  <2> QED
    BY <1>1, <2>1
<1>5. \A j \in 1 .. next :
        order[j] \in D /\ h[order[j]] = Coef(j, env) * Gap(j, env, pt)
  BY DEF Ended, Coef, Gap
<1> HIDE DEF f, g, h, low
<1>6. Sums(f)[D] = Sums(g)[D] + Sums(h)[D] /\ Sums(g)[D] \in Int
  <2> HIDE DEF D
  <2>1. D \in SUBSET D
    OBVIOUS
  <2>2. Sums(g)[D] \in Int
    BY <1>1, <1>3, <2>1, SumsAdd
  <2>3. Sums(f)[D] = Sums(g)[D] + Sums(h)[D]
    BY <1>1, <1>3, <1>4, <2>1, SumsDifference
  <2> QED
    BY <2>2, <2>3
<1> DEFINE First(j) == {order[i] : i \in 1 .. j}
           T == {j \in Nat : j <= next => Sums(h)[First(j)] = c[j]}
<1>7. /\ Sums(h)[{}] = 0
      /\ \A s \in SUBSET D : \A w \in s : Sums(h)[s] = h[w] + Sums(h)[s \ {w}]
  <2> HIDE DEF D, T, First
  <2>1. IsFiniteSet(D) /\ h \in IntFun(D)
    BY <1>1, <1>3
  <2>2. /\ Sums(h)[{}] = 0
        /\ \A s \in SUBSET D :
             /\ Sums(h)[s] \in Int
             /\ \A w \in s : Sums(h)[s] = h[w] + Sums(h)[s \ {w}]
    BY <2>1, SumsAdd
  <2> QED
    BY <2>2
<1>8. 0 \in T
  <2>1. First(0) = {}
    OBVIOUS
  <2> QED
    BY <1>7, <2>1
<1>9. ASSUME NEW j \in Nat, j \in T PROVE j + 1 \in T
  <2> SUFFICES ASSUME j + 1 <= next PROVE Sums(h)[First(j + 1)] = c[j + 1]
    OBVIOUS
  <2>1. j + 1 \in 1 .. next /\ \A i \in 1 .. j : i \in 1 .. next /\ i # j + 1
    BY DEF Ended
  <2>2. First(j + 1) \in SUBSET D /\ order[j + 1] \in First(j + 1)
    BY <1>5, <2>1 DEF Ended
  <2>3. \A i \in 1 .. j : order[i] # order[j + 1]
    BY <2>1 DEF Ended
  <2>4. First(j + 1) \ {order[j + 1]} = First(j)
    BY <2>1, <2>3
  <2>5. Sums(h)[First(j + 1)] = h[order[j + 1]] + Sums(h)[First(j)]
    <3> HIDE DEF First, T, D
    <3>1. Sums(h)[First(j + 1)] = h[order[j + 1]] + Sums(h)[First(j + 1) \ {order[j + 1]}]
      BY <1>7, <2>2
    <3> QED
      BY <2>4, <3>1
  <2>6. Sums(h)[First(j)] = c[j]
    BY <1>9, <2>1 DEF Ended
  <2>7. c[j + 1] = Coef(j + 1, env) * Gap(j + 1, env, pt) + c[(j + 1) - 1] /\ (j + 1) - 1 = j
    BY <2>1
  <2> QED
    BY <1>5, <2>1, <2>5, <2>6, <2>7
<1>10. Sums(h)[First(next)] = c[next]
  <2> HIDE DEF T
  <2>1. Nat \subseteq T
    BY <1>8, <1>9, UpwardInduction
  <2>2. next \in T /\ next \in Nat
    BY <2>1 DEF Ended
  <2> HIDE DEF First
  <2> QED
    BY <2>2 DEF T
<1>11. First(next) = D
  BY DEF Ended
<1> HIDE DEF First, T, D
<1>12. c[next] \in Int
  BY DEF Ended
<1> QED
  BY <1>1, <1>2, <1>6, <1>10, <1>11, <1>12

-----------------------------------------------------------------------------
(* Numbers with the sign of a coefficient.                                 *)
LEMMA SizeFits ==
  ASSUME NEW A \in Int, NEW B \in Int, A # 0, B # 0, A > 0 <=> B > 0,
         NEW r \in Int
  PROVE  /\ Abs(A) \in Int /\ Abs(A) > 0
         /\ Signed(r, B) \in Int
         /\ Fits(r, A) <=> Signed(r, B) \in 0 .. Abs(A) - 1
BY DEF Abs, Signed, Fits

(* Every coefficient has the sign of the first.                            *)
LEMMA AbsIs ==
  ASSUME Ended, NEW env \in Env, Oriented(env)
  PROVE  /\ Coef(1, env) \in Int /\ Coef(1, env) # 0
         /\ \A j \in 1 .. next :
              /\ Coef(j, env) \in Int /\ Coef(j, env) # 0
              /\ Coef(j, env) > 0 <=> Coef(1, env) > 0
              /\ Abs(Coef(j, env)) \in Int /\ Abs(Coef(j, env)) > 0
              /\ abs(Coef(j, env)) = Abs(Coef(j, env))
         /\ \A i \in Int : Signed(i, Coef(1, env)) >= 0 => abs(i) = Signed(i, Coef(1, env))
<1>1. \A j \in 1 .. next : Coef(j, env) \in Int
  BY DEF Ended, Coef, Expr
<1>2. 1 \in 1 .. next
  BY DEF Ended
<1>3. \A j \in 1 .. next : Coef(j, env) # 0 /\ (Coef(j, env) > 0 <=> Coef(1, env) > 0)
  BY DEF Oriented, SameSigns
<1>4. ASSUME NEW i \in Int PROVE Signed(i, Coef(1, env)) >= 0 => abs(i) = Signed(i, Coef(1, env))
  BY <1>1, <1>2, <1>3 DEF Oriented, Signed, abs, Abs
<1>5. ASSUME NEW j \in 1 .. next
      PROVE  /\ Abs(Coef(j, env)) \in Int /\ Abs(Coef(j, env)) > 0
             /\ abs(Coef(j, env)) = Abs(Coef(j, env))
  <2>1. Coef(j, env) \in Int /\ Coef(j, env) # 0 /\ (Coef(j, env) > 0 <=> Coef(1, env) > 0)
    BY <1>1, <1>3
  <2> QED
    BY <1>1, <1>2, <2>1 DEF Oriented, abs, Abs
<1> QED
  BY <1>1, <1>2, <1>3, <1>4, <1>5

(* What the new quantifier says of its binding.                            *)
Extents(env) == Abs(Coef(next, env)) * Extent(LastUpper, LastLower, env)
(* The index is at least the offset and less than the last extent above it.*)
LEMMA InExtentIs ==
  ASSUME ExactDifferences, Ended, LastSettled, NEW env \in Env, Oriented(env),
         NEW i \in Int, offset(env) \in Int
  PROVE  /\ Extent(LastUpper, LastLower, env) \in Int
         /\ InExtent(env, i) <=>
              /\ 0 <= Signed(i - offset(env), Coef(1, env))
              /\ Signed(i - offset(env), Coef(1, env)) < Extents(env)
<1> DEFINE b == i - offset(env)
           A == Coef(next, env)
           A1 == Coef(1, env)
           w == Extent(LastUpper, LastLower, env)
<1>1. A \in Int /\ A1 \in Int /\ A # 0 /\ A1 # 0 /\ (A > 0 <=> A1 > 0) /\ b \in Int
  <2>1. next \in 1 .. next
    BY DEF Ended
  <2> QED
    BY <2>1, AbsIs
<1>2. /\ problem \in Problems /\ xPrev \in Bindings(problem)
      /\ LastLower \in Lower(problem, xPrev) /\ LastUpper \in Upper(problem, xPrev)
  BY DEF Ended, LastSettled, xPrev
<1>3. simplifiedMinus(LastUpper, LastLower) = Sub(BoundValue(LastUpper), BoundValue(LastLower))
  BY <1>2 DEF ExactDifferences
<1>4. simplifiedMinus(LastUpper, LastLower)[env] = w
  BY <1>3 DEF Sub, Extent
<1>5. w \in Int
  <2>1. BoundValue(LastUpper) \in Expr /\ BoundValue(LastLower) \in Expr
    BY <1>2, ProblemsAssumption, BoundTyped
  <2> QED
    BY <2>1 DEF Expr, Extent
<1>6. a(xPrev)[env] = A /\ a(order[1])[env] = A1
  BY DEF Coef, xPrev
<1>7. /\ A * w \in Int
      /\ A > 0 => Abs(A) * w = A * w
      /\ ~(A > 0) => Abs(A) * w = -(A * w)
  <2>1. (-A) * w = -(A * w) /\ A * w \in Int
    BY <1>1, <1>5
  <2> QED
    BY <1>1, <1>5, <2>1 DEF Abs
<1>8. InExtent(env, i) =
        CASE sign = "pos" -> 0 <= b /\ b < A * w
          [] sign = "neg" -> A * w < b /\ b <= 0
          [] sign = "none" -> /\ A1 > 0 => 0 <= b /\ b < A * w
                              /\ A1 < 0 => A * w < b /\ b <= 0
  BY <1>4, <1>6 DEF InExtent
<1>9. Extents(env) = Abs(A) * w
  BY DEF Extents
<1>10. sign \in {"none", "pos", "neg"} /\ (sign = "pos" => A1 > 0) /\ (sign = "neg" => A1 < 0)
  BY DEF Oriented
<1> HIDE DEF A, A1, w, b
<1> DEFINE e == A * w
<1>11. e \in Int
  BY <1>7
<1> SUFFICES InExtent(env, i) <=> 0 <= Signed(b, A1) /\ Signed(b, A1) < Abs(A) * w
  BY <1>5, <1>9 DEF A1, b, w
<1>12. CASE A1 > 0
  <2>1. Signed(b, A1) = b /\ Abs(A) * w = e
    BY <1>1, <1>7, <1>12 DEF Signed
  <2>2. InExtent(env, i) <=> (0 <= b /\ b < e)
    <3>1. sign = "pos" \/ sign = "none"
      BY <1>1, <1>10, <1>12
    <3>2. ~(A1 < 0)
      BY <1>1, <1>12
    <3> QED
      BY <1>8, <1>12, <3>1, <3>2
  <2> QED
    BY <2>1, <2>2
<1>13. CASE A1 < 0
  <2>1. Signed(b, A1) = -b /\ Abs(A) * w = -e
    BY <1>1, <1>7, <1>13 DEF Signed
  <2>2. InExtent(env, i) <=> (e < b /\ b <= 0)
    <3>1. sign = "neg" \/ sign = "none"
      BY <1>1, <1>10, <1>13
    <3>2. ~(A1 > 0)
      BY <1>1, <1>13
    <3> QED
      BY <1>8, <1>13, <3>1, <3>2
  <2> HIDE DEF e
  <2> QED
    BY <1>1, <1>11, <2>1, <2>2
<1> QED
  BY <1>1, <1>12, <1>13

-----------------------------------------------------------------------------
(* The quotients and remainders.                                           *)
Size(i, env) == Signed(i, Coef(1, env))

(* Each remainder is taken of the one before it, unless the coefficient is *)
(* 1.                                                                      *)
LEMMA BasesAre ==
  ASSUME Ended, NEW env \in Env, Oriented(env), NEW i \in Int, offset(env) \in Int
  PROVE  /\ Bases(env, i) \in [0 .. next -> Int]
         /\ Bases(env, i)[next] = abs(i - offset(env))
         /\ \A j \in 1 .. next :
              /\ is_value(a(order[j]), 1) => Bases(env, i)[j - 1] = Bases(env, i)[j]
              /\ ~is_value(a(order[j]), 1) =>
                   Bases(env, i)[j - 1] = Bases(env, i)[j] % Abs(Coef(j, env))
<1> DEFINE k == next
           top == abs(i - offset(env))
           goOn == [j \in 0 .. k - 1 |-> [b \in Int |-> Remainder(b, a(order[j + 1]), env)]]
<1>1. k \in Nat /\ k = Len(order) /\ top \in Int
  BY DEF Ended, Oriented, abs, Abs
<1>2. \A j \in 0 .. k - 1, b \in Int : Remainder(b, a(order[j + 1]), env) \in Int
  <2> SUFFICES ASSUME NEW j \in 0 .. k - 1, NEW b \in Int
               PROVE  Remainder(b, a(order[j + 1]), env) \in Int
    OBVIOUS
  <2>1. j + 1 \in 1 .. next
    BY <1>1
  <2>2. Abs(Coef(j + 1, env)) \in Int /\ Abs(Coef(j + 1, env)) > 0
    BY <2>1, AbsIs
  <2>3. b % Abs(Coef(j + 1, env)) \in Int
    BY <2>2
  <2> QED
    BY <2>3 DEF Remainder, EuclideanMod, Coef
<1>3. goOn \in Steps(k, Int)
  BY <1>2 DEF Steps
<1>4. \A j \in 0 .. k - 1, b \in Int : goOn[j][b] = Remainder(b, a(order[j + 1]), env)
  OBVIOUS
<1> HIDE DEF k, top, goOn
<1>5. PICK f : GoesBack(k, Int, top, goOn, f)
  BY <1>1, <1>3, BackwardExists
<1>6. f \in [0 .. k -> Int] /\ f[k] = top /\ \A j \in 0 .. k - 1 : f[j] = goOn[j][f[j + 1]]
  BY <1>5 DEF GoesBack
<1>7. \A j \in 0 .. k - 1 : f[j] = Remainder(f[j + 1], a(order[j + 1]), env)
  BY <1>1, <1>4, <1>6
<1>8. f = [j \in 0 .. k |-> IF j = k THEN top ELSE Remainder(f[j + 1], a(order[j + 1]), env)]
  BY <1>1, <1>6, <1>7
<1> DEFINE base == Bases(env, i)
<1>9. base = CHOOSE g : g = [j \in 0 .. k |-> IF j = k THEN top
                               ELSE Remainder(g[j + 1], a(order[j + 1]), env)]
  BY <1>1 DEF Bases, top
<1>10. base = [j \in 0 .. k |-> IF j = k THEN top
                 ELSE Remainder(base[j + 1], a(order[j + 1]), env)]
  BY <1>8, <1>9
<1> HIDE DEF base
<1>11. base[k] = top
  BY <1>1, <1>10
<1>12. \A j \in 0 .. k - 1 : base[j] = Remainder(base[j + 1], a(order[j + 1]), env)
  BY <1>1, <1>10
<1>13. base \in [0 .. k -> Int]
  <2> DEFINE T == {j \in 0 .. k : base[j] \in Int}
  <2>1. k \in T
    BY <1>1, <1>11
  <2>2. \A j \in 0 .. k - 1 : j + 1 \in T => j \in T
    <3>1. ASSUME NEW j \in 0 .. k - 1, base[j + 1] \in Int PROVE j \in 0 .. k /\ base[j] \in Int
      BY <1>1, <1>2, <1>12, <3>1
    <3> QED
      BY <3>1
  <2>3. 0 .. k \subseteq T
    <3> HIDE DEF T
    <3> QED
      BY <1>1, <2>1, <2>2, DownwardInduction
  <2> QED
    BY <1>10, <2>3
<1>14. ASSUME NEW j \in 1 .. k
       PROVE  /\ is_value(a(order[j]), 1) => base[j - 1] = base[j]
              /\ ~is_value(a(order[j]), 1) => base[j - 1] = base[j] % Abs(Coef(j, env))
  <2>1. j - 1 \in 0 .. k - 1 /\ (j - 1) + 1 = j
    BY <1>1
  <2>2. base[j - 1] = Remainder(base[j], a(order[j]), env)
    BY <1>12, <2>1
  <2> QED
    BY <2>2 DEF Remainder, EuclideanMod, Coef
<1> QED
  BY <1>11, <1>13, <1>14 DEF base, k, top

(* The expression that replaces a binding is a quotient and its minimum.   *)
LEMMA ReplaceMapIs ==
  ASSUME Ended, NEW env \in Env, Oriented(env), NEW i \in Int, offset(env) \in Int
  PROVE  /\ replaceMap(env, i) \in [Bindings(problem) -> Int]
         /\ \A j \in 1 .. next :
              /\ (Bases(env, i)[j] \div Abs(Coef(j, env))) \in Int
              /\ replaceMap(env, i)[order[j]]
                   = (Bases(env, i)[j] \div Abs(Coef(j, env))) + xmins[order[j]][env]
<1> DEFINE base == Bases(env, i)
           position(v) == CHOOSE j \in DOMAIN order : order[j] = v
           map == replaceMap(env, i)
<1>1. map = [v \in Bindings(problem) |->
               EuclideanDiv(base[position(v)], abs(a(v)[env])) + xmins[v][env]]
  BY DEF replaceMap
<1>2. base \in [0 .. next -> Int]
  BY BasesAre
<1> HIDE DEF map, base
<1>3. ASSUME NEW j \in 1 .. next
      PROVE  /\ (base[j] \div Abs(Coef(j, env))) \in Int
             /\ map[order[j]] = (base[j] \div Abs(Coef(j, env))) + xmins[order[j]][env]
             /\ map[order[j]] \in Int
  <2>1. order[j] \in Bindings(problem) /\ position(order[j]) = j
    BY DEF Ended
  <2> HIDE DEF position
  <2>2. map[order[j]] = EuclideanDiv(base[j], abs(Coef(j, env))) + xmins[order[j]][env]
    BY <1>1, <2>1 DEF Coef
  <2>3. /\ abs(Coef(j, env)) = Abs(Coef(j, env)) /\ Abs(Coef(j, env)) > 0
        /\ Abs(Coef(j, env)) \in Int
    BY AbsIs
  <2>4. base[j] \in Int /\ xmins[order[j]][env] \in Int
    <3>1. j \in 0 .. next
      BY DEF Ended
    <3> QED
      BY <1>2, <2>1, <3>1 DEF Ended, Expr
  <2>5. base[j] \div Abs(Coef(j, env)) \in Int
    BY <2>3, <2>4
  <2> QED
    BY <2>2, <2>3, <2>4, <2>5 DEF EuclideanDiv
<1>4. \A v \in Bindings(problem) : map[v] \in Int
  BY <1>3 DEF Ended
<1>5. map \in [Bindings(problem) -> Int]
  BY <1>1, <1>4
<1> QED
  BY <1>3, <1>5 DEF map, base

(* Of the coefficients, only the first may be the literal 1.               *)
OnlyFirstIsUnit ==
  \A j \in 2 .. Len(order) : ~is_value(a(order[j]), 1)

(* A point of the old domain fits below each coefficient.                  *)
LEMMA FullChain ==
  ASSUME ExactInv, stage = "done", Ended, NEW env \in Env, NEW pt \in Domain(env)
  PROVE  \E c \in [0 .. next -> Int] :
           /\ c[0] = 0
           /\ \A j \in 1 .. next :
                /\ Fits(c[j - 1], Coef(j, env))
                /\ Gap(j, env, pt) \in Int
                /\ c[j] = Coef(j, env) * Gap(j, env, pt) + c[j - 1]
<1>1. BoundsInv /\ SearchInv
  BY DEF ExactInv, IInv
<1>2. PICK c : Chain(c, env, pt)
  BY <1>1 DEF BoundsInv
<1>3. next \in Nat /\ next >= 1
  BY DEF Ended
<1>4. \A j \in 1 .. next : Coef(j, env) \in Int /\ Gap(j, env, pt) \in Int
  <2>1. \A v \in Bindings(problem) : a(v)[env] \in Int /\ xmins[v][env] \in Int /\ pt[v] \in Int
    BY DomainPoint DEF Ended, Expr
  <2> QED
    BY <2>1 DEF Ended, Coef, Gap
<1> DEFINE end == Coef(next, env) * Gap(next, env, pt) + c[next - 1]
           g == [j \in 0 .. next |-> IF j = next THEN end ELSE c[j]]
<1>5. c \in [0 .. next - 1 -> Int] /\ c[0] = 0 /\ c[next - 1] = linLast[env][pt]
  BY <1>2 DEF Chain
<1>6. end \in Int
  <2>1. next \in 1 .. next /\ next - 1 \in 0 .. next - 1
    BY <1>3
  <2>2. Coef(next, env) * Gap(next, env, pt) \in Int
    BY <1>4, <2>1
  <2> QED
    BY <1>5, <2>1, <2>2
<1>7. /\ g \in [0 .. next -> Int] /\ g[0] = 0 /\ g[next] = end
      /\ \A j \in 0 .. next - 1 : g[j] = c[j]
  <2> HIDE DEF end
  <2> QED
    BY <1>3, <1>5, <1>6
<1> HIDE DEF g
<1>8. ASSUME NEW j \in 1 .. next
      PROVE  /\ Fits(g[j - 1], Coef(j, env))
             /\ g[j] = Coef(j, env) * Gap(j, env, pt) + g[j - 1]
  <2>1. CASE j \in 1 .. next - 1
    <3>1. j \in 0 .. next - 1 /\ j - 1 \in 0 .. next - 1
      BY <1>3, <2>1
    <3> QED
      BY <1>2, <1>7, <2>1, <3>1 DEF Chain
  <2>2. CASE j = next
    <3>1. j - 1 \in 0 .. next - 1
      BY <1>3, <2>2
    <3>2. g[j - 1] = c[next - 1]
      BY <1>7, <2>2, <3>1
    <3>3. Fits(c[next - 1], Coef(next, env))
      BY <1>1, <1>5 DEF SearchInv, Reached, Coef, xPrev
    <3> QED
      BY <1>7, <2>2, <3>2, <3>3
  <2> QED
    BY <1>3, <2>1, <2>2
<1> QED
  BY <1>4, <1>7, <1>8

(* The integers are not bounded.                                           *)
Unbounded == Values = Int /\ Indices = Int

(* After the visit the pattern is the linear expression.                   *)
LEMMA PatternIsIndex ==
  ASSUME LinearInv, todo = <<>>, isLinear, NEW env \in Env, NEW pt \in Points
  PROVE  /\ NodeValue(problem.pattern, env, pt) = Index(env, pt)
         /\ Index(env, pt) \in Int
<1>1. problem \in Problems /\ currentMultiplier[env] \in Int
  BY DEF LinearInv, VisitInv, Expr
<1>2. NodeValue(problem.pattern, env, pt)
        = Index(env, pt) + PendingValue(todo, currentMultiplier, env, pt)
  BY DEF LinearInv, NothingLost, Points
<1>3. PendingBy(<<>>, env, pt)[0] = [m \in Int |-> 0]
  <2>1. <<>> \in Seq(TasksOf(problem)) /\ Len(<<>>) = 0
    OBVIOUS
  <2> QED
    BY <1>1, <2>1, PendingDefined
<1>4. PendingValue(todo, currentMultiplier, env, pt) = 0
  BY <1>1, <1>3 DEF PendingValue
<1>5. Index(env, pt) \in Int
  <2>1. DOMAIN linearExpressions \subseteq Bindings(problem) /\ constantExpression \in Expr
        /\ \A v \in DOMAIN linearExpressions : a(v) \in Expr
    BY DEF LinearInv, VisitInv
  <2>2. /\ constantExpression[env] \in Int
        /\ WeightedSum(Coefficients(env), pt) \in Int
        /\ Index(env, pt) = constantExpression[env] + WeightedSum(Coefficients(env), pt)
    BY <1>1, <2>1, CoefficientsTyped
  <2> QED
    BY <2>2
<1> QED
  BY <1>2, <1>4, <1>5

(* No bound is added.                                                      *)
LEMMA RemainingAre ==
  ASSUME ExactInv, stage = "done", Ended, NEW v \in Bindings(problem)
  PROVE  remainingLower[v] \subseteq Lower(problem, v) /\ remainingUpper[v] \subseteq Upper(problem, v)
<1>1. PICK j \in 1 .. next : order[j] = v
  BY DEF Ended
<1>2. BoundsInv
  BY DEF ExactInv
<1>3. CASE j \in 1 .. next - 1
  BY <1>1, <1>2, <1>3 DEF BoundsInv, Settled
<1>4. CASE j = next
  BY <1>1, <1>2, <1>4 DEF BoundsInv, LastSettled, xPrev
<1> QED
  BY <1>3, <1>4 DEF Ended

(* A point of the old domain is found back from its index, which the new   *)
(* quantifier ranges over.                                                 *)
LEMMA Forth ==
  ASSUME ExactDifferences, Unbounded, ExactInv, stage = "done", OnlyFirstIsUnit,
         NEW env \in Env, NEW pt \in Domain(env)
  PROVE  /\ Index(env, pt) \in NewDomain(env)
         /\ NewPoint(env, Index(env, pt)) = pt
<1>1. /\ Ended /\ Oriented(env) /\ BoundsInv /\ LinearInv /\ problem \in Problems
      /\ \A j \in 1 .. next : \E low : Minimum(j, low)
  BY AtTheEnd DEF ExactInv, Ended
<1>2. /\ pt \in [Bindings(problem) -> Int] /\ pt \in Points
      /\ CondsHold(problem, env, pt)
  BY <1>1 DEF Domain, Domains, Unbounded, Points
<1>3. Index(env, pt) \in Int
  BY <1>1, <1>2, PatternIsIndex DEF ExactInv
<1>4. PICK c \in [0 .. next -> Int] :
        /\ c[0] = 0
        /\ \A j \in 1 .. next :
             /\ Fits(c[j - 1], Coef(j, env))
             /\ Gap(j, env, pt) \in Int
             /\ c[j] = Coef(j, env) * Gap(j, env, pt) + c[j - 1]
  BY <1>1, FullChain
<1>5. offset(env) \in Int /\ Index(env, pt) = offset(env) + c[next]
  BY <1>1, <1>2, <1>4, IndexIsSum
<1>6. next \in Nat /\ next >= 1
  BY <1>1 DEF Ended
<1> DEFINE i == Index(env, pt)
           e(j) == Size(c[j], env)
           B(j) == Abs(Coef(j, env))
           d(j) == Gap(j, env, pt)
           base == Bases(env, i)
<1>7. \A j \in 1 .. next :
        /\ B(j) \in Int /\ B(j) > 0
        /\ e(j) = B(j) * d(j) + e(j - 1)
        /\ e(j - 1) \in 0 .. B(j) - 1
  <2> SUFFICES ASSUME NEW j \in 1 .. next
               PROVE  /\ B(j) \in Int /\ B(j) > 0
                      /\ e(j) = B(j) * d(j) + e(j - 1)
                      /\ e(j - 1) \in 0 .. B(j) - 1
    OBVIOUS
  <2>1. /\ Coef(j, env) \in Int /\ Coef(1, env) \in Int /\ Coef(j, env) # 0 /\ Coef(1, env) # 0
        /\ Coef(j, env) > 0 <=> Coef(1, env) > 0
    BY <1>1, AbsIs
  <2>2. d(j) \in Int /\ c[j - 1] \in Int
    BY <1>4, <1>6
  <2> HIDE DEF d
  <2> DEFINE A == Coef(j, env)
             A1 == Coef(1, env)
             y == d(j)
             z == c[j - 1]
  <2>4. /\ Abs(A) \in Int /\ Abs(A) > 0
        /\ Signed(A * y + z, A1) = Abs(A) * y + Signed(z, A1)
        /\ Fits(z, A) <=> Signed(z, A1) \in 0 .. Abs(A) - 1
    <3>1. A \in Int /\ A1 \in Int /\ A # 0 /\ A1 # 0 /\ (A > 0 <=> A1 > 0) /\ y \in Int /\ z \in Int
      BY <2>1, <2>2
    <3> HIDE DEF A, A1, y, z
    <3>2. /\ Abs(A) \in Int /\ Abs(A) > 0
          /\ Fits(z, A) <=> Signed(z, A1) \in 0 .. Abs(A) - 1
      BY <3>1, SizeFits
    <3>3. CASE A > 0
      BY <3>1, <3>2, <3>3 DEF Abs, Signed
    <3>4. CASE ~(A > 0)
      <4>1. (-A) * y = -(A * y) /\ A * y \in Int
        BY <3>1
      <4>2. Abs(A) = -A /\ ~(A1 > 0)
        BY <3>1, <3>4 DEF Abs
      <4>3. Signed(A * y + z, A1) = (-A) * y + (-z)
        BY <3>1, <4>1, <4>2 DEF Signed
      <4> QED
        BY <3>2, <4>2, <4>3 DEF Signed
    <3> QED
      BY <3>3, <3>4
  <2>3. /\ Abs(Coef(j, env)) \in Int /\ Abs(Coef(j, env)) > 0
        /\ Signed(Coef(j, env) * d(j) + c[j - 1], Coef(1, env))
             = Abs(Coef(j, env)) * d(j) + Signed(c[j - 1], Coef(1, env))
        /\ Fits(c[j - 1], Coef(j, env)) <=>
             Signed(c[j - 1], Coef(1, env)) \in 0 .. Abs(Coef(j, env)) - 1
    BY <2>4
  <2> QED
    BY <1>4, <2>3 DEF Size, d
<1>8. \A j \in 1 .. next : d(j) \in Int /\ d(j) >= 0
  <2> SUFFICES ASSUME NEW j \in 1 .. next PROVE d(j) \in Int /\ d(j) >= 0
    OBVIOUS
  <2>1. PICK low : Minimum(j, low)
    BY <1>1
  <2>2. order[j] \in Bindings(problem)
    BY <1>1 DEF Ended
  <2>3. BoundValue(low)[env] \in Int /\ BoundValue(low)[env] <= pt[order[j]] /\ pt[order[j]] \in Int
    BY <1>1, <2>1, <2>2, DomainPoint DEF Minimum
  <2> QED
    BY <2>1, <2>3 DEF Minimum, Gap
<1>9. e(0) = 0 /\ \A j \in 0 .. next : e(j) \in Int
  <2>1. \A z \in Int : Size(z, env) \in Int /\ (z = 0 => Size(z, env) = 0)
    <3>1. Coef(1, env) \in Int
      BY <1>1, AbsIs
    <3> QED
      BY <3>1 DEF Size, Signed
  <2>2. c[0] = 0 /\ \A j \in 0 .. next : c[j] \in Int
    BY <1>4
  <2> QED
    BY <2>1, <2>2
<1>10. e(next) >= 0 /\ i - offset(env) = c[next] /\ c[next] \in Int
  <2>1. B(next) * d(next) >= 0 /\ e(next - 1) >= 0 /\ e(next) = B(next) * d(next) + e(next - 1)
    <3>1. next \in 1 .. next
      BY <1>6
    <3>2. B(next) \in Int /\ B(next) > 0 /\ d(next) \in Int /\ d(next) >= 0
      BY <1>7, <1>8, <3>1
    <3> HIDE DEF B, d, e
    <3>3. B(next) * d(next) >= 0
      BY <3>2
    <3> QED
      BY <1>7, <3>1, <3>3
  <2>2. e(next - 1) \in Int /\ B(next) * d(next) \in Int
    <3>1. next \in 1 .. next /\ next - 1 \in 0 .. next
      BY <1>6
    <3> HIDE DEF B, d, e
    <3> QED
      BY <1>7, <1>8, <1>9, <3>1
  <2>3. e(next) >= 0
    <3> HIDE DEF B, d, e
    <3> QED
      BY <2>1, <2>2
  <2> QED
    BY <1>4, <1>5, <1>6, <2>3
<1>11. /\ base \in [0 .. next -> Int] /\ base[next] = e(next)
       /\ \A j \in 1 .. next :
            /\ is_value(a(order[j]), 1) => base[j - 1] = base[j]
            /\ ~is_value(a(order[j]), 1) => base[j - 1] = base[j] % B(j)
  <2>1. /\ base \in [0 .. next -> Int] /\ base[next] = abs(i - offset(env))
        /\ \A j \in 1 .. next :
             /\ is_value(a(order[j]), 1) => base[j - 1] = base[j]
             /\ ~is_value(a(order[j]), 1) => base[j - 1] = base[j] % Abs(Coef(j, env))
    BY <1>1, <1>3, <1>5, BasesAre
  <2>2. abs(c[next]) = Signed(c[next], Coef(1, env))
    BY <1>1, <1>10, AbsIs DEF Size
  <2> QED
    BY <1>10, <2>1, <2>2 DEF Size
<1> HIDE DEF i, e, B, d, base
<1>12. \A j \in 1 .. next : e(j) \div B(j) = d(j) /\ e(j) % B(j) = e(j - 1)
  <2> SUFFICES ASSUME NEW j \in 1 .. next PROVE e(j) \div B(j) = d(j) /\ e(j) % B(j) = e(j - 1)
    OBVIOUS
  <2>1. B(j) \in Int /\ B(j) > 0 /\ d(j) \in Int /\ e(j - 1) \in 0 .. B(j) - 1
    BY <1>7, <1>8
  <2>2. (B(j) * d(j) + e(j - 1)) \div B(j) = d(j) /\ (B(j) * d(j) + e(j - 1)) % B(j) = e(j - 1)
    BY <2>1, DivModIs
  <2> QED
    BY <1>7, <2>2
<1>13. \A j \in 1 .. next : base[j] = e(j)
  <2> DEFINE T == {j \in 0 .. next : j >= 1 => base[j] = e(j)}
  <2>1. next \in T
    BY <1>6, <1>11
  <2>2. \A j \in 0 .. next - 1 : j + 1 \in T => j \in T
    <3> SUFFICES ASSUME NEW j \in 0 .. next - 1, j >= 1, base[j + 1] = e(j + 1)
                 PROVE  base[j] = e(j)
      BY <1>6
    <3>1. j + 1 \in 1 .. next /\ j + 1 \in 2 .. Len(order) /\ (j + 1) - 1 = j
      BY <1>1, <1>6 DEF Ended
    <3>2. ~is_value(a(order[j + 1]), 1)
      BY <3>1 DEF OnlyFirstIsUnit
    <3>3. base[(j + 1) - 1] = base[j + 1] % B(j + 1)
      BY <1>11, <3>1, <3>2
    <3> QED
      BY <1>12, <3>1, <3>3
  <2>3. 0 .. next \subseteq T
    <3> HIDE DEF T
    <3> QED
      BY <1>6, <2>1, <2>2, DownwardInduction
  <2>4. \A j \in 1 .. next : j \in 0 .. next /\ j >= 1
    BY <1>6
  <2> QED
    BY <2>3, <2>4
<1>14. replaceMap(env, i) = pt
  <2>1. /\ replaceMap(env, i) \in [Bindings(problem) -> Int]
        /\ \A j \in 1 .. next :
             replaceMap(env, i)[order[j]] = (base[j] \div B(j)) + xmins[order[j]][env]
    <3>1. i \in Int
      BY <1>3 DEF i
    <3> QED
      BY <1>1, <1>5, <3>1, ReplaceMapIs DEF base, B
  <2>2. \A j \in 1 .. next : replaceMap(env, i)[order[j]] = pt[order[j]]
    <3> SUFFICES ASSUME NEW j \in 1 .. next PROVE replaceMap(env, i)[order[j]] = pt[order[j]]
      OBVIOUS
    <3>1. d(j) = pt[order[j]] - xmins[order[j]][env]
      BY DEF d, Gap
    <3>2. order[j] \in Bindings(problem) /\ pt[order[j]] \in Int /\ xmins[order[j]][env] \in Int
      BY <1>1, <1>2 DEF Ended, Expr
    <3>3. replaceMap(env, i)[order[j]] = d(j) + xmins[order[j]][env]
      BY <1>12, <1>13, <2>1
    <3> QED
      BY <3>1, <3>2, <3>3
  <2>3. \A v \in Bindings(problem) : replaceMap(env, i)[v] = pt[v]
    BY <1>1, <2>2 DEF Ended
  <2> QED
    BY <1>2, <2>1, <2>3
<1>15. InExtent(env, i)
  <2>1. LastSettled /\ xPrev = order[next] /\ xPrev \in Bindings(problem)
    BY <1>1, <1>6 DEF BoundsInv, Ended, xPrev
  <2>2. /\ BoundValue(LastUpper)[env] \in Int /\ pt[xPrev] < BoundValue(LastUpper)[env]
        /\ BoundValue(LastLower)[env] \in Int /\ pt[xPrev] \in Int
    BY <1>1, <2>1, DomainPoint DEF LastSettled
  <2>3. d(next) < Extent(LastUpper, LastLower, env)
    BY <2>1, <2>2 DEF d, Gap, Extent, LastSettled
  <2> DEFINE w == Extent(LastUpper, LastLower, env)
  <2>4. w \in Int
    BY <2>2 DEF Extent
  <2> HIDE DEF w
  <2>5. next \in 1 .. next /\ next - 1 \in 0 .. next
    BY <1>6
  <2>6. B(next) \in Int /\ B(next) > 0 /\ d(next) \in Int /\ d(next) >= 0
        /\ e(next - 1) \in 0 .. B(next) - 1 /\ e(next) = B(next) * d(next) + e(next - 1)
    BY <1>7, <1>8, <2>5
  <2>7. B(next) * d(next) + B(next) <= B(next) * w
    BY <2>3, <2>4, <2>6, Monotone DEF w
  <2>8. B(next) * d(next) \in Int /\ B(next) * w \in Int
    BY <2>4, <2>6
  <2>9. e(next) < B(next) * w
    BY <2>6, <2>7, <2>8
  <2>10. e(next) = Signed(i - offset(env), Coef(1, env))
    BY <1>10 DEF e, Size, i
  <2>11. i \in Int
    BY <1>3 DEF i
  <2> QED
    BY <1>1, <1>5, <1>10, <2>1, <2>9, <2>10, <2>11, InExtentIs DEF Extents, B, w
<1>16. Stride(env, i)
  <2>1. 1 \in 1 .. next /\ 1 - 1 = 0
    BY <1>6
  <2>2. ~is_value(a(order[1]), 1) => base[0] = 0
    BY <1>9, <1>11, <1>12, <1>13, <2>1
  <2> QED
    BY <2>2 DEF Stride, base
<1>17. \A need \in otherNeeded : need[env] > 0
  BY <1>1 DEF BoundsInv
<1>18. RemainingHold(env, pt)
  <2>1. \A v \in Bindings(problem) :
          remainingLower[v] \subseteq Lower(problem, v) /\ remainingUpper[v] \subseteq Upper(problem, v)
    BY <1>1, RemainingAre
  <2>2. \A v \in Bindings(problem) :
          /\ \A low \in Lower(problem, v) : BoundValue(low)[env] <= pt[v]
          /\ \A up \in Upper(problem, v) : pt[v] < BoundValue(up)[env]
    BY <1>1, DomainPoint
  <2> QED
    BY <2>1, <2>2 DEF RemainingHold
<1>19. NewPoint(env, i) = pt /\ NewBounds(env, i)
  BY <1>14, <1>15, <1>16, <1>17 DEF NewPoint, NewBounds
<1> QED
  BY <1>2, <1>3, <1>18, <1>19 DEF NewDomain, Unbounded, i

(* A positive factor may be left out of a comparison.                      *)
LEMMA LessByProduct ==
  ASSUME NEW m \in Int, m > 0, NEW y \in Int, NEW z \in Int, m * y < m * z
  PROVE  y < z
<1> SUFFICES ASSUME y >= z PROVE FALSE
  OBVIOUS
<1>1. m * (y - z) >= 0
  OBVIOUS
<1>2. m * (y - z) = m * y - m * z /\ m * y \in Int /\ m * z \in Int
  OBVIOUS
<1> QED
  BY <1>1, <1>2

(* The quotient of a natural number is one.                                *)
LEMMA QuotientIsNat ==
  ASSUME NEW i \in Int, i >= 0, NEW m \in Int, m > 0
  PROVE  i \div m \in Int /\ i \div m >= 0
<1>1. i \div m \in Int /\ i % m \in 0 .. m - 1 /\ i = m * (i \div m) + (i % m)
  BY DivMod
<1> DEFINE y == i \div m
           r == i % m
<1>2. y \in Int /\ r \in 0 .. m - 1 /\ i = m * y + r
  BY <1>1
<1> HIDE DEF y, r
<1>3. y < 0 => m * (y + 1) <= 0
  BY <1>2
<1>4. m * (y + 1) = m * y + m /\ m * y \in Int
  BY <1>2
<1>5. y >= 0
  BY <1>2, <1>3, <1>4
<1> QED
  BY <1>2, <1>5 DEF y

(* An index that the new quantifier ranges over is that of a point of the  *)
(* old domain.                                                             *)
LEMMA Back ==
  ASSUME ExactDifferences, Unbounded, ExactInv, stage = "done", OnlyFirstIsUnit,
         NEW env \in Env, Domain(env) # {}, NEW i \in NewDomain(env)
  PROVE  /\ NewPoint(env, i) \in Domain(env)
         /\ Index(env, NewPoint(env, i)) = i
<1>1. /\ Ended /\ Oriented(env) /\ BoundsInv /\ LinearInv /\ problem \in Problems
      /\ \A j \in 1 .. next : \E low : Minimum(j, low)
  BY AtTheEnd DEF ExactInv, Ended
<1> DEFINE pt == replaceMap(env, i)
           base == Bases(env, i)
           B(j) == Abs(Coef(j, env))
           d(j) == base[j] \div B(j)
<1>2. /\ i \in Int /\ InExtent(env, i) /\ Stride(env, i)
      /\ RemainingHold(env, pt) /\ CondsHold(problem, env, pt)
      /\ NewPoint(env, i) = pt
  BY DEF NewDomain, NewBounds, NewPoint, Unbounded
<1>3. offset(env) \in Int
  <2>1. PICK q \in Domain(env) : TRUE
    OBVIOUS
  <2>2. q \in [Bindings(problem) -> Int]
    BY <1>1, <2>1 DEF Domain, Domains, Unbounded
  <2>3. PICK c \in [0 .. next -> Int] :
          /\ c[0] = 0
          /\ \A j \in 1 .. next :
               /\ Fits(c[j - 1], Coef(j, env))
               /\ Gap(j, env, q) \in Int
               /\ c[j] = Coef(j, env) * Gap(j, env, q) + c[j - 1]
    BY <1>1, <2>1, FullChain
  <2> QED
    BY <1>1, <2>2, <2>3, IndexIsSum
<1>4. next \in Nat /\ next >= 1 /\ next = Len(order)
  BY <1>1 DEF Ended
<1>5. /\ Coef(1, env) \in Int /\ Coef(1, env) # 0
      /\ \A j \in 1 .. next :
           /\ Coef(j, env) \in Int /\ Coef(j, env) # 0
           /\ Coef(j, env) > 0 <=> Coef(1, env) > 0
           /\ B(j) \in Int /\ B(j) > 0
      /\ \A y \in Int : Signed(y, Coef(1, env)) >= 0 => abs(y) = Signed(y, Coef(1, env))
  BY <1>1, AbsIs
<1>6. /\ base \in [0 .. next -> Int] /\ base[next] = abs(i - offset(env))
      /\ \A j \in 1 .. next :
           /\ is_value(a(order[j]), 1) => base[j - 1] = base[j]
           /\ ~is_value(a(order[j]), 1) => base[j - 1] = base[j] % B(j)
  BY <1>1, <1>2, <1>3, BasesAre
<1>7. /\ pt \in [Bindings(problem) -> Int]
      /\ \A j \in 1 .. next : pt[order[j]] = d(j) + xmins[order[j]][env]
  BY <1>1, <1>2, <1>3, ReplaceMapIs
<1>8. /\ base[next] >= 0 /\ base[next] < B(next) * Extent(LastUpper, LastLower, env)
      /\ Extent(LastUpper, LastLower, env) \in Int
      /\ base[next] = Signed(i - offset(env), Coef(1, env))
      /\ LastSettled
  <2>1. LastSettled
    BY <1>1 DEF BoundsInv
  <2>2. /\ Extent(LastUpper, LastLower, env) \in Int
        /\ 0 <= Signed(i - offset(env), Coef(1, env))
        /\ Signed(i - offset(env), Coef(1, env)) < Extents(env)
    BY <1>1, <1>2, <1>3, <2>1, InExtentIs
  <2>3. i - offset(env) \in Int
    BY <1>2, <1>3
  <2>4. abs(i - offset(env)) = Signed(i - offset(env), Coef(1, env))
    BY <1>5, <2>2, <2>3
  <2> QED
    BY <1>6, <2>1, <2>2, <2>4 DEF Extents
<1> HIDE DEF pt, base, B, d
<1>9. \A j \in 1 .. next :
        /\ base[j] \in Int /\ d(j) \in Int /\ base[j] % B(j) \in 0 .. B(j) - 1
        /\ base[j] = B(j) * d(j) + (base[j] % B(j))
  <2> SUFFICES ASSUME NEW j \in 1 .. next
               PROVE  /\ base[j] \in Int /\ d(j) \in Int /\ base[j] % B(j) \in 0 .. B(j) - 1
                      /\ base[j] = B(j) * d(j) + (base[j] % B(j))
    OBVIOUS
  <2>1. base[j] \in Int /\ B(j) \in Int /\ B(j) > 0
    BY <1>4, <1>5, <1>6 DEF B
  <2> QED
    BY <2>1, DivMod DEF d
<1>10. \A j \in 2 .. next : base[j - 1] = base[j] % B(j)
  BY <1>4, <1>6 DEF OnlyFirstIsUnit
<1>11. \A j \in 1 .. next : base[j] >= 0
  <2>1. ASSUME NEW j \in 1 .. next, j # next PROVE base[j] >= 0
    <3>1. j + 1 \in 2 .. next /\ j + 1 \in 1 .. next /\ (j + 1) - 1 = j
      BY <1>4, <2>1
    <3>2. base[j] = base[j + 1] % B(j + 1)
      BY <1>10, <3>1
    <3>3. base[j + 1] % B(j + 1) \in 0 .. B(j + 1) - 1 /\ B(j + 1) \in Int
      BY <1>5, <1>9, <3>1 DEF B
    <3> QED
      BY <3>2, <3>3
  <2> QED
    BY <1>8, <2>1
<1>12. \A j \in 1 .. next : d(j) >= 0
  <2> SUFFICES ASSUME NEW j \in 1 .. next PROVE d(j) >= 0
    OBVIOUS
  <2>1. base[j] \in Int /\ base[j] >= 0 /\ B(j) \in Int /\ B(j) > 0
    BY <1>5, <1>9, <1>11 DEF B
  <2> QED
    BY <2>1, QuotientIsNat DEF d
<1>13. base[1] % B(1) = 0
  <2>1. 1 \in 1 .. next /\ 1 - 1 = 0
    BY <1>4
  <2>2. B(1) = 1 \/ base[1] % B(1) = 0
    <3>1. CASE is_value(a(order[1]), 1) \/ is_value(a(order[1]), -1)
      BY <3>1 DEF is_value, Int2Expr, B, Coef, Abs
    <3>2. CASE ~is_value(a(order[1]), 1) /\ ~is_value(a(order[1]), -1)
      <4>1. base[0] = 0
        BY <1>2, <3>2 DEF Stride, base
      <4> QED
        BY <1>6, <2>1, <3>2, <4>1
    <3> QED
      BY <3>1, <3>2
  <2>3. base[1] % B(1) \in 0 .. B(1) - 1
    BY <1>9, <2>1
  <2> QED
    BY <2>2, <2>3
<1> DEFINE r(j) == IF j = 1 THEN 0 ELSE base[j - 1]
           c == [j \in 0 .. next |-> IF j = 0 THEN 0 ELSE Signed(base[j], Coef(1, env))]
<1>14. /\ c \in [0 .. next -> Int] /\ c[0] = 0
       /\ \A j \in 1 .. next : c[j] = Signed(base[j], Coef(1, env)) /\ j \in 0 .. next
  <2>1. \A j \in 1 .. next : Signed(base[j], Coef(1, env)) \in Int
    BY <1>9 DEF Signed
  <2> QED
    BY <1>4, <2>1
<1> HIDE DEF c
<1>15. \A j \in 1 .. next : c[j] = Coef(j, env) * Gap(j, env, pt) + c[j - 1]
  <2> SUFFICES ASSUME NEW j \in 1 .. next
               PROVE  c[j] = Coef(j, env) * Gap(j, env, pt) + c[j - 1]
    OBVIOUS
  <2>1. Gap(j, env, pt) = d(j)
    <3>1. xmins[order[j]][env] \in Int /\ d(j) \in Int
      BY <1>1, <1>9 DEF Ended, Expr
    <3> QED
      BY <1>7, <3>1 DEF Gap
  <2>2. r(j) = base[j] % B(j) /\ r(j) \in Int
    <3>1. CASE j = 1
      BY <1>13, <3>1
    <3>2. CASE j # 1
      <4>1. j \in 2 .. next
        BY <1>4, <3>2
      <4> QED
        BY <1>9, <1>10, <3>2, <4>1
    <3> QED
      BY <3>1, <3>2
  <2>3. c[j - 1] = Signed(r(j), Coef(1, env))
    <3>1. CASE j = 1
      BY <1>5, <1>14, <3>1 DEF Signed
    <3>2. CASE j # 1
      <4>1. j - 1 \in 1 .. next
        BY <1>4, <3>2
      <4> QED
        BY <1>14, <3>2, <4>1
    <3> QED
      BY <3>1, <3>2
  <2> HIDE DEF r
  <2> DEFINE A == Coef(j, env)
             A1 == Coef(1, env)
             y == d(j)
             z == r(j)
  <2>4. /\ A \in Int /\ A1 \in Int /\ A # 0 /\ A1 # 0 /\ (A > 0 <=> A1 > 0)
        /\ y \in Int /\ z \in Int /\ base[j] = Abs(A) * y + z
    BY <1>5, <1>9, <2>2 DEF B
  <2> HIDE DEF A, A1, y, z
  <2>5. Signed(Abs(A) * y + z, A1) = A * y + Signed(z, A1)
    <3>1. CASE A > 0
      BY <2>4, <3>1 DEF Abs, Signed
    <3>2. CASE ~(A > 0)
      <4>1. (-A) * y = -(A * y) /\ A * y \in Int
        BY <2>4
      <4>2. Abs(A) = -A /\ ~(A1 > 0)
        BY <2>4, <3>2 DEF Abs
      <4> QED
        BY <2>4, <4>1, <4>2 DEF Signed
    <3> QED
      BY <3>1, <3>2
  <2> QED
    BY <1>14, <2>1, <2>3, <2>4, <2>5 DEF A, A1, y, z
<1>16. Index(env, pt) = i
  <2>1. Index(env, pt) = offset(env) + c[next]
    BY <1>1, <1>7, <1>14, <1>15, IndexIsSum
  <2>2. c[next] = Signed(Signed(i - offset(env), Coef(1, env)), Coef(1, env))
    BY <1>4, <1>8, <1>14
  <2>3. c[next] = i - offset(env)
    BY <1>2, <1>3, <2>2 DEF Signed
  <2> QED
    BY <1>2, <1>3, <2>1, <2>3
<1>17. ASSUME NEW j \in 1 .. next, NEW low \in Lower(problem, order[j]),
              NEW up \in Upper(problem, order[j]), xmins[order[j]] = BoundValue(low),
              base[j] < B(j) * Extent(up, low, env)
       PROVE  pt[order[j]] < BoundValue(up)[env]
  <2>1. BoundValue(low)[env] \in Int /\ BoundValue(up)[env] \in Int
    <3>1. BoundValue(low) \in Expr /\ BoundValue(up) \in Expr
      BY <1>1, ProblemsAssumption, BoundTyped DEF Ended
    <3> QED
      BY <3>1 DEF Expr
  <2> DEFINE w == Extent(up, low, env)
  <2>2. w \in Int /\ w = BoundValue(up)[env] - BoundValue(low)[env]
    BY <2>1 DEF Extent
  <2> HIDE DEF w
  <2>3. B(j) \in Int /\ B(j) > 0 /\ d(j) \in Int /\ B(j) * d(j) <= base[j]
    <3>1. B(j) \in Int /\ B(j) > 0 /\ d(j) \in Int
      BY <1>5, <1>9 DEF B
    <3>2. /\ base[j] % B(j) \in 0 .. B(j) - 1
          /\ base[j] = B(j) * d(j) + (base[j] % B(j))
      BY <1>9
    <3>3. B(j) * d(j) \in Int
      BY <3>1
    <3> QED
      BY <3>1, <3>2, <3>3
  <2>4. B(j) * d(j) < B(j) * w
    <3>1. B(j) * d(j) \in Int /\ B(j) * w \in Int /\ base[j] \in Int
      BY <1>9, <2>2, <2>3
    <3> QED
      BY <1>17, <2>3, <3>1 DEF w
  <2>5. d(j) < w
    BY <2>2, <2>3, <2>4, LessByProduct
  <2> QED
    BY <1>7, <1>17, <2>1, <2>2, <2>3, <2>5
<1>18. ASSUME NEW j \in 1 .. next, NEW up \in Upper(problem, order[j])
       PROVE  pt[order[j]] < BoundValue(up)[env]
  <2>1. order[j] \in Bindings(problem)
    BY <1>1 DEF Ended
  <2>2. CASE up \in remainingUpper[order[j]]
    BY <1>2, <2>1, <2>2 DEF RemainingHold
  <2>3. CASE up \notin remainingUpper[order[j]] /\ j = next
    <3>1. xPrev = order[j] /\ up = LastUpper /\ LastLower \in Lower(problem, order[j])
          /\ xmins[order[j]] = BoundValue(LastLower)
      BY <1>8, <2>3 DEF LastSettled, xPrev
    <3>2. base[j] < B(j) * Extent(up, LastLower, env)
      BY <1>8, <2>3, <3>1
    <3> QED
      BY <1>17, <3>1, <3>2
  <2>4. CASE up \notin remainingUpper[order[j]] /\ j # next
    <3>1. j \in 1 .. next - 1 /\ j + 1 \in 2 .. next /\ j + 1 \in 1 .. next /\ (j + 1) - 1 = j
      BY <1>4, <2>4
    <3>2. Settled(j)
      BY <1>1, <3>1 DEF BoundsInv
    <3>3. PICK low \in Lower(problem, order[j]) :
            /\ xmins[order[j]] = BoundValue(low)
            /\ Coef(j + 1, env) = Coef(j, env) * Extent(up, low, env)
      BY <2>4, <3>2 DEF Settled
    <3>4. base[j] < B(j + 1)
      <4>1. base[j] = base[j + 1] % B(j + 1)
        BY <1>10, <3>1
      <4>2. base[j + 1] % B(j + 1) \in 0 .. B(j + 1) - 1 /\ B(j + 1) \in Int
        BY <1>5, <1>9, <3>1 DEF B
      <4> QED
        BY <4>1, <4>2
    <3>5. Extent(up, low, env) \in Int
      <4>1. BoundValue(low) \in Expr /\ BoundValue(up) \in Expr
        BY <1>1, <2>1, ProblemsAssumption, BoundTyped
      <4> QED
        BY <4>1 DEF Expr, Extent
    <3>6. B(j + 1) = B(j) * Extent(up, low, env)
      <4> DEFINE A == Coef(j, env)
                 A2 == Coef(j + 1, env)
                 w == Extent(up, low, env)
      <4>1. /\ A \in Int /\ A # 0 /\ A2 \in Int /\ A2 # 0 /\ w \in Int
            /\ A > 0 <=> A2 > 0
            /\ A2 = A * w
        BY <1>5, <3>1, <3>3, <3>5
      <4> HIDE DEF A, A2, w
      <4>2. Abs(A2) = Abs(A) * w
        <5>1. (-A) * w = -(A * w)
          BY <4>1
        <5> QED
          BY <4>1, <5>1 DEF Abs
      <4> QED
        BY <4>2 DEF A, A2, w, B
    <3>7. base[j] < B(j) * Extent(up, low, env)
      BY <3>4, <3>6
    <3> QED
      BY <1>17, <3>3, <3>7
  <2> QED
    BY <2>2, <2>3, <2>4
<1>19. ASSUME NEW j \in 1 .. next, NEW low \in Lower(problem, order[j])
       PROVE  BoundValue(low)[env] <= pt[order[j]]
  <2>1. PICK min : Minimum(j, min)
    BY <1>1
  <2>2. order[j] \in Bindings(problem)
    BY <1>1 DEF Ended
  <2>3. CASE low = min
    <3>1. BoundValue(low)[env] \in Int /\ xmins[order[j]][env] = BoundValue(low)[env]
      BY <1>1, <2>1, <2>2, <2>3 DEF Ended, Expr, Minimum
    <3> QED
      BY <1>7, <1>9, <1>12, <3>1
  <2>4. CASE low # min
    <3>1. low \in remainingLower[order[j]]
      BY <2>1, <2>4 DEF Minimum
    <3> QED
      BY <1>2, <2>2, <3>1 DEF RemainingHold
  <2> QED
    BY <2>3, <2>4
<1>20. Within(problem, env, pt)
  BY <1>1, <1>18, <1>19 DEF Within, Ended
<1>21. pt \in Domain(env)
  BY <1>1, <1>2, <1>7, <1>20 DEF Domain, Domains, Unbounded
<1> QED
  BY <1>2, <1>16, <1>21

-----------------------------------------------------------------------------
(* One binding: division without remainder.                                *)
LEMMA EuclideanExact ==
  ASSUME NEW A \in Int, A # 0, NEW y \in Int
  PROVE  EuclideanDiv(A * y, A) = y /\ EuclideanMod(A * y, A) = 0
<1>1. CASE A > 0
  <2>1. 0 \in 0 .. A - 1 /\ A * y + 0 = A * y
    BY <1>1
  <2>2. (A * y + 0) \div A = y /\ (A * y + 0) % A = 0
    BY <1>1, <2>1, DivModIs
  <2> QED
    BY <1>1, <2>1, <2>2 DEF EuclideanDiv, EuclideanMod, Abs
<1>2. CASE A < 0
  <2> DEFINE m == -A
             z == -y
  <2>1. m \in Int /\ m > 0 /\ z \in Int /\ 0 \in 0 .. m - 1 /\ m * z + 0 = A * y
    BY <1>2
  <2>2. Abs(A) = m /\ ~(A > 0)
    BY <1>2 DEF Abs
  <2>3. (m * z + 0) \div m = z /\ (m * z + 0) % m = 0
    <3> HIDE DEF m, z
    <3> QED
      BY <2>1, DivModIs
  <2>4. (A * y) \div m = z /\ (A * y) % m = 0
    <3> HIDE DEF m, z
    <3> QED
      BY <2>1, <2>3
  <2>5. -z = y
    OBVIOUS
  <2>6. EuclideanDiv(A * y, A) = -((A * y) \div m) /\ EuclideanMod(A * y, A) = (A * y) % m
    BY <2>2 DEF EuclideanDiv, EuclideanMod
  <2> HIDE DEF m, z
  <2> QED
    BY <2>4, <2>5, <2>6
<1> QED
  BY <1>1, <1>2

(* A remainder of 0 leaves a multiple.                                     *)
LEMMA EuclideanBack ==
  ASSUME NEW A \in Int, A # 0, NEW i \in Int, EuclideanMod(i, A) = 0
  PROVE  EuclideanDiv(i, A) \in Int /\ A * EuclideanDiv(i, A) = i
<1> DEFINE m == Abs(A)
           z == i \div m
<1>1. m \in Int /\ m > 0
  BY DEF Abs
<1>2. z \in Int /\ i = m * z
  <2>1. z \in Int /\ i = m * z + (i % m)
    BY <1>1, DivMod
  <2>2. i % m = 0
    BY DEF EuclideanMod
  <2> HIDE DEF m, z
  <2> QED
    BY <1>1, <2>1, <2>2
<1>3. CASE A > 0
  <2>1. m = A /\ EuclideanDiv(i, A) = z
    BY <1>3 DEF Abs, EuclideanDiv
  <2> HIDE DEF m, z
  <2> QED
    BY <1>2, <2>1
<1>4. CASE ~(A > 0)
  <2>1. m = -A /\ EuclideanDiv(i, A) = -z
    BY <1>4 DEF Abs, EuclideanDiv
  <2> HIDE DEF m, z
  <2>2. A * (-z) = (-A) * z
    BY <1>2
  <2> QED
    BY <1>2, <2>1, <2>2
<1> QED
  BY <1>3, <1>4

(* The quantifier that rewriteSingleVar makes.                             *)
LEMMA SingleIs ==
  ASSUME Unbounded, ExactInv, stage = "single", NEW env \in Env
  PROVE  \E v :
           /\ Bindings(problem) = {v}
           /\ a(v)[env] \in Int /\ a(v)[env] # 0 /\ constantExpression[env] \in Int
           /\ \A i : NewPoint(env, i)
                       = [w \in {v} |-> EuclideanDiv(i - constantExpression[env], a(v)[env])]
           /\ \A i : NewBounds(env, i) <=>
                       EuclideanMod(i - constantExpression[env], a(v)[env]) = 0
           /\ \A pt \in [{v} -> Int] :
                /\ Index(env, pt) = constantExpression[env] + a(v)[env] * pt[v]
                /\ RemainingHold(env, pt) <=> Within(problem, env, pt)
<1>1. VisitInv /\ LinearInv /\ SingleInv
  BY DEF ExactInv, IInv
<1>2. PICK v \in Bindings(problem) :
        /\ Bindings(problem) = {v} /\ order = <<v>>
        /\ DOMAIN linearExpressions = {v} /\ isNonZero(a(v))
        /\ remainingLower = [w \in {v} |-> Lower(problem, w)]
        /\ remainingUpper = [w \in {v} |-> Upper(problem, w)]
  BY <1>1 DEF SingleInv
<1> DEFINE A == a(v)[env]
           b == constantExpression[env]
<1>3. A \in Int /\ A # 0 /\ b \in Int
  BY <1>1, <1>2 DEF VisitInv, LinearInv, Expr, isNonZero
<1>4. \A i : NewPoint(env, i) = [w \in {v} |-> EuclideanDiv(i - b, A)]
  BY <1>2 DEF NewPoint, singleBase
<1>5. \A i : NewBounds(env, i) <=> EuclideanMod(i - b, A) = 0
  BY <1>2 DEF NewBounds, singleBase
<1>6. ASSUME NEW pt \in [{v} -> Int]
      PROVE  /\ Index(env, pt) = b + A * pt[v]
             /\ RemainingHold(env, pt) <=> Within(problem, env, pt)
  <2> DEFINE f == [w \in {v} |-> a(w)[env] * pt[w]]
             D == {v}
  <2>1. Index(env, pt) = b + Sums(f)[D]
    BY <1>2 DEF Index, WeightedSum
  <2>2. f \in IntFun(D) /\ f[v] = A * pt[v] /\ A * pt[v] \in Int
    BY <1>3 DEF IntFun
  <2>3. IsFiniteSet(D) /\ D \in SUBSET D /\ v \in D /\ D \ {v} = {}
    BY FS_Singleton
  <2> HIDE DEF f, D
  <2>4. Sums(f)[{}] = 0 /\ Sums(f)[D] = f[v] + Sums(f)[D \ {v}]
    BY <2>2, <2>3, SumsAdd
  <2>5. Sums(f)[D] = A * pt[v]
    <3>1. Sums(f)[D] = f[v] + 0
      BY <2>3, <2>4
    <3> HIDE DEF A
    <3> QED
      BY <2>2, <3>1
  <2>6. RemainingHold(env, pt) <=> Within(problem, env, pt)
    BY <1>2 DEF RemainingHold, Within
  <2> QED
    BY <2>1, <2>5, <2>6
<1> QED
  BY <1>2, <1>3, <1>4, <1>5, <1>6

(* One binding: the index of a point of the old domain gives the point     *)
(* back.                                                                   *)
LEMMA SingleForth ==
  ASSUME Unbounded, ExactInv, stage = "single", NEW env \in Env, NEW pt \in Domain(env)
  PROVE  /\ Index(env, pt) \in NewDomain(env)
         /\ NewPoint(env, Index(env, pt)) = pt
<1>1. PICK v :
        /\ Bindings(problem) = {v}
        /\ a(v)[env] \in Int /\ a(v)[env] # 0 /\ constantExpression[env] \in Int
        /\ \A i : NewPoint(env, i)
                    = [w \in {v} |-> EuclideanDiv(i - constantExpression[env], a(v)[env])]
        /\ \A i : NewBounds(env, i) <=>
                    EuclideanMod(i - constantExpression[env], a(v)[env]) = 0
        /\ \A q \in [{v} -> Int] :
             /\ Index(env, q) = constantExpression[env] + a(v)[env] * q[v]
             /\ RemainingHold(env, q) <=> Within(problem, env, q)
  BY SingleIs
<1>2. problem \in Problems
  BY DEF ExactInv, IInv, VisitInv
<1>3. /\ pt \in [{v} -> Int] /\ Within(problem, env, pt) /\ CondsHold(problem, env, pt)
  BY <1>1, <1>2 DEF Domain, Domains, Unbounded
<1> DEFINE i == Index(env, pt)
           A == a(v)[env]
           b == constantExpression[env]
<1>4. /\ A \in Int /\ A # 0 /\ b \in Int /\ pt[v] \in Int
      /\ i = b + A * pt[v] /\ A * pt[v] \in Int
      /\ NewPoint(env, i) = [w \in {v} |-> EuclideanDiv(i - b, A)]
      /\ NewBounds(env, i) <=> EuclideanMod(i - b, A) = 0
  <2>1. A \in Int /\ A # 0 /\ b \in Int /\ pt[v] \in Int
    BY <1>1, <1>3
  <2>2. i = b + A * pt[v]
    BY <1>1, <1>3
  <2>3. /\ NewPoint(env, i) = [w \in {v} |-> EuclideanDiv(i - b, A)]
        /\ NewBounds(env, i) <=> EuclideanMod(i - b, A) = 0
    BY <1>1
  <2> HIDE DEF A, b, i
  <2>4. A * pt[v] \in Int
    BY <2>1
  <2> QED
    BY <2>1, <2>2, <2>3, <2>4
<1>5. RemainingHold(env, pt)
  BY <1>1, <1>3
<1> HIDE DEF i, A, b
<1>6. i - b = A * pt[v] /\ i \in Int
  BY <1>4
<1>7. EuclideanDiv(i - b, A) = pt[v] /\ EuclideanMod(i - b, A) = 0
  BY <1>4, <1>6, EuclideanExact
<1>8. NewPoint(env, i) = pt
  <2>1. NewPoint(env, i) = [w \in {v} |-> pt[v]]
    BY <1>4, <1>7
  <2> QED
    BY <1>3, <2>1
<1> QED
  BY <1>3, <1>4, <1>5, <1>6, <1>7, <1>8 DEF NewDomain, Unbounded, i

(* One binding: an index of the new domain is that of a point of the old   *)
(* one.                                                                    *)
LEMMA SingleBack ==
  ASSUME Unbounded, ExactInv, stage = "single", NEW env \in Env, NEW i \in NewDomain(env)
  PROVE  /\ NewPoint(env, i) \in Domain(env)
         /\ Index(env, NewPoint(env, i)) = i
<1>1. PICK v :
        /\ Bindings(problem) = {v}
        /\ a(v)[env] \in Int /\ a(v)[env] # 0 /\ constantExpression[env] \in Int
        /\ \A j : NewPoint(env, j)
                    = [w \in {v} |-> EuclideanDiv(j - constantExpression[env], a(v)[env])]
        /\ \A j : NewBounds(env, j) <=>
                    EuclideanMod(j - constantExpression[env], a(v)[env]) = 0
        /\ \A q \in [{v} -> Int] :
             /\ Index(env, q) = constantExpression[env] + a(v)[env] * q[v]
             /\ RemainingHold(env, q) <=> Within(problem, env, q)
  BY SingleIs
<1>2. problem \in Problems
  BY DEF ExactInv, IInv, VisitInv
<1> DEFINE pt == NewPoint(env, i)
           A == a(v)[env]
           b == constantExpression[env]
<1>3. i \in Int /\ NewBounds(env, i) /\ RemainingHold(env, pt) /\ CondsHold(problem, env, pt)
  BY DEF NewDomain, Unbounded
<1>4. /\ A \in Int /\ A # 0 /\ b \in Int
      /\ pt = [w \in {v} |-> EuclideanDiv(i - b, A)] /\ EuclideanMod(i - b, A) = 0
  BY <1>1, <1>3
<1>5. i - b \in Int
  BY <1>3, <1>4
<1>6. EuclideanDiv(i - b, A) \in Int /\ A * EuclideanDiv(i - b, A) = i - b
  <2> HIDE DEF A, b
  <2> QED
    BY <1>4, <1>5, EuclideanBack
<1>7. pt \in [{v} -> Int] /\ pt[v] = EuclideanDiv(i - b, A)
  BY <1>4, <1>6
<1>8. Index(env, pt) = b + A * pt[v] /\ Within(problem, env, pt)
  BY <1>1, <1>3, <1>7
<1>9. Index(env, pt) = i
  <2> HIDE DEF pt, A, b
  <2> QED
    BY <1>3, <1>4, <1>6, <1>7, <1>8
<1>10. pt \in Domain(env)
  BY <1>1, <1>2, <1>3, <1>7, <1>8 DEF Domain, Domains, Unbounded
<1> QED
  BY <1>9, <1>10

-----------------------------------------------------------------------------
(* The quantifier that is rewritten is not empty, whatever the environment.*)
NeverEmpty == \A env \in Env : Domain(env) # {}

(* One environment: what the access denotes is the index.                  *)
LEMMA ExactThere ==
  ASSUME ExactDifferences, Unbounded, ExactInv, stage \in {"single", "done"}, OnlyFirstIsUnit,
         NEW env \in Env, stage = "done" => Domain(env) # {}
  PROVE  ExactIn(env)
<1>1. ASSUME NEW pt \in Domain(env)
      PROVE  /\ Index(env, pt) \in NewDomain(env) /\ NewPoint(env, Index(env, pt)) = pt
             /\ NodeValue(problem.pattern, env, pt) = Index(env, pt)
  <2>1. Index(env, pt) \in NewDomain(env) /\ NewPoint(env, Index(env, pt)) = pt
    BY Forth, SingleForth
  <2>2. problem \in Problems /\ LinearInv /\ todo = <<>> /\ isLinear
    BY DEF ExactInv, LinearInv, VisitInv
  <2>3. pt \in Points
    BY <2>2 DEF Domain, Domains, Points
  <2> QED
    BY <2>1, <2>2, <2>3, PatternIsIndex
<1>2. ASSUME NEW i \in NewDomain(env)
      PROVE  NewPoint(env, i) \in Domain(env) /\ Index(env, NewPoint(env, i)) = i
  BY Back, SingleBack
<1> QED
  BY <1>1, <1>2 DEF ExactIn

(* In an environment where the old quantifier is not empty, the new one    *)
(* makes the same accesses for the same values of the old bindings, for    *)
(* every pattern and whatever the checks have found: if only the first of  *)
(* the coefficients is a literal 1.                                        *)
THEOREM ExactWhereNotEmpty ==
  ExactDifferences /\ Unbounded =>
    (Spec => [](stage \in {"single", "done"} /\ OnlyFirstIsUnit =>
                  \A env \in Env : Domain(env) # {} => ExactIn(env)))
<1> SUFFICES ASSUME ExactDifferences, Unbounded
             PROVE  Spec => [](stage \in {"single", "done"} /\ OnlyFirstIsUnit =>
                                 \A env \in Env : Domain(env) # {} => ExactIn(env))
  OBVIOUS
<1>1. ExactInv /\ [Next]_vars => ExactInv'
  BY ExactInductive
<1>2. ExactInv => (stage \in {"single", "done"} /\ OnlyFirstIsUnit =>
                     \A env \in Env : Domain(env) # {} => ExactIn(env))
  BY ExactThere
<1> QED
  BY ExactInitially, <1>1, <1>2, PTL DEF Spec

(* The accesses that are made of a pattern are those of the pattern, each  *)
(* for one value of the bindings (rewriteSingleVar, check_vars_list). With *)
(* one binding nothing is asked of the quantifier, with several that it is *)
(* not empty and that only the first coefficient is a literal 1.           *)
THEOREM RewritesExactly ==
  ExactDifferences /\ Unbounded =>
    (Spec => []((stage = "done" => OnlyFirstIsUnit /\ NeverEmpty) => RewriteIsExact))
<1> SUFFICES ASSUME ExactDifferences, Unbounded
             PROVE  Spec => []((stage = "done" => OnlyFirstIsUnit /\ NeverEmpty) => RewriteIsExact)
  OBVIOUS
<1>1. ExactInv /\ [Next]_vars => ExactInv'
  BY ExactInductive
<1>2. ExactInv => ((stage = "done" => OnlyFirstIsUnit /\ NeverEmpty) => RewriteIsExact)
  <2> SUFFICES ASSUME ExactInv, stage = "done" => OnlyFirstIsUnit /\ NeverEmpty,
                      stage \in {"single", "done"}, NEW env \in Env
               PROVE  ExactIn(env)
    BY DEF RewriteIsExact
  <2>1. CASE stage = "done"
    BY <2>1, ExactThere DEF NeverEmpty
  <2>2. CASE stage = "single"
    <3>1. OnlyFirstIsUnit
      <4>1. PICK v : order = <<v>>
        BY <2>2 DEF ExactInv, SingleInv
      <4>2. Len(order) = 1
        BY <4>1
      <4> QED
        BY <4>2 DEF OnlyFirstIsUnit
    <3> QED
      BY <2>2, <3>1, ExactThere
  <2> QED
    BY <2>1, <2>2
<1> QED
  BY ExactInitially, <1>1, <1>2, PTL DEF Spec
=============================================================================
