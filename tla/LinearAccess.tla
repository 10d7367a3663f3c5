---------------------------- MODULE LinearAccess ----------------------------
(***************************************************************************)
(* FindLinearArrayAccesses of SimplifyNestedQuantifiers: a quantifier over *)
(* x_0, ..., x_k with an access a[b + a_0*x_0 + ... + a_k*x_k] becomes one *)
(* over the index itself, and each x_i the quotient of a remainder.        *)
(*                                                                         *)
(* The coefficients come from LinearExpressions.  For each binding but the *)
(* last, findSuitableBound looks for a lower bound and a reason why the    *)
(* bindings so far stay below the next coefficient; the equality checker   *)
(* and the SMT solver it asks may fail to prove what holds, and prove only *)
(* what holds.                                                             *)
(***************************************************************************)
EXTENDS LinearExpressions

CONSTANTS
  Values,     \* bound: the integers a binding ranges over
  Indices,    \* bound: the indices that the new binding ranges over
  NodeValue(_, _, _)  \* what an expression denotes, by environment and point

ASSUME ValuesAssumption == Values \subseteq Int
ASSUME IndicesAssumption == Indices \subseteq Int

VARIABLES
  stage,
  order,            \* the permutation of the bindings that is tried
  next,             \* findSuitableBound is about order[next], for order[next + 1]
  sign,             \* of a_0, as far as getSign knows
  xmins,            \* the lower bound chosen for each binding
  remainingLower,   \* bounds that the new quantifier must still state
  remainingUpper,
  otherNeeded,      \* expressions that must be positive
  linLast           \* a_0*(x_0 - xmin_0) + ..., for the points of the old domain

accessVars == <<stage, order, next, sign, xmins, remainingLower, remainingUpper,
                otherNeeded, linLast>>
vars == <<problem, linearVars, accessVars>>

-----------------------------------------------------------------------------
(* A bound is a constant plus nothing, a symbol or a product of two.       *)
Bound(factors, plus) == [factors |-> factors, plus |-> plus]
Product(factors) ==
  CASE Len(factors) = 0 -> Int2Expr(0)
    [] Len(factors) = 1 -> factors[1]
    [] Len(factors) = 2 -> Times(factors[1], factors[2])
BoundValue(bound) == Add(Product(bound.factors), Int2Expr(bound.plus))

(* simplifiedMinus: equal parts cancel, and a factor that both products    *)
(* have is taken out, of the constant that is left as well.                *)
CommonFactors(f, g) ==
  {p \in {1, 2} \X {1, 2} : Len(f) = 2 /\ Len(g) = 2 /\ f[p[1]] = g[p[2]]}

simplifiedMinus(up, low) ==
  LET f == up.factors
      g == low.factors
      plus == up.plus - low.plus
  IN IF Product(f) = Product(g) \/ CommonFactors(f, g) = {}
       THEN Add(Sub(Product(f), Product(g)), Int2Expr(plus))
       ELSE LET p == CHOOSE p \in CommonFactors(f, g) : TRUE
            IN Times(f[p[1]], Add(Sub(f[3 - p[1]], g[3 - p[2]]), Int2Expr(plus)))

-----------------------------------------------------------------------------
(* problem.lower and problem.upper are the lower and the exclusive upper   *)
(* bounds, problem.conditions the dependent conditions, each of which is   *)
(* a sum of multiples of bindings that is less than an expression.         *)
Bindings(p) == DOMAIN p.lower
Lower(p, v) == {p.lower[v][i] : i \in DOMAIN p.lower[v]}
Upper(p, v) == {p.upper[v][i] : i \in DOMAIN p.upper[v]}

Sums(f) ==
  LET sum[s \in SUBSET DOMAIN f] ==
        IF s = {} THEN 0
        ELSE LET v == CHOOSE v \in s : TRUE IN f[v] + sum[s \ {v}]
  IN sum
WeightedSum(weights, pt) ==
  Sums([v \in DOMAIN weights |-> weights[v] * pt[v]])[DOMAIN weights]

CondHolds(cond, env, pt) == WeightedSum(cond.weights, pt) < cond.below[env]

Within(p, env, pt) ==
  \A v \in Bindings(p) :
    /\ \A low \in Lower(p, v) : BoundValue(low)[env] <= pt[v]
    /\ \A up \in Upper(p, v) : pt[v] < BoundValue(up)[env]
CondsHold(p, env, pt) == \A cond \in p.conditions : CondHolds(cond, env, pt)

(* The points the old quantifier speaks about.                             *)
Domains ==
  [p \in Problems |-> [env \in Env |->
     {pt \in [Bindings(p) -> Values] : Within(p, env, pt) /\ CondsHold(p, env, pt)}]]
Domain(env) == Domains[problem][env]

a(v) == linearExpressions[v]
Index(env, pt) ==
  constantExpression[env]
    + WeightedSum([v \in DOMAIN linearExpressions |-> a(v)[env]], pt)

-----------------------------------------------------------------------------
Init ==
  /\ InitLinear
  /\ stage = "visit"
  /\ order = <<>> /\ next = 1 /\ sign = "none"
  /\ xmins = <<>>
  /\ remainingLower = <<>> /\ remainingUpper = <<>>
  /\ otherNeeded = {}
  /\ linLast = [env \in Env |-> [pt \in Domain(env) |-> 0]]

PotentialLinearExpressions ==
  stage = "visit" /\ todo # <<>> /\ visit /\ UNCHANGED accessVars

(* getSign, isNonZero, isSameSign: in every environment, or not known.     *)
Signs(e) ==
  {"none"} \cup (IF \A env \in Env : e[env] >= 0 THEN {"pos"} ELSE {})
           \cup (IF \A env \in Env : e[env] < 0 THEN {"neg"} ELSE {})
isNonZero(e) == \A env \in Env : e[env] # 0
isSameSign(e1, e2) == \A env \in Env : e1[env] * e2[env] >= 0
IsPositive(e) == \A env \in Env : e[env] > 0

Orders(names) ==
  {s \in [1 .. Cardinality(names) -> names] : \A v \in names : \E i \in DOMAIN s : s[i] = v}

(* One binding: a multiple of a_0 is divided by it, and all bounds stay.   *)
rewriteSingleVar ==
  /\ stage = "visit" /\ todo = <<>> /\ isLinear
  /\ Cardinality(Bindings(problem)) = 1
  /\ \E v \in Bindings(problem) \cap DOMAIN linearExpressions :
       /\ isNonZero(a(v))
       /\ order' = <<v>>
  /\ remainingLower' = [v \in Bindings(problem) |-> Lower(problem, v)]
  /\ remainingUpper' = [v \in Bindings(problem) |-> Upper(problem, v)]
  /\ stage' = "single"
  /\ UNCHANGED <<problem, linearVars, next, sign, xmins, otherNeeded, linLast>>

(* canRewrite and the start of check_vars_list, for one permutation.       *)
ChooseOrder ==
  /\ stage = "visit" /\ todo = <<>> /\ isLinear
  /\ Cardinality(Bindings(problem)) > 1
  /\ \A v \in Bindings(problem) : v \in DOMAIN linearExpressions /\ Lower(problem, v) # {}
  /\ \E s \in Orders(Bindings(problem)) :
       /\ isNonZero(a(s[1]))
       /\ sign' \in Signs(a(s[1]))
       /\ order' = s
  /\ remainingLower' = [v \in Bindings(problem) |-> Lower(problem, v)]
  /\ remainingUpper' = [v \in Bindings(problem) |-> Upper(problem, v)]
  /\ stage' = "bounds"
  /\ UNCHANGED <<problem, linearVars, next, xmins, otherNeeded, linLast>>

-----------------------------------------------------------------------------
xPrev == order[next]
x == order[next + 1]

(* The constraints imply it: it holds for every point of the old domain.   *)
Proves(holds) == \A env \in Env : \A pt \in Domain(env) : holds[env][pt]

LinAfter(low) ==
  [env \in Env |-> [pt \in Domain(env) |->
     a(xPrev)[env] * (pt[xPrev] - BoundValue(low)[env]) + linLast[env][pt]]]

WithMin(low) == With(xmins, xPrev, BoundValue(low))

Found(low, droppedUpper, needed) ==
  /\ xmins' = WithMin(low)
  /\ remainingLower' = [remainingLower EXCEPT ![xPrev] = @ \ {low}]
  /\ remainingUpper' = [remainingUpper EXCEPT ![xPrev] = @ \ droppedUpper]
  /\ otherNeeded' = otherNeeded \cup {n \in needed : ~IsPositive(n)}
  /\ linLast' = LinAfter(low)
  /\ next' = next + 1
  /\ UNCHANGED <<problem, linearVars, stage, order, sign>>

Searching == stage = "bounds" /\ next < Len(order)

(* Check 1: a_i = a_{i-1} * n_{i-1}.                                       *)
ExactlyFits(n) ==
  Proves([env \in Env |-> [pt \in Domain(env) |-> a(x)[env] = a(xPrev)[env] * n[env]]])

FoundExact ==
  /\ Searching
  /\ \E low \in Lower(problem, xPrev), up \in Upper(problem, xPrev) :
       LET n == simplifiedMinus(up, low) IN
         ExactlyFits(n) /\ Found(low, {up}, {n})

(* Check 2: |a_{i-1}| * n_{i-1} <= |a_i|.  The upper bound stays.          *)
FoundCut ==
  /\ Searching
  /\ isSameSign(a(x), a(xPrev))
  /\ \E low \in Lower(problem, xPrev), up \in Upper(problem, xPrev) :
       LET n == simplifiedMinus(up, low) IN
         /\ Proves([env \in Env |-> [pt \in Domain(env) |->
              Abs(a(xPrev)[env]) * n[env] <= Abs(a(x)[env])]])
         /\ Found(low, {}, {n})

(* Check 3: the bindings so far are bounded by a condition.                *)
FoundConstrained ==
  /\ Searching
  /\ isSameSign(a(x), a(xPrev)) /\ sign # "none" /\ isNonZero(a(x))
  /\ \E low \in Lower(problem, xPrev) :
       /\ Proves([env \in Env |-> [pt \in Domain(env) |->
            IF sign = "pos" THEN LinAfter(low)[env][pt] < a(x)[env]
                            ELSE a(x)[env] < LinAfter(low)[env][pt]]])
       /\ Found(low, {}, {})

(* The last binding's bounds are the first ones of its lists.              *)
LastUpper == problem.upper[order[Len(order)]][1]
LastLower == problem.lower[order[Len(order)]][1]

SubstituteForall ==
  /\ stage = "bounds" /\ next = Len(order)
  /\ problem.upper[xPrev] # <<>>
  /\ xmins' = WithMin(LastLower)
  /\ remainingLower' = [remainingLower EXCEPT ![xPrev] = @ \ {LastLower}]
  /\ remainingUpper' = [remainingUpper EXCEPT ![xPrev] = @ \ {LastUpper}]
  /\ stage' = "done"
  /\ UNCHANGED <<problem, linearVars, order, next, sign, otherNeeded, linLast>>

(* A Left(reason): the next permutation is tried, or the trigger rejected. *)
Fails ==
  /\ stage \in {"visit", "bounds"} /\ todo = <<>>
  /\ stage' = "failed"
  /\ UNCHANGED <<problem, linearVars, order, next, sign, xmins, remainingLower,
                 remainingUpper, otherNeeded, linLast>>

Next ==
  \/ PotentialLinearExpressions
  \/ rewriteSingleVar \/ ChooseOrder
  \/ FoundExact \/ FoundCut \/ FoundConstrained
  \/ SubstituteForall \/ Fails

Spec == Init /\ [][Next]_vars

-----------------------------------------------------------------------------
(* The new quantifier.  Division and modulo are Euclidean, as in Viper.    *)
abs(i) ==
  CASE sign = "pos" -> i
    [] sign = "neg" -> -i
    [] sign = "none" -> Abs(i)
is_value(e, i) == e = Int2Expr(i)
EuclideanMod(i, m) == i % Abs(m)
EuclideanDiv(i, m) ==
  IF m > 0 THEN i \div m ELSE -(i \div (-m))

offset(env) == Index(env, [v \in Bindings(problem) |-> xmins[v][env]])

(* 0 <= x_new - offset < a_k * n_k, or the mirror image.                   *)
InExtent(env, xNew) ==
  LET base == xNew - offset(env)
      extent == a(xPrev)[env] * simplifiedMinus(LastUpper, LastLower)[env]
      ifAPos == 0 <= base /\ base < extent
      ifANeg == extent < base /\ base <= 0
      a0 == a(order[1])[env]
  IN CASE sign = "pos" -> ifAPos
       [] sign = "neg" -> ifANeg
       [] sign = "none" -> (a0 > 0 => ifAPos) /\ (a0 < 0 => ifANeg)

(* base_i, of which the quotient by |a_i| gives x_i.                       *)
Remainder_Same(base, e, env) == base
Remainder(base, e, env) == IF is_value(e, 1) THEN base ELSE EuclideanMod(base, e[env])
Bases(env, xNew) ==
  LET base[i \in 0 .. Len(order)] ==
        IF i = Len(order) THEN abs(xNew - offset(env))
        ELSE Remainder(base[i + 1], a(order[i + 1]), env)
  IN base

replaceMap(env, xNew) ==
  LET base == Bases(env, xNew)
      position(v) == CHOOSE i \in DOMAIN order : order[i] = v
  IN [v \in Bindings(problem) |->
        EuclideanDiv(base[position(v)], abs(a(v)[env])) + xmins[v][env]]

Stride(env, xNew) ==
  \/ is_value(a(order[1]), 1)
  \/ is_value(a(order[1]), -1)
  \/ Bases(env, xNew)[0] = 0

RemainingHold(env, pt) ==
  \A v \in Bindings(problem) :
    /\ \A low \in remainingLower[v] : BoundValue(low)[env] <= pt[v]
    /\ \A up \in remainingUpper[v] : pt[v] < BoundValue(up)[env]

(* For one binding: (x_new - b) / a_0, with remainder 0.                   *)
singleBase(env, xNew) == xNew - constantExpression[env]
NewPoint(env, xNew) ==
  IF stage = "single"
    THEN [v \in Bindings(problem) |-> EuclideanDiv(singleBase(env, xNew), a(v)[env])]
    ELSE replaceMap(env, xNew)

NewBounds(env, xNew) ==
  IF stage = "single"
    THEN EuclideanMod(singleBase(env, xNew), a(order[1])[env]) = 0
    ELSE /\ \A n \in otherNeeded : n[env] > 0
         /\ InExtent(env, xNew)
         /\ Stride(env, xNew)

NewDomain(env) ==
  {xNew \in Indices :
     /\ NewBounds(env, xNew)
     /\ RemainingHold(env, NewPoint(env, xNew))
     /\ CondsHold(problem, env, NewPoint(env, xNew))}

-----------------------------------------------------------------------------
OptionalBounds == [Bindings(problem) -> SUBSET UNION
                     {Lower(problem, v) \cup Upper(problem, v) : v \in Bindings(problem)}]
TypeOK ==
  /\ problem \in Problems
  /\ DOMAIN linearExpressions \subseteq Bindings(problem)
  /\ \A v \in DOMAIN linearExpressions : a(v) \in Expr
  /\ constantExpression \in Expr /\ currentMultiplier \in Expr
  /\ isLinear \in BOOLEAN
  /\ stage \in {"visit", "bounds", "single", "done", "failed"}
  /\ order # <<>> => order \in Orders(Bindings(problem)) /\ next \in DOMAIN order
  /\ sign \in {"none", "pos", "neg"}
  /\ DOMAIN xmins \subseteq Bindings(problem)
  /\ stage = "done" => DOMAIN xmins = Bindings(problem)
  /\ order # <<>> => /\ remainingLower \in OptionalBounds
                     /\ remainingUpper \in OptionalBounds
  /\ otherNeeded \subseteq Expr
  /\ DOMAIN linLast = Env
  /\ \A env \in Env : linLast[env] \in [Domain(env) -> Int]

(* What the bindings so far add to the index stays below the next          *)
(* coefficient and has its sign: the new variable's remainder by that      *)
(* coefficient is theirs, whichever check found the bound.                 *)
Signed(i, m) == IF m > 0 THEN i ELSE -i
PrefixFits ==
  (stage = "bounds" /\ next > 1) =>
    \A env \in Env : \A pt \in Domain(env) :
      /\ a(xPrev)[env] # 0
      /\ Signed(linLast[env][pt], a(xPrev)[env]) \in 0 .. Abs(a(xPrev)[env]) - 1

(* Points of the old domain that the index so far does not tell apart      *)
(* agree on the bindings so far.                                           *)
PrefixDetermines ==
  (stage = "bounds" /\ next > 1) =>
    \A env \in Env : \A pt1, pt2 \in Domain(env) :
      linLast[env][pt1] = linLast[env][pt2] =>
        \A i \in 1 .. next - 1 : pt1[order[i]] = pt2[order[i]]

(* What the tasks still add to the index, as a function of the multiplier: *)
(* of those after the i-th for each i, so of all of them for 0.            *)
PendingBy(tasks, env, pt) ==
  LET pending[i \in 0 .. Len(tasks)] ==
        IF i = Len(tasks) THEN [m \in Int |-> 0]
        ELSE LET t == tasks[i + 1]
                 rest == pending[i + 1]
             IN [m \in Int |->
                   CASE t.task = "restore" -> rest[t.multiplier[env]]
                     [] t.task = "visit" -> rest[m] + m * NodeValue(t.node, env, pt)
                     [] t.task = "negate" -> rest[m] - m * NodeValue(t.node, env, pt)]
  IN pending
PendingValue(tasks, m, env, pt) == PendingBy(tasks, env, pt)[0][m[env]]

(* While the visit lasts, what has been collected and what is pending add  *)
(* up to the index, for every value of the bindings: a linear pattern and  *)
(* its coefficients are the same function when the visit ends.             *)
NothingLost ==
  isLinear =>
    \A env \in Env : \A pt \in [Bindings(problem) -> Values] :
      NodeValue(problem.pattern, env, pt)
        = Index(env, pt) + PendingValue(todo, currentMultiplier, env, pt)

(* Every access the old quantifier makes is made by the new one, with the  *)
(* same values of the old bindings, and no other: neither more, nor the    *)
(* same one twice.                                                         *)
ExactIn(env) ==
  {<<NodeValue(problem.pattern, env, pt), pt>> : pt \in Domain(env)}
    = {<<xNew, NewPoint(env, xNew)>> : xNew \in NewDomain(env)}
RewriteIsExact == stage \in {"single", "done"} => \A env \in Env : ExactIn(env)
=============================================================================
