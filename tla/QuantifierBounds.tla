-------------------------- MODULE QuantifierBounds --------------------------
(***************************************************************************)
(* RewriteQuantifierData of SimplifyNestedQuantifiers: the antecedent of a *)
(* quantifier is taken apart into bounds of its bindings and conditions,   *)
(* bindings that the body does not mention are removed, and bindings that  *)
(* can have one value only are replaced by it.                             *)
(*                                                                         *)
(* Expressions are represented by what they denote.  An expression without *)
(* bindings is a function from Env, the valuations of the free variables,  *)
(* to the integers.  A term is linear in the bindings.  Two expressions    *)
(* are known to be equal when their functions are.                         *)
(***************************************************************************)
EXTENDS Integers, Sequences, FiniteSets, Functions

CONSTANTS
  Bindings,       \* the number of integer bindings
  Env,            \* valuations of the variables that are free
  Values,         \* the integers a binding ranges over
  Quantifiers,    \* the quantifiers that are rewritten
  Simples,        \* the expressions that simpleExpr accepts
  ConstantsOnly   \* the equality checker compares constants only

ASSUME ValuesAssumption == Values \subseteq Int /\ 0 \in Values
ASSUME EnvAssumption == Env # {}
ASSUME BindingsAssumption == Bindings \in Nat \ {0}

Vars == 1 .. Bindings

VARIABLES
  quantifier,     \* the original, an element of Quantifiers
  stage,          \* what rewriteLinearArray does next
  pending,        \* conditions that getBounds has still to process
  bindings, lowerBounds, upperBounds, upperExclusiveBounds,
  independentConditions, dependentConditions,
  body,           \* the conjuncts of the main body
  scale,          \* the Scale around the body
  triggerVars,    \* the bindings that triggers mention
  newQuantifier,  \* something was rewritten
  visit           \* the names checkIndependentVariables has still to visit

vars == <<quantifier, stage, pending, bindings, lowerBounds, upperBounds,
          upperExclusiveBounds, independentConditions, dependentConditions,
          body, scale, triggerVars, newQuantifier, visit>>

-----------------------------------------------------------------------------
(* Comparison: which of less, equal and greater make it true.              *)
LESS == {"less"}
LESS_EQ == {"less", "eq"}
EQ == {"eq"}
GREATER_EQ == {"eq", "greater"}
GREATER == {"greater"}
NEQ == {"less", "greater"}

flip(comp) ==
  {c \in {"less", "eq", "greater"} :
     \/ c = "eq" /\ "eq" \in comp
     \/ c = "less" /\ "greater" \in comp
     \/ c = "greater" /\ "less" \in comp}

Holds(left, comp, right) ==
  \/ "less" \in comp /\ left < right
  \/ "eq" \in comp /\ left = right
  \/ "greater" \in comp /\ left > right

(* A term is [coef, e]: the sum of coef[v] * v and the independent e.  A   *)
(* side of a condition is a term or Select(Less(e1, e2), then, else).      *)
Expr == [Env -> Int]
Add(e1, e2) == [env \in Env |-> e1[env] + e2[env]]
Sub(e1, e2) == [env \in Env |-> e1[env] - e2[env]]
Plus(e, k) == [env \in Env |-> e[env] + k]

IsSelect(side) == "less" \in DOMAIN side
Branches(side) == IF IsSelect(side) THEN {side.then, side.else} ELSE {side}

TermValue(t, env, pt) ==
  LET upTo[v \in 0 .. Bindings] ==
        IF v = 0 THEN t.e[env] ELSE upTo[v - 1] + t.coef[v] * pt[v]
  IN upTo[Bindings]
Value(side, env, pt) ==
  IF ~IsSelect(side) THEN TermValue(side, env, pt)
  ELSE IF side.less[1][env] < side.less[2][env]
    THEN TermValue(side.then, env, pt)
    ELSE TermValue(side.else, env, pt)

Mentions(side) == {v \in Vars : \E t \in Branches(side) : t.coef[v] # 0}
indepOf(side) == Mentions(side) = {}

(* A term that is one binding plus an independent expression.              *)
IsBindingPlus(side) ==
  ~IsSelect(side) /\ \E v \in Vars :
     side.coef = [w \in Vars |-> IF w = v THEN 1 ELSE 0]
BindingOf(side) == CHOOSE v \in Vars : side.coef[v] # 0

(* A condition is a comparison, or membership of a range from..to.         *)
Compare(left, comp, right) ==
  [form |-> "compare", left |-> left, comp |-> comp, right |-> right]
Member(left, from, to) ==
  [form |-> "member", left |-> left, from |-> from, to |-> to]

Sides(c) == IF c.form = "compare" THEN {c.left, c.right} ELSE {c.left, c.from, c.to}
CondMentions(c) == UNION {Mentions(s) : s \in Sides(c)}
CondHolds(c, env, pt) ==
  IF c.form = "compare"
    THEN Holds(Value(c.left, env, pt), c.comp, Value(c.right, env, pt))
    ELSE /\ Value(c.from, env, pt) <= Value(c.left, env, pt)
         /\ Value(c.left, env, pt) < Value(c.to, env, pt)

Term == [coef : [Vars -> Int], e : Expr]
Side == Term \cup [less : Expr \X Expr, then : Term, else : Term]
Condition ==
  [form : {"compare"}, left : Side, comp : {LESS, LESS_EQ, EQ, GREATER_EQ, GREATER, NEQ}, right : Side]
  \cup [form : {"member"}, left : Side, from : Side, to : Side]
Conjuncts == Seq([id : Nat, guard : Seq(Condition), index : Term])

ASSUME QuantifiersAssumption ==
  \A q \in Quantifiers :
    /\ q.kind \in {"forall", "starall"}
    /\ q.conjuncts \in Conjuncts /\ q.conjuncts # <<>>
    /\ q.triggerVars \subseteq Vars

-----------------------------------------------------------------------------
(* What a quantifier means: the accesses it makes, as pairs of a conjunct  *)
(* and an index, and for a Starall how often.  Two Foralls agree for every *)
(* predicate exactly when they make the same accesses.                     *)
Assignments(names) == {pt \in [Vars -> Values] : \A v \in Vars \ names : pt[v] = 0}

Points(names, conds, env) ==
  {pt \in Assignments(names) : \A c \in conds : CondHolds(c, env, pt)}

Accesses(conjuncts, points, env) ==
  {access \in points \X DOMAIN conjuncts :
     LET guard == conjuncts[access[2]].guard
     IN \A k \in DOMAIN guard : CondHolds(guard[k], env, access[1])}

Key(conjuncts, access, env) ==
  <<conjuncts[access[2]].id, TermValue(conjuncts[access[2]].index, env, access[1])>>

MeaningOf(kind, conjuncts, factor, points, env) ==
  LET accesses == Accesses(conjuncts, points, env)
      keys == {Key(conjuncts, a, env) : a \in accesses}
  IN IF kind = "forall" THEN keys
     ELSE {<<key, factor * Cardinality({a \in accesses : Key(conjuncts, a, env) = key})>> :
             key \in keys}

OriginalMeaning ==
  [q \in Quantifiers |-> [env \in Env |->
     MeaningOf(q.kind, q.conjuncts, 1, Assignments(Vars), env)]]

InBounds(env, pt) ==
  \A v \in bindings :
    /\ \A i \in DOMAIN lowerBounds[v] : lowerBounds[v][i][env] <= pt[v]
    /\ \A i \in DOMAIN upperExclusiveBounds[v] : pt[v] < upperExclusiveBounds[v][i][env]

CurrentMeaning(env) ==
  LET conds == Range(pending) \cup Range(dependentConditions)
      points == IF \A i \in DOMAIN independentConditions : independentConditions[i][env]
                  THEN {pt \in Points(bindings, conds, env) : InBounds(env, pt)}
                  ELSE {}
  IN MeaningOf(quantifier.kind, body, scale[env], points, env)

-----------------------------------------------------------------------------
(* equalityChecker.lessThenEq.                                             *)
IsConstantInt(e) == \A env1, env2 \in Env : e[env1] = e[env2]
lessThenEq(left, right) ==
  IF IsConstantInt(left) /\ IsConstantInt(right)
    THEN IF \A env \in Env : left[env] <= right[env] THEN "true" ELSE "false"
    ELSE IF ~ConstantsOnly /\ \A env \in Env : left[env] <= right[env]
      THEN "true"
      ELSE "none"

(* extremes: the bound that matters, and whether it is provably so.        *)
extremes(bounds, maximizing) ==
  LET extreme[xs \in Seq(Expr) \ {<<>>}] ==
        IF Len(xs) = 1 THEN [bound |-> xs[1], exact |-> TRUE]
        ELSE
          LET left == xs[1]
              right == xs[2]
              rest == SubSeq(xs, 3, Len(xs))
              lt == lessThenEq(left, right)
              whenTrue == extreme[<<left>> \o rest].bound
              whenFalse == extreme[<<right>> \o rest].bound
          IN IF lt = "none"
               THEN [bound |-> [env \in Env |->
                       IF (IF maximizing THEN left[env] > right[env] ELSE left[env] < right[env])
                         THEN whenTrue[env] ELSE whenFalse[env]],
                     exact |-> FALSE]
               ELSE [bound |-> IF (lt = "true") = maximizing THEN left ELSE right,
                     exact |-> TRUE]
  IN extreme[bounds]

(* toOneImplies on a conjunction nested to the left, of which a conjunct    *)
(* with an empty guard is not an implication.                              *)
OneImplies(conjuncts) ==
  /\ conjuncts[1].guard # <<>>
  /\ \A i \in DOMAIN conjuncts : conjuncts[i].guard = conjuncts[1].guard

toOneImplies(conjuncts) ==
  LET upTo[n \in DOMAIN conjuncts] ==
        IF n = 1 THEN <<conjuncts[1]>>
        ELSE IF conjuncts[n].guard = <<>> THEN SubSeq(conjuncts, 1, n)
        ELSE IF OneImplies(upTo[n - 1]) /\ upTo[n - 1][1].guard = conjuncts[n].guard
          THEN Append(upTo[n - 1], conjuncts[n])
          ELSE upTo[n - 1]
  IN upTo[Len(conjuncts)]

-----------------------------------------------------------------------------
None == [v \in Vars |-> <<>>]
One == [env \in Env |-> 1]

Init ==
  /\ quantifier \in Quantifiers
  /\ stage = "start"
  /\ pending = <<>>
  /\ bindings = Vars
  /\ lowerBounds = None /\ upperBounds = None /\ upperExclusiveBounds = None
  /\ independentConditions = <<>> /\ dependentConditions = <<>>
  /\ body = quantifier.conjuncts
  /\ scale = One
  /\ triggerVars = quantifier.triggerVars
  /\ newQuantifier = FALSE
  /\ visit = {}

(* The conditions without bindings are set apart, the others are potential *)
(* bounds.                                                                 *)
Selected(seq, places) ==
  LET upTo[n \in 0 .. Len(seq)] ==
        IF n = 0 THEN <<>>
        ELSE IF n \in places THEN Append(upTo[n - 1], seq[n])
        ELSE upTo[n - 1]
  IN upTo[Len(seq)]

IndependentOf(conds) ==
  LET indep == Selected(conds, {i \in DOMAIN conds : CondMentions(conds[i]) = {}})
      origin == [v \in Vars |-> 0]
  IN [i \in DOMAIN indep |-> [env \in Env |-> CondHolds(indep[i], env, origin)]]
DependentOf(conds) == Selected(conds, {i \in DOMAIN conds : CondMentions(conds[i]) # {}})

setData ==
  /\ stage = "start"
  /\ LET conjuncts == toOneImplies(quantifier.conjuncts)
         conds == IF OneImplies(conjuncts) THEN conjuncts[1].guard ELSE <<>>
     IN /\ body' = IF OneImplies(conjuncts)
                     THEN [i \in DOMAIN conjuncts |-> [conjuncts[i] EXCEPT !.guard = <<>>]]
                     ELSE conjuncts
        /\ independentConditions' = IndependentOf(conds)
        /\ pending' = DependentOf(conds)
  /\ stage' = "bounds"
  /\ UNCHANGED <<quantifier, bindings, lowerBounds, upperBounds, upperExclusiveBounds,
                 dependentConditions, scale, triggerVars, newQuantifier, visit>>

-----------------------------------------------------------------------------
(* getSingleBound on the first pending condition.                          *)
(* addSingleBound adds the bounds v comp r, for each r in rights.          *)
SideValue(side) == [env \in Env |-> Value(side, env, [v \in Vars |-> 0])]

(* Select(Less(e1, e2), e1, e2), or with the branches swapped, stands for  *)
(* both bounds.                                                            *)
Rights(side) ==
  IF IsSelect(side) /\ \/ side.then.e = side.less[1] /\ side.else.e = side.less[2]
                       \/ side.then.e = side.less[2] /\ side.else.e = side.less[1]
    THEN side.less
    ELSE <<SideValue(side)>>

(* What the bounds v comp r contribute to each of the three tables.        *)
Each(rights, k) == [i \in DOMAIN rights |-> Plus(rights[i], k)]
LowerOf(comp, rights) ==
  CASE comp \in {EQ, GREATER_EQ} -> rights
    [] comp = GREATER -> Each(rights, 1)
    [] OTHER -> <<>>
UpperOf(comp, rights) ==
  CASE comp \in {EQ, LESS_EQ} -> rights
    [] comp = LESS -> Each(rights, -1)
    [] OTHER -> <<>>
UpperExclusiveOf_OffByOne(comp, rights) ==
  IF comp \in {EQ, LESS_EQ, LESS} THEN rights ELSE <<>>
UpperExclusiveOf(comp, rights) ==
  CASE comp \in {EQ, LESS_EQ} -> Each(rights, 1)
    [] comp = LESS -> rights
    [] OTHER -> <<>>

addSingleBound(v, lower, upper, upperExclusive) ==
  /\ lowerBounds' = [lowerBounds EXCEPT ![v] = @ \o lower]
  /\ upperBounds' = [upperBounds EXCEPT ![v] = @ \o upper]
  /\ upperExclusiveBounds' = [upperExclusiveBounds EXCEPT ![v] = @ \o upperExclusive]

Processing == stage \in {"bounds", "rebounds"} /\ pending # <<>>

(* Everything but the bounds, the pending and the dependent conditions.    *)
unchangedRest ==
  <<quantifier, stage, bindings, independentConditions, body, scale,
    triggerVars, newQuantifier, visit>>
boundTables == <<lowerBounds, upperBounds, upperExclusiveBounds>>

(* left comp Select(_, then, else) and its mirror image.                   *)
SplitSelect ==
  /\ Processing
  /\ LET c == Head(pending) IN
       /\ c.form = "compare"
       /\ c.comp # NEQ
       /\ IsSelect(c.left) \/ IsSelect(c.right)
       /\ pending' =
            (IF IsSelect(c.right)
               THEN <<Compare(c.left, c.comp, c.right.then),
                      Compare(c.left, c.comp, c.right.else)>>
               ELSE <<Compare(c.left.then, c.comp, c.right),
                      Compare(c.left.else, c.comp, c.right)>>) \o Tail(pending)
  /\ UNCHANGED <<unchangedRest, boundTables, dependentConditions>>

(* One side is independent: the other is a binding plus something          *)
(* independent, which moves to the right, or the condition is kept.        *)
Oriented(c) ==
  IF indepOf(c.right) THEN c ELSE Compare(c.right, flip(c.comp), c.left)

IsBound(c) ==
  /\ c.form = "compare"
  /\ c.comp # NEQ
  /\ ~IsSelect(c.left) /\ ~IsSelect(c.right)
  /\ indepOf(c.left) \/ indepOf(c.right)
  /\ IsBindingPlus(Oriented(c).left)

AddBound ==
  /\ Processing
  /\ LET c == Oriented(Head(pending))
         rights == <<Sub(c.right.e, c.left.e)>>
     IN /\ IsBound(Head(pending))
        /\ addSingleBound(BindingOf(c.left), LowerOf(c.comp, rights),
                          UpperOf(c.comp, rights), UpperExclusiveOf(c.comp, rights))
  /\ pending' = Tail(pending)
  /\ UNCHANGED <<unchangedRest, dependentConditions>>

KeepDependent ==
  /\ Processing
  /\ LET c == Head(pending) IN
       /\ c.form = "compare"
       /\ c.comp = NEQ \/ (~IsSelect(c.left) /\ ~IsSelect(c.right))
       /\ ~IsBound(c)
       /\ dependentConditions' = Append(dependentConditions, c)
  /\ pending' = Tail(pending)
  /\ UNCHANGED <<unchangedRest, boundTables>>

(* v \in {from..to}.                                                       *)
IsRangeOfBinding(c) ==
  /\ IsBindingPlus(c.left) /\ c.left.e = [env \in Env |-> 0]
  /\ indepOf(c.from) /\ indepOf(c.to)

AddRange ==
  /\ Processing
  /\ LET c == Head(pending) IN
       /\ c.form = "member"
       /\ IsRangeOfBinding(c)
       /\ addSingleBound(BindingOf(c.left), LowerOf(GREATER_EQ, Rights(c.from)),
                         UpperOf(LESS, Rights(c.to)), UpperExclusiveOf(LESS, Rights(c.to)))
  /\ pending' = Tail(pending)
  /\ UNCHANGED <<unchangedRest, dependentConditions>>

SplitRange ==
  /\ Processing
  /\ LET c == Head(pending) IN
       /\ c.form = "member"
       /\ ~IsRangeOfBinding(c)
       /\ pending' = <<Compare(c.left, GREATER_EQ, c.from), Compare(c.left, LESS, c.to)>>
                       \o Tail(pending)
  /\ UNCHANGED <<unchangedRest, boundTables, dependentConditions>>

EndBounds ==
  /\ stage \in {"bounds", "rebounds"} /\ pending = <<>>
  /\ IF stage = "bounds"
       THEN stage' = "independent" /\ visit' = bindings
       ELSE stage' = "single" /\ UNCHANGED visit
  /\ UNCHANGED <<quantifier, pending, bindings, boundTables, independentConditions,
                 dependentConditions, body, scale, triggerVars, newQuantifier>>

-----------------------------------------------------------------------------
(* checkIndependentVariables: for each name, in the order of a hash set.   *)
BodyMentions ==
  UNION {Mentions(body[i].index)
           \cup UNION {CondMentions(body[i].guard[k]) : k \in DOMAIN body[i].guard} :
         i \in DOMAIN body}
DependentMentions ==
  UNION {CondMentions(dependentConditions[i]) : i \in DOMAIN dependentConditions}

maxBound(name) == extremes(upperBounds[name], TRUE)
minBound(name) == extremes(lowerBounds[name], FALSE)

Unmentioned(name) == name \notin BodyMentions \cup DependentMentions \cup triggerVars

Removable(name) ==
  /\ Unmentioned(name)
  /\ upperBounds[name] # <<>> /\ lowerBounds[name] # <<>>
  /\ quantifier.kind = "starall" => maxBound(name).exact /\ minBound(name).exact

(* Do not quantify over name anymore.                                      *)
Forget(name) ==
  /\ bindings' = bindings \ {name}
  /\ lowerBounds' = [lowerBounds EXCEPT ![name] = <<>>]
  /\ upperBounds' = [upperBounds EXCEPT ![name] = <<>>]
  /\ upperExclusiveBounds' = [upperExclusiveBounds EXCEPT ![name] = <<>>]

RemoveIndependent ==
  /\ stage = "independent"
  /\ \E name \in visit :
       /\ Removable(name)
       /\ visit' = visit \ {name}
       /\ LET max == maxBound(name).bound
              min == minBound(name).bound
          IN /\ independentConditions' =
                  Append(independentConditions, [env \in Env |-> max[env] >= min[env]])
             /\ scale' = IF quantifier.kind = "starall"
                           THEN [env \in Env |-> (1 + max[env] - min[env]) * scale[env]]
                           ELSE scale
       /\ Forget(name)
  /\ newQuantifier' = TRUE
  /\ UNCHANGED <<quantifier, stage, pending, dependentConditions, body, triggerVars>>

KeepBinding ==
  /\ stage = "independent"
  /\ \E name \in visit : ~Removable(name) /\ visit' = visit \ {name}
  /\ UNCHANGED <<quantifier, stage, pending, bindings, boundTables, independentConditions,
                 dependentConditions, body, scale, triggerVars, newQuantifier>>

EndIndependent ==
  /\ stage = "independent" /\ visit = {}
  /\ stage' = "single"
  /\ UNCHANGED <<quantifier, pending, bindings, boundTables, independentConditions,
                 dependentConditions, body, scale, triggerVars, newQuantifier, visit>>

-----------------------------------------------------------------------------
(* checkSingleValueVariables: the first lower bound that equals an upper   *)
(* bound.                                                                  *)
EqualBounds(name) == {e \in Range(lowerBounds[name]) : e \in Range(upperBounds[name])}
newValue(name) ==
  lowerBounds[name][CHOOSE i \in DOMAIN lowerBounds[name] :
    /\ lowerBounds[name][i] \in EqualBounds(name)
    /\ \A j \in 1 .. i - 1 : lowerBounds[name][j] \notin EqualBounds(name)]

SingleValued_AnyTrigger(name) == EqualBounds(name) # {}
SingleValued(name) ==
  /\ EqualBounds(name) # {}
  /\ name \in triggerVars => newValue(name) \in Simples

SubstTerm(t, v, e) ==
  [coef |-> [t.coef EXCEPT ![v] = 0],
   e |-> [env \in Env |-> t.e[env] + t.coef[v] * e[env]]]
SubstSide(side, v, e) ==
  IF IsSelect(side)
    THEN [side EXCEPT !.then = SubstTerm(@, v, e), !.else = SubstTerm(@, v, e)]
    ELSE SubstTerm(side, v, e)
SubstCond(c, v, e) ==
  IF c.form = "compare"
    THEN Compare(SubstSide(c.left, v, e), c.comp, SubstSide(c.right, v, e))
    ELSE Member(SubstSide(c.left, v, e), SubstSide(c.from, v, e), SubstSide(c.to, v, e))
SubstConds(conds, v, e) == [i \in DOMAIN conds |-> SubstCond(conds[i], v, e)]

(* The bounds of name become conditions on its value.                      *)
BoundsOn(name, e) ==
  [i \in DOMAIN lowerBounds[name] |-> [env \in Env |-> lowerBounds[name][i][env] <= e[env]]]
  \o [i \in DOMAIN upperBounds[name] |-> [env \in Env |-> e[env] <= upperBounds[name][i][env]]]

TriggersAfter(name) == triggerVars \ {name}

SubstituteSingle ==
  /\ stage = "single"
  /\ \E name \in bindings :
       /\ SingleValued(name)
       /\ LET e == newValue(name)
              conds == SubstConds(dependentConditions, name, e)
          IN /\ body' = [i \in DOMAIN body |->
                  [body[i] EXCEPT !.index = SubstTerm(@, name, e),
                                  !.guard = SubstConds(@, name, e)]]
             /\ pending' = DependentOf(conds)
             /\ independentConditions' =
                  independentConditions \o IndependentOf(conds) \o BoundsOn(name, e)
       /\ triggerVars' = TriggersAfter(name)
       /\ Forget(name)
  /\ dependentConditions' = <<>>
  /\ newQuantifier' = TRUE
  /\ stage' = "rebounds"
  /\ UNCHANGED <<quantifier, scale, visit>>

EndSingle ==
  /\ stage = "single"
  /\ \A name \in bindings : ~SingleValued(name)
  /\ stage' = "done"
  /\ UNCHANGED <<quantifier, pending, bindings, boundTables, independentConditions,
                 dependentConditions, body, scale, triggerVars, newQuantifier, visit>>

Next ==
  \/ setData
  \/ SplitSelect \/ AddBound \/ KeepDependent \/ AddRange \/ SplitRange \/ EndBounds
  \/ RemoveIndependent \/ KeepBinding \/ EndIndependent
  \/ SubstituteSingle \/ EndSingle

Spec == Init /\ [][Next]_vars /\ WF_vars(Next)

-----------------------------------------------------------------------------
Tables == [Vars -> Seq(Expr)]
TypeOK ==
  /\ quantifier \in Quantifiers
  /\ stage \in {"start", "bounds", "independent", "single", "rebounds", "done"}
  /\ bindings \subseteq Vars /\ visit \subseteq Vars /\ triggerVars \subseteq bindings
  /\ lowerBounds \in Tables /\ upperBounds \in Tables /\ upperExclusiveBounds \in Tables
  /\ independentConditions \in Seq([Env -> BOOLEAN])
  /\ \A c \in Range(pending) \cup Range(dependentConditions) : c.form \in {"compare", "member"}
  /\ scale \in Expr
  /\ newQuantifier \in BOOLEAN

(* At every step the quantifier that the data stands for makes the same    *)
(* accesses as the original, in every environment, and a Starall makes     *)
(* each of them as often.                                                  *)
SameMeaning == \A env \in Env : CurrentMeaning(env) = OriginalMeaning[quantifier][env]

(* The same of what result() returns.                                      *)
RewriteIsEquivalent == (stage = "done" /\ newQuantifier) => SameMeaning

(* No removed binding is mentioned by anything that goes into the result.  *)
Closed ==
  BodyMentions \cup DependentMentions \cup UNION {CondMentions(c) : c \in Range(pending)}
    \subseteq bindings

(* "minimum/maximum is provably exact" when extremes says so, for the      *)
(* bounds of a binding that may be removed.                                *)
ExactExtremes ==
  stage = "independent" =>
    \A v \in visit, maximizing \in BOOLEAN :
      LET bounds == IF maximizing THEN upperBounds[v] ELSE lowerBounds[v]
          extreme == extremes(bounds, maximizing)
      IN (Unmentioned(v) /\ bounds # <<>> /\ extreme.exact) =>
           \A env \in Env, i \in DOMAIN bounds :
             IF maximizing THEN extreme.bound[env] <= bounds[i][env]
                           ELSE extreme.bound[env] >= bounds[i][env]

(* A binding that a trigger mentions is only replaced by a simple value,   *)
(* so that the trigger keeps its shape.                                    *)
TriggersKeepShape ==
  [][\A v \in triggerVars \ triggerVars' :
       \E e \in Simples : e \in Range(lowerBounds[v]) /\ e \in Range(upperBounds[v])]_vars

(* The data stand for the original quantifier at every step: same meaning, *)
(* no loose binding, no extreme called exact that is not.                  *)
QuantifierIsKept == TypeOK /\ SameMeaning /\ Closed /\ ExactExtremes
=============================================================================
