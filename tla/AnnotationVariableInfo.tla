----------------------- MODULE AnnotationVariableInfo -----------------------
(***************************************************************************)
(* vct.col.ast.util.AnnotationVariableInfoGetter: what is known of the     *)
(* variables of a program, gathered one condition at a time, and           *)
(* AnnotationVariableInfo, the summary the expression checker works with.  *)
(*                                                                         *)
(* A getter is a record.  Two of its tables, variableEqualities and        *)
(* lessThanEqVars, map a variable to a mutable collection; such a          *)
(* collection is a cell here, because a cloned getter has tables of its    *)
(* own but the collections of the original.  The cells are threaded        *)
(* through the operators as the field `cells' of the getter at work.       *)
(***************************************************************************)
EXTENDS Integers, Sequences, SequencesExt

CONSTANTS
  Vars,         \* the symbolic terms: local variables of integer type
  HashOrder,    \* the order in which a hash map lists them
  MaxReplaced   \* bound on how deep equalities are followed (max_depth)

ASSUME VarsAssumption == Vars = ToSet(HashOrder) /\ IsInjective(HashOrder)
ASSUME MaxReplacedAssumption == MaxReplaced \in Nat

-----------------------------------------------------------------------------
(* Terms and conditions, and what they mean in an environment.             *)

Var(v) == [is |-> "var", v |-> v]
Const(i) == [is |-> "const", i |-> i]
Plus(v, i) == [is |-> "plus", v |-> v, i |-> i]    \* v + i
Sum(v, w) == [is |-> "sum", v |-> v, w |-> w]      \* v + w

Eq(l, r) == [op |-> "eq", l |-> l, r |-> r]
Neq(l, r) == [op |-> "neq", l |-> l, r |-> r]
Less(l, r) == [op |-> "less", l |-> l, r |-> r]
LessEq(l, r) == [op |-> "lessEq", l |-> l, r |-> r]
Implies(l, r) == [op |-> "implies", l |-> l, r |-> r]
True == [op |-> "true"]

Value(t, env) ==
  CASE t.is = "var" -> env[t.v]
    [] t.is = "const" -> t.i
    [] t.is = "plus" -> env[t.v] + t.i
    [] t.is = "sum" -> env[t.v] + env[t.w]

(* Whether a condition other than an implication holds.                    *)
HoldsPlainly(c, env) ==
  CASE c.op = "eq" -> Value(c.l, env) = Value(c.r, env)
    [] c.op = "neq" -> Value(c.l, env) # Value(c.r, env)
    [] c.op = "less" -> Value(c.l, env) < Value(c.r, env)
    [] c.op = "lessEq" -> Value(c.l, env) <= Value(c.r, env)
    [] c.op = "true" -> TRUE

Holds(c, env) ==
  IF c.op = "implies" THEN HoldsPlainly(c.l, env) => HoldsPlainly(c.r, env)
                      ELSE HoldsPlainly(c, env)

Mentioned(t) == CASE t.is = "const" -> {}
                  [] t.is = "sum" -> {t.v, t.w}
                  [] OTHER -> {t.v}

VarsOf(c) ==
  CASE c.op = "true" -> {}
    [] c.op = "implies" -> UNION {Mentioned(d.l) \cup Mentioned(d.r) : d \in {c.l, c.r}}
    [] OTHER -> Mentioned(c.l) \cup Mentioned(c.r)

-----------------------------------------------------------------------------
(* Getters.  A table is a function whose domain are the variables it has   *)
(* an entry for.                                                           *)
None == [v \in {} |-> {}]

EmptyGetter ==
  [ variableEqualities |-> None,   \* the cell of the terms a variable equals
    variableValues |-> None,       \* its value
    variableSynonyms |-> None,     \* the number of its group of synonyms
    currentSynonymGroup |-> 0,
    variableNotZero |-> {},
    lessThanEqVars |-> None,       \* the cell of the variables it is at most
    upperBound |-> None,
    lowerBound |-> None,
    usefulConditions |-> <<>>,
    cells |-> <<>>,
    inconsistent |-> FALSE ]       \* InconsistentVariableEquality was thrown

(* setupInfo empties the tables, and says so of the counter too.           *)
SetupInfo(g) == [EmptyGetter EXCEPT !.cells = g.cells]

(* clone copies the tables; the new object starts with its own counter.    *)
Clone(g) == [g EXCEPT !.currentSynonymGroup = 0]

(* table.getOrElseUpdate(v, empty).addOne(x), for either table of cells.   *)
AddToCell(g, table, v, x) ==
  IF v \in DOMAIN g[table]
    THEN [g EXCEPT !.cells[g[table][v]] = @ \cup {x}]
    ELSE [g EXCEPT !.cells = Append(@, {x}),
                   ![table] = (v :> Len(g.cells) + 1) @@ @]

Cell(g, table, v) == IF v \in DOMAIN g[table] THEN g.cells[g[table][v]] ELSE {}

-----------------------------------------------------------------------------
(* isConstantInt: the constants a term evaluates to with the values and    *)
(* equalities of g.  The code takes the first one it finds; two different  *)
(* ones mean that the conditions contradict each other.                    *)
ConstantsOf(t, known) ==
  CASE t.is = "var" -> known[t.v]
    [] t.is = "const" -> {t.i}
    [] t.is = "plus" -> {x + t.i : x \in known[t.v]}
    [] t.is = "sum" -> {x + y : x \in known[t.v], y \in known[t.w]}

KnownValues(g) ==
  LET known[depth \in 0 .. MaxReplaced] ==
        [v \in Vars |->
           IF v \in DOMAIN g.variableValues THEN {g.variableValues[v]}
           ELSE IF depth = 0 THEN {}
           ELSE UNION {ConstantsOf(t, known[depth - 1]) :
                         t \in Cell(g, "variableEqualities", v)}]
  IN  known[MaxReplaced]

IsConstantInt(g, t) == ConstantsOf(t, KnownValues(g))

TheConstant(constants) == CHOOSE i \in constants : TRUE

-----------------------------------------------------------------------------
(* Learning a condition.                                                   *)

Bound(table, v, i) == IF v \in DOMAIN table THEN {table[v], i} ELSE {i}

AddLessEq(g, v, i) ==
  [g EXCEPT !.upperBound = (v :> Min(Bound(@, v, i))) @@ @]

AddGreaterEq(g, v, i) ==
  [g EXCEPT !.lowerBound = (v :> Max(Bound(@, v, i))) @@ @]

NotZeroIf(g, v, nonZero) ==
  IF nonZero THEN [g EXCEPT !.variableNotZero = @ \cup {v}] ELSE g

AddLessThanEq(g, v, w) == AddToCell(g, "lessThanEqVars", v, w)

(* Group `from' joins group `to' (mapValuesInPlace).                       *)
Regroup(groups, from, to) ==
  [x \in DOMAIN groups |-> IF groups[x] = from THEN to ELSE groups[x]]

AddSynonym(g, v, w) ==
  LET groups == g.variableSynonyms
      new == g.currentSynonymGroup
      known == {v, w} \cap DOMAIN groups
  IN  IF known = {} THEN
        [g EXCEPT !.variableSynonyms = (v :> new) @@ (w :> new) @@ @,
                  !.currentSynonymGroup = new + 1]
      ELSE IF known = {v, w} THEN
        [g EXCEPT !.variableSynonyms = Regroup(groups, groups[w], groups[v])]
      ELSE
        [g EXCEPT !.variableSynonyms =
           [x \in {v, w} |-> groups[CHOOSE y \in known : TRUE]] @@ @]

AddValue(g, v, x) ==
  IF v \in DOMAIN g.variableValues
    THEN [g EXCEPT !.inconsistent = @ \/ g.variableValues[v] # x]
    ELSE AddGreaterEq(AddLessEq(NotZeroIf(
           [g EXCEPT !.variableValues = (v :> x) @@ @], v, x # 0), v, x), v, x)

AddName(g, v, t) ==
  IF t.is = "const" THEN AddValue(g, v, t.i) ELSE AddToCell(g, "variableEqualities", v, t)

ExtractEqualities(g, c) ==
  IF c.op # "eq" THEN g
  ELSE IF c.l.is = "var" /\ c.r.is = "var" THEN AddSynonym(g, c.l.v, c.r.v)
  ELSE IF c.l.is = "var" THEN AddName(g, c.l.v, c.r)
  ELSE IF c.r.is = "var" THEN AddName(g, c.r.v, c.l)
  ELSE g

(* lt(l, r, equal): l <= r, and l + 1 <= r unless equal.                   *)
UpperFrom(g, l, r, strict, constants) ==
  IF l.is = "var" /\ constants # {}
    THEN LET i == TheConstant(constants) - strict
         IN  AddLessEq(NotZeroIf(g, l.v, i < 0), l.v, i)
    ELSE g

LowerFrom(g, l, r, strict, constants) ==
  IF r.is = "var" /\ constants # {}
    THEN LET i == TheConstant(constants) + strict
         IN  AddGreaterEq(NotZeroIf(g, r.v, i > 0), r.v, i)
    ELSE g

Lt(g, l, r, equal) ==
  LET strict == IF equal THEN 0 ELSE 1
      bounded == LowerFrom(UpperFrom(g, l, r, strict, IsConstantInt(g, r)),
                           l, r, strict, IsConstantInt(g, l))
  IN  IF l.is = "var" /\ r.is = "var" THEN AddLessThanEq(bounded, l.v, r.v) ELSE bounded

(* v = w + i.                                                              *)
VarEqVarPlusInt(g, v, w, i) ==
  LET above == IF i >= 0 THEN AddLessThanEq(g, w, v) ELSE g
  IN  IF i <= 0 THEN AddLessThanEq(above, v, w) ELSE above

(* n = m + k, from the bounds on m and k that are known so far.            *)
VarEqVarPlusVar(g, n, m, k) ==
  LET NonNeg(v) == v \in DOMAIN g.lowerBound /\ g.lowerBound[v] >= 0
      NonPos(v) == v \in DOMAIN g.upperBound /\ g.upperBound[v] <= 0
      If(h, test, v, w) == IF test THEN AddLessThanEq(h, v, w) ELSE h
  IN  If(If(If(If(g, NonNeg(k), m, n), NonPos(k), n, m), NonNeg(m), k, n), NonPos(m), n, k)

VarEq(g, n, t) ==
  CASE t.is = "plus" -> VarEqVarPlusInt(g, n, t.v, t.i)
    [] t.is = "sum" -> VarEqVarPlusVar(g, n, t.v, t.w)
    [] OTHER -> g

ExtractComparisons(g, c) ==
  CASE c.op = "less" -> Lt(g, c.l, c.r, FALSE)
    [] c.op = "lessEq" -> Lt(g, c.l, c.r, TRUE)
    [] c.op = "eq" /\ c.l.is = "var" -> VarEq(g, c.l.v, c.r)
    [] c.op = "eq" /\ c.r.is = "var" -> VarEq(g, c.r.v, c.l)
    [] c.op = "neq" ->
         LET NotZero(h, t, other) == IF t.is = "var" THEN NotZeroIf(h, t.v, 0 \in IsConstantInt(g, other))
                                                     ELSE h
         IN  NotZero(NotZero(g, c.l, c.r), c.r, c.l)
    [] OTHER -> g

(* extractEqualities, then addSimpleAnnotation.                            *)
Learn(g, c) == ExtractComparisons(ExtractEqualities(g, c), c)

(* replaceWithTrueAndSimplify: c, when `known' holds.                      *)
Simplified(c, known) ==
  IF c = known THEN True
  ELSE IF c.op # "implies" THEN c
  ELSE IF c.r = known THEN True
  ELSE IF c.l = known THEN c.r
  ELSE c

(* addInfo: the condition, without what is already known, and every        *)
(* earlier condition that it makes simpler.                                *)
AddInfo(g, annotation) ==
  LET ann == FoldLeft(Simplified, annotation, g.usefulConditions)
      Redo(h, i) ==
        LET simple == Simplified(h.usefulConditions[i], ann)
        IN  IF simple = h.usefulConditions[i] THEN h
            ELSE [Learn(h, simple) EXCEPT !.usefulConditions[i] = simple]
      redone == FoldLeftDomain(Redo, Learn(g, ann), g.usefulConditions)
  IN  IF ann = True THEN redone
      ELSE [redone EXCEPT !.usefulConditions = Append(@, ann)]

-----------------------------------------------------------------------------
(* The entries of the variables in S; the variant drops none.              *)
Only_All(table, S) == table

Only(table, S) == [v \in DOMAIN table \cap S |-> table[v]]

(* filterInfo: forget what speaks of a variable that is assigned.  The     *)
(* cells of lessThanEqVars are filtered in place.                          *)
FilterInfo(g, assigned) ==
  LET stable == Vars \ assigned
      kept == {v \in DOMAIN g.variableEqualities :
                 \A t \in Cell(g, "variableEqualities", v) : Mentioned(t) \subseteq stable}
      filtered == {g.lessThanEqVars[v] : v \in DOMAIN g.lessThanEqVars \cap stable}
      IsStable(c) == VarsOf(c) \subseteq stable
  IN  [g EXCEPT
         !.variableEqualities = Only(@, kept \cap stable),
         !.variableValues = Only(@, stable),
         !.variableSynonyms = Only(@, stable),
         !.variableNotZero = @ \cap stable,
         !.lessThanEqVars = Only(@, stable),
         !.cells = [i \in DOMAIN @ |-> IF i \in filtered THEN @[i] \cap stable ELSE @[i]],
         !.upperBound = Only(@, stable),
         !.lowerBound = Only(@, stable),
         !.usefulConditions = SelectSeq(@, IsStable)]

-----------------------------------------------------------------------------
(* finalInfo: the getters of the scopes around and the current one, merged *)
(* into a new getter whose information is then spread over synonyms.       *)

(* A variable that several getters have an entry for gets the union of     *)
(* their cells, in a new cell; the cell of a single getter is taken over.  *)
MergeCells(g, table, getters) ==
  LET With(v) == {i \in DOMAIN getters : v \in DOMAIN getters[i][table]}
      Merge(h, v) ==
        IF With(v) = {} THEN h
        ELSE IF Cardinality(With(v)) = 1
          THEN [h EXCEPT ![table] =
                  (v :> getters[CHOOSE i \in With(v) : TRUE][table][v]) @@ @]
          ELSE [h EXCEPT ![table] = (v :> Len(h.cells) + 1) @@ @,
                         !.cells = Append(@, UNION {h.cells[getters[i][table][v]] : i \in With(v)})]
  IN  FoldLeft(Merge, g, HashOrder)

(* The entries of the getters for v in one of the tables of integers.      *)
Entries(getters, table, v) ==
  {getters[i][table][v] : i \in {j \in DOMAIN getters : v \in DOMAIN getters[j][table]}}

Known(getters, table) == UNION {DOMAIN getters[i][table] : i \in DOMAIN getters}

(* The numbers of the groups of one getter after those of the others:      *)
(* `renamed' maps its numbers to the new ones, as far as they are met.     *)
MergeGroups(groups, getter) ==
  LET Add(m, v) ==
        IF v \notin DOMAIN getter.variableSynonyms THEN m
        ELSE
          LET nr == getter.variableSynonyms[v]
              met == nr \in DOMAIN m.renamed
          IN  IF v \in DOMAIN m.groups THEN
                [m EXCEPT
                   !.groups = IF met THEN Regroup(@, m.renamed[nr], @[v]) ELSE @,
                   !.renamed = (nr :> m.groups[v]) @@ @]
              ELSE IF met THEN [m EXCEPT !.groups = (v :> m.renamed[nr]) @@ @]
              ELSE [groups |-> (v :> m.next) @@ m.groups,
                    renamed |-> (nr :> m.next) @@ m.renamed,
                    next |-> m.next + 1]
      merged == FoldLeft(Add, [groups |-> groups.groups, next |-> groups.next, renamed |-> None],
                         HashOrder)
  IN  [groups |-> merged.groups, next |-> merged.next]

Merged(getters, cells) ==
  LET start == [EmptyGetter EXCEPT !.cells = cells]
      celled == MergeCells(MergeCells(start, "variableEqualities", getters),
                           "lessThanEqVars", getters)
      One(table, v) == CHOOSE x \in Entries(getters, table, v) : TRUE
  IN  [celled EXCEPT
         !.variableValues =
            [v \in Known(getters, "variableValues") |-> One("variableValues", v)],
         !.inconsistent = \E v \in Vars : Cardinality(Entries(getters, "variableValues", v)) > 1,
         !.variableSynonyms =
            FoldLeft(MergeGroups, [groups |-> None, next |-> 0], getters).groups,
         !.variableNotZero = UNION {getters[i].variableNotZero : i \in DOMAIN getters},
         !.upperBound = [v \in Known(getters, "upperBound") |->
                           Min(Entries(getters, "upperBound", v))],
         !.lowerBound = [v \in Known(getters, "lowerBound") |->
                           Max(Entries(getters, "lowerBound", v))],
         !.usefulConditions =
            FlattenSeq([i \in DOMAIN getters |-> getters[i].usefulConditions])]

(* The group of v.                                                         *)
Synonyms(g, v) ==
  IF v \in DOMAIN g.variableSynonyms
    THEN {w \in DOMAIN g.variableSynonyms : g.variableSynonyms[w] = g.variableSynonyms[v]}
    ELSE {}

(* distributeInfo: value, not-zero, bounds and greater variables of one    *)
(* member of a group are those of all.                                     *)
SpreadValue(g, v) ==
  LET values == {g.variableValues[w] : w \in Synonyms(g, v) \cap DOMAIN g.variableValues}
  IN  IF values = {} THEN g
      ELSE [AddValue(g, v, TheConstant(values)) EXCEPT !.inconsistent = @ \/ Cardinality(values) > 1]

Spread(g) ==
  LET valued == FoldLeft(SpreadValue, g, HashOrder)
      Grouped == DOMAIN g.variableSynonyms
      Of(table, v) == {valued[table][w] : w \in Synonyms(g, v) \cap DOMAIN valued[table]}
      Have(table) == {v \in Grouped : Of(table, v) # {}}
      Above(v) == UNION {UNION {Synonyms(g, x) : x \in Cell(valued, "lessThanEqVars", w)} :
                           w \in Synonyms(g, v)}
      grown == {v \in Grouped : v \in DOMAIN g.lessThanEqVars}
  IN  [valued EXCEPT
         !.variableNotZero =
            @ \cup {v \in Grouped : Synonyms(g, v) \cap valued.variableNotZero # {}},
         !.upperBound = [v \in Have("upperBound") |-> Min(Of("upperBound", v))] @@ @,
         !.lowerBound = [v \in Have("lowerBound") |-> Max(Of("lowerBound", v))] @@ @,
         !.cells = [i \in DOMAIN @ |->
            @[i] \cup UNION {Above(v) : v \in {w \in grown : g.lessThanEqVars[w] = i}}]]

FinalInfo(getters, cells) ==
  LET merged == Merged(getters, cells)
  IN  IF merged.inconsistent THEN merged ELSE Spread(merged)

-----------------------------------------------------------------------------
(* What the summary says, in an environment.                               *)
InfoHolds(g, env) ==
  /\ \A v \in DOMAIN g.variableValues : env[v] = g.variableValues[v]
  /\ \A v \in Vars : \A t \in Cell(g, "variableEqualities", v) : env[v] = Value(t, env)
  /\ \A v \in Vars : \A w \in Synonyms(g, v) : env[v] = env[w]
  /\ \A v \in g.variableNotZero : env[v] # 0
  /\ \A v \in Vars : \A w \in Cell(g, "lessThanEqVars", v) : env[v] <= env[w]
  /\ \A v \in DOMAIN g.upperBound : env[v] <= g.upperBound[v]
  /\ \A v \in DOMAIN g.lowerBound : env[v] >= g.lowerBound[v]
  /\ \A i \in DOMAIN g.usefulConditions : Holds(g.usefulConditions[i], env)
=============================================================================
