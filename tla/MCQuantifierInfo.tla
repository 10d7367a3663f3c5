-------------------------- MODULE MCQuantifierInfo --------------------------
(* A small program text for QuantifierInfo. *)
EXTENDS QuantifierInfo

n == "n"
m == "m"
j == "j"
k == "k"

Four == <<n, m, j, k>>

(* Equalities, order and values; sums, implications and strictness; groups *)
(* of synonyms that join.                                                  *)
ThreePrograms ==
  { [ conditions |->
        { Eq(Var(n), Var(m)), Eq(Var(j), Var(k)), LessEq(Var(n), Var(k)),
          Eq(Var(j), Const(1)), Eq(Var(k), Const(2)) },
      independent |-> {LessEq(Var(n), Var(k)), Eq(Var(j), Const(1))} ],
    [ conditions |->
        { Eq(Var(m), Plus(j, 1)), Eq(Sum(j, k), Var(n)), Eq(Const(1), Var(j)), Less(Const(0), Var(k)),
          Implies(Eq(Const(1), Var(j)), Less(Var(k), Var(m))) },
      independent |-> {Eq(Var(m), Plus(j, 1))} ],
    [ conditions |->
        { Eq(Var(n), Var(m)), Eq(Var(j), Var(k)), Eq(Var(m), Var(k)), LessEq(Var(n), Const(1)),
          Neq(Var(n), Const(0)) },
      independent |-> {Eq(Var(m), Var(k))} ] }

FewAssigned == {{"j"}}

Values == 0 .. 2
=============================================================================
