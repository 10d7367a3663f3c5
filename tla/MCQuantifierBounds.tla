------------------------ MODULE MCQuantifierBounds ------------------------
(* Two bindings x and y over -1 .. 4, two environments, in which the free  *)
(* variable n is 2 and 4, and m is 3 and 1.                                *)
EXTENDS QuantifierBounds, FiniteSetsExt

x == 1
y == 2

MCEnv == 1 .. 2
MCValues == -1 .. 4
k(i) == [env \in MCEnv |-> i]
n == [env \in MCEnv |-> 2 * env]
m == [env \in MCEnv |-> 5 - 2 * env]
MCSimples == {k(i) : i \in -1 .. 5} \cup {n, m}

T(a, b, e) == [coef |-> <<a, b>>, e |-> e]
I(e) == T(0, 0, e)
X == T(1, 0, k(0))
Y == T(0, 1, k(0))
Choice(e1, e2, then, else) == [less |-> <<e1, e2>>, then |-> I(then), else |-> I(else)]

Quantifier(kind, conjuncts, triggers) ==
  [kind |-> kind, conjuncts |-> conjuncts, triggerVars |-> triggers]
Single(guard, index) == <<[id |-> 1, guard |-> guard, index |-> index]>>

(* Up to size of the conditions, in the order in which they are listed.    *)
QuantifiersOver(kinds, conditions, size, indices, triggers) ==
  {Quantifier(q[1], Single(SelectSeq(conditions, LAMBDA c : c \in q[2]), q[3]), q[4]) :
     q \in kinds \X (UNION {kSubset(s, Range(conditions)) : s \in 1 .. size})
             \X indices \X triggers}

-----------------------------------------------------------------------------
InRange == Member(X, I(k(0)), I(n))                    \* x \in {0..n}
Shifted == Compare(T(1, 0, k(1)), LESS, I(k(5)))       \* x + 1 < 5
Flipped == Compare(I(k(2)), GREATER, Y)                \* 2 > y
AtLeast == Compare(Y, GREATER_EQ, I(k(0)))             \* y >= 0
Fixed == Compare(T(0, 1, n), EQ, I(k(4)))              \* y + n = 4
Same == Compare(X, EQ, Y)
Sum == Compare(T(1, 1, k(0)), LESS_EQ, I(k(3)))        \* x + y <= 3
Hole == Compare(X, NEQ, I(k(1)))
Free == Compare(I(n), GREATER, I(k(2)))                \* n > 2
Least == Choice(n, k(3), n, k(3))                      \* n < 3 ? n : 3
Greatest == Choice(n, k(3), k(3), n)                   \* n < 3 ? 3 : n
ShiftedRange == Member(T(0, 1, k(1)), I(k(1)), Least)  \* y + 1 \in {1..min(n, 3)}
MaxRange == Member(Y, Choice(n, k(1), k(1), n), I(k(5))) \* y \in {n < 1 ? 1 : n..5}

Conjunct(i, guard, index) == [id |-> i, guard |-> guard, index |-> index]
Box(limit) == <<Member(X, I(k(0)), I(limit)), Compare(Y, EQ, I(k(1)))>>

Both == {"forall", "starall"}

(* A binding that the body does not mention has at most two bounds of a    *)
(* kind.  Where the checker cannot compare them, in the second set, its    *)
(* range is not empty.                                                     *)
OrdinaryQuantifiers ==
  QuantifiersOver(Both, <<InRange, Shifted, Flipped, AtLeast, Same, Sum>>, 3,
                  {X, T(0, 1, n)}, {{}, {y}})
  \cup QuantifiersOver(Both, <<Shifted, InRange, AtLeast, Flipped>>, 4, {T(0, 1, n)}, {{}})
  \cup QuantifiersOver(Both, <<InRange, Hole, Free, MaxRange>>, 4, {X}, {{}, {y}})
  \cup QuantifiersOver(Both, <<InRange, Flipped, AtLeast, Fixed, Same, Sum, ShiftedRange, MaxRange>>, 3,
                       {T(2, 1, k(0))}, {{}, {x, y}})
  \cup {Quantifier(kind, <<Conjunct(1, Box(n), X), Conjunct(2, g, T(1, 1, k(0)))>>, {x}) :
          kind \in Both, g \in {Box(n), <<>>}}

(* Three upper bounds, the least of them last.                             *)
ThreeBounds ==
  {Quantifier(kind, Single(<<AtLeast, Compare(Y, LESS, I(k(3))), Compare(Y, LESS, I(k(4))),
                             Compare(Y, LESS, I(k(2)))>>, X), {}) : kind \in Both}

(* Two upper bounds of which each is the least in some environment.        *)
IncomparableBounds ==
  {Quantifier("forall", Single(<<InRange, AtLeast, Compare(Y, LESS, I(Plus(n, -3))),
                                 Compare(Y, LESS, I(Plus(m, -1)))>>, X), {})}

(* x < (n < 3 ? 3 : n), with a binding that has one value.                 *)
SelectBound ==
  {Quantifier(kind, Single(<<Compare(X, GREATER_EQ, I(k(0))), Compare(X, LESS, Greatest),
                             Compare(Y, EQ, I(k(1)))>>, X), {}) : kind \in Both}

(* Two conjuncts, each under a condition of its own.                       *)
TwoGuards ==
  {Quantifier(kind, <<Conjunct(1, Box(n), X), Conjunct(2, Box(m), X)>>, {}) : kind \in Both}
=============================================================================
